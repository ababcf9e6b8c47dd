SPECIFICATION FairAxisSpec
CONSTANTS
    Axis = axis
    Commander = {c1, c2}
    Reach = 3
    Targets = {0, 2}
    Near = 1
    Fittings <- AllFittings
    Zero = 1
    Retries = 2
    MaxCmds = 2
    Kinds = {"target", "home", "hold", "zero", "free"}
    Nobody = none
INVARIANT ReportOnce
PROPERTY Ends
PROPERTY Comes
PROPERTY Served
CHECK_DEADLOCK FALSE
