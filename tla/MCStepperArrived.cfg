SPECIFICATION AxisSpec
CONSTANTS
    Axis = axis
    Commander = {c1, c2}
    Reach = 2
    Targets = {0, 2}
    Near = 1
    Fittings <- AllFittings
    Zero = 1
    Retries = 2
    MaxCmds = 2
    Kinds = {"target"}
    Nobody = none
PROPERTY Arrived
CHECK_DEADLOCK FALSE
