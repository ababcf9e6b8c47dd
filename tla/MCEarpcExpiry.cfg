\* The callbacks and what callers see: no symmetry, for the liveness property.
SPECIFICATION ExpirySpec
CONSTANTS
    Cid = {c1, c2}
    Payload = {good, bad}
    Sized = {good}
    Worker = {w1}
    NCalls = 2
    MaxQueue = 1
    None = None
INVARIANT ToldOnce
PROPERTY ServesCallers
PROPERTY Completes
CHECK_DEADLOCK FALSE
