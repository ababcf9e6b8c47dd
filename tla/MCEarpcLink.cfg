\* Up to two calls: one of each endpoint, or two of the host.
SPECIFICATION Spec
CONSTANTS
    Cid = {c1, c2}
    Payload = {v}
    Sized = {v}
    Worker = {w1}
    None = None
    DCalls = 1
    HCalls = 2
    MaxQueue = 1
    Lapses = 1
    Capacity = 1
SYMMETRY Ids
INVARIANT AtMostOnce
INVARIANT Genuine
INVARIANT NothingRejected
CHECK_DEADLOCK FALSE
