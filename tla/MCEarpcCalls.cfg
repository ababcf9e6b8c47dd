\* The outgoing calls: three calls under three ids, so that two can be parked,
\* against a peer that sends anything.
SPECIFICATION Spec
CONSTANTS
    Cid = {c1, c2, c3}
    Payload = {good}
    Sized = {good}
    Worker = {w1}
    NCalls = 3
    MaxQueue = 1
    None = None
SYMMETRY Ids
INVARIANT TypeOK
INVARIANT OneAtATime
INVARIANT UniqueIds
INVARIANT Resent
PROPERTY ParkedEnds
CHECK_DEADLOCK FALSE
