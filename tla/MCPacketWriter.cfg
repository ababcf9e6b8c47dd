SPECIFICATION FairSpec
CONSTANTS
    Sender = {s1, s2, s3}
    Writer = w
    Packet = {p, q}
    MaxOutgoing = 2
    MaxSends = 4
    MaxShort = 1
    None = None
INVARIANT Exclusive
INVARIANT RoomKept
PROPERTY KeepsOrder
PROPERTY AllWritten
CHECK_DEADLOCK FALSE
