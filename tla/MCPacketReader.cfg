\* Packets that look like frames, filler, a lost byte, and a deque of two.
SPECIFICATION FairSpec
CONSTANTS
    MaxByte = 3
    Start = 2
    Stop = 1
    Reader = r
    Receiver = x
    MaxIncoming = 2
    MaxWire = 8
    MaxFrames = 4
    MaxFill = 1
    MaxLost = 1
    Packet <- SmallPackets
INVARIANT Framed
INVARIANT Latest
PROPERTY Drains
PROPERTY Accepts
CHECK_DEADLOCK FALSE
