SPECIFICATION DriverSpec
CONSTANTS
    Byte = {x, y}
    Size = 3
    Fifo = 2
    Sizes = {1, 2, 3}
    MaxBytes = 6
    None = none
    WriteSizes = {1, 2, 4}
    MaxWrites = 3
INVARIANT Intact
INVARIANT NotAsleep
PROPERTY IsQueue
INVARIANT TxWhole
INVARIANT TxAnnounced
PROPERTY TxReturns
CHECK_DEADLOCK FALSE
