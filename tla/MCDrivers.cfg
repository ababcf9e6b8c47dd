SPECIFICATION DriversSpec
CONSTANTS
    Caller = {c1, c2}
    None = none
    WriteSizes = {0, 1, 2}
    ReadSizes = {0, 1, 3}
    SpiFifo = 2
    TxSizes = {0, 1, 2, 4}
    RxSizes = {0, 1, 2, 4}
    Driver = {t1, t2}
    Ring = 3
    UartFifo = 2
    UartSizes = {2, 5}
    RequestSize = 3
    ReplySize = 3
    Heard = 6
    Reader = t1
    Before = 2
    Numbers = 2
    Sensing = {t1, t2}
    Line = {l1, l2, p}
    Proximity = p
    Setup = 3
    Far = 9
    Unknown = 255
INVARIANT Truthful
INVARIANT OneNotice
INVARIANT ReadsTrue
PROPERTY UartWhole
PROPERTY AllReturn
