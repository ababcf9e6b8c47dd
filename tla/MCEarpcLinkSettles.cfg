\* Two calls, both of the device, both of the host, or one of each; or one
\* call whose incoming record expires.  A link that in the end is reliable.
SPECIFICATION SettlingSpec
CONSTANTS
    Cid = {1, 2}
    Payload = {v}
    Sized = {v}
    Worker = {w1}
    None = None
    DCalls = 2
    HCalls = 2
    MaxQueue = 1
    Lapses = 1
    Capacity = 1
PROPERTY Settles
CHECK_DEADLOCK FALSE
