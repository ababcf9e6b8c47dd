SPECIFICATION ThreadsSpec
CONSTANTS
    Workers = 4
    Outstanding = 4
    MaxBuffer = 4
    Id = {i1, i2}
    Caller = {c1}
    Sender = sender
    Feedback = feedback
    Expiry = expiry
    Receiver = receiver
    None = none
    Timeout = 1
    MaxIn = 1
    MaxFeedback = 1
INVARIANT Awake
PROPERTY Told
INVARIANT QueuesWake
INVARIANT InTime
PROPERTY Yields
