\* A notify that the expiry thread misses.
SPECIFICATION Spec
CONSTANTS
    Id = {i1, i2}
    Caller = {c1}
    Sender = sender
    Feedback = feedback
    Expiry = expiry
    Receiver = receiver
    None = none
    Timeout = 1
    MaxIn = 1
    MaxFeedback = 1
INVARIANT NothingToDo
