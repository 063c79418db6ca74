SPECIFICATION FairSpec
CONSTANTS
    Task = {t1, t2}
    PER_RECV = 2
    Requests = {1, 3}
    MaxDuring = 1
    MaxLost = 2
    MaxSends = 3
INVARIANT RecvInOrder
INVARIANT WithinBuffers
INVARIANT SentInOrder
PROPERTY CallsReturn
