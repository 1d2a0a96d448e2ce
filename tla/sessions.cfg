SPECIFICATION FairSpec
CONSTANTS
    c1 = c1
    c2 = c2
    i1 = i1
    i2 = i2
    Users = {u1, u2}
    Conns = {c1, c2}
    StreamIds = {i1, i2}
    Targets <- ThreeStreams
    Senders = {s1}
    NoSession = NoSession
    Free = Free
    MaxOps = 2
INVARIANTS TypeOK ResultAccountsForQueues
PROPERTIES QueuedForOwner CallbackCompletes
CHECK_DEADLOCK FALSE
