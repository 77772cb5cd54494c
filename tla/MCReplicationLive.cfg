\* Limits that retain everything; a bounded number of faults of every kind.
SPECIFICATION FairSpec
CONSTANTS
    Nodes = {n1, n2}
    Ops = {o1}
    SeenLimit = 1
    OpLogLimit = 1
    QueueCap = 1
    BatchMax = 2
    ChanCap = 2
    MaxApplied = 1
    MaxFaults = 3
    WriteBehind = FALSE
PROPERTIES
    LoggedReachesEveryNode
    AcceptedReachesEveryNode
