\* Three nodes: an operation reaches a node through a relay's log.
SPECIFICATION Spec
CONSTANTS
    Nodes = {n1, n2, n3}
    Ops = {o1, o2}
    SeenLimit = 2
    OpLogLimit = 1
    QueueCap = 1
    BatchMax = 1
    ChanCap = 1
    MaxApplied = 2
    MaxFaults = 1
    WriteBehind = FALSE
SYMMETRY NodeAndOpSymmetry
INVARIANTS
    TypeOK
    RecordedBeforeExposed
    AppliedAtMostOnce
PROPERTIES
    AppliedStays
