\* A crash that loses the unflushed tail of sled's writes; the seen list has
\* room for every id.
SPECIFICATION Spec
CONSTANTS
    Nodes = {n1, n2}
    Ops = {o1}
    SeenLimit = 1
    OpLogLimit = 1
    QueueCap = 1
    BatchMax = 1
    ChanCap = 1
    MaxApplied = 2
    MaxFaults = 1
    WriteBehind = TRUE
INVARIANTS
    AppliedAtMostOnce
