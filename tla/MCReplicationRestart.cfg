\* Crashes that lose the unflushed tail of sled's writes; three ids do not
\* fit the seen list and two do not fit the log.
SPECIFICATION Spec
CONSTANTS
    Nodes = {n1, n2}
    Ops = {o1, o2, o3}
    SeenLimit = 2
    OpLogLimit = 1
    QueueCap = 2
    BatchMax = 2
    ChanCap = 1
    MaxApplied = 2
    MaxFaults = 1
    WriteBehind = TRUE
SYMMETRY NodeAndOpSymmetry
INVARIANTS
    RestartRecoversMemory
\* MaxApplied, a bound of the model, stops a node from applying a forgotten
\* operation for ever.
CHECK_DEADLOCK FALSE
