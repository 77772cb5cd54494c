\* A crash that loses the unflushed write of a register; clocks run forward.
SPECIFICATION Spec
CONSTANTS
    Kinds = {"LwwRegister"}
    Nodes = {1, 2}
    MaxCalls = 3
    Values = {1, 2}
    MaxTime = 1
    Fields = {f1}
    Elements = {e1, e2}
    Ids = {1, 2, 3}
    Deltas = {1, 3}
    Width = 2
    WriteBehind = TRUE
    RegisterWriteBehind = TRUE
    SteadyClocks = TRUE
INVARIANTS
    SameOpsSameObject
