\* Three host calls on a key of each type, four on a sequence.
SPECIFICATION Spec
CONSTANTS
    Kinds = {"LwwRegister", "LwwMap", "ORSet", "PNCounter", "Rga"}
    Nodes = {1, 2}
    MaxCalls = 3
    Values = {1, 2}
    MaxTime = 1
    Fields = {f1}
    Elements = {e1, e2}
    Ids = {1, 2, 3}
    Deltas = {1, 3}
    Width = 2
    WriteBehind = TRUE
    RegisterWriteBehind = FALSE
    SteadyClocks = FALSE
INVARIANTS
    SameOpsSameObject
    LwwInv
    SetInv
    CounterInv
    SequenceInv
PROPERTIES
    WriteIsVisible
