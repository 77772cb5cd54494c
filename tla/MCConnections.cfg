\* A dialed endpoint and two addresses of peers share two permits: three
\* attempts compete for them and replace each other.
SPECIFICATION Spec
CONSTANTS
    Endpoints = {e1}
    Sockets = {s1, s2}
    MaxPeers = 2
    QueueCap = 1
    MaxGens = 3
    Writers = {"broadcast"}
SYMMETRY SocketSymmetry
INVARIANTS
    TypeOK
    PermitsConserved
    MapIsOwned
    ClosedIsEmpty
    EndsAreReported
\* MaxGens bounds the attempts.
CHECK_DEADLOCK FALSE
