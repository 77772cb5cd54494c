\* One endpoint that is dialed again after its connection failed.
SPECIFICATION Spec
CONSTANTS
    Endpoints = {e1}
    Sockets = {}
    MaxPeers = 2
    QueueCap = 2
    MaxGens = 2
    Writers = {"broadcast"}
INVARIANTS
    ActiveIsKnown
CHECK_DEADLOCK FALSE
