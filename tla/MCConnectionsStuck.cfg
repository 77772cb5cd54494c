\* One peer, which asks for operations and goes away.
SPECIFICATION FairSpec
CONSTANTS
    Endpoints = {}
    Sockets = {s1}
    MaxPeers = 1
    QueueCap = 1
    MaxGens = 1
    Writers = {}
PROPERTIES
    EventLoopReturns
CHECK_DEADLOCK FALSE
