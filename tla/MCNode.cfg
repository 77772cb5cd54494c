SPECIFICATION Spec
CONSTANTS
    a = a
    b = b
    Kinds = {"migration", "reconnect", "walk", "guest", "api", "process", "config", "frames", "codec"}
    MaxCrashes = 1
    MaxWrites = 2
    MaxCap = 4
    Tables <- MCTables
    Registry <- MCRegistry
    Rows = {1, 2, 3}
    Options <- MCOptions
    Offers <- MCOffers
    MaxPeers = 1
    MaxOthers = 1
    InitialDelay = 1
    MaxDelay = 2
    RetryAfters = {0, 2}
    DeadAfter = 2
    EventCapacity = 1
    Keys <- MCKeys
    EmptyKey = 1
    Reserved = {3, 4}
    SizeOf <- MCSizeOf
    PageLimits = {1, 2}
    ScanLimit = 2
    MaxBody = 4
    FirstCap = 1
    MaxValueLen = 4
    SmallCap = 1
    LargeCap = 2
    IdSize = 2
    RowSize = 2
    MaxRows = 2
    MaxChanges = 2
    QueueLimit = 1
    Requests = {r1, r2, r3}
    Modules = {m1, m2}
    Permits = 2
    MaxFlushFailures = 1
    MaxRequests = 4
    NoRequest = none
    NoModule = none
    Providers = {p1, p2}
    Ops = {o1, o2, o3}
    BatchMax = 1
    SettingGroups <- MCSettingGroups
    MaxSettings = 5
    DefaultCandidates = 3
    MaxBootstrapCandidates = 4
    Payload <- MCPayload
    Checked <- MCChecked
    Senders = {s1, s2}
    MaxMessageSize = 3
    SocketBuffer = 4
    MaxCells = 6
    MaxField = 1
    MaxItems = 2
INVARIANTS
    MigrationInv
    ReconnectInv
    WalkIsSound
    CallsAreFaithful
    ApiInv
    ProcessInv
    SettingsAgree
    FramesArrive
    EncodingsAgree
PROPERTIES
    EveryBatchAdvances
    CandidateIsDialled
    ShutdownEnds
CHECK_DEADLOCK FALSE
