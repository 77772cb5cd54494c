SPECIFICATION Spec
CONSTANTS
    e1 = e1
    e2 = e2
    e3 = e3
    s1 = s1
    s2 = s2
    E1 = E1
    bad = bad
    Clients = {c1, c2}
    EventCapacity = 1
    MaxCandidates = 2
    MaxGens = 2
    MaxTime = 1
    Kinds = {"file", "dns-srv", "mdns", "bootstrap", "bootstrap-seeds", "candidates"}
    Soon = 1
    Later = 2
    FileVersions <- MCFileVersions
    BadLine = bad
    MaxEdits = 2
    Answers <- MCAnswers
    Ttls = {0, 1, 3}
    OwnEndpoints = {e2, e3}
    RemoteEndpoints <- MCRemoteEndpoints
    InstanceNames = {i1, i2}
    MaxInstances = 2
    MaxOwnHistory = 3
    NoEndpoint = none
    MaxCachedCandidates = 1
    MaxResponseCandidates = 2
    CandidateTtl = 2
    Seeds <- MCSeeds
    Self = self
    Others = {o1}
    OwnEndpoint = e1
    MaxEvents = 1
    Sources <- MCSources
    Observing = {"dns-srv"}
    Ttl <- MCTtl
    Spellings <- MCSpellings
    Invalid = bad
    Views <- MCViews
    LocalEndpoints = {e3}
    CommandCapacity = 1
    MaxChanges = 2
INVARIANTS
    SubscribersAreServed
    GenerationsAreSeparate
    ViewIsValid
    ServiceInv
    AnnouncementInv
    CandidatesInv
CHECK_DEADLOCK FALSE
