----------------------------- MODULE Discovery -----------------------------
(***************************************************************************)
(* The providers of peer candidates behind one interface, and the          *)
(* coordinator that merges what they find.  The providers share the        *)
(* supervised generations, the view and its subscribers, and differ in the *)
(* worker.  A behaviour is one of a provider or of the coordinator, which  *)
(* meet in the view and its events.                                        *)
(***************************************************************************)
EXTENDS DynamicProvider

CONSTANTS
    Kinds,                                                  \* the providers that behaviours start from
    Soon,                                                   \* RetryInterval, RetryInitial
    Later,                                                  \* the longer intervals
    FileVersions, BadLine, MaxEdits,                        \* FileWatch
    Answers, Ttls,                                          \* DnsSrv
    OwnEndpoints, RemoteEndpoints, InstanceNames,           \* Mdns
    MaxInstances, MaxOwnHistory, NoEndpoint,
    MaxCachedCandidates, MaxResponseCandidates,             \* BootstrapGossip
    CandidateTtl, Seeds, Self, Others, OwnEndpoint, MaxEvents,
    Sources, Observing, Ttl, Spellings, Invalid, Views,     \* Candidates
    LocalEndpoints, CommandCapacity, MaxChanges

ASSUME DiscoveryAssumption ==
    /\ Kinds \subseteq {"file", "dns-srv", "mdns", "bootstrap", "bootstrap-seeds", "candidates"}
    /\ {Soon, Later, CandidateTtl, MaxResponseCandidates} \cup Ttls \subseteq Nat
    /\ NoEndpoint \notin OwnEndpoints
    /\ \A endpoints \in RemoteEndpoints : endpoints \in Seq(ToSet(endpoints))
    /\ Seeds \in Seq(ToSet(Seeds)) /\ Seeds # <<>>
    /\ Self \notin Others /\ ToSet(Seeds) \cap Others = {}
    /\ CommandCapacity \in Nat \ {0}
    /\ Sources \in Seq(ToSet(Sources)) /\ Observing \subseteq ToSet(Sources)
    /\ \A s \in ToSet(Sources) : Ttl[s] \in Nat
    /\ \A view \in Views : view \in Seq(DOMAIN Spellings)

VARIABLES
    kind,                                       \* the component of this behaviour
    registry, published, commands, views,       \* of Candidates
    tasks, changes, held

coordinatorVars == <<registry, published, commands, views, tasks, changes, held>>
allVars == <<vars, kind, coordinatorVars>>

\* One subscriber, or none, where the worker has many states.
OneClient == {CHOOSE c \in Clients : TRUE}

File == INSTANCE FileWatch
Dns == INSTANCE DnsSrv
          WITH Clients <- OneClient, BadRecord <- BadLine, RetryInterval <- Soon, MaxRefreshInterval <- Later,
               MaxTime <- MaxTime + 3
Lan == INSTANCE Mdns WITH Clients <- {}, MaxTime <- 0
Gossip == INSTANCE BootstrapGossip
          WITH Clients <- {}, RefreshInterval <- Later, RetryInitial <- Soon, RetryMax <- Later,
               StaleAfter <- Later, MaxTime <- MaxTime + 3, MaxGens <- 1,
               Seeds <- SubSeq(Seeds, 1, 1), MaxEvents <- MaxEvents + 1
GossipOfSeeds == INSTANCE BootstrapGossip
          WITH Clients <- {}, RefreshInterval <- Later, RetryInitial <- Soon, RetryMax <- Later,
               StaleAfter <- Later, MaxTime <- MaxTime + 1, MaxGens <- 1, CandidateTtl <- CandidateTtl - 1
Coordinator == INSTANCE Candidates WITH MaxTime <- MaxTime + 1

Init ==
    /\ kind \in Kinds
    /\ IF kind = "candidates" THEN Coordinator!Init
       ELSE /\ registry = 0 /\ published = 0 /\ commands = 0 /\ views = 0
            /\ tasks = 0 /\ changes = 0 /\ held = 0
    /\ CASE kind = "file" -> File!Init
         [] kind = "dns-srv" -> Dns!Init
         [] kind = "mdns" -> Lan!Init
         [] kind = "bootstrap" -> Gossip!Init
         [] kind = "bootstrap-seeds" -> GossipOfSeeds!Init
         [] kind = "candidates" -> ProviderInit /\ worker = 0 /\ world = 0

Next ==
    /\ UNCHANGED kind
    /\ \/ /\ \/ kind = "file" /\ File!Next
             \/ kind = "dns-srv" /\ Dns!Next
             \/ kind = "mdns" /\ Lan!Next
             \/ kind = "bootstrap" /\ Gossip!Next
             \/ kind = "bootstrap-seeds" /\ GossipOfSeeds!Next
          /\ UNCHANGED coordinatorVars
       \/ /\ kind = "candidates" /\ Coordinator!Next
          /\ UNCHANGED <<providerVars, worker, world>>

Spec == Init /\ [][Next]_allVars

-----------------------------------------------------------------------------
(* The properties of the single components; those of DynamicProvider hold *)
(* for all providers.                                                      *)

\* FileWatch: the view is one whole valid version of the file (FollowsTheFile
\* there).  DnsSrv: no peer outlives its DNS lifetime (ViewIsUnexpired there).
ViewIsValid ==
    /\ kind = "file" => File!FollowsTheFile
    /\ kind = "dns-srv" => Dns!ViewIsUnexpired

\* Mdns: the node does not list itself, stays announced, leaves no service behind
\* and keeps as many as the limit allows (ServiceInv there).
ServiceInv == kind = "mdns" => Lan!ServiceInv

\* BootstrapGossip: suggestions are recent and the cleanup withdraws the
\* announcement (AnnouncementInv there).
AnnouncementInv ==
    /\ kind = "bootstrap" => Gossip!AnnouncementInv
    /\ kind = "bootstrap-seeds" => GossipOfSeeds!AnnouncementInv

\* Candidates: the published list is the merge of what is live, leases are
\* honoured and refused views leave no trace (CandidatesInv there).
CandidatesInv == kind = "candidates" => Coordinator!CandidatesInv
=============================================================================
