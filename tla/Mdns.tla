-------------------------------- MODULE Mdns --------------------------------
(***************************************************************************)
(* The provider that browses the local network and announces this node     *)
(* there.  Each generation has a daemon of its own (a library); what it    *)
(* has registered is known on the network until it is withdrawn.           *)
(***************************************************************************)
EXTENDS DynamicProvider

CONSTANTS
    OwnEndpoints,     \* endpoints that this node may be asked to announce
    RemoteEndpoints,  \* sequences of endpoints with which a service may be resolved
    InstanceNames,    \* of services on the network
    MaxInstances,
    MaxOwnHistory,    \* MAX_OWN_HISTORY
    NoEndpoint

(* owned.keys are the names a service was registered under, here the number
   of the registration; owned.names also holds the names it was given after
   conflicts.  withdrawing is the key that a replacement is withdrawing. *)
NothingOwned == [current |-> NoEndpoint, keys |-> {}, names |-> {}, endpoints |-> {}, generation |-> 0]
NoWorker == [instances |-> <<>>, owned |-> NothingOwned, withdrawing |-> {}]

validate_config == EventCapacity > 0 /\ MaxInstances > 0 /\ MaxCandidates > 0

Init ==
    /\ validate_config
    /\ ProviderInit
    /\ worker = NoWorker
    /\ world = [own |-> NoEndpoint, queue |-> <<>>, registered |-> {}]

\* OwnedAnnouncements
accept(owned, endpoint) ==
    LET key == owned.generation
    IN  [current |-> endpoint, keys |-> owned.keys \cup {key}, names |-> owned.names \cup {key},
         endpoints |-> owned.endpoints \cup {endpoint}, generation |-> key + 1]

matches(owned, name, endpoints) == name \in owned.names \/ ToSet(endpoints) \cap owned.endpoints # {}

-----------------------------------------------------------------------------
(* The view: services in the order of their first resolution. *)

remove_instance(instances, name) == At(instances, {i \in DOMAIN instances : instances[i].name # name})

remove_owned_instances(owned, instances) ==
    At(instances, {i \in DOMAIN instances : ~matches(owned, instances[i].name, instances[i].endpoints)})

\* The number of endpoints of all services together.
Retained(instances) == Cardinality(UNION {{i} \X DOMAIN instances[i].endpoints : i \in DOMAIN instances})

\* A service takes what room the others leave; one without room is dropped.
store_instance(instances, name, endpoints) ==
    LET known == \E i \in DOMAIN instances : instances[i].name = name
        room  == MaxCandidates - Retained(remove_instance(instances, name))
        kept  == SubSeq(endpoints, 1, IF room < Len(endpoints) THEN room ELSE Len(endpoints))
        view  == [name |-> name, endpoints |-> kept, at |-> now]
    IN  IF ~known /\ Len(instances) >= MaxInstances THEN instances
        ELSE IF kept = <<>> THEN remove_instance(instances, name)
        ELSE IF known THEN [i \in DOMAIN instances |-> IF instances[i].name = name THEN view ELSE instances[i]]
        ELSE Append(instances, view)

flatten_instances(instances) ==
    LET all == Distinct(FlattenSeq([i \in DOMAIN instances |-> instances[i].endpoints]))
    IN  SubSeq(all, 1, IF Len(all) < MaxCandidates THEN Len(all) ELSE MaxCandidates)

\* An endpoint has the latest observation of the services that have it.
publish_instances(instances) ==
    LET peers == flatten_instances(instances)
        seen(p) == {instances[i].at : i \in {j \in DOMAIN instances : Contains(instances[j].endpoints, p)}}
    IN  observe_at([k \in DOMAIN peers |->
            [peer |-> peers[k], at |-> CHOOSE t \in seen(peers[k]) : \A u \in seen(peers[k]) : u <= t]])

-----------------------------------------------------------------------------
(* Generations *)

Registration(key) == <<Len(gens), key>>

\* The endpoint of the last generation is registered again.  (A daemon that does
\* not start, browse or register fails the call and leaves nothing behind.)
start_generation ==
    LET restored == IF world.own = NoEndpoint THEN NothingOwned ELSE accept(NothingOwned, world.own)
        locals   == [NoWorker EXCEPT !.owned = restored]
    IN  /\ Discover(locals) \/ \E c \in Clients : StartGeneration(c, locals)
        /\ world' = [world EXCEPT !.queue = <<>>,
                                  !.registered = @ \cup {<<Len(gens) + 1, k>> : k \in restored.keys}]

Stop == RequestShutdown /\ world' = [world EXCEPT !.own = NoEndpoint]

\* The worker breaks its loop: after a stop, or with a failed stream or daemon.
\* Queued announcements are answered with an error.
WorkerEnds ==
    /\ worker.withdrawing = {}
    /\ \E result \in {r \in Results \ {"fatal"} : r = "ok" => stopped} : WorkerReturns(result)
    /\ world' = [world EXCEPT !.queue = <<>>]
    /\ UNCHANGED worker

\* shutdown_daemon_until: every key is withdrawn and the daemon terminated, each
\* within its part of the deadline.  What is not acknowledged may have happened
\* or not; a daemon that did not terminate is told again without waiting.
Cleanup(g) ==
    \E acked \in SUBSET worker.owned.keys, terminated \in BOOLEAN :
        /\ \E unheard \in SUBSET (worker.owned.keys \ acked) :
              world' = [world EXCEPT !.registered = @ \ {<<g, k>> : k \in acked \cup unheard},
                                     !.own = IF stopped THEN NoEndpoint ELSE @]
        /\ worker' = NoWorker
        /\ Complete(g, acked = worker.owned.keys /\ terminated)

-----------------------------------------------------------------------------
(* Announcements *)

\* announce, of a provider that runs.
Announce(endpoint) ==
    /\ Alive /\ ~stopped
    /\ Len(world.queue) < EventCapacity
    /\ world' = [world EXCEPT !.queue = Append(@, endpoint)]
    /\ UNCHANGED <<providerVars, worker, now>>

Idling == Alive /\ worker.withdrawing = {}

\* What follows a transaction, whatever its result.
Announced(owned) ==
    LET others == remove_owned_instances(owned, worker.instances)
    IN  /\ worker' = [instances |-> others, owned |-> owned, withdrawing |-> {}]
        /\ publish_instances(others)

HistoryFull(owned) ==
    Cardinality(owned.names) >= MaxOwnHistory \/ Cardinality(owned.endpoints) >= MaxOwnHistory

\* The new service is registered under a key of its own, before the old one
\* goes; a registration that fails leaves the old one.
Register ==
    LET endpoint == Head(world.queue)
        owned    == accept(worker.owned, endpoint)
        rest     == [world EXCEPT !.queue = Tail(@)]
        added    == [rest EXCEPT !.registered = @ \cup {Registration(worker.owned.generation)}]
        former   == worker.owned.current # NoEndpoint
    IN  /\ Idling /\ ~stopped /\ world.queue # <<>>
        /\ \/ /\ world' = rest
              /\ Announced(worker.owned)
           \/ /\ ~HistoryFull(worker.owned)
              /\ former
              /\ world' = added
              /\ worker' = [worker EXCEPT !.owned = owned, !.withdrawing = worker.owned.keys]
              /\ UNCHANGED <<state, subs>>
           \/ /\ ~HistoryFull(worker.owned)
              /\ ~former
              /\ world' = [added EXCEPT !.own = endpoint]
              /\ Announced(owned)
        /\ UNCHANGED <<gens, stopped, now>>

\* The old service is withdrawn and forgotten.
WithdrawFormer ==
    /\ Alive /\ worker.withdrawing # {}
    /\ world' = [world EXCEPT !.own = worker.owned.current,
                              !.registered = @ \ {Registration(k) : k \in worker.withdrawing}]
    /\ Announced([worker.owned EXCEPT !.keys = @ \ worker.withdrawing])
    /\ UNCHANGED <<gens, stopped, now>>

\* No acknowledgement in time, or a stop: the view is published without our
\* services, and the worker ends and leaves both keys to the cleanup.  The daemon
\* may have heard.
WithdrawalFails ==
    /\ Alive /\ worker.withdrawing # {}
    /\ gens' = [gens EXCEPT ![Len(gens)].phase = "joined",
                             ![Len(gens)].result = IF stopped THEN "ok" ELSE "retryable"]
    /\ Announced(worker.owned)
    /\ \E heard \in {{}, worker.withdrawing} :
          world' = [world EXCEPT !.own = worker.owned.current, !.queue = <<>>,
                                 !.registered = @ \ {Registration(k) : k \in heard}]
    /\ UNCHANGED <<stopped, now>>

-----------------------------------------------------------------------------
(* Events of the daemon *)

View(instances) ==
    /\ worker' = [worker EXCEPT !.instances = instances]
    /\ publish_instances(instances)
    /\ now' \in {t \in {now, now + 1} : t <= MaxTime}
    /\ UNCHANGED <<gens, stopped, world>>

\* ServiceResolved: our own services, under any name, and those of other
\* clusters are not listed.
Resolved(name, endpoints, sameCluster) ==
    /\ Idling
    /\ View(IF matches(worker.owned, name, endpoints) \/ ~sameCluster
            THEN remove_instance(worker.instances, name)
            ELSE store_instance(worker.instances, name, endpoints))

Removed(name) ==
    /\ Idling
    /\ \E i \in DOMAIN worker.instances : worker.instances[i].name = name
    /\ View(remove_instance(worker.instances, name))

\* Faulty variant: what was resolved under the new name stays.
NameChange_keeps_instance(original, name) ==
    /\ Idling
    /\ original \in worker.owned.names
    /\ worker' = [worker EXCEPT !.owned.names = @ \cup {name}]
    /\ UNCHANGED <<providerVars, world, now>>

\* A conflict renamed our service; the view may hold it under the new name.
\* (With a full history the worker ends: WorkerEnds.)
NameChange(original, name) ==
    /\ Idling
    /\ original \in worker.owned.names
    /\ Cardinality(worker.owned.names \cup {name}) <= MaxOwnHistory
    /\ Announced([worker.owned EXCEPT !.names = @ \cup {name}])
    /\ UNCHANGED <<gens, stopped, world, now>>

Next ==
    \/ ProviderNext
    \/ Stop
    \/ start_generation
    \/ \E endpoint \in OwnEndpoints : Announce(endpoint)
    \/ Register
    \/ WithdrawFormer
    \/ WithdrawalFails
    \/ \E name \in InstanceNames \cup worker.owned.names, endpoints \in RemoteEndpoints, same \in BOOLEAN :
          Resolved(name, endpoints, same)
    \/ \E name \in InstanceNames : Removed(name)
    \/ \E original \in worker.owned.names, name \in InstanceNames : NameChange(original, name)
    \/ WorkerEnds
    \/ \E g \in DOMAIN gens : Cleanup(g)

-----------------------------------------------------------------------------
\* Between transactions the view lists neither a name nor an endpoint that this
\* node has announced in this generation, whenever the daemon reports it.
OwnServiceNotListed ==
    Idling => \A i \in DOMAIN worker.instances :
                 ~matches(worker.owned, worker.instances[i].name, worker.instances[i].endpoints)

\* Once announced, this node stays announced: through replacements, failed
\* registrations and restarts of the daemon, until it is told to stop.
StaysAnnounced ==
    Alive /\ world.own # NoEndpoint =>
        /\ worker.owned.current # NoEndpoint
        /\ Registration(worker.owned.generation - 1) \in world.registered

\* When a cleanup is confirmed the network knows no service of the generation.
ConfirmedCleanupRetires ==
    \A g \in DOMAIN gens : gens[g].phase = "done" /\ gens[g].clean =>
        \A r \in world.registered : r[1] # g

\* What is kept of all services together fits max_candidates.
InstancesAreBounded == Retained(worker.instances) <= MaxCandidates

\* What the provider lists and what it announces (run_mdns, shutdown_daemon_until).
ServiceInv ==
    /\ OwnServiceNotListed
    /\ StaysAnnounced
    /\ ConfirmedCleanupRetires
    /\ InstancesAreBounded
=============================================================================
