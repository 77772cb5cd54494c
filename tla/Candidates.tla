----------------------------- MODULE Candidates -----------------------------
(***************************************************************************)
(* The discovery coordinator: one registry of peer candidates, fed by a    *)
(* watch task for each provider through one command queue, and published   *)
(* to the reconnect loop.  A provider is what its watch shows: a view that *)
(* changes, an error, a new subscription.  Modules of the single providers *)
(* say what is in the view.                                                *)
(***************************************************************************)
EXTENDS Integers, Sequences, SequencesExt, FiniteSets, FiniteSetsExt, Selection

CONSTANTS
    Sources,         \* sequence of provider ids, in configuration order
    Observing,       \* the providers whose snapshots carry observation times
    Ttl,             \* per source, candidate_ttl; 0 if it has none
    Spellings,       \* what a provider may name, with its canonical endpoint
    Invalid,         \* in Spellings: what no endpoint is
    Views,           \* sequences of spellings that a provider may show
    LocalEndpoints,  \* the node's own endpoints
    MaxCandidates,   \* max_candidates of the coordinator
    CommandCapacity, \* of the command queue
    MaxChanges,      \* bound: changes and failures of providers
    MaxTime          \* bound: of the clock

VARIABLES
    registry,   \* CandidateRegistry
    published,  \* the candidates that the reconnect loop sees
    commands,   \* the command queue
    views,      \* per provider, what it shows, with observation times
    tasks,      \* per source, its watch task
    now, changes,
    held        \* ghost: per source, the views it has shown

vars == <<registry, published, commands, views, tasks, now, changes, held>>

SourceSet == ToSet(Sources)
Endpoints == {Spellings[p] : p \in DOMAIN Spellings} \ {Invalid}

\* Expiry of a contribution; a source that contributes nothing is absent.
Absent == -1
Forever == MaxTime + 100

canonicalize_endpoint(p) == Spellings[p]

\* The endpoints of a view.
Named(view) == {canonicalize_endpoint(view[i].peer) : i \in DOMAIN view} \ {Invalid}

-----------------------------------------------------------------------------
(* CandidateRegistry: who contributes which endpoint until when, and the order
   in which each source lists its candidates. *)

Records(reg) == {e \in Endpoints : \E s \in SourceSet : reg.until[s][e] # Absent}

\* What a source lists and contributes.
Live(reg, s) == At(reg.lists[s], {i \in DOMAIN reg.lists[s] : reg.until[s][reg.lists[s][i]] # Absent})

\* Sources in configuration order, each with its candidates, every endpoint once.
rebuild_order(reg) == Distinct(FlattenSeq([i \in DOMAIN Sources |-> Live(reg, Sources[i])]))

endpoints(reg) == At(reg.order, {i \in DOMAIN reg.order : reg.order[i] \in Records(reg)})

\* prune_source_candidates, then rebuild_order.
Pruned(reg) ==
    LET pruned == [reg EXCEPT !.lists = [s \in SourceSet |-> Live(reg, s)]]
    IN  [pruned EXCEPT !.order = rebuild_order(pruned)]

\* The whole replacement happens, or, without room for all of it, nothing does.
\* The node's own endpoints are listed, and contributed by nobody.
replace_contributions(reg, s, list, until) ==
    LET taken    == ToSet(list) \ reg.local
        replaced == [reg EXCEPT !.lists[s] = list,
                                !.until[s] = [e \in Endpoints |-> IF e \in taken THEN until[e] ELSE Absent]]
    IN  IF Cardinality(Records(replaced)) > MaxCandidates THEN [ok |-> FALSE, reg |-> reg]
        ELSE [ok |-> TRUE, reg |-> [replaced EXCEPT !.order = rebuild_order(replaced)]]

\* The distinct endpoints of a view in the order of their first occurrence.
Listed(view) ==
    LET named == [i \in DOMAIN view |-> canonicalize_endpoint(view[i].peer)]
    IN  Distinct(At(named, {i \in DOMAIN view : named[i] # Invalid}))

\* A view without observation times: leases begin when the command is applied.
replace_source(reg, s, view) ==
    LET until == [e \in Endpoints |-> IF Ttl[s] = 0 THEN Forever ELSE now + Ttl[s]]
    IN  IF Len(view) > MaxCandidates THEN [ok |-> FALSE, reg |-> reg]
        ELSE replace_contributions(reg, s, Listed(view), until)

\* Faulty variant: a snapshot renews every lease.
replace_snapshot_renewing(reg, s, view) == replace_source(reg, s, view)

\* The observations of a view whose lease has not ended.
Fresh(view, s) == At(view, {i \in DOMAIN view : Ttl[s] = 0 \/ view[i].at + Ttl[s] > now})

\* With observation times, leases begin at the observation: what has expired is
\* left out, and an endpoint with two spellings has the newest lease.
replace_snapshot(reg, s, view) ==
    LET fresh    == Fresh(view, s)
        times(e) == {fresh[i].at : i \in {j \in DOMAIN fresh : canonicalize_endpoint(fresh[j].peer) = e}}
        until    == [e \in Endpoints |-> IF Ttl[s] = 0 \/ times(e) = {} THEN Forever ELSE Max(times(e)) + Ttl[s]]
    IN  IF s \notin Observing THEN replace_source(reg, s, view)
        ELSE IF Len(view) > MaxCandidates THEN [ok |-> FALSE, reg |-> reg]
        ELSE replace_contributions(reg, s, Listed(fresh), until)

add(reg, s, e) ==
    LET until == IF Ttl[s] = 0 THEN Forever ELSE now + Ttl[s]
        added == [reg EXCEPT !.until[s][e] = until,
                             !.lists[s] = IF Contains(@, e) THEN @ ELSE Append(@, e)]
    IN  IF e \in reg.local THEN [ok |-> TRUE, reg |-> reg]
        ELSE IF e \notin Records(reg) /\ Cardinality(Records(reg)) >= MaxCandidates THEN [ok |-> FALSE, reg |-> reg]
        ELSE [ok |-> TRUE, reg |-> [added EXCEPT !.order = rebuild_order(added)]]

remove(reg, s, e) == Pruned([reg EXCEPT !.until[s][e] = Absent])

\* A leased source keeps its candidates until they expire.
source_unavailable(reg, s) ==
    IF Ttl[s] # 0 THEN reg
    ELSE Pruned([reg EXCEPT !.until[s] = [e \in Endpoints |-> Absent], !.lists[s] = <<>>])

set_local_endpoints(reg) ==
    Pruned([reg EXCEPT !.local = LocalEndpoints,
                       !.until = [s \in SourceSet |-> [e \in Endpoints |->
                                     IF e \in LocalEndpoints THEN Absent ELSE @[s][e]]]])

expire(reg) ==
    Pruned([reg EXCEPT !.until = [s \in SourceSet |-> [e \in Endpoints |->
                                     IF @[s][e] > now THEN @[s][e] ELSE Absent]]])

Expiring == \E s \in SourceSet, e \in Endpoints : registry.until[s][e] # Absent /\ registry.until[s][e] <= now

-----------------------------------------------------------------------------
(* The coordinator *)

Empty == [until |-> [s \in SourceSet |-> [e \in Endpoints |-> Absent]],
          lists |-> [s \in SourceSet |-> <<>>], order |-> <<>>, local |-> {}]

Observed(view) == [i \in DOMAIN view |-> [peer |-> view[i], at |-> 0]]

\* start: every provider is subscribed to and its first snapshot taken, all or none.
start(first) ==
    LET after[n \in 0..Len(Sources)] ==
            IF n = 0 THEN [ok |-> TRUE, reg |-> Empty]
            ELSE IF after[n - 1].ok THEN replace_snapshot(after[n - 1].reg, Sources[n], first[Sources[n]])
            ELSE after[n - 1]
    IN  after[Len(Sources)]

(* A task watches, holds a command that the queue has no room for, waits to
   subscribe again, or has ended.  current: no command was refused since the
   last whole view that the registry took. *)
Init ==
    /\ now = 0 /\ changes = 0
    /\ \E first \in [SourceSet -> Views] :
          /\ views = [s \in SourceSet |-> Observed(first[s])]
          /\ start(views).ok
          /\ registry = start(views).reg
    /\ published = endpoints(registry)
    /\ commands = <<>>
    /\ tasks = [s \in SourceSet |-> [phase |-> "watching", hand |-> <<>>, current |-> TRUE]]
    /\ held = [s \in SourceSet |-> {views[s]}]

Apply(command) ==
    CASE command.kind = "local" -> [ok |-> TRUE, reg |-> set_local_endpoints(registry)]
      [] command.kind = "snapshot" -> replace_snapshot(registry, command.source, command.view)
      [] command.kind = "replace" -> replace_source(registry, command.source, command.view)
      [] command.kind = "unavailable" -> [ok |-> TRUE, reg |-> source_unavailable(registry, command.source)]
      [] command.kind = "add" ->
            IF canonicalize_endpoint(command.peer) = Invalid THEN [ok |-> FALSE, reg |-> registry]
            ELSE add(registry, command.source, canonicalize_endpoint(command.peer))
      [] command.kind = "remove" ->
            IF canonicalize_endpoint(command.peer) = Invalid THEN [ok |-> FALSE, reg |-> registry]
            ELSE [ok |-> TRUE, reg |-> remove(registry, command.source, canonicalize_endpoint(command.peer))]

\* Subscribers are told when a step changed the list.
Publish(reg) ==
    /\ registry' = reg
    /\ published' = IF endpoints(reg) # endpoints(registry) THEN endpoints(reg) ELSE published

apply_candidate_command ==
    /\ commands # <<>>
    /\ commands' = Tail(commands)
    /\ LET command == Head(commands)
           result  == Apply(command)
       IN  /\ Publish(result.reg)
           /\ tasks' = IF command.kind = "local" THEN tasks
                       ELSE [tasks EXCEPT ![command.source].current =
                               IF command.kind \in {"snapshot", "replace"} THEN result.ok
                               ELSE @ /\ result.ok /\ command.kind # "unavailable"]
    /\ UNCHANGED <<views, now, changes, held>>

\* The earliest lease has ended.
Expire ==
    /\ Expiring
    /\ Publish(expire(registry))
    /\ UNCHANGED <<commands, views, tasks, now, changes, held>>

-----------------------------------------------------------------------------
(* Watch tasks.  The provider's change and the receipt of its event are one
   step; an event that waits in the provider's channel is a change that has
   not happened yet. *)

Changing(s, view) ==
    /\ changes < MaxChanges
    /\ changes' = changes + 1
    /\ views' = [views EXCEPT ![s] = view]
    /\ held' = [held EXCEPT ![s] = @ \cup {view}]
    /\ UNCHANGED <<registry, published, commands, now>>

Holding(s, command) == tasks' = [tasks EXCEPT ![s].hand = <<command>>]

Watching(s) == tasks[s].phase = "watching" /\ tasks[s].hand = <<>>

\* Dynamic providers announce whole views.
ObserveView(s, peers) ==
    LET view == [i \in DOMAIN peers |-> [peer |-> peers[i], at |-> now]]
    IN  /\ s \in Observing
        /\ Watching(s)
        /\ Changing(s, view)
        /\ Holding(s, [kind |-> "snapshot", source |-> s, view |-> view])

\* Other providers announce whole views without times, or single changes.
ReplaceView(s, peers) ==
    LET view == [i \in DOMAIN peers |-> [peer |-> peers[i], at |-> now]]
    IN  /\ s \notin Observing
        /\ Watching(s)
        /\ Changing(s, view)
        /\ Holding(s, [kind |-> "replace", source |-> s, view |-> view])

AddPeer(s, p) ==
    /\ s \notin Observing
    /\ Watching(s)
    /\ Changing(s, Append(views[s], [peer |-> p, at |-> now]))
    /\ Holding(s, [kind |-> "add", source |-> s, peer |-> p])

RemovePeer(s, p) ==
    /\ s \notin Observing
    /\ Watching(s)
    /\ Changing(s, At(views[s], {i \in DOMAIN views[s] : canonicalize_endpoint(views[s][i].peer) # canonicalize_endpoint(p)}))
    /\ Holding(s, [kind |-> "remove", source |-> s, peer |-> p])

\* recv fails: overflow, a gap, a closed channel; or an error for good.
WatchFails(s, phase) ==
    /\ Watching(s)
    /\ changes < MaxChanges
    /\ changes' = changes + 1
    /\ tasks' = [tasks EXCEPT ![s].phase = phase,
                              ![s].hand = <<[kind |-> "unavailable", source |-> s]>>]
    /\ UNCHANGED <<registry, published, commands, views, now, held>>

SendCommand(s) ==
    /\ tasks[s].hand # <<>>
    /\ Len(commands) < CommandCapacity
    /\ commands' = Append(commands, tasks[s].hand[1])
    /\ tasks' = [tasks EXCEPT ![s].hand = <<>>]
    /\ UNCHANGED <<registry, published, views, now, changes, held>>

\* The listener is bound, and the coordinator is told where; it replies once the
\* command is applied.
configure_local_endpoint ==
    /\ registry.local # LocalEndpoints
    /\ \A i \in DOMAIN commands : commands[i].kind # "local"
    /\ Len(commands) < CommandCapacity
    /\ commands' = Append(commands, [kind |-> "local"])
    /\ UNCHANGED <<registry, published, views, tasks, now, changes, held>>

\* The provider may have changed unseen before the new subscription.
Resubscribe(s, peers) ==
    LET fresh == [i \in DOMAIN peers |-> [peer |-> peers[i], at |-> now]]
    IN  /\ tasks[s].phase = "retry" /\ tasks[s].hand = <<>>
        /\ \E view \in {views[s], fresh} :
              /\ views' = [views EXCEPT ![s] = view]
              /\ held' = [held EXCEPT ![s] = @ \cup {view}]
              /\ tasks' = [tasks EXCEPT ![s].phase = "watching",
                                        ![s].hand = <<[kind |-> "snapshot", source |-> s, view |-> view]>>]
        /\ UNCHANGED <<registry, published, commands, now, changes>>

\* watch fails for good.
GiveUp(s) ==
    /\ tasks[s].phase = "retry" /\ tasks[s].hand = <<>>
    /\ tasks' = [tasks EXCEPT ![s].phase = "ended"]
    /\ UNCHANGED <<registry, published, commands, views, now, changes, held>>

Tick ==
    /\ now < MaxTime
    /\ ~Expiring
    /\ now' = now + 1
    /\ UNCHANGED <<registry, published, commands, views, tasks, changes, held>>

Next ==
    \/ apply_candidate_command
    \/ Expire
    \/ configure_local_endpoint
    \/ \E s \in SourceSet, peers \in Views : ObserveView(s, peers) \/ ReplaceView(s, peers) \/ Resubscribe(s, peers)
    \/ \E s \in SourceSet, p \in DOMAIN Spellings : AddPeer(s, p) \/ RemovePeer(s, p)
    \/ \E s \in SourceSet : SendCommand(s) \/ GiveUp(s) \/ \E phase \in {"retry", "ended"} : WatchFails(s, phase)
    \/ Tick

Spec == Init /\ [][Next]_vars

-----------------------------------------------------------------------------
(* Properties *)

\* The registry within its limit and the published list are one: every endpoint
\* that a source contributes is listed once, and nothing else is.
ListIsComplete ==
    /\ published = registry.order
    /\ ToSet(registry.order) = Records(registry)
    /\ Len(registry.order) = Cardinality(Records(registry))
    /\ Len(registry.order) <= MaxCandidates

\* Once configure_local_endpoint has its reply, the node's own endpoints are no
\* candidates, neither those taken before nor those that a source shows later.
LocalIsNoCandidate == registry.local = LocalEndpoints => ToSet(published) \cap LocalEndpoints = {}

\* A provider with observation times and leases contributes nothing longer than
\* a lease after it was observed, whatever the queue, failures and new
\* subscriptions do in between; the same holds for every source from its command on.
LeaseIsHonoured ==
    \A s \in SourceSet, e \in Endpoints :
        Ttl[s] # 0 /\ registry.until[s][e] # Absent =>
            /\ registry.until[s][e] <= now + Ttl[s]
            /\ s \in Observing => \E t \in 0..now :
                  /\ registry.until[s][e] = t + Ttl[s]
                  /\ \A i \in DOMAIN views[s] : canonicalize_endpoint(views[s][i].peer) = e => t <= views[s][i].at

\* A source without leases whose task watches and whose commands are applied
\* contributes exactly its view, unless a command of it was refused.
FollowsTheSource ==
    \A s \in SourceSet :
        /\ Ttl[s] = 0 /\ Watching(s) /\ tasks[s].current
        /\ \A i \in DOMAIN commands : commands[i].kind = "local" \/ commands[i].source # s
        => {e \in Endpoints : registry.until[s][e] # Absent} = Named(views[s]) \ registry.local

\* A refused replacement leaves no trace: what an observing source contributes
\* is one whole view that it has shown, less what has expired since.
WholeViewsOnly ==
    \A s \in Observing : \E view \in held[s] \cup {<<>>} :
        {e \in Endpoints : registry.until[s][e] > now} = Named(Fresh(view, s)) \ registry.local

\* The published list is the merge of what the sources show and what has not
\* expired (CandidateRegistry, run_candidate_registry).
CandidatesInv ==
    /\ ListIsComplete
    /\ LocalIsNoCandidate
    /\ LeaseIsHonoured
    /\ FollowsTheSource
    /\ WholeViewsOnly
=============================================================================
