-------------------------- MODULE DynamicProvider --------------------------
(***************************************************************************)
(* What the providers of peer candidates share: a view that changes over   *)
(* time, subscribers that follow it, and generations of a supervised       *)
(* worker.  The modules of the single providers add the worker.            *)
(*                                                                         *)
(* A subscriber is a watch task of the discovery coordinator.  Its         *)
(* contribution is what the coordinator holds of this provider: the        *)
(* snapshot and the events it has taken, nothing after an error.           *)
(***************************************************************************)
EXTENDS Integers, Sequences, SequencesExt, FiniteSets, Selection

CONSTANTS
    Clients,        \* tasks that call watch
    EventCapacity,  \* of the event channel
    MaxCandidates,  \* max_candidates of the provider
    MaxGens,        \* bound: generations in one behaviour
    MaxTime         \* bound: of the clock

ASSUME DynamicProviderAssumption ==
    /\ {EventCapacity, MaxCandidates} \subseteq Nat \ {0}
    /\ {MaxGens, MaxTime} \subseteq Nat

VARIABLES
    gens,     \* per generation, what has become of its worker
    stopped,  \* lifecycle.stopped, which is also the signal to the worker
    state,    \* DynamicState: available, revision and peers with their observation times
    subs,     \* per client, its subscription
    worker,   \* the locals of the running worker
    world,    \* what the worker talks to
    now       \* the clock

providerVars == <<gens, stopped, state, subs>>
vars == <<providerVars, worker, world, now>>

\* How a worker ends.  Its generation is then "joined", "cleaning" while its
\* cleanup runs, and "done".
Results == {"ok", "retryable", "fatal", "panic"}

Idle == [phase |-> "idle", read |-> <<>>, last |-> 0, queue |-> <<>>,
         lagged |-> FALSE, closed |-> FALSE, peers |-> <<>>]
Failed == [Idle EXCEPT !.phase = "failed"]

ProviderInit ==
    /\ gens = <<>>
    /\ stopped = FALSE
    /\ state = [available |-> TRUE, revision |-> 0, peers |-> <<>>]
    /\ subs = [c \in Clients |-> Idle]
    /\ now = 0

current == gens[Len(gens)]
Alive == gens # <<>> /\ current.phase = "running"

-----------------------------------------------------------------------------
(* DynamicState *)

names(peers) == [i \in DOMAIN peers |-> peers[i].peer]

\* Broadcast: a full channel drops the oldest event of a receiver that lags.
Push(s, event) ==
    IF s.phase # "watching" \/ s.closed THEN s
    ELSE IF Len(s.queue) < EventCapacity THEN [s EXCEPT !.queue = Append(@, event)]
    ELSE [s EXCEPT !.queue = Append(Tail(@), event), !.lagged = TRUE]

Broadcast(st) ==
    [c \in Clients |-> Push(subs[c], [revision |-> st.revision, peers |-> st.peers])]

\* Revisions count up.  Receivers compare neighbours only, so they are counted
\* modulo more than the events that a receiver can be behind.
NextRevision(r) == (r + 1) % (EventCapacity + 2)

Published(peers) == [state EXCEPT !.revision = NextRevision(@), !.peers = peers]

publish(peers) ==
    /\ state' = Published(peers)
    /\ subs' = Broadcast(Published(peers))

\* An observation of the whole view; the same observation again is no event.
observe_at(peers) ==
    IF state.peers = peers THEN UNCHANGED <<state, subs>> ELSE publish(peers)

observe(ps) == observe_at([i \in DOMAIN ps |-> [peer |-> ps[i], at |-> now]])

\* Peers that stay keep the time of their observation.
replace(ps) ==
    IF names(state.peers) = ps THEN UNCHANGED <<state, subs>>
    ELSE publish([i \in DOMAIN ps |->
            [peer |-> ps[i],
             at |-> IF Contains(names(state.peers), ps[i])
                    THEN state.peers[CHOOSE k \in DOMAIN state.peers : state.peers[k].peer = ps[i]].at
                    ELSE now]])

\* The end of a generation empties the view; an unexpected end also replaces
\* the channel, which closes the subscriptions.
finish(unexpected) ==
    LET empty == state.peers = <<>>
        told == IF empty THEN subs ELSE Broadcast(Published(<<>>))
    IN  /\ state' = [(IF empty THEN state ELSE Published(<<>>)) EXCEPT !.available = FALSE]
        /\ subs' = [c \in Clients |->
                      IF unexpected /\ told[c].phase = "watching" THEN [told[c] EXCEPT !.closed = TRUE]
                      ELSE told[c]]

-----------------------------------------------------------------------------
(* Generations *)

\* Faulty variant: a generation that is being cleaned up after has ended.
running_until_finished ==
    IF gens = <<>> THEN "no"
    ELSE IF state.available /\ current.phase # "done" THEN "yes"
    ELSE IF current.phase = "done" /\ current.restart = "fatal" THEN "fatal"
    ELSE "no"

\* ProviderTask::running: whether the generation lives, may be replaced, or
\* neither (callers try again later, or never).
running ==
    IF gens = <<>> THEN "no"
    ELSE IF current.phase = "done" THEN IF current.restart = "fatal" THEN "fatal" ELSE "no"
    ELSE IF state.available THEN "yes" ELSE "closed"

MayStart == ~stopped /\ running = "no"

\* ProviderTask::spawn, with the state s that the provider has prepared.
spawn(s) ==
    /\ Len(gens) < MaxGens
    /\ gens' = Append(gens, [phase |-> "running", result |-> "ok", restart |-> "ok", clean |-> FALSE])
    /\ state' = [s EXCEPT !.available = TRUE]

\* ensure_started where one critical section looks and starts.
StartGeneration(c, locals) ==
    /\ subs[c].phase = "idle"
    /\ MayStart
    /\ spawn(state)
    /\ subs' = [subs EXCEPT ![c] = [Idle EXCEPT !.phase = "started"]]
    /\ worker' = locals
    /\ UNCHANGED <<stopped, now>>

\* discover starts a generation as well, and subscribes nobody.
Discover(locals) ==
    /\ MayStart
    /\ spawn(state)
    /\ worker' = locals
    /\ UNCHANGED <<stopped, subs, now>>

\* The worker returns or panics; the supervisor joins it.
WorkerReturns(result) ==
    /\ Alive
    /\ gens' = [gens EXCEPT ![Len(gens)].phase = "joined", ![Len(gens)].result = result]
    /\ UNCHANGED <<stopped, state, subs, now>>

\* Faulty variant: whatever ends after a stop request ended in order.
Finish_after_stop_in_order(g) ==
    /\ gens[g].phase = "joined"
    /\ finish(~stopped)
    /\ gens' = [gens EXCEPT ![g].phase = "cleaning"]
    /\ UNCHANGED <<stopped, worker, world, now>>

\* A stop request does not turn a failure into an orderly end.
Finish(g) ==
    /\ gens[g].phase = "joined"
    /\ finish(~stopped \/ gens[g].result # "ok")
    /\ gens' = [gens EXCEPT ![g].phase = "cleaning"]
    /\ UNCHANGED <<stopped, worker, world, now>>

\* The cleanup has ended.  Without confirmation nothing may follow this
\* generation; otherwise only a fatal error of the worker forbids it.
Complete(g, cleaned) ==
    /\ gens[g].phase = "cleaning"
    /\ IF cleaned THEN UNCHANGED <<state, subs>> ELSE finish(TRUE)
    /\ gens' = [gens EXCEPT ![g].phase = "done", ![g].clean = cleaned,
                            ![g].restart = IF ~cleaned \/ gens[g].result = "fatal" THEN "fatal"
                                           ELSE "ok"]
    /\ UNCHANGED <<stopped, now>>

RequestShutdown ==
    /\ ~stopped
    /\ stopped' = TRUE
    /\ UNCHANGED <<gens, state, subs, worker, now>>

-----------------------------------------------------------------------------
(* Subscribers *)

\* ensure_started without a new generation: it lives, or the call fails.
EnsureStarted(c) ==
    /\ subs[c].phase = "idle"
    /\ stopped \/ running \in {"yes", "fatal"}
    /\ subs' = [subs EXCEPT ![c] = IF ~stopped /\ running = "yes" THEN [Idle EXCEPT !.phase = "started"]
                                   ELSE Failed]
    /\ UNCHANGED <<gens, stopped, state, worker, world, now>>

\* live_watch: snapshot and subscription are one step, some time after the start.
LiveWatch(c) ==
    /\ subs[c].phase = "started"
    /\ subs' = [subs EXCEPT ![c] = IF ~state.available THEN Idle
                                   ELSE [Idle EXCEPT !.phase = "watching", !.last = state.revision,
                                                     !.peers = state.peers]]
    /\ UNCHANGED <<gens, stopped, state, worker, world, now>>

\* DiscoveryWatch::recv.  An overflow, a gap and a closed channel are errors:
\* the candidates are dropped and the client subscribes again.
Recv(c) ==
    LET s == subs[c]
    IN  /\ s.phase = "watching"
        /\ s.lagged \/ s.queue # <<>> \/ s.closed
        /\ subs' = [subs EXCEPT ![c] =
              IF s.lagged \/ s.queue = <<>> \/ Head(s.queue).revision # NextRevision(s.last) THEN Idle
              ELSE [s EXCEPT !.last = NextRevision(@), !.queue = Tail(@), !.peers = Head(s.queue).peers]]
        /\ UNCHANGED <<gens, stopped, state, worker, world, now>>

ProviderNext ==
    \/ \E g \in DOMAIN gens : Finish(g)
    \/ \E c \in Clients : EnsureStarted(c) \/ LiveWatch(c) \/ Recv(c)

-----------------------------------------------------------------------------
(* Properties of every provider *)

\* A subscriber that has taken all events holds the view of the provider, and
\* one whose channel was closed holds nothing, unless it is told of a loss.
SubscriberIsCurrent ==
    \A c \in DOMAIN subs :
        subs[c].phase = "watching" /\ subs[c].queue = <<>> /\ ~subs[c].lagged
        => subs[c].peers = IF subs[c].closed THEN <<>> ELSE state.peers

\* Nobody listens to a generation that has ended, unless it was told to stop
\* and did so without an error.
NobodyWaitsInVain ==
    \A c \in DOMAIN subs :
        /\ subs[c].phase = "watching" /\ ~subs[c].closed
        /\ current.phase \in {"cleaning", "done"}
        => stopped /\ current.result = "ok"

\* A generation starts only when the one before has ended and its cleanup is
\* confirmed: the daemon, the seeds and the view have one owner.
OneGeneration ==
    \A g \in 1..(Len(gens) - 1) : gens[g].phase = "done" /\ gens[g].clean

\* Without a generation the provider lists nobody.
EndedViewIsEmpty ==
    (\A g \in DOMAIN gens : gens[g].phase \in {"cleaning", "done"}) => state.peers = <<>>

\* A subscriber holds the current view or learns that it does not (recv in
\* discovery.rs, supervise in dynamic.rs).
SubscribersAreServed == SubscriberIsCurrent /\ NobodyWaitsInVain

\* Generations of a provider do not overlap and leave nothing in the view
\* (ProviderTask in dynamic.rs).
GenerationsAreSeparate == OneGeneration /\ EndedViewIsEmpty
=============================================================================
