-------------------------- MODULE BootstrapGossip --------------------------
(***************************************************************************)
(* The provider that asks seeds for endpoints, and announces this node to  *)
(* them, together with the seeds and other nodes that announce themselves. *)
(* A request that the client has given up may still reach the seed.        *)
(* Timers fire on time; an answer takes no time once the seed gives it.    *)
(***************************************************************************)
EXTENDS DynamicProvider, BootstrapServer

CONSTANTS
    Seeds,           \* the sequence of configured seeds
    Self, Others,    \* node ids; Others also names the endpoint each announces
    OwnEndpoint,
    RefreshInterval, RetryInitial, RetryMax, StaleAfter,
    MaxEvents        \* bound: failed queries and requests of others

Lesser(a, b) == IF a < b THEN a ELSE b
SeedSet == ToSet(Seeds)

NoView == [endpoints |-> <<>>, expires |-> 0, at |-> 0]

(* position is the seed whose answer is awaited, 0 while the worker sleeps;
   announcement is what the pass announces. *)
StartedAt(time) ==
    [position |-> 0, announcement |-> NoEndpoint,
     views |-> [s \in SeedSet |-> NoView],
     schedules |-> [s \in SeedSet |-> [next |-> time, notBefore |-> time, delay |-> RetryInitial,
                                       disabled |-> FALSE]],
     announced |-> {}]
NoWorker == StartedAt(0)

validate_config ==
    /\ EventCapacity > 0 /\ Seeds # <<>> /\ MaxCandidates > 0
    /\ RefreshInterval > 0 /\ StaleAfter > 0
    /\ RetryInitial > 0 /\ RetryMax >= RetryInitial

(* flight holds the requests on their way; live is the one the client waits
   for.  recent (when a node last announced itself) and missed (seeds that
   could not be told of the withdrawal) are ghosts of the properties. *)
Init ==
    /\ validate_config
    /\ ProviderInit
    /\ worker = NoWorker
    /\ world = [own |-> NoEndpoint, changed |-> FALSE, cache |-> [s \in SeedSet |-> <<>>], flight |-> {},
                recent |-> [o \in Others |-> -1], missed |-> {}, events |-> 0]

-----------------------------------------------------------------------------
(* Views and schedules *)

deadline(schedule) == IF schedule.next < schedule.notBefore THEN schedule.notBefore ELSE schedule.next

Due(schedule) == ~schedule.disabled /\ deadline(schedule) <= now

\* SeedSchedule::failed, for an error that may ask for a delay or be fatal.
failed(schedule, error) ==
    [next |-> now + schedule.delay,
     notBefore |-> IF error = "retry_after" THEN now + RetryMax ELSE now,
     delay |-> Lesser(2 * schedule.delay, RetryMax),
     disabled |-> error = "fatal"]

flatten_views(views) ==
    LET all == Distinct(FlattenSeq([i \in DOMAIN Seeds |-> views[Seeds[i]].endpoints]))
    IN  SubSeq(all, 1, Lesser(Len(all), MaxCandidates))

Unexpired(views) == [s \in SeedSet |-> IF views[s].expires > now THEN views[s] ELSE NoView]

\* publish_views: expired views go; an endpoint has its latest observation.
publish_views(views) ==
    LET peers   == flatten_views(views)
        seen(p) == {views[s].at : s \in {t \in SeedSet : Contains(views[t].endpoints, p)}}
    IN  observe_at([k \in DOMAIN peers |->
            [peer |-> peers[k], at |-> CHOOSE t \in seen(peers[k]) : \A u \in seen(peers[k]) : u <= t]])

-----------------------------------------------------------------------------
(* The worker: passes over the seeds, of which the due ones are asked one by
   one.  No time passes between an answer and the next question. *)

\* Faulty variant: a seed counts as announced to once it has answered.
Announcing_once_answered(w, s) ==
    IF w.announcement = NoEndpoint \/ w.views[s] = NoView THEN w.announced ELSE w.announced \cup {s}

\* A seed may apply the announcement even if no answer comes, so it is counted first.
Announcing(w, s) == IF w.announcement = NoEndpoint THEN w.announced ELSE w.announced \cup {s}

\* The pass goes on after the given position: the next due seed is asked, or the worker sleeps.
GoOn(w, position, requests) ==
    LET due == {i \in (position + 1)..Len(Seeds) : Due(w.schedules[Seeds[i]])}
    IN  IF due = {} THEN /\ worker' = [w EXCEPT !.position = 0]
                         /\ world' = requests
        ELSE LET i == CHOOSE i \in due : \A j \in due : i <= j
                 request == [seed |-> Seeds[i], endpoint |-> w.announcement, live |-> TRUE]
             IN  /\ worker' = [w EXCEPT !.position = i, !.announced = Announcing(w, Seeds[i])]
                 /\ world' = [requests EXCEPT !.flight = @ \cup {request}]

\* The sleep of the worker is over: a seed is due, or a view has expired.
Awake == \E s \in SeedSet : Due(worker.schedules[s]) \/ worker.views[s].expires \in 1..now

\* An endpoint was announced and every seed is due, except one that has asked for
\* a delay; or the sleep was over first, and the pass takes the announcement and
\* asks only the seeds that are due anyway.
Pass ==
    LET soon == [s \in SeedSet |-> [worker.schedules[s] EXCEPT !.next = now]]
    IN  /\ Alive
        /\ worker.position = 0
        /\ \E schedules \in {r \in {soon} : world.changed} \cup {r \in {worker.schedules} : Awake} :
              GoOn([worker EXCEPT !.announcement = world.own, !.schedules = schedules], 0,
                   [world EXCEPT !.changed = FALSE])
        /\ UNCHANGED <<providerVars, now>>

\* Views expire while the worker sleeps and while it awaits an answer
\* (await_query_with_expiry).
Expire ==
    /\ Alive
    /\ Unexpired(worker.views) # worker.views
    /\ worker' = [worker EXCEPT !.views = Unexpired(worker.views)]
    /\ publish_views(Unexpired(worker.views))
    /\ UNCHANGED <<gens, stopped, world, now>>

\* After an answer or an error the views are published and the pass goes on.
Continue(views, schedule, requests) ==
    LET kept == Unexpired(views)
        w    == [worker EXCEPT !.views = kept, !.schedules[Seeds[worker.position]] = schedule]
    IN  /\ GoOn(w, worker.position, requests)
        /\ publish_views(kept)
        /\ UNCHANGED <<gens, stopped, now>>

Answered(request) ==
    LET s       == request.seed
        cache   == exchange(world.cache[s], Self, request.endpoint, now)
        learned == Distinct(<<s>> \o reply(cache, Self, <<s>>, MaxCandidates))
        view    == [endpoints |-> SubSeq(learned, 1, Lesser(Len(learned), MaxCandidates)), at |-> now,
                    expires |-> now + Lesser(CandidateTtl, StaleAfter)]
    IN  /\ Alive
        /\ request.live
        /\ Continue([worker.views EXCEPT ![s] = view],
                    [worker.schedules[s] EXCEPT !.next = now + RefreshInterval, !.delay = RetryInitial],
                    [world EXCEPT !.cache[s] = cache, !.flight = @ \ {request}])

\* The query fails.  The seed may have handled the request, never get it, or get
\* it later (bound: one request is late at a time).
QueryFails(request, error) ==
    LET s    == request.seed
        rest == [world EXCEPT !.flight = @ \ {request}, !.events = @ + 1]
        late == [request EXCEPT !.live = FALSE]
    IN  /\ Alive
        /\ world.events < MaxEvents
        /\ request.live
        /\ \E requests \in {rest, [rest EXCEPT !.cache[s] = exchange(@, Self, request.endpoint, now)]}
                 \cup {r \in {[rest EXCEPT !.flight = {late}]} : error = "transient" /\ rest.flight = {}} :
              Continue(worker.views, failed(worker.schedules[s], error), requests)

\* The stop is seen between passes and while waiting; the pending query is dropped.
WorkerEnds ==
    /\ \E result \in {r \in {"ok", "panic"} : r = "ok" => stopped} : WorkerReturns(result)
    /\ worker' = [worker EXCEPT !.position = 0]
    /\ world' = [world EXCEPT !.flight = {[r EXCEPT !.live = FALSE] : r \in @}]

\* BootstrapCleanup: every seed that may know the announcement is told, within a
\* budget and without retry; then the announcement is dropped, unless it must
\* survive for the next generation.
Cleanup(g) ==
    /\ \E told \in SUBSET worker.announced :
          world' = [world EXCEPT
             !.cache = [s \in SeedSet |-> IF s \in told THEN exchange(@[s], Self, NoEndpoint, now) ELSE @[s]],
             !.missed = @ \cup (worker.announced \ told),
             !.own = IF stopped THEN NoEndpoint ELSE @]
    /\ worker' = NoWorker
    /\ Complete(g, TRUE)

-----------------------------------------------------------------------------
(* Callers, seeds and the clock *)

announce ==
    /\ ~stopped
    /\ world' = [world EXCEPT !.own = OwnEndpoint, !.changed = TRUE]
    /\ UNCHANGED <<providerVars, worker, now>>

\* A request that was given up reaches the seed.
LateRequest(request) ==
    /\ ~request.live
    /\ world' = [world EXCEPT !.flight = @ \ {request},
                    !.cache[request.seed] = exchange(@, Self, request.endpoint, now),
                    !.missed = IF Alive THEN @ ELSE @ \cup {request.seed}]
    /\ UNCHANGED <<providerVars, worker, now>>

\* Another node announces itself to a seed, or withdraws.
OtherRequest(s, o, endpoint) ==
    /\ world.events < MaxEvents
    /\ world' = [world EXCEPT !.cache[s] = exchange(@, o, endpoint, now), !.events = @ + 1,
                    !.recent[o] = IF endpoint = NoEndpoint THEN @ ELSE now]
    /\ UNCHANGED <<providerVars, worker, now>>

Tick ==
    /\ now < MaxTime
    /\ Alive =>
          /\ \A s \in SeedSet : worker.views[s].expires = 0 \/ worker.views[s].expires > now
          /\ worker.position = 0 => ~world.changed /\ \A s \in SeedSet : ~Due(worker.schedules[s])
    /\ now' = now + 1
    /\ UNCHANGED <<providerVars, worker, world>>

Next ==
    \/ ProviderNext
    \/ RequestShutdown /\ UNCHANGED world
    \/ /\ Discover(StartedAt(now)) \/ \E c \in Clients : StartGeneration(c, StartedAt(now))
       /\ UNCHANGED world
    \/ Pass
    \/ Expire
    \/ \E request \in world.flight :
          \/ Answered(request)
          \/ \E error \in {"transient", "retry_after", "fatal"} : QueryFails(request, error)
          \/ LateRequest(request)
    \/ WorkerEnds
    \/ \E g \in DOMAIN gens : Cleanup(g)
    \/ announce
    \/ \E s \in SeedSet, o \in Others : OtherRequest(s, o, o) \/ OtherRequest(s, o, NoEndpoint)
    \/ Tick

-----------------------------------------------------------------------------
\* However the seeds, the queries and the expiries interleave, a suggested
\* endpoint was announced to a seed within the two lifetimes it passes through.
SuggestionIsRecent ==
    \A o \in Others : Alive /\ Contains(names(state.peers), o) =>
        now - world.recent[o] < CandidateTtl + Lesser(CandidateTtl, StaleAfter)

\* After the cleanup no seed offers this node, except one that could not be told
\* and one that a request reached late.
WithdrawnAfterCleanup ==
    gens # <<>> /\ current.phase = "done" =>
        \A s \in SeedSet \ world.missed : Without(world.cache[s], Self) = world.cache[s]

\* Announcements spread and are withdrawn within their leases (run_bootstrap,
\* BootstrapCleanup, BootstrapServer::exchange).
AnnouncementInv == SuggestionIsRecent /\ WithdrawnAfterCleanup
=============================================================================
