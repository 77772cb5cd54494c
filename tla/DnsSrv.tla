------------------------------- MODULE DnsSrv -------------------------------
(***************************************************************************)
(* The provider that resolves a DNS-SRV name.  The resolver (a library)    *)
(* caches an answer until it expires and gives the cached one until then.  *)
(* Timers fire on time: the clock does not pass a deadline that is due.    *)
(***************************************************************************)
EXTENDS DynamicProvider

CONSTANTS
    Answers,          \* sequences of records that the DNS may give, in the sorted order
    BadRecord,        \* a record without port or target
    Ttls,             \* lifetimes of answers
    RetryInterval, MaxRefreshInterval

Earlier(a, b) == IF a < b THEN a ELSE b

\* valid_until (0 for None), next_refresh, and whether a query is under way.
NoWorker == [until |-> 0, next |-> 0, querying |-> FALSE]

validate_config ==
    EventCapacity > 0 /\ RetryInterval > 0 /\ MaxRefreshInterval > 0 /\ MaxCandidates > 0

Init ==
    /\ validate_config
    /\ ProviderInit
    /\ worker = NoWorker
    /\ world = [records |-> <<>>, until |-> 0]

\* The usable records, without repetition, as many as max_candidates.
records_to_peers(records) ==
    LET usable == Distinct(At(records, {i \in DOMAIN records : records[i] # BadRecord}))
    IN  SubSeq(usable, 1, Earlier(Len(usable), MaxCandidates))

\* What lookup may return now: the cached answer while it lives, or a new one.
\* A name without records has its negative lifetime, bounded by the refresh interval.
lookup ==
    IF now < world.until THEN {world}
    ELSE {[records |-> records, until |-> now + (IF records = <<>> THEN Earlier(ttl, MaxRefreshInterval) ELSE ttl)] :
             records \in Answers, ttl \in Ttls}

\* The refresh is due.
StartQuery ==
    /\ Alive
    /\ ~worker.querying
    /\ now >= worker.next
    /\ worker' = [worker EXCEPT !.querying = TRUE]
    /\ UNCHANGED <<providerVars, world, now>>

\* wait_for_dns_expiry: the view expires while the query is under way.
Expire ==
    /\ Alive
    /\ worker.querying
    /\ worker.until # 0 /\ now >= worker.until
    /\ replace(<<>>)
    /\ worker' = [worker EXCEPT !.until = 0]
    /\ UNCHANGED <<gens, stopped, world, now>>

\* Faulty variant: the next refresh looks at the refresh interval only.
apply_dns_answer_late(answer) ==
    IF answer.until <= now
    THEN /\ replace(<<>>)
         /\ worker' = [until |-> 0, next |-> now + RetryInterval, querying |-> FALSE]
    ELSE /\ observe(records_to_peers(answer.records))
         /\ worker' = [until |-> answer.until, next |-> now + MaxRefreshInterval, querying |-> FALSE]

\* An answer that has expired empties the view.  Only a lifetime longer than the
\* one before renews the observations.
apply_dns_answer(answer) ==
    IF answer.until <= now
    THEN /\ replace(<<>>)
         /\ worker' = [until |-> 0, next |-> now + RetryInterval, querying |-> FALSE]
    ELSE /\ IF worker.until # 0 /\ answer.until <= worker.until
            THEN replace(records_to_peers(answer.records))
            ELSE observe(records_to_peers(answer.records))
         /\ worker' = [until |-> answer.until, next |-> Earlier(answer.until, now + MaxRefreshInterval),
                       querying |-> FALSE]

Answer ==
    /\ Alive /\ worker.querying
    /\ \E answer \in lookup : apply_dns_answer(answer) /\ world' = answer
    /\ UNCHANGED <<gens, stopped, now>>

\* A transient failure keeps the view until it expires.
QueryFails ==
    LET retry == now + RetryInterval
    IN  /\ Alive /\ worker.querying
        /\ IF worker.until # 0 /\ now >= worker.until THEN replace(<<>>) ELSE UNCHANGED <<state, subs>>
        /\ worker' = [worker EXCEPT !.querying = FALSE,
                         !.next = IF worker.until > now THEN Earlier(worker.until, retry) ELSE retry]
        /\ UNCHANGED <<gens, stopped, world, now>>

\* A deadline that cannot be represented ends the provider for good; a stop is
\* seen while sleeping and while querying; or the worker panics.
WorkerEnds ==
    /\ \E result \in Results \ {"retryable"} :
          /\ result = "ok" => stopped
          /\ result = "fatal" => worker.querying
          /\ WorkerReturns(result)
    /\ worker' = NoWorker
    /\ UNCHANGED world

Tick ==
    /\ now < MaxTime
    /\ Alive => IF worker.querying THEN worker.until = 0 \/ now < worker.until ELSE now < worker.next
    /\ now' = now + 1
    /\ UNCHANGED <<providerVars, worker, world>>

Next ==
    \/ ProviderNext
    \/ RequestShutdown /\ UNCHANGED world
    \/ \E g \in DOMAIN gens : Complete(g, TRUE) /\ UNCHANGED <<worker, world>>
    \/ /\ \/ Discover([NoWorker EXCEPT !.next = now])
          \/ \E c \in Clients : StartGeneration(c, [NoWorker EXCEPT !.next = now])
       /\ UNCHANGED world
    \/ StartQuery
    \/ Expire
    \/ Answer
    \/ QueryFails
    \/ WorkerEnds
    \/ Tick

\* No peer stays in the view beyond the lifetime that the DNS gave it, however
\* long queries take, fail or are answered from the cache.
ViewIsUnexpired ==
    Alive /\ state.peers # <<>> => worker.until # 0 /\ now <= worker.until
=============================================================================
