-------------------------- MODULE BootstrapServer --------------------------
(***************************************************************************)
(* The bootstrap exchange at a seed: a bounded cache of the endpoints that *)
(* nodes have announced, one per node, each for candidate_ttl.             *)
(***************************************************************************)
EXTENDS Integers, Sequences, SequencesExt, Selection

CONSTANTS
    MaxCachedCandidates, MaxResponseCandidates,
    CandidateTtl,
    NoEndpoint     \* a request that announces nothing

\* The cache is by_node in the order of order.
prune_expired(cache, time) == At(cache, {i \in DOMAIN cache : cache[i].expires > time})

Without(cache, node) == At(cache, {i \in DOMAIN cache : cache[i].node # node})

\* What a request leaves in the cache: it renews, adds within capacity, or withdraws.
exchange(cache, requester, endpoint, time) ==
    LET live  == prune_expired(cache, time)
        entry == [node |-> requester, endpoint |-> endpoint, expires |-> time + CandidateTtl]
    IN  IF endpoint = NoEndpoint THEN Without(live, requester)
        ELSE IF \E i \in DOMAIN live : live[i].node = requester
             THEN [i \in DOMAIN live |-> IF live[i].node = requester THEN entry ELSE live[i]]
        ELSE IF Len(live) < MaxCachedCandidates THEN Append(live, entry)
        ELSE live

\* The answer: the seed's own endpoint and those of others, each once, up to the limit.
reply(cache, requester, advertised, requested) ==
    LET others == Without(cache, requester)
        once   == Distinct(advertised \o [i \in DOMAIN others |-> others[i].endpoint])
        limit  == IF requested < MaxResponseCandidates THEN requested ELSE MaxResponseCandidates
    IN  SubSeq(once, 1, IF Len(once) < limit THEN Len(once) ELSE limit)
=============================================================================
