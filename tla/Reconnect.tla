----------------------------- MODULE Reconnect -----------------------------
(***************************************************************************)
(* The reconnect loop: passes over the discovery candidates that dial      *)
(* those that are due, with a backoff of their own each, and sleep until   *)
(* the next is due or the candidates change; the health records that the   *)
(* loop and the event loop keep.  Durations are ticks that remain, so that *)
(* time needs no bound.                                                    *)
(***************************************************************************)
EXTENDS Integers, Sequences, FiniteSets, SequencesExt

CONSTANTS
    Offers,           \* the candidate lists that discovery may publish
    MaxPeers,         \* max_peers: connection slots
    MaxOthers,        \* bound: connections to peers that are no candidates
    InitialDelay, MaxDelay,
    RetryAfters,      \* what a peer that limits its rate asks for
    DeadAfter,        \* peer_dead_after_failures
    EventCapacity     \* bound: events under way to the event loop

VARIABLES
    offered,    \* the published candidates
    changed,    \* whether the loop has not seen them yet
    peers,      \* the loop's sequence of [addr, delay, wait, stopped]
    health,     \* per address [state, failures]
    linked,     \* candidates with a connection
    others,     \* number of other connections
    notices,    \* connection events on their way to the event loop
    pass,       \* the pass under way: position, phase, waits at its start, sleep
    timer,      \* ticks left of the sleep between passes
    silence     \* history: per candidate the ticks it must not be dialled

reconnectVars == <<offered, changed, peers, health, linked, others, notices, pass, timer, silence>>

Addresses == UNION {ToSet(o) : o \in Offers}
Listed == {peers[i].addr : i \in DOMAIN peers}
Lesser(a, b) == IF a < b THEN a ELSE b

-----------------------------------------------------------------------------
(* Health records.                                                         *)

DefaultHealth == [state |-> "Suspect", failures |-> 0]
Known(h, a) == IF a \in DOMAIN h THEN h[a] ELSE DefaultHealth
Recorded(h, a, record) == [b \in DOMAIN h \union {a} |-> IF b = a THEN record ELSE h[b]]

record_peer_success(h, a) == Recorded(h, a, [state |-> "Healthy", failures |-> 0])

record_peer_failure(h, a) ==
    LET failures == Lesser(Known(h, a).failures + 1, DeadAfter)  \* counting on changes nothing
    IN Recorded(h, a, [state |-> IF failures >= DeadAfter THEN "Dead" ELSE "Suspect",
                       failures |-> failures])

\* The event loop changes no record that the reconnect loop does not keep.
mark_known_peer(h, a, h2) == IF a \in DOMAIN h THEN h2 ELSE h

-----------------------------------------------------------------------------
(* The loop's own list.                                                    *)

NewPeer(a) == [addr |-> a, delay |-> InitialDelay, wait |-> 0, stopped |-> FALSE]
Reset(peer) == [peer EXCEPT !.delay = InitialDelay, !.wait = 0, !.stopped = FALSE]
next_reconnect_delay(delay) == Lesser(2 * delay, MaxDelay)
record_failure(peer) == [peer EXCEPT !.wait = peer.delay, !.delay = next_reconnect_delay(peer.delay)]
normalize_reconnect_delay(delay) == IF delay = 0 THEN 1 ELSE delay
bounded_retry_after(delay) == Lesser(normalize_reconnect_delay(delay), MaxDelay)
record_retry_after(peer, delay) == [peer EXCEPT !.wait = bounded_retry_after(delay)]

\* Faulty variant: candidates that stay lose their backoff.
reconcile_afresh(list) == [i \in DOMAIN list |-> NewPeer(list[i])]

\* Candidates that stay keep their backoff; those that come start afresh.
reconcile(list) ==
    [i \in DOMAIN list |->
        IF list[i] \in Listed THEN peers[CHOOSE j \in DOMAIN peers : peers[j].addr = list[i]]
        ELSE NewPeer(list[i])]

ReconciledHealth(h, list) == [a \in ToSet(list) |-> Known(h, a)]

Waits(list) == [i \in DOMAIN list |-> list[i].wait]
PassOver(list) == [at |-> 1, phase |-> "visit", waits |-> Waits(list), sleep |-> 0]
Asleep == [at |-> 0, phase |-> "sleep", waits |-> <<>>, sleep |-> 0]

\* Faulty variant: with nobody to wait for, the loop wakes up only for new candidates.
SleepAfter_change(sleep) == sleep

\* sleep_for, or the initial delay if no candidate has one.
SleepAfter(sleep) == IF sleep = 0 THEN InitialDelay ELSE sleep

EndPass == pass' = Asleep /\ timer' = SleepAfter(pass.sleep)

Sooner(sleep, wait) == IF sleep = 0 THEN wait ELSE Lesser(sleep, wait)
NextPeer(sleep) == pass' = [pass EXCEPT !.at = @ + 1, !.phase = "visit", !.sleep = sleep]

-----------------------------------------------------------------------------
ReconnectInit ==
    /\ offered \in Offers
    /\ changed = FALSE
    /\ peers = [i \in DOMAIN offered |-> NewPeer(offered[i])]
    /\ health = [a \in ToSet(offered) |-> DefaultHealth]
    /\ linked = {}
    /\ others = 0
    /\ notices = <<>>
    /\ pass = PassOver(peers)
    /\ timer = 0
    /\ silence = [a \in Addresses |-> 0]

SlotsTaken == Cardinality(linked) + others
Full == SlotsTaken >= MaxPeers
Current == peers[pass.at]
Visiting == pass.at \in DOMAIN peers /\ pass.phase = "visit"
Dialling(a) == pass.at \in DOMAIN peers /\ pass.phase # "visit" /\ Current.addr = a

\* A candidate that is stopped, connected or not yet due needs no dial.
SkipPeer ==
    /\ Visiting
    /\ \/ /\ Current.stopped
          /\ NextPeer(pass.sleep)
          /\ UNCHANGED <<peers, health>>
       \/ /\ ~Current.stopped /\ Current.addr \in linked
          /\ health' = record_peer_success(health, Current.addr)
          /\ peers' = [peers EXCEPT ![pass.at] = Reset(@)]
          /\ NextPeer(pass.sleep)
       \/ /\ ~Current.stopped /\ Current.addr \notin linked
          /\ pass.waits[pass.at] > 0
          /\ NextPeer(Sooner(pass.sleep, pass.waits[pass.at]))
          /\ UNCHANGED <<peers, health>>
    /\ UNCHANGED <<offered, changed, linked, others, notices, timer, silence>>

\* try_connect_configured_peer up to the dial; without a slot the pass ends.
BeginDial ==
    /\ Visiting
    /\ ~Current.stopped /\ Current.addr \notin linked /\ pass.waits[pass.at] = 0
    /\ IF Full THEN EndPass
       ELSE pass' = [pass EXCEPT !.phase = "dial"] /\ UNCHANGED timer
    /\ UNCHANGED <<offered, changed, peers, health, linked, others, notices, silence>>

\* The handshake succeeds: the connection exists before the loop hears of it.
Establish ==
    /\ pass.at > 0 /\ pass.phase = "dial"
    /\ ~Full
    /\ Len(notices) < EventCapacity
    /\ linked' = linked \union {Current.addr}
    /\ notices' = Append(notices, [kind |-> "PeerConnected", addr |-> Current.addr])
    /\ pass' = [pass EXCEPT !.phase = "established"]
    /\ UNCHANGED <<offered, changed, peers, health, others, timer, silence>>

FinishDial ==
    /\ pass.at > 0 /\ pass.phase = "established"
    /\ health' = record_peer_success(health, Current.addr)
    /\ peers' = [peers EXCEPT ![pass.at] = Reset(@)]
    /\ silence' = [silence EXCEPT ![Current.addr] = 0]
    /\ NextPeer(pass.sleep)
    /\ UNCHANGED <<offered, changed, linked, others, notices, timer>>

\* PeerLimitReached: somebody took the slot during the handshake.
SlotLost ==
    /\ pass.at > 0 /\ pass.phase = "dial"
    /\ Full
    /\ EndPass
    /\ UNCHANGED <<offered, changed, peers, health, linked, others, notices, silence>>

\* connect_failure_outcome: try again after the backoff, after what the peer
\* asked for, or never.
DialFails ==
    /\ pass.at > 0 /\ pass.phase = "dial"
    /\ health' = record_peer_failure(health, Current.addr)
    /\ \/ \E peer \in {record_failure(Current)} \union {record_retry_after(Current, r) : r \in RetryAfters} :
             /\ peers' = [peers EXCEPT ![pass.at] = peer]
             /\ silence' = [silence EXCEPT ![Current.addr] = peer.wait]
             /\ NextPeer(Sooner(pass.sleep, peer.wait))
       \/ /\ peers' = [peers EXCEPT ![pass.at].stopped = TRUE]
          /\ NextPeer(pass.sleep)
          /\ UNCHANGED silence
    /\ UNCHANGED <<offered, changed, linked, others, notices, timer>>

PassDone ==
    /\ pass.at > Len(peers)
    /\ EndPass
    /\ UNCHANGED <<offered, changed, peers, health, linked, others, notices, silence>>

WakeUp ==
    /\ pass = Asleep
    /\ timer = 1
    /\ timer' = 0
    /\ pass' = PassOver([i \in DOMAIN peers |-> [peers[i] EXCEPT !.wait = IF @ = 0 THEN 0 ELSE @ - 1]])
    /\ peers' = [i \in DOMAIN peers |-> [peers[i] EXCEPT !.wait = IF @ = 0 THEN 0 ELSE @ - 1]]
    /\ silence' = [a \in Addresses |-> IF silence[a] = 0 THEN 0 ELSE silence[a] - 1]
    /\ UNCHANGED <<offered, changed, health, linked, others, notices>>

\* New candidates end the sleep; reconcile_reconnect_candidates, then a pass.
Reconcile ==
    /\ pass = Asleep
    /\ changed
    /\ changed' = FALSE
    /\ peers' = reconcile(offered)
    /\ health' = ReconciledHealth(health, offered)
    /\ pass' = PassOver(peers')
    /\ timer' = 0
    /\ silence' = [a \in Addresses |-> IF a \in Listed /\ a \in ToSet(offered) THEN silence[a] ELSE 0]
    /\ UNCHANGED <<offered, linked, others, notices>>

\* A tick of time, during a sleep that goes on or during a dial.
Tick ==
    /\ \/ pass = Asleep /\ timer > 1 /\ timer' = timer - 1
       \/ pass.phase = "dial" /\ UNCHANGED timer
    /\ peers' = [i \in DOMAIN peers |-> [peers[i] EXCEPT !.wait = IF @ = 0 THEN 0 ELSE @ - 1]]
    /\ silence' = [a \in Addresses |-> IF silence[a] = 0 THEN 0 ELSE silence[a] - 1]
    /\ UNCHANGED <<offered, changed, health, linked, others, notices, pass>>

\* The event loop's part: PeerConnected and PeerDisconnected.
HandleNotice ==
    /\ notices # <<>>
    /\ LET n == Head(notices)
           h2 == IF n.kind = "PeerConnected" THEN record_peer_success(health, n.addr)
                 ELSE record_peer_failure(health, n.addr)
       IN health' = mark_known_peer(health, n.addr, h2)
    /\ notices' = Tail(notices)
    /\ UNCHANGED <<offered, changed, peers, linked, others, pass, timer, silence>>

Disconnect(a) ==
    /\ a \in linked
    /\ Len(notices) < EventCapacity
    /\ linked' = linked \ {a}
    /\ notices' = Append(notices, [kind |-> "PeerDisconnected", addr |-> a])
    /\ UNCHANGED <<offered, changed, peers, health, others, pass, timer, silence>>

OtherConnection ==
    /\ \/ others < MaxOthers /\ ~Full /\ others' = others + 1
       \/ others > 0 /\ others' = others - 1
    /\ UNCHANGED <<offered, changed, peers, health, linked, notices, pass, timer, silence>>

Offer(list) ==
    /\ list # offered
    /\ offered' = list
    /\ changed' = TRUE
    /\ UNCHANGED <<peers, health, linked, others, notices, pass, timer, silence>>

LoopStep ==
    \/ SkipPeer \/ BeginDial \/ Establish \/ FinishDial \/ SlotLost \/ DialFails \/ PassDone
    \/ WakeUp \/ Reconcile

ReconnectNext ==
    \/ LoopStep \/ Tick \/ HandleNotice \/ OtherConnection
    \/ \E a \in Addresses : Disconnect(a)
    \/ \E list \in Offers : Offer(list)

-----------------------------------------------------------------------------
(* A candidate that is not connected, and that no fatal error has stopped, *)
(* is dialled again and again while a slot is free: a pass that ends at    *)
(* the first candidate without a slot (replication.rs:228), a backoff, or  *)
(* candidates that change all the time, only delay it.                     *)
CandidateIsDialled ==
    \A a \in Addresses :
       []<>( \/ a \notin Listed \/ a \in linked \/ Full \/ Dialling(a)
             \/ \E i \in DOMAIN peers : peers[i].addr = a /\ peers[i].stopped )

(* The health records are those of the loop's candidates: an event of a    *)
(* connection that outlives its candidate adds none (replication.rs:640).  *)
HealthCoversCandidates == DOMAIN health = Listed

(* The loop never dials a candidate before its backoff, or what the peer   *)
(* asked for, is over, whatever the other candidates and the changes of    *)
(* the list do to its sleeps (reconcile_reconnect_candidates,              *)
(* replication.rs:364).                                                    *)
BackoffIsHonoured == \A a \in Addresses : Dialling(a) => silence[a] = 0

(* Backoffs and health records survive changes of the list for those that  *)
(* stay in it (reconcile_reconnect_candidates, mark_known_peer).           *)
ReconnectInv == BackoffIsHonoured /\ HealthCoversCandidates
=============================================================================
