--------------------------- MODULE NodePartsProofs ---------------------------
(***************************************************************************)
(* Theorems about single parts of Node that work beside the replication:   *)
(* the reconnect loop, the guests' calls, the migration of the schema and  *)
(* the walks over pages.                                                   *)
(***************************************************************************)
EXTENDS Node, FiniteSetTheorems, SequenceTheorems, WellFoundedInduction, TLAPS

(* The reconnect loop. *)

PeerRecords == [addr : Peers!Addresses, delay : Nat, wait : Nat, stopped : BOOLEAN]
Passes ==
    [at : Nat, phase : {"visit", "dial", "established", "sleep"},
     waits : UNION {[S -> Nat] : S \in SUBSET Nat}, sleep : Nat]

ReconnectType ==
    /\ offered \in Offers
    /\ peers \in [DOMAIN peers -> PeerRecords]
    /\ DOMAIN peers \subseteq Nat \ {0}
    /\ linked \subseteq Peers!Addresses
    /\ silence \in [Peers!Addresses -> Nat]
    /\ pass \in Passes

DistinctPeers == \A i, j \in DOMAIN peers : peers[i].addr = peers[j].addr => i = j

\* No candidate waits less than it must: neither in the list nor in the part of
\* the pass that is still to come.
WaitsCover == \A i \in DOMAIN peers : silence[peers[i].addr] <= peers[i].wait
PassCovers ==
    pass.at > 0 =>
       /\ DOMAIN pass.waits = DOMAIN peers
       /\ \A i \in DOMAIN peers : i >= pass.at => silence[peers[i].addr] <= pass.waits[i]

\* A dial is one of a candidate that may be dialled and is not connected.
DialFits ==
    /\ pass.phase = "sleep" => pass.at = 0
    /\ pass.phase \in {"dial", "established"} =>
          pass.at \in DOMAIN peers /\ silence[peers[pass.at].addr] = 0
    /\ pass.phase = "dial" => peers[pass.at].addr \notin linked

LinkedIsSilent == \A a \in linked : silence[a] = 0

ReconnectInd ==
    /\ ReconnectType /\ DistinctPeers
    /\ WaitsCover /\ PassCovers /\ DialFits /\ LinkedIsSilent
    /\ Peers!HealthCoversCandidates

\* Each record of the loop's list is one of the type.
LEMMA PeerFacts ==
    ASSUME ReconnectType, NEW i \in DOMAIN peers
    PROVE  /\ i \in Nat /\ i > 0
           /\ peers[i] \in PeerRecords
           /\ peers[i].addr \in Peers!Addresses
           /\ peers[i].delay \in Nat
           /\ peers[i].wait \in Nat
           /\ silence[peers[i].addr] \in Nat
  BY DEF ReconnectType, PeerRecords

\* A step that keeps the list's addresses.
LEMMA ListStays ==
    ASSUME ReconnectInd,
           peers' \in [DOMAIN peers -> PeerRecords],
           \A i \in DOMAIN peers : peers'[i].addr = peers[i].addr,
           silence' \in [Peers!Addresses -> Nat],
           DOMAIN health' = DOMAIN health,
           linked' \subseteq Peers!Addresses,
           offered' \in Offers,
           pass' \in Passes,
           WaitsCover', PassCovers', DialFits', LinkedIsSilent'
    PROVE  ReconnectInd'
  <1>0. DOMAIN peers' = DOMAIN peers
    OBVIOUS
  <1>1. ReconnectType'
    BY <1>0 DEF ReconnectInd, ReconnectType
  <1>2. DistinctPeers'
    BY <1>0 DEF ReconnectInd, DistinctPeers
  <1>3. Peers!Listed' = Peers!Listed
    BY <1>0 DEF Peers!Listed
  <1>4. Peers!HealthCoversCandidates'
    BY <1>3 DEF ReconnectInd, Peers!HealthCoversCandidates
  <1> QED
    BY <1>1, <1>2, <1>4 DEF ReconnectInd

\* A record for a candidate of the list keeps the set of records.
LEMMA RecordsStay ==
    ASSUME ReconnectInd, NEW i \in DOMAIN peers,
           \/ health' = Peers!record_peer_success(health, peers[i].addr)
           \/ health' = Peers!record_peer_failure(health, peers[i].addr)
    PROVE  DOMAIN health' = DOMAIN health
  <1>1. peers[i].addr \in DOMAIN health
    BY DEF ReconnectInd, Peers!HealthCoversCandidates, Peers!Listed
  <1> QED
    BY <1>1 DEF Peers!record_peer_success, Peers!record_peer_failure, Peers!Recorded

\* The pass goes on to the next candidate.
LEMMA PassGoesOn ==
    ASSUME ReconnectInd, pass.at \in DOMAIN peers, NEW sleep \in Nat,
           Peers!NextPeer(sleep)
    PROVE  /\ pass' \in Passes
           /\ pass'.at = pass.at + 1
           /\ pass'.phase = "visit"
           /\ pass'.waits = pass.waits
  <1>1. pass \in Passes
    BY DEF ReconnectInd, ReconnectType
  <1>2. pass.at \in Nat /\ pass.at + 1 \in Nat
    BY <1>1 DEF Passes
  <1> QED
    BY <1>1, <1>2 DEF Peers!NextPeer, Passes

\* Delays and sleeps are natural numbers.
LEMMA DelaysAreNat ==
    ASSUME NEW m \in Nat, NEW n \in Nat
    PROVE  /\ Peers!Lesser(m, n) \in Nat
           /\ Peers!Sooner(m, n) \in Nat
           /\ Peers!bounded_retry_after(n) \in Nat
           /\ Peers!next_reconnect_delay(n) \in Nat
  BY PeersAssumption DEF Peers!Lesser, Peers!Sooner, Peers!bounded_retry_after,
                         Peers!normalize_reconnect_delay, Peers!next_reconnect_delay

LEMMA ResetIsRecord ==
    ASSUME NEW r \in PeerRecords
    PROVE  /\ Peers!Reset(r) \in PeerRecords
           /\ Peers!Reset(r).addr = r.addr
  BY PeersAssumption DEF Peers!Reset, PeerRecords

\* A candidate that needs no dial.
LEMMA PeerIsSkipped ==
    ASSUME ReconnectInd, Peers!SkipPeer
    PROVE  ReconnectInd'
  <1>1. /\ ReconnectType /\ pass.at \in DOMAIN peers /\ pass.at \in Nat /\ pass.at > 0
        /\ pass \in Passes /\ pass.sleep \in Nat
    BY PeerFacts DEF ReconnectInd, ReconnectType, Passes, Peers!SkipPeer, Peers!Visiting
  <1>2. pass.waits[pass.at] \in Nat
    <2>1. pass.waits \in UNION {[S -> Nat] : S \in SUBSET Nat} /\ DOMAIN pass.waits = DOMAIN peers
      BY <1>1 DEF ReconnectInd, PassCovers, Passes
    <2> QED
      BY <1>1, <2>1
  <1>3. \E sleep \in Nat : Peers!NextPeer(sleep)
    BY <1>1, <1>2, DelaysAreNat DEF Peers!SkipPeer
  <1>4. /\ pass' \in Passes /\ pass'.at = pass.at + 1
        /\ pass'.phase = "visit" /\ pass'.waits = pass.waits
    BY <1>1, <1>3, PassGoesOn
  <1>5. /\ peers' \in [DOMAIN peers -> PeerRecords]
        /\ \A i \in DOMAIN peers : peers'[i].addr = peers[i].addr
        /\ \A i \in DOMAIN peers : silence[peers[i].addr] <= peers'[i].wait
        /\ DOMAIN health' = DOMAIN health
    <2>1. CASE UNCHANGED <<peers, health>>
      BY <2>1 DEF ReconnectInd, ReconnectType, WaitsCover
    <2>2. CASE /\ peers[pass.at].addr \in linked
               /\ health' = Peers!record_peer_success(health, peers[pass.at].addr)
               /\ peers' = [peers EXCEPT ![pass.at] = Peers!Reset(@)]
      <3>1. /\ Peers!Reset(peers[pass.at]) \in PeerRecords
            /\ Peers!Reset(peers[pass.at]).addr = peers[pass.at].addr
        BY <1>1, PeerFacts, ResetIsRecord
      <3>2. silence[peers[pass.at].addr] = 0 /\ Peers!Reset(peers[pass.at]).wait = 0
        BY <1>1, <2>2, PeerFacts DEF ReconnectInd, LinkedIsSilent, Peers!Reset, PeerRecords
      <3>3. DOMAIN health' = DOMAIN health
        BY <1>1, <2>2, RecordsStay
      <3> QED
        BY <1>1, <2>2, <3>1, <3>2, <3>3 DEF ReconnectInd, ReconnectType, WaitsCover
    <2> QED
      BY <2>1, <2>2 DEF Peers!SkipPeer, Peers!Current
  <1>6. UNCHANGED <<offered, linked, silence>>
    BY DEF Peers!SkipPeer
  <1>7. DOMAIN peers' = DOMAIN peers
    BY <1>5
  <1>8. WaitsCover'
    BY <1>5, <1>6, <1>7 DEF WaitsCover
  <1>9. PassCovers'
    BY <1>1, <1>4, <1>5, <1>6, <1>7, PeerFacts DEF ReconnectInd, PassCovers
  <1>10. DialFits' /\ LinkedIsSilent'
    BY <1>4, <1>6 DEF ReconnectInd, DialFits, LinkedIsSilent
  <1> QED
    BY <1>4, <1>5, <1>6, <1>8, <1>9, <1>10, ListStays DEF ReconnectInd, ReconnectType

\* The pass ends.
LEMMA PassIsOver ==
    ASSUME ReconnectInd, Peers!EndPass, UNCHANGED <<offered, peers, health, linked, silence>>
    PROVE  ReconnectInd'
  <1>1. pass' = [at |-> 0, phase |-> "sleep", waits |-> <<>>, sleep |-> 0]
    BY DEF Peers!EndPass, Peers!Asleep
  <1>2. <<>> \in UNION {[S -> Nat] : S \in SUBSET Nat}
    <2>1. <<>> \in [{} -> Nat]
      OBVIOUS
    <2> QED
      BY <2>1
  <1>3. pass' \in Passes
    BY <1>1, <1>2 DEF Passes
  <1>4. WaitsCover' /\ PassCovers' /\ DialFits' /\ LinkedIsSilent'
    BY <1>1 DEF ReconnectInd, WaitsCover, PassCovers, DialFits, LinkedIsSilent
  <1> QED
    BY <1>3, <1>4, ListStays DEF ReconnectInd, ReconnectType

\* A dial begins: the wait that the pass found has been over.
LEMMA DialBegins ==
    ASSUME ReconnectInd, Peers!BeginDial
    PROVE  ReconnectInd'
  <1>1. CASE Peers!Full
    BY <1>1, PassIsOver DEF Peers!BeginDial
  <1>2. CASE ~Peers!Full
    <2>1. /\ pass.at \in DOMAIN peers /\ pass.at \in Nat /\ pass.at > 0
          /\ pass.waits[pass.at] = 0
          /\ peers[pass.at].addr \notin linked
          /\ pass' = [pass EXCEPT !.phase = "dial"]
          /\ UNCHANGED <<offered, peers, health, linked, silence>>
      BY <1>2, PeerFacts DEF ReconnectInd, Peers!BeginDial, Peers!Visiting, Peers!Current
    <2>2. pass \in Passes
      BY DEF ReconnectInd, ReconnectType
    <2>3. /\ pass' \in Passes /\ pass'.phase = "dial"
          /\ pass'.at = pass.at /\ pass'.waits = pass.waits
      BY <2>1, <2>2 DEF Passes
    <2>4. silence[peers[pass.at].addr] = 0
      BY <2>1, PeerFacts DEF ReconnectInd, PassCovers
    <2>5. WaitsCover' /\ PassCovers' /\ LinkedIsSilent'
      BY <2>1, <2>3 DEF ReconnectInd, WaitsCover, PassCovers, LinkedIsSilent
    <2>6. DialFits'
      BY <2>1, <2>3, <2>4 DEF DialFits
    <2> QED
      BY <2>1, <2>3, <2>5, <2>6, ListStays DEF ReconnectInd, ReconnectType
  <1> QED
    BY <1>1, <1>2

\* The connection exists.
LEMMA DialSucceeds ==
    ASSUME ReconnectInd, Peers!Establish
    PROVE  ReconnectInd'
  <1>1. /\ pass.at \in DOMAIN peers /\ silence[peers[pass.at].addr] = 0
        /\ linked' = linked \cup {peers[pass.at].addr}
        /\ pass' = [pass EXCEPT !.phase = "established"]
        /\ UNCHANGED <<offered, peers, health, silence>>
    BY DEF ReconnectInd, DialFits, Peers!Establish, Peers!Current
  <1>2. pass \in Passes
    BY DEF ReconnectInd, ReconnectType
  <1>3. /\ pass' \in Passes /\ pass'.phase = "established"
        /\ pass'.at = pass.at /\ pass'.waits = pass.waits
    BY <1>1, <1>2 DEF Passes
  <1>4. linked' \subseteq Peers!Addresses
    BY <1>1, PeerFacts DEF ReconnectInd, ReconnectType
  <1>5. WaitsCover' /\ PassCovers' /\ LinkedIsSilent'
    BY <1>1, <1>3 DEF ReconnectInd, WaitsCover, PassCovers, LinkedIsSilent
  <1>6. DialFits'
    BY <1>1, <1>3 DEF DialFits
  <1> QED
    BY <1>1, <1>3, <1>4, <1>5, <1>6, ListStays DEF ReconnectInd, ReconnectType

\* What follows a dial: the record of its candidate changes, and what it must
\* wait with it; nobody else's does.
AfterDial(r, w, sleep) ==
    /\ pass.phase \in {"dial", "established"}
    /\ r \in PeerRecords /\ r.addr = peers[pass.at].addr
    /\ peers' = [peers EXCEPT ![pass.at] = r]
    /\ w \in Nat /\ w <= r.wait
    /\ peers[pass.at].addr \in linked => w = 0
    /\ silence' = [silence EXCEPT ![peers[pass.at].addr] = w]
    /\ sleep \in Nat /\ Peers!NextPeer(sleep)
    /\ DOMAIN health' = DOMAIN health
    /\ UNCHANGED <<offered, linked>>

LEMMA DialIsOver ==
    ASSUME ReconnectInd, NEW r, NEW w, NEW sleep, AfterDial(r, w, sleep)
    PROVE  ReconnectInd'
  <1> USE DEF AfterDial
  <1>1. pass.at \in DOMAIN peers /\ pass.at \in Nat /\ pass.at > 0
    BY PeerFacts DEF ReconnectInd, DialFits
  <1>2. /\ pass' \in Passes /\ pass'.at = pass.at + 1
        /\ pass'.phase = "visit" /\ pass'.waits = pass.waits
    BY <1>1, PassGoesOn
  <1>3. /\ peers' \in [DOMAIN peers -> PeerRecords]
        /\ DOMAIN peers' = DOMAIN peers
        /\ \A i \in DOMAIN peers : peers'[i].addr = peers[i].addr
        /\ \A i \in DOMAIN peers : i # pass.at => peers'[i] = peers[i]
        /\ peers'[pass.at] = r
    BY <1>1 DEF ReconnectInd, ReconnectType
  <1>4. /\ silence' \in [Peers!Addresses -> Nat]
        /\ silence'[peers[pass.at].addr] = w
        /\ \A a \in Peers!Addresses : a # peers[pass.at].addr => silence'[a] = silence[a]
    BY <1>1, PeerFacts DEF ReconnectInd, ReconnectType
  <1>5. \A i \in DOMAIN peers : i # pass.at => silence'[peers[i].addr] = silence[peers[i].addr]
    BY <1>1, <1>4, PeerFacts DEF ReconnectInd, DistinctPeers
  <1>6. WaitsCover'
    BY <1>1, <1>3, <1>4, <1>5 DEF ReconnectInd, WaitsCover
  <1>7. PassCovers'
    <2> SUFFICES ASSUME NEW i \in DOMAIN peers, i >= pass.at + 1
                 PROVE  silence'[peers[i].addr] <= pass.waits[i]
      BY <1>1, <1>2, <1>3 DEF ReconnectInd, PassCovers
    <2>1. i \in Nat /\ i # pass.at /\ i >= pass.at
      BY <1>1, PeerFacts DEF ReconnectInd
    <2> QED
      BY <1>1, <1>5, <2>1 DEF ReconnectInd, PassCovers
  <1>8. DialFits'
    BY <1>2 DEF DialFits
  <1>9. LinkedIsSilent'
    BY <1>4 DEF ReconnectInd, ReconnectType, LinkedIsSilent
  <1> QED
    BY <1>2, <1>3, <1>4, <1>6, <1>7, <1>8, <1>9, ListStays DEF ReconnectInd, ReconnectType

\* The loop hears of the connection.
LEMMA DialEnds ==
    ASSUME ReconnectInd, Peers!FinishDial
    PROVE  ReconnectInd'
  <1>1. pass.at \in DOMAIN peers /\ pass.phase = "established" /\ peers[pass.at] \in PeerRecords
    BY PeerFacts DEF ReconnectInd, DialFits, Peers!FinishDial
  <1>2. /\ Peers!Reset(peers[pass.at]) \in PeerRecords
        /\ Peers!Reset(peers[pass.at]).addr = peers[pass.at].addr
        /\ Peers!Reset(peers[pass.at]).wait = 0
    BY <1>1, ResetIsRecord DEF Peers!Reset, PeerRecords
  <1>3. /\ peers' = [peers EXCEPT ![pass.at] = Peers!Reset(peers[pass.at])]
        /\ silence' = [silence EXCEPT ![peers[pass.at].addr] = 0]
        /\ Peers!NextPeer(pass.sleep)
        /\ UNCHANGED <<offered, linked>>
    BY DEF Peers!FinishDial, Peers!Current
  <1>4. DOMAIN health' = DOMAIN health
    BY <1>1, RecordsStay DEF Peers!FinishDial, Peers!Current
  <1>5. pass.sleep \in Nat
    BY DEF ReconnectInd, ReconnectType, Passes
  <1>6. AfterDial(Peers!Reset(peers[pass.at]), 0, pass.sleep)
    BY <1>1, <1>2, <1>3, <1>4, <1>5 DEF AfterDial
  <1> QED
    BY <1>6, DialIsOver

\* The dial fails: the candidate waits as long as it must, or stops.
LEMMA DialIsLost ==
    ASSUME ReconnectInd, Peers!DialFails
    PROVE  ReconnectInd'
  <1>1. /\ pass.at \in DOMAIN peers /\ pass.phase = "dial" /\ peers[pass.at] \in PeerRecords
        /\ peers[pass.at].addr \notin linked
        /\ UNCHANGED <<offered, linked>>
    BY PeerFacts DEF ReconnectInd, DialFits, Peers!DialFails
  <1>2. DOMAIN health' = DOMAIN health
    BY <1>1, RecordsStay DEF Peers!DialFails, Peers!Current
  <1>3. pass.sleep \in Nat
    BY DEF ReconnectInd, ReconnectType, Passes
  <1>4. CASE \E peer \in {Peers!record_failure(peers[pass.at])}
                         \union {Peers!record_retry_after(peers[pass.at], r) : r \in RetryAfters} :
                /\ peers' = [peers EXCEPT ![pass.at] = peer]
                /\ silence' = [silence EXCEPT ![peers[pass.at].addr] = peer.wait]
                /\ Peers!NextPeer(Peers!Sooner(pass.sleep, peer.wait))
    <2>1. PICK peer \in {Peers!record_failure(peers[pass.at])}
                        \union {Peers!record_retry_after(peers[pass.at], r) : r \in RetryAfters} :
                /\ peers' = [peers EXCEPT ![pass.at] = peer]
                /\ silence' = [silence EXCEPT ![peers[pass.at].addr] = peer.wait]
                /\ Peers!NextPeer(Peers!Sooner(pass.sleep, peer.wait))
      BY <1>4
    <2>2. peer \in PeerRecords /\ peer.addr = peers[pass.at].addr
      <3>1. CASE peer = Peers!record_failure(peers[pass.at])
        BY <1>1, <3>1, DelaysAreNat DEF Peers!record_failure, PeerRecords
      <3>2. CASE \E r \in RetryAfters : peer = Peers!record_retry_after(peers[pass.at], r)
        <4>1. PICK r \in RetryAfters : peer = Peers!record_retry_after(peers[pass.at], r)
          BY <3>2
        <4>2. Peers!bounded_retry_after(r) \in Nat
          BY DelaysAreNat, PeersAssumption
        <4> QED
          BY <1>1, <4>1, <4>2 DEF Peers!record_retry_after, PeerRecords
      <3> QED
        BY <3>1, <3>2
    <2>3. peer.wait \in Nat /\ Peers!Sooner(pass.sleep, peer.wait) \in Nat
      BY <1>3, <2>2, DelaysAreNat DEF PeerRecords
    <2>4. AfterDial(peer, peer.wait, Peers!Sooner(pass.sleep, peer.wait))
      BY <1>1, <1>2, <2>1, <2>2, <2>3 DEF AfterDial
    <2> QED
      BY <2>4, DialIsOver
  <1>5. CASE /\ peers' = [peers EXCEPT ![pass.at].stopped = TRUE]
             /\ Peers!NextPeer(pass.sleep)
             /\ UNCHANGED silence
    <2> DEFINE r == [peers[pass.at] EXCEPT !.stopped = TRUE]
    <2>1. r \in PeerRecords /\ r.addr = peers[pass.at].addr /\ r.wait \in Nat
      BY <1>1 DEF PeerRecords
    <2>2. peers' = [peers EXCEPT ![pass.at] = r]
      BY <1>5
    <2>3. silence[peers[pass.at].addr] = 0
      BY <1>1 DEF ReconnectInd, DialFits
    <2>4. silence' = [silence EXCEPT ![peers[pass.at].addr] = 0]
      BY <1>1, <1>5, <2>3, PeerFacts DEF ReconnectInd, ReconnectType
    <2>5. Peers!NextPeer(pass.sleep) /\ 0 <= r.wait
      BY <1>5, <2>1
    <2> HIDE DEF r
    <2>6. AfterDial(r, 0, pass.sleep)
      BY <1>1, <1>2, <1>3, <2>1, <2>2, <2>4, <2>5 DEF AfterDial
    <2> QED
      BY <2>6, DialIsOver
  <1> QED
    BY <1>4, <1>5 DEF Peers!DialFails, Peers!Current

\* Time passes for every candidate alike.
Later(list) == [i \in DOMAIN list |-> [list[i] EXCEPT !.wait = IF @ = 0 THEN 0 ELSE @ - 1]]

LEMMA TimePasses ==
    ASSUME ReconnectInd, peers' = Later(peers),
           silence' = [a \in Peers!Addresses |-> IF silence[a] = 0 THEN 0 ELSE silence[a] - 1]
    PROVE  /\ peers' \in [DOMAIN peers -> PeerRecords]
           /\ DOMAIN peers' = DOMAIN peers
           /\ \A i \in DOMAIN peers : peers'[i].addr = peers[i].addr
           /\ silence' \in [Peers!Addresses -> Nat]
           /\ \A a \in Peers!Addresses : silence'[a] <= silence[a]
           /\ WaitsCover'
  <1>1. \A i \in DOMAIN peers :
           /\ peers'[i] \in PeerRecords /\ peers'[i].addr = peers[i].addr
           /\ peers'[i].wait = IF peers[i].wait = 0 THEN 0 ELSE peers[i].wait - 1
    <2> SUFFICES ASSUME NEW i \in DOMAIN peers
                 PROVE  /\ peers'[i] \in PeerRecords /\ peers'[i].addr = peers[i].addr
                        /\ peers'[i].wait = IF peers[i].wait = 0 THEN 0 ELSE peers[i].wait - 1
      OBVIOUS
    <2>1. peers[i] \in PeerRecords
      BY PeerFacts DEF ReconnectInd
    <2>2. peers'[i] = [peers[i] EXCEPT !.wait = IF peers[i].wait = 0 THEN 0 ELSE peers[i].wait - 1]
      BY DEF Later
    <2> QED
      BY <2>1, <2>2 DEF PeerRecords
  <1>2. DOMAIN peers' = DOMAIN peers
    BY DEF Later
  <1>3. silence' \in [Peers!Addresses -> Nat] /\ \A a \in Peers!Addresses : silence'[a] <= silence[a]
    BY DEF ReconnectInd, ReconnectType
  <1>4. WaitsCover'
    BY <1>1, <1>2, PeerFacts DEF ReconnectInd, WaitsCover
  <1> QED
    BY <1>1, <1>2, <1>3, <1>4 DEF Later

LEMMA ClockTicks ==
    ASSUME ReconnectInd, Peers!Tick
    PROVE  ReconnectInd'
  <1>1. /\ peers' \in [DOMAIN peers -> PeerRecords]
        /\ DOMAIN peers' = DOMAIN peers
        /\ \A i \in DOMAIN peers : peers'[i].addr = peers[i].addr
        /\ silence' \in [Peers!Addresses -> Nat]
        /\ \A a \in Peers!Addresses : silence'[a] <= silence[a]
        /\ WaitsCover'
    BY TimePasses DEF Peers!Tick, Later
  <1>2. UNCHANGED <<offered, health, linked, pass>>
    BY DEF Peers!Tick
  <1>3. \A a \in Peers!Addresses : silence[a] \in Nat /\ silence'[a] \in Nat
    BY <1>1 DEF ReconnectInd, ReconnectType
  <1>4. PassCovers'
    <2> SUFFICES ASSUME pass.at > 0, NEW i \in DOMAIN peers, i >= pass.at
                 PROVE  silence'[peers[i].addr] <= pass.waits[i]
      BY <1>1, <1>2 DEF ReconnectInd, PassCovers
    <2>1. pass.waits[i] \in Nat
      <3>1. pass.waits \in UNION {[S -> Nat] : S \in SUBSET Nat} /\ DOMAIN pass.waits = DOMAIN peers
        BY DEF ReconnectInd, ReconnectType, PassCovers, Passes
      <3> QED
        BY <3>1
    <2>2. peers[i].addr \in Peers!Addresses
      BY PeerFacts DEF ReconnectInd
    <2> QED
      BY <1>1, <1>3, <2>1, <2>2 DEF ReconnectInd, PassCovers
  <1>5. DialFits'
    BY <1>1, <1>2, <1>3, PeerFacts DEF ReconnectInd, DialFits
  <1>6. LinkedIsSilent'
    BY <1>1, <1>2, <1>3 DEF ReconnectInd, ReconnectType, LinkedIsSilent
  <1> QED
    BY <1>1, <1>2, <1>4, <1>5, <1>6, ListStays DEF ReconnectInd, ReconnectType

\* A pass over a list begins with the waits of the list.
LEMMA PassBegins ==
    ASSUME NEW list, DOMAIN list \subseteq Nat, list \in [DOMAIN list -> PeerRecords]
    PROVE  /\ Peers!PassOver(list) \in Passes
           /\ Peers!PassOver(list).at = 1 /\ Peers!PassOver(list).phase = "visit"
           /\ Peers!PassOver(list).waits = [i \in DOMAIN list |-> list[i].wait]
  <1>1. [i \in DOMAIN list |-> list[i].wait] \in UNION {[S -> Nat] : S \in SUBSET Nat}
    <2>1. [i \in DOMAIN list |-> list[i].wait] \in [DOMAIN list -> Nat]
      BY DEF PeerRecords
    <2> QED
      BY <2>1
  <1> QED
    BY <1>1 DEF Peers!PassOver, Peers!Waits, Passes

LEMMA LoopWakesUp ==
    ASSUME ReconnectInd, Peers!WakeUp
    PROVE  ReconnectInd'
  <1>1. /\ peers' \in [DOMAIN peers -> PeerRecords]
        /\ DOMAIN peers' = DOMAIN peers
        /\ \A i \in DOMAIN peers : peers'[i].addr = peers[i].addr
        /\ silence' \in [Peers!Addresses -> Nat]
        /\ \A a \in Peers!Addresses : silence'[a] <= silence[a]
        /\ WaitsCover'
    BY TimePasses DEF Peers!WakeUp, Later
  <1>2. pass' = Peers!PassOver(peers') /\ UNCHANGED <<offered, health, linked>>
    BY DEF Peers!WakeUp
  <1>3. DOMAIN peers' \subseteq Nat
    BY <1>1 DEF ReconnectInd, ReconnectType
  <1>4. /\ pass' \in Passes /\ pass'.at = 1 /\ pass'.phase = "visit"
        /\ pass'.waits = [i \in DOMAIN peers' |-> peers'[i].wait]
    BY <1>1, <1>2, <1>3, PassBegins
  <1>5. PassCovers' /\ DialFits'
    BY <1>1, <1>4 DEF PassCovers, DialFits, WaitsCover
  <1>6. LinkedIsSilent'
    BY <1>1, <1>2 DEF ReconnectInd, ReconnectType, LinkedIsSilent
  <1> QED
    BY <1>1, <1>2, <1>4, <1>5, <1>6, ListStays DEF ReconnectInd, ReconnectType

\* New candidates: those that stay keep their record and what they must wait.
LEMMA ListIsReconciled ==
    ASSUME ReconnectInd, Peers!Reconcile
    PROVE  ReconnectInd'
  <1>1. /\ peers' = Peers!reconcile(offered)
        /\ health' = Peers!ReconciledHealth(health, offered)
        /\ pass' = Peers!PassOver(peers')
        /\ silence' = [a \in Peers!Addresses |->
                          IF a \in Peers!Listed /\ a \in Peers!ToSet(offered) THEN silence[a] ELSE 0]
        /\ UNCHANGED <<offered, linked>>
    BY DEF Peers!Reconcile
  <1>2. /\ offered \in Offers /\ offered \in Seq(Peers!Addresses)
        /\ \A i, j \in DOMAIN offered : offered[i] = offered[j] => i = j
    BY PeersAssumption DEF ReconnectInd, ReconnectType
  <1>3. DOMAIN peers' = DOMAIN offered /\ DOMAIN peers' \subseteq Nat \ {0}
    BY <1>1, <1>2 DEF Peers!reconcile
  <1>4. \A i \in DOMAIN offered :
           /\ peers'[i] \in PeerRecords
           /\ peers'[i].addr = offered[i]
           /\ silence'[offered[i]] <= peers'[i].wait
    <2> SUFFICES ASSUME NEW i \in DOMAIN offered
                 PROVE  /\ peers'[i] \in PeerRecords
                        /\ peers'[i].addr = offered[i]
                        /\ silence'[offered[i]] <= peers'[i].wait
      OBVIOUS
    <2>1. offered[i] \in Peers!Addresses /\ offered[i] \in Peers!ToSet(offered)
      BY <1>2 DEF Peers!ToSet
    <2>2. CASE offered[i] \in Peers!Listed
      <3>1. PICK j \in DOMAIN peers : peers[j].addr = offered[i] /\ peers'[i] = peers[j]
        BY <1>1, <2>2 DEF Peers!reconcile, Peers!Listed
      <3>2. silence'[offered[i]] = silence[offered[i]]
        BY <1>1, <2>1, <2>2
      <3>3. peers[j] \in PeerRecords
        BY PeerFacts DEF ReconnectInd
      <3> QED
        BY <3>1, <3>2, <3>3 DEF ReconnectInd, WaitsCover
    <2>3. CASE offered[i] \notin Peers!Listed
      <3>1. peers'[i] = [addr |-> offered[i], delay |-> InitialDelay, wait |-> 0, stopped |-> FALSE]
        BY <1>1, <2>3 DEF Peers!reconcile, Peers!NewPeer
      <3>2. silence'[offered[i]] = 0
        BY <1>1, <2>1, <2>3
      <3> QED
        BY <2>1, <3>1, <3>2, PeersAssumption DEF PeerRecords
    <2> QED
      BY <2>2, <2>3
  <1>5. peers' \in [DOMAIN peers' -> PeerRecords]
    <2>1. peers' = [i \in DOMAIN offered |-> peers'[i]]
      BY <1>1 DEF Peers!reconcile
    <2> QED
      BY <1>3, <1>4, <2>1
  <1>6. silence' \in [Peers!Addresses -> Nat] /\ linked' \subseteq Peers!Addresses
    BY <1>1 DEF ReconnectInd, ReconnectType
  <1>7. /\ pass' \in Passes /\ pass'.at = 1 /\ pass'.phase = "visit"
        /\ pass'.waits = [i \in DOMAIN peers' |-> peers'[i].wait]
    BY <1>1, <1>3, <1>5, PassBegins
  <1>8. ReconnectType'
    BY <1>1, <1>2, <1>3, <1>5, <1>6, <1>7 DEF ReconnectType
  <1>9. DistinctPeers'
    BY <1>2, <1>3, <1>4 DEF DistinctPeers
  <1>10. WaitsCover' /\ PassCovers' /\ DialFits'
    BY <1>3, <1>4, <1>7 DEF WaitsCover, PassCovers, DialFits
  <1>11. LinkedIsSilent'
    BY <1>1 DEF ReconnectInd, ReconnectType, LinkedIsSilent
  <1>12. Peers!HealthCoversCandidates'
    <2>1. Peers!Listed' = Peers!ToSet(offered)
      BY <1>3, <1>4 DEF Peers!Listed, Peers!ToSet
    <2> QED
      BY <1>1, <2>1 DEF Peers!HealthCoversCandidates, Peers!ReconciledHealth
  <1> QED
    BY <1>8, <1>9, <1>10, <1>11, <1>12 DEF ReconnectInd

\* What others do leaves the loop's list and its waits alone.
LEMMA OthersAct ==
    ASSUME ReconnectInd, UNCHANGED <<peers, pass, silence>>,
           linked' \subseteq linked, offered' \in Offers,
           DOMAIN health' = DOMAIN health
    PROVE  ReconnectInd'
  <1>1. WaitsCover' /\ PassCovers' /\ DialFits' /\ LinkedIsSilent'
    BY DEF ReconnectInd, WaitsCover, PassCovers, DialFits, LinkedIsSilent
  <1> QED
    BY <1>1, ListStays DEF ReconnectInd, ReconnectType

\* The event loop changes no record that the reconnect loop does not keep.
LEMMA NoticeIsHandled ==
    ASSUME ReconnectInd, Peers!HandleNotice
    PROVE  ReconnectInd'
  <1>1. DOMAIN health' = DOMAIN health
    BY DEF Peers!HandleNotice, Peers!mark_known_peer, Peers!record_peer_success,
           Peers!record_peer_failure, Peers!Recorded
  <1>2. UNCHANGED <<offered, peers, linked, pass, silence>>
    BY DEF Peers!HandleNotice
  <1> QED
    BY <1>1, <1>2, OthersAct DEF ReconnectInd, ReconnectType

LEMMA ReconnectStep ==
    ASSUME ReconnectInd, Peers!ReconnectNext
    PROVE  ReconnectInd'
  <1>1. CASE Peers!SlotLost \/ Peers!PassDone
    BY <1>1, PassIsOver DEF Peers!SlotLost, Peers!PassDone
  <1>2. CASE Peers!OtherConnection \/ \E a \in Peers!Addresses : Peers!Disconnect(a)
    BY <1>2, OthersAct DEF Peers!OtherConnection, Peers!Disconnect, ReconnectInd, ReconnectType
  <1>3. CASE \E list \in Offers : Peers!Offer(list)
    BY <1>3, OthersAct DEF Peers!Offer
  <1> QED
    BY <1>1, <1>2, <1>3, PeerIsSkipped, DialBegins, DialSucceeds, DialEnds, DialIsLost, LoopWakesUp,
       ListIsReconciled, ClockTicks, NoticeIsHandled
       DEF Peers!ReconnectNext, Peers!LoopStep

LEMMA ReconnectStarts == Peers!ReconnectInit => ReconnectInd
  <1> SUFFICES ASSUME Peers!ReconnectInit PROVE ReconnectInd
    OBVIOUS
  <1>1. /\ offered \in Offers /\ offered \in Seq(Peers!Addresses)
        /\ \A i, j \in DOMAIN offered : offered[i] = offered[j] => i = j
    BY PeersAssumption DEF Peers!ReconnectInit
  <1>2. peers = [i \in DOMAIN offered |->
                    [addr |-> offered[i], delay |-> InitialDelay, wait |-> 0, stopped |-> FALSE]]
    BY DEF Peers!ReconnectInit, Peers!NewPeer
  <1>3. peers \in [DOMAIN peers -> PeerRecords] /\ DOMAIN peers = DOMAIN offered
    BY <1>1, <1>2, PeersAssumption DEF PeerRecords
  <1>4. DOMAIN peers \subseteq Nat \ {0}
    BY <1>1, <1>3
  <1>5. /\ pass \in Passes /\ pass.at = 1 /\ pass.phase = "visit"
        /\ pass.waits = [i \in DOMAIN peers |-> peers[i].wait]
    BY <1>3, <1>4, PassBegins DEF Peers!ReconnectInit
  <1>6. /\ silence = [a \in Peers!Addresses |-> 0] /\ linked = {}
        /\ DOMAIN health = Peers!ToSet(offered)
    BY DEF Peers!ReconnectInit
  <1>7. ReconnectType
    BY <1>1, <1>3, <1>4, <1>5, <1>6 DEF ReconnectType
  <1>8. DistinctPeers
    BY <1>1, <1>2 DEF DistinctPeers
  <1>9. \A i \in DOMAIN peers : silence[peers[i].addr] = 0 /\ peers[i].wait = 0
    BY <1>2, <1>6, <1>7, PeerFacts
  <1>10. WaitsCover /\ PassCovers /\ DialFits /\ LinkedIsSilent
    BY <1>5, <1>6, <1>9 DEF WaitsCover, PassCovers, DialFits, LinkedIsSilent
  <1>11. Peers!HealthCoversCandidates
    BY <1>2, <1>6 DEF Peers!HealthCoversCandidates, Peers!Listed, Peers!ToSet
  <1> QED
    BY <1>7, <1>8, <1>10, <1>11 DEF ReconnectInd

\* No candidate is dialled before its backoff, or what it asked for, is over,
\* and the health records are those of the candidates, for any lists of
\* candidates, delays, slots and connections (reconnect loop,
\* reconcile_reconnect_candidates, mark_known_peer).
THEOREM BackoffsAreHonoured == Spec => []ReconnectInv
  <1> DEFINE Inv == kind = "reconnect" => ReconnectInd
  <1>1. Init => Inv
    BY ReconnectStarts DEF Init
  <1>2. Inv /\ [Next]_allVars => Inv'
    <2> SUFFICES ASSUME Inv, [Next]_allVars, kind = "reconnect" PROVE ReconnectInd' /\ kind' = kind
      BY DEF Next, allVars
    <2>1. kind' = kind
      BY DEF Next, allVars
    <2>2. CASE Next
      BY <2>2, ReconnectStep DEF Next
    <2>3. CASE UNCHANGED allVars
      BY <2>3, OthersAct DEF allVars, ofNode, ofReconnect, ReconnectInd, ReconnectType
    <2> QED
      BY <2>1, <2>2, <2>3
  <1>3. Inv => ReconnectInv
    <2> SUFFICES ASSUME ReconnectInd PROVE Peers!ReconnectInv
      BY DEF ReconnectInv
    <2>1. Peers!BackoffIsHonoured
      BY DEF ReconnectInd, ReconnectType, Passes, DialFits, Peers!BackoffIsHonoured, Peers!Dialling,
             Peers!Current
    <2> QED
      BY <2>1 DEF ReconnectInd, Peers!ReconnectInv
  <1> QED
    BY <1>1, <1>2, <1>3, PTL DEF Spec

-----------------------------------------------------------------------------
(* The guests' calls. *)

Ladder ==
    CHOOSE ladder \in SUBSET (1 .. MaxCap) :
       /\ {SmallCap, LargeCap} \subseteq ladder
       /\ \A cap \in ladder : cap = MaxCap \/ 2 * cap \in ladder

Codes == {"none", "ok", "ERR_BUF_TOO_SMALL", "ERR_NOT_FOUND", "ERR_INTERNAL"}
Results == [code : Codes, version : Nat, size : Nat]
Calls ==
    [api : {"none", "crdt_rga_insert"} \cup Guest!OneValue \cup Guest!Lists,
     cap : Nat, status : {"idle", "running", "done", "failed"}, result : Results]

GuestType ==
    /\ entry \in [version : Nat, size : 0 .. MaxValueLen]
    /\ sizes \in [0 .. MaxChanges + 1 -> Nat]
    /\ rows \in 0 .. MaxRows
    /\ call \in Calls
    /\ tries \in Nat
    /\ changes \in 0 .. MaxChanges

\* Versions count up: what was read of one stays what it was.
VersionsFit ==
    /\ entry.version <= changes + 1
    /\ entry.version > 0 => entry.size = sizes[entry.version]
    /\ call.status = "done" /\ call.api \in Guest!OneValue /\ call.result.code = "ok" =>
          /\ call.result.version \in 1 .. changes + 1
          /\ call.result.size = sizes[call.result.version]

CallFits ==
    /\ call.status # "idle" => call.cap \in Ladder
    /\ call.status = "idle" => call.api = "none"
    /\ sequence = sent
    /\ sequence = IF call.api = "crdt_rga_insert" /\ call.status = "done"
                  THEN {call.result.version} ELSE {}

GuestInd == GuestType /\ VersionsFit /\ CallFits /\ Guest!AcceptedIsReadable

LEMMA LadderFacts ==
    /\ Ladder \subseteq 1 .. MaxCap
    /\ SmallCap \in Ladder /\ LargeCap \in Ladder
    /\ \A cap \in Ladder : cap \in Nat /\ cap > 0 /\ cap <= MaxCap
    /\ \A cap \in Ladder : cap # MaxCap => 2 * cap <= MaxCap /\ 2 * cap \in Ladder
  <1>1. /\ Ladder \in SUBSET (1 .. MaxCap)
        /\ {SmallCap, LargeCap} \subseteq Ladder
        /\ \A cap \in Ladder : cap = MaxCap \/ 2 * cap \in Ladder
    BY BuffersAssumption DEF Ladder
  <1> QED
    BY <1>1, BuffersAssumption

\* A try that the buffer is too small for: a larger one, or the end at MaxCap.
LEMMA BufferGrows ==
    ASSUME GuestType, CallFits, call.status = "running", Guest!Grow(Guest!TooSmall)
    PROVE  \/ /\ call' \in Calls /\ call'.api = call.api /\ call'.status = "running"
              /\ call'.cap \in Ladder
           \/ /\ call.cap = MaxCap
              /\ call' \in Calls /\ call'.api = call.api /\ call'.status = "failed"
              /\ call'.cap \in Ladder
  <1>1. call \in Calls /\ call.cap \in Ladder
    BY DEF GuestType, CallFits
  <1>2. Guest!TooSmall \in Results
    BY DEF Guest!TooSmall, Guest!NoResult, Results, Codes
  <1>3. CASE call.cap = MaxCap
    <2>1. ~Guest!MayGrow(call.cap)
      BY <1>1, <1>3, LadderFacts, BuffersAssumption DEF Guest!MayGrow
    <2>2. call' = [call EXCEPT !.status = "failed", !.result = Guest!TooSmall]
      BY <2>1 DEF Guest!Grow
    <2> QED
      BY <1>1, <1>2, <1>3, <2>2 DEF Calls
  <1>4. CASE call.cap # MaxCap
    <2>1. Guest!MayGrow(call.cap) /\ 2 * call.cap \in Ladder /\ 2 * call.cap \in Nat
      BY <1>1, <1>4, LadderFacts DEF Guest!MayGrow
    <2>2. call' = [call EXCEPT !.cap = 2 * call.cap]
      BY <2>1 DEF Guest!Grow
    <2> QED
      BY <1>1, <2>1, <2>2 DEF Calls
  <1> QED
    BY <1>3, <1>4

\* A read that ends, goes on with a larger buffer or fails.
LEMMA CallReads ==
    ASSUME GuestInd, NEW api \in Guest!OneValue \cup Guest!Lists, NEW result \in Results,
           Guest!Read(api, result),
           result.code = "ok" /\ api \in Guest!OneValue =>
              /\ result.version \in 1 .. changes + 1
              /\ result.size = sizes[result.version],
           result = Guest!TooSmall /\ call.cap = MaxCap =>
              api \in Guest!Lists /\ 1 + MaxRows * RowSize > MaxCap
    PROVE  GuestInd'
  <1>1. /\ call.status = "running" /\ call.api = api
        /\ UNCHANGED <<entry, sizes, rows, sequence, sent, queued, tries, changes>>
        /\ api # "crdt_rga_insert" /\ api # "none"
        /\ call \in Calls /\ call.cap \in Ladder
    BY DEF Guest!Read, Guest!OneValue, Guest!Lists, GuestInd, GuestType, CallFits
  <1>2. CASE result = Guest!TooSmall
    <2>1. \/ /\ call' \in Calls /\ call'.api = call.api /\ call'.status = "running"
             /\ call'.cap \in Ladder
          \/ /\ call.cap = MaxCap
             /\ call' \in Calls /\ call'.api = call.api /\ call'.status = "failed"
             /\ call'.cap \in Ladder
      BY <1>1, <1>2, BufferGrows DEF GuestInd, Guest!Read
    <2>2. GuestType' /\ VersionsFit'
      BY <1>1, <2>1 DEF GuestInd, GuestType, VersionsFit
    <2>3. CallFits'
      BY <1>1, <2>1 DEF GuestInd, CallFits
    <2>4. Guest!AcceptedIsReadable'
      BY <1>1, <1>2, <2>1 DEF Guest!AcceptedIsReadable
    <2> QED
      BY <2>2, <2>3, <2>4 DEF GuestInd
  <1>3. CASE result # Guest!TooSmall
    <2>1. call' = [call EXCEPT !.status = "done", !.result = result]
      BY <1>3 DEF Guest!Read
    <2>2. /\ call' \in Calls /\ call'.api = api /\ call'.status = "done"
          /\ call'.cap = call.cap /\ call'.result = result
      BY <1>1, <2>1 DEF Calls
    <2>3. GuestType' /\ VersionsFit'
      BY <1>1, <2>2 DEF GuestInd, GuestType, VersionsFit
    <2>4. CallFits'
      BY <1>1, <2>2 DEF GuestInd, CallFits
    <2>5. Guest!AcceptedIsReadable'
      BY <1>1, <2>2 DEF Guest!AcceptedIsReadable
    <2> QED
      BY <2>3, <2>4, <2>5 DEF GuestInd
  <1> QED
    BY <1>2, <1>3

\* What the host answers a read of one value.
LEMMA ValueIsCopied ==
    ASSUME GuestInd, NEW api \in Guest!OneValue, Guest!Read(api, Guest!CopyValue(call.cap))
    PROVE  GuestInd'
  <1> DEFINE result == Guest!CopyValue(call.cap)
  <1>0. Guest!Read(api, result) /\ api \in Guest!OneValue \cup Guest!Lists
    OBVIOUS
  <1>1. /\ entry \in [version : Nat, size : 0 .. MaxValueLen] /\ changes \in Nat
        /\ entry.version \in Nat /\ entry.size \in Nat /\ entry.size <= MaxCap
    BY BuffersAssumption DEF GuestInd, GuestType
  <1>2. CASE entry.version = 0
    <2>1. result = [code |-> "ERR_NOT_FOUND", version |-> 0, size |-> 0]
      BY <1>2 DEF Guest!CopyValue, Guest!NoResult
    <2>2. result \in Results /\ result.code # "ok" /\ result # Guest!TooSmall
      BY <2>1 DEF Results, Codes, Guest!TooSmall, Guest!NoResult
    <2> HIDE DEF result
    <2> QED
      BY <1>0, <2>2, CallReads
  <1>3. CASE entry.version # 0 /\ entry.size > call.cap
    <2>1. result = [code |-> "ERR_BUF_TOO_SMALL", version |-> 0, size |-> 0]
      BY <1>3 DEF Guest!CopyValue, Guest!write_bytes, Guest!TooSmall, Guest!NoResult
    <2>2. result \in Results /\ result.code # "ok"
      BY <2>1 DEF Results, Codes
    <2>3. call.cap # MaxCap
      BY <1>1, <1>3, BuffersAssumption
    <2> HIDE DEF result
    <2> QED
      BY <1>0, <2>2, <2>3, CallReads
  <1>4. CASE entry.version # 0 /\ ~(entry.size > call.cap)
    <2>1. result = [code |-> "ok", version |-> entry.version, size |-> entry.size]
      BY <1>4 DEF Guest!CopyValue, Guest!write_bytes
    <2>2. result \in Results /\ result # Guest!TooSmall
      BY <1>1, <2>1 DEF Results, Codes, Guest!TooSmall, Guest!NoResult
    <2>3. result.version \in 1 .. changes + 1 /\ result.size = sizes[result.version]
      BY <1>1, <1>4, <2>1 DEF GuestInd, VersionsFit
    <2> HIDE DEF result
    <2> QED
      BY <1>0, <2>2, <2>3, CallReads
  <1> QED
    BY <1>2, <1>3, <1>4

\* Fewer rows take fewer bytes.
LEMMA RowsAreBounded ==
    ASSUME NEW n \in 0 .. MaxRows
    PROVE  1 + n * RowSize \in Nat /\ 1 + n * RowSize <= 1 + MaxRows * RowSize
  <1>1. MaxRows \in Nat /\ RowSize \in Nat /\ n \in Nat /\ n <= MaxRows
    BY BuffersAssumption
  <1>2. PICK d \in Nat : MaxRows = n + d
    <2>1. MaxRows - n \in Nat /\ MaxRows = n + (MaxRows - n)
      BY <1>1
    <2> QED
      BY <2>1
  <1>3. MaxRows * RowSize = n * RowSize + d * RowSize
    BY <1>1, <1>2
  <1>4. n * RowSize \in Nat /\ d * RowSize \in Nat
    BY <1>1, <1>2
  <1> QED
    BY <1>3, <1>4

\* What the host answers a read of a list.
LEMMA ListIsCopied ==
    ASSUME GuestInd, NEW api \in Guest!Lists, Guest!Read(api, Guest!CopyList(call.cap))
    PROVE  GuestInd'
  <1> DEFINE result == Guest!CopyList(call.cap)
  <1>0. Guest!Read(api, result) /\ api \in Guest!OneValue \cup Guest!Lists
    OBVIOUS
  <1>1. /\ rows \in 0 .. MaxRows /\ rows \in Nat
        /\ 1 + rows * RowSize \in Nat /\ 1 + rows * RowSize <= 1 + MaxRows * RowSize
        /\ 1 + MaxRows * RowSize \in Nat
    BY RowsAreBounded, BuffersAssumption DEF GuestInd, GuestType
  <1>2. api \notin Guest!OneValue
    BY DEF Guest!Lists, Guest!OneValue
  <1>3. CASE 1 + rows * RowSize > call.cap
    <2>1. result = [code |-> "ERR_BUF_TOO_SMALL", version |-> 0, size |-> 0]
      BY <1>3 DEF Guest!CopyList, Guest!encode_rows, Guest!write_bytes, Guest!TooSmall, Guest!NoResult
    <2>2. result \in Results
      BY <2>1 DEF Results, Codes
    <2>3. call.cap = MaxCap => 1 + MaxRows * RowSize > MaxCap
      BY <1>1, <1>3, BuffersAssumption
    <2> HIDE DEF result
    <2> QED
      BY <1>0, <1>2, <2>2, <2>3, CallReads
  <1>4. CASE ~(1 + rows * RowSize > call.cap)
    <2>1. result = [code |-> "ok", version |-> rows, size |-> 1 + rows * RowSize]
      BY <1>4 DEF Guest!CopyList, Guest!encode_rows, Guest!write_bytes
    <2>2. result \in Results /\ result # Guest!TooSmall
      BY <1>1, <2>1 DEF Results, Codes, Guest!TooSmall, Guest!NoResult
    <2> HIDE DEF result
    <2> QED
      BY <1>0, <1>2, <2>2, CallReads
  <1> QED
    BY <1>3, <1>4

\* An insertion has its effect with its answer, or none.
LEMMA CallInserts ==
    ASSUME GuestInd, Guest!insert_after
    PROVE  GuestInd'
  <1>1. /\ call.status = "running" /\ call.api = "crdt_rga_insert" /\ call \in Calls
        /\ call.cap \in Ladder /\ tries \in Nat
        /\ sequence = {} /\ sent = {}
        /\ UNCHANGED <<entry, sizes, rows, changes>>
        /\ "crdt_rga_insert" \notin Guest!OneValue \cup Guest!Lists
    BY DEF Guest!insert_after, Guest!crdt_rga_insert, GuestInd, GuestType, CallFits, Guest!OneValue,
           Guest!Lists
  <1>2. CASE Guest!Fails("ERR_INTERNAL") /\ UNCHANGED <<sequence, sent>> /\ tries' \in Nat
    <2>1. call' = [call EXCEPT !.status = "failed", !.result.code = "ERR_INTERNAL"]
      BY <1>2 DEF Guest!Fails
    <2>2. [call.result EXCEPT !.code = "ERR_INTERNAL"] \in Results
      BY <1>1 DEF Calls, Results, Codes
    <2>3. /\ call' \in Calls /\ call'.api = "crdt_rga_insert" /\ call'.status = "failed"
          /\ call'.cap \in Ladder
      BY <1>1, <2>1, <2>2 DEF Calls
    <2> QED
      BY <1>1, <1>2, <2>3
         DEF GuestInd, GuestType, VersionsFit, CallFits, Guest!AcceptedIsReadable
  <1>3. CASE Guest!Grow(Guest!TooSmall) /\ UNCHANGED <<sequence, sent>> /\ tries' \in Nat
    <2>1. /\ call' \in Calls /\ call'.api = "crdt_rga_insert" /\ call'.cap \in Ladder
          /\ call'.status \in {"running", "failed"}
      BY <1>1, <1>3, BufferGrows DEF GuestInd
    <2> QED
      BY <1>1, <1>3, <2>1
         DEF GuestInd, GuestType, VersionsFit, CallFits, Guest!AcceptedIsReadable
  <1>4. CASE /\ tries' = tries + 1
             /\ sequence' = sequence \cup {tries'} /\ sent' = sent \cup {tries'}
             /\ call' = [call EXCEPT !.status = "done",
                                     !.result = [code |-> "ok", version |-> tries', size |-> IdSize]]
    <2>1. /\ [code |-> "ok", version |-> tries', size |-> IdSize] \in Results
          /\ tries' \in Nat
      BY <1>1, <1>4, BuffersAssumption DEF Results, Codes
    <2>2. /\ call' \in Calls /\ call'.api = "crdt_rga_insert" /\ call'.status = "done"
          /\ call'.cap \in Ladder
          /\ call'.result.version = tries'
      BY <1>1, <1>4, <2>1 DEF Calls
    <2> QED
      BY <1>1, <1>4, <2>1, <2>2
         DEF GuestInd, GuestType, VersionsFit, CallFits, Guest!AcceptedIsReadable
  <1> QED
    <2>1. tries + 1 \in Nat
      BY <1>1
    <2> QED
      BY <1>1, <1>2, <1>3, <1>4, <2>1 DEF Guest!insert_after, Guest!crdt_rga_insert

\* A call begins.
LEMMA CallBegins ==
    ASSUME GuestInd, NEW api \in Guest!OneValue \cup Guest!Lists \cup {"crdt_rga_insert"},
           Guest!Begin(api)
    PROVE  GuestInd'
  <1>1. /\ call.status = "idle" /\ call \in Calls /\ call.api = "none"
        /\ sequence = {} /\ sent = {}
        /\ UNCHANGED <<entry, sizes, rows, sequence, sent, tries, changes>>
    BY DEF Guest!Begin, GuestInd, GuestType, CallFits
  <1>2. Guest!FirstBuffer(api) \in Ladder /\ Guest!FirstBuffer(api) \in Nat
    BY LadderFacts DEF Guest!FirstBuffer
  <1>3. /\ call' \in Calls /\ call'.api = api /\ call'.status = "running" /\ call'.cap \in Ladder
    BY <1>1, <1>2 DEF Guest!Begin, Calls
  <1> QED
    BY <1>1, <1>3 DEF GuestInd, GuestType, VersionsFit, CallFits, Guest!AcceptedIsReadable

\* Others write versions that nobody has read.
LEMMA OthersWrite ==
    ASSUME GuestInd, UNCHANGED <<sequence, sent, call, tries>>,
           changes' \in 0 .. MaxChanges, changes <= changes', rows' \in 0 .. MaxRows,
           entry' \in [version : Nat, size : 0 .. MaxValueLen],
           sizes' \in [0 .. MaxChanges + 1 -> Nat],
           \A v \in 1 .. changes + 1 : sizes'[v] = sizes[v],
           entry'.version <= changes' + 1,
           entry'.version > 0 => entry'.size = sizes'[entry'.version]
    PROVE  GuestInd'
  <1>1. GuestType'
    BY DEF GuestInd, GuestType
  <1>2. VersionsFit'
    BY DEF GuestInd, GuestType, VersionsFit
  <1>3. CallFits' /\ Guest!AcceptedIsReadable'
    BY DEF GuestInd, CallFits, Guest!AcceptedIsReadable
  <1> QED
    BY <1>1, <1>2, <1>3 DEF GuestInd

LEMMA OthersStep ==
    ASSUME GuestInd,
           \/ \E size \in 0 .. MaxValueLen + 1 : Guest!db_set(size)
           \/ Guest!db_delete
           \/ \E n \in 0 .. MaxRows : Guest!ChangeRows(n)
           \/ Guest!Queue
    PROVE  GuestInd'
  <1>0. /\ changes \in 0 .. MaxChanges /\ MaxChanges \in Nat /\ MaxValueLen \in Nat
        /\ entry \in [version : Nat, size : 0 .. MaxValueLen]
        /\ sizes \in [0 .. MaxChanges + 1 -> Nat] /\ rows \in 0 .. MaxRows
        /\ entry.version <= changes + 1 /\ entry.version \in Nat
        /\ entry.version > 0 => entry.size = sizes[entry.version]
    BY BuffersAssumption DEF GuestInd, GuestType, VersionsFit
  <1>1. ASSUME NEW size \in 0 .. MaxValueLen + 1, Guest!db_set(size) PROVE GuestInd'
    <2>1. /\ changes < MaxChanges /\ size \in 0 .. MaxValueLen
          /\ changes' = changes + 1 /\ changes + 2 \in 0 .. MaxChanges + 1
          /\ entry' = [version |-> changes + 2, size |-> size]
          /\ sizes' = [sizes EXCEPT ![changes + 2] = size]
          /\ UNCHANGED <<rows, sequence, sent, call, tries>>
      BY <1>0, <1>1 DEF Guest!db_set
    <2>2. sizes' \in [0 .. MaxChanges + 1 -> Nat] /\ sizes'[changes + 2] = size
      BY <1>0, <2>1
    <2>3. \A v \in 1 .. changes + 1 : sizes'[v] = sizes[v]
      BY <1>0, <2>1
    <2>4. entry' \in [version : Nat, size : 0 .. MaxValueLen]
      BY <1>0, <2>1
    <2> QED
      BY <1>0, <2>1, <2>2, <2>3, <2>4, OthersWrite
  <1>2. CASE Guest!db_delete
    <2>1. /\ changes < MaxChanges /\ changes' = changes + 1
          /\ entry' = [version |-> 0, size |-> 0]
          /\ UNCHANGED <<sizes, rows, sequence, sent, call, tries>>
      BY <1>2 DEF Guest!db_delete, Guest!Absent
    <2> QED
      BY <1>0, <2>1, OthersWrite
  <1>3. CASE \E n \in 0 .. MaxRows : Guest!ChangeRows(n)
    <2>1. /\ changes < MaxChanges /\ changes' = changes + 1 /\ rows' \in 0 .. MaxRows
          /\ UNCHANGED <<entry, sizes, sequence, sent, call, tries>>
      BY <1>3 DEF Guest!ChangeRows
    <2> QED
      BY <1>0, <2>1, OthersWrite
  <1>4. CASE Guest!Queue
    <2>1. UNCHANGED <<entry, sizes, rows, sequence, sent, call, tries>>
      BY <1>4 DEF Guest!Queue
    <2>2. changes' \in 0 .. MaxChanges /\ changes <= changes'
      BY <1>0, <1>4 DEF Guest!Queue
    <2>3. entry'.version <= changes' + 1
      BY <1>0, <2>1, <2>2
    <2> QED
      BY <1>0, <2>1, <2>2, <2>3, OthersWrite
  <1> QED
    BY <1>1, <1>2, <1>3, <1>4

LEMMA GuestStep ==
    ASSUME GuestInd, Guest!GuestNext
    PROVE  GuestInd'
  <1>1. CASE Guest!db_get_loop \/ Guest!lww_register_get \/ Guest!lww_map_get
    BY <1>1, ValueIsCopied
       DEF Guest!db_get_loop, Guest!lww_register_get, Guest!lww_map_get, Guest!db_get,
           Guest!crdt_lww_get, Guest!crdt_lww_map_get, Guest!OneValue
  <1>2. CASE Guest!lww_map_entries \/ Guest!orset_elements \/ Guest!rga_values \/ Guest!read_dynamic
    BY <1>2, ListIsCopied
       DEF Guest!lww_map_entries, Guest!orset_elements, Guest!rga_values, Guest!read_dynamic,
           Guest!crdt_lww_map_entries, Guest!crdt_orset_elements, Guest!crdt_rga_values,
           Guest!net_peers, Guest!Lists
  <1> QED
    BY <1>1, <1>2, CallBegins, CallInserts, OthersStep DEF Guest!GuestNext

LEMMA GuestStarts == Guest!GuestInit => GuestInd
  <1> SUFFICES ASSUME Guest!GuestInit PROVE GuestInd
    OBVIOUS
  <1>1. /\ entry \in [version : Nat, size : 0 .. MaxValueLen] /\ entry.version \in {0, 1}
        /\ entry.version \in Nat /\ entry.size \in 0 .. MaxValueLen /\ MaxValueLen \in Nat
        /\ changes = 0 /\ MaxChanges \in Nat /\ tries = 0 /\ rows \in 0 .. MaxRows
    BY BuffersAssumption DEF Guest!GuestInit, Guest!Absent
  <1>2. /\ sizes \in [0 .. MaxChanges + 1 -> Nat]
        /\ entry.version > 0 => sizes[entry.version] = entry.size
    BY <1>1 DEF Guest!GuestInit
  <1>3. call \in Calls /\ call.status = "idle" /\ call.api = "none"
    BY DEF Guest!GuestInit, Guest!NoResult, Calls, Results, Codes
  <1>4. sequence = {} /\ sent = {}
    BY DEF Guest!GuestInit
  <1> QED
    BY <1>1, <1>2, <1>3, <1>4
       DEF GuestInd, GuestType, VersionsFit, CallFits, Guest!AcceptedIsReadable

\* A call repeated with larger buffers inserts once, reads one whole version,
\* and can read whatever the host accepts, for any sizes, buffers that double
\* to the largest, queue limits and changes by others (crdt_rga_insert, db_get
\* and their SDK loops).
THEOREM RepeatedCallsAreFaithful == Spec => []CallsAreFaithful
  <1> DEFINE Inv == kind = "guest" => GuestInd
  <1>1. Init => Inv
    BY GuestStarts DEF Init
  <1>2. Inv /\ [Next]_allVars => Inv'
    <2> SUFFICES ASSUME Inv, [Next]_allVars, kind = "guest" PROVE GuestInd' /\ kind' = kind
      BY DEF Next, allVars
    <2>1. kind' = kind
      BY DEF Next, allVars
    <2>2. CASE Next
      BY <2>2, GuestStep DEF Next
    <2>3. CASE UNCHANGED allVars
      BY <2>3 DEF allVars, ofNode, ofGuest, GuestInd, GuestType, VersionsFit, CallFits,
                  Guest!AcceptedIsReadable
    <2> QED
      BY <2>1, <2>2, <2>3
  <1>3. Inv => CallsAreFaithful
    <2> SUFFICES ASSUME GuestInd PROVE Guest!CallsAreFaithful
      BY DEF CallsAreFaithful
    <2>1. Guest!InsertedOnce
      BY DEF GuestInd, CallFits, Guest!InsertedOnce
    <2>2. Guest!ReadIsWhole
      BY DEF GuestInd, GuestType, VersionsFit, Guest!ReadIsWhole
    <2> QED
      BY <2>1, <2>2 DEF GuestInd, Guest!CallsAreFaithful
  <1> QED
    BY <1>1, <1>2, <1>3, PTL DEF Spec

-----------------------------------------------------------------------------
(* The migration.                                                          *)

\* Sets of numbers.
LEMMA LeastOf ==
    ASSUME NEW T \in SUBSET Nat, T # {}
    PROVE  \E m \in T : \A n \in T : m <= n
  <1> DEFINE R == {ss \in Nat \X Nat : ss[1] < ss[2]}
  <1>1. R = OpToRel(<, Nat)
    BY Zenon DEF OpToRel
  <1>2. IsWellFoundedOn(R, Nat)
    <2> HIDE DEF R
    <2> QED BY <1>1, NatLessThanWellFounded, Zenon
  <1>3. \E x \in T : \A y \in T : ~(<<y, x>> \in R)
    <2> HIDE DEF R
    <2> QED BY <1>2, WFMin, Zenon
  <1>4. PICK x \in T : \A y \in T : ~(<<y, x>> \in R)
    BY <1>3
  <1>5. \A y \in T : x <= y
    <2> SUFFICES ASSUME NEW y \in T, ~(x <= y) PROVE FALSE
      OBVIOUS
    <2>1. x \in Nat /\ y \in Nat /\ y < x
      OBVIOUS
    <2>2. <<y, x>> \in R
      BY <2>1
    <2> QED
      BY <1>4, <2>2
  <1> QED
    BY <1>5

LEMMA GreatestOf ==
    ASSUME NEW T \in SUBSET Nat, T # {}, IsFiniteSet(T)
    PROVE  \E m \in T : \A n \in T : n <= m
  <1> DEFINE above(k) == {j \in T : k <= j}
             C == {Cardinality(above(k)) : k \in T}
  <1>1. \A k \in T : above(k) \in SUBSET T /\ IsFiniteSet(above(k)) /\ Cardinality(above(k)) \in Nat
    BY FS_Subset, FS_CardinalityType
  <1>2. C \in SUBSET Nat /\ C # {}
    BY <1>1
  <1>3. PICK c \in C : \A d \in C : c <= d
    BY <1>2, LeastOf
  <1>4. PICK k \in T : c = Cardinality(above(k))
    OBVIOUS
  <1>5. \A n \in T : n <= k
    <2> SUFFICES ASSUME NEW n \in T, ~(n <= k) PROVE FALSE
      OBVIOUS
    <2>0. n \in Nat /\ k \in Nat /\ k < n
      BY SMT
    <2>1. above(n) \subseteq above(k) /\ k \notin above(n) /\ k \in above(k)
      <3>1. \A j \in T : n <= j => k <= j
        BY <2>0
      <3>2. ~(n <= k) /\ k <= k
        BY <2>0
      <3> QED
        BY <3>1, <3>2, Zenon
    <2>2. Cardinality(above(n)) <= Cardinality(above(k)) /\ Cardinality(above(n)) # Cardinality(above(k))
      <3> HIDE DEF above
      <3> QED BY <1>1, <2>1, FS_Subset
    <2>3. Cardinality(above(n)) \in C /\ Cardinality(above(n)) \in Nat /\ Cardinality(above(k)) \in Nat
      BY <1>1
    <2>4. Cardinality(above(k)) <= Cardinality(above(n))
      BY <1>3, <1>4, <2>3
    <2> HIDE DEF above, C
    <2> QED
      BY <2>2, <2>3, <2>4
  <1> QED
    BY <1>5

\* The module's own notion of size is the standard one.
LEMMA SchemaSize ==
    ASSUME NEW S
    PROVE  Schema!Cardinality(S) = Cardinality(S)
  BY DEF Schema!Cardinality, Cardinality

LEMMA UnitsAreFinite ==
    ASSUME NEW K, IsFiniteSet(K), NEW b, \A k \in K : b[k] \in Nat
    PROVE  IsFiniteSet(UNION {{k} \X (1 .. b[k]) : k \in K})
  <1> DEFINE f == [k \in K |-> {k} \X (1 .. b[k])]
             units == {{k} \X (1 .. b[k]) : k \in K}
  <1>1. f \in Surjection(K, units)
    BY Zenon DEF Surjection
  <1>2. IsFiniteSet(units)
    BY <1>1, FS_Surjection, Zenon
  <1>3. \A T \in units : IsFiniteSet(T)
    <2> SUFFICES ASSUME NEW k \in K PROVE IsFiniteSet({k} \X (1 .. b[k]))
      OBVIOUS
    <2>1. IsFiniteSet({k})
      BY FS_Singleton
    <2>2. IsFiniteSet(1 .. b[k])
      BY FS_Interval
    <2> QED
      BY <2>1, <2>2, FS_Product
  <1> QED
    BY <1>2, <1>3, FS_UNION

LEMMA TotalGrows ==
    ASSUME NEW K, IsFiniteSet(K), NEW b, \A k \in K : b[k] \in Nat, NEW J \in SUBSET K
    PROVE  /\ Schema!Total(b, J) \in Nat /\ Schema!Total(b, K) \in Nat
           /\ Schema!Total(b, J) <= Schema!Total(b, K)
  <1> DEFINE U == UNION {{k} \X (1 .. b[k]) : k \in K}
             V == UNION {{k} \X (1 .. b[k]) : k \in J}
  <1>1. IsFiniteSet(U)
    BY UnitsAreFinite
  <1>2. V \in SUBSET U
    BY Zenon
  <1>3. Schema!Total(b, J) = Cardinality(V) /\ Schema!Total(b, K) = Cardinality(U)
    BY SchemaSize, Zenon DEF Schema!Total
  <1> HIDE DEF U, V
  <1>4. IsFiniteSet(V) /\ Cardinality(V) <= Cardinality(U) /\ Cardinality(V) \in Nat /\ Cardinality(U) \in Nat
    BY <1>1, <1>2, FS_Subset, FS_CardinalityType
  <1> QED
    BY <1>3, <1>4

LEMMA TotalOfOne ==
    ASSUME NEW b, NEW k, b[k] \in Nat
    PROVE  Schema!Total(b, {k}) = b[k]
  <1>1. UNION {{j} \X (1 .. b[j]) : j \in {k}} = {k} \X (1 .. b[k])
    BY Zenon
  <1>2. Schema!Total(b, {k}) = Cardinality({k} \X (1 .. b[k]))
    BY <1>1, SchemaSize, Zenon DEF Schema!Total
  <1>3. IsFiniteSet({k}) /\ Cardinality({k}) = 1
    BY FS_Singleton
  <1>4. IsFiniteSet(1 .. b[k]) /\ Cardinality(1 .. b[k]) = b[k]
    BY FS_Interval
  <1>5. Cardinality({k} \X (1 .. b[k])) = Cardinality({k}) * Cardinality(1 .. b[k])
    BY <1>3, <1>4, FS_Product
  <1>6. Cardinality({k} \X (1 .. b[k])) = 1 * b[k]
    BY <1>3, <1>4, <1>5
  <1> QED
    BY <1>2, <1>6

\* A page of the bounded scan has no holes, and is empty without an error only
\* behind the last record.
LEMMA ScanFacts ==
    ASSUME NEW b, IsFiniteSet(DOMAIN b), DOMAIN b \subseteq Nat, \A k \in DOMAIN b : b[k] \in Nat,
           NEW last \in Nat, NEW m \in Nat \ {0}, NEW n \in Nat
    PROVE  LET scan == Schema!scan_prefix_page_after_bounded(b, last, m, n)
           IN /\ \A k \in scan.rows : k \in DOMAIN b /\ k > last
              /\ \A k \in scan.rows : \A j \in DOMAIN b : last < j /\ j <= k => j \in scan.rows
              /\ scan.rows = {} /\ ~scan.oversized => \A k \in DOMAIN b : k <= last
  <1> DEFINE ahead == {k \in DOMAIN b : k > last}
             upTo == [k \in ahead |-> {j \in ahead : j <= k}]
             within == {k \in ahead : Cardinality(upTo[k]) <= m}
             rs == {k \in within : Schema!Total(b, upTo[k]) <= n}
             big == \E k \in within : b[k] > n /\ upTo[k] \subseteq rs \union {k}
             scan == Schema!scan_prefix_page_after_bounded(b, last, m, n)
  <1>1. scan = [rows |-> rs, oversized |-> big]
    BY SchemaSize, Zenon DEF Schema!scan_prefix_page_after_bounded
  <1>2. \A k \in ahead : /\ k \in Nat /\ k \in DOMAIN b /\ k > last
                         /\ upTo[k] = {j \in ahead : j <= k}
                         /\ upTo[k] \in SUBSET DOMAIN b
                         /\ IsFiniteSet(upTo[k]) /\ Cardinality(upTo[k]) \in Nat
    <2> SUFFICES ASSUME NEW k \in ahead
                 PROVE  /\ k \in Nat /\ k \in DOMAIN b /\ k > last
                        /\ upTo[k] = {j \in ahead : j <= k}
                        /\ upTo[k] \in SUBSET DOMAIN b
                        /\ IsFiniteSet(upTo[k]) /\ Cardinality(upTo[k]) \in Nat
      BY Zenon
    <2>1. k \in Nat /\ k \in DOMAIN b /\ k > last
      OBVIOUS
    <2>2. upTo[k] = {j \in ahead : j <= k}
      BY Zenon
    <2>3. upTo[k] \in SUBSET DOMAIN b
      BY <2>2, Zenon
    <2>4. IsFiniteSet(upTo[k])
      BY <2>3, FS_Subset
    <2>5. Cardinality(upTo[k]) \in Nat
      BY <2>4, FS_CardinalityType
    <2> QED
      BY <2>1, <2>2, <2>3, <2>4, <2>5
  <1>3. \A k \in rs : k \in DOMAIN b /\ k > last
    BY <1>2, Zenon
  <1>4. ASSUME NEW k \in rs, NEW j \in DOMAIN b, last < j, j <= k PROVE j \in rs
    <2>1. k \in ahead /\ j \in ahead /\ k \in Nat /\ j \in Nat
      BY <1>2, <1>4
    <2>2. upTo[j] \in SUBSET upTo[k]
      <3>1. \A i \in ahead : i <= j => i <= k
        BY <1>2, <1>4, <2>1
      <3> QED
        BY <1>2, <2>1, <3>1, Zenon
    <2>3. Cardinality(upTo[j]) <= Cardinality(upTo[k])
      BY <1>2, <2>1, <2>2, FS_Subset, Zenon
    <2>4. \A i \in upTo[k] : b[i] \in Nat
      BY <1>2, <2>1, Zenon
    <2>5. /\ Schema!Total(b, upTo[j]) \in Nat /\ Schema!Total(b, upTo[k]) \in Nat
          /\ Schema!Total(b, upTo[j]) <= Schema!Total(b, upTo[k])
      <3>1. IsFiniteSet(upTo[k])
        BY <1>2, <2>1, Zenon
      <3> HIDE DEF upTo
      <3> QED
        BY <2>2, <2>4, <3>1, TotalGrows, Zenon
    <2>6. Cardinality(upTo[k]) <= m /\ Schema!Total(b, upTo[k]) <= n
      BY <1>4, Zenon
    <2>7. Cardinality(upTo[j]) <= m /\ Schema!Total(b, upTo[j]) <= n
      <3>1. Cardinality(upTo[j]) \in Nat /\ Cardinality(upTo[k]) \in Nat
        BY <1>2, <2>1, Zenon
      <3> HIDE DEF upTo
      <3> QED
        BY <2>3, <2>5, <2>6, <3>1
    <2> QED
      BY <2>1, <2>7, Zenon
  <1>5. ASSUME rs = {}, ~big PROVE ahead = {}
    <2> SUFFICES ASSUME ahead # {} PROVE FALSE
      OBVIOUS
    <2>1. ahead \in SUBSET Nat
      BY <1>2, Zenon
    <2>2. PICK k \in ahead : \A j \in ahead : k <= j
      <3> HIDE DEF ahead
      <3> QED
        BY <2>1, LeastOf
    <2>3. upTo[k] = {k}
      <3>1. \A j \in ahead : j <= k <=> j = k
        BY <1>2, <2>2
      <3> QED
        BY <1>2, <3>1, Zenon
    <2>4. k \in within
      <3>1. Cardinality(upTo[k]) = 1
        BY <2>3, FS_Singleton, Zenon
      <3>2. Cardinality(upTo[k]) <= m
        <4> HIDE DEF upTo
        <4> QED
          BY <3>1
      <3> QED
        BY <3>2, Zenon
    <2>5. Schema!Total(b, upTo[k]) = b[k] /\ b[k] \in Nat
      BY <1>2, <2>3, TotalOfOne, Zenon
    <2>6. b[k] > n
      <3>1. ~(Schema!Total(b, upTo[k]) <= n)
        BY <1>5, <2>4, Zenon
      <3> HIDE DEF upTo
      <3> QED
        BY <2>5, <3>1
    <2> QED
      BY <1>5, <2>3, <2>4, <2>6, Zenon
  <1>6. ahead = {} => \A k \in DOMAIN b : k <= last
    OBVIOUS
  <1>7. scan.rows = rs /\ (scan.oversized <=> big)
    BY <1>1
  <1> HIDE DEF rs, big, ahead
  <1> QED
    BY <1>3, <1>4, <1>5, <1>6, <1>7

LEMMA MaxFacts ==
    ASSUME NEW S \in SUBSET Nat, S # {}, IsFiniteSet(S)
    PROVE  Schema!Max(S) \in S /\ \A k \in S : k <= Schema!Max(S)
  <1>1. \E x \in S : \A y \in S : x >= y
    BY GreatestOf
  <1> QED
    BY <1>1 DEF Schema!Max

LEMMA MinFacts ==
    ASSUME NEW S \in SUBSET Nat, S # {}
    PROVE  Schema!Min(S) \in S
  <1>1. \E x \in S : \A y \in S : x <= y
    BY LeastOf
  <1> QED
    BY <1>1 DEF Schema!Min

\* The registry's steps of a table.
LEMMA RegistryFacts ==
    ASSUME NEW t \in Schema!AllTables
    PROVE  /\ Schema!current_version(t) \in Nat
           /\ DOMAIN Registry[t] = 1 .. Schema!current_version(t)
           /\ \A i \in DOMAIN Registry[t] :
                 /\ Registry[t][i] \in [from : Nat, to : Nat, rewrite : BOOLEAN]
                 /\ Registry[t][i].from = i - 1 /\ Registry[t][i].to = i
                 /\ Registry[t][i].rewrite \in BOOLEAN
  <1> DEFINE R == Registry[t]
             E == [from : Nat, to : Nat, rewrite : BOOLEAN]
  <1>1. R \in Seq(E)
    BY SchemaAssumption
  <1>2. \A i \in DOMAIN R : R[i].from = i - 1 /\ R[i].to = i
    BY SchemaAssumption DEF Schema!validate_migration_path
  <1>3. Schema!current_version(t) = Len(R)
    BY DEF Schema!current_version
  <1> HIDE DEF R, E
  <1>4. Len(R) \in Nat /\ DOMAIN R = 1 .. Len(R)
    BY <1>1
  <1>5. \A i \in DOMAIN R : R[i] \in E
    BY <1>1, <1>4
  <1>6. \A i \in DOMAIN R : R[i].rewrite \in BOOLEAN
    BY <1>5 DEF E
  <1> QED
    BY <1>2, <1>3, <1>4, <1>5, <1>6 DEF R, E

LEMMA FormFacts ==
    ASSUME NEW t \in Schema!AllTables, NEW v \in Nat
    PROVE  /\ Schema!FormAt(t, v) \in Nat
           /\ v < Schema!current_version(t) =>
                 Schema!FormAt(t, v + 1) = IF Registry[t][v + 1].rewrite THEN Schema!FormAt(t, v) + 1
                                           ELSE Schema!FormAt(t, v)
  <1> DEFINE F(w) == {i \in DOMAIN Registry[t] : Registry[t][i].to <= w /\ Registry[t][i].rewrite}
  <1>1. \A w : Schema!FormAt(t, w) = Cardinality(F(w))
    BY SchemaSize, Zenon DEF Schema!FormAt
  <1>2. IsFiniteSet(DOMAIN Registry[t])
    BY RegistryFacts, FS_Interval
  <1>3. IsFiniteSet(F(v)) /\ Cardinality(F(v)) \in Nat
    <2>1. F(v) \in SUBSET DOMAIN Registry[t]
      OBVIOUS
    <2> HIDE DEF F
    <2> QED
      BY <1>2, <2>1, FS_Subset, FS_CardinalityType
  <1>4. ASSUME v < Schema!current_version(t)
        PROVE  Schema!FormAt(t, v + 1) = IF Registry[t][v + 1].rewrite THEN Schema!FormAt(t, v) + 1
                                         ELSE Schema!FormAt(t, v)
    <2>1. v + 1 \in DOMAIN Registry[t] /\ Registry[t][v + 1].to = v + 1
      BY <1>4, RegistryFacts
    <2>2. v + 1 \notin F(v)
      BY <2>1
    <2>3. CASE Registry[t][v + 1].rewrite
      <3>1. F(v + 1) = F(v) \cup {v + 1}
        BY <2>1, <2>3, RegistryFacts
      <3>2. Cardinality(F(v + 1)) = Cardinality(F(v)) + 1
        <4> HIDE DEF F
        <4> QED
          BY <1>3, <2>2, <3>1, FS_AddElement
      <3> QED
        BY <1>1, <2>3, <3>2, Zenon
    <2>4. CASE ~Registry[t][v + 1].rewrite
      <3>1. F(v + 1) = F(v)
        BY <2>1, <2>4, RegistryFacts
      <3> QED
        BY <1>1, <2>4, <3>1, Zenon
    <2> QED
      BY <2>3, <2>4
  <1>5. Schema!FormAt(t, v) \in Nat
    BY <1>1, <1>3, Zenon
  <1> HIDE DEF F
  <1> QED
    BY <1>4, <1>5

\* The step that is due is the one from the header's version to the next.
LEMMA StepFacts ==
    ASSUME NEW t \in Schema!AllTables, NEW v \in Nat, v < Schema!current_version(t)
    PROVE  /\ Schema!next_migration_step(t, v) = Registry[t][v + 1]
           /\ Schema!next_migration_step(t, v).from = v
           /\ Schema!next_migration_step(t, v).to = v + 1
           /\ Schema!HasStep(t, v)
  <1> DEFINE found == {i \in DOMAIN Registry[t] :
                          Registry[t][i].from = v /\ Registry[t][i].to = v + 1
                          /\ v + 1 <= Schema!current_version(t)}
  <1>1. found = {v + 1}
    BY RegistryFacts
  <1>2. Schema!Min({v + 1}) = v + 1
    <2>1. {v + 1} \in SUBSET Nat /\ {v + 1} # {}
      OBVIOUS
    <2>2. Schema!Min({v + 1}) \in {v + 1}
      BY <2>1, MinFacts
    <2> QED
      BY <2>2
  <1>3. Schema!next_migration_step(t, v) = Registry[t][Schema!Min({v + 1})]
    <2> HIDE DEF found
    <2>1. Schema!next_migration_step(t, v) =
             IF found = {} THEN [from |-> 0, to |-> 0, rewrite |-> FALSE] ELSE Registry[t][Schema!Min(found)]
      BY Zenon DEF Schema!next_migration_step, found
    <2> QED
      BY <1>1, <2>1, Zenon
  <1>4. Schema!next_migration_step(t, v) = Registry[t][v + 1]
    BY <1>2, <1>3
  <1> HIDE DEF found
  <1>5. v + 1 \in DOMAIN Registry[t] /\ v + 1 > 0
    BY RegistryFacts
  <1> QED
    BY <1>4, <1>5, RegistryFacts DEF Schema!HasStep

Checkpoints == [from : Nat, to : Nat, last : Nat]
RowRecords == [parses : BOOLEAN, form : Nat]
RowMaps == UNION {[K -> RowRecords] : K \in SUBSET Rows}
Disks == [header : [Schema!AllTables -> Nat],
          checkpoint : [Schema!AllTables -> Checkpoints],
          rows : [Schema!AllTables -> RowMaps]]

\* A table with header h, checkpoint c and records r is between two batches:
\* records up to the cursor are done with the step that is due.
TableFits(t, h, c, r) ==
    /\ h <= Schema!current_version(t)
    /\ c # Schema!NoCheckpoint =>
          /\ h < Schema!current_version(t)
          /\ c.from = h
          /\ c.to = h + 1
          /\ c.last \in DOMAIN r
    /\ \A k \in DOMAIN r :
          /\ r[k].form = Schema!FormAt(t, IF k <= c.last THEN c.to ELSE h)
          /\ h > 0 \/ k <= c.last => r[k].parses

DiskFits(d) ==
    /\ d \in Disks
    /\ \A t \in Schema!AllTables : TableFits(t, d.header[t], d.checkpoint[t], d.rows[t])

LEMMA RowMapFacts ==
    ASSUME NEW r \in RowMaps
    PROVE  /\ r = [k \in DOMAIN r |-> r[k]]
           /\ IsFiniteSet(DOMAIN r)
           /\ DOMAIN r \in SUBSET Nat
           /\ DOMAIN r \in SUBSET Rows
           /\ \A k \in DOMAIN r : k \in Nat /\ k > 0 /\ r[k] \in RowRecords
                                  /\ r[k].form \in Nat /\ r[k].parses \in BOOLEAN
  <1>1. PICK K \in SUBSET Rows : r \in [K -> RowRecords]
    BY DEF RowMaps
  <1>2. DOMAIN r = K /\ r = [k \in DOMAIN r |-> r[k]] /\ \A k \in K : r[k] \in RowRecords
    BY <1>1
  <1>3. IsFiniteSet(K) /\ K \in SUBSET Nat /\ \A k \in K : k \in Nat /\ k > 0
    <2>1. IsFiniteSet(Rows) /\ Rows \subseteq Nat \ {0}
      BY SchemaAssumption, Zenon
    <2>2. IsFiniteSet(K)
      BY <2>1, FS_Subset, Zenon
    <2> QED
      BY <2>1, <2>2
  <1>4. \A w \in RowRecords : w.form \in Nat /\ w.parses \in BOOLEAN
    BY DEF RowRecords
  <1> HIDE DEF RowRecords
  <1> QED
    BY <1>2, <1>3, <1>4

LEMMA RowMapIntro ==
    ASSUME NEW K \in SUBSET Rows, NEW r \in [K -> RowRecords]
    PROVE  r \in RowMaps /\ DOMAIN r = K
  BY DEF RowMaps

LEMMA DiskFacts ==
    ASSUME NEW d \in Disks
    PROVE  /\ d = [header |-> d.header, checkpoint |-> d.checkpoint, rows |-> d.rows]
           /\ d.header \in [Schema!AllTables -> Nat]
           /\ d.checkpoint \in [Schema!AllTables -> Checkpoints]
           /\ d.rows \in [Schema!AllTables -> RowMaps]
           /\ \A t \in Schema!AllTables :
                 /\ d.header[t] \in Nat
                 /\ d.checkpoint[t] \in Checkpoints
                 /\ d.checkpoint[t].last \in Nat
                 /\ d.rows[t] \in RowMaps
  <1>1. \A c \in Checkpoints : c.last \in Nat
    BY DEF Checkpoints
  <1> HIDE DEF Checkpoints, RowMaps
  <1>2. /\ d = [header |-> d.header, checkpoint |-> d.checkpoint, rows |-> d.rows]
        /\ d.header \in [Schema!AllTables -> Nat]
        /\ d.checkpoint \in [Schema!AllTables -> Checkpoints]
        /\ d.rows \in [Schema!AllTables -> RowMaps]
    BY DEF Disks
  <1> QED
    BY <1>1, <1>2

LEMMA TableUpdate ==
    ASSUME NEW d, DiskFits(d), NEW t \in Schema!AllTables,
           NEW h \in Nat, NEW c \in Checkpoints, NEW r \in RowMaps, TableFits(t, h, c, r),
           NEW e, e = [header |-> [d.header EXCEPT ![t] = h],
                       checkpoint |-> [d.checkpoint EXCEPT ![t] = c],
                       rows |-> [d.rows EXCEPT ![t] = r]]
    PROVE  DiskFits(e)
  <1> HIDE DEF Checkpoints, RowMaps
  <1>1. d \in Disks
    BY DEF DiskFits
  <1>2. /\ d.header \in [Schema!AllTables -> Nat]
        /\ d.checkpoint \in [Schema!AllTables -> Checkpoints]
        /\ d.rows \in [Schema!AllTables -> RowMaps]
    BY <1>1, DiskFacts
  <1>3. e.header = [d.header EXCEPT ![t] = h] /\ e.checkpoint = [d.checkpoint EXCEPT ![t] = c]
        /\ e.rows = [d.rows EXCEPT ![t] = r]
    OBVIOUS
  <1>4. /\ e.header \in [Schema!AllTables -> Nat]
        /\ e.checkpoint \in [Schema!AllTables -> Checkpoints]
        /\ e.rows \in [Schema!AllTables -> RowMaps]
    BY <1>2, <1>3
  <1>5. e \in Disks
    <2>1. e = [header |-> e.header, checkpoint |-> e.checkpoint, rows |-> e.rows]
      OBVIOUS
    <2> QED
      BY <1>4, <2>1 DEF Disks
  <1>6. ASSUME NEW u \in Schema!AllTables
        PROVE  TableFits(u, e.header[u], e.checkpoint[u], e.rows[u])
    <2>1. CASE u = t
      <3>1. e.header[u] = h /\ e.checkpoint[u] = c /\ e.rows[u] = r
        BY <1>2, <1>3, <2>1
      <3> QED
        BY <2>1, <3>1
    <2>2. CASE u # t
      <3>1. e.header[u] = d.header[u] /\ e.checkpoint[u] = d.checkpoint[u] /\ e.rows[u] = d.rows[u]
        BY <1>2, <1>3, <2>2
      <3>2. TableFits(u, d.header[u], d.checkpoint[u], d.rows[u])
        BY DEF DiskFits
      <3> QED
        BY <3>1, <3>2
    <2> QED
      BY <2>1, <2>2
  <1> QED
    BY <1>5, <1>6 DEF DiskFits

\* A table whose records are all behind the cursor is done with the step.
LEMMA CompleteFits ==
    ASSUME NEW t \in Schema!AllTables, NEW h \in Nat, NEW c \in Checkpoints, NEW r \in RowMaps,
           TableFits(t, h, c, r), h < Schema!current_version(t), \A k \in DOMAIN r : k <= c.last
    PROVE  TableFits(t, h + 1, Schema!NoCheckpoint, r)
  <1>1. Schema!current_version(t) \in Nat
    BY RegistryFacts
  <1>2. Schema!NoCheckpoint.last = 0
    BY DEF Schema!NoCheckpoint
  <1>3. \A k \in DOMAIN r : k \in Nat /\ k > 0
    BY RowMapFacts
  <1>4. ASSUME NEW k \in DOMAIN r
        PROVE  /\ r[k].form = Schema!FormAt(t, h + 1)
               /\ r[k].parses
               /\ ~(k <= Schema!NoCheckpoint.last)
    <2>1. c # Schema!NoCheckpoint
      BY <1>2, <1>3
    <2>2. c.to = h + 1 /\ k <= c.last
      BY <2>1 DEF TableFits
    <2>3. r[k].form = Schema!FormAt(t, c.to) /\ r[k].parses
      BY <2>2 DEF TableFits
    <2> QED
      BY <1>2, <1>3, <2>2, <2>3
  <1> QED
    BY <1>1, <1>4 DEF TableFits

\* What a batch makes of the records of a table.
Migrated(r, page, rewrite) ==
    [k \in DOMAIN r |-> IF rewrite /\ k \in page THEN Schema!Rewritten(r[k]) ELSE r[k]]

\* A batch that takes the next records without a hole keeps the table in order.
LEMMA BatchFits ==
    ASSUME NEW t \in Schema!AllTables, NEW h \in Nat, NEW c \in Checkpoints, NEW r \in RowMaps,
           TableFits(t, h, c, r), h < Schema!current_version(t), c.last \in Nat,
           NEW page \in SUBSET DOMAIN r, page # {},
           \A k \in page : k > c.last,
           \A k \in page : \A j \in DOMAIN r : c.last < j /\ j <= k => j \in page,
           \A k \in page : r[k].parses,
           NEW m, m = Schema!Max(page),
           NEW g, g = [from |-> h, to |-> h + 1, last |-> m]
    PROVE  /\ m \in page
           /\ g \in Checkpoints
           /\ Migrated(r, page, Registry[t][h + 1].rewrite) \in RowMaps
           /\ TableFits(t, h, g, Migrated(r, page, Registry[t][h + 1].rewrite))
  <1> DEFINE q == Migrated(r, page, Registry[t][h + 1].rewrite)
             rw == Registry[t][h + 1].rewrite
  <1>1. Schema!current_version(t) \in Nat /\ rw \in BOOLEAN
    BY RegistryFacts
  <1>2. /\ IsFiniteSet(DOMAIN r) /\ DOMAIN r \in SUBSET Nat /\ DOMAIN r \in SUBSET Rows
        /\ \A k \in DOMAIN r : k \in Nat /\ k > 0 /\ r[k] \in RowRecords
                               /\ r[k].form \in Nat /\ r[k].parses \in BOOLEAN
    BY RowMapFacts
  <1>3. m \in page /\ \A k \in page : k <= m
    <2>1. page \in SUBSET Nat /\ IsFiniteSet(page)
      BY <1>2, FS_Subset
    <2> QED
      BY <2>1, MaxFacts
  <1>4. m \in Nat /\ m > 0 /\ m > c.last /\ m \in DOMAIN r
    BY <1>2, <1>3
  <1>5. g \in Checkpoints /\ g.from = h /\ g.to = h + 1 /\ g.last = m
    BY <1>4 DEF Checkpoints
  <1>6. \A k \in DOMAIN r : q[k] = IF rw /\ k \in page THEN Schema!Rewritten(r[k]) ELSE r[k]
    BY DEF Migrated
  <1>7. \A k \in DOMAIN r : /\ q[k] \in RowRecords
                            /\ q[k].parses = r[k].parses
                            /\ q[k].form = IF rw /\ k \in page THEN r[k].form + 1 ELSE r[k].form
    <2> SUFFICES ASSUME NEW k \in DOMAIN r
                 PROVE  /\ q[k] \in RowRecords
                        /\ q[k].parses = r[k].parses
                        /\ q[k].form = IF rw /\ k \in page THEN r[k].form + 1 ELSE r[k].form
      OBVIOUS
    <2>1. r[k] \in [parses : BOOLEAN, form : Nat]
      BY <1>2 DEF RowRecords
    <2>2. CASE rw /\ k \in page
      <3>1. q[k] = [r[k] EXCEPT !.form = r[k].form + 1]
        BY <1>6, <2>2 DEF Schema!Rewritten
      <3> HIDE DEF q, rw
      <3> QED
        BY <2>1, <2>2, <3>1 DEF RowRecords
    <2>3. CASE ~(rw /\ k \in page)
      <3>1. q[k] = r[k]
        BY <1>6, <2>3
      <3> HIDE DEF q, rw
      <3> QED
        BY <1>2, <2>3, <3>1
    <2> QED
      BY <2>2, <2>3
  <1>8. q \in RowMaps /\ DOMAIN q = DOMAIN r
    <2>1. q \in [DOMAIN r -> RowRecords]
      <3>1. q = [k \in DOMAIN r |-> q[k]]
        BY Zenon DEF Migrated
      <3> HIDE DEF q
      <3> QED
        BY <1>7, <3>1, Zenon
    <2> HIDE DEF q
    <2> QED
      BY <1>2, <2>1, RowMapIntro
  <1>9. /\ Schema!FormAt(t, h) \in Nat
        /\ Schema!FormAt(t, h + 1) = IF rw THEN Schema!FormAt(t, h) + 1 ELSE Schema!FormAt(t, h)
    BY FormFacts
  <1>10. c # Schema!NoCheckpoint => c.to = h + 1
    BY DEF TableFits
  <1>11. c = Schema!NoCheckpoint => c.last = 0
    BY DEF Schema!NoCheckpoint
  <1>12. \A k \in DOMAIN r : r[k].form = Schema!FormAt(t, IF k <= c.last THEN c.to ELSE h)
                             /\ (h > 0 \/ k <= c.last => r[k].parses)
    BY DEF TableFits
  <1> HIDE DEF q, rw
  <1>13. ASSUME NEW k \in DOMAIN q
         PROVE  /\ q[k].form = Schema!FormAt(t, IF k <= g.last THEN g.to ELSE h)
                /\ h > 0 \/ k <= g.last => q[k].parses
    <2>0. k \in DOMAIN r /\ k \in Nat /\ k > 0
      BY <1>2, <1>8
    <2>1. CASE k <= c.last
      <3>1. c.to = h + 1
        BY <1>10, <1>11, <2>0, <2>1
      <3>2. k \notin page /\ k <= m
        BY <1>4, <2>0, <2>1
      <3>3. r[k].form = Schema!FormAt(t, h + 1) /\ r[k].parses
        BY <1>12, <2>0, <2>1, <3>1
      <3> QED
        BY <1>5, <1>7, <2>0, <3>2, <3>3
    <2>2. CASE ~(k <= c.last) /\ k <= m
      <3>1. k \in page
        BY <1>3, <1>4, <2>0, <2>2
      <3>2. r[k].form = Schema!FormAt(t, h) /\ r[k].parses
        BY <1>12, <2>0, <2>2, <3>1
      <3>3. q[k].form = Schema!FormAt(t, h + 1) /\ q[k].parses
        BY <1>7, <1>9, <2>0, <3>1, <3>2
      <3> QED
        BY <1>5, <2>2, <3>3
    <2>3. CASE ~(k <= m)
      <3>1. k \notin page /\ ~(k <= c.last)
        BY <1>3, <1>4, <2>0, <2>3
      <3>2. r[k].form = Schema!FormAt(t, h) /\ (h > 0 => r[k].parses)
        BY <1>12, <2>0, <3>1
      <3> QED
        BY <1>5, <1>7, <2>0, <2>3, <3>1, <3>2
    <2> QED
      BY <2>1, <2>2, <2>3
  <1>14. TableFits(t, h, g, q)
    BY <1>4, <1>5, <1>8, <1>13 DEF TableFits
  <1> QED
    BY <1>3, <1>5, <1>8, <1>14 DEF q, rw

\* The table with the outcome of a batch.
WithTable(d, t, h, c, r) ==
    [header |-> [d.header EXCEPT ![t] = h],
     checkpoint |-> [d.checkpoint EXCEPT ![t] = c],
     rows |-> [d.rows EXCEPT ![t] = r]]

\* The pages that a batch may take.
NextPage(d, t, page) ==
    /\ page \in SUBSET DOMAIN d.rows[t] /\ page # {}
    /\ \A k \in page : k > d.checkpoint[t].last
    /\ \A k \in page : \A j \in DOMAIN d.rows[t] : d.checkpoint[t].last < j /\ j <= k => j \in page
    /\ \A k \in page : d.rows[t][k].parses

Advanced(d, t, page, e) ==
    /\ NextPage(d, t, page)
    /\ e = WithTable(d, t, d.header[t],
                     [from |-> d.header[t], to |-> d.header[t] + 1, last |-> Schema!Max(page)],
                     Migrated(d.rows[t], page, Registry[t][d.header[t] + 1].rewrite))

Completed(d, t, e) ==
    /\ \A k \in DOMAIN d.rows[t] : k <= d.checkpoint[t].last
    /\ e = WithTable(d, t, d.header[t] + 1, Schema!NoCheckpoint, d.rows[t])

Refusals == {"ScanBatchByteLimitExceeded", "InvalidRecord", "BatchMemoryLimitExceeded"}

LEMMA CollectOutcome ==
    ASSUME NEW d \in Disks, NEW t \in Schema!AllTables, d.header[t] < Schema!current_version(t),
           NEW page, NEW n
    PROVE  LET res == Schema!collect_record_migration(d, t, page, Registry[t][d.header[t] + 1], n)
           IN \/ res.disk = d /\ res.progress \in Refusals
              \/ /\ res.progress = "BatchValidated"
                 /\ \A k \in page : d.rows[t][k].parses
                 /\ res.disk = WithTable(d, t, d.header[t],
                     [from |-> d.header[t], to |-> d.header[t] + 1, last |-> Schema!Max(page)],
                     Migrated(d.rows[t], page, Registry[t][d.header[t] + 1].rewrite))
  <1> DEFINE step == Registry[t][d.header[t] + 1]
             res == Schema!collect_record_migration(d, t, page, step, n)
             c == Schema!checkpoint_after(step, page)
             e == [d EXCEPT
                     !.rows[t] = [k \in DOMAIN @ |->
                                     IF step.rewrite /\ k \in page THEN Schema!Rewritten(@[k]) ELSE @[k]],
                     !.checkpoint[t] = c]
  <1>0. d.header[t] \in Nat /\ Schema!next_migration_step(t, d.header[t]) = step
        /\ step.from = d.header[t] /\ step.to = d.header[t] + 1
    <2>1. d.header[t] \in Nat
      BY DiskFacts
    <2> QED
      BY <2>1, StepFacts
  <1>1. CASE Schema!RejectedRecords(d, t, page) # {}
    <2>1. res = [disk |-> d, progress |-> "InvalidRecord"]
      BY <1>1, Zenon DEF Schema!collect_record_migration, Schema!Failed
    <2> HIDE DEF res
    <2>2. res.disk = d /\ res.progress = "InvalidRecord"
      BY <2>1
    <2> QED
      BY <2>2 DEF Refusals, res
  <1>2. CASE Schema!RejectedRecords(d, t, page) = {} /\ step.rewrite /\ Schema!BatchBytes(d, t, page) > n
    <2>1. res = [disk |-> d, progress |-> "BatchMemoryLimitExceeded"]
      BY <1>2, Zenon DEF Schema!collect_record_migration, Schema!Failed
    <2> HIDE DEF res
    <2>2. res.disk = d /\ res.progress = "BatchMemoryLimitExceeded"
      BY <2>1
    <2> QED
      BY <2>2 DEF Refusals, res
  <1>3. CASE Schema!RejectedRecords(d, t, page) = {} /\ ~(step.rewrite /\ Schema!BatchBytes(d, t, page) > n)
    <2>1. res = [disk |-> e, progress |-> "BatchValidated"]
      BY <1>3, Zenon DEF Schema!collect_record_migration
    <2>2. \A k \in page : d.rows[t][k].parses
      BY <1>3, Zenon DEF Schema!RejectedRecords
    <2>3. c = [from |-> d.header[t], to |-> d.header[t] + 1, last |-> Schema!Max(page)]
      BY <1>0 DEF Schema!checkpoint_after
    <2>4. e = WithTable(d, t, d.header[t], c, Migrated(d.rows[t], page, step.rewrite))
      <3> DEFINE M == Migrated(d.rows[t], page, step.rewrite)
      <3>1. /\ d = [header |-> d.header, checkpoint |-> d.checkpoint, rows |-> d.rows]
            /\ d.header \in [Schema!AllTables -> Nat]
            /\ d.checkpoint \in [Schema!AllTables -> Checkpoints]
            /\ d.rows \in [Schema!AllTables -> RowMaps]
        BY DiskFacts
      <3>2. e = [d EXCEPT !.rows[t] = M, !.checkpoint[t] = c]
        BY SMT DEF Migrated
      <3> HIDE DEF M, c, e
      <3>3. e = [header |-> d.header, checkpoint |-> [d.checkpoint EXCEPT ![t] = c], rows |-> [d.rows EXCEPT ![t] = M]]
        BY <3>1, <3>2
      <3>4. [d.header EXCEPT ![t] = d.header[t]] = d.header
        BY <3>1
      <3> QED
        BY <3>3, <3>4 DEF WithTable, M
    <2> HIDE DEF res, e, c, step
    <2>5. res.disk = e /\ res.progress = "BatchValidated"
      BY <2>1
    <2> QED
      BY <2>2, <2>3, <2>4, <2>5 DEF res, step
  <1> QED
    BY <1>1, <1>2, <1>3

LEMMA CompleteOutcome ==
    ASSUME NEW d \in Disks, NEW t \in Schema!AllTables, d.header[t] < Schema!current_version(t)
    PROVE  Schema!CompleteTable(d, t, Registry[t][d.header[t] + 1]) =
              [disk |-> WithTable(d, t, d.header[t] + 1, Schema!NoCheckpoint, d.rows[t]),
               progress |-> "TableCompleted"]
  <1> DEFINE step == Registry[t][d.header[t] + 1]
  <1>0. step.to = d.header[t] + 1
    <2>1. d.header[t] \in Nat
      BY DiskFacts
    <2> QED
      BY <2>1, StepFacts
  <1>1. /\ d = [header |-> d.header, checkpoint |-> d.checkpoint, rows |-> d.rows]
        /\ d.header \in [Schema!AllTables -> Nat]
        /\ d.checkpoint \in [Schema!AllTables -> Checkpoints]
        /\ d.rows \in [Schema!AllTables -> RowMaps]
    BY DiskFacts
  <1>2. [d.rows EXCEPT ![t] = d.rows[t]] = d.rows
    BY <1>1
  <1>3. [d EXCEPT !.header[t] = step.to, !.checkpoint[t] = Schema!NoCheckpoint] =
           [header |-> [d.header EXCEPT ![t] = step.to],
            checkpoint |-> [d.checkpoint EXCEPT ![t] = Schema!NoCheckpoint], rows |-> d.rows]
    <2> DEFINE h == step.to
               c == Schema!NoCheckpoint
               e == [d EXCEPT !.header[t] = h, !.checkpoint[t] = c]
    <2>0. e = [d EXCEPT !.header[t] = h, !.checkpoint[t] = c]
      OBVIOUS
    <2> HIDE DEF step, h, c, e
    <2>1. e = [header |-> [d.header EXCEPT ![t] = h], checkpoint |-> [d.checkpoint EXCEPT ![t] = c], rows |-> d.rows]
      BY <1>1, <2>0
    <2> QED
      BY <2>1, Zenon DEF h, c, e
  <1> QED
    BY <1>0, <1>2, <1>3 DEF Schema!CompleteTable, WithTable

LEMMA TableOutcome ==
    ASSUME NEW d, DiskFits(d), NEW t \in Schema!AllTables, d.header[t] # Schema!current_version(t),
           NEW o \in Options
    PROVE  LET res == Schema!migrate_table_batch(d, t, o)
           IN \/ res.disk = d /\ res.progress \in Refusals
              \/ res.progress = "TableCompleted" /\ Completed(d, t, res.disk)
              \/ res.progress = "BatchValidated" /\ \E page : Advanced(d, t, page, res.disk)
  <1> DEFINE h == d.header[t]
             c == d.checkpoint[t]
             r == d.rows[t]
             b == [k \in DOMAIN d.rows[t] |-> Schema!RowBytes(d.rows[t][k])]
             step == Schema!next_migration_step(t, h)
             scan == Schema!scan_prefix_page_after_bounded(b, c.last, o.max_records, o.max_bytes)
             res == Schema!migrate_table_batch(d, t, o)
  <1>1. d \in Disks /\ TableFits(t, h, c, r)
    BY DEF DiskFits
  <1>2. h \in Nat /\ c \in Checkpoints /\ c.last \in Nat /\ r \in RowMaps
    BY <1>1, DiskFacts
  <1>3. h < Schema!current_version(t)
    BY <1>1, <1>2, RegistryFacts DEF TableFits
  <1>4. step = Registry[t][h + 1] /\ step.from = h /\ step.to = h + 1 /\ Schema!HasStep(t, h)
    BY <1>2, <1>3, StepFacts
  <1>5. Schema!CheckpointFits(d, t)
    BY <1>1, <1>4 DEF Schema!CheckpointFits, TableFits
  <1>6. o.max_records \in Nat \ {0} /\ o.max_bytes \in Nat
    BY SchemaAssumption
  <1>7. /\ DOMAIN b = DOMAIN r /\ IsFiniteSet(DOMAIN b) /\ DOMAIN b \subseteq Nat
        /\ \A k \in DOMAIN b : b[k] \in Nat
    <2>1. IsFiniteSet(DOMAIN r) /\ DOMAIN r \subseteq Nat /\ \A k \in DOMAIN r : r[k].form \in Nat
      BY <1>2, RowMapFacts
    <2>2. \A k \in DOMAIN r : b[k] = 2 + r[k].form
      BY DEF Schema!RowBytes
    <2>3. DOMAIN b = DOMAIN r
      OBVIOUS
    <2> HIDE DEF b, r
    <2> QED
      BY <2>1, <2>2, <2>3
  <1>8. /\ \A k \in scan.rows : k \in DOMAIN b /\ k > c.last
        /\ \A k \in scan.rows : \A j \in DOMAIN b : c.last < j /\ j <= k => j \in scan.rows
        /\ scan.rows = {} /\ ~scan.oversized => \A k \in DOMAIN b : k <= c.last
    <2> HIDE DEF b, c
    <2> QED
      BY <1>2, <1>6, <1>7, ScanFacts
  <1>9. res = IF scan.oversized THEN Schema!Failed(d, "ScanBatchByteLimitExceeded")
              ELSE IF scan.rows = {} THEN Schema!CompleteTable(d, t, step)
              ELSE Schema!collect_record_migration(d, t, scan.rows, step, o.max_bytes)
    BY <1>4, <1>5, Zenon DEF Schema!migrate_table_batch
  <1> HIDE DEF b, scan, res
  <1>10. CASE scan.oversized
    <2>1. res.disk = d /\ res.progress = "ScanBatchByteLimitExceeded"
      BY <1>9, <1>10 DEF Schema!Failed
    <2> QED
      BY <2>1 DEF Refusals, res
  <1>11. CASE ~scan.oversized /\ scan.rows = {}
    <2>1. res.disk = WithTable(d, t, h + 1, Schema!NoCheckpoint, r) /\ res.progress = "TableCompleted"
      <3>1. res = Schema!CompleteTable(d, t, Registry[t][h + 1])
        BY <1>4, <1>9, <1>11, Zenon
      <3>2. res = [disk |-> WithTable(d, t, h + 1, Schema!NoCheckpoint, r), progress |-> "TableCompleted"]
        BY <1>1, <1>3, <3>1, CompleteOutcome, Zenon
      <3> QED
        BY <3>2
    <2>2. \A k \in DOMAIN r : k <= c.last
      BY <1>7, <1>8, <1>11
    <2>3. Completed(d, t, res.disk)
      BY <2>1, <2>2 DEF Completed
    <2> QED
      BY <2>1, <2>3 DEF res
  <1>12. CASE ~scan.oversized /\ scan.rows # {}
    <2>1. res = Schema!collect_record_migration(d, t, scan.rows, Registry[t][h + 1], o.max_bytes)
      BY <1>4, <1>9, <1>12
    <2>2. \/ res.disk = d /\ res.progress \in Refusals
          \/ /\ res.progress = "BatchValidated"
             /\ \A k \in scan.rows : d.rows[t][k].parses
             /\ res.disk = WithTable(d, t, d.header[t],
                     [from |-> d.header[t], to |-> d.header[t] + 1, last |-> Schema!Max(scan.rows)],
                     Migrated(d.rows[t], scan.rows, Registry[t][d.header[t] + 1].rewrite))
      BY <1>1, <1>3, <2>1, CollectOutcome
    <2>3. res.progress = "BatchValidated" => Advanced(d, t, scan.rows, res.disk)
      <3>1. Refusals \subseteq {"ScanBatchByteLimitExceeded", "InvalidRecord", "BatchMemoryLimitExceeded"}
        BY DEF Refusals
      <3>2. res.progress = "BatchValidated" =>
             /\ \A k \in scan.rows : d.rows[t][k].parses
             /\ res.disk = WithTable(d, t, d.header[t],
                     [from |-> d.header[t], to |-> d.header[t] + 1, last |-> Schema!Max(scan.rows)],
                     Migrated(d.rows[t], scan.rows, Registry[t][d.header[t] + 1].rewrite))
        BY <2>2, <3>1
      <3>3. NextPage(d, t, scan.rows) \/ ~(\A k \in scan.rows : d.rows[t][k].parses)
        BY <1>7, <1>8, <1>12 DEF NextPage
      <3> QED
        BY <3>2, <3>3 DEF Advanced
    <2> QED
      BY <2>2, <2>3 DEF res
  <1> QED
    BY <1>10, <1>11, <1>12

\* No session is refused for a checkpoint that another one left.
LEMMA PreflightOk ==
    ASSUME NEW d, DiskFits(d)
    PROVE  Schema!preflight_checkpoints(d) = "ok"
  <1> DEFINE pending == {t \in Schema!AllTables : d.checkpoint[t] # Schema!NoCheckpoint}
  <1>1. ASSUME NEW t \in pending
        PROVE  /\ d.header[t] # Schema!current_version(t)
               /\ Schema!HasStep(t, d.header[t])
               /\ Schema!CheckpointFits(d, t)
    <2>1. d \in Disks /\ t \in Schema!AllTables /\ d.checkpoint[t] # Schema!NoCheckpoint
          /\ TableFits(t, d.header[t], d.checkpoint[t], d.rows[t])
      BY DEF DiskFits
    <2>2. d.header[t] \in Nat /\ Schema!current_version(t) \in Nat
      BY <2>1, DiskFacts, RegistryFacts
    <2>3. d.header[t] < Schema!current_version(t)
          /\ d.checkpoint[t].from = d.header[t] /\ d.checkpoint[t].to = d.header[t] + 1
      BY <2>1 DEF TableFits
    <2>4. /\ Schema!next_migration_step(t, d.header[t]).from = d.header[t]
          /\ Schema!next_migration_step(t, d.header[t]).to = d.header[t] + 1
          /\ Schema!HasStep(t, d.header[t])
      BY <2>1, <2>2, <2>3, StepFacts
    <2> QED
      BY <2>2, <2>3, <2>4 DEF Schema!CheckpointFits
  <1> QED
    BY <1>1, Zenon DEF Schema!preflight_checkpoints

\* A batch refuses, completes a table, advances in one, or finds nothing to do.
LEMMA BatchOutcome ==
    ASSUME NEW d, DiskFits(d), NEW o \in Options
    PROVE  LET res == Schema!migrate_sync_schema_batch(d, o)
           IN \/ res.disk = d /\ res.progress \in Refusals \cup {"Complete"}
              \/ \E t \in Schema!AllTables :
                    /\ d.header[t] # Schema!current_version(t)
                    /\ \/ res.progress = "TableCompleted" /\ Completed(d, t, res.disk)
                       \/ res.progress = "BatchValidated" /\ \E page : Advanced(d, t, page, res.disk)
  <1> DEFINE behind == {i \in DOMAIN Tables : d.header[Tables[i]] # Schema!current_version(Tables[i])}
             res == Schema!migrate_sync_schema_batch(d, o)
             t == Tables[Schema!Min(behind)]
  <1>1. res = IF behind = {} THEN [disk |-> d, progress |-> "Complete"]
              ELSE Schema!migrate_table_batch(d, t, o)
    BY PreflightOk, Zenon DEF Schema!migrate_sync_schema_batch
  <1>2. CASE behind = {}
    <2>1. res.disk = d /\ res.progress = "Complete"
      <3> HIDE DEF res, behind
      <3> QED
        BY <1>1, <1>2
    <2> QED
      BY <2>1
  <1>3. CASE behind # {}
    <2>1. Schema!Min(behind) \in behind
      <3>1. Tables \in Seq(Schema!AllTables)
        BY SchemaAssumption
      <3>2. DOMAIN Tables \in SUBSET Nat
        BY <3>1
      <3>3. behind \in SUBSET Nat
        BY <3>2
      <3> HIDE DEF behind
      <3> QED
        BY <1>3, <3>3, MinFacts
    <2>2. t \in Schema!AllTables
      <3>1. Tables \in Seq(Schema!AllTables)
        BY SchemaAssumption
      <3> QED
        BY <2>1, <3>1
    <2>3. d.header[t] # Schema!current_version(t)
      BY <2>1, Zenon
    <2>4. res = Schema!migrate_table_batch(d, t, o)
      BY <1>1, <1>3, Zenon
    <2> HIDE DEF res, t, behind
    <2>5. \/ res.disk = d /\ res.progress \in Refusals
          \/ res.progress = "TableCompleted" /\ Completed(d, t, res.disk)
          \/ res.progress = "BatchValidated" /\ \E page : Advanced(d, t, page, res.disk)
      BY <2>2, <2>3, <2>4, TableOutcome
    <2> QED
      BY <2>2, <2>3, <2>5 DEF res
  <1> QED
    BY <1>2, <1>3

LEMMA CompletedFits ==
    ASSUME NEW d, DiskFits(d), NEW t \in Schema!AllTables, d.header[t] # Schema!current_version(t),
           NEW e, Completed(d, t, e)
    PROVE  DiskFits(e)
  <1>1. d \in Disks /\ TableFits(t, d.header[t], d.checkpoint[t], d.rows[t])
    BY DEF DiskFits
  <1>2. /\ d.header[t] \in Nat /\ d.checkpoint[t] \in Checkpoints /\ d.rows[t] \in RowMaps
    BY <1>1, DiskFacts
  <1>3. d.header[t] < Schema!current_version(t)
    BY <1>1, <1>2, RegistryFacts DEF TableFits
  <1>4. TableFits(t, d.header[t] + 1, Schema!NoCheckpoint, d.rows[t])
    BY <1>1, <1>2, <1>3, CompleteFits, Zenon DEF Completed
  <1>5. d.header[t] + 1 \in Nat /\ Schema!NoCheckpoint \in Checkpoints
    BY <1>2 DEF Schema!NoCheckpoint, Checkpoints
  <1> QED
    BY <1>2, <1>4, <1>5, TableUpdate, Zenon DEF Completed, WithTable

LEMMA AdvancedFits ==
    ASSUME NEW d, DiskFits(d), NEW t \in Schema!AllTables, d.header[t] # Schema!current_version(t),
           NEW page, NEW e, Advanced(d, t, page, e)
    PROVE  DiskFits(e) /\ Schema!Max(page) \in page
  <1> DEFINE g == [from |-> d.header[t], to |-> d.header[t] + 1, last |-> Schema!Max(page)]
             q == Migrated(d.rows[t], page, Registry[t][d.header[t] + 1].rewrite)
  <1>1. d \in Disks /\ TableFits(t, d.header[t], d.checkpoint[t], d.rows[t])
    BY DEF DiskFits
  <1>2. /\ d.header[t] \in Nat /\ d.checkpoint[t] \in Checkpoints /\ d.rows[t] \in RowMaps
        /\ d.checkpoint[t].last \in Nat
    BY <1>1, DiskFacts
  <1>3. d.header[t] < Schema!current_version(t)
    BY <1>1, <1>2, RegistryFacts DEF TableFits
  <1>4. /\ Schema!Max(page) \in page /\ g \in Checkpoints /\ q \in RowMaps
        /\ TableFits(t, d.header[t], g, q)
    <2>1. NextPage(d, t, page)
      BY DEF Advanced
    <2> QED
      BY <1>1, <1>2, <1>3, <2>1, BatchFits, Zenon DEF NextPage
  <1>5. e = WithTable(d, t, d.header[t], g, q)
    BY DEF Advanced
  <1> HIDE DEF g, q
  <1> QED
    BY <1>2, <1>4, <1>5, TableUpdate, Zenon DEF WithTable

\* What holds of a migration between two steps: every state that a crash may
\* bring back is between two batches, and a node serves current tables only.
MigrationInd ==
    /\ disk \in recoverable
    /\ \A d \in recoverable : DiskFits(d)
    /\ session \in {"closed", "lease", "serving"}
    /\ session = "lease" => options \in Options
    /\ session = "serving" => \A t \in Schema!AllTables : disk.header[t] = Schema!current_version(t)
    /\ Schema!OwnCheckpointsAreAccepted

LEMMA RowFields ==
    ASSUME NEW p, NEW f, NEW r, r = [parses |-> p, form |-> f]
    PROVE  r.parses = p /\ r.form = f
  OBVIOUS

LEMMA MigrationInitFits ==
    ASSUME Schema!MigrationInit
    PROVE  MigrationInd
  <1> USE DEF Schema!Row
  <1>1. PICK version \in [Schema!AllTables -> Nat \intersect 0 .. Schema!Max({Schema!current_version(t) : t \in Schema!AllTables})],
             broken \in SUBSET (Schema!AllTables \X Rows),
             held \in [Schema!AllTables -> SUBSET Rows] :
          /\ \A t \in Schema!AllTables : version[t] <= Schema!current_version(t)
          /\ \A tk \in broken : tk[2] \in held[tk[1]] /\ version[tk[1]] = 0
          /\ disk = [header |-> version,
                     checkpoint |-> [t \in Schema!AllTables |-> Schema!NoCheckpoint],
                     rows |-> [t \in Schema!AllTables |->
                                  [k \in held[t] |-> [parses |-> <<t, k>> \notin broken,
                                                      form |-> Schema!FormAt(t, version[t])]]]]
    BY Zenon DEF Schema!MigrationInit
  <1>2. recoverable = {disk} /\ session = "closed" /\ outcome = "none"
    BY Zenon DEF Schema!MigrationInit
  <1> DEFINE rs(t) == [k \in held[t] |-> [parses |-> <<t, k>> \notin broken,
                                          form |-> Schema!FormAt(t, version[t])]]
             cs == [t \in Schema!AllTables |-> Schema!NoCheckpoint]
             rows0 == [t \in Schema!AllTables |-> rs(t)]
  <1>3. disk.header = version /\ disk.checkpoint = cs /\ disk.rows = rows0
    BY <1>1
  <1>4. disk = [header |-> version, checkpoint |-> cs, rows |-> rows0]
    BY <1>1
  <1>5. \A t \in Schema!AllTables : version[t] \in Nat /\ held[t] \in SUBSET Rows
    BY <1>1
  <1>6. version \in [Schema!AllTables -> Nat]
    BY <1>1
  <1>7. ASSUME NEW t \in Schema!AllTables
        PROVE  rs(t) \in RowMaps /\ TableFits(t, version[t], Schema!NoCheckpoint, rs(t))
    <2>1. Schema!FormAt(t, version[t]) \in Nat
      BY <1>5, FormFacts
    <2>2. rs(t) \in [held[t] -> RowRecords]
      <3>1. \A k \in held[t] : [parses |-> <<t, k>> \notin broken,
                                form |-> Schema!FormAt(t, version[t])] \in RowRecords
        BY <2>1 DEF RowRecords
      <3> QED
        BY <3>1
    <2>3. rs(t) \in RowMaps /\ DOMAIN rs(t) = held[t]
      <3> HIDE DEF rs
      <3> QED
        BY <1>5, <2>2, RowMapIntro
    <2>4. Schema!NoCheckpoint.last = 0
      BY DEF Schema!NoCheckpoint
    <2>5. ASSUME NEW k \in held[t]
          PROVE  /\ rs(t)[k].form = Schema!FormAt(t, version[t])
                 /\ version[t] > 0 => rs(t)[k].parses
                 /\ ~(k <= Schema!NoCheckpoint.last)
      <3>1. rs(t)[k] = [parses |-> <<t, k>> \notin broken, form |-> Schema!FormAt(t, version[t])]
        BY Zenon
      <3>2. version[t] > 0 => <<t, k>> \notin broken
        BY <1>1
      <3>3. k \in Nat /\ k > 0
        BY <1>5, SchemaAssumption
      <3> HIDE DEF rs
      <3>4. rs(t)[k].form = Schema!FormAt(t, version[t])
        <4> DEFINE p == <<t, k>> \notin broken
                   f == Schema!FormAt(t, version[t])
        <4>1. rs(t)[k] = [parses |-> p, form |-> f]
          BY <3>1, Zenon
        <4> HIDE DEF p, f
        <4>2. rs(t)[k].form = f
          BY <4>1
        <4> QED
          BY <4>2 DEF f
      <3>5. version[t] > 0 => rs(t)[k].parses
        BY <3>1, <3>2, RowFields, Zenon
      <3> QED
        BY <2>4, <3>3, <3>4, <3>5
    <2> HIDE DEF rs
    <2> QED
      BY <1>1, <2>3, <2>5 DEF TableFits
  <1>8. DiskFits(disk)
    <2>1. Schema!NoCheckpoint \in Checkpoints
      BY DEF Schema!NoCheckpoint, Checkpoints
    <2>2. cs \in [Schema!AllTables -> Checkpoints] /\ \A t \in Schema!AllTables : cs[t] = Schema!NoCheckpoint
      BY <2>1
    <2>3. rows0 \in [Schema!AllTables -> RowMaps] /\ \A t \in Schema!AllTables : rows0[t] = rs(t)
      <3> HIDE DEF rs
      <3> QED
        BY <1>7
    <2> HIDE DEF cs, rs, rows0
    <2>4. disk \in Disks
      BY <1>4, <1>6, <2>2, <2>3 DEF Disks
    <2> QED
      BY <1>3, <1>7, <2>2, <2>3, <2>4 DEF DiskFits
  <1> QED
    BY <1>2, <1>8 DEF MigrationInd, Schema!OwnCheckpointsAreAccepted

\* A step that keeps the store in order.
LEMMA WriteFits ==
    ASSUME MigrationInd, NEW e, DiskFits(e), Schema!Write(e) \/ Schema!Flush(e)
    PROVE  /\ disk' = e
           /\ disk' \in recoverable'
           /\ \A d \in recoverable' : DiskFits(d)
  BY Zenon DEF MigrationInd, Schema!Write, Schema!Flush

LEMMA OpenSessionFits ==
    ASSUME MigrationInd, Schema!OpenSession
    PROVE  MigrationInd'
  <1>1. \A t \in Schema!AllTables : Schema!validate_migration_path(t)
    BY SchemaAssumption
  <1>2. disk' = disk /\ recoverable' = recoverable
    BY DEF Schema!OpenSession
  <1>3. session' = "lease" /\ outcome' = "none" /\ options' \in Options
    BY <1>1 DEF Schema!OpenSession
  <1> QED
    BY <1>2, <1>3 DEF MigrationInd, Schema!OwnCheckpointsAreAccepted, DiskFits, TableFits

LEMMA StepSessionFits ==
    ASSUME MigrationInd, Schema!StepSession
    PROVE  MigrationInd'
  <1> DEFINE res == Schema!migrate_sync_schema_batch(disk, options)
  <1>1. DiskFits(disk) /\ options \in Options /\ session = "lease"
    BY DEF MigrationInd, Schema!StepSession
  <1>2. \/ res.disk = disk /\ res.progress \in Refusals \cup {"Complete"}
        \/ \E t \in Schema!AllTables :
              /\ disk.header[t] # Schema!current_version(t)
              /\ \/ res.progress = "TableCompleted" /\ Completed(disk, t, res.disk)
                 \/ res.progress = "BatchValidated" /\ \E page : Advanced(disk, t, page, res.disk)
    BY <1>1, BatchOutcome
  <1>3. /\ Schema!Flush(res.disk) \/ Schema!Write(res.disk)
        /\ IF res.progress \in {"BatchValidated", "TableCompleted"}
           THEN session' = session /\ outcome' = outcome
           ELSE session' = "closed" /\ outcome' = res.progress
        /\ options' = options
    BY Zenon DEF Schema!StepSession
  <1> HIDE DEF res
  <1>4. DiskFits(res.disk)
    BY <1>1, <1>2, CompletedFits, AdvancedFits
  <1>5. disk' \in recoverable' /\ \A d \in recoverable' : DiskFits(d)
    BY <1>3, <1>4, WriteFits
  <1>6. /\ session' \in {"closed", "lease"}
        /\ session' = "lease" => options' \in Options
    BY <1>1, <1>3
  <1>7. res.progress \in Refusals \cup {"Complete", "TableCompleted", "BatchValidated"}
    BY <1>2
  <1>8. Schema!OwnCheckpointsAreAccepted'
    BY <1>3, <1>7 DEF MigrationInd, Schema!OwnCheckpointsAreAccepted, Refusals
  <1>9. \A t \in Schema!AllTables : session' # "serving"
    BY <1>6
  <1> QED
    BY <1>5, <1>6, <1>8 DEF MigrationInd, DiskFits, TableFits

\* Tables that the node may serve are current, or empty and without a checkpoint.
LEMMA StartServingFits ==
    ASSUME MigrationInd, Schema!StartServing
    PROVE  MigrationInd'
  <1> DEFINE heads == [t \in Schema!AllTables |-> Schema!current_version(t)]
             e == [disk EXCEPT !.header = heads]
  <1>1. disk \in Disks /\ \A t \in Schema!AllTables : TableFits(t, disk.header[t], disk.checkpoint[t], disk.rows[t])
    BY DEF MigrationInd, DiskFits
  <1>2. CASE Schema!ensure_sync_schema(disk) # "ok"
    <2>1. /\ disk' = disk /\ recoverable' = recoverable /\ session' = "closed"
          /\ outcome' = Schema!ensure_sync_schema(disk)
      BY <1>2, Zenon DEF Schema!StartServing
    <2>2. Schema!ensure_sync_schema(disk) \in {"OlderVersion", "LegacyTable", "ok"}
      BY DEF Schema!ensure_sync_schema
    <2> QED
      BY <2>1, <2>2 DEF MigrationInd, Schema!OwnCheckpointsAreAccepted, DiskFits, TableFits
  <1>3. CASE Schema!ensure_sync_schema(disk) = "ok"
    <2>1. Schema!Write(e) /\ session' = "serving" /\ outcome' = "none"
      BY <1>3, Zenon DEF Schema!StartServing
    <2>2. \A t \in Schema!AllTables :
             \/ disk.header[t] # 0 /\ disk.header[t] = Schema!current_version(t)
             \/ disk.header[t] = 0 /\ DOMAIN disk.rows[t] = {}
      BY <1>3 DEF Schema!ensure_sync_schema, Schema!Missing
    <2>3. /\ disk = [header |-> disk.header, checkpoint |-> disk.checkpoint, rows |-> disk.rows]
          /\ disk.checkpoint \in [Schema!AllTables -> Checkpoints]
          /\ disk.rows \in [Schema!AllTables -> RowMaps]
      BY <1>1, DiskFacts
    <2>4. heads \in [Schema!AllTables -> Nat] /\ \A t \in Schema!AllTables : heads[t] = Schema!current_version(t)
      BY RegistryFacts
    <2>5. e = [disk EXCEPT !.header = heads]
      OBVIOUS
    <2> HIDE DEF heads, e
    <2>6. e = [header |-> heads, checkpoint |-> disk.checkpoint, rows |-> disk.rows]
      BY <2>3, <2>5
    <2>7. e.header = heads /\ e.checkpoint = disk.checkpoint /\ e.rows = disk.rows
      BY <2>6
    <2>8. e \in Disks
      <3> HIDE DEF Checkpoints, RowMaps
      <3> QED
        BY <2>3, <2>4, <2>6 DEF Disks
    <2>9. ASSUME NEW t \in Schema!AllTables
          PROVE  TableFits(t, e.header[t], e.checkpoint[t], e.rows[t])
      <3>1. CASE disk.header[t] = Schema!current_version(t)
        BY <1>1, <2>4, <2>7, <3>1
      <3>2. CASE DOMAIN disk.rows[t] = {}
        <4>1. disk.checkpoint[t] = Schema!NoCheckpoint
          BY <1>1, <3>2 DEF TableFits
        <4>2. Schema!current_version(t) \in Nat
          BY RegistryFacts
        <4> QED
          BY <2>4, <2>7, <3>2, <4>1, <4>2 DEF TableFits
      <3> QED
        BY <2>2, <3>1, <3>2
    <2>10. DiskFits(e)
      BY <2>8, <2>9 DEF DiskFits
    <2>11. disk' = e /\ disk' \in recoverable' /\ \A d \in recoverable' : DiskFits(d)
      BY <2>1, <2>10, WriteFits
    <2> QED
      BY <2>1, <2>4, <2>7, <2>11 DEF MigrationInd, Schema!OwnCheckpointsAreAccepted, DiskFits, TableFits
  <1> QED
    BY <1>2, <1>3

\* A serving node adds a record of the current version to a table without a checkpoint.
LEMMA ServeWriteFits ==
    ASSUME MigrationInd, Schema!ServeWrite
    PROVE  MigrationInd'
  <1>0. session = "serving" /\ session' = session /\ options' = options /\ outcome' = outcome
    BY DEF Schema!ServeWrite
  <1>1. disk \in Disks /\ \A t \in Schema!AllTables : TableFits(t, disk.header[t], disk.checkpoint[t], disk.rows[t])
    BY DEF MigrationInd, DiskFits
  <1>2. \A t \in Schema!AllTables : disk.header[t] = Schema!current_version(t)
    BY <1>0 DEF MigrationInd
  <1>3. PICK t \in Schema!AllTables, k \in Rows :
           Schema!Write([disk EXCEPT !.rows[t] =
                    [j \in DOMAIN @ \union {k} |->
                        IF j = k THEN Schema!Row(TRUE, Schema!FormAt(t, Schema!current_version(t))) ELSE @[j]]])
    BY Zenon DEF Schema!ServeWrite
  <1> DEFINE h == disk.header[t]
             c == disk.checkpoint[t]
             r == disk.rows[t]
             w == Schema!Row(TRUE, Schema!FormAt(t, Schema!current_version(t)))
             q == [j \in DOMAIN r \union {k} |-> IF j = k THEN w ELSE r[j]]
             e == [disk EXCEPT !.rows[t] = q]
  <1>4. Schema!Write(e)
    BY <1>3, Zenon
  <1>5. h \in Nat /\ c \in Checkpoints /\ r \in RowMaps
    BY <1>1, DiskFacts
  <1>6. h = Schema!current_version(t) /\ Schema!FormAt(t, h) \in Nat
    BY <1>2, <1>5, FormFacts
  <1>7. c = Schema!NoCheckpoint
    BY <1>1, <1>5, <1>6 DEF TableFits
  <1>8. c.last = 0
    BY <1>7 DEF Schema!NoCheckpoint
  <1>9. w \in RowRecords /\ w.parses = TRUE /\ w.form = Schema!FormAt(t, h)
    BY <1>6 DEF Schema!Row, RowRecords
  <1>10. /\ DOMAIN r \in SUBSET Rows
         /\ \A j \in DOMAIN r : j \in Nat /\ j > 0 /\ r[j] \in RowRecords
    BY <1>5, RowMapFacts
  <1>11. k \in Nat /\ k > 0
    BY SchemaAssumption
  <1>12. \A j \in DOMAIN r \union {k} : q[j] = IF j = k THEN w ELSE r[j]
    BY Zenon
  <1>13. q \in [DOMAIN r \union {k} -> RowRecords]
    <2> HIDE DEF w, r
    <2> QED
      BY <1>9, <1>10
  <1>14. q \in RowMaps /\ DOMAIN q = DOMAIN r \union {k}
    <2> HIDE DEF q, r
    <2>1. DOMAIN r \union {k} \in SUBSET Rows
      BY <1>10
    <2> QED
      BY <1>13, <2>1, RowMapIntro
  <1>15. TableFits(t, h, c, q)
    <2> HIDE DEF q, w
    <2>1. \A j \in DOMAIN r : r[j].form = Schema!FormAt(t, IF j <= c.last THEN c.to ELSE h)
                              /\ (h > 0 \/ j <= c.last => r[j].parses)
      BY <1>1 DEF TableFits
    <2>2. ASSUME NEW j \in DOMAIN q
          PROVE  /\ q[j].form = Schema!FormAt(t, IF j <= c.last THEN c.to ELSE h)
                 /\ h > 0 \/ j <= c.last => q[j].parses
      <3>1. CASE j = k
        <4>1. q[j] = w /\ ~(j <= c.last)
          BY <1>8, <1>11, <1>12, <1>14, <3>1
        <4> QED
          BY <1>9, <4>1
      <3>2. CASE j # k
        <4>1. j \in DOMAIN r /\ q[j] = r[j]
          BY <1>12, <1>14, <3>2
        <4> QED
          BY <2>1, <4>1
      <3> QED
        BY <3>1, <3>2
    <2>3. h <= Schema!current_version(t)
      BY <1>5, <1>6
    <2> QED
      BY <1>7, <2>2, <2>3 DEF TableFits
  <1>16. e = WithTable(disk, t, h, c, q)
    <2>1. /\ disk = [header |-> disk.header, checkpoint |-> disk.checkpoint, rows |-> disk.rows]
          /\ disk.header \in [Schema!AllTables -> Nat]
          /\ disk.checkpoint \in [Schema!AllTables -> Checkpoints]
          /\ disk.rows \in [Schema!AllTables -> RowMaps]
      BY <1>1, DiskFacts
    <2>2. e = [disk EXCEPT !.rows[t] = q]
      OBVIOUS
    <2> HIDE DEF q, e
    <2>3. e = [header |-> disk.header, checkpoint |-> disk.checkpoint, rows |-> [disk.rows EXCEPT ![t] = q]]
      BY <2>1, <2>2
    <2>4. [disk.header EXCEPT ![t] = disk.header[t]] = disk.header
      BY <2>1
    <2>5. [disk.checkpoint EXCEPT ![t] = disk.checkpoint[t]] = disk.checkpoint
      BY <2>1
    <2> QED
      BY <2>3, <2>4, <2>5, Zenon DEF WithTable
  <1>17. DiskFits(disk)
    BY DEF MigrationInd
  <1> HIDE DEF q, e, w
  <1>18. DiskFits(e)
    BY <1>5, <1>14, <1>15, <1>16, <1>17, TableUpdate, Zenon DEF WithTable
  <1>19. disk' = e /\ disk' \in recoverable' /\ \A d \in recoverable' : DiskFits(d)
    BY <1>4, <1>18, WriteFits
  <1>20. e.header = disk.header
    <2>1. disk.header \in [Schema!AllTables -> Nat]
      BY <1>1, DiskFacts
    <2> QED
      BY <1>16, <2>1 DEF WithTable
  <1>21. \A u \in Schema!AllTables : disk'.header[u] = Schema!current_version(u)
    BY <1>2, <1>19, <1>20
  <1> QED
    BY <1>0, <1>19, <1>21 DEF MigrationInd, Schema!OwnCheckpointsAreAccepted, DiskFits, TableFits

LEMMA FlushAndCrashFit ==
    ASSUME MigrationInd, Schema!StopServing \/ Schema!BackgroundFlush \/ Schema!Crash
    PROVE  MigrationInd'
  <1>0. DiskFits(disk) /\ \A d \in recoverable : DiskFits(d)
    BY DEF MigrationInd
  <1>1. CASE Schema!StopServing
    <2>1. Schema!Flush(disk) /\ session' = "closed" /\ outcome' = outcome
      BY <1>1 DEF Schema!StopServing
    <2>2. disk' \in recoverable' /\ \A d \in recoverable' : DiskFits(d)
      BY <1>0, <2>1, WriteFits
    <2> QED
      BY <2>1, <2>2 DEF MigrationInd, Schema!OwnCheckpointsAreAccepted, DiskFits, TableFits
  <1>2. CASE Schema!BackgroundFlush
    <2>1. Schema!Flush(disk) /\ session' = session /\ outcome' = outcome /\ options' = options
      BY <1>2 DEF Schema!BackgroundFlush
    <2>2. disk' = disk /\ disk' \in recoverable' /\ \A d \in recoverable' : DiskFits(d)
      BY <1>0, <2>1, WriteFits
    <2> QED
      BY <2>1, <2>2 DEF MigrationInd, Schema!OwnCheckpointsAreAccepted, DiskFits, TableFits
  <1>3. CASE Schema!Crash
    <2>1. PICK e \in recoverable : Schema!Flush(e)
      BY <1>3 DEF Schema!Crash
    <2>2. session' = "closed" /\ outcome' = "none"
      BY <1>3 DEF Schema!Crash
    <2>3. disk' \in recoverable' /\ \A d \in recoverable' : DiskFits(d)
      BY <1>0, <2>1, WriteFits
    <2> QED
      BY <2>2, <2>3 DEF MigrationInd, Schema!OwnCheckpointsAreAccepted, DiskFits, TableFits
  <1> QED
    BY <1>1, <1>2, <1>3

LEMMA MigrationStep ==
    ASSUME MigrationInd, Schema!MigrationNext
    PROVE  MigrationInd'
  BY OpenSessionFits, StepSessionFits, StartServingFits, ServeWriteFits, FlushAndCrashFit
     DEF Schema!MigrationNext

LEMMA MigrationSafe ==
    ASSUME MigrationInd
    PROVE  Schema!MigrationInv
  <1>1. ASSUME NEW d \in recoverable, NEW t \in Schema!AllTables
        PROVE  TableFits(t, d.header[t], d.checkpoint[t], d.rows[t])
    BY DEF MigrationInd, DiskFits
  <1>2. Schema!RewrittenOnce
    BY <1>1 DEF Schema!RewrittenOnce, TableFits
  <1>3. Schema!VersionedTableParses
    BY <1>1 DEF Schema!VersionedTableParses, TableFits
  <1> QED
    BY <1>2, <1>3 DEF Schema!MigrationInv, MigrationInd

(* A migration may crash between any two batches, fall back to any state   *)
(* that was not flushed and be resumed with other limits: every record is  *)
(* rewritten exactly once per version, a table under a header holds only   *)
(* records that parse, and no session is refused for a checkpoint that     *)
(* sessions wrote themselves (migrate_sync_schema_batch, migration.rs:384; *)
(* ensure_sync_schema, schema.rs:230), for every registry without gaps.    *)
THEOREM MigrationSurvivesCrashes == Spec => []MigrationInv
  <1> DEFINE Inv == kind = "migration" => MigrationInd
  <1>1. Init => Inv
    BY MigrationInitFits DEF Init
  <1>2. Inv /\ [Next]_allVars => Inv'
    <2> SUFFICES ASSUME Inv, [Next]_allVars, kind' = "migration" PROVE MigrationInd'
      OBVIOUS
    <2>1. CASE Next
      <3>1. kind = "migration" /\ Schema!MigrationNext
        BY <2>1 DEF Next
      <3> QED
        BY <3>1, MigrationStep
    <2>2. CASE UNCHANGED allVars
      <3>1. /\ kind' = kind /\ disk' = disk /\ recoverable' = recoverable /\ session' = session
            /\ options' = options /\ outcome' = outcome
        BY <2>2 DEF allVars, ofNode, ofMigration
      <3> QED
        BY <3>1 DEF MigrationInd, Schema!OwnCheckpointsAreAccepted, DiskFits, TableFits
    <2> QED
      BY <2>1, <2>2
  <1>3. Inv => MigrationInv
    BY MigrationSafe DEF MigrationInv
  <1> QED
    BY <1>1, <1>2, <1>3, PTL DEF Spec

\* What is left of a migration, element by element.
Left(d, t, v, k) ==
    /\ t \in Schema!AllTables
    /\ v \in d.header[t] + 1 .. Schema!current_version(t)
    /\ k \in DOMAIN d.rows[t] \union {0}
    /\ ~(v = d.header[t] + 1 /\ k \in DOMAIN d.rows[t] /\ ~(k > d.checkpoint[t].last))

LEMMA DistanceIsLeft ==
    ASSUME NEW d
    PROVE  /\ \A t, v, k : <<t, v, k>> \in Schema!Distance(d) <=> Left(d, t, v, k)
           /\ \A x \in Schema!Distance(d) : \E t, v, k : x = <<t, v, k>>
  <1> DEFINE cells(t) == {t} \X (d.header[t] + 1 .. Schema!current_version(t)) \X (DOMAIN d.rows[t] \union {0})
             done(t) == {<<t, d.header[t] + 1, k>> : k \in DOMAIN d.rows[t] \ Schema!Ahead(d, t)}
  <1>1. Schema!Distance(d) = (UNION {cells(t) : t \in Schema!AllTables}) \ (UNION {done(t) : t \in Schema!AllTables})
    BY Zenon DEF Schema!Distance
  <1>2. \A t : \A x : x \in cells(t) <=>
           \E v \in d.header[t] + 1 .. Schema!current_version(t), k \in DOMAIN d.rows[t] \union {0} : x = <<t, v, k>>
    <2> SUFFICES ASSUME NEW t
                 PROVE  \A x : x \in cells(t) <=>
                           \E v \in d.header[t] + 1 .. Schema!current_version(t), k \in DOMAIN d.rows[t] \union {0} :
                              x = <<t, v, k>>
      BY Zenon
    <2> DEFINE V == d.header[t] + 1 .. Schema!current_version(t)
               K == DOMAIN d.rows[t] \union {0}
    <2>1. cells(t) = {t} \X V \X K
      OBVIOUS
    <2> HIDE DEF V, K, cells
    <2>2. \A x : x \in cells(t) <=> \E v \in V, k \in K : x = <<t, v, k>>
      BY <2>1
    <2> QED
      BY <2>2 DEF V, K
  <1>3. \A t : \A x : x \in done(t) <=> \E k \in DOMAIN d.rows[t] : ~(k > d.checkpoint[t].last) /\ x = <<t, d.header[t] + 1, k>>
    BY Zenon DEF Schema!Ahead
  <1>4. \A x : x \in Schema!Distance(d) <=>
           /\ \E t \in Schema!AllTables : x \in cells(t)
           /\ ~\E t \in Schema!AllTables : x \in done(t)
    <2> HIDE DEF cells, done
    <2>1. PICK C, D : C = UNION {cells(t) : t \in Schema!AllTables} /\ D = UNION {done(t) : t \in Schema!AllTables}
      BY Zenon
    <2>2. \A x : x \in C <=> \E t \in Schema!AllTables : x \in cells(t)
      BY <2>1, Zenon
    <2>3. \A x : x \in D <=> \E t \in Schema!AllTables : x \in done(t)
      BY <2>1, Zenon
    <2>4. Schema!Distance(d) = C \ D
      BY <1>1, <2>1, Zenon
    <2> QED
      BY <2>2, <2>3, <2>4, Zenon
  <1>5. \A t, v, k : (\E u \in Schema!AllTables : <<t, v, k>> \in cells(u)) <=>
           /\ t \in Schema!AllTables
           /\ v \in d.header[t] + 1 .. Schema!current_version(t)
           /\ k \in DOMAIN d.rows[t] \union {0}
    BY <1>2, Zenon
  <1>6. \A t, v, k : (\E u \in Schema!AllTables : <<t, v, k>> \in done(u)) <=>
           /\ t \in Schema!AllTables
           /\ v = d.header[t] + 1 /\ k \in DOMAIN d.rows[t] /\ ~(k > d.checkpoint[t].last)
    BY <1>3, Zenon
  <1> HIDE DEF cells, done
  <1>7. \A x \in Schema!Distance(d) : \E t, v, k : x = <<t, v, k>>
    <2> SUFFICES ASSUME NEW x \in Schema!Distance(d) PROVE \E t, v, k : x = <<t, v, k>>
      OBVIOUS
    <2>1. PICK t \in Schema!AllTables : x \in cells(t)
      BY <1>4, Zenon
    <2>2. \E v \in d.header[t] + 1 .. Schema!current_version(t), k \in DOMAIN d.rows[t] \union {0} : x = <<t, v, k>>
      BY <1>2, <2>1, Zenon
    <2> QED
      BY <2>2, Zenon
  <1>8. \A t, v, k : <<t, v, k>> \in Schema!Distance(d) <=> Left(d, t, v, k)
    BY <1>4, <1>5, <1>6, Zenon DEF Left
  <1> QED
    BY <1>7, <1>8

LEMMA LessIsLeft ==
    ASSUME NEW d, NEW e,
           \A t, v, k : Left(e, t, v, k) => Left(d, t, v, k),
           \E t, v, k : Left(d, t, v, k) /\ ~Left(e, t, v, k)
    PROVE  Schema!Distance(e) # Schema!Distance(d) /\ Schema!Distance(e) \subseteq Schema!Distance(d)
  <1>1. ASSUME NEW x \in Schema!Distance(e) PROVE x \in Schema!Distance(d)
    <2>1. PICK t, v, k : x = <<t, v, k>>
      BY DistanceIsLeft, Zenon
    <2>2. <<t, v, k>> \in Schema!Distance(e)
      BY <2>1, Zenon
    <2>3. Left(e, t, v, k)
      BY <2>2, DistanceIsLeft, Zenon
    <2>4. <<t, v, k>> \in Schema!Distance(d)
      BY <2>3, DistanceIsLeft, Zenon
    <2> QED
      BY <2>1, <2>4, Zenon
  <1>2. Schema!Distance(e) # Schema!Distance(d)
    BY DistanceIsLeft, Zenon
  <1> QED
    BY <1>1, <1>2

LEMMA CompletedIsNearer ==
    ASSUME NEW d, DiskFits(d), NEW t \in Schema!AllTables, d.header[t] # Schema!current_version(t),
           NEW e, Completed(d, t, e)
    PROVE  Schema!Distance(e) # Schema!Distance(d) /\ Schema!Distance(e) \subseteq Schema!Distance(d)
  <1>1. d \in Disks /\ \A u \in Schema!AllTables : TableFits(u, d.header[u], d.checkpoint[u], d.rows[u])
    BY DEF DiskFits
  <1>2. /\ d.header \in [Schema!AllTables -> Nat]
        /\ d.checkpoint \in [Schema!AllTables -> Checkpoints]
        /\ d.rows \in [Schema!AllTables -> RowMaps]
    BY <1>1, DiskFacts
  <1>3. \A u \in Schema!AllTables : d.header[u] \in Nat /\ Schema!current_version(u) \in Nat
    BY <1>2, RegistryFacts
  <1>4. d.header[t] < Schema!current_version(t)
    BY <1>1, <1>3 DEF TableFits
  <1>5. 0 \notin DOMAIN d.rows[t]
    BY <1>2, RowMapFacts
  <1> HIDE DEF Checkpoints, RowMaps
  <1>6. e.header = [d.header EXCEPT ![t] = d.header[t] + 1]
        /\ e.checkpoint = [d.checkpoint EXCEPT ![t] = Schema!NoCheckpoint]
        /\ e.rows = [d.rows EXCEPT ![t] = d.rows[t]]
    BY DEF Completed, WithTable
  <1>7. /\ e.header[t] = d.header[t] + 1
        /\ e.rows = d.rows
        /\ \A u \in Schema!AllTables \ {t} : e.header[u] = d.header[u] /\ e.checkpoint[u] = d.checkpoint[u]
    BY <1>2, <1>6
  <1>8. ASSUME NEW u, NEW v, NEW k, Left(e, u, v, k) PROVE Left(d, u, v, k)
    <2>1. CASE u = t
      <3>1. v \in d.header[t] + 2 .. Schema!current_version(t) /\ k \in DOMAIN d.rows[t] \union {0}
        BY <1>3, <1>7, <1>8, <2>1 DEF Left
      <3> QED
        BY <1>3, <2>1, <3>1 DEF Left
    <2>2. CASE u # t
      BY <1>7, <1>8, <2>2 DEF Left
    <2> QED
      BY <2>1, <2>2
  <1>9. Left(d, t, d.header[t] + 1, 0) /\ ~Left(e, t, d.header[t] + 1, 0)
    BY <1>3, <1>4, <1>5, <1>7 DEF Left
  <1> QED
    BY <1>8, <1>9, LessIsLeft, Zenon

LEMMA AdvancedIsNearer ==
    ASSUME NEW d, DiskFits(d), NEW t \in Schema!AllTables, d.header[t] # Schema!current_version(t),
           NEW page, NEW e, Advanced(d, t, page, e)
    PROVE  Schema!Distance(e) # Schema!Distance(d) /\ Schema!Distance(e) \subseteq Schema!Distance(d)
  <1> DEFINE m == Schema!Max(page)
             g == [from |-> d.header[t], to |-> d.header[t] + 1, last |-> m]
             q == Migrated(d.rows[t], page, Registry[t][d.header[t] + 1].rewrite)
  <1>1. d \in Disks /\ \A u \in Schema!AllTables : TableFits(u, d.header[u], d.checkpoint[u], d.rows[u])
    BY DEF DiskFits
  <1>2. /\ d.header \in [Schema!AllTables -> Nat]
        /\ d.checkpoint \in [Schema!AllTables -> Checkpoints]
        /\ d.rows \in [Schema!AllTables -> RowMaps]
        /\ d.checkpoint[t].last \in Nat
    BY <1>1, DiskFacts
  <1>3. \A u \in Schema!AllTables : d.header[u] \in Nat /\ Schema!current_version(u) \in Nat
    BY <1>2, RegistryFacts
  <1>4. d.header[t] < Schema!current_version(t)
    BY <1>1, <1>3 DEF TableFits
  <1>5. \A k \in DOMAIN d.rows[t] : k \in Nat
    BY <1>2, RowMapFacts
  <1>6. m \in page /\ m \in DOMAIN d.rows[t] /\ m \in Nat /\ m > d.checkpoint[t].last
    <2>1. m \in page
      BY AdvancedFits, Zenon
    <2> QED
      BY <1>5, <2>1 DEF Advanced, NextPage
  <1>7. DOMAIN q = DOMAIN d.rows[t]
    BY DEF Migrated
  <1>8. e = WithTable(d, t, d.header[t], g, q)
    BY DEF Advanced
  <1>9. g.last = m
    OBVIOUS
  <1> HIDE DEF Checkpoints, RowMaps, g, q, m
  <1>10. e.header = [d.header EXCEPT ![t] = d.header[t]]
        /\ e.checkpoint = [d.checkpoint EXCEPT ![t] = g]
        /\ e.rows = [d.rows EXCEPT ![t] = q]
    BY <1>8 DEF WithTable
  <1>11. /\ e.header = d.header
         /\ e.checkpoint[t].last = m
         /\ DOMAIN e.rows[t] = DOMAIN d.rows[t]
         /\ \A u \in Schema!AllTables \ {t} : e.rows[u] = d.rows[u] /\ e.checkpoint[u] = d.checkpoint[u]
    BY <1>2, <1>7, <1>9, <1>10
  <1>12. ASSUME NEW u, NEW v, NEW k, Left(e, u, v, k) PROVE Left(d, u, v, k)
    <2>1. CASE u = t
      BY <1>2, <1>5, <1>6, <1>11, <1>12, <2>1 DEF Left
    <2>2. CASE u # t
      BY <1>11, <1>12, <2>2 DEF Left
    <2> QED
      BY <2>1, <2>2
  <1>13. Left(d, t, d.header[t] + 1, m) /\ ~Left(e, t, d.header[t] + 1, m)
    BY <1>3, <1>4, <1>6, <1>11 DEF Left
  <1> QED
    BY <1>12, <1>13, LessIsLeft, Zenon

LEMMA StepIsNearer ==
    ASSUME MigrationInd, Schema!StepSession, session' = "lease"
    PROVE  /\ Schema!Distance(disk') # Schema!Distance(disk)
           /\ Schema!Distance(disk') \subseteq Schema!Distance(disk)
  <1> DEFINE res == Schema!migrate_sync_schema_batch(disk, options)
  <1>1. DiskFits(disk) /\ options \in Options
    BY DEF MigrationInd, Schema!StepSession
  <1>2. \/ res.disk = disk /\ res.progress \in Refusals \cup {"Complete"}
        \/ \E t \in Schema!AllTables :
              /\ disk.header[t] # Schema!current_version(t)
              /\ \/ res.progress = "TableCompleted" /\ Completed(disk, t, res.disk)
                 \/ res.progress = "BatchValidated" /\ \E page : Advanced(disk, t, page, res.disk)
    BY <1>1, BatchOutcome
  <1>3. /\ Schema!Flush(res.disk) \/ Schema!Write(res.disk)
        /\ res.progress \notin {"BatchValidated", "TableCompleted"} => session' = "closed"
    BY Zenon DEF Schema!StepSession
  <1>4. disk' = res.disk
    BY <1>3, Zenon DEF Schema!Flush, Schema!Write
  <1> HIDE DEF res
  <1>5. res.progress \in {"BatchValidated", "TableCompleted"}
    BY <1>3
  <1>6. PICK t \in Schema!AllTables :
           /\ disk.header[t] # Schema!current_version(t)
           /\ Completed(disk, t, res.disk) \/ \E page : Advanced(disk, t, page, res.disk)
    BY <1>2, <1>5 DEF Refusals
  <1>7. /\ Schema!Distance(res.disk) # Schema!Distance(disk)
        /\ Schema!Distance(res.disk) \subseteq Schema!Distance(disk)
    BY <1>1, <1>6, CompletedIsNearer, AdvancedIsNearer, Zenon
  <1> QED
    BY <1>4, <1>7, Zenon

(* A session comes to its end: every batch that keeps the lease brings the *)
(* store nearer to Complete, in the records that are ahead of the cursor   *)
(* and the versions still to be reached, so that the loop of               *)
(* migrate_sync_schema (migration.rs:341) cannot go on forever, for every  *)
(* number of tables, records, versions and batch limits.                   *)
THEOREM SessionsAdvance == Spec => EveryBatchAdvances
  <1> DEFINE Inv == /\ kind = "migration" => MigrationInd
                    /\ kind # "migration" => session = "closed"
             Advances == Schema!StepSession /\ session' = "lease" =>
                            Schema!Distance(disk') # Schema!Distance(disk)
                            /\ Schema!Distance(disk') \subseteq Schema!Distance(disk)
  <1>1. Init => Inv
    BY MigrationInitFits DEF Init, NoMigration
  <1>2. Inv /\ [Next]_allVars => Inv'
    <2> SUFFICES ASSUME Inv, [Next]_allVars PROVE Inv'
      OBVIOUS
    <2>1. CASE kind = "migration" /\ Next
      <3>1. kind' = "migration" /\ Schema!MigrationNext
        BY <2>1 DEF Next
      <3> QED
        BY <2>1, <3>1, MigrationStep
    <2>2. CASE kind # "migration" /\ Next
      <3>1. kind' = kind /\ session' = session
        BY <2>2 DEF Next, ofNode, ofMigration
      <3> QED
        BY <2>2, <3>1
    <2>3. CASE UNCHANGED allVars
      <3>1. /\ kind' = kind /\ disk' = disk /\ recoverable' = recoverable /\ session' = session
            /\ options' = options /\ outcome' = outcome
        BY <2>3 DEF allVars, ofNode, ofMigration
      <3> QED
        BY <3>1 DEF MigrationInd, Schema!OwnCheckpointsAreAccepted, DiskFits, TableFits
    <2> QED
      BY <2>1, <2>2, <2>3
  <1>3. Inv => Advances
    <2> SUFFICES ASSUME Inv, Schema!StepSession, session' = "lease"
                 PROVE  /\ Schema!Distance(disk') # Schema!Distance(disk)
                        /\ Schema!Distance(disk') \subseteq Schema!Distance(disk)
      OBVIOUS
    <2>1. MigrationInd
      BY DEF Schema!StepSession
    <2> QED
      BY <2>1, StepIsNearer
  <1>4. Inv => [Advances]_(Schema!migrationVars)
    BY <1>3
  <1> HIDE DEF Inv
  <1>5. Spec => []Inv
    BY <1>1, <1>2, PTL DEF Spec
  <1>6. []Inv => [][Advances]_(Schema!migrationVars)
    <2> HIDE DEF Advances
    <2> QED
      BY <1>4, PTL
  <1> QED
    BY <1>5, <1>6 DEF EveryBatchAdvances, Schema!EveryBatchAdvances

-----------------------------------------------------------------------------
(* The walks.                                                              *)

LEMMA PagesSize ==
    ASSUME NEW S
    PROVE  Pages!Cardinality(S) = Cardinality(S)
  BY DEF Pages!Cardinality, Cardinality

\* The number of smaller elements tells the elements of a set apart.
LEMMA RankFacts ==
    ASSUME NEW S \in SUBSET Nat, IsFiniteSet(S)
    PROVE  /\ Cardinality(S) \in Nat
           /\ \A k \in S : Cardinality({j \in S : j < k}) \in 0 .. Cardinality(S) - 1
           /\ \A k, l \in S : k < l => Cardinality({j \in S : j < k}) < Cardinality({j \in S : j < l})
           /\ \A i \in 1 .. Cardinality(S) : \E k \in S : Cardinality({j \in S : j < k}) = i - 1
  <1> DEFINE below(k) == {j \in S : j < k}
             rank == [k \in S |-> Cardinality(below(k)) + 1]
             n == Cardinality(S)
  <1>1. n \in Nat
    BY FS_CardinalityType
  <1>2. \A k : below(k) \in SUBSET S /\ IsFiniteSet(below(k)) /\ Cardinality(below(k)) \in Nat
    <2> SUFFICES ASSUME NEW k PROVE below(k) \in SUBSET S /\ IsFiniteSet(below(k)) /\ Cardinality(below(k)) \in Nat
      BY Zenon
    <2>1. below(k) \in SUBSET S
      BY Zenon
    <2> HIDE DEF below
    <2> QED
      BY <2>1, FS_Subset, FS_CardinalityType
  <1>3. ASSUME NEW k \in S PROVE Cardinality(below(k)) < n
    <2>1. k \notin below(k)
      <3>1. ~(k < k)
        OBVIOUS
      <3> QED
        BY <3>1, Zenon
    <2> HIDE DEF below
    <2>2. below(k) # S
      BY <2>1
    <2> QED
      BY <1>1, <1>2, <2>2, FS_Subset
  <1>4. ASSUME NEW k \in S, NEW l \in S, k < l PROVE Cardinality(below(k)) < Cardinality(below(l))
    <2>1. k \notin below(k) /\ k \in below(l)
      <3>1. ~(k < k)
        OBVIOUS
      <3> QED
        BY <1>4, <3>1, Zenon
    <2>2. below(k) \in SUBSET below(l)
      <3>1. \A j \in S : j < k => j < l
        BY <1>4
      <3> QED
        BY <3>1, Zenon
    <2> HIDE DEF below
    <2>3. below(k) # below(l)
      BY <2>1
    <2>4. Cardinality(below(k)) <= Cardinality(below(l)) /\ Cardinality(below(k)) # Cardinality(below(l))
      BY <1>2, <2>2, <2>3, FS_Subset
    <2> QED
      BY <1>2, <2>4
  <1> HIDE DEF below
  <1>5. rank \in Injection(S, 1 .. n)
    <2>1. \A k \in S : rank[k] = Cardinality(below(k)) + 1 /\ rank[k] \in 1 .. n
      BY <1>1, <1>2, <1>3
    <2>2. rank \in [S -> 1 .. n]
      BY <2>1
    <2>3. ASSUME NEW k \in S, NEW l \in S, rank[k] = rank[l] PROVE k = l
      <3>1. Cardinality(below(k)) = Cardinality(below(l))
        BY <1>2, <2>1, <2>3
      <3>2. ~(k < l) /\ ~(l < k)
        BY <1>2, <1>4, <3>1
      <3> QED
        BY <3>2
    <2> HIDE DEF rank
    <2> QED
      BY <2>2, <2>3, Zenon DEF Injection, IsInjective
  <1>6. IsFiniteSet(1 .. n) /\ Cardinality(1 .. n) = n
    BY <1>1, FS_Interval
  <1>7. rank \in Surjection(S, 1 .. n)
    <2> HIDE DEF rank
    <2> QED
      BY <1>5, <1>6, FS_Injection
  <1>8. ASSUME NEW i \in 1 .. n PROVE \E k \in S : Cardinality(below(k)) = i - 1
    <2>1. PICK k \in S : rank[k] = i
      BY <1>7, Zenon DEF Surjection
    <2> QED
      BY <1>1, <1>2, <2>1
  <1>9. \A k \in S : Cardinality(below(k)) \in 0 .. n - 1
    BY <1>1, <1>2, <1>3
  <1> QED
    BY <1>1, <1>4, <1>8, <1>9 DEF below

\* Ordered enumerates a set.
LEMMA OrderedFacts ==
    ASSUME NEW S \in SUBSET Nat, IsFiniteSet(S)
    PROVE  LET e == Pages!Ordered(S)
           IN /\ e \in Seq(S) /\ Len(e) = Cardinality(S) /\ Len(e) \in Nat
              /\ \A i \in 1 .. Len(e) : e[i] \in S /\ Cardinality({j \in S : j < e[i]}) = i - 1
              /\ \A k \in S : \E i \in 1 .. Len(e) : e[i] = k
              /\ \A i, j \in 1 .. Len(e) : i < j => e[i] < e[j]
  <1> DEFINE rank(k) == Cardinality({j \in S : j < k})
             n == Cardinality(S)
             e == Pages!Ordered(S)
  <1>1. e = [i \in 1 .. n |-> CHOOSE k \in S : rank(k) = i - 1]
    BY Zenon DEF Pages!Ordered, Pages!Cardinality, Cardinality
  <1>2. /\ n \in Nat
        /\ \A k \in S : rank(k) \in 0 .. n - 1
        /\ \A k, l \in S : k < l => rank(k) < rank(l)
        /\ \A i \in 1 .. n : \E k \in S : rank(k) = i - 1
    BY RankFacts
  <1> HIDE DEF rank, n, e
  <1>3. \A i \in 1 .. n : e[i] \in S /\ rank(e[i]) = i - 1
    BY <1>1, <1>2
  <1>4. e \in Seq(S) /\ Len(e) = n
    <2>1. e \in [1 .. n -> S]
      BY <1>1, <1>3
    <2> QED
      BY <1>2, <2>1
  <1>5. ASSUME NEW k \in S PROVE \E i \in 1 .. n : e[i] = k
    <2>1. rank(k) + 1 \in 1 .. n
      BY <1>2
    <2>2. e[rank(k) + 1] \in S /\ rank(e[rank(k) + 1]) = rank(k)
      BY <1>2, <1>3, <2>1
    <2>3. e[rank(k) + 1] = k
      <3> DEFINE x == e[rank(k) + 1]
      <3>1. x \in S /\ rank(x) = rank(k) /\ rank(k) \in Nat
        BY <1>2, <2>2
      <3> HIDE DEF x
      <3>2. ~(x < k) /\ ~(k < x)
        BY <1>2, <3>1
      <3>3. x = k
        BY <3>1, <3>2
      <3> QED
        BY <3>3 DEF x
    <2> QED
      BY <2>1, <2>3
  <1>6. ASSUME NEW i \in 1 .. n, NEW j \in 1 .. n, i < j PROVE e[i] < e[j]
    <2>1. PICK x \in S : x = e[i] /\ rank(x) = i - 1
      BY <1>3
    <2>2. PICK y \in S : y = e[j] /\ rank(y) = j - 1
      BY <1>3
    <2>3. rank(x) < rank(y) /\ rank(x) \in Int /\ rank(y) \in Int
      BY <1>2, <1>6, <2>1, <2>2
    <2>4. ~(y < x)
      BY <1>2, <2>3
    <2>5. x # y
      BY <2>3
    <2> QED
      BY <2>1, <2>2, <2>4, <2>5
  <1> QED
    BY <1>2, <1>3, <1>4, <1>5, <1>6 DEF e, n, rank

\* A page is the beginning of the enumeration.
LEMMA PageFacts ==
    ASSUME NEW S \in SUBSET Nat, IsFiniteSet(S), NEW l \in Nat
    PROVE  LET q == Pages!Page(S, l)
               e == Pages!Ordered(S)
           IN /\ q \in Seq(S) /\ Len(q) \in Nat
              /\ Len(q) = IF l <= Len(e) THEN l ELSE Len(e)
              /\ \A i \in 1 .. Len(q) : q[i] = e[i]
  <1> DEFINE rank(k) == Cardinality({j \in S : j < k})
             P == {k \in S : rank(k) < l}
             e == Pages!Ordered(S)
             q == Pages!Page(S, l)
             n == Len(e)
             m == IF l <= n THEN l ELSE n
  <1>1. q = Pages!Ordered(P)
    BY Zenon DEF Pages!Page, Pages!Cardinality, Cardinality
  <1>2. /\ e \in Seq(S) /\ n = Cardinality(S) /\ n \in Nat
        /\ \A i \in 1 .. n : e[i] \in S /\ rank(e[i]) = i - 1
        /\ \A k \in S : \E i \in 1 .. n : e[i] = k
        /\ \A i, j \in 1 .. n : i < j => e[i] < e[j]
    BY OrderedFacts
  <1>3. /\ \A k \in S : rank(k) \in Nat
        /\ \A k, x \in S : k < x => rank(k) < rank(x)
    BY RankFacts
  <1>4. P \in SUBSET S /\ P \in SUBSET Nat /\ IsFiniteSet(P) /\ \A k \in S : k \in P <=> rank(k) < l
    <2>1. P \in SUBSET S /\ \A k \in S : k \in P <=> rank(k) < l
      BY Zenon
    <2> HIDE DEF P
    <2> QED
      BY <2>1, FS_Subset
  <1>5. ASSUME NEW k \in P PROVE Cardinality({j \in P : j < k}) = rank(k)
    <2>1. \A j \in S : j < k => j \in P
      <3> SUFFICES ASSUME NEW j \in S, j < k PROVE j \in P
        BY Zenon
      <3>1. k \in S /\ rank(k) < l /\ rank(j) < rank(k) /\ rank(j) \in Nat /\ rank(k) \in Nat
        <4> HIDE DEF rank, P
        <4> QED BY <1>3, <1>4
      <3> HIDE DEF rank, P
      <3> QED
        BY <1>4, <3>1
    <2>2. {j \in P : j < k} = {j \in S : j < k}
      <3> HIDE DEF P
      <3> QED
        BY <1>4, <2>1, Zenon
    <2> QED
      BY <2>2, Zenon
  <1> HIDE DEF rank, P, e, q
  <1>6. m \in Nat /\ m <= n /\ m <= l
    BY <1>2
  <1> HIDE DEF m, n
  <1>7. Cardinality(P) = m
    <2> DEFINE f == [i \in 1 .. m |-> e[i]]
    <2>1. \A i \in 1 .. m : f[i] = e[i] /\ e[i] \in S /\ rank(e[i]) = i - 1 /\ e[i] \in P
      <3> SUFFICES ASSUME NEW i \in 1 .. m
                   PROVE  f[i] = e[i] /\ e[i] \in S /\ rank(e[i]) = i - 1 /\ e[i] \in P
        BY Zenon
      <3>1. i \in 1 .. n /\ i - 1 < l
        BY <1>2, <1>6
      <3>2. e[i] \in S /\ rank(e[i]) = i - 1
        BY <1>2, <3>1
      <3>3. rank(e[i]) < l
        BY <3>1, <3>2
      <3>4. e[i] \in P
        BY <1>4, <3>2, <3>3
      <3>5. f[i] = e[i]
        OBVIOUS
      <3> QED
        BY <3>2, <3>4, <3>5
    <2>2. f \in [1 .. m -> P]
      BY <2>1
    <2>3. \A i, j \in 1 .. m : f[i] = f[j] => i = j
      <3> SUFFICES ASSUME NEW i \in 1 .. m, NEW j \in 1 .. m, f[i] = f[j] PROVE i = j
        OBVIOUS
      <3>1. rank(e[i]) = i - 1 /\ rank(e[j]) = j - 1 /\ e[i] = e[j]
        BY <2>1
      <3>2. i - 1 = j - 1
        BY <3>1
      <3> QED
        BY <1>6, <3>2
    <2>4. \A k \in P : \E i \in 1 .. m : f[i] = k
      <3> SUFFICES ASSUME NEW k \in P PROVE \E i \in 1 .. m : f[i] = k
        OBVIOUS
      <3>1. PICK i \in 1 .. n : e[i] = k
        BY <1>2, <1>4
      <3>2. rank(k) = i - 1 /\ rank(k) < l
        BY <1>2, <1>4, <3>1
      <3>3. i \in 1 .. m
        BY <1>2, <1>6, <3>2 DEF m
      <3> QED
        BY <2>1, <3>1, <3>3
    <2> HIDE DEF f
    <2>5. f \in Bijection(1 .. m, P)
      BY <2>2, <2>3, <2>4, Zenon DEF Bijection, Injection, Surjection, IsInjective
    <2>6. ExistsBijection(1 .. m, P)
      BY <2>5, Zenon DEF ExistsBijection
    <2> QED
      BY <1>6, <2>6, FS_CountingElements
  <1>8. /\ q \in Seq(P) /\ Len(q) = m
        /\ \A i \in 1 .. m : q[i] \in P /\ Cardinality({j \in P : j < q[i]}) = i - 1
    BY <1>1, <1>4, <1>7, OrderedFacts
  <1>9. ASSUME NEW i \in 1 .. m PROVE q[i] = e[i]
    <2>1. PICK x \in P : x = q[i] /\ rank(x) = i - 1
      BY <1>5, <1>8
    <2>2. PICK y \in S : y = e[i] /\ rank(y) = i - 1
      <3>1. i \in 1 .. n
        BY <1>2, <1>6
      <3> QED
        BY <1>2, <3>1
    <2>3. x \in S /\ x \in Nat /\ y \in Nat /\ rank(x) = rank(y) /\ rank(x) \in Nat
      BY <1>3, <1>4, <2>1, <2>2
    <2>4. ~(x < y) /\ ~(y < x)
      BY <1>3, <2>3
    <2> QED
      BY <2>1, <2>2, <2>3, <2>4
  <1>10. q \in Seq(S)
    <2>1. q \in [1 .. m -> P]
      BY <1>8
    <2>2. q \in [1 .. m -> S]
      BY <1>4, <2>1
    <2> QED
      BY <1>6, <2>2
  <1>11. m = IF l <= Len(e) THEN l ELSE Len(e)
    BY DEF m, n
  <1> QED
    BY <1>6, <1>8, <1>9, <1>10, <1>11 DEF e, q

Increasing(s) == \A i, j \in 1 .. Len(s) : i < j => s[i] < s[j]

Holds(s, k) == \E i \in 1 .. Len(s) : s[i] = k

\* The first elements of a set in order.
Beginning(s, S) ==
    /\ s \in Seq(S) /\ Len(s) \in Nat
    /\ Increasing(s)
    /\ \A k \in S : \A i \in 1 .. Len(s) : k <= s[i] => Holds(s, k)

\* A page and the cursor to go on from.
PageOf(r, S) ==
    /\ Beginning(r.items, S)
    /\ IF r.next_cursor = 0 THEN \A k \in S : Holds(r.items, k)
       ELSE Len(r.items) > 0 /\ r.next_cursor = r.items[Len(r.items)]

\* The first l elements, as a scan returns them.
RowsOf(s, S, l) ==
    /\ s \in Seq(S) /\ Len(s) \in Nat
    /\ Len(s) = IF l <= Cardinality(S) THEN l ELSE Cardinality(S)
    /\ \A i \in 1 .. Len(s) : s[i] = Pages!Ordered(S)[i]

\* The beginning of a sequence.
LEMMA CutFacts ==
    ASSUME NEW S, NEW s \in Seq(S), NEW n \in Nat, n <= Len(s)
    PROVE  LET c == SubSeq(s, 1, n)
           IN c \in Seq(S) /\ Len(c) = n /\ \A i \in 1 .. n : c[i] = s[i]
  <1>1. SubSeq(s, 1, n) = [i \in 1 .. n |-> s[i]]
    OBVIOUS
  <1> QED
    BY <1>1

\* What a scan returns, cut anywhere, is a beginning.
LEMMA BeginningOfRows ==
    ASSUME NEW S \in SUBSET Nat, IsFiniteSet(S), NEW l \in Nat, NEW s, RowsOf(s, S, l),
           NEW n \in Nat, n <= Len(s)
    PROVE  Beginning(SubSeq(s, 1, n), S)
  <1> DEFINE e == Pages!Ordered(S)
             c == SubSeq(s, 1, n)
  <1>1. /\ e \in Seq(S) /\ Len(e) = Cardinality(S) /\ Len(e) \in Nat
        /\ \A i \in 1 .. Len(e) : e[i] \in S
        /\ \A k \in S : \E i \in 1 .. Len(e) : e[i] = k
        /\ \A i, j \in 1 .. Len(e) : i < j => e[i] < e[j]
    BY OrderedFacts
  <1>2. /\ s \in Seq(S) /\ Len(s) \in Nat /\ Len(s) <= Len(e)
        /\ \A i \in 1 .. Len(s) : s[i] = e[i]
    BY <1>1 DEF RowsOf
  <1>3. c \in Seq(S) /\ Len(c) = n /\ \A i \in 1 .. n : c[i] = s[i]
    BY <1>2, CutFacts
  <1> HIDE DEF e, c
  <1>4. \A i \in 1 .. n : i \in 1 .. Len(e) /\ c[i] = e[i]
    BY <1>1, <1>2, <1>3
  <1>5. ASSUME NEW i \in 1 .. n, NEW j \in 1 .. n, i < j PROVE c[i] < c[j]
    <2>1. i \in 1 .. Len(e) /\ j \in 1 .. Len(e) /\ c[i] = e[i] /\ c[j] = e[j]
      BY <1>4
    <2>2. e[i] < e[j]
      BY <1>1, <1>5, <2>1
    <2> QED
      BY <2>1, <2>2
  <1>6. ASSUME NEW k \in S, NEW i \in 1 .. n, k <= c[i] PROVE \E j \in 1 .. n : c[j] = k
    <2>1. PICK j \in 1 .. Len(e) : e[j] = k
      BY <1>1
    <2>2. i \in 1 .. Len(e) /\ c[i] = e[i] /\ e[i] \in Nat /\ k \in Nat
      BY <1>1, <1>4
    <2>3. ~(i < j)
      <3>1. i < j => e[i] < e[j]
        BY <1>1, <2>1, <2>2
      <3>2. e[j] <= e[i]
        BY <1>6, <2>1, <2>2
      <3> QED
        BY <2>1, <2>2, <3>1, <3>2
    <2>4. j \in 1 .. n
      BY <2>1, <2>2, <2>3
    <2> QED
      BY <1>4, <2>1, <2>4
  <1> QED
    BY <1>3, <1>5, <1>6 DEF c, Beginning, Increasing, Holds

\* A scan that returns less than it may returns everything.
LEMMA AllRows ==
    ASSUME NEW S \in SUBSET Nat, IsFiniteSet(S), NEW l \in Nat, NEW s, RowsOf(s, S, l), Len(s) < l
    PROVE  \A k \in S : Holds(s, k)
  <1> DEFINE e == Pages!Ordered(S)
  <1>1. /\ Len(e) = Cardinality(S) /\ Len(e) \in Nat
        /\ \A k \in S : \E i \in 1 .. Len(e) : e[i] = k
    BY OrderedFacts
  <1> HIDE DEF e
  <1>2. Len(s) = Len(e) /\ \A i \in 1 .. Len(s) : s[i] = e[i]
    BY <1>1 DEF RowsOf, e
  <1> QED
    BY <1>1, <1>2 DEF Holds

\* Scans of the store return the first elements (store.rs), and so does the list of peers.
LEMMA ScanIsRows ==
    ASSUME NEW S \in SUBSET Nat, IsFiniteSet(S), NEW l \in Nat
    PROVE  RowsOf(Pages!Page(S, l), S, l)
  <1>1. Len(Pages!Ordered(S)) = Cardinality(S)
    BY OrderedFacts
  <1> QED
    BY <1>1, PageFacts DEF RowsOf

\* The smaller of two.
LEMMA LessOf ==
    ASSUME NEW a \in Nat, NEW b \in Nat
    PROVE  Pages!Min({a, b}) = IF a <= b THEN a ELSE b
  <1>1. \E x \in {a, b} : \A y \in {a, b} : x <= y
    OBVIOUS
  <1>2. Pages!Min({a, b}) \in {a, b} /\ \A y \in {a, b} : Pages!Min({a, b}) <= y
    BY <1>1 DEF Pages!Min
  <1> QED
    BY <1>2

LEMMA FirstIsRows ==
    ASSUME NEW S \in SUBSET Nat, IsFiniteSet(S), NEW l \in Nat
    PROVE  RowsOf(Pages!FirstOf(Pages!Ordered(S), l), S, l)
  <1> DEFINE e == Pages!Ordered(S)
             n == IF l <= Len(e) THEN l ELSE Len(e)
  <1>1. e \in Seq(S) /\ Len(e) = Cardinality(S) /\ Len(e) \in Nat
    BY OrderedFacts
  <1> HIDE DEF e
  <1>2. Pages!FirstOf(e, l) = SubSeq(e, 1, n)
    BY <1>1, LessOf DEF Pages!FirstOf
  <1>3. n \in Nat /\ n <= Len(e) /\ n = IF l <= Cardinality(S) THEN l ELSE Cardinality(S)
    BY <1>1
  <1> HIDE DEF n
  <1>4. LET c == SubSeq(e, 1, n)
        IN c \in Seq(S) /\ Len(c) = n /\ \A i \in 1 .. n : c[i] = e[i]
    BY <1>1, <1>3, CutFacts
  <1> QED
    BY <1>2, <1>3, <1>4 DEF RowsOf, e

\* One row more than asked for tells whether there are more.
LEMMA ControlPageFacts ==
    ASSUME NEW S \in SUBSET Nat, IsFiniteSet(S), 0 \notin S, NEW l \in Nat, l > 0, NEW s, RowsOf(s, S, l + 1)
    PROVE  PageOf(Pages!ControlPage(s, l), S)
  <1> DEFINE n == IF l <= Len(s) THEN l ELSE Len(s)
             c == SubSeq(s, 1, n)
             r == Pages!ControlPage(s, l)
  <1>1. s \in Seq(S) /\ Len(s) \in Nat
    BY DEF RowsOf
  <1>2. r.items = c /\ r.next_cursor = IF Len(s) > l THEN s[l] ELSE 0
    BY <1>1, LessOf DEF Pages!ControlPage, Pages!FirstOf, Pages!NoCursor
  <1>3. n \in Nat /\ n <= Len(s)
    BY <1>1
  <1> HIDE DEF c, r
  <1>4. c \in Seq(S) /\ Len(c) = n /\ \A i \in 1 .. n : c[i] = s[i]
    BY <1>1, <1>3, CutFacts DEF c
  <1>5. Beginning(c, S)
    BY <1>3, BeginningOfRows DEF c
  <1>6. CASE Len(s) > l
    <2>1. n = l /\ l \in 1 .. Len(s)
      BY <1>1, <1>6
    <2>2. s[l] \in S /\ s[l] # 0 /\ c[l] = s[l]
      BY <1>1, <1>4, <2>1
    <2> QED
      BY <1>2, <1>4, <1>5, <1>6, <2>1, <2>2 DEF PageOf, r
  <1>7. CASE ~(Len(s) > l)
    <2>1. n = Len(s) /\ Len(s) < l + 1
      BY <1>1, <1>7
    <2>2. \A k \in S : Holds(s, k)
      BY <2>1, AllRows
    <2>3. \A k \in S : Holds(c, k)
      BY <1>4, <2>1, <2>2 DEF Holds
    <2> QED
      BY <1>2, <1>5, <1>7, <2>3 DEF PageOf, r
  <1> QED
    BY <1>6, <1>7

\* A page cut to the response limit still names its own last item as the cursor.
LEMMA ShortenedFacts ==
    ASSUME NEW S \in SUBSET Nat, NEW r, PageOf(r, S), NEW n \in 1 .. Len(r.items), 0 \notin S
    PROVE  PageOf(Pages!Shortened(r, n), S)
  <1> DEFINE s == r.items
             c == SubSeq(s, 1, n)
             t == Pages!Shortened(r, n)
  <1>1. s \in Seq(S) /\ Len(s) \in Nat /\ n \in Nat /\ n <= Len(s)
    BY DEF PageOf, Beginning
  <1>2. t.items = c /\ t.next_cursor = IF n = Len(s) THEN r.next_cursor ELSE s[n]
    BY DEF Pages!Shortened
  <1>3. /\ Increasing(s)
        /\ \A k \in S : \A i \in 1 .. Len(s) : k <= s[i] => Holds(s, k)
        /\ IF r.next_cursor = 0 THEN \A k \in S : Holds(s, k)
           ELSE Len(s) > 0 /\ r.next_cursor = s[Len(s)]
    BY DEF PageOf, Beginning
  <1> HIDE DEF s, t, c
  <1>4. c \in Seq(S) /\ Len(c) = n /\ \A i \in 1 .. n : c[i] = s[i]
    BY <1>1, CutFacts DEF c
  <1>5. Increasing(c)
    BY <1>1, <1>3, <1>4 DEF Increasing
  <1>6. ASSUME NEW k \in S, NEW i \in 1 .. Len(c), k <= c[i] PROVE Holds(c, k)
    <2>1. i \in 1 .. n /\ i \in 1 .. Len(s) /\ c[i] = s[i] /\ s[i] \in S
      BY <1>1, <1>4
    <2>2. Holds(s, k)
      BY <1>3, <1>6, <2>1
    <2>3. PICK j \in 1 .. Len(s) : s[j] = k
      BY <2>2 DEF Holds
    <2>4. ~(i < j)
      <3>1. i < j => s[i] < s[j]
        BY <1>3, <2>1, <2>3 DEF Increasing
      <3>2. s[i] \in Nat /\ k \in Nat /\ k <= s[i] /\ k = s[j]
        BY <1>6, <2>1, <2>3
      <3>3. i \in Nat /\ j \in Nat /\ ~(s[i] < k)
        BY <2>1, <2>3, <3>2
      <3> QED
        BY <3>1, <3>2, <3>3
    <2>5. j \in 1 .. n
      BY <1>1, <2>1, <2>3, <2>4
    <2> QED
      BY <1>4, <2>3, <2>5 DEF Holds
  <1>7. Beginning(c, S)
    BY <1>1, <1>4, <1>5, <1>6 DEF Beginning
  <1>8. CASE n = Len(s)
    <2>1. \A k : Holds(s, k) => Holds(c, k)
      BY <1>4, <1>8 DEF Holds
    <2> QED
      BY <1>1, <1>2, <1>3, <1>4, <1>7, <1>8, <2>1 DEF PageOf, t
  <1>9. CASE n # Len(s)
    <2>1. s[n] \in S /\ s[n] # 0 /\ c[n] = s[n]
      BY <1>1, <1>4
    <2> QED
      BY <1>1, <1>2, <1>4, <1>7, <1>9, <2>1 DEF PageOf, t
  <1> QED
    BY <1>8, <1>9

\* Every response is a page, and there is none only where the first item is too large.
LEMMA BoundedPageFacts ==
    ASSUME NEW S \in SUBSET Keys, NEW r, PageOf(r, S)
    PROVE  /\ \A t \in Pages!bounded_page(r) : PageOf(t, S)
           /\ Pages!bounded_page(r) = {} => \E k \in S : SizeOf[k] * 2 > MaxBody
  <1> DEFINE s == r.items
             fitting == {n \in 1 .. Len(s) : Pages!Fits(Pages!Shortened(r, n))}
             longest == {m \in fitting : \A x \in fitting : x <= m}
  <1>1. S \in SUBSET Nat /\ 0 \notin S
    BY WalkAssumption
  <1>2. s \in Seq(S) /\ Len(s) \in Nat
    BY DEF PageOf, Beginning
  <1>3. Pages!bounded_page(r) = IF s = <<>> THEN {r} ELSE {Pages!Shortened(r, n) : n \in longest}
    BY Zenon DEF Pages!bounded_page
  <1>4. longest \in SUBSET (1 .. Len(s)) /\ fitting \in SUBSET (1 .. Len(s))
    BY Zenon
  <1>5. ASSUME s # <<>>, longest = {} PROVE \E k \in S : SizeOf[k] * 2 > MaxBody
    <2>1. fitting = {}
      <3> SUFFICES ASSUME fitting # {} PROVE FALSE
        OBVIOUS
      <3>1. fitting \in SUBSET Nat /\ IsFiniteSet(fitting)
        <4> HIDE DEF fitting, s
        <4> QED
          <5>1. IsFiniteSet(1 .. Len(s)) /\ 1 .. Len(s) \subseteq Nat
            BY <1>2, FS_Interval
          <5> QED
            BY <1>4, <5>1, FS_Subset
      <3>2. \E m \in fitting : \A x \in fitting : m >= x
        <4> HIDE DEF fitting
        <4> QED
          BY <3>1, GreatestOf
      <3>3. PICK m \in fitting : \A x \in fitting : x <= m
        <4> HIDE DEF fitting
        <4> QED
          BY <3>1, <3>2
      <3>4. m \in longest
        <4> HIDE DEF fitting
        <4> QED
          BY <3>3
      <3> QED
        BY <1>5, <3>4
    <2>2. 1 \in 1 .. Len(s) /\ s[1] \in S
      BY <1>2, <1>5
    <2>3. ~Pages!Fits(Pages!Shortened(r, 1))
      BY <2>1, <2>2
    <2> DEFINE t == Pages!Shortened(r, 1)
               k == s[1]
    <2>4. t.items = SubSeq(s, 1, 1) /\ t.next_cursor = IF 1 = Len(s) THEN r.next_cursor ELSE s[1]
      BY DEF Pages!Shortened
    <2>5. r.next_cursor # 0 => r.next_cursor = s[Len(s)]
      BY DEF PageOf
    <2> HIDE DEF t, s
    <2>6. t.next_cursor \in {0, k}
      BY <2>4, <2>5
    <2>7. DOMAIN t.items = {1} /\ t.items[1] = k
      BY <1>2, <2>2, <2>4
    <2>8. Pages!ToSet(t.items) = {k}
      BY <2>7, Zenon DEF Pages!ToSet
    <2>9. SizeOf[k] \in Nat /\ MaxBody \in Nat /\ k \in S
      BY <2>2, WalkAssumption
    <2>10. Pages!Size(t.items) = SizeOf[k]
      <3>1. Pages!Total(SizeOf, {k}) = Schema!Total(SizeOf, {k})
        BY PagesSize, SchemaSize, Zenon DEF Pages!Total, Schema!Total
      <3> HIDE DEF k
      <3> QED
        BY <2>8, <2>9, <3>1, TotalOfOne DEF Pages!Size
    <2>11. Pages!SizeOfCursor(t.next_cursor) \in {0, SizeOf[k]}
      BY <2>6, Zenon DEF Pages!SizeOfCursor, Pages!NoCursor
    <2>12. SizeOf[k] + Pages!SizeOfCursor(t.next_cursor) > MaxBody
      <3>1. ~(SizeOf[k] + Pages!SizeOfCursor(t.next_cursor) <= MaxBody)
        BY <2>3, <2>10, Zenon DEF Pages!Fits, t
      <3> QED
        BY <2>9, <2>11, <3>1
    <2>13. SizeOf[k] * 2 > MaxBody
      <3> HIDE DEF k
      <3> QED
      BY <2>9, <2>11, <2>12
    <2> QED
      BY <2>9, <2>13
  <1> HIDE DEF longest, fitting
  <1>6. \A n \in longest : PageOf(Pages!Shortened(r, n), S)
    BY <1>1, <1>4, ShortenedFacts
  <1> HIDE DEF s
  <1> QED
    BY <1>3, <1>5, <1>6

\* What a walk by cursor knows.
CursorFits ==
    /\ Increasing(client.out)
    /\ client.status = "walking" =>
          /\ \A i \in 1 .. Len(client.out) : client.out[i] <= client.cursor
          /\ \A k \in stable \intersect Pages!Shown(client.mode) : k <= client.cursor => Holds(client.out, k)
          /\ client.mode \in Pages!GuestModes => Pages!read_scan_cursor(client.cursor) = client.cursor
    /\ client.status = "done" => \A k \in stable \intersect Pages!Shown(client.mode) : Holds(client.out, k)

\* What a walk by offset knows while nothing changes.
OffsetFits ==
    LET all == Pages!Ordered(collection \intersect Pages!Shown(client.mode))
    IN /\ stable = collection
       /\ Len(client.out) <= Len(all)
       /\ \A i \in 1 .. Len(client.out) : client.out[i] = all[i]
       /\ client.status = "done" => Len(client.out) = Len(all)

WalkTypes ==
    /\ client \in [mode : Pages!ApiModes \union Pages!GuestModes, cursor : Nat, cap : Nat,
                   out : Seq(Keys), status : {"walking", "done", "failed"}]
    /\ changed \in Nat
    /\ stable \subseteq collection /\ collection \subseteq ever /\ ever \subseteq Keys

WalkInd ==
    /\ WalkTypes
    /\ \A i \in 1 .. Len(client.out) : client.out[i] \in ever \intersect Pages!Shown(client.mode)
    /\ Pages!ByCursor => CursorFits
    /\ ~Pages!ByCursor /\ changed = 0 => OffsetFits
    /\ Pages!OnlyOversizedItemsFail

\* A page of what lies ahead continues what was read.
LEMMA PagesAreAppended ==
    ASSUME NEW out \in Seq(Keys), Increasing(out), NEW cursor \in Nat,
           \A i \in 1 .. Len(out) : out[i] <= cursor,
           NEW S \in SUBSET Keys, \A k \in S : k > cursor, NEW items, Beginning(items, S)
    PROVE  LET both == out \o items
           IN /\ both \in Seq(Keys)
              /\ Increasing(both)
              /\ \A i \in 1 .. Len(both) : Holds(out, both[i]) \/ both[i] \in S
              /\ \A k : Holds(out, k) \/ Holds(items, k) => Holds(both, k)
              /\ Len(items) > 0 =>
                    /\ items[Len(items)] \in S
                    /\ \A i \in 1 .. Len(both) : both[i] <= items[Len(items)]
                    /\ \A k \in S : k <= items[Len(items)] => Holds(items, k)
  <1> DEFINE both == out \o items
             m == Len(out)
             n == Len(items)
  <1>0. S \in SUBSET Nat /\ Keys \in SUBSET Nat
    BY WalkAssumption
  <1>1. /\ items \in Seq(S) /\ n \in Nat /\ Increasing(items)
        /\ \A k \in S : \A i \in 1 .. n : k <= items[i] => Holds(items, k)
    BY DEF Beginning
  <1>2. m \in Nat /\ \A i \in 1 .. m : out[i] \in Keys /\ out[i] \in Nat /\ out[i] <= cursor
    <2>1. m \in Nat /\ \A i \in 1 .. m : out[i] \in Keys
      OBVIOUS
    <2> QED
      BY <1>0, <2>1
  <1>3. \A i \in 1 .. n : items[i] \in S /\ items[i] \in Nat /\ items[i] > cursor
    <2>1. \A i \in 1 .. n : items[i] \in S
      BY <1>1
    <2> QED
      BY <1>0, <2>1
  <1>4. /\ both \in Seq(Keys) /\ Len(both) = m + n
        /\ \A i \in 1 .. m : both[i] = out[i]
        /\ \A i \in 1 .. n : both[m + i] = items[i]
    <2>1. items \in Seq(Keys)
      <3>1. items \in [1 .. n -> Keys]
        BY <1>1
      <3> QED
        BY <1>1, <3>1
    <2> QED
      BY <1>1, <1>2, <2>1
  <1> HIDE DEF both, m, n
  <1>5. ASSUME NEW i \in 1 .. m + n
        PROVE  (i \in 1 .. m /\ both[i] = out[i]) \/ (i - m \in 1 .. n /\ both[i] = items[i - m])
    <2>1. CASE i <= m
      BY <1>1, <1>2, <1>4, <2>1
    <2>2. CASE i > m
      <3>1. i - m \in 1 .. n /\ m + (i - m) = i
        BY <1>1, <1>2, <2>2
      <3> QED
        BY <1>4, <3>1
    <2> QED
      BY <1>2, <2>1, <2>2
  <1>6. ASSUME NEW i \in 1 .. m + n, NEW j \in 1 .. m + n, i < j PROVE both[i] < both[j]
    <2>1. CASE i \in 1 .. m /\ both[i] = out[i] /\ j \in 1 .. m /\ both[j] = out[j]
      BY <1>6, <2>1 DEF Increasing, m
    <2>2. CASE i \in 1 .. m /\ both[i] = out[i] /\ j - m \in 1 .. n /\ both[j] = items[j - m]
      BY <1>2, <1>3, <2>2
    <2>3. CASE i - m \in 1 .. n /\ both[i] = items[i - m] /\ j \in 1 .. m
      BY <1>2, <1>6, <2>3
    <2>4. CASE i - m \in 1 .. n /\ both[i] = items[i - m] /\ j - m \in 1 .. n /\ both[j] = items[j - m]
      <3>1. i - m < j - m
        BY <1>1, <1>2, <1>6
      <3> QED
        BY <1>1, <2>4, <3>1 DEF Increasing, n
    <2> QED
      BY <1>5, <2>1, <2>2, <2>3, <2>4
  <1>7. ASSUME NEW i \in 1 .. m + n PROVE Holds(out, both[i]) \/ both[i] \in S
    BY <1>3, <1>5 DEF Holds, m
  <1>8. ASSUME NEW k PROVE Holds(out, k) \/ Holds(items, k) => Holds(both, k)
    <2>1. ASSUME NEW i \in 1 .. m, out[i] = k PROVE \E j \in 1 .. m + n : both[j] = k
      <3>1. i \in 1 .. m + n
        BY <1>1, <1>2
      <3> QED
        BY <1>4, <2>1, <3>1
    <2>2. ASSUME NEW i \in 1 .. n, items[i] = k PROVE \E j \in 1 .. m + n : both[j] = k
      <3>1. m + i \in 1 .. m + n
        BY <1>1, <1>2
      <3> QED
        BY <1>4, <2>2, <3>1
    <2> QED
      BY <1>4, <2>1, <2>2 DEF Holds, m, n
  <1>9. ASSUME n > 0
        PROVE  /\ items[n] \in S
               /\ \A i \in 1 .. m + n : both[i] <= items[n]
               /\ \A k \in S : k <= items[n] => Holds(items, k)
    <2>1. n \in 1 .. n /\ items[n] \in S /\ items[n] \in Nat /\ items[n] > cursor
      BY <1>1, <1>3, <1>9
    <2>2. ASSUME NEW i \in 1 .. m + n PROVE both[i] <= items[n]
      <3>1. CASE i \in 1 .. m /\ both[i] = out[i]
        BY <1>2, <2>1, <3>1
      <3>2. CASE i - m \in 1 .. n /\ both[i] = items[i - m]
        <4>1. items[i - m] \in Nat
          BY <1>3, <3>2
        <4>2. i - m < n => items[i - m] < items[n]
          BY <1>1, <2>1, <3>2 DEF Increasing, n
        <4>3. i - m < n \/ i - m = n
          BY <1>1, <3>2
        <4> QED
          BY <2>1, <3>2, <4>1, <4>2, <4>3
      <3> QED
        BY <1>5, <3>1, <3>2
    <2> QED
      BY <1>1, <2>1, <2>2
  <1> QED
    BY <1>4, <1>6, <1>7, <1>8, <1>9 DEF both, n, Increasing

\* The keys that the next page of a walk by cursor is about.
Ahead == {k \in collection \intersect Pages!Shown(client.mode) : k > client.cursor}

LEMMA AheadFacts ==
    ASSUME WalkInd
    PROVE  /\ Ahead \in SUBSET Keys /\ Ahead \in SUBSET Nat /\ IsFiniteSet(Ahead) /\ 0 \notin Ahead
           /\ \A k \in Ahead : k > client.cursor /\ k \in ever \intersect Pages!Shown(client.mode)
           /\ \A k \in stable \intersect Pages!Shown(client.mode) : k <= client.cursor \/ k \in Ahead
  <1>1. /\ stable \subseteq collection /\ collection \subseteq ever /\ ever \subseteq Keys
        /\ client.cursor \in Nat
    BY DEF WalkInd, WalkTypes
  <1>2. Ahead \in SUBSET collection
    BY Zenon DEF Ahead
  <1>3. Ahead \in SUBSET Keys /\ Ahead \in SUBSET Nat /\ IsFiniteSet(Ahead) /\ 0 \notin Ahead
    BY <1>1, <1>2, WalkAssumption, FS_Subset
  <1>4. \A k \in Ahead : k > client.cursor /\ k \in ever \intersect Pages!Shown(client.mode)
    BY <1>1, Zenon DEF Ahead
  <1>5. ASSUME NEW k \in stable \intersect Pages!Shown(client.mode) PROVE k <= client.cursor \/ k \in Ahead
    <2>1. k \in Nat /\ k \in collection \intersect Pages!Shown(client.mode)
      BY <1>1, WalkAssumption
    <2>2. k <= client.cursor \/ k > client.cursor
      BY <1>1, <2>1
    <2> QED
      BY <2>1, <2>2, Zenon DEF Ahead
  <1> QED
    BY <1>3, <1>4, <1>5

\* A page that a walk by cursor takes.
LEMMA WalkGoesOn ==
    ASSUME WalkInd, client.status = "walking", Pages!ByCursor, WalkTypes',
           NEW items, Beginning(items, Ahead),
           client'.mode = client.mode, client'.out = client.out \o items,
           client'.status \in {"walking", "done"},
           client'.status = "done" => \A k \in Ahead : Holds(items, k),
           client'.status = "walking" =>
              /\ Len(items) > 0 /\ client'.cursor = items[Len(items)]
              /\ client.mode \in Pages!GuestModes => Pages!read_scan_cursor(client'.cursor) = client'.cursor,
           UNCHANGED <<collection, stable, ever, changed>>
    PROVE  WalkInd'
  <1> DEFINE out == client.out
             shown == Pages!Shown(client.mode)
             both == out \o items
  <1>1. /\ out \in Seq(Keys) /\ client.cursor \in Nat
        /\ CursorFits
        /\ \A i \in 1 .. Len(out) : out[i] \in ever \intersect shown
    BY DEF WalkInd, WalkTypes
  <1>2. /\ Increasing(out)
        /\ \A i \in 1 .. Len(out) : out[i] <= client.cursor
        /\ \A k \in stable \intersect shown : k <= client.cursor => Holds(out, k)
    BY <1>1 DEF CursorFits
  <1>3. /\ Ahead \in SUBSET Keys
        /\ \A k \in Ahead : k > client.cursor /\ k \in ever \intersect shown
        /\ \A k \in stable \intersect shown : k <= client.cursor \/ k \in Ahead
    BY AheadFacts
  <1>4. /\ Increasing(both)
        /\ \A i \in 1 .. Len(both) : Holds(out, both[i]) \/ both[i] \in Ahead
        /\ \A k : Holds(out, k) \/ Holds(items, k) => Holds(both, k)
        /\ Len(items) > 0 =>
              /\ items[Len(items)] \in Ahead
              /\ \A i \in 1 .. Len(both) : both[i] <= items[Len(items)]
              /\ \A k \in Ahead : k <= items[Len(items)] => Holds(items, k)
    BY <1>1, <1>2, <1>3, PagesAreAppended
  <1>5. client'.out = both /\ Pages!Shown(client.mode)' = shown /\ (Pages!ByCursor)'
    BY DEF Pages!Shown, Pages!ByCursor
  <1> HIDE DEF out, shown, both
  <1>6. \A i \in 1 .. Len(both) : both[i] \in ever \intersect shown
    <2> SUFFICES ASSUME NEW i \in 1 .. Len(both) PROVE both[i] \in ever \intersect shown
      OBVIOUS
    <2>1. CASE Holds(out, both[i])
      BY <1>1, <2>1 DEF Holds, out
    <2>2. CASE both[i] \in Ahead
      BY <1>3, <2>2
    <2> QED
      BY <1>4, <2>1, <2>2
  <1>7. CASE client'.status = "done"
    <2>1. \A k \in stable \intersect shown : Holds(both, k)
      BY <1>2, <1>3, <1>4, <1>7
    <2>2. CursorFits'
      BY <1>4, <1>5, <1>7, <2>1 DEF CursorFits
    <2>3. (Pages!OnlyOversizedItemsFail)'
      BY <1>7 DEF Pages!OnlyOversizedItemsFail
    <2> QED
      BY <1>5, <1>6, <2>2, <2>3 DEF WalkInd
  <1>8. CASE client'.status = "walking"
    <2> DEFINE c == items[Len(items)]
    <2>1. /\ client'.cursor = c /\ c \in Ahead
          /\ \A i \in 1 .. Len(both) : both[i] <= c
          /\ client.mode \in Pages!GuestModes => Pages!read_scan_cursor(c) = c
      BY <1>4, <1>8
    <2>2. ASSUME NEW k \in stable \intersect shown, k <= c PROVE Holds(both, k)
      BY <1>2, <1>3, <1>4, <1>8, <2>2
    <2> HIDE DEF c
    <2>3. client'.mode \in Pages!GuestModes => Pages!read_scan_cursor(client'.cursor) = client'.cursor
      BY <2>1
    <2>4. CursorFits'
      <3>1. (client.status = "done")' = FALSE
        BY <1>8
      <3> QED
      BY <1>4, <1>5, <2>1, <2>2, <2>3, <3>1 DEF CursorFits, Pages!GuestModes, Pages!read_scan_cursor
    <2>5. (Pages!OnlyOversizedItemsFail)'
      BY <1>8 DEF Pages!OnlyOversizedItemsFail
    <2> QED
      BY <1>5, <1>6, <2>4, <2>5 DEF WalkInd
  <1> QED
    BY <1>7, <1>8

\* A walk that fails or asks again with a larger buffer.
LEMMA WalkHasNoPage ==
    ASSUME WalkInd, client.status = "walking", WalkTypes',
           client'.mode = client.mode, client'.out = client.out, client'.cursor = client.cursor,
           client'.status \in {"walking", "failed"},
           client'.status = "failed" =>
              client.mode \notin Pages!ApiModes \/ \E k \in ever : SizeOf[k] * 2 > MaxBody,
           UNCHANGED <<collection, stable, ever, changed>>
    PROVE  WalkInd'
  <1>1. Pages!Shown(client.mode)' = Pages!Shown(client.mode) /\ (Pages!ByCursor)' = Pages!ByCursor
    BY DEF Pages!Shown, Pages!ByCursor
  <1>2. (Pages!OnlyOversizedItemsFail)'
    BY DEF Pages!OnlyOversizedItemsFail, Pages!ApiModes
  <1>3. \A i \in 1 .. Len(client'.out) : client'.out[i] \in ever' \intersect Pages!Shown(client.mode)'
    BY <1>1 DEF WalkInd
  <1>4. Pages!ByCursor => CursorFits'
    <2>1. Pages!ByCursor => CursorFits
      BY DEF WalkInd
    <2>2. client'.status # "done"
      OBVIOUS
    <2> QED
      BY <1>1, <2>1, <2>2 DEF CursorFits, Pages!GuestModes, Pages!read_scan_cursor
  <1>5. ~Pages!ByCursor /\ changed = 0 => OffsetFits'
    <2>1. ~Pages!ByCursor /\ changed = 0 => OffsetFits
      BY DEF WalkInd
    <2>2. client'.status # "done"
      OBVIOUS
    <2>3. Pages!Ordered(collection \intersect Pages!Shown(client.mode))' =
             Pages!Ordered(collection \intersect Pages!Shown(client.mode))
      <3>1. (collection \intersect Pages!Shown(client.mode))' = collection \intersect Pages!Shown(client.mode)
        BY <1>1
      <3> QED
        BY <3>1 DEF Pages!Ordered, Pages!Cardinality
    <2> QED
      BY <1>1, <2>1, <2>2, <2>3 DEF OffsetFits
  <1> QED
    BY <1>1, <1>2, <1>3, <1>4, <1>5 DEF WalkInd

LEMMA ShownFacts ==
    /\ Pages!Shown("modules") = Reserved
    /\ Pages!Shown("peers") = Keys
    /\ \A mode \in {"keys"} \union Pages!GuestModes : Pages!Shown(mode) = Keys \ Reserved
  BY DEF Pages!Shown, Pages!GuestModes

\* The lists of the management API are pages of what lies ahead.
LEMMA ListedPages ==
    ASSUME WalkInd, NEW limit \in PageLimits
    PROVE  /\ client.mode = "keys" => PageOf(Pages!list_keys(client.cursor, limit), Ahead)
           /\ client.mode = "modules" => PageOf(Pages!list_modules(client.cursor, limit), Ahead)
           /\ client.mode = "peers" => PageOf(Pages!list_peers(client.cursor, limit), Ahead)
  <1>1. collection \subseteq Keys
    BY DEF WalkInd, WalkTypes
  <1>2. limit \in Nat /\ limit > 0 /\ limit + 1 \in Nat
    BY WalkAssumption
  <1>3. Ahead \in SUBSET Nat /\ IsFiniteSet(Ahead) /\ 0 \notin Ahead
    BY AheadFacts
  <1>4. ASSUME NEW s, RowsOf(s, Ahead, limit + 1) PROVE PageOf(Pages!ControlPage(s, limit), Ahead)
    BY <1>2, <1>3, <1>4, ControlPageFacts
  <1>5. RowsOf(Pages!Page(Ahead, limit + 1), Ahead, limit + 1)
    BY <1>2, <1>3, ScanIsRows
  <1>6. RowsOf(Pages!FirstOf(Pages!Ordered(Ahead), limit + 1), Ahead, limit + 1)
    BY <1>2, <1>3, FirstIsRows
  <1>7. ASSUME client.mode = "keys" PROVE PageOf(Pages!list_keys(client.cursor, limit), Ahead)
    <2>1. {k \in collection \intersect Keys : k > client.cursor} \ Reserved = Ahead
      BY <1>1, <1>7, ShownFacts, Zenon DEF Ahead
    <2>2. Pages!list_keys(client.cursor, limit) = Pages!ControlPage(Pages!Page(Ahead, limit + 1), limit)
      BY <2>1, Zenon DEF Pages!list_keys, Pages!keys_prefix_page_after
    <2> QED
      BY <1>4, <1>5, <2>2
  <1>8. ASSUME client.mode = "modules" PROVE PageOf(Pages!list_modules(client.cursor, limit), Ahead)
    <2>1. {k \in collection \intersect Reserved : k > client.cursor} \ {} = Ahead
      BY <1>1, <1>8, ShownFacts, Zenon DEF Ahead
    <2>2. Pages!list_modules(client.cursor, limit) = Pages!ControlPage(Pages!Page(Ahead, limit + 1), limit)
      BY <2>1, Zenon DEF Pages!list_modules, Pages!scan_prefix_page_after, Pages!keys_prefix_page_after
    <2> QED
      BY <1>4, <1>5, <2>2
  <1>9. ASSUME client.mode = "peers" PROVE PageOf(Pages!list_peers(client.cursor, limit), Ahead)
    <2>1. {k \in collection : k > client.cursor} = Ahead
      BY <1>1, <1>9, ShownFacts, Zenon DEF Ahead
    <2>2. Pages!list_peers(client.cursor, limit) =
             Pages!ControlPage(Pages!FirstOf(Pages!Ordered(Ahead), limit + 1), limit)
      BY <2>1, Zenon DEF Pages!list_peers
    <2> QED
      BY <1>4, <1>6, <2>2
  <1> QED
    BY <1>7, <1>8, <1>9

\* A response of the API.
LEMMA ResponseIsTaken ==
    ASSUME WalkInd, NEW mode \in Pages!ApiModes, NEW responses, Pages!Get(mode, responses),
           \A r \in responses : PageOf(r, Ahead),
           responses = {} => \E k \in Ahead : SizeOf[k] * 2 > MaxBody
    PROVE  WalkInd'
  <1>1. /\ client.status = "walking" /\ client.mode = mode
        /\ UNCHANGED <<collection, stable, ever, changed>>
    BY DEF Pages!Get
  <1>2. WalkTypes
    BY DEF WalkInd
  <1>3. CASE responses = {} /\ client' = [client EXCEPT !.status = "failed"]
    <2>1. \E k \in ever : SizeOf[k] * 2 > MaxBody
      BY <1>3, AheadFacts
    <2>2. /\ client'.mode = client.mode /\ client'.out = client.out /\ client'.cursor = client.cursor
          /\ client'.status = "failed" /\ WalkTypes'
      BY <1>1, <1>2, <1>3 DEF WalkTypes, Pages!ApiModes, Pages!GuestModes
    <2> QED
      BY <1>1, <2>1, <2>2, WalkHasNoPage
  <1>4. ASSUME NEW r \in responses,
               client' = [client EXCEPT !.out = @ \o r.items,
                                        !.cursor = r.next_cursor,
                                        !.status = IF r.next_cursor = Pages!NoCursor THEN "done" ELSE @]
        PROVE  WalkInd'
    <2>1. PageOf(r, Ahead)
      OBVIOUS
    <2>2. /\ client'.mode = client.mode /\ client'.out = client.out \o r.items
          /\ client'.cursor = r.next_cursor /\ client'.cap = client.cap
          /\ client'.status = IF r.next_cursor = 0 THEN "done" ELSE "walking"
      BY <1>1, <1>2, <1>4 DEF WalkTypes, Pages!NoCursor
    <2>3. /\ Beginning(r.items, Ahead)
          /\ r.next_cursor = 0 => \A k \in Ahead : Holds(r.items, k)
          /\ r.next_cursor # 0 => Len(r.items) > 0 /\ r.next_cursor = r.items[Len(r.items)]
      BY <2>1 DEF PageOf
    <2>4. r.items \in Seq(Ahead) /\ Ahead \in SUBSET Keys /\ Ahead \in SUBSET Nat
      BY <2>3, AheadFacts DEF Beginning
    <2>5. r.next_cursor \in Nat
      <3>1. CASE r.next_cursor # 0
        <4>1. Len(r.items) \in 1 .. Len(r.items)
          BY <2>3, <2>4, <3>1
        <4>2. r.items[Len(r.items)] \in Ahead
          BY <2>4, <4>1
        <4> QED
          BY <2>3, <2>4, <3>1, <4>2
      <3> QED
        BY <3>1
    <2>6. client.out \o r.items \in Seq(Keys)
      <3>1. r.items \in Seq(Keys)
        <4> DEFINE s == r.items
        <4>1. s \in Seq(Ahead)
          BY <2>4
        <4> HIDE DEF s
        <4>2. s \in [1 .. Len(s) -> Ahead] /\ Len(s) \in Nat
          BY <4>1
        <4>3. s \in [1 .. Len(s) -> Keys]
          BY <2>4, <4>2
        <4>4. s \in Seq(Keys)
          BY <4>2, <4>3
        <4> QED
          BY <4>4 DEF s
      <3> QED
        BY <1>2, <3>1 DEF WalkTypes
    <2>7. WalkTypes'
      <3>1. /\ client' = [client EXCEPT !.out = client.out \o r.items, !.cursor = r.next_cursor,
                                        !.status = client'.status]
            /\ client'.status \in {"walking", "done", "failed"}
        BY <1>2, <1>4, <2>2 DEF WalkTypes
      <3> QED
        BY <1>1, <1>2, <2>5, <2>6, <3>1 DEF WalkTypes, Pages!ApiModes, Pages!GuestModes
    <2>8. Pages!ByCursor /\ client.mode \notin Pages!GuestModes
      BY <1>1 DEF Pages!ByCursor, Pages!ApiModes, Pages!GuestModes
    <2> QED
      BY <1>1, <2>2, <2>3, <2>7, <2>8, WalkGoesOn
  <1> QED
    BY <1>3, <1>4 DEF Pages!Get

\* One request of an API client.
LEMMA GetStep ==
    ASSUME WalkInd, NEW limit \in PageLimits,
           Pages!GetKeys(limit) \/ Pages!GetPeers(limit) \/ Pages!GetModules(limit)
    PROVE  WalkInd'
  <1>1. Ahead \in SUBSET Keys
    BY AheadFacts
  <1>2. CASE Pages!GetKeys(limit)
    <2>1. Pages!Get("keys", Pages!bounded_page(Pages!list_keys(client.cursor, limit))) /\ client.mode = "keys"
      BY <1>2 DEF Pages!GetKeys, Pages!Get
    <2>2. PageOf(Pages!list_keys(client.cursor, limit), Ahead)
      BY <2>1, ListedPages
    <2> QED
      BY <1>1, <2>1, <2>2, BoundedPageFacts, ResponseIsTaken DEF Pages!ApiModes
  <1>3. CASE Pages!GetPeers(limit)
    <2>1. Pages!Get("peers", Pages!bounded_page(Pages!list_peers(client.cursor, limit))) /\ client.mode = "peers"
      BY <1>3 DEF Pages!GetPeers, Pages!Get
    <2>2. PageOf(Pages!list_peers(client.cursor, limit), Ahead)
      BY <2>1, ListedPages
    <2> QED
      BY <1>1, <2>1, <2>2, BoundedPageFacts, ResponseIsTaken DEF Pages!ApiModes
  <1>4. CASE Pages!GetModules(limit)
    <2>1. Pages!Get("modules", {Pages!list_modules(client.cursor, limit)}) /\ client.mode = "modules"
      BY <1>4 DEF Pages!GetModules, Pages!Get
    <2>2. PageOf(Pages!list_modules(client.cursor, limit), Ahead)
      BY <2>1, ListedPages
    <2> QED
      BY <2>1, <2>2, ResponseIsTaken DEF Pages!ApiModes
  <1> QED
    BY <1>2, <1>3, <1>4

\* A page that does not fit the guest's buffer.
LEMMA BufferIsSmall ==
    ASSUME WalkInd, client.status = "walking", client.mode \in Pages!GuestModes, client' = Pages!Grown,
           UNCHANGED <<collection, stable, ever, changed>>
    PROVE  WalkInd'
  <1>1. WalkTypes /\ client.cap \in Nat /\ 2 * client.cap \in Nat
    BY DEF WalkInd, WalkTypes
  <1>2. \/ client' = [client EXCEPT !.status = "failed"]
        \/ client' = [client EXCEPT !.cap = 2 * client.cap]
    BY <1>1 DEF Pages!Grown, WalkTypes
  <1>3. /\ client'.mode = client.mode /\ client'.out = client.out /\ client'.cursor = client.cursor
        /\ client'.status \in {"walking", "failed"}
    BY <1>1, <1>2 DEF WalkTypes
  <1>4. WalkTypes'
    BY <1>1, <1>2 DEF WalkTypes, Pages!ApiModes, Pages!GuestModes
  <1>5. client.mode \notin Pages!ApiModes
    BY DEF Pages!ApiModes, Pages!GuestModes
  <1> QED
    BY <1>3, <1>4, <1>5, WalkHasNoPage

LEMMA ExtendedFacts ==
    ASSUME WalkInd, client.status = "walking", NEW page \in Seq(Keys), client' = Pages!Extended(page),
           UNCHANGED <<collection, stable, ever, changed>>
    PROVE  /\ client'.mode = client.mode /\ client'.out = client.out \o page
           /\ page # <<>> => client'.cursor = page[Len(page)]
           /\ client'.status = IF Len(page) < ScanLimit THEN "done" ELSE "walking"
           /\ WalkTypes'
  <1>1. WalkTypes /\ FirstCap \in Nat /\ Keys \in SUBSET Nat
    BY WalkAssumption DEF WalkInd
  <1> DEFINE c == IF page = <<>> THEN client.cursor ELSE page[Len(page)]
             t == IF Len(page) < ScanLimit THEN "done" ELSE "walking"
             both == client.out \o page
  <1>2. c \in Nat
    <2>1. CASE page # <<>>
      <3>1. Len(page) \in 1 .. Len(page)
        BY <2>1
      <3>2. page[Len(page)] \in Keys
        BY <3>1
      <3> QED
        BY <1>1, <2>1, <3>2
    <2> QED
      BY <1>1, <2>1 DEF WalkTypes
  <1>3. both \in Seq(Keys)
    BY <1>1 DEF WalkTypes
  <1>4. client' = [client EXCEPT !.out = both, !.cap = FirstCap, !.cursor = c, !.status = t]
    BY <1>1 DEF Pages!Extended, Pages!Last, WalkTypes
  <1>5. t \in {"walking", "done", "failed"}
    OBVIOUS
  <1>6. page # <<>> => c = page[Len(page)]
    OBVIOUS
  <1> HIDE DEF c, t, both
  <1>7. /\ client'.mode = client.mode /\ client'.out = both /\ client'.cursor = c /\ client'.status = t
        /\ WalkTypes'
    BY <1>1, <1>2, <1>3, <1>4, <1>5 DEF WalkTypes, Pages!ApiModes, Pages!GuestModes
  <1> QED
    BY <1>6, <1>7 DEF t, both

\* A page of the guest's loop by cursor.
LEMMA CallExtends ==
    ASSUME WalkInd, client.status = "walking", client.mode \in {"db_keys_after", "db_scan_after"},
           client' = Pages!Extended(Pages!Page(Ahead, ScanLimit)),
           UNCHANGED <<collection, stable, ever, changed>>
    PROVE  WalkInd'
  <1> DEFINE page == Pages!Page(Ahead, ScanLimit)
  <1>1. ScanLimit \in Nat /\ ScanLimit > 1 /\ EmptyKey \in Nat /\ \A k \in Keys : EmptyKey <= k
    BY WalkAssumption
  <1>2. Ahead \in SUBSET Keys /\ Ahead \in SUBSET Nat /\ IsFiniteSet(Ahead)
    BY AheadFacts
  <1>3. RowsOf(page, Ahead, ScanLimit)
    BY <1>1, <1>2, ScanIsRows
  <1> HIDE DEF page
  <1>4. page \in Seq(Ahead) /\ Len(page) \in Nat /\ Len(page) <= ScanLimit
    BY <1>1, <1>2, <1>3, FS_CardinalityType DEF RowsOf
  <1>5. Beginning(page, Ahead)
    <2>1. Beginning(SubSeq(page, 1, Len(page)), Ahead)
      BY <1>1, <1>2, <1>3, <1>4, BeginningOfRows
    <2>2. SubSeq(page, 1, Len(page)) = page
      BY <1>4
    <2> QED
      BY <2>1, <2>2
  <1>6. page \in Seq(Keys)
    <2>1. page \in [1 .. Len(page) -> Ahead]
      BY <1>4
    <2>2. page \in [1 .. Len(page) -> Keys]
      BY <1>2, <2>1
    <2> QED
      BY <1>4, <2>2
  <1>7. /\ client'.mode = client.mode /\ client'.out = client.out \o page
        /\ page # <<>> => client'.cursor = page[Len(page)]
        /\ client'.status = IF Len(page) < ScanLimit THEN "done" ELSE "walking"
        /\ WalkTypes'
    BY <1>6, ExtendedFacts DEF page
  <1>8. client'.status = "done" => \A k \in Ahead : Holds(page, k)
    BY <1>1, <1>2, <1>3, <1>7, AllRows
  <1>9. ASSUME client'.status = "walking"
        PROVE  /\ Len(page) > 0 /\ client'.cursor = page[Len(page)]
               /\ Pages!read_scan_cursor(client'.cursor) = client'.cursor
    <2>1. ~(Len(page) < ScanLimit)
      BY <1>7, <1>9
    <2>2. Len(page) > 1 /\ 1 \in 1 .. Len(page) /\ Len(page) \in 1 .. Len(page) /\ page # <<>>
      BY <1>1, <1>4, <2>1
    <2>3. page[1] < page[Len(page)]
      BY <1>5, <2>2 DEF Beginning, Increasing
    <2>4. page[1] \in Ahead /\ page[Len(page)] \in Ahead
      BY <1>4, <2>2
    <2>5. EmptyKey <= page[1] /\ page[1] \in Nat /\ page[Len(page)] \in Nat
      BY <1>1, <1>2, <2>4
    <2>6. page[Len(page)] # EmptyKey
      BY <1>1, <2>3, <2>5
    <2> QED
      BY <1>7, <2>2, <2>6 DEF Pages!read_scan_cursor
  <1>10. Pages!ByCursor
    BY DEF Pages!ByCursor
  <1> QED
    BY <1>5, <1>7, <1>8, <1>9, <1>10, WalkGoesOn

\* One host call of the guest by cursor.
LEMMA CursorCallStep ==
    ASSUME WalkInd, Pages!keys_page_after \/ Pages!scan_page_after
    PROVE  WalkInd'
  <1>1. PICK mode \in {"db_keys_after", "db_scan_after"} :
           \E page, bytes :
              /\ Pages!HostCall(mode, page, bytes)
              /\ page = Pages!keys_prefix_page_after(collection, Keys, Pages!read_scan_cursor(client.cursor), ScanLimit, Reserved)
    BY Zenon DEF Pages!keys_page_after, Pages!scan_page_after, Pages!db_keys_after, Pages!db_scan_after,
       Pages!scan_prefix_page_after
  <1>2. PICK page, bytes :
              /\ Pages!HostCall(mode, page, bytes)
              /\ page = Pages!keys_prefix_page_after(collection, Keys, Pages!read_scan_cursor(client.cursor), ScanLimit, Reserved)
    BY <1>1, Zenon
  <1>3. /\ client.status = "walking" /\ client.mode = mode
        /\ client' = IF bytes > client.cap THEN Pages!Grown ELSE Pages!Extended(page)
        /\ UNCHANGED <<collection, stable, ever, changed>>
    BY <1>2 DEF Pages!HostCall
  <1>4. client.mode \in Pages!GuestModes /\ Pages!ByCursor
    BY <1>3 DEF Pages!GuestModes, Pages!ByCursor
  <1>5. Pages!read_scan_cursor(client.cursor) = client.cursor
    BY <1>3, <1>4 DEF WalkInd, CursorFits
  <1>6. page = Pages!Page(Ahead, ScanLimit)
    <2>1. Pages!Shown(client.mode) = Keys \ Reserved
      BY <1>4, ShownFacts
    <2>2. collection \subseteq Keys
      BY DEF WalkInd, WalkTypes
    <2>3. {k \in collection \intersect Keys : k > client.cursor} \ Reserved = Ahead
      BY <2>1, <2>2, Zenon DEF Ahead
    <2> QED
      BY <1>2, <1>5, <2>3, Zenon DEF Pages!keys_prefix_page_after
  <1>7. CASE bytes > client.cap
    BY <1>3, <1>4, <1>7, BufferIsSmall
  <1>8. CASE ~(bytes > client.cap)
    BY <1>3, <1>6, <1>8, CallExtends
  <1> QED
    BY <1>7, <1>8

\* A page by offset continues the enumeration.
LEMMA OffsetPageFacts ==
    ASSUME NEW S \in SUBSET Nat, IsFiniteSet(S), NEW c \in Nat, NEW l \in Nat
    PROVE  LET rowsUpTo == Pages!Page(S, c + l)
               page == SubSeq(rowsUpTo, c + 1, Len(rowsUpTo))
               e == Pages!Ordered(S)
           IN /\ page \in Seq(S) /\ Len(page) \in Nat
              /\ c <= Len(e) =>
                    /\ c + Len(page) <= Len(e)
                    /\ \A i \in 1 .. Len(page) : page[i] = e[c + i]
                    /\ Len(page) < l => c + Len(page) = Len(e)
  <1> DEFINE q == Pages!Page(S, c + l)
             page == SubSeq(q, c + 1, Len(q))
             e == Pages!Ordered(S)
  <1>1. /\ q \in Seq(S) /\ Len(q) \in Nat
        /\ Len(q) = IF c + l <= Len(e) THEN c + l ELSE Len(e)
        /\ \A i \in 1 .. Len(q) : q[i] = e[i]
    BY PageFacts
  <1>2. Len(e) \in Nat
    BY OrderedFacts
  <1> HIDE DEF q, e
  <1> DEFINE n == Len(q)
             L == IF c + 1 <= n THEN n - (c + 1) + 1 ELSE 0
  <1>3. \A i \in c + 1 .. n : q[i] \in S
    BY <1>1
  <1>4. /\ page \in Seq(S)
        /\ Len(page) = L
        /\ \A i \in 1 .. n - (c + 1) + 1 : page[i] = q[(c + 1) + i - 1]
    <2>1. c + 1 \in Int /\ n \in Int
      BY <1>1
    <2> HIDE DEF n
    <2> QED
      BY <1>3, <2>1, SubSeqProperties DEF n
  <1> HIDE DEF page, n
  <1>5. L \in Nat
    BY <1>1 DEF n
  <1>6. ASSUME NEW i \in 1 .. L PROVE page[i] = e[c + i]
    <2>1. i \in 1 .. n - (c + 1) + 1 /\ (c + 1) + i - 1 = c + i /\ c + i \in 1 .. n
      BY <1>1 DEF n
    <2>2. page[i] = q[c + i]
      BY <1>4, <2>1
    <2> QED
      BY <1>1, <2>1, <2>2 DEF n
  <1>7. c <= Len(e) =>
           /\ c + L <= Len(e)
           /\ L < l => c + L = Len(e)
    BY <1>1, <1>2 DEF n
  <1> HIDE DEF L
  <1>8. /\ page \in Seq(S) /\ Len(page) \in Nat
        /\ c <= Len(e) =>
              /\ c + Len(page) <= Len(e)
              /\ \A i \in 1 .. Len(page) : page[i] = e[c + i]
              /\ Len(page) < l => c + Len(page) = Len(e)
    BY <1>4, <1>5, <1>6, <1>7
  <1> QED
    BY <1>8 DEF page, n, q, e

\* A page of the guest's loop by offset.
LEMMA OffsetCallExtends ==
    ASSUME WalkInd, client.status = "walking", client.mode \in {"db_keys", "db_scan"}, NEW page,
           page = Pages!keys_prefix_page(collection, Keys, Len(client.out), ScanLimit, Reserved),
           client' = Pages!Extended(page), UNCHANGED <<collection, stable, ever, changed>>
    PROVE  WalkInd'
  <1> DEFINE S == collection \intersect Pages!Shown(client.mode)
             e == Pages!Ordered(S)
             out == client.out
             c == Len(out)
             both == out \o page
  <1>1. /\ WalkTypes /\ out \in Seq(Keys) /\ c \in Nat /\ collection \subseteq ever /\ ever \subseteq Keys
        /\ ScanLimit \in Nat /\ Keys \subseteq Nat /\ IsFiniteSet(Keys)
    BY WalkAssumption DEF WalkInd, WalkTypes
  <1>2. Pages!Shown(client.mode) = Keys \ Reserved /\ ~Pages!ByCursor
    BY ShownFacts DEF Pages!GuestModes, Pages!ByCursor
  <1>3. S = (collection \intersect Keys) \ Reserved
    BY <1>1, <1>2
  <1>4. S \in SUBSET Nat /\ S \in SUBSET Keys /\ IsFiniteSet(S)
    <2>1. S \in SUBSET Keys
      BY <1>1
    <2> HIDE DEF S
    <2> QED
      BY <1>1, <2>1, FS_Subset
  <1>5. page = SubSeq(Pages!Page(S, c + ScanLimit), c + 1, Len(Pages!Page(S, c + ScanLimit)))
    BY <1>3, Zenon DEF Pages!keys_prefix_page
  <1> HIDE DEF S
  <1>6. /\ page \in Seq(S) /\ Len(page) \in Nat
        /\ c <= Len(e) =>
              /\ c + Len(page) <= Len(e)
              /\ \A i \in 1 .. Len(page) : page[i] = e[c + i]
              /\ Len(page) < ScanLimit => c + Len(page) = Len(e)
    <2> DEFINE q == Pages!Page(S, c + ScanLimit)
               p == SubSeq(q, c + 1, Len(q))
    <2>1. c \in Nat /\ ScanLimit \in Nat
      BY <1>1
    <2> HIDE DEF c
    <2>2. /\ p \in Seq(S) /\ Len(p) \in Nat
          /\ c <= Len(e) =>
                /\ c + Len(p) <= Len(e)
                /\ \A i \in 1 .. Len(p) : p[i] = e[c + i]
                /\ Len(p) < ScanLimit => c + Len(p) = Len(e)
      BY <1>4, <2>1, OffsetPageFacts
    <2>3. page = p
      BY <1>5
    <2> HIDE DEF p, e
    <2> QED
      BY <2>2, <2>3
  <1>7. Len(e) \in Nat
    BY <1>4, OrderedFacts
  <1>8. page \in Seq(Keys)
    <2>1. page \in [1 .. Len(page) -> S]
      BY <1>6
    <2>2. page \in [1 .. Len(page) -> Keys]
      BY <1>4, <2>1
    <2> QED
      BY <1>6, <2>2
  <1>9. /\ client'.mode = client.mode /\ client'.out = both
        /\ client'.status = IF Len(page) < ScanLimit THEN "done" ELSE "walking"
        /\ WalkTypes'
    BY <1>8, ExtendedFacts
  <1>10. /\ Len(both) = c + Len(page)
         /\ \A i \in 1 .. c : both[i] = out[i]
         /\ \A i \in 1 .. Len(page) : both[c + i] = page[i]
    <2>1. out \in Seq(Keys) /\ page \in Seq(Keys)
      BY <1>1, <1>8
    <2> HIDE DEF out
    <2>2. /\ Len(both) = Len(out) + Len(page)
          /\ \A i \in 1 .. Len(out) : both[i] = out[i]
          /\ \A i \in 1 .. Len(page) : both[Len(out) + i] = page[i]
      BY <2>1
    <2> QED
      BY <2>2
  <1> HIDE DEF e, both, c
  <1>11. ASSUME NEW i \in 1 .. c + Len(page)
         PROVE  \/ i \in 1 .. c /\ both[i] = out[i]
                \/ i - c \in 1 .. Len(page) /\ c + (i - c) = i /\ both[i] = page[i - c]
    <2>1. CASE i <= c
      BY <1>1, <1>6, <1>10, <2>1
    <2>2. CASE i > c
      <3>1. i - c \in 1 .. Len(page) /\ c + (i - c) = i
        BY <1>1, <1>6, <2>2
      <3> QED
        BY <1>10, <3>1
    <2> QED
      BY <1>1, <2>1, <2>2
  <1>12. \A i \in 1 .. Len(both) : both[i] \in ever \intersect Pages!Shown(client.mode)
    <2> SUFFICES ASSUME NEW i \in 1 .. c + Len(page) PROVE both[i] \in ever \intersect Pages!Shown(client.mode)
      BY <1>10
    <2>1. CASE i \in 1 .. c /\ both[i] = out[i]
      BY <2>1 DEF WalkInd, c
    <2>2. CASE i - c \in 1 .. Len(page) /\ both[i] = page[i - c]
      <3>1. page[i - c] \in S
        BY <1>6, <2>2
      <3> QED
        BY <1>1, <2>2, <3>1 DEF S
    <2> QED
      BY <1>11, <2>1, <2>2
  <1>13. ASSUME changed = 0
         PROVE  /\ stable = collection
                /\ Len(both) <= Len(e)
                /\ \A i \in 1 .. Len(both) : both[i] = e[i]
                /\ client'.status = "done" => Len(both) = Len(e)
    <2>1. OffsetFits
      BY <1>2, <1>13 DEF WalkInd
    <2>2. /\ stable = collection /\ c <= Len(e)
          /\ \A i \in 1 .. c : out[i] = e[i]
      BY <2>1 DEF OffsetFits, e, c, S
    <2>3. ASSUME NEW i \in 1 .. c + Len(page) PROVE both[i] = e[i]
      <3>1. CASE i \in 1 .. c /\ both[i] = out[i]
        BY <2>2, <3>1
      <3>2. CASE i - c \in 1 .. Len(page) /\ c + (i - c) = i /\ both[i] = page[i - c]
        <4>1. page[i - c] = e[c + (i - c)]
          BY <1>6, <2>2, <3>2
        <4> QED
          BY <3>2, <4>1
      <3> QED
        BY <1>11, <3>1, <3>2
    <2>4. client'.status = "done" => Len(page) < ScanLimit
      BY <1>9
    <2> QED
      BY <1>6, <1>10, <2>2, <2>3, <2>4
  <1>14. Pages!Shown(client.mode)' = Pages!Shown(client.mode) /\ (Pages!ByCursor)' = Pages!ByCursor
    BY <1>9 DEF Pages!Shown, Pages!ByCursor
  <1>15. Pages!Ordered(collection \intersect Pages!Shown(client.mode))' = e
    <2>1. (collection \intersect Pages!Shown(client.mode))' = S
      BY <1>14 DEF S
    <2> HIDE DEF S
    <2>2. Pages!Ordered(collection \intersect Pages!Shown(client.mode))' =
             Pages!Ordered((collection \intersect Pages!Shown(client.mode))')
      BY DEF Pages!Ordered, Pages!Cardinality
    <2> QED
      BY <2>1, <2>2 DEF e
  <1>16. changed = 0 => OffsetFits'
    BY <1>9, <1>13, <1>15 DEF OffsetFits
  <1>17. (Pages!OnlyOversizedItemsFail)'
    BY <1>9 DEF Pages!OnlyOversizedItemsFail
  <1> QED
    BY <1>2, <1>9, <1>12, <1>14, <1>16, <1>17 DEF WalkInd

\* One host call of the guest by offset.
LEMMA OffsetCallStep ==
    ASSUME WalkInd, Pages!keys_page \/ Pages!scan_page
    PROVE  WalkInd'
  <1>1. PICK mode \in {"db_keys", "db_scan"} :
           \E page, bytes :
              /\ Pages!HostCall(mode, page, bytes)
              /\ page = Pages!keys_prefix_page(collection, Keys, Len(client.out), ScanLimit, Reserved)
    BY Zenon DEF Pages!keys_page, Pages!scan_page, Pages!db_keys, Pages!db_scan, Pages!scan_prefix_page
  <1>2. PICK page, bytes :
              /\ Pages!HostCall(mode, page, bytes)
              /\ page = Pages!keys_prefix_page(collection, Keys, Len(client.out), ScanLimit, Reserved)
    BY <1>1, Zenon
  <1>3. /\ client.status = "walking" /\ client.mode = mode
        /\ client' = IF bytes > client.cap THEN Pages!Grown ELSE Pages!Extended(page)
        /\ UNCHANGED <<collection, stable, ever, changed>>
    BY <1>2 DEF Pages!HostCall
  <1>4. client.mode \in Pages!GuestModes
    BY <1>3 DEF Pages!GuestModes
  <1>5. CASE bytes > client.cap
    BY <1>3, <1>4, <1>5, BufferIsSmall
  <1>6. CASE ~(bytes > client.cap)
    BY <1>2, <1>3, <1>6, OffsetCallExtends
  <1> QED
    BY <1>5, <1>6

\* Others store and delete.
LEMMA OthersChange ==
    ASSUME WalkInd, NEW k \in Keys, Pages!SetKey(k) \/ Pages!DeleteKey(k)
    PROVE  WalkInd'
  <1>1. /\ client' = client /\ changed' = changed + 1
        /\ stable' \subseteq stable /\ ever \subseteq ever'
        /\ stable' \subseteq collection' /\ collection' \subseteq ever' /\ ever' \subseteq Keys
    BY DEF Pages!SetKey, Pages!DeleteKey, WalkInd, WalkTypes
  <1>2. WalkTypes' /\ changed' # 0
    BY <1>1 DEF WalkInd, WalkTypes, Pages!ApiModes, Pages!GuestModes
  <1>3. Pages!Shown(client.mode)' = Pages!Shown(client.mode) /\ (Pages!ByCursor)' = Pages!ByCursor
    BY <1>1 DEF Pages!Shown, Pages!ByCursor
  <1>4. \A i \in 1 .. Len(client'.out) : client'.out[i] \in ever' \intersect Pages!Shown(client.mode)'
    BY <1>1, <1>3 DEF WalkInd
  <1>5. Pages!ByCursor => CursorFits'
    <2>1. Pages!ByCursor => CursorFits
      BY DEF WalkInd
    <2> QED
      BY <1>1, <1>3, <2>1 DEF CursorFits, Pages!GuestModes, Pages!read_scan_cursor
  <1>6. (Pages!OnlyOversizedItemsFail)'
    <2>1. Pages!OnlyOversizedItemsFail
      BY DEF WalkInd
    <2> QED
      BY <1>1, <2>1 DEF Pages!OnlyOversizedItemsFail, Pages!ApiModes
  <1> QED
    BY <1>2, <1>3, <1>4, <1>5, <1>6 DEF WalkInd

LEMMA WalkStep ==
    ASSUME WalkInd, Pages!WalkNext
    PROVE  WalkInd'
  BY GetStep, CursorCallStep, OffsetCallStep, OthersChange DEF Pages!WalkNext

LEMMA WalkStarts == Pages!WalkInit => WalkInd
  <1> SUFFICES ASSUME Pages!WalkInit PROVE WalkInd
    OBVIOUS
  <1>1. /\ client \in [mode : Pages!ApiModes \union Pages!GuestModes, cursor : {0}, cap : {FirstCap},
                       out : {<<>>}, status : {"walking"}]
        /\ collection \subseteq Keys /\ stable = collection /\ ever = collection /\ changed = 0
    BY DEF Pages!WalkInit, Pages!NoCursor
  <1>2. client.cursor = 0 /\ client.out = <<>> /\ client.status = "walking" /\ Len(client.out) = 0
    BY <1>1
  <1>3. WalkTypes
    <2>1. FirstCap \in Nat /\ <<>> \in Seq(Keys)
      <3>1. <<>> \in Seq(Keys)
        OBVIOUS
      <3> QED
        BY <3>1, WalkAssumption
    <2> DEFINE M == Pages!ApiModes \union Pages!GuestModes
               none == <<>>
    <2>2. client \in [mode : M, cursor : {0}, cap : {FirstCap}, out : {none}, status : {"walking"}]
      BY <1>1
    <2>3. none \in Seq(Keys)
      BY <2>1
    <2> HIDE DEF M, none
    <2>6. client \in [mode : M, cursor : Nat, cap : Nat, out : Seq(Keys), status : {"walking", "done", "failed"}]
      BY <2>1, <2>2, <2>3
    <2>4. client \in [mode : Pages!ApiModes \union Pages!GuestModes, cursor : Nat, cap : Nat,
                      out : Seq(Keys), status : {"walking", "done", "failed"}]
      BY <2>6, Zenon DEF M
    <2>5. changed \in Nat /\ stable \subseteq collection /\ collection \subseteq ever /\ ever \subseteq Keys
      BY <1>1
    <2> QED
      BY <2>4, <2>5, Zenon DEF WalkTypes
  <1>4. \A k \in Keys : ~(k <= 0)
    BY WalkAssumption
  <1>5. CursorFits
    <2>1. Pages!read_scan_cursor(0) = 0
      BY DEF Pages!read_scan_cursor, Pages!NoCursor
    <2> QED
      BY <1>1, <1>2, <1>4, <2>1 DEF CursorFits, Increasing
  <1>6. OffsetFits
    <2> DEFINE S == collection \intersect Pages!Shown(client.mode)
    <2>1. S \in SUBSET Keys
      BY <1>1
    <2>2. S \in SUBSET Nat /\ IsFiniteSet(S)
      <3> HIDE DEF S
      <3> QED
        BY <2>1, WalkAssumption, FS_Subset
    <2>3. Len(Pages!Ordered(S)) \in Nat
      <3> HIDE DEF S
      <3> QED
        BY <2>2, OrderedFacts
    <2> QED
      BY <1>1, <1>2, <2>3 DEF OffsetFits
  <1>7. Pages!OnlyOversizedItemsFail
    BY <1>2 DEF Pages!OnlyOversizedItemsFail
  <1> QED
    BY <1>2, <1>3, <1>5, <1>6, <1>7 DEF WalkInd

LEMMA ListedIsHeld ==
    ASSUME NEW s \in Seq(Keys)
    PROVE  \A k : k \in Pages!ToSet(s) <=> Holds(s, k)
  <1>1. DOMAIN s = 1 .. Len(s)
    OBVIOUS
  <1> QED
    BY <1>1, Zenon DEF Pages!ToSet, Holds

LEMMA WalkSafe ==
    ASSUME WalkInd
    PROVE  Pages!WalkIsSound
  <1> DEFINE out == client.out
             shown == Pages!Shown(client.mode)
             S == collection \intersect shown
             e == Pages!Ordered(S)
  <1>1. /\ out \in Seq(Keys) /\ Len(out) \in Nat
        /\ \A i \in 1 .. Len(out) : out[i] \in ever \intersect shown
        /\ Pages!ByCursor => CursorFits
        /\ ~Pages!ByCursor /\ changed = 0 => OffsetFits
    BY DEF WalkInd, WalkTypes
  <1>2. \A k : k \in Pages!ToSet(out) <=> Holds(out, k)
    BY <1>1, ListedIsHeld
  <1>3. S \in SUBSET Nat /\ IsFiniteSet(S)
    <2>1. S \in SUBSET Keys
      BY DEF WalkInd, WalkTypes
    <2> HIDE DEF S
    <2> QED
      BY <2>1, WalkAssumption, FS_Subset
  <1> HIDE DEF shown, S
  <1>4. /\ \A k \in S : \E i \in 1 .. Len(e) : e[i] = k
        /\ \A i, j \in 1 .. Len(e) : i < j => e[i] < e[j]
        /\ Len(e) \in Nat
    BY <1>3, OrderedFacts
  <1> HIDE DEF out, e
  <1>5. ASSUME ~Pages!ByCursor, changed = 0
        PROVE  /\ Increasing(out)
               /\ client.status = "done" => \A k \in stable \intersect shown : Holds(out, k)
    <2>1. OffsetFits
      BY <1>1, <1>5
    <2>2. /\ stable = collection /\ Len(out) <= Len(e)
          /\ \A i \in 1 .. Len(out) : out[i] = e[i]
          /\ client.status = "done" => Len(out) = Len(e)
      BY <2>1 DEF OffsetFits, out, e, S, shown
    <2>3. ASSUME NEW i \in 1 .. Len(out), NEW j \in 1 .. Len(out), i < j PROVE out[i] < out[j]
      <3>1. i \in 1 .. Len(e) /\ j \in 1 .. Len(e) /\ out[i] = e[i] /\ out[j] = e[j]
        BY <1>1, <1>4, <2>2
      <3> QED
        BY <1>4, <2>3, <3>1
    <2>4. ASSUME client.status = "done", NEW k \in stable \intersect shown PROVE Holds(out, k)
      <3>1. k \in S
        BY <2>2 DEF S
      <3>2. PICK i \in 1 .. Len(e) : e[i] = k
        BY <1>4, <3>1
      <3> QED
        BY <2>2, <2>4, <3>2 DEF Holds
    <2> QED
      BY <2>3, <2>4 DEF Increasing
  <1>6. ASSUME Pages!ByCursor
        PROVE  /\ Increasing(out)
               /\ client.status = "done" => \A k \in stable \intersect shown : Holds(out, k)
    BY <1>1, <1>6 DEF CursorFits, out, shown
  <1>7. Pages!WalkIsComplete
    <2> SUFFICES ASSUME client.status = "done", Pages!ByCursor \/ changed = 0, NEW k \in stable \intersect shown
                 PROVE  k \in Pages!ToSet(out)
      BY DEF Pages!WalkIsComplete, shown, out
    <2> QED
      BY <1>2, <1>5, <1>6
  <1>8. Pages!WalkIsExact
    <2>1. Pages!ToSet(out) \subseteq ever \intersect shown
      BY <1>1, <1>2 DEF Holds
    <2>2. ASSUME Pages!ByCursor \/ changed = 0, NEW i \in 1 .. Len(out) - 1 PROVE out[i] < out[i + 1]
      <3>1. Increasing(out)
        BY <1>5, <1>6, <2>2
      <3>2. i \in 1 .. Len(out) /\ i + 1 \in 1 .. Len(out) /\ i < i + 1
        BY <1>1
      <3> QED
        BY <3>1, <3>2 DEF Increasing
    <2> QED
      BY <2>1, <2>2 DEF Pages!WalkIsExact, out, shown
  <1>9. Pages!OnlyOversizedItemsFail
    BY DEF WalkInd
  <1> QED
    BY <1>7, <1>8, <1>9 DEF Pages!WalkIsSound

LEMMA WalkIdle ==
    ASSUME WalkInd, UNCHANGED <<collection, client, stable, ever, changed>>
    PROVE  WalkInd'
  <1>1. Pages!Shown(client.mode)' = Pages!Shown(client.mode) /\ (Pages!ByCursor)' = Pages!ByCursor
    BY DEF Pages!Shown, Pages!ByCursor
  <1>2. WalkTypes' /\ (Pages!OnlyOversizedItemsFail)'
    <2>1. WalkTypes /\ Pages!OnlyOversizedItemsFail
      BY DEF WalkInd
    <2> QED
      BY <2>1 DEF WalkTypes, Pages!OnlyOversizedItemsFail, Pages!ApiModes, Pages!GuestModes
  <1>3. \A i \in 1 .. Len(client'.out) : client'.out[i] \in ever' \intersect Pages!Shown(client.mode)'
    BY <1>1 DEF WalkInd
  <1>4. Pages!ByCursor => CursorFits'
    <2>1. Pages!ByCursor => CursorFits
      BY DEF WalkInd
    <2> QED
      BY <1>1, <2>1 DEF CursorFits, Pages!GuestModes, Pages!read_scan_cursor
  <1>5. ~Pages!ByCursor /\ changed = 0 => OffsetFits'
    <2>1. ~Pages!ByCursor /\ changed = 0 => OffsetFits
      BY DEF WalkInd
    <2>2. (collection \intersect Pages!Shown(client.mode))' = collection \intersect Pages!Shown(client.mode)
      BY <1>1
    <2>3. Pages!Ordered(collection \intersect Pages!Shown(client.mode))' =
             Pages!Ordered(collection \intersect Pages!Shown(client.mode))
      BY <2>2 DEF Pages!Ordered, Pages!Cardinality
    <2> QED
      BY <1>1, <2>1, <2>3 DEF OffsetFits
  <1> QED
    BY <1>1, <1>2, <1>3, <1>4, <1>5 DEF WalkInd

(* A client that reads keys, modules or peers page by page gets everything *)
(* that existed during its whole walk, once, in the order of the store and *)
(* nothing reserved, while others store and delete, whatever the page      *)
(* limits, the cuts to the response limit and the repeated host calls are, *)
(* and an API walk fails only at an item that is itself too large          *)
(* (list_keys, control.rs:199; bounded_page, routes.rs:427; the SDK's      *)
(* keys, db.rs:287).                                                       *)
THEOREM WalksAreSound == Spec => []WalkIsSound
  <1> DEFINE Inv == kind = "walk" => WalkInd
  <1>1. Init => Inv
    BY WalkStarts DEF Init
  <1>2. Inv /\ [Next]_allVars => Inv'
    <2> SUFFICES ASSUME Inv, [Next]_allVars, kind = "walk" PROVE WalkInd' /\ kind' = kind
      BY DEF Next, allVars
    <2>1. kind' = kind
      BY DEF Next, allVars
    <2>2. CASE Next
      BY <2>2, WalkStep DEF Next
    <2>3. CASE UNCHANGED allVars
      BY <2>3, WalkIdle DEF allVars, ofNode, ofWalk
    <2> QED
      BY <2>1, <2>2, <2>3
  <1>3. Inv => WalkIsSound
    BY WalkSafe DEF WalkIsSound
  <1> QED
    BY <1>1, <1>2, <1>3, PTL DEF Spec
====
