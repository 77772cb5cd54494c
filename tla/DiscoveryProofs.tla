-------------------------- MODULE DiscoveryProofs --------------------------
(***************************************************************************)
(* Theorems about Discovery.  Every provider takes the same kinds of steps *)
(* on its generations, its view and its subscribers; what DynamicProvider  *)
(* promises is proved from these steps alone, and what a provider promises *)
(* from its worker.                                                        *)
(***************************************************************************)
EXTENDS Discovery, SequenceTheorems, FiniteSetTheorems, WellFoundedInduction, TLAPS

-----------------------------------------------------------------------------
(* Numbers and parts of sequences. *)

\* Induction over numbers: a property that fails somewhere fails first somewhere.
LEMMA NatMin ==
    ASSUME NEW T, T \subseteq Nat, T # {}
    PROVE  \E x \in T : \A y \in T : x <= y
<1>1. PICK x \in T : \A y \in T : ~ (<<y, x>> \in OpToRel(<,Nat))
  BY NatLessThanWellFounded, WFMin, Zenon
<1>2. ASSUME NEW y \in T PROVE x <= y
  <2>1. <<y, x>> \notin {ss \in Nat \X Nat : ss[1] < ss[2]}
    BY <1>1, Zenon DEF OpToRel
  <2>. QED BY <2>1
<1>. QED BY <1>2

LEMMA NthFacts ==
    ASSUME NEW n \in Nat, NEW I \in SUBSET (1..n)
    PROVE  /\ IsFiniteSet(I) /\ Cardinality(I) \in 0..n
           /\ \A k \in 1..Cardinality(I) : Nth(I, k) \in I
           /\ \A i \in I : \E k \in 1..Cardinality(I) : Nth(I, k) = i
           /\ \A k, l \in 1..Cardinality(I) : k < l => Nth(I, k) < Nth(I, l)
<1>. DEFINE Below(i) == {j \in I : j <= i}
            c == Cardinality(I)
            rank == [i \in I |-> Cardinality(Below(i))]
<1>0. \A i \in I : i \in Int
  OBVIOUS
<1>1. IsFiniteSet(I) /\ c \in 0..n
  <2>1. IsFiniteSet(1..n) /\ Cardinality(1..n) = n
    BY FS_Interval
  <2>2. IsFiniteSet(I) /\ c <= n
    BY <2>1, FS_Subset
  <2>3. c \in Nat
    BY <2>2, FS_CardinalityType
  <2>. QED BY <2>2, <2>3
<1>2. ASSUME NEW i \in I
      PROVE  /\ Below(i) \in SUBSET I /\ i \in Below(i) /\ IsFiniteSet(Below(i))
             /\ Cardinality(Below(i)) \in 1..c
  <2>1. Below(i) \in SUBSET I /\ i \in Below(i)
    OBVIOUS
  <2>2. IsFiniteSet(Below(i)) /\ Cardinality(Below(i)) <= c /\ Cardinality(Below(i)) \in Nat
    BY <1>1, <2>1, FS_Subset, FS_CardinalityType
  <2>3. Cardinality(Below(i)) # 0
    <3>. DEFINE b == Below(i)
    <3>1. b # {} /\ IsFiniteSet(b)
      BY <2>1, <2>2
    <3>. HIDE DEF b
    <3>2. Cardinality(b) # 0
      BY <3>1, FS_EmptySet
    <3>. QED BY <3>2 DEF b
  <2>. QED BY <1>1, <2>1, <2>2, <2>3
<1>3. ASSUME NEW i \in I, NEW j \in I, i < j
      PROVE  Cardinality(Below(i)) < Cardinality(Below(j))
  <2>1. Below(i) \in SUBSET Below(j) /\ j \in Below(j) /\ j \notin Below(i)
    <3>1. i \in Int /\ j \in Int /\ i < j
      BY <1>0, <1>3
    <3>2. ASSUME NEW m \in I, m <= i PROVE m <= j
      <4>1. m \in Int
        BY <1>0
      <4>. QED BY <3>1, <3>2, <4>1
    <3>3. j <= j /\ ~(j <= i)
      BY <3>1
    <3>. QED BY <3>2, <3>3
  <2>2. IsFiniteSet(Below(j)) /\ Below(i) # Below(j)
    BY <1>2, <2>1
  <2>3. Cardinality(Below(i)) <= Cardinality(Below(j)) /\ Cardinality(Below(i)) # Cardinality(Below(j))
    <3>. HIDE DEF Below
    <3>. QED BY <2>1, <2>2, FS_Subset
  <2>. QED BY <1>2, <2>3
<1>4. rank \in Injection(I, 1..c)
  <2>1. rank \in [I -> 1..c]
    BY <1>2
  <2>2. ASSUME NEW i \in I, NEW j \in I, rank[i] = rank[j] PROVE i = j
    <3>0. i \in Int /\ j \in Int /\ Cardinality(Below(i)) \in Int /\ Cardinality(Below(j)) \in Int
      BY <1>2
    <3>1. Cardinality(Below(i)) = Cardinality(Below(j))
      BY <2>2
    <3>. HIDE DEF Below
    <3>. QED BY <1>3, <3>0, <3>1
  <2>. HIDE DEF rank
  <2>. QED BY <2>1, <2>2 DEF Injection, IsInjective
<1>5. rank \in Surjection(I, 1..c)
  <2>1. IsFiniteSet(1..c) /\ Cardinality(1..c) = c
    BY <1>1, FS_Interval
  <2>. HIDE DEF rank
  <2>. QED BY <1>1, <1>4, <2>1, FS_Injection
<1>6. ASSUME NEW k \in 1..c PROVE Nth(I, k) \in I /\ Cardinality(Below(Nth(I, k))) = k
  <2>1. \E i \in I : Cardinality(Below(i)) = k
    <3>1. \E i \in I : rank[i] = k
      <4>. HIDE DEF rank
      <4>. QED BY <1>5 DEF Surjection
    <3>. QED BY <3>1
  <2>2. Nth(I, k) = CHOOSE i \in I : Cardinality(Below(i)) = k
    BY DEF Nth
  <2>. HIDE DEF Below
  <2>. QED BY <2>1, <2>2
<1>7. ASSUME NEW i \in I PROVE \E k \in 1..c : Nth(I, k) = i
  <2>. DEFINE k == Cardinality(Below(i))
  <2>1. k \in 1..c
    BY <1>2
  <2>2. Nth(I, k) \in I /\ Cardinality(Below(Nth(I, k))) = k
    BY <1>6, <2>1
  <2>3. rank[Nth(I, k)] = rank[i]
    BY <2>2
  <2>. HIDE DEF rank, k
  <2>. QED BY <1>4, <2>1, <2>2, <2>3 DEF Injection, IsInjective
<1>8. ASSUME NEW k \in 1..c, NEW l \in 1..c, k < l PROVE Nth(I, k) < Nth(I, l)
  <2>. DEFINE i == Nth(I, k)
              j == Nth(I, l)
  <2>1. i \in I /\ j \in I /\ Cardinality(Below(i)) = k /\ Cardinality(Below(j)) = l
    BY <1>6
  <2>2. i \in Int /\ j \in Int
    BY <1>0, <2>1
  <2>. HIDE DEF i, j, Below
  <2>3. ~(j < i) /\ j # i
    BY <1>1, <1>3, <1>8, <2>1
  <2>. QED BY <2>2, <2>3 DEF i, j
<1>. QED BY <1>1, <1>6, <1>7, <1>8

LEMMA AtFacts ==
    ASSUME NEW S, NEW seq \in Seq(S), NEW I \in SUBSET (DOMAIN seq)
    PROVE  LET part == At(seq, I)
           IN  /\ part \in Seq(S) /\ IsFiniteSet(I) /\ Len(part) = Cardinality(I) /\ Len(part) <= Len(seq)
               /\ \A k \in 1..Len(part) : Nth(I, k) \in I /\ part[k] = seq[Nth(I, k)]
               /\ \A i \in I : \E k \in 1..Len(part) : Nth(I, k) = i
               /\ \A k, l \in 1..Len(part) : k < l => Nth(I, k) < Nth(I, l)
               /\ ToSet(part) = {seq[i] : i \in I}
<1>. DEFINE part == At(seq, I)
            c == Cardinality(I)
<1>1. Len(seq) \in Nat /\ DOMAIN seq = 1..Len(seq) /\ \A i \in 1..Len(seq) : seq[i] \in S
  OBVIOUS
<1>2. /\ IsFiniteSet(I) /\ c \in 0..Len(seq)
      /\ \A k \in 1..c : Nth(I, k) \in I
      /\ \A i \in I : \E k \in 1..c : Nth(I, k) = i
      /\ \A k, l \in 1..c : k < l => Nth(I, k) < Nth(I, l)
  BY <1>1, NthFacts
<1>3. part = [k \in 1..c |-> seq[Nth(I, k)]]
  BY DEF At
<1>4. part \in [1..c -> S] /\ c \in Nat
  BY <1>1, <1>2, <1>3
<1>. HIDE DEF part, c
<1>5. part \in Seq(S) /\ Len(part) = c /\ DOMAIN part = 1..c
  BY <1>4
<1>6. \A k \in 1..c : part[k] = seq[Nth(I, k)]
  BY <1>3
<1>7. ToSet(part) = {seq[i] : i \in I}
  <2>1. ASSUME NEW i \in I PROVE seq[i] \in ToSet(part)
    <3>1. PICK k \in 1..c : Nth(I, k) = i
      BY <1>2
    <3>2. part[k] = seq[i] /\ k \in DOMAIN part
      BY <1>5, <1>6, <3>1
    <3>. QED BY <3>2 DEF ToSet
  <2>2. ASSUME NEW x \in ToSet(part) PROVE x \in {seq[i] : i \in I}
    <3>1. PICK k \in 1..c : part[k] = x
      BY <1>5 DEF ToSet
    <3>2. Nth(I, k) \in I /\ part[k] = seq[Nth(I, k)]
      BY <1>2, <1>6
    <3>. QED BY <3>1, <3>2
  <2>. QED BY <2>1, <2>2
<1>8. Len(part) <= Len(seq)
  BY <1>1, <1>2, <1>5
<1>9. Len(part) = Cardinality(I) /\ At(seq, I) = part
  BY <1>5 DEF part, c
<1>. QED BY <1>2, <1>5, <1>6, <1>7, <1>8, <1>9

LEMMA AtAll ==
    ASSUME NEW S, NEW seq \in Seq(S)
    PROVE  At(seq, DOMAIN seq) = seq
<1>. DEFINE I == DOMAIN seq
            n == Len(seq)
<1>1. n \in Nat /\ I = 1..n /\ seq = [i \in 1..n |-> seq[i]]
  OBVIOUS
<1>2. Cardinality(I) = n
  BY <1>1, FS_Interval
<1>3. ASSUME NEW k \in 1..n PROVE Nth(I, k) = k
  <2>1. ASSUME NEW i \in I PROVE Cardinality({j \in I : j <= i}) = i
    <3>1. {j \in I : j <= i} = 1..i /\ i \in Int /\ i >= 1
      BY <1>1
    <3>2. i \in Nat /\ 1 <= i /\ i - 1 + 1 = i
      BY <3>1
    <3>3. Cardinality(1..i) = IF 1 > i THEN 0 ELSE i - 1 + 1
      BY <3>2, FS_Interval
    <3>4. Cardinality(1..i) = i
      BY <3>2, <3>3
    <3>. DEFINE below == {j \in I : j <= i}
    <3>5. below = 1..i
      BY <3>1
    <3>. HIDE DEF below
    <3>6. Cardinality(below) = i
      BY <3>4, <3>5
    <3>. QED BY <3>6 DEF below
  <2>2. Nth(I, k) = CHOOSE i \in I : i = k
    <3>. HIDE DEF I
    <3>1. {i \in I : Cardinality({j \in I : j <= i}) = k} = {i \in I : i = k}
      BY <2>1
    <3>2. k \in I
      BY <1>1
    <3>. QED BY <2>1, <3>2 DEF Nth
  <2>. HIDE DEF I
  <2>. QED BY <1>1, <2>2
<1>. HIDE DEF I, n
<1>4. At(seq, I) = [k \in 1..n |-> seq[Nth(I, k)]]
  BY <1>2 DEF At
<1>5. At(seq, I) = [k \in 1..n |-> seq[k]]
  BY <1>3, <1>4
<1>. QED BY <1>1, <1>5 DEF I

LEMMA DistinctFacts ==
    ASSUME NEW S, NEW seq \in Seq(S)
    PROVE  LET once == Distinct(seq)
           IN  /\ once \in Seq(S) /\ Len(once) <= Len(seq)
               /\ ToSet(once) = ToSet(seq)
               /\ \A k, l \in 1..Len(once) : once[k] = once[l] => k = l
               /\ IsFiniteSet(ToSet(seq)) /\ Len(once) = Cardinality(ToSet(seq))
<1>. DEFINE I == {i \in DOMAIN seq : \A j \in 1..(i - 1) : seq[j] # seq[i]}
            once == Distinct(seq)
<1>0. once = At(seq, I) /\ I \in SUBSET (DOMAIN seq) /\ Len(seq) \in Nat /\ DOMAIN seq = 1..Len(seq)
  BY DEF Distinct
<1>1. /\ once \in Seq(S) /\ Len(once) <= Len(seq)
      /\ \A k \in 1..Len(once) : Nth(I, k) \in I /\ once[k] = seq[Nth(I, k)]
      /\ \A k, l \in 1..Len(once) : k < l => Nth(I, k) < Nth(I, l)
      /\ ToSet(once) = {seq[i] : i \in I}
  <2>. HIDE DEF I, once
  <2>. QED BY <1>0, AtFacts
<1>2. ASSUME NEW x \in ToSet(seq) PROVE \E i \in I : seq[i] = x
  <2>. DEFINE T == {i \in DOMAIN seq : seq[i] = x}
  <2>1. T \subseteq Nat /\ T # {}
    BY <1>0, <1>2 DEF ToSet
  <2>2. PICK i \in T : \A j \in T : i <= j
    BY <2>1, NatMin
  <2>3. i \in DOMAIN seq /\ seq[i] = x /\ i \in Nat
    BY <2>1, <2>2
  <2>4. ASSUME NEW j \in 1..(i - 1), seq[j] = seq[i] PROVE FALSE
    BY <1>0, <2>2, <2>3, <2>4
  <2>. QED BY <2>3, <2>4
<1>3. ToSet(once) = ToSet(seq)
  <2>1. {seq[i] : i \in I} \subseteq ToSet(seq)
    BY <1>0 DEF ToSet
  <2>2. ToSet(seq) \subseteq {seq[i] : i \in I}
    <3>. HIDE DEF I
    <3>. QED BY <1>2
  <2>. HIDE DEF I, once
  <2>. QED BY <1>1, <2>1, <2>2
<1>4. ASSUME NEW k \in 1..Len(once), NEW l \in 1..Len(once), once[k] = once[l], k < l PROVE FALSE
  <2>1. Nth(I, k) \in I /\ Nth(I, l) \in I /\ Nth(I, k) < Nth(I, l) /\ seq[Nth(I, k)] = seq[Nth(I, l)]
    <3>. HIDE DEF I, once
    <3>. QED BY <1>1, <1>4
  <2>2. ASSUME NEW i \in I, NEW j \in I, i < j, seq[i] = seq[j] PROVE FALSE
    BY <1>0, <2>2
  <2>. QED BY <2>1, <2>2
<1>. HIDE DEF I, once
<1>5. \A k, l \in 1..Len(once) : once[k] = once[l] => k = l
  <2>1. \A k, l \in 1..Len(once) : k < l \/ l < k \/ k = l
    BY <1>1
  <2>. QED BY <1>4, <2>1
<1>6. IsFiniteSet(ToSet(seq)) /\ Len(once) = Cardinality(ToSet(seq))
  <2>1. once \in Bijection(1..Len(once), ToSet(once))
    BY <1>1, <1>5 DEF Bijection, Injection, Surjection, IsInjective, ToSet
  <2>2. IsFiniteSet(1..Len(once)) /\ Cardinality(1..Len(once)) = Len(once)
    <3>. DEFINE n == Len(once)
    <3>1. n \in Nat
      BY <1>1
    <3>. HIDE DEF n
    <3>2. IsFiniteSet(1..n) /\ Cardinality(1..n) = n
      BY <3>1, FS_Interval
    <3>. QED BY <3>2 DEF n
  <2>3. ExistsBijection(1..Len(once), ToSet(once))
    BY <2>1 DEF ExistsBijection
  <2>. QED BY <1>3, <2>2, <2>3, FS_Bijection
<1>. QED BY <1>1, <1>3, <1>5, <1>6 DEF once

-----------------------------------------------------------------------------
(* The steps of a provider, over whatever subscribers it has. *)

Phases == {"running", "joined", "cleaning", "done"}
Generation == [phase : Phases, result : Results, restart : {"ok", "fatal"}, clean : BOOLEAN]
Fresh == [phase |-> "running", result |-> "ok", restart |-> "ok", clean |-> FALSE]
Started == [Idle EXCEPT !.phase = "started"]

\* Who may subscribe.
ClientsOf(k) == CASE k \in {"file", "candidates"} -> Clients [] k = "dns-srv" -> OneClient [] OTHER -> {}

Event(st) == [revision |-> st.revision, peers |-> st.peers]
Told(st) == [c \in DOMAIN subs |-> Push(subs[c], Event(st))]

Publishes(p) == state' = Published(p) /\ subs' = Told(Published(p))
Observes == UNCHANGED <<state, subs>> \/ \E p : Publishes(p)

\* The last events that subscribers get of a generation, and who is cut off.
LastTold == IF state.peers = <<>> THEN subs ELSE Told(Published(<<>>))
Ends(unexpected) ==
    /\ state' = [(IF state.peers = <<>> THEN state ELSE Published(<<>>)) EXCEPT !.available = FALSE]
    /\ subs' = [c \in DOMAIN subs |->
                  IF unexpected /\ LastTold[c].phase = "watching" THEN [LastTold[c] EXCEPT !.closed = TRUE]
                  ELSE LastTold[c]]

Starts ==
    /\ MayStart
    /\ gens' = Append(gens, Fresh)
    /\ \/ /\ state' = [state EXCEPT !.available = TRUE]
          /\ subs' = subs \/ \E c \in DOMAIN subs : subs' = [subs EXCEPT ![c] = Started]
       \/ \E p : \E c \in DOMAIN subs :
             /\ state' = [Published(p) EXCEPT !.available = TRUE]
             /\ subs' = [Told(Published(p)) EXCEPT ![c] = Started]
    /\ UNCHANGED stopped

Works == Alive /\ Observes /\ UNCHANGED <<gens, stopped>>

Joins ==
    /\ Alive
    /\ \E r \in Results :
          gens' = [gens EXCEPT ![Len(gens)].phase = "joined", ![Len(gens)].result = r]
    /\ Observes
    /\ UNCHANGED stopped

Finishes(g) ==
    /\ gens[g].phase = "joined"
    /\ Ends(~stopped \/ gens[g].result # "ok")
    /\ gens' = [gens EXCEPT ![g].phase = "cleaning"]
    /\ UNCHANGED stopped

Completes(g, cleaned) ==
    /\ gens[g].phase = "cleaning"
    /\ IF cleaned THEN UNCHANGED <<state, subs>> ELSE Ends(TRUE)
    /\ gens' = [gens EXCEPT ![g].phase = "done", ![g].clean = cleaned,
                            ![g].restart = IF ~cleaned \/ gens[g].result = "fatal" THEN "fatal" ELSE "ok"]
    /\ UNCHANGED stopped

\* What may become of one subscriber by a step of its own.
Received(s) == [s EXCEPT !.last = NextRevision(@), !.queue = Tail(@), !.peers = Head(s.queue).peers]
Subscribed == [Idle EXCEPT !.phase = "watching", !.last = state.revision, !.peers = state.peers]
Turns(s, t) ==
    \/ t \in {Idle, Failed}
    \/ \E r : t = [Idle EXCEPT !.phase = "read", !.read = r]
    \/ gens # <<>> /\ t = Started
    \/ s.phase = "started" /\ state.available /\ t = Subscribed
    \/ s.phase = "watching" /\ ~s.lagged /\ s.queue # <<>> /\ t = Received(s)

Subscribes ==
    /\ \E c \in DOMAIN subs : \E t : Turns(subs[c], t) /\ subs' = [subs EXCEPT ![c] = t]
    /\ UNCHANGED <<gens, stopped, state>>

ProviderStep ==
    \/ UNCHANGED providerVars
    \/ stopped' = TRUE /\ UNCHANGED <<gens, state, subs>>
    \/ Starts
    \/ Works
    \/ Joins
    \/ \E g \in DOMAIN gens : Finishes(g) \/ \E cleaned \in BOOLEAN : Completes(g, cleaned)
    \/ Subscribes

-----------------------------------------------------------------------------
(* Every provider takes these steps only. *)

SubsType == subs = [c \in ClientsOf(kind) |-> subs[c]]

LEMMA FileClients == ASSUME SubsType, kind = "file" PROVE DOMAIN subs = Clients
BY DEF SubsType, ClientsOf

LEMMA DnsClients == ASSUME SubsType, kind = "dns-srv" PROVE DOMAIN subs = OneClient
BY DEF SubsType, ClientsOf

LEMMA NoClients ==
    ASSUME SubsType, kind \in {"mdns", "bootstrap", "bootstrap-seeds"}
    PROVE  DOMAIN subs = {} /\ subs = [c \in {} |-> subs[c]]
BY DEF SubsType, ClientsOf

-----------------------------------------------------------------------------
(* What these steps preserve. *)

IsView(st) == st \in [available : BOOLEAN, revision : {st.revision}, peers : {st.peers}]
IsSub(s) ==
    /\ s \in [phase : {"idle", "failed", "read", "started", "watching"}, read : {s.read}, last : {s.last},
              queue : {s.queue}, lagged : BOOLEAN, closed : BOOLEAN, peers : {s.peers}]
    /\ \E S : s.queue \in Seq(S)

\* The view that a subscriber has when it has taken all its events.
LastKnown(s) == IF s.queue = <<>> THEN s.peers ELSE s.queue[Len(s.queue)].peers

ProviderType ==
    /\ gens \in Seq(Generation)
    /\ stopped \in BOOLEAN
    /\ IsView(state)
    /\ SubsType
    /\ \A c \in DOMAIN subs : IsSub(subs[c])

GensInv ==
    /\ OneGeneration
    /\ gens # <<>> /\ current.phase = "done" /\ current.restart # "fatal" => current.clean
    /\ state.available /\ gens # <<>> => current.phase \in {"running", "joined"}
    /\ gens = <<>> \/ current.phase \in {"cleaning", "done"} => state.peers = <<>>

Served(s) ==
    /\ s.phase \in {"started", "watching"} => gens # <<>>
    /\ s.phase = "watching" => LastKnown(s) = IF s.closed THEN <<>> ELSE state.peers
    /\ s.phase = "watching" /\ ~s.closed /\ current.phase \in {"cleaning", "done"}
       => stopped /\ current.result = "ok"

ProviderInv == ProviderType /\ GensInv /\ \A c \in DOMAIN subs : Served(subs[c])

LEMMA IdleSubs ==
    /\ IsSub(Idle) /\ Idle.phase = "idle"
    /\ IsSub(Failed) /\ Failed.phase = "failed"
    /\ IsSub(Started) /\ Started.phase = "started"
    /\ \A r : LET s == [Idle EXCEPT !.phase = "read", !.read = r] IN IsSub(s) /\ s.phase = "read"
<1>1. <<>> \in Seq({})
  OBVIOUS
<1>. QED BY <1>1 DEF IsSub, Idle, Failed, Started

LEMMA PushType ==
    ASSUME NEW s, IsSub(s), NEW e
    PROVE  /\ IsSub(Push(s, e))
           /\ Push(s, e).phase = s.phase /\ Push(s, e).closed = s.closed
           /\ s.phase = "watching" => LastKnown(Push(s, e)) = IF s.closed THEN LastKnown(s) ELSE e.peers
<1>1. CASE s.phase # "watching" \/ s.closed
  BY <1>1 DEF Push
<1>2. CASE s.phase = "watching" /\ ~s.closed
  <2>1. PICK S : s.queue \in Seq(S)
    BY DEF IsSub
  <2>2. s.queue \in Seq(S \cup {e})
    BY <2>1
  <2>3. Len(s.queue) \in Nat /\ EventCapacity \in Nat /\ EventCapacity >= 1
    BY <2>1, DynamicProviderAssumption
  <2>4. CASE Len(s.queue) < EventCapacity
    <3>. DEFINE q == Append(s.queue, e)
    <3>1. q \in Seq(S \cup {e}) /\ q # <<>> /\ q[Len(q)] = e
      BY <2>2
    <3>2. Push(s, e) = [s EXCEPT !.queue = q]
      BY <1>2, <2>4 DEF Push
    <3>. HIDE DEF q
    <3>. QED BY <1>2, <3>1, <3>2 DEF IsSub, LastKnown
  <2>5. CASE ~(Len(s.queue) < EventCapacity)
    <3>. DEFINE q == Append(Tail(s.queue), e)
    <3>0. s.queue # <<>>
      BY <2>2, <2>3, <2>5
    <3>1. Tail(s.queue) \in Seq(S \cup {e})
      BY <2>2, <3>0
    <3>2. q \in Seq(S \cup {e}) /\ q # <<>> /\ q[Len(q)] = e
      BY <3>1
    <3>3. Push(s, e) = [s EXCEPT !.queue = q, !.lagged = TRUE]
      BY <1>2, <2>5 DEF Push
    <3>. HIDE DEF q
    <3>. QED BY <1>2, <3>2, <3>3 DEF IsSub, LastKnown
  <2>. QED BY <2>4, <2>5
<1>. QED BY <1>1, <1>2 DEF IsSub

LEMMA ReceivedType ==
    ASSUME NEW s, IsSub(s), s.queue # <<>>, s.phase = "watching"
    PROVE  /\ IsSub(Received(s))
           /\ Received(s).phase = "watching" /\ Received(s).closed = s.closed
           /\ LastKnown(Received(s)) = LastKnown(s)
<1>1. PICK S : s.queue \in Seq(S)
  BY DEF IsSub
<1>. DEFINE q == Tail(s.queue)
            h == Head(s.queue).peers
            r == NextRevision(s.last)
<1>2. Received(s) = [s EXCEPT !.last = r, !.queue = q, !.peers = h]
  BY DEF Received, IsSub
<1>3. q \in Seq(S) /\ Len(q) = Len(s.queue) - 1 /\ \A i \in 1..Len(q) : q[i] = s.queue[i + 1]
  BY <1>1
<1>4. h = s.queue[1].peers /\ Len(s.queue) \in Nat
  BY <1>1
<1>. HIDE DEF q, h, r
<1>5. IF q = <<>> THEN h = s.queue[Len(s.queue)].peers ELSE q[Len(q)] = s.queue[Len(s.queue)]
  <2>1. CASE q = <<>>
    <3>1. Len(q) = 0
      BY <2>1
    <3>2. Len(s.queue) = 1
      BY <1>3, <1>4, <3>1
    <3>. QED BY <1>4, <2>1, <3>2
  <2>2. CASE q # <<>>
    <3>1. Len(q) \in 1..Len(q)
      BY <1>3, <2>2
    <3>. QED BY <1>3, <1>4, <2>2, <3>1
  <2>. QED BY <2>1, <2>2
<1>. QED BY <1>2, <1>3, <1>5 DEF IsSub, LastKnown

\* What an observation leaves of the view and the subscribers.
Kept(st, c) ==
    /\ IsSub(subs'[c])
    /\ subs'[c].phase = subs[c].phase
    /\ subs[c].phase = "watching" => LastKnown(subs'[c]) = IF subs'[c].closed THEN <<>> ELSE st.peers

LEMMA ToldKeeps ==
    ASSUME ProviderInv, NEW st
    PROVE  /\ DOMAIN Told(st) = DOMAIN subs
           /\ \A c \in DOMAIN subs :
                /\ IsSub(Told(st)[c])
                /\ Told(st)[c].phase = subs[c].phase
                /\ Told(st)[c].closed = subs[c].closed
                /\ subs[c].phase = "watching" =>
                     LastKnown(Told(st)[c]) = IF subs[c].closed THEN <<>> ELSE st.peers
<1>1. ASSUME NEW c \in DOMAIN subs
      PROVE  /\ IsSub(Told(st)[c])
             /\ Told(st)[c].phase = subs[c].phase
             /\ Told(st)[c].closed = subs[c].closed
             /\ subs[c].phase = "watching" =>
                  LastKnown(Told(st)[c]) = IF subs[c].closed THEN <<>> ELSE st.peers
  <2>1. Told(st)[c] = Push(subs[c], Event(st))
    BY DEF Told
  <2>2. IsSub(subs[c]) /\ Served(subs[c])
    BY DEF ProviderInv, ProviderType
  <2>3. Event(st).peers = st.peers
    BY DEF Event
  <2>. DEFINE x == subs[c]
              e == Event(st)
  <2>4. IsSub(x) /\ e.peers = st.peers /\ Told(st)[c] = Push(x, e)
    BY <2>1, <2>2, <2>3
  <2>5. x.phase = "watching" /\ x.closed => LastKnown(x) = <<>>
    BY <2>2 DEF Served
  <2>. HIDE DEF x, e
  <2>6. /\ IsSub(Push(x, e)) /\ Push(x, e).phase = x.phase /\ Push(x, e).closed = x.closed
        /\ x.phase = "watching" => LastKnown(Push(x, e)) = IF x.closed THEN LastKnown(x) ELSE e.peers
    BY <2>4, PushType
  <2>. QED BY <2>4, <2>5, <2>6 DEF x
<1>. QED BY <1>1 DEF Told

LEMMA PublishedView ==
    ASSUME IsView(state), NEW p
    PROVE  /\ IsView(Published(p)) /\ Published(p).peers = p /\ Published(p).available = state.available
           /\ \A b \in BOOLEAN : LET st == [Published(p) EXCEPT !.available = b]
                                 IN  IsView(st) /\ st.peers = p /\ st.available = b
<1>. DEFINE r == NextRevision(state.revision)
<1>1. Published(p) = [state EXCEPT !.revision = r, !.peers = p]
  BY DEF Published, IsView
<1>. HIDE DEF r
<1>. QED BY <1>1 DEF IsView

LEMMA ObservesKeeps ==
    ASSUME ProviderInv, Observes
    PROVE  /\ IsView(state') /\ state'.available = state.available
           /\ subs' = [c \in DOMAIN subs |-> subs'[c]]
           /\ \A c \in DOMAIN subs : Kept(state', c) /\ subs'[c].closed = subs[c].closed
<1>1. CASE UNCHANGED <<state, subs>>
  BY <1>1 DEF ProviderInv, ProviderType, Kept, Served, SubsType
<1>2. ASSUME NEW p, Publishes(p)
      PROVE  /\ IsView(state') /\ state'.available = state.available
             /\ subs' = [c \in DOMAIN subs |-> subs'[c]]
             /\ \A c \in DOMAIN subs : Kept(state', c) /\ subs'[c].closed = subs[c].closed
  <2>1. state' = Published(p) /\ subs' = Told(Published(p))
    BY <1>2 DEF Publishes
  <2>2. IsView(state') /\ state'.available = state.available
    BY <2>1, PublishedView DEF ProviderInv, ProviderType
  <2>3. subs' = [c \in DOMAIN subs |-> subs'[c]]
    BY <2>1 DEF Told
  <2>4. \A c \in DOMAIN subs : Kept(state', c) /\ subs'[c].closed = subs[c].closed
    BY <2>1, ToldKeeps DEF Kept
  <2>. QED BY <2>2, <2>3, <2>4
<1>. QED BY <1>1, <1>2 DEF Observes

LEMMA EndsKeeps ==
    ASSUME ProviderInv, NEW unexpected \in BOOLEAN, Ends(unexpected)
    PROVE  /\ IsView(state') /\ ~state'.available /\ state'.peers = <<>>
           /\ subs' = [c \in DOMAIN subs |-> subs'[c]]
           /\ \A c \in DOMAIN subs :
                /\ Kept(state', c)
                /\ subs[c].closed => subs'[c].closed
                /\ unexpected /\ subs[c].phase = "watching" => subs'[c].closed
<1>1. IsView(state') /\ ~state'.available /\ state'.peers = <<>>
  <2>. DEFINE st == IF state.peers = <<>> THEN state ELSE Published(<<>>)
  <2>1. IsView(st) /\ st.peers = <<>>
    BY PublishedView DEF ProviderInv, ProviderType
  <2>2. state' = [st EXCEPT !.available = FALSE]
    BY DEF Ends
  <2>. HIDE DEF st
  <2>. QED BY <2>1, <2>2 DEF IsView
<1>2. DOMAIN subs' = DOMAIN subs /\ subs' = [c \in DOMAIN subs |-> subs'[c]]
  BY DEF Ends
<1>3. ASSUME NEW c \in DOMAIN subs
      PROVE  /\ Kept(state', c)
             /\ subs[c].closed => subs'[c].closed
             /\ unexpected /\ subs[c].phase = "watching" => subs'[c].closed
  <2>. DEFINE l == LastTold[c]
  <2>1. subs'[c] = IF unexpected /\ l.phase = "watching" THEN [l EXCEPT !.closed = TRUE] ELSE l
    BY DEF Ends
  <2>2. /\ IsSub(l) /\ l.phase = subs[c].phase /\ l.closed = subs[c].closed
        /\ subs[c].phase = "watching" => LastKnown(l) = <<>>
    <3>1. CASE state.peers = <<>>
      BY <3>1 DEF LastTold, ProviderInv, ProviderType, Served
    <3>2. CASE state.peers # <<>>
      <4>1. IsView(state)
        BY DEF ProviderInv, ProviderType
      <4>. DEFINE st == Published(<<>>)
      <4>2. l = Told(st)[c]
        BY <3>2 DEF LastTold
      <4>3. st.peers = <<>>
        BY <4>1, PublishedView
      <4>. HIDE DEF l, st
      <4>. QED BY <4>2, <4>3, ToldKeeps
    <3>. QED BY <3>1, <3>2
  <2>. HIDE DEF l
  <2>3. CASE unexpected /\ l.phase = "watching"
    <3>1. subs'[c] = [l EXCEPT !.closed = TRUE]
      BY <2>1, <2>3
    <3>2. IsSub(subs'[c]) /\ subs'[c].phase = l.phase /\ subs'[c].closed = TRUE
      BY <2>2, <3>1 DEF IsSub
    <3>3. LastKnown(subs'[c]) = LastKnown(l)
      BY <2>2, <3>1 DEF IsSub, LastKnown
    <3>. QED BY <2>2, <2>3, <3>2, <3>3 DEF Kept
  <2>4. CASE ~(unexpected /\ l.phase = "watching")
    BY <1>1, <2>1, <2>2, <2>4 DEF Kept
  <2>. QED BY <2>3, <2>4
<1>. QED BY <1>1, <1>2, <1>3

\* The invariant after a step, in terms of the new values.
GensKept(gs, st) ==
    LET last == gs[Len(gs)]
    IN  /\ \A g \in 1..(Len(gs) - 1) : gs[g].phase = "done" /\ gs[g].clean
        /\ gs # <<>> /\ last.phase = "done" /\ last.restart # "fatal" => last.clean
        /\ st.available /\ gs # <<>> => last.phase \in {"running", "joined"}
        /\ gs = <<>> \/ last.phase \in {"cleaning", "done"} => st.peers = <<>>

Serves(s, gs, st, stop) ==
    LET last == gs[Len(gs)]
    IN  /\ s.phase \in {"started", "watching"} => gs # <<>>
        /\ s.phase = "watching" => LastKnown(s) = IF s.closed THEN <<>> ELSE st.peers
        /\ s.phase = "watching" /\ ~s.closed /\ last.phase \in {"cleaning", "done"} => stop /\ last.result = "ok"

LEMMA InvIntro ==
    ASSUME ProviderInv, kind' = kind,
           gens' \in Seq(Generation), stopped' \in BOOLEAN, IsView(state'),
           subs' = [c \in DOMAIN subs |-> subs'[c]],
           GensKept(gens', state'),
           \A c \in DOMAIN subs : IsSub(subs'[c]) /\ Serves(subs'[c], gens', state', stopped')
    PROVE  ProviderInv'
<1>0. DOMAIN subs' = DOMAIN subs
  OBVIOUS
<1>1. SubsType'
  <2>1. subs' = [c \in ClientsOf(kind) |-> subs'[c]]
    BY DEF ProviderInv, ProviderType, SubsType
  <2>. QED BY <2>1 DEF SubsType, ClientsOf
<1>2. IsView(state)' /\ \A c \in DOMAIN subs' : IsSub(subs[c])'
  BY <1>0 DEF IsView, IsSub
<1>3. ProviderType'
  BY <1>1, <1>2 DEF ProviderType
<1>4. GensInv'
  BY DEF GensKept, GensInv, OneGeneration, current
<1>5. \A c \in DOMAIN subs' : Served(subs[c])'
  BY <1>0 DEF Serves, Served, current, LastKnown
<1>. QED BY <1>3, <1>4, <1>5 DEF ProviderInv

LEMMA InvElim ==
    ASSUME ProviderInv
    PROVE  /\ gens \in Seq(Generation) /\ Len(gens) \in Nat /\ stopped \in BOOLEAN /\ IsView(state)
           /\ subs = [c \in DOMAIN subs |-> subs[c]]
           /\ GensKept(gens, state)
           /\ \A c \in DOMAIN subs : IsSub(subs[c]) /\ Serves(subs[c], gens, state, stopped)
<1>1. subs = [c \in DOMAIN subs |-> subs[c]]
  BY DEF ProviderInv, ProviderType, SubsType
<1>2. GensKept(gens, state)
  BY DEF ProviderInv, GensInv, GensKept, OneGeneration, current
<1>3. \A c \in DOMAIN subs : IsSub(subs[c]) /\ Serves(subs[c], gens, state, stopped)
  BY DEF ProviderInv, ProviderType, Served, Serves, current
<1>. QED BY <1>1, <1>2, <1>3 DEF ProviderInv, ProviderType

LEMMA RestKeeps ==
    ASSUME ProviderInv, kind' = kind, UNCHANGED <<gens, state, subs>>, stopped' \in {stopped, TRUE}
    PROVE  ProviderInv'
<1>1. ASSUME NEW c \in DOMAIN subs PROVE IsSub(subs'[c]) /\ Serves(subs'[c], gens', state', stopped')
  <2>1. IsSub(subs[c]) /\ Serves(subs[c], gens, state, stopped)
    BY InvElim
  <2>2. stopped => stopped'
    BY InvElim
  <2>3. subs'[c] = subs[c] /\ gens' = gens /\ state' = state
    OBVIOUS
  <2>. QED BY <2>1, <2>2, <2>3 DEF Serves
<1>2. GensKept(gens', state') /\ gens' \in Seq(Generation) /\ stopped' \in BOOLEAN /\ IsView(state')
  BY InvElim
<1>3. subs' = [c \in DOMAIN subs |-> subs'[c]]
  BY InvElim
<1>. QED BY <1>1, <1>2, <1>3, InvIntro

LEMMA WorksKeeps ==
    ASSUME ProviderInv, kind' = kind, Works
    PROVE  ProviderInv'
<1>1. gens' = gens /\ stopped' = stopped /\ gens # <<>> /\ gens[Len(gens)].phase = "running" /\ Observes
  BY DEF Works, Alive, current
<1>2. GensKept(gens', state')
  BY <1>1, InvElim, ObservesKeeps DEF GensKept
<1>3. ASSUME NEW c \in DOMAIN subs PROVE IsSub(subs'[c]) /\ Serves(subs'[c], gens', state', stopped')
  <2>1. Kept(state', c) /\ Serves(subs[c], gens, state, stopped)
    BY <1>1, InvElim, ObservesKeeps
  <2>. QED BY <1>1, <2>1 DEF Kept, Serves
<1>. QED BY <1>1, <1>2, <1>3, InvElim, InvIntro, ObservesKeeps

\* The generations after a step of the last one.
LEMMA LastChanges ==
    ASSUME NEW gs \in Seq(Generation), gs # <<>>, NEW e \in Generation
    PROVE  LET hs == [gs EXCEPT ![Len(gs)] = e]
           IN  /\ hs \in Seq(Generation) /\ Len(hs) = Len(gs) /\ hs # <<>> /\ hs[Len(hs)] = e
               /\ \A g \in 1..(Len(gs) - 1) : hs[g] = gs[g]
OBVIOUS

LEMMA JoinsKeeps ==
    ASSUME ProviderInv, kind' = kind, Joins
    PROVE  ProviderInv'
<1>1. stopped' = stopped /\ gens # <<>> /\ gens[Len(gens)].phase = "running" /\ Observes
  BY DEF Joins, Alive, current
<1>2. PICK r \in Results : gens' = [gens EXCEPT ![Len(gens)].phase = "joined", ![Len(gens)].result = r]
  BY DEF Joins
<1>. DEFINE e == [gens[Len(gens)] EXCEPT !.phase = "joined", !.result = r]
<1>3. gens \in Seq(Generation) /\ gens[Len(gens)] \in Generation
  BY <1>1, InvElim
<1>4. e \in Generation /\ e.phase = "joined"
  BY <1>3 DEF Generation, Phases
<1>5. gens' = [gens EXCEPT ![Len(gens)] = e]
  BY <1>1, <1>2, <1>3
<1>. HIDE DEF e
<1>6. /\ gens' \in Seq(Generation) /\ Len(gens') = Len(gens) /\ gens' # <<>> /\ gens'[Len(gens')] = e
      /\ \A g \in 1..(Len(gens) - 1) : gens'[g] = gens[g]
  BY <1>1, <1>3, <1>4, <1>5, LastChanges
<1>7. GensKept(gens', state')
  BY <1>1, <1>4, <1>6, InvElim, ObservesKeeps DEF GensKept
<1>8. ASSUME NEW c \in DOMAIN subs PROVE IsSub(subs'[c]) /\ Serves(subs'[c], gens', state', stopped')
  BY <1>1, <1>4, <1>6, InvElim, ObservesKeeps DEF Kept, Serves
<1>. QED BY <1>1, <1>6, <1>7, <1>8, InvElim, InvIntro, ObservesKeeps

\* Only the last generation has not ended.
LEMMA OnlyTheLast ==
    ASSUME ProviderInv, NEW g \in DOMAIN gens, gens[g].phase # "done"
    PROVE  g = Len(gens) /\ gens # <<>> /\ gens[g] \in Generation
<1>1. g \in 1..Len(gens) /\ Len(gens) \in Nat /\ gens[g] \in Generation
  BY InvElim
<1>2. ~(g \in 1..(Len(gens) - 1))
  BY InvElim DEF GensKept
<1>. QED BY <1>1, <1>2

LEMMA FinishesKeeps ==
    ASSUME ProviderInv, kind' = kind, NEW g \in DOMAIN gens, Finishes(g)
    PROVE  ProviderInv'
<1>1. /\ stopped' = stopped /\ gens[g].phase = "joined"
      /\ Ends(~stopped \/ gens[g].result # "ok")
      /\ gens' = [gens EXCEPT ![g].phase = "cleaning"]
  BY DEF Finishes
<1>2. g = Len(gens) /\ gens # <<>> /\ gens[g] \in Generation
  BY <1>1, OnlyTheLast
<1>. DEFINE e == [gens[g] EXCEPT !.phase = "cleaning"]
            unexpected == ~stopped \/ gens[g].result # "ok"
<1>3. gens \in Seq(Generation)
  BY InvElim
<1>4. e \in Generation /\ e.phase = "cleaning" /\ e.result = gens[g].result
  BY <1>2 DEF Generation, Phases
<1>5. gens' = [gens EXCEPT ![Len(gens)] = e]
  BY <1>1, <1>2, <1>3
<1>. HIDE DEF e
<1>6. /\ gens' \in Seq(Generation) /\ Len(gens') = Len(gens) /\ gens' # <<>> /\ gens'[Len(gens')] = e
      /\ \A h \in 1..(Len(gens) - 1) : gens'[h] = gens[h]
  BY <1>2, <1>3, <1>4, <1>5, LastChanges
<1>7. /\ IsView(state') /\ ~state'.available /\ state'.peers = <<>>
      /\ subs' = [c \in DOMAIN subs |-> subs'[c]]
      /\ \A c \in DOMAIN subs :
           /\ Kept(state', c)
           /\ subs[c].closed => subs'[c].closed
           /\ unexpected /\ subs[c].phase = "watching" => subs'[c].closed
  <2>1. unexpected \in BOOLEAN /\ Ends(unexpected)
    BY <1>1
  <2>. HIDE DEF unexpected
  <2>. QED BY <2>1, EndsKeeps
<1>8. GensKept(gens', state')
  BY <1>4, <1>6, <1>7, InvElim DEF GensKept
<1>9. ASSUME NEW c \in DOMAIN subs PROVE IsSub(subs'[c]) /\ Serves(subs'[c], gens', state', stopped')
  <2>1. Kept(state', c) /\ Serves(subs[c], gens, state, stopped)
    BY <1>7, InvElim
  <2>2. subs[c].phase = "watching" /\ ~subs'[c].closed => stopped' /\ e.result = "ok"
    <3>1. ~unexpected => stopped' /\ e.result = "ok"
      BY <1>1, <1>4
    <3>. HIDE DEF unexpected
    <3>. QED BY <1>7, <3>1
  <2>. QED BY <1>6, <2>1, <2>2 DEF Kept, Serves
<1>. QED BY <1>1, <1>6, <1>7, <1>8, <1>9, InvElim, InvIntro

LEMMA CompletesKeeps ==
    ASSUME ProviderInv, kind' = kind, NEW g \in DOMAIN gens, NEW cleaned \in BOOLEAN, Completes(g, cleaned)
    PROVE  ProviderInv'
<1>. DEFINE f == IF ~cleaned \/ gens[g].result = "fatal" THEN "fatal" ELSE "ok"
            e == [gens[g] EXCEPT !.phase = "done", !.clean = cleaned, !.restart = f]
<1>1. /\ stopped' = stopped /\ gens[g].phase = "cleaning"
      /\ IF cleaned THEN UNCHANGED <<state, subs>> ELSE Ends(TRUE)
      /\ gens' = [gens EXCEPT ![g].phase = "done", ![g].clean = cleaned, ![g].restart = f]
  BY DEF Completes
<1>2. g = Len(gens) /\ gens # <<>> /\ gens[g] \in Generation
  BY <1>1, OnlyTheLast
<1>3. gens \in Seq(Generation)
  BY InvElim
<1>4. /\ e \in Generation /\ e.phase = "done" /\ e.result = gens[g].result
      /\ e.restart # "fatal" => e.clean
  <2>1. f \in {"ok", "fatal"} /\ (f # "fatal" => cleaned)
    OBVIOUS
  <2>. HIDE DEF f
  <2>. QED BY <1>2, <2>1 DEF Generation, Phases
<1>5. gens' = [gens EXCEPT ![Len(gens)] = e]
  <2>. HIDE DEF f
  <2>. QED BY <1>1, <1>2, <1>3
<1>. HIDE DEF e
<1>6. /\ gens' \in Seq(Generation) /\ Len(gens') = Len(gens) /\ gens' # <<>> /\ gens'[Len(gens')] = e
      /\ \A h \in 1..(Len(gens) - 1) : gens'[h] = gens[h]
  BY <1>2, <1>3, <1>4, <1>5, LastChanges
<1>7. /\ IsView(state') /\ ~state'.available /\ state'.peers = <<>>
      /\ subs' = [c \in DOMAIN subs |-> subs'[c]]
      /\ \A c \in DOMAIN subs :
           /\ Kept(state', c)
           /\ subs[c].closed => subs'[c].closed
           /\ subs[c].phase = "watching" => subs'[c].closed \/ (stopped /\ gens[g].result = "ok")
  <2>1. CASE cleaned
    <3>1. state' = state /\ subs' = subs
      BY <1>1, <2>1
    <3>2. ~state.available /\ state.peers = <<>>
      BY <1>1, <1>2, InvElim DEF GensKept, IsView
    <3>. QED BY <1>1, <1>2, <3>1, <3>2, InvElim DEF Serves, Kept
  <2>2. CASE ~cleaned
    BY <1>1, <2>2, EndsKeeps
  <2>. QED BY <2>1, <2>2
<1>8. GensKept(gens', state')
  BY <1>4, <1>6, <1>7, InvElim DEF GensKept
<1>9. ASSUME NEW c \in DOMAIN subs PROVE IsSub(subs'[c]) /\ Serves(subs'[c], gens', state', stopped')
  <2>1. Kept(state', c) /\ Serves(subs[c], gens, state, stopped)
    BY <1>7, InvElim
  <2>2. subs[c].phase = "watching" /\ ~subs'[c].closed => stopped' /\ e.result = "ok"
    BY <1>1, <1>4, <1>7
  <2>. QED BY <1>6, <2>1, <2>2 DEF Kept, Serves
<1>. QED BY <1>1, <1>6, <1>7, <1>8, <1>9, InvElim, InvIntro

LEMMA StartsKeeps ==
    ASSUME ProviderInv, kind' = kind, Starts
    PROVE  ProviderInv'
<1>1. stopped' = stopped /\ MayStart /\ gens' = Append(gens, Fresh)
  BY DEF Starts
<1>2. gens \in Seq(Generation) /\ Fresh \in Generation /\ Fresh.phase = "running"
  BY InvElim DEF Generation, Fresh, Phases, Results
<1>3. /\ gens' \in Seq(Generation) /\ Len(gens') = Len(gens) + 1 /\ gens' # <<>> /\ gens'[Len(gens')] = Fresh
      /\ \A g \in 1..Len(gens) : gens'[g] = gens[g]
  BY <1>1, <1>2
<1>4. gens # <<>> => gens[Len(gens)].phase = "done" /\ gens[Len(gens)].restart # "fatal"
  BY <1>1 DEF MayStart, running, current
<1>5. \A g \in 1..(Len(gens') - 1) : gens'[g].phase = "done" /\ gens'[g].clean
  <2>1. ASSUME NEW g \in 1..Len(gens) PROVE gens[g].phase = "done" /\ gens[g].clean
    <3>1. gens # <<>> /\ Len(gens) \in Nat
      BY <1>2
    <3>2. CASE g = Len(gens)
      BY <1>4, <3>1, <3>2, InvElim DEF GensKept
    <3>3. CASE g \in 1..(Len(gens) - 1)
      BY <3>3, InvElim DEF GensKept
    <3>. QED BY <3>1, <3>2, <3>3
  <2>2. Len(gens') - 1 = Len(gens)
    BY <1>2, <1>3
  <2>. QED BY <1>3, <2>1, <2>2
<1>6. GensKept(gens', state')
  BY <1>2, <1>3, <1>5 DEF GensKept
<1>7. /\ IsView(state') /\ subs' = [c \in DOMAIN subs |-> subs'[c]]
      /\ \A c \in DOMAIN subs : subs'[c] = Started \/ Kept(state', c)
  <2>0. IsView(state) /\ subs = [c \in DOMAIN subs |-> subs[c]]
    BY InvElim
  <2>1. CASE /\ state' = [state EXCEPT !.available = TRUE]
             /\ subs' = subs \/ \E c \in DOMAIN subs : subs' = [subs EXCEPT ![c] = Started]
    <3>1. IsView(state') /\ state'.peers = state.peers
      BY <2>0, <2>1 DEF IsView
    <3>2. subs' = [c \in DOMAIN subs |-> subs'[c]] /\ \A c \in DOMAIN subs : subs'[c] \in {subs[c], Started}
      BY <2>0, <2>1
    <3>3. ASSUME NEW c \in DOMAIN subs, subs'[c] = subs[c] PROVE Kept(state', c)
      BY <3>1, <3>3, InvElim DEF Kept, Serves
    <3>. QED BY <3>1, <3>2, <3>3
  <2>2. CASE \E p : \E c \in DOMAIN subs :
                /\ state' = [Published(p) EXCEPT !.available = TRUE]
                /\ subs' = [Told(Published(p)) EXCEPT ![c] = Started]
    <3>1. PICK p : \E c \in DOMAIN subs :
                /\ state' = [Published(p) EXCEPT !.available = TRUE]
                /\ subs' = [Told(Published(p)) EXCEPT ![c] = Started]
      BY <2>2
    <3>2. PICK d \in DOMAIN subs :
                /\ state' = [Published(p) EXCEPT !.available = TRUE]
                /\ subs' = [Told(Published(p)) EXCEPT ![d] = Started]
      BY <3>1
    <3>. DEFINE st == Published(p)
                told == Told(st)
    <3>3. IsView(state') /\ state'.peers = p /\ st.peers = p
      BY <2>0, <3>2, PublishedView
    <3>4. /\ DOMAIN told = DOMAIN subs /\ told = [c \in DOMAIN subs |-> told[c]]
          /\ \A c \in DOMAIN subs :
               /\ IsSub(told[c])
               /\ told[c].phase = subs[c].phase
               /\ told[c].closed = subs[c].closed
               /\ subs[c].phase = "watching" => LastKnown(told[c]) = IF subs[c].closed THEN <<>> ELSE st.peers
      <4>1. told = [c \in DOMAIN subs |-> told[c]]
        BY DEF Told
      <4>. HIDE DEF st
      <4>. QED BY <4>1, ToldKeeps
    <3>5. subs' = [told EXCEPT ![d] = Started]
      BY <3>2
    <3>. HIDE DEF told, st
    <3>6. subs' = [c \in DOMAIN subs |-> subs'[c]] /\ \A c \in DOMAIN subs : subs'[c] \in {told[c], Started}
      BY <3>4, <3>5
    <3>7. ASSUME NEW c \in DOMAIN subs, subs'[c] = told[c] PROVE Kept(state', c)
      BY <3>3, <3>4, <3>7 DEF Kept
    <3>. QED BY <3>3, <3>6, <3>7
  <2>. QED BY <2>1, <2>2 DEF Starts
<1>8. ASSUME NEW c \in DOMAIN subs PROVE IsSub(subs'[c]) /\ Serves(subs'[c], gens', state', stopped')
  <2>1. CASE subs'[c] = Started
    BY <1>3, <2>1, IdleSubs DEF Serves
  <2>2. CASE Kept(state', c)
    BY <1>2, <1>3, <2>2 DEF Kept, Serves
  <2>. QED BY <1>7, <2>1, <2>2
<1>. QED BY <1>1, <1>3, <1>6, <1>7, <1>8, InvElim, InvIntro

LEMMA SubscribesKeeps ==
    ASSUME ProviderInv, kind' = kind, Subscribes
    PROVE  ProviderInv'
<1>1. UNCHANGED <<gens, stopped, state>>
  BY DEF Subscribes
<1>2. PICK c \in DOMAIN subs : \E t : Turns(subs[c], t) /\ subs' = [subs EXCEPT ![c] = t]
  BY DEF Subscribes
<1>3. PICK t : Turns(subs[c], t) /\ subs' = [subs EXCEPT ![c] = t]
  BY <1>2
<1>4. IsSub(subs[c]) /\ Serves(subs[c], gens, state, stopped) /\ IsView(state)
  BY InvElim
<1>5. IsSub(t) /\ Serves(t, gens, state, stopped)
  <2>1. CASE t \in {Idle, Failed}
    BY <2>1, IdleSubs DEF Serves
  <2>2. CASE \E r : t = [Idle EXCEPT !.phase = "read", !.read = r]
    BY <2>2, IdleSubs DEF Serves
  <2>3. CASE gens # <<>> /\ t = Started
    BY <2>3, IdleSubs DEF Serves
  <2>4. CASE subs[c].phase = "started" /\ state.available /\ t = Subscribed
    <3>1. IsSub(t)
      <4>1. <<>> \in Seq({})
        OBVIOUS
      <4>. QED BY <2>4, <4>1 DEF IsSub, Subscribed, Idle
    <3>2. t.phase = "watching" /\ ~t.closed /\ LastKnown(t) = state.peers
      BY <2>4 DEF Subscribed, Idle, LastKnown
    <3>3. gens # <<>>
      BY <1>4, <2>4 DEF Serves
    <3>4. gens[Len(gens)].phase \in {"running", "joined"}
      BY <2>4, <3>3, InvElim DEF GensKept
    <3>. QED BY <3>1, <3>2, <3>3, <3>4 DEF Serves
  <2>5. CASE subs[c].phase = "watching" /\ ~subs[c].lagged /\ subs[c].queue # <<>> /\ t = Received(subs[c])
    <3>. DEFINE s == subs[c]
    <3>1. IsSub(s) /\ s.queue # <<>> /\ s.phase = "watching" /\ t = Received(s)
      BY <1>4, <2>5
    <3>2. Serves(s, gens, state, stopped)
      BY <1>4
    <3>. HIDE DEF s
    <3>3. IsSub(t) /\ t.phase = "watching" /\ t.closed = s.closed /\ LastKnown(t) = LastKnown(s)
      BY <3>1, ReceivedType
    <3>. QED BY <3>1, <3>2, <3>3 DEF Serves
  <2>. QED BY <1>3, <2>1, <2>2, <2>3, <2>4, <2>5 DEF Turns
<1>6. subs = [d \in DOMAIN subs |-> subs[d]]
  BY InvElim
<1>7. subs' = [d \in DOMAIN subs |-> subs'[d]] /\ \A d \in DOMAIN subs : subs'[d] \in {subs[d], t}
  BY <1>3, <1>6
<1>8. ASSUME NEW d \in DOMAIN subs PROVE IsSub(subs'[d]) /\ Serves(subs'[d], gens', state', stopped')
  BY <1>1, <1>5, <1>7, InvElim
<1>. QED BY <1>1, <1>7, <1>8, InvElim, InvIntro

LEMMA ProviderStepKeeps ==
    ASSUME ProviderInv, kind' = kind, ProviderStep
    PROVE  ProviderInv'
BY InvElim, RestKeeps, StartsKeeps, WorksKeeps, JoinsKeeps, FinishesKeeps, CompletesKeeps, SubscribesKeeps
   DEF ProviderStep, providerVars

LEMMA FilePublishes ==
    ASSUME SubsType, kind = "file", NEW p, File!publish(p)
    PROVE  Publishes(p)
<1>1. DOMAIN subs = Clients
  BY FileClients
<1>2. File!Published(p) = Published(p)
  BY DEF File!Published, File!NextRevision, Published, NextRevision
<1>3. ASSUME NEW st PROVE File!Broadcast(st) = Told(st)
  BY <1>1 DEF File!Broadcast, File!Push, Told, Push, Event
<1>. QED BY <1>2, <1>3 DEF File!publish, Publishes

LEMMA FileObserves ==
    ASSUME SubsType, kind = "file", NEW p, File!observe_at(p)
    PROVE  Observes
BY FilePublishes DEF File!observe_at, Observes

LEMMA FileEnds ==
    ASSUME SubsType, kind = "file", NEW unexpected, File!finish(unexpected)
    PROVE  Ends(unexpected)
<1>1. DOMAIN subs = Clients
  BY FileClients
<1>2. File!Published(<<>>) = Published(<<>>)
  BY DEF File!Published, File!NextRevision, Published, NextRevision
<1>3. ASSUME NEW st PROVE File!Broadcast(st) = Told(st)
  BY <1>1 DEF File!Broadcast, File!Push, Told, Push, Event
<1>4. (IF state.peers = <<>> THEN subs ELSE File!Broadcast(File!Published(<<>>))) = LastTold
  BY <1>2, <1>3 DEF LastTold
<1>. QED BY <1>1, <1>2, <1>4 DEF File!finish, Ends

LEMMA FileCompletes ==
    ASSUME SubsType, kind = "file", NEW g \in DOMAIN gens, NEW cleaned \in BOOLEAN, File!Complete(g, cleaned)
    PROVE  ProviderStep
<1>1. Completes(g, cleaned)
  BY FileEnds DEF File!Complete, Completes
<1>. QED BY <1>1 DEF ProviderStep

LEMMA FileJoins ==
    ASSUME NEW r \in Results, File!WorkerReturns(r)
    PROVE  ProviderStep
<1>1. Joins
  BY DEF File!WorkerReturns, File!Alive, File!current, Joins, Alive, current, Observes
<1>. QED BY <1>1 DEF ProviderStep

LEMMA FileProviderNext ==
    ASSUME SubsType, kind = "file", File!ProviderNext
    PROVE  ProviderStep
<1>1. ASSUME NEW g \in DOMAIN gens, File!Finish(g) PROVE ProviderStep
  <2>1. Finishes(g)
    BY <1>1, FileEnds DEF File!Finish, Finishes
  <2>. QED BY <2>1 DEF ProviderStep
<1>2. ASSUME NEW c \in Clients, File!EnsureStarted(c) \/ File!LiveWatch(c) \/ File!Recv(c)
      PROVE  ProviderStep
  <2>1. c \in DOMAIN subs
    BY FileClients
  <2>2. CASE File!EnsureStarted(c)
    <3>. DEFINE t == IF ~stopped /\ File!running = "yes" THEN Started ELSE Failed
    <3>1. Turns(subs[c], t)
      BY DEF File!running, Turns
    <3>2. subs' = [subs EXCEPT ![c] = t] /\ UNCHANGED <<gens, stopped, state>>
      BY <2>2 DEF File!EnsureStarted, File!Idle, File!Failed, Started, Idle, Failed
    <3>. HIDE DEF t
    <3>3. Subscribes
      BY <2>1, <3>1, <3>2 DEF Subscribes
    <3>. QED BY <3>3 DEF ProviderStep
  <2>3. CASE File!LiveWatch(c)
    <3>. DEFINE t == IF ~state.available THEN Idle ELSE Subscribed
    <3>1. Turns(subs[c], t)
      BY <2>3 DEF File!LiveWatch, Turns
    <3>2. subs' = [subs EXCEPT ![c] = t] /\ UNCHANGED <<gens, stopped, state>>
      BY <2>3 DEF File!LiveWatch, File!Idle, Subscribed, Idle
    <3>. HIDE DEF t
    <3>3. Subscribes
      BY <2>1, <3>1, <3>2 DEF Subscribes
    <3>. QED BY <3>3 DEF ProviderStep
  <2>4. CASE File!Recv(c)
    <3>. DEFINE s == subs[c]
                t == IF s.lagged \/ s.queue = <<>> \/ Head(s.queue).revision # NextRevision(s.last) THEN Idle
                     ELSE Received(s)
    <3>1. Turns(s, t)
      BY <2>4 DEF File!Recv, Turns
    <3>2. subs' = [subs EXCEPT ![c] = t] /\ UNCHANGED <<gens, stopped, state>>
      BY <2>4 DEF File!Recv, File!Idle, File!NextRevision, NextRevision, Received, Idle
    <3>. HIDE DEF t
    <3>3. Subscribes
      BY <2>1, <3>1, <3>2 DEF Subscribes
    <3>. QED BY <3>3 DEF ProviderStep
  <2>. QED BY <1>2, <2>2, <2>3, <2>4
<1>. QED BY <1>1, <1>2 DEF File!ProviderNext

LEMMA FileDiscovers ==
    ASSUME NEW w, File!Discover(w)
    PROVE  ProviderStep
<1>1. File!MayStart <=> MayStart
  BY DEF File!MayStart, File!running, File!current, MayStart, running, current
<1>2. Starts
  BY <1>1 DEF File!Discover, File!spawn, Starts, Fresh
<1>. QED BY <1>2 DEF ProviderStep

LEMMA FileStops ==
    ASSUME File!RequestShutdown
    PROVE  ProviderStep
BY DEF File!RequestShutdown, ProviderStep

LEMMA DnsPublishes ==
    ASSUME SubsType, kind = "dns-srv", NEW p, Dns!publish(p)
    PROVE  Publishes(p)
<1>1. DOMAIN subs = OneClient
  BY DnsClients
<1>2. Dns!Published(p) = Published(p)
  BY DEF Dns!Published, Dns!NextRevision, Published, NextRevision
<1>3. ASSUME NEW st PROVE Dns!Broadcast(st) = Told(st)
  BY <1>1 DEF Dns!Broadcast, Dns!Push, Told, Push, Event
<1>. QED BY <1>2, <1>3 DEF Dns!publish, Publishes

LEMMA DnsObserves ==
    ASSUME SubsType, kind = "dns-srv", NEW p, Dns!observe_at(p)
    PROVE  Observes
BY DnsPublishes DEF Dns!observe_at, Observes

LEMMA DnsEnds ==
    ASSUME SubsType, kind = "dns-srv", NEW unexpected, Dns!finish(unexpected)
    PROVE  Ends(unexpected)
<1>1. DOMAIN subs = OneClient
  BY DnsClients
<1>2. Dns!Published(<<>>) = Published(<<>>)
  BY DEF Dns!Published, Dns!NextRevision, Published, NextRevision
<1>3. ASSUME NEW st PROVE Dns!Broadcast(st) = Told(st)
  BY <1>1 DEF Dns!Broadcast, Dns!Push, Told, Push, Event
<1>4. (IF state.peers = <<>> THEN subs ELSE Dns!Broadcast(Dns!Published(<<>>))) = LastTold
  BY <1>2, <1>3 DEF LastTold
<1>. QED BY <1>1, <1>2, <1>4 DEF Dns!finish, Ends

LEMMA DnsCompletes ==
    ASSUME SubsType, kind = "dns-srv", NEW g \in DOMAIN gens, NEW cleaned \in BOOLEAN, Dns!Complete(g, cleaned)
    PROVE  ProviderStep
<1>1. Completes(g, cleaned)
  BY DnsEnds DEF Dns!Complete, Completes
<1>. QED BY <1>1 DEF ProviderStep

LEMMA DnsJoins ==
    ASSUME NEW r \in Results, Dns!WorkerReturns(r)
    PROVE  ProviderStep
<1>1. Joins
  BY DEF Dns!WorkerReturns, Dns!Alive, Dns!current, Joins, Alive, current, Observes
<1>. QED BY <1>1 DEF ProviderStep

LEMMA DnsProviderNext ==
    ASSUME SubsType, kind = "dns-srv", Dns!ProviderNext
    PROVE  ProviderStep
<1>1. ASSUME NEW g \in DOMAIN gens, Dns!Finish(g) PROVE ProviderStep
  <2>1. Finishes(g)
    BY <1>1, DnsEnds DEF Dns!Finish, Finishes
  <2>. QED BY <2>1 DEF ProviderStep
<1>2. ASSUME NEW c \in OneClient, Dns!EnsureStarted(c) \/ Dns!LiveWatch(c) \/ Dns!Recv(c)
      PROVE  ProviderStep
  <2>1. c \in DOMAIN subs
    BY DnsClients
  <2>2. CASE Dns!EnsureStarted(c)
    <3>. DEFINE t == IF ~stopped /\ Dns!running = "yes" THEN Started ELSE Failed
    <3>1. Turns(subs[c], t)
      BY DEF Dns!running, Turns
    <3>2. subs' = [subs EXCEPT ![c] = t] /\ UNCHANGED <<gens, stopped, state>>
      BY <2>2 DEF Dns!EnsureStarted, Dns!Idle, Dns!Failed, Started, Idle, Failed
    <3>. HIDE DEF t
    <3>3. Subscribes
      BY <2>1, <3>1, <3>2 DEF Subscribes
    <3>. QED BY <3>3 DEF ProviderStep
  <2>3. CASE Dns!LiveWatch(c)
    <3>. DEFINE t == IF ~state.available THEN Idle ELSE Subscribed
    <3>1. Turns(subs[c], t)
      BY <2>3 DEF Dns!LiveWatch, Turns
    <3>2. subs' = [subs EXCEPT ![c] = t] /\ UNCHANGED <<gens, stopped, state>>
      BY <2>3 DEF Dns!LiveWatch, Dns!Idle, Subscribed, Idle
    <3>. HIDE DEF t
    <3>3. Subscribes
      BY <2>1, <3>1, <3>2 DEF Subscribes
    <3>. QED BY <3>3 DEF ProviderStep
  <2>4. CASE Dns!Recv(c)
    <3>. DEFINE s == subs[c]
                t == IF s.lagged \/ s.queue = <<>> \/ Head(s.queue).revision # NextRevision(s.last) THEN Idle
                     ELSE Received(s)
    <3>1. Turns(s, t)
      BY <2>4 DEF Dns!Recv, Turns
    <3>2. subs' = [subs EXCEPT ![c] = t] /\ UNCHANGED <<gens, stopped, state>>
      BY <2>4 DEF Dns!Recv, Dns!Idle, Dns!NextRevision, NextRevision, Received, Idle
    <3>. HIDE DEF t
    <3>3. Subscribes
      BY <2>1, <3>1, <3>2 DEF Subscribes
    <3>. QED BY <3>3 DEF ProviderStep
  <2>. QED BY <1>2, <2>2, <2>3, <2>4
<1>. QED BY <1>1, <1>2 DEF Dns!ProviderNext

LEMMA DnsDiscovers ==
    ASSUME NEW w, Dns!Discover(w)
    PROVE  ProviderStep
<1>1. Dns!MayStart <=> MayStart
  BY DEF Dns!MayStart, Dns!running, Dns!current, MayStart, running, current
<1>2. Starts
  BY <1>1 DEF Dns!Discover, Dns!spawn, Starts, Fresh
<1>. QED BY <1>2 DEF ProviderStep

LEMMA DnsStops ==
    ASSUME Dns!RequestShutdown
    PROVE  ProviderStep
BY DEF Dns!RequestShutdown, ProviderStep

LEMMA LanPublishes ==
    ASSUME SubsType, kind = "mdns", NEW p, Lan!publish(p)
    PROVE  Publishes(p)
<1>1. DOMAIN subs = {}
  BY NoClients
<1>2. Lan!Published(p) = Published(p)
  BY DEF Lan!Published, Lan!NextRevision, Published, NextRevision
<1>3. ASSUME NEW st PROVE Lan!Broadcast(st) = Told(st)
  BY <1>1 DEF Lan!Broadcast, Lan!Push, Told, Push, Event
<1>. QED BY <1>2, <1>3 DEF Lan!publish, Publishes

LEMMA LanObserves ==
    ASSUME SubsType, kind = "mdns", NEW p, Lan!observe_at(p)
    PROVE  Observes
BY LanPublishes DEF Lan!observe_at, Observes

LEMMA LanEnds ==
    ASSUME SubsType, kind = "mdns", NEW unexpected, Lan!finish(unexpected)
    PROVE  Ends(unexpected)
<1>1. DOMAIN subs = {}
  BY NoClients
<1>2. Lan!Published(<<>>) = Published(<<>>)
  BY DEF Lan!Published, Lan!NextRevision, Published, NextRevision
<1>3. ASSUME NEW st PROVE Lan!Broadcast(st) = Told(st)
  BY <1>1 DEF Lan!Broadcast, Lan!Push, Told, Push, Event
<1>4. (IF state.peers = <<>> THEN subs ELSE Lan!Broadcast(Lan!Published(<<>>))) = LastTold
  BY <1>2, <1>3 DEF LastTold
<1>. QED BY <1>1, <1>2, <1>4 DEF Lan!finish, Ends

LEMMA LanCompletes ==
    ASSUME SubsType, kind = "mdns", NEW g \in DOMAIN gens, NEW cleaned \in BOOLEAN, Lan!Complete(g, cleaned)
    PROVE  ProviderStep
<1>1. Completes(g, cleaned)
  BY LanEnds DEF Lan!Complete, Completes
<1>. QED BY <1>1 DEF ProviderStep

LEMMA LanJoins ==
    ASSUME NEW r \in Results, Lan!WorkerReturns(r)
    PROVE  ProviderStep
<1>1. Joins
  BY DEF Lan!WorkerReturns, Lan!Alive, Lan!current, Joins, Alive, current, Observes
<1>. QED BY <1>1 DEF ProviderStep

LEMMA LanProviderNext ==
    ASSUME SubsType, kind = "mdns", Lan!ProviderNext
    PROVE  ProviderStep
<1>1. ASSUME NEW g \in DOMAIN gens, Lan!Finish(g) PROVE ProviderStep
  <2>1. Finishes(g)
    BY <1>1, LanEnds DEF Lan!Finish, Finishes
  <2>. QED BY <2>1 DEF ProviderStep
<1>. QED BY <1>1 DEF Lan!ProviderNext

LEMMA LanDiscovers ==
    ASSUME NEW w, Lan!Discover(w)
    PROVE  ProviderStep
<1>1. Lan!MayStart <=> MayStart
  BY DEF Lan!MayStart, Lan!running, Lan!current, MayStart, running, current
<1>2. Starts
  BY <1>1 DEF Lan!Discover, Lan!spawn, Starts, Fresh
<1>. QED BY <1>2 DEF ProviderStep

LEMMA LanStops ==
    ASSUME Lan!RequestShutdown
    PROVE  ProviderStep
BY DEF Lan!RequestShutdown, ProviderStep

LEMMA GossipPublishes ==
    ASSUME SubsType, kind = "bootstrap", NEW p, Gossip!publish(p)
    PROVE  Publishes(p)
<1>1. DOMAIN subs = {}
  BY NoClients
<1>2. Gossip!Published(p) = Published(p)
  BY DEF Gossip!Published, Gossip!NextRevision, Published, NextRevision
<1>3. ASSUME NEW st PROVE Gossip!Broadcast(st) = Told(st)
  BY <1>1 DEF Gossip!Broadcast, Gossip!Push, Told, Push, Event
<1>. QED BY <1>2, <1>3 DEF Gossip!publish, Publishes

LEMMA GossipObserves ==
    ASSUME SubsType, kind = "bootstrap", NEW p, Gossip!observe_at(p)
    PROVE  Observes
BY GossipPublishes DEF Gossip!observe_at, Observes

LEMMA GossipEnds ==
    ASSUME SubsType, kind = "bootstrap", NEW unexpected, Gossip!finish(unexpected)
    PROVE  Ends(unexpected)
<1>1. DOMAIN subs = {}
  BY NoClients
<1>2. Gossip!Published(<<>>) = Published(<<>>)
  BY DEF Gossip!Published, Gossip!NextRevision, Published, NextRevision
<1>3. ASSUME NEW st PROVE Gossip!Broadcast(st) = Told(st)
  BY <1>1 DEF Gossip!Broadcast, Gossip!Push, Told, Push, Event
<1>4. (IF state.peers = <<>> THEN subs ELSE Gossip!Broadcast(Gossip!Published(<<>>))) = LastTold
  BY <1>2, <1>3 DEF LastTold
<1>. QED BY <1>1, <1>2, <1>4 DEF Gossip!finish, Ends

LEMMA GossipCompletes ==
    ASSUME SubsType, kind = "bootstrap", NEW g \in DOMAIN gens, NEW cleaned \in BOOLEAN, Gossip!Complete(g, cleaned)
    PROVE  ProviderStep
<1>1. Completes(g, cleaned)
  BY GossipEnds DEF Gossip!Complete, Completes
<1>. QED BY <1>1 DEF ProviderStep

LEMMA GossipJoins ==
    ASSUME NEW r \in Results, Gossip!WorkerReturns(r)
    PROVE  ProviderStep
<1>1. Joins
  BY DEF Gossip!WorkerReturns, Gossip!Alive, Gossip!current, Joins, Alive, current, Observes
<1>. QED BY <1>1 DEF ProviderStep

LEMMA GossipProviderNext ==
    ASSUME SubsType, kind = "bootstrap", Gossip!ProviderNext
    PROVE  ProviderStep
<1>1. ASSUME NEW g \in DOMAIN gens, Gossip!Finish(g) PROVE ProviderStep
  <2>1. Finishes(g)
    BY <1>1, GossipEnds DEF Gossip!Finish, Finishes
  <2>. QED BY <2>1 DEF ProviderStep
<1>. QED BY <1>1 DEF Gossip!ProviderNext

LEMMA GossipDiscovers ==
    ASSUME NEW w, Gossip!Discover(w)
    PROVE  ProviderStep
<1>1. Gossip!MayStart <=> MayStart
  BY DEF Gossip!MayStart, Gossip!running, Gossip!current, MayStart, running, current
<1>2. Starts
  BY <1>1 DEF Gossip!Discover, Gossip!spawn, Starts, Fresh
<1>. QED BY <1>2 DEF ProviderStep

LEMMA GossipStops ==
    ASSUME Gossip!RequestShutdown
    PROVE  ProviderStep
BY DEF Gossip!RequestShutdown, ProviderStep

LEMMA GossipOfSeedsPublishes ==
    ASSUME SubsType, kind = "bootstrap-seeds", NEW p, GossipOfSeeds!publish(p)
    PROVE  Publishes(p)
<1>1. DOMAIN subs = {}
  BY NoClients
<1>2. GossipOfSeeds!Published(p) = Published(p)
  BY DEF GossipOfSeeds!Published, GossipOfSeeds!NextRevision, Published, NextRevision
<1>3. ASSUME NEW st PROVE GossipOfSeeds!Broadcast(st) = Told(st)
  BY <1>1 DEF GossipOfSeeds!Broadcast, GossipOfSeeds!Push, Told, Push, Event
<1>. QED BY <1>2, <1>3 DEF GossipOfSeeds!publish, Publishes

LEMMA GossipOfSeedsObserves ==
    ASSUME SubsType, kind = "bootstrap-seeds", NEW p, GossipOfSeeds!observe_at(p)
    PROVE  Observes
BY GossipOfSeedsPublishes DEF GossipOfSeeds!observe_at, Observes

LEMMA GossipOfSeedsEnds ==
    ASSUME SubsType, kind = "bootstrap-seeds", NEW unexpected, GossipOfSeeds!finish(unexpected)
    PROVE  Ends(unexpected)
<1>1. DOMAIN subs = {}
  BY NoClients
<1>2. GossipOfSeeds!Published(<<>>) = Published(<<>>)
  BY DEF GossipOfSeeds!Published, GossipOfSeeds!NextRevision, Published, NextRevision
<1>3. ASSUME NEW st PROVE GossipOfSeeds!Broadcast(st) = Told(st)
  BY <1>1 DEF GossipOfSeeds!Broadcast, GossipOfSeeds!Push, Told, Push, Event
<1>4. (IF state.peers = <<>> THEN subs ELSE GossipOfSeeds!Broadcast(GossipOfSeeds!Published(<<>>))) = LastTold
  BY <1>2, <1>3 DEF LastTold
<1>. QED BY <1>1, <1>2, <1>4 DEF GossipOfSeeds!finish, Ends

LEMMA GossipOfSeedsCompletes ==
    ASSUME SubsType, kind = "bootstrap-seeds", NEW g \in DOMAIN gens, NEW cleaned \in BOOLEAN, GossipOfSeeds!Complete(g, cleaned)
    PROVE  ProviderStep
<1>1. Completes(g, cleaned)
  BY GossipOfSeedsEnds DEF GossipOfSeeds!Complete, Completes
<1>. QED BY <1>1 DEF ProviderStep

LEMMA GossipOfSeedsJoins ==
    ASSUME NEW r \in Results, GossipOfSeeds!WorkerReturns(r)
    PROVE  ProviderStep
<1>1. Joins
  BY DEF GossipOfSeeds!WorkerReturns, GossipOfSeeds!Alive, GossipOfSeeds!current, Joins, Alive, current, Observes
<1>. QED BY <1>1 DEF ProviderStep

LEMMA GossipOfSeedsProviderNext ==
    ASSUME SubsType, kind = "bootstrap-seeds", GossipOfSeeds!ProviderNext
    PROVE  ProviderStep
<1>1. ASSUME NEW g \in DOMAIN gens, GossipOfSeeds!Finish(g) PROVE ProviderStep
  <2>1. Finishes(g)
    BY <1>1, GossipOfSeedsEnds DEF GossipOfSeeds!Finish, Finishes
  <2>. QED BY <2>1 DEF ProviderStep
<1>. QED BY <1>1 DEF GossipOfSeeds!ProviderNext

LEMMA GossipOfSeedsDiscovers ==
    ASSUME NEW w, GossipOfSeeds!Discover(w)
    PROVE  ProviderStep
<1>1. GossipOfSeeds!MayStart <=> MayStart
  BY DEF GossipOfSeeds!MayStart, GossipOfSeeds!running, GossipOfSeeds!current, MayStart, running, current
<1>2. Starts
  BY <1>1 DEF GossipOfSeeds!Discover, GossipOfSeeds!spawn, Starts, Fresh
<1>. QED BY <1>2 DEF ProviderStep

LEMMA GossipOfSeedsStops ==
    ASSUME GossipOfSeeds!RequestShutdown
    PROVE  ProviderStep
BY DEF GossipOfSeeds!RequestShutdown, ProviderStep

LEMMA FileStep ==
    ASSUME SubsType, kind = "file", File!Next
    PROVE  ProviderStep
<1>0. DOMAIN subs = Clients
  BY FileClients
<1>1. CASE File!ProviderNext
  BY <1>1, FileProviderNext
<1>2. CASE File!RequestShutdown
  BY <1>2, FileStops
<1>3. ASSUME NEW g \in DOMAIN gens, File!Complete(g, TRUE) PROVE ProviderStep
  BY <1>3, FileCompletes
<1>4. ASSUME NEW version, File!Edit(version) PROVE ProviderStep
  BY <1>4 DEF File!Edit, File!providerVars, ProviderStep, providerVars
<1>5. ASSUME NEW c \in Clients, File!ReadInitial(c) PROVE ProviderStep
  <2>. DEFINE r == File!read_peer_file(world.file)
              t == [Idle EXCEPT !.phase = "read", !.read = r]
  <2>1. Turns(subs[c], t)
    BY DEF Turns
  <2>2. subs' = [subs EXCEPT ![c] = t] /\ UNCHANGED <<gens, stopped, state>>
    BY <1>5 DEF File!ReadInitial, File!Idle, Idle
  <2>. HIDE DEF t
  <2>3. Subscribes
    BY <1>0, <2>1, <2>2 DEF Subscribes
  <2>. QED BY <2>3 DEF ProviderStep
<1>6. ASSUME NEW c \in Clients, File!StartWithRead(c) PROVE ProviderStep
  <2>1. (File!MayStart <=> MayStart) /\ (File!running = running)
    BY DEF File!MayStart, File!running, File!current, MayStart, running, current
  <2>2. CASE MayStart
    <3>. DEFINE initial == [i \in DOMAIN subs[c].read |-> [peer |-> subs[c].read[i], at |-> now]]
                seen == IF state.peers = initial THEN state ELSE File!Published(initial)
    <3>1. /\ File!spawn(seen) /\ UNCHANGED stopped
          /\ subs' = [(IF state.peers = initial THEN subs ELSE File!Broadcast(seen)) EXCEPT ![c] = Started]
      BY <1>6, <2>1, <2>2 DEF File!StartWithRead, File!Idle, Started, Idle
    <3>2. gens' = Append(gens, Fresh) /\ state' = [seen EXCEPT !.available = TRUE]
      BY <3>1 DEF File!spawn, Fresh
    <3>3. CASE state.peers = initial
      <4>1. seen = state /\ subs' = [subs EXCEPT ![c] = Started]
        BY <3>1, <3>3
      <4>. HIDE DEF seen
      <4>2. Starts
        BY <1>0, <2>2, <3>1, <3>2, <4>1 DEF Starts
      <4>. QED BY <4>2 DEF ProviderStep
    <3>4. CASE state.peers # initial
      <4>1. seen = Published(initial)
        BY <3>4 DEF File!Published, File!NextRevision, Published, NextRevision
      <4>2. File!Broadcast(seen) = Told(seen)
        <5>. HIDE DEF seen
        <5>. QED BY <1>0 DEF File!Broadcast, File!Push, Told, Push, Event
      <4>3. subs' = [Told(seen) EXCEPT ![c] = Started]
        BY <3>1, <3>4, <4>2
      <4>. HIDE DEF seen, initial
      <4>4. Starts
        BY <1>0, <2>2, <3>1, <3>2, <4>1, <4>3 DEF Starts
      <4>. QED BY <4>4 DEF ProviderStep
    <3>. QED BY <3>3, <3>4
  <2>3. CASE ~MayStart
    <3>. DEFINE t == IF stopped \/ running = "fatal" THEN Failed ELSE IF running = "yes" THEN Started ELSE Idle
    <3>1. Turns(subs[c], t)
      BY DEF Turns, running
    <3>2. subs' = [subs EXCEPT ![c] = t] /\ UNCHANGED <<gens, stopped, state>>
      BY <1>6, <2>1, <2>3 DEF File!StartWithRead, File!Idle, File!Failed, Started, Idle, Failed
    <3>. HIDE DEF t
    <3>3. Subscribes
      BY <1>0, <3>1, <3>2 DEF Subscribes
    <3>. QED BY <3>3 DEF ProviderStep
  <2>. QED BY <2>2, <2>3
<1>7. CASE File!PollRead
  BY <1>7 DEF File!PollRead, File!providerVars, ProviderStep, providerVars
<1>8. CASE File!PollObserve
  <2>1. Alive /\ UNCHANGED <<gens, stopped>>
    BY <1>8 DEF File!PollObserve, File!Alive, File!current, Alive, current
  <2>2. UNCHANGED <<state, subs>> \/ \E p : File!observe_at(p)
    BY <1>8 DEF File!PollObserve, File!observe
  <2>3. Observes
    BY <2>2, FileObserves DEF Observes
  <2>. QED BY <2>1, <2>3 DEF Works, ProviderStep
<1>9. CASE File!WorkerEnds
  <2>1. \E r \in Results : File!WorkerReturns(r)
    BY <1>9 DEF File!WorkerEnds, Results
  <2>. QED BY <2>1, FileJoins
<1>. QED BY <1>1, <1>2, <1>3, <1>4, <1>5, <1>6, <1>7, <1>8, <1>9 DEF File!Next

LEMMA DnsReplaces ==
    ASSUME SubsType, kind = "dns-srv", NEW ps, Dns!replace(ps) \/ Dns!observe(ps)
    PROVE  Observes
<1>1. UNCHANGED <<state, subs>> \/ \E p : Dns!publish(p)
  BY DEF Dns!replace, Dns!observe, Dns!observe_at
<1>. QED BY <1>1, DnsPublishes DEF Observes

LEMMA DnsStep ==
    ASSUME SubsType, kind = "dns-srv", Dns!Next
    PROVE  ProviderStep
<1>0. (Dns!Alive <=> Alive) /\ (Dns!providerVars = providerVars)
  BY DEF Dns!Alive, Dns!current, Alive, current, Dns!providerVars, providerVars
<1>1. CASE Dns!ProviderNext
  BY <1>1, DnsProviderNext
<1>2. CASE Dns!RequestShutdown
  BY <1>2, DnsStops
<1>3. ASSUME NEW g \in DOMAIN gens, Dns!Complete(g, TRUE) PROVE ProviderStep
  BY <1>3, DnsCompletes
<1>4. ASSUME NEW w, Dns!Discover(w) PROVE ProviderStep
  BY <1>4, DnsDiscovers
<1>5. ASSUME NEW w, NEW c \in OneClient, Dns!StartGeneration(c, w) PROVE ProviderStep
  <2>1. Dns!MayStart <=> MayStart
    BY DEF Dns!MayStart, Dns!running, Dns!current, MayStart, running, current
  <2>2. c \in DOMAIN subs
    BY DnsClients
  <2>3. /\ MayStart /\ gens' = Append(gens, Fresh) /\ state' = [state EXCEPT !.available = TRUE]
        /\ subs' = [subs EXCEPT ![c] = Started] /\ UNCHANGED stopped
    BY <1>5, <2>1 DEF Dns!StartGeneration, Dns!spawn, Dns!Idle, Fresh, Started, Idle
  <2>4. Starts
    BY <2>2, <2>3 DEF Starts
  <2>. QED BY <2>4 DEF ProviderStep
<1>6. CASE Dns!StartQuery
  BY <1>0, <1>6 DEF Dns!StartQuery, Dns!providerVars, providerVars, ProviderStep
<1>7. CASE Dns!Expire \/ Dns!Answer \/ Dns!QueryFails
  <2>1. Alive /\ UNCHANGED <<gens, stopped>>
    BY <1>0, <1>7 DEF Dns!Expire, Dns!Answer, Dns!QueryFails
  <2>2. UNCHANGED <<state, subs>> \/ \E ps : Dns!replace(ps) \/ Dns!observe(ps)
    BY <1>7 DEF Dns!Expire, Dns!Answer, Dns!QueryFails, Dns!apply_dns_answer
  <2>3. Observes
    BY <2>2, DnsReplaces DEF Observes
  <2>. QED BY <2>1, <2>3 DEF Works, ProviderStep
<1>8. CASE Dns!WorkerEnds
  <2>1. \E r \in Results : Dns!WorkerReturns(r)
    BY <1>8 DEF Dns!WorkerEnds, Dns!Results, Results
  <2>. QED BY <2>1, DnsJoins
<1>9. CASE Dns!Tick
  BY <1>0, <1>9 DEF Dns!Tick, Dns!providerVars, providerVars, ProviderStep
<1>. QED BY <1>1, <1>2, <1>3, <1>4, <1>5, <1>6, <1>7, <1>8, <1>9 DEF Dns!Next

LEMMA LanAnnounced ==
    ASSUME SubsType, kind = "mdns", NEW owned, Lan!Announced(owned)
    PROVE  Observes
<1>1. \E p : Lan!observe_at(p)
  BY DEF Lan!Announced, Lan!publish_instances
<1>. QED BY <1>1, LanObserves

LEMMA LanStep ==
    ASSUME SubsType, kind = "mdns", Lan!Next
    PROVE  ProviderStep
<1>0. Lan!Alive <=> Alive
  BY DEF Lan!Alive, Lan!current, Alive, current
<1>1. CASE Lan!ProviderNext
  BY <1>1, LanProviderNext
<1>2. CASE Lan!Stop
  BY <1>2, LanStops DEF Lan!Stop
<1>3. CASE Lan!start_generation
  BY <1>3, LanDiscovers DEF Lan!start_generation
<1>4. ASSUME NEW endpoint, Lan!Announce(endpoint) PROVE ProviderStep
  BY <1>4 DEF Lan!Announce, Lan!providerVars, providerVars, ProviderStep
<1>5. CASE Lan!Register
  <2>1. Alive /\ UNCHANGED <<gens, stopped>>
    BY <1>0, <1>5 DEF Lan!Register, Lan!Idling
  <2>2. UNCHANGED <<state, subs>> \/ \E owned : Lan!Announced(owned)
    BY <1>5 DEF Lan!Register
  <2>3. Observes
    BY <2>2, LanAnnounced DEF Observes
  <2>. QED BY <2>1, <2>3 DEF Works, ProviderStep
<1>6. CASE Lan!WithdrawFormer
  <2>1. Alive /\ UNCHANGED <<gens, stopped>> /\ \E owned : Lan!Announced(owned)
    BY <1>0, <1>6 DEF Lan!WithdrawFormer
  <2>2. Observes
    BY <2>1, LanAnnounced
  <2>. QED BY <2>1, <2>2 DEF Works, ProviderStep
<1>7. CASE Lan!WithdrawalFails
  <2>. DEFINE r == IF stopped THEN "ok" ELSE "retryable"
  <2>1. /\ Alive /\ UNCHANGED stopped /\ \E owned : Lan!Announced(owned)
        /\ gens' = [gens EXCEPT ![Len(gens)].phase = "joined", ![Len(gens)].result = r]
    BY <1>0, <1>7 DEF Lan!WithdrawalFails
  <2>2. r \in Results
    BY DEF Results
  <2>3. Observes
    BY <2>1, LanAnnounced
  <2>. HIDE DEF r
  <2>4. Joins
    BY <2>1, <2>2, <2>3 DEF Joins
  <2>. QED BY <2>4 DEF ProviderStep
<1>8. ASSUME NEW instances, Alive, Lan!View(instances) PROVE ProviderStep
  <2>1. UNCHANGED <<gens, stopped>> /\ \E p : Lan!observe_at(p)
    BY <1>8 DEF Lan!View, Lan!publish_instances
  <2>2. Observes
    BY <2>1, LanObserves
  <2>. QED BY <1>8, <2>1, <2>2 DEF Works, ProviderStep
<1>9. ASSUME NEW name, NEW endpoints, NEW same, Lan!Resolved(name, endpoints, same) PROVE ProviderStep
  BY <1>0, <1>8, <1>9 DEF Lan!Resolved, Lan!Idling
<1>10. ASSUME NEW name, Lan!Removed(name) PROVE ProviderStep
  BY <1>0, <1>8, <1>10 DEF Lan!Removed, Lan!Idling
<1>11. ASSUME NEW original, NEW name, Lan!NameChange(original, name) PROVE ProviderStep
  <2>1. Alive /\ UNCHANGED <<gens, stopped>> /\ \E owned : Lan!Announced(owned)
    BY <1>0, <1>11 DEF Lan!NameChange, Lan!Idling
  <2>2. Observes
    BY <2>1, LanAnnounced
  <2>. QED BY <2>1, <2>2 DEF Works, ProviderStep
<1>12. CASE Lan!WorkerEnds
  <2>1. \E r \in Results : Lan!WorkerReturns(r)
    BY <1>12 DEF Lan!WorkerEnds, Lan!Results, Results
  <2>. QED BY <2>1, LanJoins
<1>13. ASSUME NEW g \in DOMAIN gens, Lan!Cleanup(g) PROVE ProviderStep
  <2>1. \E cleaned \in BOOLEAN : Lan!Complete(g, cleaned)
    BY <1>13 DEF Lan!Cleanup
  <2>. QED BY <2>1, LanCompletes
<1>. QED BY <1>1, <1>2, <1>3, <1>4, <1>5, <1>6, <1>7, <1>9, <1>10, <1>11, <1>12, <1>13 DEF Lan!Next

LEMMA GossipStep ==
    ASSUME SubsType, kind = "bootstrap", Gossip!Next
    PROVE  ProviderStep
<1>0. Gossip!Alive <=> Alive
  BY DEF Gossip!Alive, Gossip!current, Alive, current
<1>1. CASE Gossip!ProviderNext
  BY <1>1, GossipProviderNext
<1>2. CASE Gossip!RequestShutdown
  BY <1>2, GossipStops
<1>3. ASSUME NEW w, Gossip!Discover(w) PROVE ProviderStep
  BY <1>3, GossipDiscovers
<1>4. CASE Gossip!Pass \/ Gossip!announce \/ Gossip!Tick
  BY <1>4 DEF Gossip!Pass, Gossip!announce, Gossip!Tick, Gossip!providerVars, providerVars, ProviderStep
<1>5. CASE Gossip!Expire
  <2>1. Alive /\ UNCHANGED <<gens, stopped>> /\ \E p : Gossip!observe_at(p)
    BY <1>0, <1>5 DEF Gossip!Expire, Gossip!publish_views
  <2>2. Observes
    BY <2>1, GossipObserves
  <2>. QED BY <2>1, <2>2 DEF Works, ProviderStep
<1>6. ASSUME NEW v, NEW schedule, NEW requests, Alive, Gossip!Continue(v, schedule, requests) PROVE ProviderStep
  <2>1. UNCHANGED <<gens, stopped>> /\ \E p : Gossip!observe_at(p)
    BY <1>6 DEF Gossip!Continue, Gossip!publish_views
  <2>2. Observes
    BY <2>1, GossipObserves
  <2>. QED BY <1>6, <2>1, <2>2 DEF Works, ProviderStep
<1>7. ASSUME NEW request, Gossip!Answered(request) PROVE ProviderStep
  BY <1>0, <1>6, <1>7 DEF Gossip!Answered
<1>8. ASSUME NEW request, NEW error, Gossip!QueryFails(request, error) PROVE ProviderStep
  BY <1>0, <1>6, <1>8 DEF Gossip!QueryFails
<1>9. ASSUME NEW request, Gossip!LateRequest(request) PROVE ProviderStep
  BY <1>9 DEF Gossip!LateRequest, Gossip!providerVars, providerVars, ProviderStep
<1>10. CASE Gossip!WorkerEnds
  <2>1. \E r \in Results : Gossip!WorkerReturns(r)
    BY <1>10 DEF Gossip!WorkerEnds, Results
  <2>. QED BY <2>1, GossipJoins
<1>11. ASSUME NEW g \in DOMAIN gens, Gossip!Cleanup(g) PROVE ProviderStep
  <2>1. Gossip!Complete(g, TRUE)
    BY <1>11 DEF Gossip!Cleanup
  <2>. QED BY <2>1, GossipCompletes
<1>12. ASSUME NEW s, NEW o, NEW endpoint, Gossip!OtherRequest(s, o, endpoint) PROVE ProviderStep
  BY <1>12 DEF Gossip!OtherRequest, Gossip!providerVars, providerVars, ProviderStep
<1>. QED BY <1>1, <1>2, <1>3, <1>4, <1>5, <1>7, <1>8, <1>9, <1>10, <1>11, <1>12 DEF Gossip!Next

LEMMA GossipOfSeedsStep ==
    ASSUME SubsType, kind = "bootstrap-seeds", GossipOfSeeds!Next
    PROVE  ProviderStep
<1>0. GossipOfSeeds!Alive <=> Alive
  BY DEF GossipOfSeeds!Alive, GossipOfSeeds!current, Alive, current
<1>1. CASE GossipOfSeeds!ProviderNext
  BY <1>1, GossipOfSeedsProviderNext
<1>2. CASE GossipOfSeeds!RequestShutdown
  BY <1>2, GossipOfSeedsStops
<1>3. ASSUME NEW w, GossipOfSeeds!Discover(w) PROVE ProviderStep
  BY <1>3, GossipOfSeedsDiscovers
<1>4. CASE GossipOfSeeds!Pass \/ GossipOfSeeds!announce \/ GossipOfSeeds!Tick
  BY <1>4 DEF GossipOfSeeds!Pass, GossipOfSeeds!announce, GossipOfSeeds!Tick, GossipOfSeeds!providerVars, providerVars, ProviderStep
<1>5. CASE GossipOfSeeds!Expire
  <2>1. Alive /\ UNCHANGED <<gens, stopped>> /\ \E p : GossipOfSeeds!observe_at(p)
    BY <1>0, <1>5 DEF GossipOfSeeds!Expire, GossipOfSeeds!publish_views
  <2>2. Observes
    BY <2>1, GossipOfSeedsObserves
  <2>. QED BY <2>1, <2>2 DEF Works, ProviderStep
<1>6. ASSUME NEW v, NEW schedule, NEW requests, Alive, GossipOfSeeds!Continue(v, schedule, requests) PROVE ProviderStep
  <2>1. UNCHANGED <<gens, stopped>> /\ \E p : GossipOfSeeds!observe_at(p)
    BY <1>6 DEF GossipOfSeeds!Continue, GossipOfSeeds!publish_views
  <2>2. Observes
    BY <2>1, GossipOfSeedsObserves
  <2>. QED BY <1>6, <2>1, <2>2 DEF Works, ProviderStep
<1>7. ASSUME NEW request, GossipOfSeeds!Answered(request) PROVE ProviderStep
  BY <1>0, <1>6, <1>7 DEF GossipOfSeeds!Answered
<1>8. ASSUME NEW request, NEW error, GossipOfSeeds!QueryFails(request, error) PROVE ProviderStep
  BY <1>0, <1>6, <1>8 DEF GossipOfSeeds!QueryFails
<1>9. ASSUME NEW request, GossipOfSeeds!LateRequest(request) PROVE ProviderStep
  BY <1>9 DEF GossipOfSeeds!LateRequest, GossipOfSeeds!providerVars, providerVars, ProviderStep
<1>10. CASE GossipOfSeeds!WorkerEnds
  <2>1. \E r \in Results : GossipOfSeeds!WorkerReturns(r)
    BY <1>10 DEF GossipOfSeeds!WorkerEnds, Results
  <2>. QED BY <2>1, GossipOfSeedsJoins
<1>11. ASSUME NEW g \in DOMAIN gens, GossipOfSeeds!Cleanup(g) PROVE ProviderStep
  <2>1. GossipOfSeeds!Complete(g, TRUE)
    BY <1>11 DEF GossipOfSeeds!Cleanup
  <2>. QED BY <2>1, GossipOfSeedsCompletes
<1>12. ASSUME NEW s, NEW o, NEW endpoint, GossipOfSeeds!OtherRequest(s, o, endpoint) PROVE ProviderStep
  BY <1>12 DEF GossipOfSeeds!OtherRequest, GossipOfSeeds!providerVars, providerVars, ProviderStep
<1>. QED BY <1>1, <1>2, <1>3, <1>4, <1>5, <1>7, <1>8, <1>9, <1>10, <1>11, <1>12 DEF GossipOfSeeds!Next

-----------------------------------------------------------------------------
(* The theorems about every provider. *)

LEMMA ProviderStarts ==
    ASSUME Init
    PROVE  ProviderInv
<1>1. kind \in {"file", "dns-srv", "mdns", "bootstrap", "bootstrap-seeds", "candidates"}
  BY DiscoveryAssumption DEF Init
<1>2. /\ gens = <<>> /\ stopped = FALSE
      /\ state = [available |-> TRUE, revision |-> 0, peers |-> <<>>]
      /\ subs = [c \in ClientsOf(kind) |-> Idle]
  <2>1. CASE kind = "file"
    BY <2>1 DEF Init, File!Init, File!ProviderInit, File!Idle, Idle, ClientsOf
  <2>2. CASE kind = "dns-srv"
    BY <2>2 DEF Init, Dns!Init, Dns!ProviderInit, Dns!Idle, Idle, ClientsOf
  <2>3. CASE kind = "mdns"
    BY <2>3 DEF Init, Lan!Init, Lan!ProviderInit, Lan!Idle, Idle, ClientsOf
  <2>4. CASE kind = "bootstrap"
    BY <2>4 DEF Init, Gossip!Init, Gossip!ProviderInit, Gossip!Idle, Idle, ClientsOf
  <2>5. CASE kind = "bootstrap-seeds"
    BY <2>5 DEF Init, GossipOfSeeds!Init, GossipOfSeeds!ProviderInit, GossipOfSeeds!Idle, Idle, ClientsOf
  <2>6. CASE kind = "candidates"
    BY <2>6 DEF Init, ProviderInit, ClientsOf
  <2>. QED BY <1>1, <2>1, <2>2, <2>3, <2>4, <2>5, <2>6
<1>3. SubsType /\ \A c \in DOMAIN subs : subs[c] = Idle
  BY <1>2 DEF SubsType
<1>4. gens \in Seq(Generation) /\ IsView(state) /\ stopped \in BOOLEAN
  <2>1. <<>> \in Seq(Generation)
    OBVIOUS
  <2>2. IsView(state)
    BY <1>2 DEF IsView
  <2>. QED BY <1>2, <2>1, <2>2
<1>5. GensInv
  BY <1>2 DEF GensInv, OneGeneration
<1>6. \A c \in DOMAIN subs : IsSub(subs[c]) /\ Served(subs[c])
  BY <1>3, IdleSubs DEF Served
<1>. QED BY <1>3, <1>4, <1>5, <1>6 DEF ProviderInv, ProviderType

LEMMA NextIsProviderStep ==
    ASSUME SubsType, [Next]_allVars
    PROVE  kind' = kind /\ ProviderStep
<1>1. CASE Next
  <2>1. kind' = kind
    BY <1>1 DEF Next
  <2>2. CASE kind = "candidates" /\ UNCHANGED <<providerVars, worker, world>>
    <3>1. UNCHANGED providerVars
      BY <2>2
    <3>. QED BY <2>1, <3>1 DEF ProviderStep
  <2>. QED BY <1>1, <2>1, <2>2, FileStep, DnsStep, LanStep, GossipStep, GossipOfSeedsStep DEF Next
<1>2. CASE UNCHANGED allVars
  BY <1>2 DEF allVars, vars, ProviderStep
<1>. QED BY <1>1, <1>2

LEMMA ProviderInvImplies ==
    ASSUME ProviderInv
    PROVE  SubscribersAreServed /\ GenerationsAreSeparate
<1>1. SubscriberIsCurrent
  BY DEF ProviderInv, Served, LastKnown, SubscriberIsCurrent
<1>2. NobodyWaitsInVain
  BY DEF ProviderInv, Served, NobodyWaitsInVain
<1>3. OneGeneration
  BY DEF ProviderInv, GensInv
<1>4. EndedViewIsEmpty
  <2>1. gens = <<>> \/ Len(gens) \in DOMAIN gens
    BY InvElim
  <2>. QED BY <2>1 DEF ProviderInv, GensInv, EndedViewIsEmpty, current
<1>. QED BY <1>1, <1>2, <1>3, <1>4 DEF SubscribersAreServed, GenerationsAreSeparate

LEMMA ProviderInvHolds == Spec => []ProviderInv
<1>1. Init => ProviderInv
  BY ProviderStarts
<1>2. ProviderInv /\ [Next]_allVars => ProviderInv'
  <2>1. ProviderInv => SubsType
    BY DEF ProviderInv, ProviderType
  <2>. QED BY <2>1, NextIsProviderStep, ProviderStepKeeps
<1>. QED BY <1>1, <1>2, PTL DEF Spec

\* The abstract steps above are all that any provider does to its generations,
\* its view and its subscribers, whatever its worker does (ProviderTask and
\* DynamicState in dynamic.rs, which the providers share).
THEOREM ProvidersShareTheirSteps == Spec => [][ProviderStep]_providerVars
<1>1. ProviderInv /\ [Next]_allVars => [ProviderStep]_providerVars
  <2>1. ProviderInv => SubsType
    BY DEF ProviderInv, ProviderType
  <2>. QED BY <2>1, NextIsProviderStep
<1>. QED BY <1>1, ProviderInvHolds, PTL DEF Spec

\* A subscriber that has taken all events holds the provider's view, one that
\* was cut off holds nothing, and nobody waits for a generation that has ended
\* with an error: however publications, overflows, ends, stop requests and new
\* subscriptions interleave, for any capacity of the channel and any number of
\* subscribers (DynamicState, supervise and DiscoveryWatch::recv).
THEOREM EverySubscriberIsServed == Spec => []SubscribersAreServed
BY ProviderInvHolds, ProviderInvImplies, PTL

\* Of any number of generations only the last may be unfinished, the others have
\* ended with a confirmed cleanup, and no view outlives its generation
\* (ProviderTask::running, spawn and supervise).
THEOREM EveryGenerationIsSeparate == Spec => []GenerationsAreSeparate
BY ProviderInvHolds, ProviderInvImplies, PTL

-----------------------------------------------------------------------------
(* DNS-SRV: no peer outlives its lifetime. *)

IsFcn(f) == f = [i \in DOMAIN f |-> f[i]]

LEMMA EmptyFcn == \A f : IsFcn(f) /\ DOMAIN f = {} => f = <<>>
BY DEF IsFcn

LEMMA EmptyMap == \A e : [i \in DOMAIN <<>> |-> e] = <<>>
OBVIOUS

DnsInv ==
    /\ now \in Nat
    /\ world \in [records : {world.records}, until : Nat]
    /\ worker \in [until : Nat, next : Nat, querying : BOOLEAN]
    /\ IsFcn(state.peers)
    /\ Alive /\ state.peers # <<>> =>
          /\ worker.until # 0 /\ now <= worker.until
          /\ ~worker.querying => worker.next <= worker.until

LEMMA DnsEmptied ==
    ASSUME IsView(state), IsFcn(state.peers), Dns!replace(<<>>)
    PROVE  state'.peers = <<>>
<1>1. CASE Dns!names(state.peers) = <<>>
  <2>1. DOMAIN state.peers = {}
    BY <1>1 DEF Dns!names
  <2>2. state' = state
    BY <1>1 DEF Dns!replace
  <2>. QED BY <2>1, <2>2, EmptyFcn
<1>2. CASE Dns!names(state.peers) # <<>>
  <2>. DEFINE p == [i \in DOMAIN <<>> |->
                      [peer |-> <<>>[i],
                       at |-> IF Contains(Dns!names(state.peers), <<>>[i])
                              THEN state.peers[CHOOSE k \in DOMAIN state.peers : state.peers[k].peer = <<>>[i]].at
                              ELSE now]]
  <2>1. p = <<>>
    OBVIOUS
  <2>2. Dns!publish(p)
    BY <1>2 DEF Dns!replace
  <2>. HIDE DEF p
  <2>3. state' = Published(p)
    BY <2>2 DEF Dns!publish, Dns!Published, Dns!NextRevision, Published, NextRevision
  <2>. QED BY <2>1, <2>3, PublishedView
<1>. QED BY <1>1, <1>2

LEMMA DnsListsFcn ==
    ASSUME IsView(state), IsFcn(state.peers), NEW ps, Dns!replace(ps) \/ Dns!observe(ps)
    PROVE  IsFcn(state'.peers)
<1>1. ASSUME NEW p, Dns!publish(p), IsFcn(p) PROVE IsFcn(state'.peers)
  <2>1. state' = Published(p)
    BY <1>1 DEF Dns!publish, Dns!Published, Dns!NextRevision, Published, NextRevision
  <2>. QED BY <1>1, <2>1, PublishedView
<1>2. CASE Dns!observe(ps)
  <2>. DEFINE p == [i \in DOMAIN ps |-> [peer |-> ps[i], at |-> now]]
  <2>1. IsFcn(p)
    BY DEF IsFcn
  <2>2. state' = state \/ Dns!publish(p)
    BY <1>2 DEF Dns!observe, Dns!observe_at
  <2>. HIDE DEF p
  <2>. QED BY <1>1, <2>1, <2>2
<1>3. CASE Dns!replace(ps)
  <2>. DEFINE p == [i \in DOMAIN ps |->
                      [peer |-> ps[i],
                       at |-> IF Contains(Dns!names(state.peers), ps[i])
                              THEN state.peers[CHOOSE k \in DOMAIN state.peers : state.peers[k].peer = ps[i]].at
                              ELSE now]]
  <2>1. IsFcn(p)
    BY DEF IsFcn
  <2>2. state' = state \/ Dns!publish(p)
    <3>1. CASE Dns!names(state.peers) = ps
      BY <1>3, <3>1 DEF Dns!replace
    <3>2. CASE Dns!names(state.peers) # ps
      BY <1>3, <3>2, SMT DEF Dns!replace, Dns!Contains, Contains
    <3>. QED BY <3>1, <3>2
  <2>. HIDE DEF p
  <2>. QED BY <1>1, <2>1, <2>2
<1>. QED BY <1>2, <1>3


\* The end of a generation, and the start of one, leave no peers to expire.
LEMMA NotAlive ==
    ASSUME ProviderInv, ProviderInv', kind' = kind,
           \/ gens' # <<>> /\ gens'[Len(gens')].phase # "running"
           \/ MayStart /\ state'.peers = state.peers
    PROVE  ~(Alive' /\ state'.peers # <<>>)
<1>1. CASE gens' # <<>> /\ gens'[Len(gens')].phase # "running"
  BY <1>1 DEF Alive, current
<1>2. CASE MayStart /\ state'.peers = state.peers
  <2>1. gens = <<>> \/ gens[Len(gens)].phase = "done"
    BY <1>2 DEF MayStart, running, current
  <2>2. state.peers = <<>>
    BY <2>1, InvElim DEF GensKept
  <2>. QED BY <1>2, <2>2
<1>. QED BY <1>1, <1>2

LEMMA DnsKeeps ==
    ASSUME ProviderInv, ProviderInv', DnsInv, kind = "dns-srv", kind' = kind, Dns!Next
    PROVE  DnsInv'
<1>0. /\ (Dns!Alive <=> Alive) /\ IsView(state) /\ SubsType /\ IsFcn(state.peers)
      /\ now \in Nat /\ Soon \in Nat /\ Later \in Nat /\ Ttls \subseteq Nat
  BY DiscoveryAssumption DEF Dns!Alive, Dns!current, Alive, current, ProviderInv, ProviderType, DnsInv
<1>1. ASSUME UNCHANGED <<gens, state, worker, world, now>> PROVE DnsInv'
  BY <1>1 DEF DnsInv, Alive, current, IsFcn
<1>2. ASSUME ~(Alive' /\ state'.peers # <<>>), IsFcn(state'.peers), now' = now,
             world' = world,
             worker' \in [until : Nat, next : Nat, querying : BOOLEAN]
      PROVE  DnsInv'
  BY <1>2 DEF DnsInv, Alive, current, IsFcn
<1>3. CASE Dns!RequestShutdown /\ UNCHANGED world
  BY <1>1, <1>3 DEF Dns!RequestShutdown
<1>4. ASSUME NEW c \in OneClient, Dns!EnsureStarted(c) \/ Dns!LiveWatch(c) \/ Dns!Recv(c) PROVE DnsInv'
  BY <1>1, <1>4 DEF Dns!EnsureStarted, Dns!LiveWatch, Dns!Recv
<1>5. ASSUME NEW g \in DOMAIN gens, Dns!Finish(g) PROVE DnsInv'
  <2>1. gens[g].phase = "joined" /\ gens' = [gens EXCEPT ![g].phase = "cleaning"] /\ Dns!finish(~stopped \/ gens[g].result # "ok")
    BY <1>5 DEF Dns!Finish
  <2>2. g = Len(gens) /\ gens # <<>> /\ gens[g] \in Generation
    BY <2>1, OnlyTheLast
  <2>3. gens' # <<>> /\ gens'[Len(gens')].phase # "running"
    BY <2>1, <2>2, InvElim DEF Generation
  <2>4. state'.peers = <<>>
    BY <1>0, <2>1, DnsEnds, EndsKeeps
  <2>. QED BY <1>2, <1>5, <2>3, <2>4, NotAlive DEF Dns!Finish, DnsInv, IsFcn
<1>6. ASSUME NEW g \in DOMAIN gens, Dns!Complete(g, TRUE), UNCHANGED <<worker, world>> PROVE DnsInv'
  <2>1. gens[g].phase = "cleaning" /\ UNCHANGED <<state, subs, now>>
    BY <1>6 DEF Dns!Complete
  <2>2. g = Len(gens) /\ gens # <<>> /\ gens[g] \in Generation
    BY <2>1, OnlyTheLast
  <2>3. ~(state.peers # <<>>)
    BY <2>1, <2>2, InvElim DEF GensKept
  <2>. QED BY <1>0, <1>2, <1>6, <2>1, <2>3 DEF DnsInv
<1>7. ASSUME NEW w, w = [Dns!NoWorker EXCEPT !.next = now],
             Dns!Discover(w) \/ \E c \in OneClient : Dns!StartGeneration(c, w), UNCHANGED world
      PROVE  DnsInv'
  <2>1. w \in [until : Nat, next : Nat, querying : BOOLEAN]
    BY <1>0, <1>7 DEF Dns!NoWorker
  <2>2. /\ worker' = w /\ now' = now /\ Dns!MayStart
        /\ state' = [state EXCEPT !.available = TRUE]
    BY <1>7 DEF Dns!Discover, Dns!StartGeneration, Dns!spawn
  <2>3. state'.peers = state.peers
    BY <1>0, <2>2 DEF IsView
  <2>4. MayStart
    BY <2>2 DEF Dns!MayStart, Dns!running, Dns!current, MayStart, running, current
  <2>. QED BY <1>0, <1>2, <1>7, <2>1, <2>2, <2>3, <2>4, NotAlive
<1>8. CASE Dns!StartQuery
  <2>1. UNCHANGED <<gens, state, world, now>> /\ worker' = [worker EXCEPT !.querying = TRUE]
    BY <1>8 DEF Dns!StartQuery, Dns!providerVars
  <2>. QED BY <2>1 DEF DnsInv, Alive, current, IsFcn
<1>9. CASE Dns!Expire
  <2>1. UNCHANGED <<gens, world, now>> /\ worker' = [worker EXCEPT !.until = 0] /\ Dns!replace(<<>>)
    BY <1>9 DEF Dns!Expire
  <2>2. state'.peers = <<>> /\ IsFcn(state'.peers)
    BY <1>0, <2>1, DnsEmptied, DnsListsFcn
  <2>3. worker' \in [until : Nat, next : Nat, querying : BOOLEAN]
    BY <2>1 DEF DnsInv
  <2>. QED BY <1>2, <2>1, <2>2, <2>3
<1>10. CASE Dns!Answer
  <2>1. UNCHANGED <<gens, now>>
    BY <1>10 DEF Dns!Answer
  <2>2. PICK answer \in Dns!lookup : Dns!apply_dns_answer(answer) /\ world' = answer
    BY <1>10 DEF Dns!Answer
  <2>3. answer \in [records : {answer.records}, until : Nat]
    <3>1. CASE now < world.until
      BY <2>2, <3>1 DEF Dns!lookup, DnsInv
    <3>2. CASE ~(now < world.until)
      <4>1. PICK records \in Answers, ttl \in Ttls :
               answer = [records |-> records, until |-> now + (IF records = <<>> THEN Dns!Earlier(ttl, Later) ELSE ttl)]
        BY <2>2, <3>2 DEF Dns!lookup
      <4>2. Dns!Earlier(ttl, Later) \in Nat /\ ttl \in Nat
        BY <1>0 DEF Dns!Earlier
      <4>3. now + (IF records = <<>> THEN Dns!Earlier(ttl, Later) ELSE ttl) \in Nat
        BY <1>0, <4>2
      <4>. QED BY <4>1, <4>3
    <3>. QED BY <3>1, <3>2
  <2>4. CASE answer.until <= now
    <3>1. Dns!replace(<<>>) /\ worker' = [until |-> 0, next |-> now + Soon, querying |-> FALSE]
      BY <2>2, <2>4 DEF Dns!apply_dns_answer
    <3>2. state'.peers = <<>> /\ IsFcn(state'.peers)
      BY <1>0, <3>1, DnsEmptied, DnsListsFcn
    <3>3. worker' \in [until : Nat, next : Nat, querying : BOOLEAN]
      BY <1>0, <3>1
    <3>. QED BY <1>0, <2>1, <2>2, <2>3, <3>2, <3>3 DEF DnsInv, Alive, current, IsFcn
  <2>5. CASE ~(answer.until <= now)
    <3>1. /\ \E ps : Dns!replace(ps) \/ Dns!observe(ps)
          /\ worker' = [until |-> answer.until, next |-> Dns!Earlier(answer.until, now + Later), querying |-> FALSE]
      BY <2>2, <2>5 DEF Dns!apply_dns_answer
    <3>2. IsFcn(state'.peers)
      BY <1>0, <3>1, DnsListsFcn
    <3>3. Dns!Earlier(answer.until, now + Later) \in Nat /\ Dns!Earlier(answer.until, now + Later) <= answer.until
      BY <1>0, <2>3 DEF Dns!Earlier
    <3>4. /\ worker' \in [until : Nat, next : Nat, querying : BOOLEAN]
          /\ worker'.until # 0 /\ now <= worker'.until /\ worker'.next <= worker'.until
      BY <1>0, <2>3, <2>5, <3>1, <3>3
    <3>. QED BY <1>0, <2>1, <2>2, <2>3, <3>2, <3>4 DEF DnsInv, IsFcn
  <2>. QED BY <2>4, <2>5
<1>11. CASE Dns!QueryFails
  <2>. DEFINE retry == now + Soon
              next == IF worker.until > now THEN Dns!Earlier(worker.until, retry) ELSE retry
  <2>1. /\ UNCHANGED <<gens, world, now>>
        /\ worker' = [worker EXCEPT !.querying = FALSE, !.next = next]
        /\ IF worker.until # 0 /\ now >= worker.until THEN Dns!replace(<<>>) ELSE UNCHANGED <<state, subs>>
    BY <1>11 DEF Dns!QueryFails
  <2>2. next \in Nat /\ (worker.until > now => next <= worker.until) /\ worker.until \in Nat
    BY <1>0 DEF Dns!Earlier, DnsInv
  <2>. HIDE DEF next
  <2>3. worker' \in [until : Nat, next : Nat, querying : BOOLEAN] /\ worker'.until = worker.until /\ worker'.next = next
    BY <2>1, <2>2 DEF DnsInv
  <2>4. CASE worker.until # 0 /\ now >= worker.until
    <3>1. state'.peers = <<>> /\ IsFcn(state'.peers)
      BY <1>0, <2>1, <2>4, DnsEmptied, DnsListsFcn
    <3>. QED BY <1>2, <2>1, <2>3, <3>1
  <2>5. CASE ~(worker.until # 0 /\ now >= worker.until)
    <3>1. state' = state /\ (worker.until # 0 => worker.until > now)
      BY <1>0, <2>1, <2>2, <2>5
    <3>. QED BY <1>0, <2>1, <2>2, <2>3, <3>1 DEF DnsInv, Alive, current, IsFcn
  <2>. QED BY <2>4, <2>5
<1>12. CASE Dns!WorkerEnds
  <2>1. /\ UNCHANGED <<state, world, now>> /\ worker' = Dns!NoWorker
        /\ gens # <<>>
        /\ \E r : gens' = [gens EXCEPT ![Len(gens)].phase = "joined", ![Len(gens)].result = r]
    BY <1>12 DEF Dns!WorkerEnds, Dns!WorkerReturns, Dns!Alive
  <2>2. gens \in Seq(Generation) /\ gens[Len(gens)] \in Generation /\ Len(gens) \in DOMAIN gens
    BY <2>1, InvElim
  <2>3. gens' # <<>> /\ gens'[Len(gens')].phase # "running"
    <3>1. PICK r : gens' = [gens EXCEPT ![Len(gens)].phase = "joined", ![Len(gens)].result = r]
      BY <2>1
    <3>2. Len(gens') = Len(gens) /\ gens' # <<>>
      BY <2>1, <2>2, <3>1
    <3>3. gens'[Len(gens)].phase = "joined"
      BY <2>2, <3>1 DEF Generation
    <3>. QED BY <3>2, <3>3
  <2>4. worker' \in [until : Nat, next : Nat, querying : BOOLEAN]
    BY <2>1 DEF Dns!NoWorker
  <2>. QED BY <1>0, <1>2, <2>1, <2>3, <2>4, NotAlive
<1>13. CASE Dns!Tick
  <2>1. /\ UNCHANGED <<gens, state, worker, world>> /\ now' = now + 1
        /\ Alive => IF worker.querying THEN worker.until = 0 \/ now < worker.until ELSE now < worker.next
    BY <1>0, <1>13 DEF Dns!Tick, Dns!providerVars
  <2>. QED BY <2>1 DEF DnsInv, Alive, current, IsFcn
<1>. QED
  BY <1>3, <1>4, <1>5, <1>6, <1>7, <1>8, <1>9, <1>10, <1>11, <1>12, <1>13 DEF Dns!Next, Dns!ProviderNext

LEMMA DnsStarts ==
    ASSUME Init, kind = "dns-srv"
    PROVE  DnsInv
<1>1. /\ gens = <<>> /\ state = [available |-> TRUE, revision |-> 0, peers |-> <<>>] /\ now = 0
      /\ worker = [until |-> 0, next |-> 0, querying |-> FALSE] /\ world = [records |-> <<>>, until |-> 0]
  BY DEF Init, Dns!Init, Dns!ProviderInit, Dns!NoWorker
<1>. QED BY <1>1 DEF DnsInv, IsFcn

-----------------------------------------------------------------------------
(* The peer file: the view is one whole version. *)

Parsed(ps) == \E version \in world.held : ps = File!parse_peer_file(version)

FileInv ==
    /\ world \in [file : world.held, edits : {world.edits}, held : {world.held}]
    /\ worker \in [phase : {"none", "waiting", "read"}, read : {worker.read}]
    /\ worker.phase = "read" => Parsed(worker.read)
    /\ \A c \in DOMAIN subs : subs[c].phase = "read" => Parsed(subs[c].read)
    /\ Alive => Parsed(names(state.peers))

\* Whatever is parsed is a sequence of endpoints.
LEMMA ParsedIsFcn ==
    ASSUME NEW ps, Parsed(ps)
    PROVE  LET seen == [i \in DOMAIN ps |-> [peer |-> ps[i], at |-> now]]
           IN  names(seen) = ps
<1>1. PICK version \in world.held : ps = File!parse_peer_file(version)
  BY DEF Parsed
<1>2. IsFcn(ps)
  <2>1. CASE ps = <<BadLine>>
    BY <2>1 DEF IsFcn
  <2>2. CASE ps = File!Distinct(version)
    BY <2>2 DEF File!Distinct, File!At, IsFcn
  <2>. QED BY <1>1, <2>1, <2>2 DEF File!parse_peer_file, File!Refused
<1>. QED BY <1>2 DEF IsFcn, names

\* Events do not reach a caller that has not subscribed yet.
LEMMA ReadersWait ==
    ASSUME ProviderInv, Observes \/ \E unexpected \in BOOLEAN : Ends(unexpected),
           NEW c \in DOMAIN subs, subs'[c].phase = "read"
    PROVE  subs[c].phase = "read" /\ subs'[c].read = subs[c].read
<1>1. subs[c].phase = "read"
  BY ObservesKeeps, EndsKeeps DEF Kept
<1>2. ASSUME NEW st PROVE Told(st)[c] = subs[c]
  BY <1>1 DEF Told, Push
<1>3. CASE Observes
  BY <1>2, <1>3 DEF Observes, Publishes
<1>4. ASSUME NEW unexpected \in BOOLEAN, Ends(unexpected) PROVE subs'[c].read = subs[c].read
  <2>1. LastTold[c] = subs[c]
    BY <1>2 DEF LastTold
  <2>. QED BY <1>1, <1>4, <2>1 DEF Ends
<1>. QED BY <1>1, <1>3, <1>4

LEMMA FileStarts ==
    ASSUME Init, kind = "file"
    PROVE  FileInv
<1>1. /\ gens = <<>> /\ subs = [c \in Clients |-> Idle]
      /\ worker = [phase |-> "none", read |-> <<>>]
      /\ \E version \in FileVersions : world = [file |-> version, edits |-> 0, held |-> {version}]
  BY DEF Init, File!Init, File!ProviderInit, File!NoWorker, File!Idle, Idle
<1>2. \A c \in DOMAIN subs : subs[c].phase = "idle"
  BY <1>1, IdleSubs
<1>. QED BY <1>1, <1>2 DEF FileInv, Alive

LEMMA FileKeeps ==
    ASSUME ProviderInv, ProviderInv', FileInv, kind = "file", kind' = kind, File!Next
    PROVE  FileInv'
<1>0. /\ (File!Alive <=> Alive) /\ IsView(state) /\ SubsType /\ DOMAIN subs = Clients
      /\ DOMAIN subs' = DOMAIN subs /\ (File!MayStart <=> MayStart)
  <2>1. SubsType /\ SubsType' /\ IsView(state)
    BY DEF ProviderInv, ProviderType
  <2>2. DOMAIN subs = ClientsOf(kind) /\ DOMAIN subs' = ClientsOf(kind')
    BY <2>1 DEF SubsType
  <2>3. ClientsOf(kind) = Clients
    BY DEF ClientsOf
  <2>. QED BY <2>1, <2>2, <2>3
         DEF File!Alive, File!current, File!MayStart, File!running, Alive, current, MayStart, running
\* The readers keep what they have read, or take what is read now.
<1>. DEFINE Reads(c) == subs'[c].phase = "read" => \E version \in world'.held : subs'[c].read = File!parse_peer_file(version)
            Readers == \A c \in DOMAIN subs : Reads(c)
            Same(c) == subs'[c].phase = "read" => subs[c].phase = "read" /\ subs'[c].read = subs[c].read
            Worker == /\ worker' \in [phase : {"none", "waiting", "read"}, read : {worker'.read}]
                      /\ worker'.phase = "read" => \E version \in world'.held : worker'.read = File!parse_peer_file(version)
            World == world' \in [file : world'.held, edits : {world'.edits}, held : {world'.held}]
            View == Alive' => \E version \in world'.held : names(state'.peers) = File!parse_peer_file(version)
<1>1. ASSUME World, Worker, View, Readers PROVE FileInv'
  BY <1>0, <1>1 DEF FileInv, Parsed, names
<1>2. ASSUME world' = world PROVE World
  BY <1>2 DEF FileInv
<1>3. ASSUME world' = world, worker' = worker PROVE Worker
  BY <1>3 DEF FileInv, Parsed
<1>4. ASSUME world'.held = world.held, gens' = gens, state'.peers = state.peers PROVE View
  BY <1>4 DEF FileInv, Parsed, Alive, current, names
<1>5. ASSUME world'.held = world.held, \A c \in DOMAIN subs : Same(c)
      PROVE  Readers
  BY <1>5 DEF FileInv, Parsed
<1>6. ASSUME NEW c \in DOMAIN subs, NEW t, subs' = [subs EXCEPT ![c] = t], t.phase # "read", world'.held = world.held
      PROVE  Readers
  <2>1. ASSUME NEW d \in DOMAIN subs PROVE Same(d)
    <3>1. subs'[d] = IF d = c THEN t ELSE subs[d]
      BY <1>6
    <3>. QED BY <1>6, <3>1
  <2>. QED BY <1>5, <1>6, <2>1
<1>7. ASSUME Observes \/ \E unexpected \in BOOLEAN : Ends(unexpected), world'.held = world.held
      PROVE  Readers
  <2>1. ASSUME NEW c \in DOMAIN subs PROVE Same(c)
    BY <1>7, ReadersWait
  <2>. QED BY <1>5, <1>7, <2>1
<1>. HIDE DEF World, Worker, View, Readers
<1>8. CASE File!RequestShutdown /\ UNCHANGED world
  BY <1>1, <1>2, <1>3, <1>4, <1>5, <1>8 DEF File!RequestShutdown
<1>9. ASSUME NEW c \in Clients, File!EnsureStarted(c) \/ File!LiveWatch(c) \/ File!Recv(c) PROVE FileInv'
  <2>1. UNCHANGED <<gens, state, worker, world>>
    BY <1>9 DEF File!EnsureStarted, File!LiveWatch, File!Recv
  <2>2. \A d \in DOMAIN subs \ {c} : subs'[d] = subs[d]
    BY <1>9 DEF File!EnsureStarted, File!LiveWatch, File!Recv
  <2>3. subs'[c].phase # "read"
    <3>1. CASE File!EnsureStarted(c)
      BY <1>0, <1>9, <3>1, IdleSubs DEF File!EnsureStarted, File!Idle, File!Failed, Idle, Failed, Started
    <3>2. CASE File!LiveWatch(c)
      BY <1>0, <1>9, <3>2, IdleSubs DEF File!LiveWatch, File!Idle, Idle
    <3>3. CASE File!Recv(c)
      <4>1. IsSub(subs[c]) /\ c \in DOMAIN subs
        BY <1>0 DEF ProviderInv, ProviderType
      <4>2. subs[c].phase = "watching"
        BY <3>3 DEF File!Recv
      <4>. QED BY <3>3, <4>1, <4>2, IdleSubs DEF File!Recv, File!Idle, Idle, IsSub
    <3>. QED BY <1>9, <3>1, <3>2, <3>3
  <2>4. Readers
    <3>1. ASSUME NEW d \in DOMAIN subs PROVE Same(d)
      BY <2>2, <2>3
    <3>. QED BY <1>5, <2>1, <3>1
  <2>. QED BY <1>1, <1>2, <1>3, <1>4, <2>1, <2>4
<1>10. ASSUME NEW g \in DOMAIN gens, File!Finish(g) PROVE FileInv'
  <2>1. /\ gens[g].phase = "joined" /\ gens' = [gens EXCEPT ![g].phase = "cleaning"]
        /\ File!finish(~stopped \/ gens[g].result # "ok") /\ UNCHANGED <<worker, world>>
    BY <1>10 DEF File!Finish
  <2>2. g = Len(gens) /\ gens # <<>> /\ gens[g] \in Generation
    BY <2>1, OnlyTheLast
  <2>3. ~Alive'
    BY <2>1, <2>2, InvElim DEF Generation, Alive, current
  <2>4. \E unexpected \in BOOLEAN : Ends(unexpected)
    BY <1>0, <2>1, FileEnds
  <2>5. View
    BY <2>3 DEF View
  <2>. QED BY <1>1, <1>2, <1>3, <1>7, <2>1, <2>4, <2>5
<1>11. ASSUME NEW g \in DOMAIN gens, File!Complete(g, TRUE), UNCHANGED <<worker, world>> PROVE FileInv'
  <2>1. /\ gens[g].phase = "cleaning" /\ UNCHANGED <<state, subs>>
        /\ gens' = [gens EXCEPT ![g].phase = "done", ![g].clean = TRUE,
                                ![g].restart = IF gens[g].result = "fatal" THEN "fatal" ELSE "ok"]
    BY <1>11 DEF File!Complete
  <2>2. g = Len(gens) /\ gens # <<>> /\ gens[g] \in Generation
    BY <2>1, OnlyTheLast
  <2>3. ~Alive'
    BY <2>1, <2>2, InvElim DEF Generation, Alive, current
  <2>4. View
    BY <2>3 DEF View
  <2>. QED BY <1>1, <1>2, <1>3, <1>5, <1>11, <2>1, <2>4
<1>12. ASSUME NEW version \in FileVersions, File!Edit(version) PROVE FileInv'
  <2>1. /\ world' = [file |-> version, edits |-> world.edits + 1, held |-> world.held \cup {version}]
        /\ UNCHANGED <<gens, state, subs, worker>>
    BY <1>12 DEF File!Edit, File!providerVars
  <2>. QED BY <1>0, <2>1 DEF FileInv, Parsed, Alive, current, names
<1>13. ASSUME NEW c \in Clients, File!ReadInitial(c) PROVE FileInv'
  <2>. DEFINE r == File!parse_peer_file(world.file)
              t == [Idle EXCEPT !.phase = "read", !.read = r]
  <2>1. subs' = [subs EXCEPT ![c] = t] /\ UNCHANGED <<gens, state, worker, world>>
    BY <1>13 DEF File!ReadInitial, File!read_peer_file, File!Idle, Idle
  <2>2. t.read = r /\ world.file \in world'.held
    BY <2>1 DEF Idle, FileInv
  <2>. HIDE DEF t
  <2>3. \A d \in DOMAIN subs \ {c} : subs'[d] = subs[d]
    BY <2>1
  <2>4. subs'[c] = t
    BY <1>0, <2>1
  <2>5. ASSUME NEW d \in DOMAIN subs PROVE Reads(d)
    BY <2>1, <2>2, <2>3, <2>4 DEF FileInv, Parsed
  <2>6. Readers
    BY <2>5 DEF Readers
  <2>. QED BY <1>1, <1>2, <1>3, <1>4, <2>1, <2>6
<1>14. ASSUME NEW c \in Clients, File!StartWithRead(c) PROVE FileInv'
  <2>0. world' = world /\ subs[c].phase = "read"
    BY <1>14 DEF File!StartWithRead
  <2>1. CASE MayStart
    <3>. DEFINE initial == [i \in DOMAIN subs[c].read |-> [peer |-> subs[c].read[i], at |-> now]]
                seen == IF state.peers = initial THEN state ELSE File!Published(initial)
    <3>1. /\ File!spawn(seen) /\ worker' = [File!NoWorker EXCEPT !.phase = "waiting"]
          /\ subs' = [(IF state.peers = initial THEN subs ELSE File!Broadcast(seen)) EXCEPT ![c] = Started]
      BY <1>0, <1>14, <2>1 DEF File!StartWithRead, File!Idle, Started, Idle
    <3>2. state' = [seen EXCEPT !.available = TRUE]
      BY <3>1 DEF File!spawn
    <3>3. File!Published(initial) = Published(initial)
      BY DEF File!Published, File!NextRevision, Published, NextRevision
    <3>4. File!Broadcast(seen) = Told(seen)
      <4>. HIDE DEF seen
      <4>. QED BY <1>0 DEF File!Broadcast, File!Push, Told, Push, Event
    <3>5. IsView(seen) /\ seen.peers = initial
      <4>. HIDE DEF initial
      <4>. QED BY <1>0, <3>3, PublishedView
    <3>6. Parsed(subs[c].read)
      BY <1>0, <2>0 DEF FileInv
    <3>7. names(initial) = subs[c].read
      BY <3>6, ParsedIsFcn
    <3>. HIDE DEF initial, seen
    <3>8. state'.peers = initial
      BY <3>2, <3>5 DEF IsView
    <3>9. View
      BY <2>0, <3>6, <3>7, <3>8 DEF View, Parsed
    <3>10. Worker
      BY <3>1 DEF Worker, File!NoWorker
    <3>11. ASSUME NEW d \in DOMAIN subs PROVE Same(d)
      <4>1. CASE d = c
        <5>1. subs'[d] = Started
          BY <1>0, <3>1, <3>4, <4>1 DEF Told
        <5>. QED BY <5>1, IdleSubs
      <4>2. CASE d # c
        <5>1. subs'[d] = subs[d] \/ subs'[d] = Told(seen)[d]
          BY <1>0, <3>1, <3>4, <4>2 DEF Told
        <5>2. subs[d].phase # "watching" => Told(seen)[d] = subs[d]
          BY DEF Told, Push
        <5>3. Told(seen)[d].phase = subs[d].phase
          BY ToldKeeps
        <5>. QED BY <5>1, <5>2, <5>3
      <4>. QED BY <4>1, <4>2
    <3>12. Readers
      BY <1>5, <2>0, <3>11
    <3>. QED BY <1>1, <1>2, <2>0, <3>9, <3>10, <3>12
  <2>2. CASE ~MayStart
    <3>. DEFINE t == IF stopped \/ running = "fatal" THEN Failed ELSE IF running = "yes" THEN Started ELSE Idle
    <3>0. File!running = running
      BY DEF File!running, File!current, running, current
    <3>1. subs' = [subs EXCEPT ![c] = t] /\ UNCHANGED <<gens, state, worker>>
      BY <1>0, <1>14, <2>2, <3>0 DEF File!StartWithRead, File!Idle, File!Failed, Started, Idle, Failed
    <3>2. t.phase # "read"
      BY IdleSubs
    <3>. HIDE DEF t
    <3>3. Readers
      BY <1>0, <1>6, <2>0, <3>1, <3>2
    <3>. QED BY <1>1, <1>2, <1>3, <1>4, <2>0, <3>1, <3>3
  <2>. QED BY <2>1, <2>2
<1>15. CASE File!PollRead
  <2>1. worker' = [phase |-> "read", read |-> File!parse_peer_file(world.file)] /\ UNCHANGED <<gens, state, subs, world>>
    BY <1>15 DEF File!PollRead, File!read_peer_file, File!providerVars
  <2>2. Worker
    BY <2>1 DEF Worker, FileInv
  <2>. QED BY <1>1, <1>2, <1>4, <1>5, <2>1, <2>2
<1>16. CASE File!PollObserve
  <2>1. /\ Alive /\ worker.phase = "read" /\ UNCHANGED <<gens, world>>
        /\ UNCHANGED <<state, subs>> \/ File!observe(worker.read)
        /\ worker' = [File!NoWorker EXCEPT !.phase = "waiting"]
    BY <1>0, <1>16 DEF File!PollObserve
  <2>2. Worker
    BY <2>1 DEF Worker, File!NoWorker
  <2>3. Parsed(worker.read)
    BY <2>1 DEF FileInv
  <2>. DEFINE p == [i \in DOMAIN worker.read |-> [peer |-> worker.read[i], at |-> now]]
  <2>4. names(p) = worker.read
    BY <2>3, ParsedIsFcn
  <2>5. UNCHANGED <<state, subs>> \/ File!publish(p)
    BY <2>1 DEF File!observe, File!observe_at
  <2>. HIDE DEF p
  <2>6. CASE UNCHANGED <<state, subs>>
    BY <1>1, <1>2, <1>4, <1>5, <2>1, <2>2, <2>6
  <2>7. CASE File!publish(p)
    <3>1. Publishes(p)
      BY <1>0, <2>7, FilePublishes
    <3>2. Observes
      BY <3>1 DEF Observes
    <3>3. state'.peers = p
      BY <1>0, <3>1, PublishedView DEF Publishes
    <3>4. View
      BY <2>1, <2>3, <2>4, <3>3 DEF View, Parsed
    <3>. QED BY <1>1, <1>2, <1>7, <2>1, <2>2, <3>2, <3>4
  <2>. QED BY <2>5, <2>6, <2>7
<1>17. CASE File!WorkerEnds
  <2>1. /\ UNCHANGED <<state, subs, world>> /\ worker' = File!NoWorker
        /\ gens # <<>>
        /\ \E r : gens' = [gens EXCEPT ![Len(gens)].phase = "joined", ![Len(gens)].result = r]
    BY <1>17 DEF File!WorkerEnds, File!WorkerReturns, File!Alive
  <2>2. gens \in Seq(Generation) /\ gens[Len(gens)] \in Generation /\ Len(gens) \in DOMAIN gens
    BY <2>1, InvElim
  <2>3. ~Alive'
    BY <2>1, <2>2 DEF Alive, current, Generation
  <2>4. View
    BY <2>3 DEF View
  <2>5. Worker
    BY <2>1 DEF Worker, File!NoWorker
  <2>. QED BY <1>1, <1>2, <1>5, <2>1, <2>4, <2>5
<1>. QED
  BY <1>8, <1>9, <1>10, <1>11, <1>12, <1>13, <1>14, <1>15, <1>16, <1>17 DEF File!Next, File!ProviderNext

ViewInv == (kind = "file" => FileInv) /\ (kind = "dns-srv" => DnsInv)

LEMMA ViewInvHolds == Spec => []ViewInv
<1>1. Init => ViewInv
  BY FileStarts, DnsStarts DEF ViewInv
<1>2. ProviderInv /\ ProviderInv' /\ ViewInv /\ [Next]_allVars => ViewInv'
  <2>. SUFFICES ASSUME ProviderInv, ProviderInv', ViewInv, [Next]_allVars PROVE ViewInv'
    OBVIOUS
  <2>1. kind' = kind
    BY DEF Next, allVars
  <2>2. CASE UNCHANGED allVars
    BY <2>2 DEF allVars, vars, providerVars, ViewInv, FileInv, DnsInv, Parsed, Alive, current, names, IsFcn
  <2>3. CASE Next
    BY <2>1, <2>3, FileKeeps, DnsKeeps DEF Next, ViewInv
  <2>. QED BY <2>2, <2>3
<1>. QED BY <1>1, <1>2, ProviderInvHolds, PTL DEF Spec

\* Whenever a worker lives, what the peer file's provider shows is one whole
\* version that the file has had, valid and within the limit, whoever edits the
\* file between a read and its publication and whoever starts the generation
\* (ensure_started, run_file_watch and parse_peer_file); and no peer of a DNS
\* answer stays beyond the lifetime of the answer, however long queries take or
\* fail (run_dns_srv, apply_dns_answer and wait_for_dns_expiry).
THEOREM EveryViewIsValid == Spec => []ViewIsValid
<1>1. ViewInv => ViewIsValid
  <2>1. ASSUME FileInv PROVE File!FollowsTheFile
    BY <2>1 DEF FileInv, Parsed, File!FollowsTheFile, File!Alive, File!current, File!names, Alive, current, names
  <2>2. ASSUME DnsInv PROVE Dns!ViewIsUnexpired
    BY <2>2 DEF DnsInv, Dns!ViewIsUnexpired, Dns!Alive, Dns!current, Alive, current
  <2>. QED BY <2>1, <2>2 DEF ViewInv, ViewIsValid
<1>. QED BY <1>1, ViewInvHolds, PTL

-----------------------------------------------------------------------------
(* mDNS: the endpoints of all services together. *)

Pairs(inst) == UNION {{i} \X DOMAIN inst[i].endpoints : i \in DOMAIN inst}

LEMMA InPairs ==
    ASSUME NEW inst, NEW p
    PROVE  p \in Pairs(inst) <=>
             \E i \in DOMAIN inst : \E k \in DOMAIN inst[i].endpoints : p = <<i, k>>
BY DEF Pairs

\* A part of the services has the endpoints of these services.
LEMMA PairsOfPart ==
    ASSUME NEW S, NEW inst \in Seq(S), IsFiniteSet(Pairs(inst)), NEW I \in SUBSET (DOMAIN inst)
    PROVE  /\ IsFiniteSet(Pairs(At(inst, I)))
           /\ Cardinality(Pairs(At(inst, I))) = Cardinality({p \in Pairs(inst) : p[1] \in I})
           /\ Cardinality(Pairs(At(inst, I))) <= Cardinality(Pairs(inst))
<1>. DEFINE part == At(inst, I)
            n == Len(part)
            T == {p \in Pairs(inst) : p[1] \in I}
            f == [p \in Pairs(part) |-> <<Nth(I, p[1]), p[2]>>]
<1>1. /\ part \in Seq(S) /\ n \in Nat /\ DOMAIN part = 1..n
      /\ \A k \in 1..n : Nth(I, k) \in I /\ part[k] = inst[Nth(I, k)]
      /\ \A i \in I : \E k \in 1..n : Nth(I, k) = i
      /\ \A k, l \in 1..n : k < l => Nth(I, k) < Nth(I, l)
  BY AtFacts
<1>0. \A i \in DOMAIN inst : i \in Int
  OBVIOUS
<1>. HIDE DEF part, n
<1>2. ASSUME NEW p \in Pairs(part)
      PROVE  p[1] \in 1..n /\ p[2] \in DOMAIN inst[Nth(I, p[1])].endpoints /\ p = <<p[1], p[2]>>
  BY <1>1, InPairs
<1>3. f \in [Pairs(part) -> T]
  <2>1. ASSUME NEW p \in Pairs(part) PROVE <<Nth(I, p[1]), p[2]>> \in T
    <3>1. Nth(I, p[1]) \in I /\ Nth(I, p[1]) \in DOMAIN inst
      BY <1>1, <1>2
    <3>. QED BY <1>2, <3>1, InPairs
  <2>. QED BY <2>1
<1>4. ASSUME NEW p \in Pairs(part), NEW q \in Pairs(part), f[p] = f[q] PROVE p = q
  <2>1. Nth(I, p[1]) = Nth(I, q[1]) /\ p[2] = q[2]
    BY <1>4
  <2>2. p[1] \in 1..n /\ q[1] \in 1..n /\ Nth(I, p[1]) \in Int /\ Nth(I, q[1]) \in Int
    BY <1>0, <1>1, <1>2
  <2>3. p[1] = q[1]
    BY <1>1, <2>1, <2>2
  <2>. QED BY <1>2, <2>1, <2>3
<1>5. ASSUME NEW q \in T PROVE \E p \in Pairs(part) : f[p] = q
  <2>1. PICK i \in DOMAIN inst : \E k \in DOMAIN inst[i].endpoints : q = <<i, k>>
    BY InPairs
  <2>2. PICK k \in DOMAIN inst[i].endpoints : q = <<i, k>>
    BY <2>1
  <2>3. PICK l \in 1..n : Nth(I, l) = i
    BY <1>1, <2>2
  <2>4. <<l, k>> \in Pairs(part)
    BY <1>1, <2>2, <2>3, InPairs
  <2>5. f[<<l, k>>] = q
    BY <2>2, <2>3, <2>4
  <2>. QED BY <2>4, <2>5
<1>6. f \in Bijection(Pairs(part), T)
  <2>. HIDE DEF f, T
  <2>. QED BY <1>3, <1>4, <1>5 DEF Bijection, Injection, Surjection, IsInjective
<1>7. IsFiniteSet(T) /\ Cardinality(T) <= Cardinality(Pairs(inst))
  <2>1. T \in SUBSET Pairs(inst)
    OBVIOUS
  <2>. HIDE DEF T
  <2>. QED BY <2>1, FS_Subset
<1>. HIDE DEF f, T
<1>8. f \in Injection(Pairs(part), T) /\ f \in Surjection(Pairs(part), T)
  BY <1>6 DEF Bijection
<1>9. IsFiniteSet(Pairs(part)) /\ Cardinality(Pairs(part)) = Cardinality(T)
  BY <1>7, <1>8, FS_Injection
<1>. QED BY <1>7, <1>9 DEF part, T

\* One more service, at a place that had none.
Adds(A, m, l, B) ==
    /\ \A p \in A : p[1] # m
    /\ \A p : p \in B <=> p \in A \/ \E k \in 1..l : p = <<m, k>>

LEMMA PairsAdded ==
    ASSUME NEW A, IsFiniteSet(A), NEW m, NEW l \in Nat, NEW B, Adds(A, m, l, B)
    PROVE  IsFiniteSet(B) /\ Cardinality(B) = Cardinality(A) + l
<1>. DEFINE C == {<<m, k>> : k \in 1..l}
            f == [k \in 1..l |-> <<m, k>>]
<1>1. IsFiniteSet(1..l) /\ Cardinality(1..l) = l
  BY FS_Interval
<1>2. f \in Bijection(1..l, C)
  <2>1. f \in [1..l -> C] /\ \A c \in C : \E k \in 1..l : f[k] = c
    OBVIOUS
  <2>2. ASSUME NEW j \in 1..l, NEW k \in 1..l, f[j] = f[k] PROVE j = k
    BY <2>2
  <2>. HIDE DEF f, C
  <2>. QED BY <2>1, <2>2 DEF Bijection, Injection, Surjection, IsInjective
<1>3. IsFiniteSet(C) /\ Cardinality(C) = l
  <2>. HIDE DEF f, C
  <2>1. ExistsBijection(1..l, C)
    BY <1>2 DEF ExistsBijection
  <2>. QED BY <1>1, <2>1, FS_Bijection
<1>4. A \cap C = {}
  <2>1. \A c \in C : c[1] = m
    OBVIOUS
  <2>. HIDE DEF C
  <2>. QED BY <2>1 DEF Adds
<1>. HIDE DEF C
<1>5. IsFiniteSet(A \cup C) /\ Cardinality(A \cup C) = Cardinality(A) + l - Cardinality(A \cap C)
  BY <1>3, FS_Union
<1>6. Cardinality(A \cap C) = 0 /\ Cardinality(A) \in Nat
  BY <1>4, FS_EmptySet, FS_CardinalityType
<1>7. B = A \cup C
  BY DEF C, Adds
<1>. QED BY <1>5, <1>6, <1>7

LEMMA PairsOfNone == Pairs(<<>>) = {} /\ IsFiniteSet(Pairs(<<>>)) /\ Cardinality(Pairs(<<>>)) = 0
BY FS_EmptySet DEF Pairs

LEMMA PairsOfAppended ==
    ASSUME NEW S, NEW inst \in Seq(S), NEW v, IsFiniteSet(Pairs(inst)), NEW l \in Nat, DOMAIN v.endpoints = 1..l
    PROVE  LET more == Append(inst, v)
           IN  IsFiniteSet(Pairs(more)) /\ Cardinality(Pairs(more)) = Cardinality(Pairs(inst)) + l
<1>. DEFINE more == Append(inst, v)
            m == Len(inst) + 1
<1>1. /\ DOMAIN more = DOMAIN inst \cup {m} /\ more[m] = v /\ m \notin DOMAIN inst
      /\ \A i \in DOMAIN inst : more[i] = inst[i]
  OBVIOUS
<1>. HIDE DEF more, m
<1>2. \A p : p \in Pairs(more) <=> p \in Pairs(inst) \/ \E k \in 1..l : p = <<m, k>>
  <2>1. ASSUME NEW p PROVE p \in Pairs(more) <=> p \in Pairs(inst) \/ \E k \in 1..l : p = <<m, k>>
    <3>2. p \in Pairs(more) <=> \E i \in DOMAIN more : \E k \in DOMAIN more[i].endpoints : p = <<i, k>>
      BY InPairs
    <3>3. p \in Pairs(inst) <=> \E i \in DOMAIN inst : \E k \in DOMAIN inst[i].endpoints : p = <<i, k>>
      BY InPairs
    <3>4. ASSUME p \in Pairs(more) PROVE p \in Pairs(inst) \/ \E k \in 1..l : p = <<m, k>>
      <4>1. PICK i \in DOMAIN more : \E k \in DOMAIN more[i].endpoints : p = <<i, k>>
        BY <3>2, <3>4
      <4>. QED BY <1>1, <3>3, <4>1
    <3>5. ASSUME p \in Pairs(inst) PROVE p \in Pairs(more)
      BY <1>1, <3>2, <3>3, <3>5
    <3>6. ASSUME NEW k \in 1..l, p = <<m, k>> PROVE p \in Pairs(more)
      BY <1>1, <3>2, <3>6
    <3>. QED BY <3>4, <3>5, <3>6
  <2>. QED BY <2>1
<1>3. \A p \in Pairs(inst) : p[1] # m
  BY <1>1, InPairs
<1>4. IsFiniteSet(Pairs(more)) /\ Cardinality(Pairs(more)) = Cardinality(Pairs(inst)) + l
  <2>1. Adds(Pairs(inst), m, l, Pairs(more))
    BY <1>2, <1>3 DEF Adds
  <2>. QED BY <2>1, PairsAdded
<1>. QED BY <1>4 DEF more

Replaces(new, inst, m, v, l, I) ==
    /\ DOMAIN new = DOMAIN inst /\ new[m] = v /\ DOMAIN v.endpoints = 1..l
    /\ I = DOMAIN inst \ {m}
    /\ \A i \in I : new[i] = inst[i]

LEMMA PairsOfReplaced ==
    ASSUME NEW S, NEW inst \in Seq(S), NEW v, IsFiniteSet(Pairs(inst)), NEW l \in Nat,
           NEW m \in DOMAIN inst, NEW I, NEW new, Replaces(new, inst, m, v, l, I)
    PROVE  /\ IsFiniteSet(Pairs(new))
           /\ Cardinality(Pairs(new)) = Cardinality(Pairs(At(inst, I))) + l
<1>. DEFINE T == {p \in Pairs(inst) : p[1] \in I}
<1>1. /\ DOMAIN new = DOMAIN inst /\ new[m] = v /\ \A i \in I : new[i] = inst[i]
      /\ I = DOMAIN inst \ {m} /\ DOMAIN v.endpoints = 1..l
  BY DEF Replaces
<1>2. Cardinality(Pairs(At(inst, I))) = Cardinality(T)
  <2>1. I \in SUBSET (DOMAIN inst)
    BY <1>1
  <2>. QED BY <2>1, PairsOfPart
<1>3. \A p : p \in Pairs(new) <=> p \in T \/ \E k \in 1..l : p = <<m, k>>
  <2>1. ASSUME NEW p PROVE p \in Pairs(new) <=> p \in T \/ \E k \in 1..l : p = <<m, k>>
    <3>2. p \in T <=> \E i \in I : \E k \in DOMAIN inst[i].endpoints : p = <<i, k>>
      BY <1>1, InPairs
    <3>3. p \in Pairs(new) <=> \E i \in DOMAIN new : \E k \in DOMAIN new[i].endpoints : p = <<i, k>>
      BY InPairs
    <3>4. ASSUME p \in Pairs(new) PROVE p \in T \/ \E k \in 1..l : p = <<m, k>>
      <4>1. PICK i \in DOMAIN new : \E k \in DOMAIN new[i].endpoints : p = <<i, k>>
        BY <3>3, <3>4
      <4>. QED BY <1>1, <3>2, <4>1
    <3>5. ASSUME p \in T PROVE p \in Pairs(new)
      BY <1>1, <3>2, <3>3, <3>5
    <3>6. ASSUME NEW k \in 1..l, p = <<m, k>> PROVE p \in Pairs(new)
      BY <1>1, <3>3, <3>6
    <3>. QED BY <3>4, <3>5, <3>6
  <2>. QED BY <2>1
<1>4. IsFiniteSet(T) /\ \A p \in T : p[1] # m
  <2>1. T \in SUBSET Pairs(inst) /\ \A p \in T : p[1] # m
    BY <1>1
  <2>. HIDE DEF T
  <2>. QED BY <2>1, FS_Subset
<1>. HIDE DEF T
<1>5. IsFiniteSet(Pairs(new)) /\ Cardinality(Pairs(new)) = Cardinality(T) + l
  <2>1. Adds(T, m, l, Pairs(new))
    BY <1>3, <1>4 DEF Adds
  <2>. QED BY <1>4, <2>1, PairsAdded
<1>. QED BY <1>2, <1>5

-----------------------------------------------------------------------------
(* mDNS: what is listed and what is announced. *)

Instances(inst) ==
    /\ \E S : inst \in Seq(S)
    /\ \A i, j \in DOMAIN inst : inst[i].name = inst[j].name => i = j
    /\ IsFiniteSet(Pairs(inst)) /\ Cardinality(Pairs(inst)) <= MaxCandidates

Unlisted(owned, inst) == \A i \in DOMAIN inst : ~Lan!matches(owned, inst[i].name, inst[i].endpoints)

Owned(o) ==
    /\ o \in [current : {o.current}, keys : SUBSET Nat, names : {o.names}, endpoints : {o.endpoints}, generation : Nat]
    /\ \A k \in o.keys : k < o.generation
    /\ o.current # NoEndpoint => o.generation # 0 /\ o.generation - 1 \in o.keys

\* Only the living generation has registrations, all of them in its keys; with an
\* announcement the latest key is among them.
Registered(o, own, registered, gs) ==
    LET last == gs[Len(gs)]
    IN  /\ gs # <<>> /\ last.phase = "running" /\ o.current # NoEndpoint =>
              <<Len(gs), o.generation - 1>> \in registered
        /\ gs # <<>> /\ last.phase = "running" /\ own # NoEndpoint => o.current # NoEndpoint
        /\ gs # <<>> /\ last.phase # "done" => \A r \in registered : \E k \in o.keys : r = <<Len(gs), k>>
        /\ gs = <<>> \/ (last.phase = "done" /\ last.clean) => registered = {}
        /\ \A r \in registered : r[1] = Len(gs)

Lives(gs) == gs # <<>> /\ gs[Len(gs)].phase = "running"

LanParts(inst, owned, withdrawing, own, queue, registered, gs) ==
    /\ Instances(inst)
    /\ Lives(gs) /\ withdrawing = {} => Unlisted(owned, inst)
    /\ Owned(owned)
    /\ withdrawing \in SUBSET Nat /\ \A k \in withdrawing : k + 1 < owned.generation
    /\ queue \in Seq(OwnEndpoints)
    /\ Registered(owned, own, registered, gs)

LanState(w, n, gs) ==
    /\ w \in [instances : {w.instances}, owned : {w.owned}, withdrawing : {w.withdrawing}]
    /\ n \in [own : {n.own}, queue : {n.queue}, registered : {n.registered}]
    /\ LanParts(w.instances, w.owned, w.withdrawing, n.own, n.queue, n.registered, gs)

LanInv == LanState(worker, world, gens)

LEMMA LanAt == ASSUME NEW seq, NEW I PROVE Lan!At(seq, I) = At(seq, I)
BY DEF Lan!At, Lan!Nth, Lan!Cardinality, At, Nth, Cardinality

LEMMA LanRetained == ASSUME NEW inst PROVE Lan!Retained(inst) = Cardinality(Pairs(inst))
BY DEF Lan!Retained, Lan!Cardinality, Pairs, Cardinality

\* What is left of the services is what was there.
LEMMA PartOfInstances ==
    ASSUME NEW inst, Instances(inst), NEW I \in SUBSET (DOMAIN inst)
    PROVE  /\ Instances(At(inst, I))
           /\ \A k \in DOMAIN At(inst, I) : \E i \in I : At(inst, I)[k] = inst[i]
           /\ \A owned : Unlisted(owned, inst) => Unlisted(owned, At(inst, I))
<1>1. PICK S : inst \in Seq(S)
  BY DEF Instances
<1>. DEFINE part == At(inst, I)
            n == Len(part)
<1>2. /\ part \in Seq(S) /\ n \in Nat /\ DOMAIN part = 1..n
      /\ \A k \in 1..n : Nth(I, k) \in I /\ part[k] = inst[Nth(I, k)]
      /\ \A k, l \in 1..n : k < l => Nth(I, k) < Nth(I, l)
  BY <1>1, AtFacts
<1>3. IsFiniteSet(Pairs(part)) /\ Cardinality(Pairs(part)) <= MaxCandidates
  <2>1. IsFiniteSet(Pairs(inst)) /\ Cardinality(Pairs(inst)) <= MaxCandidates /\ MaxCandidates \in Nat
    BY DynamicProviderAssumption DEF Instances
  <2>2. IsFiniteSet(Pairs(part)) /\ Cardinality(Pairs(part)) <= Cardinality(Pairs(inst))
    BY <1>1, <2>1, PairsOfPart
  <2>3. Cardinality(Pairs(part)) \in Nat /\ Cardinality(Pairs(inst)) \in Nat
    BY <2>1, <2>2, FS_CardinalityType
  <2>. QED BY <2>1, <2>2, <2>3
<1>. HIDE DEF part, n
<1>4. ASSUME NEW k \in 1..n, NEW l \in 1..n, part[k].name = part[l].name PROVE k = l
  <2>1. Nth(I, k) = Nth(I, l) /\ Nth(I, k) \in Int /\ Nth(I, l) \in Int
    BY <1>1, <1>2, <1>4 DEF Instances
  <2>. QED BY <1>2, <2>1
<1>5. Instances(part)
  BY <1>2, <1>3, <1>4 DEF Instances
<1>6. \A k \in DOMAIN part : \E i \in I : part[k] = inst[i]
  BY <1>2
<1>7. ASSUME NEW owned, Unlisted(owned, inst) PROVE Unlisted(owned, part)
  BY <1>6, <1>7 DEF Unlisted
<1>. QED BY <1>5, <1>6, <1>7 DEF part

LEMMA RemoveInstance ==
    ASSUME NEW inst, Instances(inst), NEW name
    PROVE  LET rest == Lan!remove_instance(inst, name)
           IN  Instances(rest) /\ \A owned : Unlisted(owned, inst) => Unlisted(owned, rest)
<1>. DEFINE I == {i \in DOMAIN inst : inst[i].name # name}
<1>1. Lan!remove_instance(inst, name) = At(inst, I)
  BY LanAt DEF Lan!remove_instance
<1>2. I \in SUBSET (DOMAIN inst)
  OBVIOUS
<1>. HIDE DEF I
<1>. QED BY <1>1, <1>2, PartOfInstances

LEMMA RemoveOwned ==
    ASSUME NEW inst, Instances(inst), NEW owned
    PROVE  LET rest == Lan!remove_owned_instances(owned, inst)
           IN  Instances(rest) /\ Unlisted(owned, rest)
<1>. DEFINE I == {i \in DOMAIN inst : ~Lan!matches(owned, inst[i].name, inst[i].endpoints)}
<1>1. Lan!remove_owned_instances(owned, inst) = At(inst, I)
  BY LanAt DEF Lan!remove_owned_instances
<1>2. I \in SUBSET (DOMAIN inst) /\ \A i \in I : ~Lan!matches(owned, inst[i].name, inst[i].endpoints)
  OBVIOUS
<1>. HIDE DEF I
<1>3. Instances(At(inst, I)) /\ \A k \in DOMAIN At(inst, I) : \E i \in I : At(inst, I)[k] = inst[i]
  BY <1>2, PartOfInstances
<1>4. Unlisted(owned, At(inst, I))
  BY <1>2, <1>3 DEF Unlisted
<1>. QED BY <1>1, <1>3, <1>4

\* A service that is stored takes what room the others leave.
LEMMA StoreInstance ==
    ASSUME NEW inst, Instances(inst), NEW name, NEW endpoints, endpoints \in Seq(ToSet(endpoints)),
           NEW owned, Unlisted(owned, inst), ~Lan!matches(owned, name, endpoints)
    PROVE  LET new == Lan!store_instance(inst, name, endpoints)
           IN  Instances(new) /\ Unlisted(owned, new)
<1>. DEFINE known == \E i \in DOMAIN inst : inst[i].name = name
            others == Lan!remove_instance(inst, name)
            room == MaxCandidates - Lan!Retained(others)
            m == IF room < Len(endpoints) THEN room ELSE Len(endpoints)
            kept == SubSeq(endpoints, 1, m)
            view == [name |-> name, endpoints |-> kept, at |-> now]
            new == Lan!store_instance(inst, name, endpoints)
            I == {i \in DOMAIN inst : inst[i].name # name}
<1>0. PICK S : inst \in Seq(S)
  BY DEF Instances
<1>1. others = At(inst, I) /\ I \in SUBSET (DOMAIN inst)
  BY LanAt DEF Lan!remove_instance
<1>2. Instances(others) /\ \A o : Unlisted(o, inst) => Unlisted(o, others)
  BY RemoveInstance
<1>3. Lan!Retained(others) = Cardinality(Pairs(others))
  BY LanRetained
<1>4. new = IF ~known /\ Len(inst) >= MaxInstances THEN inst
            ELSE IF kept = <<>> THEN others
            ELSE IF known THEN [i \in DOMAIN inst |-> IF inst[i].name = name THEN view ELSE inst[i]]
            ELSE Append(inst, view)
  BY DEF Lan!store_instance
<1>5. /\ IsFiniteSet(Pairs(others)) /\ Cardinality(Pairs(others)) \in Nat /\ MaxCandidates \in Nat
      /\ Cardinality(Pairs(others)) <= MaxCandidates
  <2>1. IsFiniteSet(Pairs(others)) /\ Cardinality(Pairs(others)) <= MaxCandidates
    BY <1>2 DEF Instances
  <2>. QED BY <2>1, FS_CardinalityType, DynamicProviderAssumption
<1>. DEFINE c == Cardinality(Pairs(others))
<1>6. room = MaxCandidates - c /\ c \in Nat /\ room \in Nat
  <2>. HIDE DEF others
  <2>. QED BY <1>3, <1>5
<1>7. Len(endpoints) \in Nat /\ m \in Nat /\ m <= room /\ m <= Len(endpoints)
  <2>. HIDE DEF room
  <2>. QED BY <1>6
<1>. HIDE DEF others, room, m
<1>8. /\ Len(kept) = m /\ DOMAIN kept = 1..m
      /\ \A k \in 1..m : kept[k] = endpoints[k]
  BY <1>7
<1>9. ~Lan!matches(owned, name, kept)
  <2>1. \A x \in Lan!ToSet(kept) : x \in Lan!ToSet(endpoints)
    BY <1>7, <1>8 DEF Lan!ToSet
  <2>. HIDE DEF kept
  <2>. QED BY <2>1 DEF Lan!matches
<1>10. /\ view.name = name /\ view.endpoints = kept
  OBVIOUS
<1>. HIDE DEF kept, view, new
<1>11. CASE new = inst
  BY <1>11 DEF new
<1>12. CASE new = others
  BY <1>2, <1>12 DEF new
<1>13. CASE known /\ new = [i \in DOMAIN inst |-> IF inst[i].name = name THEN view ELSE inst[i]]
  <2>1. PICK j \in DOMAIN inst : inst[j].name = name
    BY <1>13
  <2>2. \A i \in DOMAIN inst : inst[i].name = name <=> i = j
    BY <2>1 DEF Instances
  <2>3. I = DOMAIN inst \ {j}
    BY <2>2
  <2>. HIDE DEF I
  <2>4. new = [i \in DOMAIN inst |-> IF i = j THEN view ELSE inst[i]]
    BY <1>13, <2>2
  <2>5. IsFiniteSet(Pairs(new)) /\ Cardinality(Pairs(new)) = Cardinality(Pairs(At(inst, I))) + m
    <3>1. IsFiniteSet(Pairs(inst)) /\ DOMAIN view.endpoints = 1..m
      BY <1>8, <1>10 DEF Instances
    <3>2. Replaces(new, inst, j, view, m, I)
      BY <2>3, <2>4, <3>1 DEF Replaces
    <3>. QED BY <1>0, <1>7, <3>1, <3>2, PairsOfReplaced
  <2>6. Cardinality(Pairs(new)) = c + m
    BY <1>1, <2>5
  <2>. HIDE DEF c
  <2>7. Cardinality(Pairs(new)) <= MaxCandidates
    BY <1>5, <1>6, <1>7, <2>6
  <2>8. new \in Seq(S \cup {view}) /\ DOMAIN new = DOMAIN inst
    BY <1>0, <2>4
  <2>9. \A i \in DOMAIN inst : new[i] = IF i = j THEN view ELSE inst[i]
    BY <2>4
  <2>10. \A i, k \in DOMAIN new : new[i].name = new[k].name => i = k
    BY <1>10, <2>1, <2>2, <2>8, <2>9 DEF Instances
  <2>11. Unlisted(owned, new)
    BY <1>9, <1>10, <2>8, <2>9 DEF Unlisted
  <2>. QED BY <2>5, <2>7, <2>8, <2>10, <2>11 DEF Instances, new
<1>14. CASE ~known /\ new = Append(inst, view)
  <2>1. I = DOMAIN inst
    BY <1>14
  <2>. HIDE DEF I
  <2>2. others = inst
    BY <1>0, <1>1, <2>1, AtAll
  <2>3. IsFiniteSet(Pairs(new)) /\ Cardinality(Pairs(new)) = c + m
    <3>1. IsFiniteSet(Pairs(inst)) /\ DOMAIN view.endpoints = 1..m
      BY <1>8, <1>10 DEF Instances
    <3>. QED BY <1>0, <1>7, <1>14, <2>2, <3>1, PairsOfAppended
  <2>. HIDE DEF c
  <2>4. Cardinality(Pairs(new)) <= MaxCandidates
    BY <1>5, <1>6, <1>7, <2>3
  <2>. DEFINE l == Len(inst) + 1
  <2>5. /\ new \in Seq(S \cup {view}) /\ DOMAIN new = DOMAIN inst \cup {l} /\ new[l] = view
        /\ \A i \in DOMAIN inst : new[i] = inst[i]
    BY <1>0, <1>14
  <2>. HIDE DEF l
  <2>6. \A i, k \in DOMAIN new : new[i].name = new[k].name => i = k
    BY <1>10, <1>14, <2>5 DEF Instances
  <2>7. Unlisted(owned, new)
    BY <1>9, <1>10, <2>5 DEF Unlisted
  <2>. QED BY <2>3, <2>4, <2>5, <2>6, <2>7 DEF Instances, new
<1>. QED BY <1>4, <1>11, <1>12, <1>13, <1>14 DEF new

LEMMA LanStarts ==
    ASSUME Init, kind = "mdns"
    PROVE  LanInv
<1>1. /\ gens = <<>>
      /\ worker = [instances |-> <<>>, owned |-> Lan!NothingOwned, withdrawing |-> {}]
      /\ world = [own |-> NoEndpoint, queue |-> <<>>, registered |-> {}]
  BY DEF Init, Lan!Init, Lan!ProviderInit, Lan!NoWorker
<1>2. Instances(<<>>)
  <2>1. <<>> \in Seq({}) /\ MaxCandidates >= 0
    BY DynamicProviderAssumption
  <2>. QED BY <2>1, PairsOfNone DEF Instances
<1>3. Owned(Lan!NothingOwned)
  BY DEF Owned, Lan!NothingOwned
<1>4. Registered(worker.owned, world.own, world.registered, gens)
  BY <1>1 DEF Registered
<1>5. <<>> \in Seq(OwnEndpoints)
  OBVIOUS
<1>. QED BY <1>1, <1>2, <1>3, <1>4, <1>5 DEF LanInv, LanState, LanParts, Lives

LEMMA LanIntro ==
    ASSUME NEW inst, NEW owned, NEW withdrawing, NEW own, NEW queue, NEW registered,
           worker' = [instances |-> inst, owned |-> owned, withdrawing |-> withdrawing],
           world' = [own |-> own, queue |-> queue, registered |-> registered],
           LanParts(inst, owned, withdrawing, own, queue, registered, gens')
    PROVE  LanInv'
<1>1. LanState(worker', world', gens')
  BY DEF LanState
<1>2. LanState(worker', world', gens') => LanInv'
  BY DEF LanInv, LanState, LanParts, Instances, Unlisted, Owned, Registered, Lives, Lan!matches
<1>. QED BY <1>1, <1>2

LEMMA LanElim ==
    ASSUME LanInv
    PROVE  /\ worker = [instances |-> worker.instances, owned |-> worker.owned, withdrawing |-> worker.withdrawing]
           /\ world = [own |-> world.own, queue |-> world.queue, registered |-> world.registered]
           /\ Instances(worker.instances) /\ Owned(worker.owned) /\ world.queue \in Seq(OwnEndpoints)
           /\ worker.withdrawing \in SUBSET Nat /\ \A k \in worker.withdrawing : k + 1 < worker.owned.generation
           /\ Registered(worker.owned, world.own, world.registered, gens)
           /\ Lives(gens) /\ worker.withdrawing = {} => Unlisted(worker.owned, worker.instances)
BY DEF LanInv, LanState, LanParts

\* What follows a transaction: nothing of ours is listed.
LEMMA LanTransacts ==
    ASSUME LanInv, NEW o, Lan!Announced(o), Owned(o), NEW own, NEW queue, NEW registered,
           world' = [own |-> own, queue |-> queue, registered |-> registered],
           queue \in Seq(OwnEndpoints), Registered(o, own, registered, gens')
    PROVE  LanInv'
<1>. DEFINE others == Lan!remove_owned_instances(o, worker.instances)
<1>1. worker' = [instances |-> others, owned |-> o, withdrawing |-> {}]
  BY DEF Lan!Announced
<1>2. Instances(others) /\ Unlisted(o, others)
  BY LanElim, RemoveOwned
<1>. HIDE DEF others
<1>3. LanParts(others, o, {}, own, queue, registered, gens')
  BY <1>2 DEF LanParts
<1>. QED BY <1>1, <1>3, LanIntro

\* A generation that ends keeps its registrations until its cleanup.
LEMMA LanRetires ==
    ASSUME ProviderInv, NEW o, NEW own, NEW registered, Registered(o, own, registered, gens),
           NEW phase \in {"joined", "cleaning"}, gens # <<>>, gens[Len(gens)].phase # "done",
           Len(gens') = Len(gens), gens' # <<>>, gens'[Len(gens)].phase = phase,
           NEW fewer \in SUBSET registered, NEW own2
    PROVE  Registered(o, own2, fewer, gens')
BY DEF Registered

LEMMA LastGens ==
    ASSUME ProviderInv, gens # <<>>
    PROVE  /\ gens \in Seq(Generation) /\ Len(gens) \in Nat /\ Len(gens) \in DOMAIN gens
           /\ gens[Len(gens)] \in Generation
BY InvElim

LEMMA LastReplaced ==
    ASSUME NEW S, NEW gs \in Seq(S), gs # <<>>, NEW e \in S, NEW hs, hs = [gs EXCEPT ![Len(gs)] = e]
    PROVE  hs # <<>> /\ Len(hs) = Len(gs) /\ hs[Len(gs)] = e
OBVIOUS

LEMMA LastJoins ==
    ASSUME ProviderInv, gens # <<>>, NEW result,
           gens' = [gens EXCEPT ![Len(gens)].phase = "joined", ![Len(gens)].result = result]
    PROVE  gens' # <<>> /\ Len(gens') = Len(gens) /\ gens'[Len(gens)].phase = "joined"
<1>. DEFINE last == [gens[Len(gens)] EXCEPT !.phase = "joined", !.result = result]
<1>1. gens' = [gens EXCEPT ![Len(gens)] = last]
  BY LastGens
<1>2. last.phase = "joined"
  BY LastGens DEF Generation
<1>. HIDE DEF last
<1>3. gens' # <<>> /\ Len(gens') = Len(gens) /\ gens'[Len(gens)] = last
  <2>1. gens \in Seq(Generation \cup {last}) /\ last \in Generation \cup {last}
    BY LastGens
  <2>. QED BY <1>1, <2>1, LastReplaced
<1>. QED BY <1>2, <1>3

LEMMA LanEndings ==
    ASSUME LanInv, ProviderInv, kind = "mdns",
           (\E g \in DOMAIN gens : Lan!Finish(g)) \/ Lan!Stop \/ Lan!WorkerEnds \/ Lan!WithdrawalFails
    PROVE  LanInv'
<1>0. LanParts(worker.instances, worker.owned, worker.withdrawing, world.own, world.queue, world.registered, gens)
  BY DEF LanInv, LanState
<1>1. ASSUME NEW g \in DOMAIN gens, Lan!Finish(g) PROVE LanInv'
  <2>1. gens[g].phase = "joined" /\ gens' = [gens EXCEPT ![g].phase = "cleaning"] /\ UNCHANGED <<worker, world>>
    BY <1>1 DEF Lan!Finish
  <2>2. g = Len(gens) /\ gens # <<>>
    BY <2>1, OnlyTheLast
  <2>3. Len(gens') = Len(gens) /\ gens' # <<>> /\ gens'[Len(gens)].phase = "cleaning"
    BY <2>1, <2>2, LastGens DEF Generation
  <2>4. Registered(worker.owned, world.own, world.registered, gens')
    BY <2>1, <2>2, <2>3, LanElim, LanRetires
  <2>5. LanParts(worker.instances, worker.owned, worker.withdrawing, world.own, world.queue, world.registered, gens')
    BY <1>0, <2>3, <2>4 DEF LanParts, Lives
  <2>. QED BY <2>1, <2>5, LanElim, LanIntro
<1>2. CASE Lan!Stop
  <2>1. world' = [world EXCEPT !.own = NoEndpoint] /\ UNCHANGED <<gens, worker>>
    BY <1>2 DEF Lan!Stop, Lan!RequestShutdown
  <2>2. world' = [own |-> NoEndpoint, queue |-> world.queue, registered |-> world.registered]
    BY <2>1, LanElim
  <2>3. LanParts(worker.instances, worker.owned, worker.withdrawing, NoEndpoint, world.queue, world.registered, gens')
    BY <1>0, <2>1 DEF LanParts, Registered
  <2>. QED BY <2>1, <2>2, <2>3, LanElim, LanIntro
<1>3. CASE Lan!WorkerEnds
  <2>1. /\ world' = [world EXCEPT !.queue = <<>>] /\ UNCHANGED worker
        /\ gens # <<>> /\ gens[Len(gens)].phase = "running"
        /\ \E r : gens' = [gens EXCEPT ![Len(gens)].phase = "joined", ![Len(gens)].result = r]
    BY <1>3 DEF Lan!WorkerEnds, Lan!WorkerReturns, Lan!Alive, Lan!current
  <2>2. world' = [own |-> world.own, queue |-> <<>>, registered |-> world.registered]
    BY <2>1, LanElim
  <2>3. Len(gens') = Len(gens) /\ gens' # <<>> /\ gens'[Len(gens)].phase = "joined"
    <3>1. PICK r : gens' = [gens EXCEPT ![Len(gens)].phase = "joined", ![Len(gens)].result = r]
      BY <2>1
    <3>. QED BY <2>1, <3>1, LastJoins
  <2>4. Registered(worker.owned, world.own, world.registered, gens')
    BY <2>1, <2>3, LanElim, LanRetires
  <2>5. <<>> \in Seq(OwnEndpoints)
    OBVIOUS
  <2>6. LanParts(worker.instances, worker.owned, worker.withdrawing, world.own, <<>>, world.registered, gens')
    BY <1>0, <2>3, <2>4, <2>5 DEF LanParts, Lives
  <2>. QED BY <2>1, <2>2, <2>6, LanElim, LanIntro
<1>4. CASE Lan!WithdrawalFails
  <2>1. /\ gens # <<>> /\ gens[Len(gens)].phase = "running"
        /\ \E r : gens' = [gens EXCEPT ![Len(gens)].phase = "joined", ![Len(gens)].result = r]
        /\ Lan!Announced(worker.owned)
        /\ \E heard : world' = [world EXCEPT !.own = worker.owned.current, !.queue = <<>>,
                                             !.registered = @ \ {Lan!Registration(k) : k \in heard}]
    BY <1>4 DEF Lan!WithdrawalFails, Lan!Alive, Lan!current
  <2>2. PICK heard : world' = [world EXCEPT !.own = worker.owned.current, !.queue = <<>>,
                                             !.registered = @ \ {Lan!Registration(k) : k \in heard}]
    BY <2>1
  <2>. DEFINE fewer == world.registered \ {Lan!Registration(k) : k \in heard}
  <2>3. world' = [own |-> worker.owned.current, queue |-> <<>>, registered |-> fewer]
    BY <2>2, LanElim
  <2>4. fewer \in SUBSET world.registered
    OBVIOUS
  <2>. HIDE DEF fewer
  <2>5. Len(gens') = Len(gens) /\ gens' # <<>> /\ gens'[Len(gens)].phase = "joined"
    <3>1. PICK r : gens' = [gens EXCEPT ![Len(gens)].phase = "joined", ![Len(gens)].result = r]
      BY <2>1
    <3>. QED BY <2>1, <3>1, LastJoins
  <2>6. Registered(worker.owned, worker.owned.current, fewer, gens')
    BY <2>1, <2>4, <2>5, LanElim, LanRetires
  <2>7. <<>> \in Seq(OwnEndpoints)
    OBVIOUS
  <2>. QED BY <2>1, <2>3, <2>6, <2>7, LanElim, LanTransacts
<1>. QED BY <1>1, <1>2, <1>3, <1>4

\* A registration under the next key.
LEMMA RegisterAdds ==
    ASSUME NEW o, Owned(o), NEW own, NEW registered, NEW gs, Lives(gs), Registered(o, own, registered, gs),
           NEW endpoint, endpoint # NoEndpoint, NEW own2, NEW more,
           more = registered \cup {<<Len(gs), o.generation>>}
    PROVE  LET o2 == Lan!accept(o, endpoint)
           IN  Owned(o2) /\ Registered(o2, own2, more, gs)
<1>. DEFINE o2 == Lan!accept(o, endpoint)
<1>1. /\ o2 = [current |-> endpoint, keys |-> o.keys \cup {o.generation}, names |-> o.names \cup {o.generation},
               endpoints |-> o.endpoints \cup {endpoint}, generation |-> o.generation + 1]
      /\ o.generation \in Nat /\ o.keys \in SUBSET Nat
  BY DEF Lan!accept, Owned
<1>2. /\ o2.current = endpoint /\ o2.keys = o.keys \cup {o.generation} /\ o2.generation = o.generation + 1
      /\ o2 \in [current : {o2.current}, keys : SUBSET Nat, names : {o2.names}, endpoints : {o2.endpoints}, generation : Nat]
  BY <1>1
<1>. HIDE DEF o2
<1>3. Owned(o2)
  BY <1>1, <1>2 DEF Owned
<1>4. Registered(o2, own2, more, gs)
  <2>1. /\ gs # <<>> /\ gs[Len(gs)].phase = "running"
        /\ \A r \in registered : \E k \in o.keys : r = <<Len(gs), k>>
        /\ \A r \in registered : r[1] = Len(gs)
    BY DEF Registered, Lives
  <2>2. \A r \in more : \E k \in o2.keys : r = <<Len(gs), k>>
    BY <1>2, <2>1
  <2>3. \A r \in more : r[1] = Len(gs)
    BY <2>2
  <2>4. <<Len(gs), o2.generation - 1>> \in more
    BY <1>1, <1>2
  <2>. QED BY <1>2, <2>1, <2>2, <2>3, <2>4 DEF Registered
<1>. QED BY <1>3, <1>4 DEF o2

LEMMA LanBegins ==
    ASSUME LanInv, ProviderInv, kind = "mdns", Lan!start_generation
    PROVE  LanInv'
<1>. DEFINE L == Len(gens) + 1
            restored == IF world.own = NoEndpoint THEN Lan!NothingOwned ELSE Lan!accept(Lan!NothingOwned, world.own)
            reg == {<<L, k>> : k \in restored.keys}
<1>1. /\ ~stopped /\ (gens = <<>> \/ (gens[Len(gens)].phase = "done" /\ gens[Len(gens)].restart # "fatal"))
      /\ gens' = Append(gens, [phase |-> "running", result |-> "ok", restart |-> "ok", clean |-> FALSE])
      /\ worker' = [Lan!NoWorker EXCEPT !.owned = restored]
      /\ world' = [world EXCEPT !.queue = <<>>, !.registered = @ \cup reg]
  BY DEF Lan!start_generation, Lan!Discover, Lan!MayStart, Lan!running, Lan!current, Lan!spawn
<1>2. world.registered = {}
  BY <1>1, InvElim, LanElim DEF Registered, GensKept
<1>3. gens' # <<>> /\ Len(gens') = L /\ gens'[L].phase = "running" /\ gens'[L].clean = FALSE /\ L \in Nat
  BY <1>1, InvElim
<1>4. /\ worker' = [instances |-> <<>>, owned |-> restored, withdrawing |-> {}]
      /\ world' = [own |-> world.own, queue |-> <<>>, registered |-> reg]
  BY <1>1, <1>2, LanElim DEF Lan!NoWorker
<1>5. Owned(Lan!NothingOwned) /\ Lan!NothingOwned.keys = {} /\ Lan!NothingOwned.current = NoEndpoint
      /\ Lan!NothingOwned.generation = 0
  BY DEF Lan!NothingOwned, Owned
<1>6. Registered(Lan!NothingOwned, NoEndpoint, {}, gens')
  BY <1>3, <1>5 DEF Registered
<1>7. Owned(restored) /\ Registered(restored, world.own, reg, gens')
  <2>1. CASE world.own = NoEndpoint
    <3>1. reg = {} /\ restored = Lan!NothingOwned
      BY <1>5, <2>1
    <3>. QED BY <1>5, <1>6, <2>1, <3>1
  <2>2. CASE world.own # NoEndpoint
    <3>1. restored = Lan!accept(Lan!NothingOwned, world.own) /\ restored.keys = {0}
      BY <1>5, <2>2 DEF Lan!accept
    <3>2. reg = {} \cup {<<Len(gens'), Lan!NothingOwned.generation>>}
      BY <1>3, <1>5, <3>1
    <3>3. Lives(gens')
      BY <1>3 DEF Lives
    <3>. QED BY <1>5, <1>6, <2>2, <3>1, <3>2, <3>3, RegisterAdds
  <2>. QED BY <2>1, <2>2
<1>. HIDE DEF restored, reg, L
<1>8. Instances(<<>>) /\ Unlisted(restored, <<>>) /\ <<>> \in Seq(OwnEndpoints)
  <2>1. <<>> \in Seq({}) /\ MaxCandidates >= 0
    BY DynamicProviderAssumption
  <2>. QED BY <2>1, PairsOfNone DEF Instances, Unlisted
<1>9. LanParts(<<>>, restored, {}, world.own, <<>>, reg, gens')
  BY <1>7, <1>8 DEF LanParts
<1>. QED BY <1>4, <1>9, LanIntro

LEMMA LanRegisters ==
    ASSUME LanInv, ProviderInv, kind = "mdns", Lan!Register
    PROVE  LanInv'
<1>. DEFINE endpoint == Head(world.queue)
            o2 == Lan!accept(worker.owned, endpoint)
            more == world.registered \cup {<<Len(gens), worker.owned.generation>>}
<1>1. /\ gens' = gens /\ Lives(gens) /\ world.queue # <<>>
      /\ \/ world' = [world EXCEPT !.queue = Tail(@)] /\ Lan!Announced(worker.owned)
         \/ /\ worker.owned.current # NoEndpoint
            /\ world' = [[world EXCEPT !.queue = Tail(@)] EXCEPT !.registered = more]
            /\ worker' = [worker EXCEPT !.owned = o2, !.withdrawing = worker.owned.keys]
         \/ /\ world' = [[[world EXCEPT !.queue = Tail(@)] EXCEPT !.registered = more] EXCEPT !.own = endpoint]
            /\ Lan!Announced(o2)
  BY LanElim DEF Lan!Register, Lan!Idling, Lan!Alive, Lan!current, Lives, Lan!Registration
<1>2. endpoint # NoEndpoint /\ Tail(world.queue) \in Seq(OwnEndpoints)
  <2>1. Head(world.queue) \in OwnEndpoints /\ Tail(world.queue) \in Seq(OwnEndpoints)
    BY <1>1, LanElim
  <2>. QED BY <2>1, DiscoveryAssumption
<1>. DEFINE rest == Tail(world.queue)
<1>3. \A own2 : Owned(o2) /\ Registered(o2, own2, more, gens)
  BY <1>1, <1>2, LanElim, RegisterAdds
<1>4. o2.generation = worker.owned.generation + 1
  BY DEF Lan!accept
<1>. HIDE DEF endpoint, o2, more
<1>5. CASE world' = [world EXCEPT !.queue = Tail(@)] /\ Lan!Announced(worker.owned)
  <2>1. world' = [own |-> world.own, queue |-> rest, registered |-> world.registered]
    BY <1>5, LanElim
  <2>. QED BY <1>1, <1>2, <1>5, <2>1, LanElim, LanTransacts
<1>6. CASE /\ worker.owned.current # NoEndpoint
           /\ world' = [[world EXCEPT !.queue = Tail(@)] EXCEPT !.registered = more]
           /\ worker' = [worker EXCEPT !.owned = o2, !.withdrawing = worker.owned.keys]
  <2>1. world' = [own |-> world.own, queue |-> rest, registered |-> more]
    BY <1>6, LanElim
  <2>2. worker' = [instances |-> worker.instances, owned |-> o2, withdrawing |-> worker.owned.keys]
    BY <1>6, LanElim
  <2>3. /\ worker.owned.keys # {} /\ worker.owned.keys \in SUBSET Nat
        /\ \A k \in worker.owned.keys : k + 1 < o2.generation
    BY <1>4, <1>6, LanElim DEF Owned
  <2>4. LanParts(worker.instances, o2, worker.owned.keys, world.own, rest, more, gens')
    BY <1>1, <1>2, <1>3, <2>3, LanElim DEF LanParts
  <2>. QED BY <2>1, <2>2, <2>4, LanIntro
<1>7. CASE /\ world' = [[[world EXCEPT !.queue = Tail(@)] EXCEPT !.registered = more] EXCEPT !.own = endpoint]
           /\ Lan!Announced(o2)
  <2>1. world' = [own |-> endpoint, queue |-> rest, registered |-> more]
    BY <1>7, LanElim
  <2>2. Owned(o2) /\ Registered(o2, endpoint, more, gens')
    BY <1>1, <1>3
  <2>. QED BY <1>2, <1>7, <2>1, <2>2, LanTransacts
<1>. QED BY <1>1, <1>5, <1>6, <1>7

LEMMA LanWithdraws ==
    ASSUME LanInv, ProviderInv, kind = "mdns", Lan!WithdrawFormer
    PROVE  LanInv'
<1>. DEFINE o == worker.owned
            o2 == [o EXCEPT !.keys = @ \ worker.withdrawing]
            fewer == world.registered \ {<<Len(gens), k>> : k \in worker.withdrawing}
<1>1. /\ gens' = gens /\ Lives(gens)
      /\ world' = [world EXCEPT !.own = o.current, !.registered = fewer]
      /\ Lan!Announced(o2)
  BY LanElim DEF Lan!WithdrawFormer, Lan!Alive, Lan!current, Lives, Lan!Registration
<1>2. world' = [own |-> o.current, queue |-> world.queue, registered |-> fewer]
  BY <1>1, LanElim
<1>3. /\ Owned(o) /\ Registered(o, world.own, world.registered, gens)
      /\ worker.withdrawing \in SUBSET Nat /\ \A k \in worker.withdrawing : k + 1 < o.generation
  BY LanElim
<1>4. /\ o2 \in [current : {o2.current}, keys : SUBSET Nat, names : {o2.names}, endpoints : {o2.endpoints}, generation : Nat]
      /\ o2.current = o.current /\ o2.generation = o.generation /\ o2.keys = o.keys \ worker.withdrawing
      /\ o.generation \in Nat /\ o.keys \in SUBSET Nat
  BY <1>3 DEF Owned
<1>. HIDE DEF o2
<1>5. Owned(o2)
  BY <1>3, <1>4 DEF Owned
<1>6. Registered(o2, o.current, fewer, gens)
  <2>1. /\ gens # <<>> /\ gens[Len(gens)].phase = "running"
        /\ o.current # NoEndpoint => <<Len(gens), o.generation - 1>> \in world.registered
        /\ \A r \in world.registered : \E k \in o.keys : r = <<Len(gens), k>>
        /\ \A r \in world.registered : r[1] = Len(gens)
    BY <1>1, <1>3 DEF Registered, Lives
  <2>2. \A r \in fewer : \E k \in o2.keys : r = <<Len(gens), k>>
    <3>. SUFFICES ASSUME NEW r \in fewer PROVE \E k \in o2.keys : r = <<Len(gens), k>>
      OBVIOUS
    <3>1. PICK k \in o.keys : r = <<Len(gens), k>>
      BY <2>1
    <3>2. k \notin worker.withdrawing
      BY <3>1
    <3>. QED BY <1>4, <3>1, <3>2
  <2>3. o.current # NoEndpoint => <<Len(gens), o.generation - 1>> \in fewer
    BY <1>3, <1>4, <2>1
  <2>4. \A r \in fewer : r[1] = Len(gens)
    BY <2>1
  <2>. HIDE DEF fewer
  <2>. QED BY <1>4, <2>1, <2>2, <2>3, <2>4 DEF Registered
<1>7. Registered(o2, o.current, fewer, gens') /\ world.queue \in Seq(OwnEndpoints)
  BY <1>1, <1>6, LanElim
<1>. HIDE DEF fewer
<1>. QED BY <1>1, <1>2, <1>5, <1>7, LanTransacts

LEMMA LanCleans ==
    ASSUME LanInv, ProviderInv, kind = "mdns", NEW g \in DOMAIN gens, Lan!Cleanup(g)
    PROVE  LanInv'
<1>1. PICK acked \in SUBSET worker.owned.keys, terminated \in BOOLEAN :
        /\ \E unheard \in SUBSET (worker.owned.keys \ acked) :
              world' = [world EXCEPT !.registered = @ \ {<<g, k>> : k \in acked \cup unheard},
                                     !.own = IF stopped THEN NoEndpoint ELSE @]
        /\ worker' = Lan!NoWorker
        /\ Lan!Complete(g, acked = worker.owned.keys /\ terminated)
  BY DEF Lan!Cleanup
<1>2. PICK unheard \in SUBSET (worker.owned.keys \ acked) :
        world' = [world EXCEPT !.registered = @ \ {<<g, k>> : k \in acked \cup unheard},
                               !.own = IF stopped THEN NoEndpoint ELSE @]
  BY <1>1
<1>. DEFINE cleaned == acked = worker.owned.keys /\ terminated
            fewer == world.registered \ {<<g, k>> : k \in acked \cup unheard}
            own2 == IF stopped THEN NoEndpoint ELSE world.own
<1>3. /\ gens[g].phase = "cleaning"
      /\ gens' = [gens EXCEPT ![g].phase = "done", ![g].clean = cleaned,
                              ![g].restart = IF ~cleaned \/ gens[g].result = "fatal" THEN "fatal" ELSE "ok"]
  BY <1>1 DEF Lan!Complete
<1>4. g = Len(gens) /\ gens # <<>> /\ gens[g] \in Generation
  BY <1>3, OnlyTheLast
<1>5. gens' # <<>> /\ Len(gens') = Len(gens) /\ gens'[Len(gens)].phase = "done" /\ gens'[Len(gens)].clean = cleaned
  <2>. HIDE DEF cleaned
  <2>. DEFINE last == [gens[Len(gens)] EXCEPT !.phase = "done", !.clean = cleaned,
                              !.restart = IF ~cleaned \/ gens[g].result = "fatal" THEN "fatal" ELSE "ok"]
  <2>1. gens' = [gens EXCEPT ![Len(gens)] = last]
    BY <1>3, <1>4, LastGens
  <2>2. last.phase = "done" /\ last.clean = cleaned
    BY <1>4 DEF Generation
  <2>. HIDE DEF last
  <2>3. gens' # <<>> /\ Len(gens') = Len(gens) /\ gens'[Len(gens)] = last
    <3>1. gens \in Seq(Generation \cup {last}) /\ last \in Generation \cup {last}
      BY <1>4, LastGens
    <3>. QED BY <1>4, <2>1, <3>1, LastReplaced
  <2>. QED BY <2>2, <2>3
<1>6. /\ worker' = [instances |-> <<>>, owned |-> Lan!NothingOwned, withdrawing |-> {}]
      /\ world' = [own |-> own2, queue |-> world.queue, registered |-> fewer]
  BY <1>1, <1>2, LanElim DEF Lan!NoWorker
<1>7. Registered(Lan!NothingOwned, own2, fewer, gens')
  <2>1. \A r \in world.registered : r[1] = Len(gens) /\ \E k \in worker.owned.keys : r = <<Len(gens), k>>
    BY <1>3, <1>4, LanElim DEF Registered
  <2>2. cleaned => fewer = {}
    BY <1>4, <2>1
  <2>3. \A r \in fewer : r[1] = Len(gens)
    BY <2>1
  <2>. HIDE DEF fewer, cleaned, own2
  <2>. QED BY <1>5, <2>2, <2>3 DEF Registered
<1>. HIDE DEF fewer, own2
<1>8. Instances(<<>>) /\ Unlisted(Lan!NothingOwned, <<>>) /\ Owned(Lan!NothingOwned)
  <2>1. <<>> \in Seq({}) /\ MaxCandidates >= 0
    BY DynamicProviderAssumption
  <2>2. Owned(Lan!NothingOwned)
    BY DEF Owned, Lan!NothingOwned
  <2>. QED BY <2>1, <2>2, PairsOfNone DEF Instances, Unlisted
<1>9. LanParts(<<>>, Lan!NothingOwned, {}, own2, world.queue, fewer, gens')
  BY <1>7, <1>8, LanElim DEF LanParts
<1>. QED BY <1>6, <1>9, LanIntro

\* The events of the daemon.
LEMMA LanHears ==
    ASSUME LanInv, ProviderInv, kind = "mdns",
           \/ \E name \in InstanceNames \cup worker.owned.names, endpoints \in RemoteEndpoints, same \in BOOLEAN :
                 Lan!Resolved(name, endpoints, same)
           \/ \E name \in InstanceNames : Lan!Removed(name)
           \/ \E original \in worker.owned.names, name \in InstanceNames : Lan!NameChange(original, name)
    PROVE  LanInv'
<1>0. ASSUME NEW inst, Lan!Idling, Lan!View(inst), Instances(inst), Unlisted(worker.owned, inst)
      PROVE  LanInv'
  <2>1. worker' = [worker EXCEPT !.instances = inst] /\ gens' = gens /\ world' = world
    BY <1>0 DEF Lan!View
  <2>2. worker' = [instances |-> inst, owned |-> worker.owned, withdrawing |-> worker.withdrawing]
    BY <2>1, LanElim
  <2>3. world' = [own |-> world.own, queue |-> world.queue, registered |-> world.registered]
    BY <2>1, LanElim
  <2>4. LanParts(inst, worker.owned, worker.withdrawing, world.own, world.queue, world.registered, gens')
    BY <1>0, <2>1, LanElim DEF LanParts
  <2>. QED BY <2>2, <2>3, <2>4, LanIntro
<1>1. ASSUME Lan!Idling PROVE Instances(worker.instances) /\ Unlisted(worker.owned, worker.instances)
  BY <1>1, LanElim DEF Lan!Idling, Lan!Alive, Lan!current, Lives
<1>2. ASSUME NEW name, NEW endpoints \in RemoteEndpoints, NEW same, Lan!Resolved(name, endpoints, same) PROVE LanInv'
  <2>1. CASE Lan!View(Lan!remove_instance(worker.instances, name)) /\ Lan!Idling
    BY <1>0, <1>1, <2>1, RemoveInstance
  <2>2. CASE /\ Lan!View(Lan!store_instance(worker.instances, name, endpoints)) /\ Lan!Idling
             /\ ~Lan!matches(worker.owned, name, endpoints)
    <3>1. endpoints \in Seq(ToSet(endpoints))
      BY DiscoveryAssumption
    <3>. QED BY <1>0, <1>1, <2>2, <3>1, StoreInstance
  <2>. QED BY <1>2, <2>1, <2>2 DEF Lan!Resolved
<1>3. ASSUME NEW name, Lan!Removed(name) PROVE LanInv'
  BY <1>0, <1>1, <1>3, RemoveInstance DEF Lan!Removed
<1>4. ASSUME NEW original, NEW name, Lan!NameChange(original, name) PROVE LanInv'
  <2>. DEFINE o == worker.owned
              o2 == [o EXCEPT !.names = @ \cup {name}]
  <2>1. Lan!Announced(o2) /\ gens' = gens /\ world' = world
    BY <1>4 DEF Lan!NameChange
  <2>2. /\ Owned(o2) /\ o2.generation = o.generation /\ o2.keys = o.keys /\ o2.current = o.current
    BY LanElim DEF Owned
  <2>. HIDE DEF o2
  <2>3. Registered(o2, world.own, world.registered, gens')
    BY <2>1, <2>2, LanElim DEF Registered
  <2>4. /\ world' = [own |-> world.own, queue |-> world.queue, registered |-> world.registered]
        /\ world.queue \in Seq(OwnEndpoints)
    BY <2>1, LanElim
  <2>. QED BY <2>1, <2>2, <2>3, <2>4, LanTransacts
<1>. QED BY <1>2, <1>3, <1>4

LEMMA LanRests ==
    ASSUME LanInv, ProviderInv, gens' = gens, worker' = worker,
           \/ world' = world
           \/ \E endpoint \in OwnEndpoints : world' = [world EXCEPT !.queue = Append(@, endpoint)]
    PROVE  LanInv'
<1>. DEFINE o == worker.owned
            queue == world'.queue
<1>1. o \in [current : {o.current}, keys : SUBSET Nat, names : {o.names}, endpoints : {o.endpoints}, generation : Nat]
  BY LanElim DEF Owned
<1>2. world' = [own |-> world.own, queue |-> queue, registered |-> world.registered]
  BY LanElim
<1>3. queue \in Seq(OwnEndpoints)
  <2>1. CASE world' = world
    BY <2>1, LanElim
  <2>2. ASSUME NEW endpoint \in OwnEndpoints, world' = [world EXCEPT !.queue = Append(@, endpoint)]
        PROVE  queue \in Seq(OwnEndpoints)
    <3>1. queue = Append(world.queue, endpoint)
      BY <2>2, LanElim
    <3>. HIDE DEF queue
    <3>. QED BY <3>1, LanElim
  <2>. QED BY <2>1, <2>2
<1>. HIDE DEF queue
<1>4. LanParts(worker.instances, worker.owned, worker.withdrawing, world.own, queue, world.registered, gens')
  BY <1>3, LanElim DEF LanParts
<1>5. worker' = [instances |-> worker.instances, owned |-> worker.owned, withdrawing |-> worker.withdrawing]
  BY LanElim
<1>. QED BY <1>2, <1>4, <1>5, LanIntro

LEMMA LanKeeps ==
    ASSUME LanInv, ProviderInv, kind = "mdns", Lan!Next
    PROVE  LanInv'
<1>1. ASSUME NEW endpoint \in OwnEndpoints, Lan!Announce(endpoint) PROVE LanInv'
  <2>1. gens' = gens /\ worker' = worker /\ world' = [world EXCEPT !.queue = Append(@, endpoint)]
    BY <1>1 DEF Lan!Announce, Lan!providerVars
  <2>. QED BY <2>1, LanRests
<1>2. CASE Lan!ProviderNext
  BY <1>2, LanEndings DEF Lan!ProviderNext
<1>3. CASE \E g \in DOMAIN gens : Lan!Cleanup(g)
  BY <1>3, LanCleans
<1>4. CASE Lan!start_generation
  BY <1>4, LanBegins
<1>5. CASE Lan!Register
  BY <1>5, LanRegisters
<1>6. CASE Lan!WithdrawFormer
  BY <1>6, LanWithdraws
<1>7. CASE Lan!Stop \/ Lan!WorkerEnds \/ Lan!WithdrawalFails
  BY <1>7, LanEndings
<1>. QED BY <1>1, <1>2, <1>3, <1>4, <1>5, <1>6, <1>7, LanHears DEF Lan!Next

LEMMA LanInvImplies ==
    ASSUME LanInv, ProviderInv
    PROVE  Lan!ServiceInv
<1>1. Lan!OwnServiceNotListed
  BY LanElim DEF Lan!OwnServiceNotListed, Lan!Idling, Lan!Alive, Lan!current, Lives, Unlisted
<1>2. Lan!StaysAnnounced
  BY LanElim DEF Lan!StaysAnnounced, Lan!Alive, Lan!current, Lan!Registration, Registered
<1>3. Lan!ConfirmedCleanupRetires
  <2>. SUFFICES ASSUME NEW g \in DOMAIN gens, gens[g].phase = "done", gens[g].clean, NEW r \in world.registered
                PROVE  r[1] # g
    BY DEF Lan!ConfirmedCleanupRetires
  <2>1. r[1] = Len(gens)
    BY LanElim DEF Registered
  <2>2. gens[Len(gens)].phase = "done" /\ gens[Len(gens)].clean => world.registered = {}
    BY LanElim DEF Registered
  <2>. QED BY <2>1, <2>2
<1>4. Lan!InstancesAreBounded
  BY LanElim, LanRetained DEF Lan!InstancesAreBounded, Instances
<1>. QED BY <1>1, <1>2, <1>3, <1>4 DEF Lan!ServiceInv

LEMMA LanInvHolds == Spec => [](kind = "mdns" => LanInv)
<1>. DEFINE Inv == kind = "mdns" => LanInv
<1>1. Init => Inv
  BY LanStarts
<1>2. Inv /\ ProviderInv /\ [Next]_allVars => Inv'
  <2>. SUFFICES ASSUME kind = "mdns" => LanInv, ProviderInv, [Next]_allVars, kind' = "mdns" PROVE LanInv'
    BY DEF Inv
  <2>1. kind = "mdns" /\ LanInv
    BY DEF Next, allVars
  <2>2. CASE Next
    <3>1. Lan!Next
      BY <2>1, <2>2 DEF Next
    <3>. QED BY <2>1, <3>1, LanKeeps
  <2>3. CASE UNCHANGED allVars
    <3>1. gens' = gens /\ worker' = worker /\ world' = world
      BY <2>3 DEF allVars, vars, providerVars
    <3>. QED BY <2>1, <3>1, LanRests
  <2>. QED BY <2>2, <2>3
<1>. QED BY <1>1, <1>2, ProviderInvHolds, PTL DEF Spec

\* The mDNS provider never lists this node between two transactions, keeps it
\* announced through replacements and restarts until it stops, leaves no service of
\* a confirmed cleanup on the network and stays within max_candidates (run_mdns,
\* shutdown_daemon_until, store_instance).
THEOREM EveryServiceIsOwned == Spec => []ServiceInv
<1>1. ProviderInv /\ (kind = "mdns" => LanInv) => ServiceInv
  BY LanInvImplies DEF ServiceInv
<1>. QED BY <1>1, ProviderInvHolds, LanInvHolds, PTL
============================================================================
