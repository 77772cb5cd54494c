-------------------------- MODULE BootstrapProofs --------------------------
(***************************************************************************)
(* Theorems about the bootstrap provider and the seeds it asks, as         *)
(* Discovery composes them: with suggestions of other nodes (Gossip) and   *)
(* of the seeds alone (GossipOfSeeds).  What a seed suggests is recent,    *)
(* and a seed that holds an announcement of this node is one the provider  *)
(* knows of, or one whose withdrawal it has reported.                      *)
(***************************************************************************)
EXTENDS DiscoveryProofs

-----------------------------------------------------------------------------
(* Concatenations. *)

LEMMA JoinedSets ==
    ASSUME NEW S, NEW s \in Seq(S), NEW t \in Seq(S), NEW x
    PROVE  x \in ToSet(s \o t) <=> x \in ToSet(s) \/ x \in ToSet(t)
<1>1. /\ s \o t \in Seq(S) /\ Len(s \o t) = Len(s) + Len(t) /\ Len(s) \in Nat /\ Len(t) \in Nat
      /\ \A i \in 1..Len(s) : (s \o t)[i] = s[i]
      /\ \A i \in 1..Len(t) : (s \o t)[Len(s) + i] = t[i]
  OBVIOUS
<1>2. ASSUME x \in ToSet(s \o t) PROVE x \in ToSet(s) \/ x \in ToSet(t)
  <2>1. PICK i \in 1..(Len(s) + Len(t)) : (s \o t)[i] = x
    BY <1>1, <1>2 DEF ToSet
  <2>2. CASE i \in 1..Len(s)
    BY <1>1, <2>1, <2>2 DEF ToSet
  <2>3. CASE i \notin 1..Len(s)
    <3>1. i - Len(s) \in 1..Len(t) /\ Len(s) + (i - Len(s)) = i
      BY <1>1, <2>1, <2>3
    <3>2. t[i - Len(s)] = x
      BY <1>1, <2>1, <3>1
    <3>. QED BY <3>1, <3>2 DEF ToSet
  <2>. QED BY <2>2, <2>3
<1>3. ASSUME x \in ToSet(s) PROVE x \in ToSet(s \o t)
  <2>1. PICK i \in 1..Len(s) : s[i] = x
    BY <1>3 DEF ToSet
  <2>2. i \in 1..Len(s \o t) /\ (s \o t)[i] = x
    BY <1>1, <2>1
  <2>. QED BY <1>1, <2>2 DEF ToSet
<1>4. ASSUME x \in ToSet(t) PROVE x \in ToSet(s \o t)
  <2>1. PICK i \in 1..Len(t) : t[i] = x
    BY <1>4 DEF ToSet
  <2>2. Len(s) + i \in 1..Len(s \o t) /\ (s \o t)[Len(s) + i] = x
    BY <1>1, <2>1
  <2>. QED BY <1>1, <2>2 DEF ToSet
<1>. QED BY <1>2, <1>3, <1>4

\* f has the concatenations of the first n sequences.
Joined(f, seqs, n) ==
    f = [i \in 1..n |-> IF i = 1 THEN seqs[i] ELSE f[i - 1] \o seqs[i]]

LEMMA JoinedExists ==
    ASSUME NEW S, NEW seqs \in Seq(Seq(S)), NEW n \in 0..Len(seqs)
    PROVE  \E f : Joined(f, seqs, n)
<1>. DEFINE T == {k \in 0..Len(seqs) : ~\E f : Joined(f, seqs, k)}
<1>. SUFFICES ASSUME T # {} PROVE FALSE
  OBVIOUS
<1>1. Len(seqs) \in Nat /\ T \subseteq Nat
  OBVIOUS
<1>2. PICK k \in T : \A l \in T : k <= l
  <2>. HIDE DEF T
  <2>. QED BY <1>1, NatMin
<1>3. k \in 0..Len(seqs) /\ ~\E f : Joined(f, seqs, k)
  OBVIOUS
<1>4. CASE k = 0
  <2>. DEFINE f == [i \in 1..0 |-> <<>>]
  <2>1. Joined(f, seqs, 0)
    BY DEF Joined
  <2>. HIDE DEF f
  <2>. QED BY <1>3, <1>4, <2>1
<1>5. CASE k # 0
  <2>1. k - 1 \in 0..Len(seqs) /\ k \in 1..Len(seqs) /\ ~(k <= k - 1)
    BY <1>1, <1>3, <1>5
  <2>2. PICK f : Joined(f, seqs, k - 1)
    <3>1. k - 1 \notin T
      <4>. HIDE DEF T
      <4>. QED BY <1>2, <2>1
    <3>. QED BY <2>1, <3>1
  <2>. DEFINE g == [i \in 1..k |-> IF i < k THEN f[i] ELSE IF k = 1 THEN seqs[k] ELSE f[k - 1] \o seqs[k]]
  <2>3. \A i \in 1..(k - 1) : f[i] = IF i = 1 THEN seqs[i] ELSE f[i - 1] \o seqs[i]
    BY <2>2 DEF Joined
  <2>4. ASSUME NEW i \in 1..k PROVE g[i] = IF i = 1 THEN seqs[i] ELSE g[i - 1] \o seqs[i]
    <3>1. CASE i = k
      <4>1. k \in 1..k /\ ~(k < k) /\ (k # 1 => k - 1 \in 1..k /\ k - 1 < k)
        BY <2>1
      <4>2. g[k] = IF k = 1 THEN seqs[k] ELSE f[k - 1] \o seqs[k]
        BY <4>1
      <4>3. k # 1 => g[k - 1] = f[k - 1]
        BY <4>1
      <4>. HIDE DEF g
      <4>. QED BY <3>1, <4>2, <4>3
    <3>2. CASE i < k /\ i = 1
      <4>1. i \in 1..(k - 1) /\ g[i] = f[i]
        BY <2>1, <3>2
      <4>. HIDE DEF g
      <4>. QED BY <2>3, <3>2, <4>1
    <3>3. CASE i < k /\ i # 1
      <4>1. i \in 1..(k - 1) /\ i - 1 \in 1..k /\ i - 1 < k
        BY <2>1, <3>3
      <4>2. g[i] = f[i] /\ g[i - 1] = f[i - 1]
        BY <3>3, <4>1
      <4>. HIDE DEF g
      <4>. QED BY <2>3, <3>3, <4>1, <4>2
    <3>. QED BY <2>1, <3>1, <3>2, <3>3
  <2>5. g = [i \in 1..k |-> g[i]]
    OBVIOUS
  <2>. HIDE DEF g
  <2>6. Joined(g, seqs, k)
    BY <2>4, <2>5 DEF Joined
  <2>. QED BY <1>3, <2>6
<1>. QED BY <1>4, <1>5

LEMMA JoinedFacts ==
    ASSUME NEW S, NEW seqs \in Seq(Seq(S)), NEW f, Joined(f, seqs, Len(seqs)), NEW n \in 1..Len(seqs)
    PROVE  f[n] \in Seq(S) /\ \A x : x \in ToSet(f[n]) <=> \E j \in 1..n : x \in ToSet(seqs[j])
<1>. DEFINE P(i) == f[i] \in Seq(S) /\ \A x : x \in ToSet(f[i]) <=> \E j \in 1..i : x \in ToSet(seqs[j])
            T == {i \in 1..Len(seqs) : ~P(i)}
<1>. SUFFICES ASSUME T # {} PROVE FALSE
  OBVIOUS
<1>1. Len(seqs) \in Nat /\ T \subseteq Nat
  OBVIOUS
<1>2. PICK k \in T : \A l \in T : k <= l
  <2>. HIDE DEF T
  <2>. QED BY <1>1, NatMin
<1>3. k \in 1..Len(seqs) /\ ~P(k) /\ seqs[k] \in Seq(S)
  OBVIOUS
<1>4. f[k] = IF k = 1 THEN seqs[k] ELSE f[k - 1] \o seqs[k]
  BY <1>3 DEF Joined
<1>5. CASE k = 1
  <2>1. P(1)
    BY <1>3, <1>4, <1>5
  <2>. QED BY <1>3, <1>5, <2>1
<1>6. CASE k # 1
  <2>1. k - 1 \in 1..Len(seqs) /\ ~(k <= k - 1)
    BY <1>1, <1>3, <1>6
  <2>2. P(k - 1)
    <3>1. k - 1 \notin T
      <4>. HIDE DEF T
      <4>. QED BY <1>2, <2>1
    <3>. QED BY <2>1, <3>1
  <2>3. f[k - 1] \in Seq(S) /\ f[k] = f[k - 1] \o seqs[k]
    BY <1>4, <1>6, <2>2
  <2>4. f[k] \in Seq(S)
    BY <1>3, <2>3
  <2>5. ASSUME NEW x PROVE x \in ToSet(f[k]) <=> x \in ToSet(f[k - 1]) \/ x \in ToSet(seqs[k])
    BY <1>3, <2>3, JoinedSets
  <2>6. \A x : x \in ToSet(f[k]) <=> \E j \in 1..k : x \in ToSet(seqs[j])
    <3>1. 1..k = 1..(k - 1) \cup {k}
      BY <1>3
    <3>. QED BY <2>2, <2>5, <3>1
  <2>. QED BY <1>3, <2>4, <2>6
<1>. QED BY <1>5, <1>6

LEMMA FlattenFacts ==
    ASSUME NEW S, NEW seqs \in Seq(Seq(S))
    PROVE  /\ FlattenSeq(seqs) \in Seq(S)
           /\ \A x : x \in ToSet(FlattenSeq(seqs)) <=> \E j \in DOMAIN seqs : x \in ToSet(seqs[j])
<1>. DEFINE n == Len(seqs)
            flatten == CHOOSE f : f = [i \in 1..n |-> IF i = 1 THEN seqs[i] ELSE f[i - 1] \o seqs[i]]
<1>1. n \in Nat /\ DOMAIN seqs = 1..n
  OBVIOUS
<1>2. CASE n = 0
  <2>1. FlattenSeq(seqs) = <<>> /\ seqs = <<>>
    BY <1>2 DEF FlattenSeq
  <2>. QED BY <2>1 DEF ToSet
<1>3. CASE n # 0
  <2>1. FlattenSeq(seqs) = flatten[n]
    BY <1>3 DEF FlattenSeq
  <2>2. \E f : f = [i \in 1..n |-> IF i = 1 THEN seqs[i] ELSE f[i - 1] \o seqs[i]]
    <3>1. n \in 0..Len(seqs)
      BY <1>1
    <3>2. PICK f : Joined(f, seqs, n)
      BY <3>1, JoinedExists
    <3>. QED BY <3>2 DEF Joined
  <2>3. Joined(flatten, seqs, n)
    BY <2>2 DEF Joined
  <2>. HIDE DEF flatten
  <2>4. n \in 1..Len(seqs)
    BY <1>1, <1>3
  <2>5. flatten[n] \in Seq(S) /\ \A x : x \in ToSet(flatten[n]) <=> \E j \in 1..n : x \in ToSet(seqs[j])
    BY <2>3, <2>4, JoinedFacts
  <2>. QED BY <1>1, <2>1, <2>5
<1>. QED BY <1>2, <1>3
-----------------------------------------------------------------------------
(* Bootstrap: suggestions are recent, and announcements are withdrawn. *)

LEMMA GossipConstants ==
    /\ CandidateTtl \in Nat /\ Later \in Nat /\ MaxResponseCandidates \in Nat /\ MaxCandidates \in Nat
    /\ Self \notin Others /\ Seeds \in Seq(ToSet(Seeds)) /\ Seeds # <<>> /\ ToSet(Seeds) \cap Others = {}
<1>1. CandidateTtl \in Nat
  BY DiscoveryAssumption
<1>2. Later \in Nat
  BY DiscoveryAssumption
<1>3. MaxResponseCandidates \in Nat
  BY DiscoveryAssumption
<1>4. MaxCandidates \in Nat
  BY DynamicProviderAssumption
<1>5. Self \notin Others
  BY DiscoveryAssumption
<1>6. Seeds \in Seq(ToSet(Seeds)) /\ Seeds # <<>> /\ ToSet(Seeds) \cap Others = {}
  BY DiscoveryAssumption
<1>. QED BY <1>1, <1>2, <1>3, <1>4, <1>5, <1>6

\* An endpoint in a seed's cache was announced no longer ago than its lease.
Cached(c, recent, ttl) ==
    /\ \E S : c \in Seq(S)
    /\ \A i \in DOMAIN c :
          /\ c[i] \in [node : Others \cup {Self}, endpoint : {c[i].endpoint}, expires : Int]
          /\ c[i].node \in Others => c[i].endpoint = c[i].node /\ c[i].expires <= recent[c[i].node] + ttl

HasSelf(c) == \E i \in DOMAIN c : c[i].node = Self

\* What others announced and has not expired.
AllFresh(c, time) == \A i \in DOMAIN c : c[i].node \in Others => c[i].expires > time

Recents(recent, time) == recent \in [Others -> Int] /\ \A o \in Others : recent[o] <= time

NotBefore(recent, recent2) == \A o \in Others : recent[o] <= recent2[o]

LEMMA CachedPart ==
    ASSUME NEW c, NEW recent, NEW ttl, Cached(c, recent, ttl), NEW I \in SUBSET (DOMAIN c)
    PROVE  /\ Cached(At(c, I), recent, ttl)
           /\ \A k \in DOMAIN At(c, I) : \E i \in I : At(c, I)[k] = c[i]
           /\ HasSelf(At(c, I)) => HasSelf(c)
<1>1. PICK S : c \in Seq(S)
  BY DEF Cached
<1>. DEFINE part == At(c, I)
            n == Len(part)
<1>2. /\ part \in Seq(S) /\ n \in Nat /\ DOMAIN part = 1..n
      /\ \A k \in 1..n : Nth(I, k) \in I /\ part[k] = c[Nth(I, k)]
  BY <1>1, AtFacts
<1>. HIDE DEF part, n
<1>3. \A k \in DOMAIN part : \E i \in I : part[k] = c[i]
  BY <1>2
<1>4. Cached(part, recent, ttl)
  BY <1>2, <1>3 DEF Cached
<1>5. HasSelf(part) => HasSelf(c)
  BY <1>3 DEF HasSelf
<1>. QED BY <1>3, <1>4, <1>5 DEF part

LEMMA CachedLater ==
    ASSUME NEW c, NEW recent \in [Others -> Int], NEW recent2 \in [Others -> Int], NEW ttl \in Int, Cached(c, recent, ttl),
           NotBefore(recent, recent2)
    PROVE  Cached(c, recent2, ttl)
BY DEF Cached, NotBefore

\* The entry of a request: of this node, or of another one at this time.
Entry(e, requester, recent, time, ttl) ==
    /\ e \in [node : Others \cup {Self}, endpoint : {e.endpoint}, expires : Int]
    /\ e.node = requester /\ e.expires = time + ttl
    /\ requester \in Others => e.endpoint = requester /\ recent[requester] = time

LEMMA CachedReplaced ==
    ASSUME NEW c, NEW recent \in [Others -> Int], NEW time \in Int, NEW ttl \in Int, Cached(c, recent, ttl),
           NEW e, NEW requester, Entry(e, requester, recent, time, ttl), NEW new,
           \/ new = [i \in DOMAIN c |-> IF c[i].node = requester THEN e ELSE c[i]]
           \/ new = Append(c, e)
    PROVE  /\ Cached(new, recent, ttl)
           /\ HasSelf(new) => HasSelf(c) \/ requester = Self
           /\ AllFresh(c, time) /\ requester \notin Others => AllFresh(new, time)
<1>1. PICK S : c \in Seq(S)
  BY DEF Cached
<1>2. /\ new \in Seq(S \cup {e})
      /\ \A i \in DOMAIN new : new[i] = e \/ (i \in DOMAIN c /\ new[i] = c[i])
  <2>1. CASE new = [i \in DOMAIN c |-> IF c[i].node = requester THEN e ELSE c[i]]
    BY <1>1, <2>1
  <2>2. CASE new = Append(c, e)
    BY <1>1, <2>2
  <2>. QED BY <2>1, <2>2
<1>3. Cached(new, recent, ttl)
  BY <1>2 DEF Cached, Entry
<1>4. HasSelf(new) => HasSelf(c) \/ requester = Self
  BY <1>2 DEF HasSelf, Entry
<1>5. AllFresh(c, time) /\ requester \notin Others => AllFresh(new, time)
  BY <1>2 DEF AllFresh, Entry
<1>. QED BY <1>3, <1>4, <1>5

LEMMA GossipAt == ASSUME NEW seq, NEW J PROVE Gossip!At(seq, J) = At(seq, J)
BY DEF Gossip!At, Gossip!Nth, Gossip!Cardinality, At, Nth, Cardinality

LEMMA GossipDistinct == ASSUME NEW seq PROVE Gossip!Distinct(seq) = Distinct(seq)
BY GossipAt DEF Gossip!Distinct, Distinct

LEMMA GossipFlatten == ASSUME NEW seqs PROVE Gossip!FlattenSeq(seqs) = FlattenSeq(seqs)
BY DEF Gossip!FlattenSeq, FlattenSeq

\* What a request leaves at a seed.
LEMMA GossipExchanges ==
    ASSUME NEW c, NEW recent \in [Others -> Int], NEW recent2 \in [Others -> Int], NEW time \in Int,
           Cached(c, recent, CandidateTtl), NotBefore(recent, recent2), NEW requester \in Others \cup {Self}, NEW endpoint,
           requester \in Others /\ endpoint # NoEndpoint => endpoint = requester /\ recent2[requester] = time
    PROVE  LET new == Gossip!exchange(c, requester, endpoint, time)
           IN  /\ Cached(new, recent2, CandidateTtl)
               /\ HasSelf(new) => HasSelf(c) \/ (requester = Self /\ endpoint # NoEndpoint)
               /\ requester = Self /\ endpoint = NoEndpoint => ~HasSelf(new)
               /\ requester = Self => AllFresh(new, time)
<1>0. CandidateTtl \in Int /\ Self \notin Others
  BY GossipConstants
<1>. DEFINE J == {i \in DOMAIN c : c[i].expires > time}
            live == At(c, J)
            entry == [node |-> requester, endpoint |-> endpoint, expires |-> time + CandidateTtl]
            new == Gossip!exchange(c, requester, endpoint, time)
            K == {i \in DOMAIN live : live[i].node # requester}
<1>1. J \in SUBSET (DOMAIN c) /\ \A i \in J : c[i].expires > time
  OBVIOUS
<1>2. Gossip!prune_expired(c, time) = live
  BY GossipAt DEF Gossip!prune_expired
<1>. HIDE DEF J
<1>3. Cached(c, recent2, CandidateTtl)
  BY <1>0, CachedLater
<1>4. /\ Cached(live, recent2, CandidateTtl) /\ (HasSelf(live) => HasSelf(c))
      /\ \A k \in DOMAIN live : \E i \in J : live[k] = c[i]
  BY <1>1, <1>3, CachedPart
<1>5. AllFresh(live, time)
  BY <1>1, <1>4 DEF AllFresh
<1>6. new = IF endpoint = NoEndpoint THEN Gossip!Without(live, requester)
            ELSE IF \E i \in DOMAIN live : live[i].node = requester
                 THEN [i \in DOMAIN live |-> IF live[i].node = requester THEN entry ELSE live[i]]
            ELSE IF Len(live) < MaxCachedCandidates THEN Append(live, entry)
            ELSE live
  BY <1>2 DEF Gossip!exchange
<1>. HIDE DEF live, new
<1>7. CASE endpoint = NoEndpoint
  <2>1. new = At(live, K) /\ K \in SUBSET (DOMAIN live)
    BY <1>6, <1>7, GossipAt DEF Gossip!Without
  <2>2. \A i \in K : live[i].node # requester
    OBVIOUS
  <2>. HIDE DEF K
  <2>3. /\ Cached(new, recent2, CandidateTtl) /\ (HasSelf(new) => HasSelf(live))
        /\ \A k \in DOMAIN new : \E i \in K : new[k] = live[i]
    BY <1>4, <2>1, CachedPart
  <2>4. requester = Self => ~HasSelf(new)
    BY <2>2, <2>3 DEF HasSelf
  <2>5. AllFresh(new, time)
    BY <1>5, <2>1, <2>3 DEF AllFresh
  <2>. QED BY <1>4, <1>7, <2>3, <2>4, <2>5 DEF new
<1>8. CASE endpoint # NoEndpoint
  <2>1. Entry(entry, requester, recent2, time, CandidateTtl)
    BY <1>0, <1>8 DEF Entry
  <2>. HIDE DEF entry
  <2>2. CASE new = live
    BY <1>4, <1>5, <1>8, <2>2 DEF new
  <2>3. CASE \/ new = [i \in DOMAIN live |-> IF live[i].node = requester THEN entry ELSE live[i]]
             \/ new = Append(live, entry)
    <3>1. /\ Cached(new, recent2, CandidateTtl)
          /\ HasSelf(new) => HasSelf(live) \/ requester = Self
          /\ AllFresh(live, time) /\ requester \notin Others => AllFresh(new, time)
      BY <1>0, <1>4, <2>1, <2>3, CachedReplaced
    <3>. QED BY <1>0, <1>4, <1>5, <1>8, <3>1 DEF new
  <2>. QED BY <1>6, <1>8, <2>2, <2>3
<1>. QED BY <1>7, <1>8

\* What an answer suggests.
LEMMA GossipLearns ==
    ASSUME NEW c, NEW recent \in [Others -> Int], NEW time \in Int, Cached(c, recent, CandidateTtl), AllFresh(c, time),
           NEW s, s \notin Others
    PROVE  LET learned == Gossip!Distinct(<<s>> \o Gossip!reply(c, Self, <<s>>, MaxCandidates))
           IN  /\ \E S : learned \in Seq(S)
               /\ \A k \in DOMAIN learned : learned[k] \in Others => time < recent[learned[k]] + CandidateTtl
<1>0. CandidateTtl \in Int /\ Self \notin Others /\ MaxCandidates \in Nat /\ MaxResponseCandidates \in Nat
  BY GossipConstants
<1>. DEFINE K == {i \in DOMAIN c : c[i].node # Self}
            others == At(c, K)
            from == [i \in DOMAIN others |-> others[i].endpoint]
            once == Distinct(<<s>> \o from)
            limit == IF MaxCandidates < MaxResponseCandidates THEN MaxCandidates ELSE MaxResponseCandidates
            m == IF Len(once) < limit THEN Len(once) ELSE limit
            answer == SubSeq(once, 1, m)
            learned == Distinct(<<s>> \o answer)
            X == {s} \cup {c[i].endpoint : i \in K}
<1>1. Gossip!Distinct(<<s>> \o Gossip!reply(c, Self, <<s>>, MaxCandidates)) = learned
  BY GossipAt, GossipDistinct DEF Gossip!reply, Gossip!Without
<1>2. K \in SUBSET (DOMAIN c) /\ \A i \in K : c[i].node # Self
  OBVIOUS
<1>3. \A x \in X : x \in Others => time < recent[x] + CandidateTtl
  <2>. SUFFICES ASSUME NEW i \in K, c[i].endpoint \in Others PROVE time < recent[c[i].endpoint] + CandidateTtl
    OBVIOUS
  <2>1. c[i].node \in Others /\ c[i].endpoint = c[i].node /\ c[i].expires <= recent[c[i].node] + CandidateTtl /\ c[i].expires \in Int
    BY <1>2 DEF Cached
  <2>2. c[i].expires > time
    BY <1>2, <2>1 DEF AllFresh
  <2>. QED BY <1>0, <2>1, <2>2
<1>4. PICK C : c \in Seq(C)
  BY DEF Cached
<1>. HIDE DEF K
<1>5. others \in Seq(C) /\ Len(others) \in Nat /\ \A k \in 1..Len(others) : \E i \in K : others[k] = c[i]
  <2>1. /\ others \in Seq(C)
        /\ \A k \in 1..Len(others) : Nth(K, k) \in K /\ others[k] = c[Nth(K, k)]
    BY <1>2, <1>4, AtFacts
  <2>. HIDE DEF others
  <2>. QED BY <2>1
<1>6. from \in Seq(X)
  <2>. HIDE DEF others
  <2>1. \A k \in 1..Len(others) : others[k].endpoint \in X
    BY <1>5
  <2>. QED BY <1>5, <2>1
<1>7. <<s>> \o from \in Seq(X)
  <2>1. <<s>> \in Seq(X)
    OBVIOUS
  <2>. HIDE DEF from, X
  <2>. QED BY <1>6, <2>1
<1>8. once \in Seq(X) /\ Len(once) \in Nat
  <2>. HIDE DEF from, X
  <2>1. once \in Seq(X)
    BY <1>7, DistinctFacts
  <2>. HIDE DEF once
  <2>. QED BY <2>1
<1>9. answer \in Seq(X)
  <2>. HIDE DEF once
  <2>1. limit \in Nat /\ m \in Nat /\ m <= Len(once)
    BY <1>0, <1>8
  <2>. HIDE DEF limit, m, X
  <2>. QED BY <1>8, <2>1
<1>10. <<s>> \o answer \in Seq(X)
  <2>1. <<s>> \in Seq(X)
    OBVIOUS
  <2>. HIDE DEF answer, X
  <2>. QED BY <1>9, <2>1
<1>11. learned \in Seq(X)
  <2>. HIDE DEF answer
  <2>. QED BY <1>10, DistinctFacts
<1>. HIDE DEF learned, X
<1>12. \A k \in DOMAIN learned : learned[k] \in X
  BY <1>11
<1>. QED BY <1>1, <1>3, <1>11, <1>12

SeedsOf(q) == {q[i] : i \in DOMAIN q}

IsBootstrapWorker(w) ==
    w \in [position : Nat, announcement : {w.announcement}, views : {w.views}, schedules : {w.schedules},
           announced : {w.announced}]

IsBootstrapWorld(n) ==
    n \in [own : {n.own}, changed : {n.changed}, cache : {n.cache}, flight : {n.flight}, recent : {n.recent},
           missed : {n.missed}, events : {n.events}]

\* A view names what was announced within both leases.
Suggests(v, recent, both) ==
    /\ v \in [endpoints : {v.endpoints}, expires : Int, at : {v.at}]
    /\ \E S : v.endpoints \in Seq(S)
    /\ \A j \in DOMAIN v.endpoints :
          v.endpoints[j] \in Others => v.expires < recent[v.endpoints[j]] + both

\* While the worker lives it drops views on time.
Timely(v, time, gs) ==
    v.endpoints # <<>> => 0 < v.expires /\ (Lives(gs) => time <= v.expires)

AllSuggest(vs, seeds, recent, both) == vs = [s \in seeds |-> vs[s]] /\ \A s \in seeds : Suggests(vs[s], recent, both)

AllTimely(vs, seeds, time, gs) == \A s \in seeds : Timely(vs[s], time, gs)

Covered(peers, vs, seeds) ==
    /\ \E S : peers \in Seq(S)
    /\ \A k \in DOMAIN peers : \E s \in seeds : \E j \in DOMAIN vs[s].endpoints : vs[s].endpoints[j] = peers[k].peer

\* A seed that a living worker has announced itself to is remembered.
Requests(flight, announced, seeds, gs) ==
    \A r \in flight :
        /\ r \in [seed : seeds, endpoint : {r.endpoint}, live : {r.live}]
        /\ Lives(gs) /\ r.endpoint # NoEndpoint => r.seed \in announced

AllCached(cache, seeds, recent, ttl) ==
    cache = [s \in seeds |-> cache[s]] /\ \A s \in seeds : Cached(cache[s], recent, ttl)

Remembered(cache, seeds, announced, missed) == \A s \in seeds : HasSelf(cache[s]) => s \in announced \cup missed

BootstrapParts(announced, vs, cache, flight, recent, missed, time, gs, peers, seeds, ttl, least) ==
    /\ time \in Nat
    /\ Recents(recent, time)
    /\ AllCached(cache, seeds, recent, ttl)
    /\ AllSuggest(vs, seeds, recent, ttl + least)
    /\ AllTimely(vs, seeds, time, gs)
    /\ Lives(gs) => Covered(peers, vs, seeds)
    /\ Requests(flight, announced, seeds, gs)
    /\ Remembered(cache, seeds, announced, missed)
    /\ gs = <<>> => flight = {}
    /\ gs = <<>> \/ gs[Len(gs)].phase = "done" => announced = {}

LEMMA RangeSeq ==
    ASSUME NEW e, \E S : e \in Seq(S), NEW X, \A j \in DOMAIN e : e[j] \in X
    PROVE  e \in Seq(X)
<1>1. PICK S : e \in Seq(S)
  OBVIOUS
<1>. QED BY <1>1

LEMMA SuggestsLater ==
    ASSUME NEW vs, NEW seeds, NEW recent \in [Others -> Int], NEW recent2 \in [Others -> Int], NEW both \in Int,
           AllSuggest(vs, seeds, recent, both), NotBefore(recent, recent2)
    PROVE  AllSuggest(vs, seeds, recent2, both)
BY DEF AllSuggest, Suggests, NotBefore

LEMMA AllCachedLater ==
    ASSUME NEW cache, NEW seeds, NEW recent \in [Others -> Int], NEW recent2 \in [Others -> Int], NEW ttl \in Int,
           AllCached(cache, seeds, recent, ttl), NotBefore(recent, recent2)
    PROVE  AllCached(cache, seeds, recent2, ttl)
BY CachedLater DEF AllCached

LEMMA OneCached ==
    ASSUME NEW cache, NEW seeds, NEW recent, NEW ttl, AllCached(cache, seeds, recent, ttl),
           NEW s \in seeds, NEW c, Cached(c, recent, ttl)
    PROVE  AllCached([cache EXCEPT ![s] = c], seeds, recent, ttl)
BY DEF AllCached

LEMMA OneRemembered ==
    ASSUME NEW cache, NEW seeds, NEW announced, NEW missed, Remembered(cache, seeds, announced, missed),
           cache = [s \in seeds |-> cache[s]],
           NEW s \in seeds, NEW c, NEW missed2, missed \subseteq missed2,
           HasSelf(c) => HasSelf(cache[s]) \/ s \in announced \cup missed2
    PROVE  Remembered([cache EXCEPT ![s] = c], seeds, announced, missed2)
BY DEF Remembered

LEMMA FewerRequests ==
    ASSUME NEW flight, NEW announced, NEW seeds, NEW gs, Requests(flight, announced, seeds, gs),
           NEW fewer, fewer \subseteq flight
    PROVE  Requests(fewer, announced, seeds, gs)
BY DEF Requests

GossipLeast == IF CandidateTtl < Later THEN CandidateTtl ELSE Later

GossipInv ==
    /\ IsBootstrapWorker(worker) /\ IsBootstrapWorld(world)
    /\ BootstrapParts(worker.announced, worker.views, world.cache, world.flight, world.recent, world.missed,
                      now, gens, state.peers, SeedsOf(SubSeq(Seeds, 1, 1)), CandidateTtl, GossipLeast)

LEMMA GossipFacts ==
    /\ Gossip!SeedSet = SeedsOf(SubSeq(Seeds, 1, 1))
    /\ Gossip!Lesser(CandidateTtl, Later) = GossipLeast /\ GossipLeast \in Int /\ CandidateTtl \in Int
    /\ SubSeq(Seeds, 1, 1) \in Seq(ToSet(Seeds)) /\ \A s \in SeedsOf(SubSeq(Seeds, 1, 1)) : s \notin Others
<1>1. Gossip!SeedSet = SeedsOf(SubSeq(Seeds, 1, 1))
  BY DEF Gossip!SeedSet, Gossip!ToSet, SeedsOf
<1>2. Gossip!Lesser(CandidateTtl, Later) = GossipLeast /\ GossipLeast \in Int /\ CandidateTtl \in Int
  BY GossipConstants DEF Gossip!Lesser, GossipLeast
<1>3. SubSeq(Seeds, 1, 1) \in Seq(ToSet(Seeds))
  BY GossipConstants
<1>4. \A s \in SeedsOf(SubSeq(Seeds, 1, 1)) : s \in ToSet(Seeds)
  BY <1>3 DEF SeedsOf
<1>. QED BY <1>1, <1>2, <1>3, <1>4, GossipConstants

LEMMA GossipIntro ==
    ASSUME IsBootstrapWorker(worker'), IsBootstrapWorld(world'),
           BootstrapParts(worker'.announced, worker'.views, world'.cache, world'.flight, world'.recent, world'.missed,
                          now', gens', state'.peers, SeedsOf(SubSeq(Seeds, 1, 1)), CandidateTtl, GossipLeast)
    PROVE  GossipInv'
BY DEF GossipInv, IsBootstrapWorker, IsBootstrapWorld, BootstrapParts, Recents, AllCached, Cached, AllSuggest, Suggests,
       AllTimely, Timely, Covered, Requests, Remembered, HasSelf, Lives, SeedsOf, GossipLeast

\* What is published is covered by the views.
LEMMA GossipCovers ==
    ASSUME IsView(state), NEW vs, NEW recent, NEW both, AllSuggest(vs, SeedsOf(SubSeq(Seeds, 1, 1)), recent, both), Gossip!publish_views(vs)
    PROVE  Covered(state'.peers, vs, SeedsOf(SubSeq(Seeds, 1, 1)))
<1>. DEFINE seeds == SeedsOf(SubSeq(Seeds, 1, 1))
            qs == [i \in DOMAIN SubSeq(Seeds, 1, 1) |-> vs[SubSeq(Seeds, 1, 1)[i]].endpoints]
            all == Distinct(FlattenSeq(qs))
            m == IF Len(all) < MaxCandidates THEN Len(all) ELSE MaxCandidates
            peers == SubSeq(all, 1, m)
            seen(p) == {vs[s].at : s \in {t \in Gossip!SeedSet : Gossip!Contains(vs[t].endpoints, p)}}
            p == [k \in DOMAIN peers |->
                    [peer |-> peers[k], at |-> CHOOSE t \in seen(peers[k]) : \A u \in seen(peers[k]) : u <= t]]
            X == {x \in UNION {ToSet(vs[s].endpoints) : s \in seeds} : TRUE}
<1>1. \A s \in seeds : \E S : vs[s].endpoints \in Seq(S)
  BY DEF AllSuggest, Suggests
<1>2. \A s \in seeds : \A j \in DOMAIN vs[s].endpoints : vs[s].endpoints[j] \in X
  BY DEF ToSet
<1>3. \A x \in X : \E s \in seeds : \E j \in DOMAIN vs[s].endpoints : vs[s].endpoints[j] = x
  BY DEF ToSet
<1>. HIDE DEF X
<1>4. qs \in Seq(Seq(X))
  <2>1. \A s \in seeds : vs[s].endpoints \in Seq(X)
    BY <1>1, <1>2, RangeSeq
  <2>2. \A i \in DOMAIN SubSeq(Seeds, 1, 1) : SubSeq(Seeds, 1, 1)[i] \in seeds
    BY DEF SeedsOf
  <2>3. Len(SubSeq(Seeds, 1, 1)) \in Nat /\ DOMAIN SubSeq(Seeds, 1, 1) = 1..Len(SubSeq(Seeds, 1, 1))
    BY GossipFacts
  <2>. HIDE DEF seeds
  <2>. QED BY <2>1, <2>2, <2>3
<1>5. FlattenSeq(qs) \in Seq(X)
  <2>. HIDE DEF qs
  <2>. QED BY <1>4, FlattenFacts
<1>6. all \in Seq(X) /\ Len(all) \in Nat
  <2>. DEFINE flat == FlattenSeq(qs)
  <2>. HIDE DEF flat
  <2>1. Distinct(flat) \in Seq(X)
    BY <1>5, DistinctFacts DEF flat
  <2>2. all \in Seq(X)
    BY <2>1 DEF flat
  <2>. HIDE DEF all
  <2>. QED BY <2>2
<1>7. Gossip!flatten_views(vs) = peers
  BY GossipDistinct, GossipFlatten DEF Gossip!flatten_views, Gossip!Lesser
<1>8. Gossip!observe_at(p)
  BY <1>7 DEF Gossip!publish_views
<1>. HIDE DEF all
<1>9. peers \in Seq(X)
  <2>1. m \in Nat /\ m <= Len(all)
    BY <1>6, GossipConstants
  <2>. HIDE DEF m
  <2>. QED BY <1>6, <2>1
<1>. HIDE DEF peers, seen
<1>10. /\ DOMAIN p = 1..Len(peers) /\ Len(peers) \in Nat /\ p \in Seq({p[k] : k \in DOMAIN p})
       /\ \A k \in DOMAIN p : p[k].peer \in X
  BY <1>9
<1>. HIDE DEF p
<1>11. state'.peers = p
  BY <1>8, PublishedView DEF Gossip!observe_at, Gossip!publish, Gossip!Published, Gossip!NextRevision, Published, NextRevision, IsView
<1>. QED BY <1>3, <1>10, <1>11 DEF Covered

\* Views whose lease is over go.
LEMMA GossipDrops ==
    ASSUME NEW vs, NEW recent, NEW both \in Int, AllSuggest(vs, SeedsOf(SubSeq(Seeds, 1, 1)), recent, both), now \in Nat
    PROVE  LET kept == Gossip!Unexpired(vs)
           IN  AllSuggest(kept, SeedsOf(SubSeq(Seeds, 1, 1)), recent, both) /\ \A gs : AllTimely(kept, SeedsOf(SubSeq(Seeds, 1, 1)), now, gs)
<1>. DEFINE kept == Gossip!Unexpired(vs)
<1>1. /\ kept = [s \in SeedsOf(SubSeq(Seeds, 1, 1)) |-> IF vs[s].expires > now THEN vs[s] ELSE Gossip!NoView]
      /\ Gossip!NoView = [endpoints |-> <<>>, expires |-> 0, at |-> 0]
  BY GossipFacts DEF Gossip!Unexpired, Gossip!NoView
<1>2. Suggests(Gossip!NoView, recent, both) /\ Gossip!NoView.endpoints = <<>>
  <2>1. <<>> \in Seq({})
    OBVIOUS
  <2>. QED BY <1>1, <2>1 DEF Suggests
<1>. HIDE DEF kept
<1>3. AllSuggest(kept, SeedsOf(SubSeq(Seeds, 1, 1)), recent, both)
  BY <1>1, <1>2 DEF AllSuggest
<1>4. \A s \in SeedsOf(SubSeq(Seeds, 1, 1)) : kept[s].endpoints # <<>> => kept[s].expires > now /\ kept[s].expires \in Int
  BY <1>1, <1>2 DEF AllSuggest, Suggests
<1>5. \A gs : AllTimely(kept, SeedsOf(SubSeq(Seeds, 1, 1)), now, gs)
  BY <1>4 DEF AllTimely, Timely
<1>. QED BY <1>3, <1>5 DEF kept

\* The pass goes on: a request takes its seed into announced.
LEMMA GossipGoesOn ==
    ASSUME NEW w, IsBootstrapWorker(w), NEW position \in Nat, NEW requests, IsBootstrapWorld(requests),
           Requests(requests.flight, w.announced, SeedsOf(SubSeq(Seeds, 1, 1)), gens), Gossip!GoOn(w, position, requests)
    PROVE  /\ IsBootstrapWorker(worker') /\ IsBootstrapWorld(world')
           /\ worker'.views = w.views /\ w.announced \subseteq worker'.announced
           /\ Requests(world'.flight, worker'.announced, SeedsOf(SubSeq(Seeds, 1, 1)), gens)
           /\ world'.cache = requests.cache /\ world'.recent = requests.recent /\ world'.missed = requests.missed
<1>. DEFINE due == {i \in (position + 1)..Len(SubSeq(Seeds, 1, 1)) : Gossip!Due(w.schedules[SubSeq(Seeds, 1, 1)[i]])}
            least == CHOOSE i \in due : \A j \in due : i <= j
            request == [seed |-> SubSeq(Seeds, 1, 1)[least], endpoint |-> w.announcement, live |-> TRUE]
            more == IF w.announcement = NoEndpoint THEN w.announced ELSE w.announced \cup {SubSeq(Seeds, 1, 1)[least]}
<1>1. \/ worker' = [w EXCEPT !.position = 0] /\ world' = requests
      \/ /\ due # {}
         /\ worker' = [w EXCEPT !.position = least, !.announced = more]
         /\ world' = [requests EXCEPT !.flight = @ \cup {request}]
  BY DEF Gossip!GoOn, Gossip!Announcing
<1>2. CASE worker' = [w EXCEPT !.position = 0] /\ world' = requests
  BY <1>2 DEF IsBootstrapWorker
<1>3. CASE /\ due # {}
           /\ worker' = [w EXCEPT !.position = least, !.announced = more]
           /\ world' = [requests EXCEPT !.flight = @ \cup {request}]
  <2>1. Len(SubSeq(Seeds, 1, 1)) \in Nat /\ DOMAIN SubSeq(Seeds, 1, 1) = 1..Len(SubSeq(Seeds, 1, 1))
    BY GossipFacts
  <2>2. due \subseteq Nat /\ \A i \in due : i \in DOMAIN SubSeq(Seeds, 1, 1)
    BY <2>1
  <2>. HIDE DEF due
  <2>3. least \in due
    BY <1>3, <2>2, NatMin
  <2>. HIDE DEF least
  <2>4. least \in Nat /\ SubSeq(Seeds, 1, 1)[least] \in SeedsOf(SubSeq(Seeds, 1, 1))
    BY <2>2, <2>3 DEF SeedsOf
  <2>5. w.announced \subseteq more /\ (w.announcement # NoEndpoint => SubSeq(Seeds, 1, 1)[least] \in more)
    OBVIOUS
  <2>. HIDE DEF more
  <2>6. /\ IsBootstrapWorker(worker') /\ worker'.views = w.views /\ worker'.announced = more
    BY <1>3, <2>4 DEF IsBootstrapWorker
  <2>7. /\ IsBootstrapWorld(world') /\ world'.flight = requests.flight \cup {request}
        /\ world'.cache = requests.cache /\ world'.recent = requests.recent /\ world'.missed = requests.missed
    BY <1>3 DEF IsBootstrapWorld
  <2>8. Requests(requests.flight \cup {request}, more, SeedsOf(SubSeq(Seeds, 1, 1)), gens)
    <3>1. /\ request \in [seed : SeedsOf(SubSeq(Seeds, 1, 1)), endpoint : {request.endpoint}, live : {request.live}]
          /\ request.endpoint # NoEndpoint => request.seed \in more
      BY <2>4, <2>5
    <3>. HIDE DEF request
    <3>. QED BY <2>5, <3>1 DEF Requests
  <2>. QED BY <2>5, <2>6, <2>7, <2>8
<1>. QED BY <1>1, <1>2, <1>3

LEMMA GossipElim ==
    ASSUME GossipInv
    PROVE  /\ IsBootstrapWorker(worker) /\ IsBootstrapWorld(world)
           /\ now \in Nat /\ Recents(world.recent, now) /\ world.recent \in [Others -> Int]
           /\ AllCached(world.cache, SeedsOf(SubSeq(Seeds, 1, 1)), world.recent, CandidateTtl)
           /\ AllSuggest(worker.views, SeedsOf(SubSeq(Seeds, 1, 1)), world.recent, CandidateTtl + GossipLeast)
           /\ AllTimely(worker.views, SeedsOf(SubSeq(Seeds, 1, 1)), now, gens)
           /\ Lives(gens) => Covered(state.peers, worker.views, SeedsOf(SubSeq(Seeds, 1, 1)))
           /\ Requests(world.flight, worker.announced, SeedsOf(SubSeq(Seeds, 1, 1)), gens)
           /\ Remembered(world.cache, SeedsOf(SubSeq(Seeds, 1, 1)), worker.announced, world.missed)
           /\ gens = <<>> => world.flight = {}
           /\ gens = <<>> \/ gens[Len(gens)].phase = "done" => worker.announced = {}
BY DEF GossipInv, BootstrapParts, Recents

LEMMA GossipBegins ==
    ASSUME Init, kind = "bootstrap"
    PROVE  GossipInv
<1>. DEFINE seeds == SeedsOf(SubSeq(Seeds, 1, 1))
            none == [s \in seeds |-> <<>>]
            empty == [s \in seeds |-> Gossip!NoView]
            never == [o \in Others |-> -1]
<1>1. /\ gens = <<>> /\ now = 0
      /\ worker = Gossip!StartedAt(0)
      /\ world = [own |-> NoEndpoint, changed |-> FALSE, cache |-> none, flight |-> {},
                  recent |-> never, missed |-> {}, events |-> 0]
  BY GossipFacts DEF Init, Gossip!Init, Gossip!ProviderInit, Gossip!NoWorker
<1>2. /\ IsBootstrapWorker(worker) /\ IsBootstrapWorld(world)
      /\ worker.views = empty /\ worker.announced = {} /\ world.cache = none /\ world.flight = {} /\ world.recent = never
  BY <1>1, GossipFacts DEF Gossip!StartedAt, IsBootstrapWorker, IsBootstrapWorld
<1>3. AllCached(none, seeds, never, CandidateTtl) /\ Remembered(none, seeds, {}, world.missed)
  <2>1. Cached(<<>>, never, CandidateTtl) /\ ~HasSelf(<<>>)
    <3>1. <<>> \in Seq({})
      OBVIOUS
    <3>. QED BY <3>1 DEF Cached, HasSelf
  <2>. HIDE DEF seeds, never
  <2>. QED BY <2>1 DEF AllCached, Remembered
<1>4. AllSuggest(empty, seeds, never, CandidateTtl + GossipLeast) /\ AllTimely(empty, seeds, 0, gens)
  <2>1. Suggests(Gossip!NoView, never, CandidateTtl + GossipLeast) /\ Timely(Gossip!NoView, 0, gens)
    <3>1. <<>> \in Seq({})
      OBVIOUS
    <3>. QED BY <3>1 DEF Suggests, Timely, Gossip!NoView
  <2>. HIDE DEF seeds, never
  <2>. QED BY <2>1 DEF AllSuggest, AllTimely
<1>5. Recents(never, 0)
  BY DEF Recents
<1>. HIDE DEF never, none, empty, seeds
<1>6. BootstrapParts(worker.announced, worker.views, world.cache, world.flight, world.recent, world.missed,
                     now, gens, state.peers, seeds, CandidateTtl, GossipLeast)
  BY <1>1, <1>2, <1>3, <1>4, <1>5 DEF BootstrapParts, Lives, Requests
<1>. QED BY <1>2, <1>6 DEF GossipInv, seeds

\* The steps that leave the worker and the seeds alone.
LEMMA GossipRests ==
    ASSUME GossipInv, worker' = worker, world' = world,
           \/ now' = now /\ gens' = gens /\ state' = state
           \/ now' = now /\ gens # <<>> /\ gens' # <<>> /\ gens'[Len(gens')].phase = "cleaning"
           \/ now' = now + 1 /\ gens' = gens /\ state' = state /\
              (Lives(gens) => \A s \in SeedsOf(SubSeq(Seeds, 1, 1)) : worker.views[s].expires = 0 \/ worker.views[s].expires > now)
    PROVE  GossipInv'
<1>1. CASE now' = now /\ gens' = gens /\ state' = state
  BY <1>1, GossipElim, GossipIntro DEF BootstrapParts
<1>2. CASE now' = now /\ gens # <<>> /\ gens' # <<>> /\ gens'[Len(gens')].phase = "cleaning"
  <2>1. ~Lives(gens')
    BY <1>2 DEF Lives
  <2>2. AllTimely(worker.views, SeedsOf(SubSeq(Seeds, 1, 1)), now, gens') /\ Requests(world.flight, worker.announced, SeedsOf(SubSeq(Seeds, 1, 1)), gens')
    BY <2>1, GossipElim DEF AllTimely, Timely, Requests
  <2>. QED BY <1>2, <2>1, <2>2, GossipElim, GossipIntro DEF BootstrapParts
<1>3. CASE now' = now + 1 /\ gens' = gens /\ state' = state /\
           (Lives(gens) => \A s \in SeedsOf(SubSeq(Seeds, 1, 1)) : worker.views[s].expires = 0 \/ worker.views[s].expires > now)
  <2>1. Recents(world.recent, now')
    BY <1>3, GossipElim DEF Recents
  <2>2. AllTimely(worker.views, SeedsOf(SubSeq(Seeds, 1, 1)), now', gens)
    <3>1. \A s \in SeedsOf(SubSeq(Seeds, 1, 1)) : worker.views[s].expires \in Int
      BY GossipElim DEF AllSuggest, Suggests
    <3>. QED BY <1>3, <3>1, GossipElim DEF AllTimely, Timely
  <2>. QED BY <1>3, <2>1, <2>2, GossipElim, GossipIntro DEF BootstrapParts
<1>. QED BY <1>1, <1>2, <1>3

\* A generation begins, the only one.
LEMMA GossipSpawns ==
    ASSUME GossipInv, ProviderInv, Gossip!Discover(Gossip!StartedAt(now)), UNCHANGED world
    PROVE  GossipInv'
<1>. DEFINE seeds == SeedsOf(SubSeq(Seeds, 1, 1))
            empty == [s \in seeds |-> Gossip!NoView]
<1>1. /\ Len(gens) < 1 /\ gens' = Append(gens, [phase |-> "running", result |-> "ok", restart |-> "ok", clean |-> FALSE])
      /\ state' = [state EXCEPT !.available = TRUE] /\ worker' = Gossip!StartedAt(now) /\ now' = now
  BY DEF Gossip!Discover, Gossip!spawn
<1>2. gens = <<>> /\ gens' # <<>> /\ gens'[Len(gens')].phase = "running"
  BY <1>1, InvElim
<1>3. state'.peers = <<>>
  BY <1>1, <1>2, InvElim DEF GensKept, IsView
<1>4. /\ IsBootstrapWorker(worker') /\ worker'.views = empty /\ worker'.announced = {}
  BY <1>1, GossipFacts DEF Gossip!StartedAt, IsBootstrapWorker
<1>5. /\ AllSuggest(empty, seeds, world.recent, CandidateTtl + GossipLeast) /\ AllTimely(empty, seeds, now, gens')
      /\ Covered(<<>>, empty, seeds)
  <2>1. <<>> \in Seq({})
    OBVIOUS
  <2>2. Suggests(Gossip!NoView, world.recent, CandidateTtl + GossipLeast) /\ Timely(Gossip!NoView, now, gens')
    BY <2>1 DEF Suggests, Timely, Gossip!NoView
  <2>. HIDE DEF seeds
  <2>. QED BY <2>1, <2>2 DEF AllSuggest, AllTimely, Covered
<1>6. world.flight = {} /\ Remembered(world.cache, seeds, {}, world.missed)
  BY <1>2, GossipElim DEF Remembered
<1>. HIDE DEF empty
<1>7. BootstrapParts(worker'.announced, worker'.views, world'.cache, world'.flight, world'.recent, world'.missed,
                     now', gens', state'.peers, seeds, CandidateTtl, GossipLeast)
  BY <1>1, <1>2, <1>3, <1>4, <1>5, <1>6, GossipElim DEF BootstrapParts, Requests
<1>. QED BY <1>4, <1>7, GossipElim, GossipIntro

LEMMA GossipPasses ==
    ASSUME GossipInv, ProviderInv, Gossip!Pass
    PROVE  GossipInv'
<1>0. PICK schedules :
         Gossip!GoOn([worker EXCEPT !.announcement = world.own, !.schedules = schedules], 0, [world EXCEPT !.changed = FALSE])
  BY DEF Gossip!Pass
<1>. DEFINE w == [worker EXCEPT !.announcement = world.own, !.schedules = schedules]
            requests == [world EXCEPT !.changed = FALSE]
<1>1. /\ Lives(gens) /\ gens' = gens /\ state' = state /\ now' = now
      /\ Gossip!GoOn(w, 0, requests)
  BY <1>0 DEF Gossip!Pass, Gossip!Alive, Gossip!current, Gossip!providerVars, Lives
<1>2. IsBootstrapWorker(w) /\ w.views = worker.views /\ w.announced = worker.announced
  BY GossipElim DEF IsBootstrapWorker
<1>3. /\ IsBootstrapWorld(requests) /\ requests.flight = world.flight /\ requests.cache = world.cache
      /\ requests.recent = world.recent /\ requests.missed = world.missed
  BY GossipElim DEF IsBootstrapWorld
<1>. HIDE DEF w, requests
<1>4. /\ IsBootstrapWorker(worker') /\ IsBootstrapWorld(world')
      /\ worker'.views = w.views /\ w.announced \subseteq worker'.announced
      /\ Requests(world'.flight, worker'.announced, SeedsOf(SubSeq(Seeds, 1, 1)), gens)
      /\ world'.cache = requests.cache /\ world'.recent = requests.recent /\ world'.missed = requests.missed
  <2>1. Requests(requests.flight, w.announced, SeedsOf(SubSeq(Seeds, 1, 1)), gens) /\ 0 \in Nat
    BY <1>2, <1>3, GossipElim
  <2>. QED BY <1>1, <1>2, <1>3, <2>1, GossipGoesOn
<1>5. Remembered(world.cache, SeedsOf(SubSeq(Seeds, 1, 1)), worker'.announced, world.missed)
  BY <1>2, <1>4, GossipElim DEF Remembered
<1>6. gens # <<>> /\ gens[Len(gens)].phase # "done"
  BY <1>1 DEF Lives
<1>. QED BY <1>1, <1>2, <1>3, <1>4, <1>5, <1>6, GossipElim, GossipIntro DEF BootstrapParts

LEMMA GossipExpires ==
    ASSUME GossipInv, ProviderInv, Gossip!Expire
    PROVE  GossipInv'
<1>. DEFINE kept == Gossip!Unexpired(worker.views)
<1>1. /\ Lives(gens) /\ gens' = gens /\ world' = world /\ now' = now
      /\ worker' = [worker EXCEPT !.views = kept] /\ Gossip!publish_views(kept)
  BY DEF Gossip!Expire, Gossip!Alive, Gossip!current, Lives
<1>2. AllSuggest(kept, SeedsOf(SubSeq(Seeds, 1, 1)), world.recent, CandidateTtl + GossipLeast) /\ AllTimely(kept, SeedsOf(SubSeq(Seeds, 1, 1)), now, gens)
  <2>1. CandidateTtl + GossipLeast \in Int
    BY GossipFacts
  <2>. QED BY <2>1, GossipElim, GossipDrops
<1>. HIDE DEF kept
<1>3. Covered(state'.peers, kept, SeedsOf(SubSeq(Seeds, 1, 1)))
  BY <1>1, <1>2, InvElim, GossipCovers
<1>4. IsBootstrapWorker(worker') /\ worker'.views = kept /\ worker'.announced = worker.announced
  BY <1>1, GossipElim DEF IsBootstrapWorker
<1>. QED BY <1>1, <1>2, <1>3, <1>4, GossipElim, GossipIntro DEF BootstrapParts

\* After an answer or an error.
LEMMA GossipContinues ==
    ASSUME GossipInv, ProviderInv, Lives(gens), NEW vs, NEW schedule, NEW requests,
           AllSuggest(vs, SeedsOf(SubSeq(Seeds, 1, 1)), world.recent, CandidateTtl + GossipLeast), IsBootstrapWorld(requests),
           requests.recent = world.recent, requests.missed = world.missed,
           Requests(requests.flight, worker.announced, SeedsOf(SubSeq(Seeds, 1, 1)), gens),
           AllCached(requests.cache, SeedsOf(SubSeq(Seeds, 1, 1)), world.recent, CandidateTtl),
           Remembered(requests.cache, SeedsOf(SubSeq(Seeds, 1, 1)), worker.announced, world.missed),
           Gossip!Continue(vs, schedule, requests)
    PROVE  GossipInv'
<1>. DEFINE kept == Gossip!Unexpired(vs)
            w == [worker EXCEPT !.views = kept, !.schedules[SubSeq(Seeds, 1, 1)[worker.position]] = schedule]
<1>1. Gossip!GoOn(w, worker.position, requests) /\ Gossip!publish_views(kept) /\ gens' = gens /\ now' = now
  BY DEF Gossip!Continue
<1>2. AllSuggest(kept, SeedsOf(SubSeq(Seeds, 1, 1)), world.recent, CandidateTtl + GossipLeast) /\ AllTimely(kept, SeedsOf(SubSeq(Seeds, 1, 1)), now, gens)
  <2>1. CandidateTtl + GossipLeast \in Int
    BY GossipFacts
  <2>. QED BY <2>1, GossipElim, GossipDrops
<1>. HIDE DEF kept
<1>3. Covered(state'.peers, kept, SeedsOf(SubSeq(Seeds, 1, 1)))
  BY <1>1, <1>2, InvElim, GossipCovers
<1>4. IsBootstrapWorker(w) /\ w.views = kept /\ w.announced = worker.announced /\ worker.position \in Nat
  BY GossipElim DEF IsBootstrapWorker
<1>. HIDE DEF w
<1>5. /\ IsBootstrapWorker(worker') /\ IsBootstrapWorld(world')
      /\ worker'.views = w.views /\ w.announced \subseteq worker'.announced
      /\ Requests(world'.flight, worker'.announced, SeedsOf(SubSeq(Seeds, 1, 1)), gens)
      /\ world'.cache = requests.cache /\ world'.recent = requests.recent /\ world'.missed = requests.missed
  <2>1. Requests(requests.flight, w.announced, SeedsOf(SubSeq(Seeds, 1, 1)), gens)
    BY <1>4
  <2>. QED BY <1>1, <1>4, <2>1, GossipGoesOn
<1>6. Remembered(requests.cache, SeedsOf(SubSeq(Seeds, 1, 1)), worker'.announced, world.missed)
  BY <1>4, <1>5 DEF Remembered
<1>7. gens # <<>> /\ gens[Len(gens)].phase # "done"
  BY DEF Lives
<1>. QED BY <1>1, <1>2, <1>3, <1>4, <1>5, <1>6, <1>7, GossipElim, GossipIntro DEF BootstrapParts

\* A request of this node that a seed handles.
LEMMA GossipHandles ==
    ASSUME GossipInv, NEW r \in world.flight, NEW missed, world.missed \subseteq missed,
           Lives(gens) \/ r.seed \in missed
    PROVE  LET c == Gossip!exchange(world.cache[r.seed], Self, r.endpoint, now)
           IN  /\ r.seed \in SeedsOf(SubSeq(Seeds, 1, 1)) /\ Cached(c, world.recent, CandidateTtl) /\ AllFresh(c, now)
               /\ AllCached([world.cache EXCEPT ![r.seed] = c], SeedsOf(SubSeq(Seeds, 1, 1)), world.recent, CandidateTtl)
               /\ Remembered([world.cache EXCEPT ![r.seed] = c], SeedsOf(SubSeq(Seeds, 1, 1)), worker.announced, missed)
<1>. DEFINE c == Gossip!exchange(world.cache[r.seed], Self, r.endpoint, now)
            recent == world.recent
<1>1. r.seed \in SeedsOf(SubSeq(Seeds, 1, 1)) /\ (Lives(gens) /\ r.endpoint # NoEndpoint => r.seed \in worker.announced)
  BY GossipElim DEF Requests
<1>2. Cached(world.cache[r.seed], recent, CandidateTtl) /\ NotBefore(recent, recent) /\ recent \in [Others -> Int] /\ now \in Int
  BY <1>1, GossipElim DEF AllCached, NotBefore
<1>3. /\ Cached(c, recent, CandidateTtl) /\ AllFresh(c, now)
      /\ HasSelf(c) => HasSelf(world.cache[r.seed]) \/ r.endpoint # NoEndpoint
  <2>1. Self \in Others \cup {Self} /\ Self \notin Others
    BY GossipConstants
  <2>. QED BY <1>2, <2>1, GossipExchanges
<1>. HIDE DEF c
<1>4. AllCached([world.cache EXCEPT ![r.seed] = c], SeedsOf(SubSeq(Seeds, 1, 1)), recent, CandidateTtl)
  BY <1>1, <1>3, GossipElim, OneCached
<1>5. Remembered([world.cache EXCEPT ![r.seed] = c], SeedsOf(SubSeq(Seeds, 1, 1)), worker.announced, missed)
  <2>1. HasSelf(c) => HasSelf(world.cache[r.seed]) \/ r.seed \in worker.announced \cup missed
    BY <1>1, <1>3
  <2>2. world.cache = [s \in SeedsOf(SubSeq(Seeds, 1, 1)) |-> world.cache[s]]
    BY GossipElim DEF AllCached
  <2>. QED BY <1>1, <2>1, <2>2, GossipElim, OneRemembered
<1>. QED BY <1>1, <1>3, <1>4, <1>5 DEF c

LEMMA GossipAnswers ==
    ASSUME GossipInv, ProviderInv, NEW r \in world.flight, Gossip!Answered(r)
    PROVE  GossipInv'
<1>. DEFINE s == r.seed
            c == Gossip!exchange(world.cache[s], Self, r.endpoint, now)
            learned == Gossip!Distinct(<<s>> \o Gossip!reply(c, Self, <<s>>, MaxCandidates))
            m == IF Len(learned) < MaxCandidates THEN Len(learned) ELSE MaxCandidates
            view == [endpoints |-> SubSeq(learned, 1, m), at |-> now, expires |-> now + GossipLeast]
            vs == [worker.views EXCEPT ![s] = view]
            schedule == [worker.schedules[s] EXCEPT !.next = now + Later, !.delay = Soon]
            requests == [world EXCEPT !.cache[s] = c, !.flight = @ \ {r}]
<1>1. Lives(gens) /\ Gossip!Continue(vs, schedule, requests)
  BY GossipFacts DEF Gossip!Answered, Gossip!Alive, Gossip!current, Lives, Gossip!Lesser
<1>2. /\ s \in SeedsOf(SubSeq(Seeds, 1, 1)) /\ Cached(c, world.recent, CandidateTtl) /\ AllFresh(c, now)
      /\ AllCached([world.cache EXCEPT ![s] = c], SeedsOf(SubSeq(Seeds, 1, 1)), world.recent, CandidateTtl)
      /\ Remembered([world.cache EXCEPT ![s] = c], SeedsOf(SubSeq(Seeds, 1, 1)), worker.announced, world.missed)
  BY <1>1, GossipHandles
<1>. HIDE DEF c
<1>3. /\ \E S : learned \in Seq(S)
      /\ \A k \in DOMAIN learned : learned[k] \in Others => now < world.recent[learned[k]] + CandidateTtl
  <2>1. s \notin Others /\ now \in Int
    BY <1>2, GossipFacts, GossipElim
  <2>. QED BY <1>2, <2>1, GossipElim, GossipLearns
<1>. HIDE DEF learned
<1>4. Suggests(view, world.recent, CandidateTtl + GossipLeast)
  <2>1. PICK S : learned \in Seq(S)
    BY <1>3
  <2>2. Len(learned) \in Nat /\ m \in Nat /\ m <= Len(learned) /\ m <= MaxCandidates
    BY <2>1, GossipConstants
  <2>. HIDE DEF m
  <2>. DEFINE e == SubSeq(learned, 1, m)
  <2>3. e \in Seq(S) /\ \A j \in DOMAIN e : j \in DOMAIN learned /\ e[j] = learned[j]
    BY <2>1, <2>2
  <2>. HIDE DEF e
  <2>4. \A j \in DOMAIN e : e[j] \in Others => now + GossipLeast < world.recent[e[j]] + (CandidateTtl + GossipLeast)
    <3>. SUFFICES ASSUME NEW j \in DOMAIN e, e[j] \in Others
                  PROVE  now + GossipLeast < world.recent[e[j]] + (CandidateTtl + GossipLeast)
      OBVIOUS
    <3>1. now < world.recent[e[j]] + CandidateTtl
      BY <1>3, <2>3
    <3>2. now \in Int /\ world.recent[e[j]] \in Int /\ CandidateTtl \in Int /\ GossipLeast \in Int
      BY GossipElim, GossipFacts
    <3>. QED BY <3>1, <3>2
  <2>5. now + GossipLeast \in Int
    BY GossipElim, GossipFacts
  <2>6. view = [endpoints |-> e, at |-> now, expires |-> now + GossipLeast]
    BY DEF e
  <2>. HIDE DEF view
  <2>. QED BY <2>3, <2>4, <2>5, <2>6 DEF Suggests
<1>. HIDE DEF view
<1>5. AllSuggest(vs, SeedsOf(SubSeq(Seeds, 1, 1)), world.recent, CandidateTtl + GossipLeast)
  BY <1>2, <1>4, GossipElim DEF AllSuggest
<1>6. /\ IsBootstrapWorld(requests) /\ requests.recent = world.recent /\ requests.missed = world.missed
      /\ requests.cache = [world.cache EXCEPT ![s] = c] /\ requests.flight = world.flight \ {r}
  BY GossipElim DEF IsBootstrapWorld
<1>7. Requests(requests.flight, worker.announced, SeedsOf(SubSeq(Seeds, 1, 1)), gens)
  BY <1>6, GossipElim, FewerRequests
<1>. HIDE DEF requests, schedule, vs, s
<1>. QED BY <1>1, <1>2, <1>5, <1>6, <1>7, GossipContinues

LEMMA GossipFails ==
    ASSUME GossipInv, ProviderInv, NEW r \in world.flight, NEW error, Gossip!QueryFails(r, error)
    PROVE  GossipInv'
<1>. DEFINE s == r.seed
            rest == [world EXCEPT !.flight = @ \ {r}, !.events = @ + 1]
            late == [r EXCEPT !.live = FALSE]
            c == Gossip!exchange(rest.cache[s], Self, r.endpoint, now)
            schedule == Gossip!failed(worker.schedules[s], error)
<1>1. /\ Lives(gens)
      /\ \E requests \in {rest, [rest EXCEPT !.cache[s] = c], [rest EXCEPT !.flight = {late}]} :
            Gossip!Continue(worker.views, schedule, requests)
  BY DEF Gossip!QueryFails, Gossip!Alive, Gossip!current, Lives
<1>2. PICK requests \in {rest, [rest EXCEPT !.cache[s] = c], [rest EXCEPT !.flight = {late}]} :
            Gossip!Continue(worker.views, schedule, requests)
  BY <1>1
<1>3. /\ IsBootstrapWorld(rest) /\ rest.recent = world.recent /\ rest.missed = world.missed
      /\ rest.cache = world.cache /\ rest.flight = world.flight \ {r}
  BY GossipElim DEF IsBootstrapWorld
<1>. HIDE DEF rest
<1>4. /\ AllCached([world.cache EXCEPT ![s] = c], SeedsOf(SubSeq(Seeds, 1, 1)), world.recent, CandidateTtl)
      /\ Remembered([world.cache EXCEPT ![s] = c], SeedsOf(SubSeq(Seeds, 1, 1)), worker.announced, world.missed)
  BY <1>1, <1>3, GossipHandles
<1>. HIDE DEF c
<1>5. /\ late \in [seed : SeedsOf(SubSeq(Seeds, 1, 1)), endpoint : {late.endpoint}, live : {late.live}]
      /\ late.endpoint = r.endpoint /\ late.seed = r.seed
  BY GossipElim DEF Requests
<1>6. Requests({late}, worker.announced, SeedsOf(SubSeq(Seeds, 1, 1)), gens)
  <2>1. Lives(gens) /\ r.endpoint # NoEndpoint => r.seed \in worker.announced
    BY GossipElim DEF Requests
  <2>. HIDE DEF late
  <2>. QED BY <1>5, <2>1 DEF Requests
<1>. HIDE DEF late
<1>7. /\ IsBootstrapWorld(requests) /\ requests.recent = world.recent /\ requests.missed = world.missed
      /\ requests.cache \in {world.cache, [world.cache EXCEPT ![s] = c]}
      /\ requests.flight \in {world.flight \ {r}, {late}}
  BY <1>3 DEF IsBootstrapWorld
<1>8. Requests(world.flight \ {r}, worker.announced, SeedsOf(SubSeq(Seeds, 1, 1)), gens)
  BY GossipElim, FewerRequests
<1>9. Requests(requests.flight, worker.announced, SeedsOf(SubSeq(Seeds, 1, 1)), gens)
  BY <1>6, <1>7, <1>8
<1>10. /\ AllCached(requests.cache, SeedsOf(SubSeq(Seeds, 1, 1)), world.recent, CandidateTtl)
       /\ Remembered(requests.cache, SeedsOf(SubSeq(Seeds, 1, 1)), worker.announced, world.missed)
  BY <1>4, <1>7, GossipElim
<1>. HIDE DEF schedule, s
<1>. QED BY <1>1, <1>2, <1>7, <1>9, <1>10, GossipElim, GossipContinues

LEMMA GossipWorkerEnds ==
    ASSUME GossipInv, ProviderInv, Gossip!WorkerEnds
    PROVE  GossipInv'
<1>. DEFINE late == {[r EXCEPT !.live = FALSE] : r \in world.flight}
<1>1. /\ gens # <<>> /\ now' = now /\ worker' = [worker EXCEPT !.position = 0] /\ world' = [world EXCEPT !.flight = late]
      /\ \E result : gens' = [gens EXCEPT ![Len(gens)].phase = "joined", ![Len(gens)].result = result]
  BY DEF Gossip!WorkerEnds, Gossip!WorkerReturns, Gossip!Alive
<1>2. gens' # <<>> /\ Len(gens') = Len(gens) /\ gens'[Len(gens)].phase = "joined"
  <2>1. PICK result : gens' = [gens EXCEPT ![Len(gens)].phase = "joined", ![Len(gens)].result = result]
    BY <1>1
  <2>. QED BY <1>1, <2>1, LastJoins
<1>3. ~Lives(gens') /\ gens' # <<>> /\ gens'[Len(gens')].phase # "done"
  BY <1>2 DEF Lives
<1>4. Requests(late, worker.announced, SeedsOf(SubSeq(Seeds, 1, 1)), gens')
  <2>. SUFFICES ASSUME NEW r \in world.flight
                PROVE  LET l == [r EXCEPT !.live = FALSE]
                       IN  l \in [seed : SeedsOf(SubSeq(Seeds, 1, 1)), endpoint : {l.endpoint}, live : {l.live}]
    BY <1>3 DEF Requests
  <2>. QED BY GossipElim DEF Requests
<1>. HIDE DEF late
<1>5. /\ IsBootstrapWorker(worker') /\ worker'.views = worker.views /\ worker'.announced = worker.announced
  BY <1>1, GossipElim DEF IsBootstrapWorker
<1>6. /\ IsBootstrapWorld(world') /\ world'.flight = late /\ world'.cache = world.cache
      /\ world'.recent = world.recent /\ world'.missed = world.missed
  BY <1>1, GossipElim DEF IsBootstrapWorld
<1>7. AllTimely(worker.views, SeedsOf(SubSeq(Seeds, 1, 1)), now, gens')
  BY <1>3, GossipElim DEF AllTimely, Timely
<1>. QED BY <1>1, <1>3, <1>4, <1>5, <1>6, <1>7, GossipElim, GossipIntro DEF BootstrapParts

LEMMA GossipCleans ==
    ASSUME GossipInv, ProviderInv, NEW g \in DOMAIN gens, Gossip!Cleanup(g)
    PROVE  GossipInv'
<1>. DEFINE seeds == SeedsOf(SubSeq(Seeds, 1, 1))
            empty == [s \in seeds |-> Gossip!NoView]
            recent == world.recent
<1>1. PICK told \in SUBSET worker.announced :
          world' = [world EXCEPT
             !.cache = [s \in Gossip!SeedSet |-> IF s \in told THEN Gossip!exchange(@[s], Self, NoEndpoint, now) ELSE @[s]],
             !.missed = @ \cup (worker.announced \ told),
             !.own = IF stopped THEN NoEndpoint ELSE @]
  BY DEF Gossip!Cleanup
<1>. DEFINE cache == [s \in seeds |-> IF s \in told THEN Gossip!exchange(world.cache[s], Self, NoEndpoint, now)
                                      ELSE world.cache[s]]
            missed == world.missed \cup (worker.announced \ told)
<1>2. /\ gens[g].phase = "cleaning" /\ now' = now /\ worker' = Gossip!StartedAt(0)
      /\ gens' = [gens EXCEPT ![g].phase = "done", ![g].clean = TRUE,
                              ![g].restart = IF ~TRUE \/ gens[g].result = "fatal" THEN "fatal" ELSE "ok"]
  BY DEF Gossip!Cleanup, Gossip!Complete, Gossip!NoWorker
<1>3. gens' # <<>> /\ gens'[Len(gens')].phase = "done"
  <2>1. g = Len(gens) /\ gens # <<>> /\ gens[g] \in Generation
    BY <1>2, OnlyTheLast
  <2>. DEFINE last == [gens[Len(gens)] EXCEPT !.phase = "done", !.clean = TRUE,
                              !.restart = IF ~TRUE \/ gens[g].result = "fatal" THEN "fatal" ELSE "ok"]
  <2>2. gens' = [gens EXCEPT ![Len(gens)] = last]
    BY <1>2, <2>1, LastGens
  <2>3. last.phase = "done"
    BY <2>1 DEF Generation
  <2>. HIDE DEF last
  <2>4. gens' # <<>> /\ Len(gens') = Len(gens) /\ gens'[Len(gens)] = last
    <3>1. gens \in Seq(Generation \cup {last}) /\ last \in Generation \cup {last}
      BY <2>1, LastGens
    <3>. QED BY <2>1, <2>2, <3>1, LastReplaced
  <2>. QED BY <2>3, <2>4
<1>4. ~Lives(gens')
  BY <1>3 DEF Lives
<1>5. /\ IsBootstrapWorker(worker') /\ worker'.views = empty /\ worker'.announced = {}
  BY <1>2, GossipFacts DEF Gossip!StartedAt, IsBootstrapWorker
<1>6. /\ IsBootstrapWorld(world') /\ world'.cache = cache /\ world'.missed = missed
      /\ world'.flight = world.flight /\ world'.recent = recent
  BY <1>1, GossipElim, GossipFacts DEF IsBootstrapWorld
<1>7. \A s \in seeds : /\ Cached(cache[s], recent, CandidateTtl)
                       /\ HasSelf(cache[s]) => s \in missed
  <2>. SUFFICES ASSUME NEW s \in seeds PROVE Cached(cache[s], recent, CandidateTtl) /\ (HasSelf(cache[s]) => s \in missed)
    OBVIOUS
  <2>1. /\ Cached(world.cache[s], recent, CandidateTtl) /\ NotBefore(recent, recent) /\ recent \in [Others -> Int] /\ now \in Int
        /\ HasSelf(world.cache[s]) => s \in worker.announced \cup world.missed
    BY GossipElim DEF AllCached, NotBefore, Remembered
  <2>2. CASE s \in told
    <3>1. Self \in Others \cup {Self} /\ Self \notin Others
      BY GossipConstants
    <3>. DEFINE c == Gossip!exchange(world.cache[s], Self, NoEndpoint, now)
    <3>2. Cached(c, recent, CandidateTtl) /\ ~HasSelf(c)
      BY <2>1, <3>1, GossipExchanges
    <3>. QED BY <2>2, <3>2
  <2>3. CASE s \notin told
    BY <2>1, <2>3
  <2>. QED BY <2>2, <2>3
<1>8. AllCached(cache, seeds, recent, CandidateTtl)
  <2>1. cache = [s \in seeds |-> cache[s]]
    OBVIOUS
  <2>. HIDE DEF cache, missed
  <2>. QED BY <1>7, <2>1 DEF AllCached
<1>. HIDE DEF cache, missed
<1>9. Remembered(cache, seeds, {}, missed)
  BY <1>7 DEF Remembered
<1>10. AllSuggest(empty, seeds, recent, CandidateTtl + GossipLeast) /\ AllTimely(empty, seeds, now, gens')
  <2>1. <<>> \in Seq({})
    OBVIOUS
  <2>2. Suggests(Gossip!NoView, recent, CandidateTtl + GossipLeast) /\ Timely(Gossip!NoView, now, gens')
    BY <2>1 DEF Suggests, Timely, Gossip!NoView
  <2>. HIDE DEF seeds
  <2>. QED BY <2>2 DEF AllSuggest, AllTimely
<1>11. Requests(world.flight, {}, seeds, gens')
  BY <1>4, GossipElim DEF Requests
<1>. HIDE DEF empty
<1>12. BootstrapParts(worker'.announced, worker'.views, world'.cache, world'.flight, world'.recent, world'.missed,
                      now', gens', state'.peers, seeds, CandidateTtl, GossipLeast)
  BY <1>2, <1>3, <1>4, <1>5, <1>6, <1>8, <1>9, <1>10, <1>11, GossipElim DEF BootstrapParts
<1>. QED BY <1>5, <1>6, <1>12, GossipIntro

\* Callers and other nodes.
LEMMA GossipCalled ==
    ASSUME GossipInv, ProviderInv,
           \/ Gossip!announce
           \/ \E r \in world.flight : Gossip!LateRequest(r)
           \/ \E s \in Gossip!SeedSet, o \in Others : Gossip!OtherRequest(s, o, o) \/ Gossip!OtherRequest(s, o, NoEndpoint)
    PROVE  GossipInv'
<1>1. CASE Gossip!announce
  <2>1. /\ gens' = gens /\ state' = state /\ now' = now /\ worker' = worker
        /\ world' = [world EXCEPT !.own = OwnEndpoint, !.changed = TRUE]
    BY <1>1 DEF Gossip!announce, Gossip!providerVars
  <2>2. /\ IsBootstrapWorld(world') /\ world'.flight = world.flight /\ world'.cache = world.cache
        /\ world'.recent = world.recent /\ world'.missed = world.missed
    BY <2>1, GossipElim DEF IsBootstrapWorld
  <2>. QED BY <2>1, <2>2, GossipElim, GossipIntro DEF BootstrapParts
<1>2. ASSUME NEW r \in world.flight, Gossip!LateRequest(r) PROVE GossipInv'
  <2>. DEFINE c == Gossip!exchange(world.cache[r.seed], Self, r.endpoint, now)
              missed == IF Lives(gens) THEN world.missed ELSE world.missed \cup {r.seed}
  <2>1. /\ gens' = gens /\ state' = state /\ now' = now /\ worker' = worker
        /\ world' = [world EXCEPT !.flight = @ \ {r}, !.cache[r.seed] = c, !.missed = missed]
    BY <1>2 DEF Gossip!LateRequest, Gossip!providerVars, Gossip!Alive, Gossip!current, Lives
  <2>2. world.missed \subseteq missed /\ (Lives(gens) \/ r.seed \in missed)
    OBVIOUS
  <2>. HIDE DEF missed
  <2>3. /\ AllCached([world.cache EXCEPT ![r.seed] = c], SeedsOf(SubSeq(Seeds, 1, 1)), world.recent, CandidateTtl)
        /\ Remembered([world.cache EXCEPT ![r.seed] = c], SeedsOf(SubSeq(Seeds, 1, 1)), worker.announced, missed)
    BY <2>2, GossipHandles
  <2>. HIDE DEF c
  <2>4. /\ IsBootstrapWorld(world') /\ world'.flight = world.flight \ {r} /\ world'.cache = [world.cache EXCEPT ![r.seed] = c]
        /\ world'.recent = world.recent /\ world'.missed = missed
    BY <2>1, GossipElim DEF IsBootstrapWorld
  <2>5. Requests(world.flight \ {r}, worker.announced, SeedsOf(SubSeq(Seeds, 1, 1)), gens)
    BY GossipElim, FewerRequests
  <2>. QED BY <2>1, <2>3, <2>4, <2>5, GossipElim, GossipIntro DEF BootstrapParts
<1>3. ASSUME NEW s \in Gossip!SeedSet, NEW o \in Others, NEW endpoint \in {o, NoEndpoint}, Gossip!OtherRequest(s, o, endpoint)
      PROVE  GossipInv'
  <2>. DEFINE recent == [world.recent EXCEPT ![o] = IF endpoint = NoEndpoint THEN @ ELSE now]
              c == Gossip!exchange(world.cache[s], o, endpoint, now)
  <2>1. /\ gens' = gens /\ state' = state /\ now' = now /\ worker' = worker
        /\ world' = [world EXCEPT !.cache[s] = c, !.events = @ + 1, !.recent = recent]
    BY <1>3 DEF Gossip!OtherRequest, Gossip!providerVars
  <2>2. /\ recent \in [Others -> Int] /\ Recents(recent, now) /\ NotBefore(world.recent, recent)
        /\ endpoint # NoEndpoint => recent[o] = now
    BY GossipElim DEF Recents, NotBefore
  <2>. HIDE DEF recent
  <2>3. s \in SeedsOf(SubSeq(Seeds, 1, 1)) /\ Cached(world.cache[s], world.recent, CandidateTtl) /\ o # Self
    BY GossipFacts, GossipElim, GossipConstants DEF AllCached
  <2>4. Cached(c, recent, CandidateTtl) /\ (HasSelf(c) => HasSelf(world.cache[s]))
    BY <1>3, <2>2, <2>3, GossipElim, GossipExchanges
  <2>. HIDE DEF c
  <2>5. AllCached([world.cache EXCEPT ![s] = c], SeedsOf(SubSeq(Seeds, 1, 1)), recent, CandidateTtl)
    <3>1. AllCached(world.cache, SeedsOf(SubSeq(Seeds, 1, 1)), recent, CandidateTtl)
      BY <2>2, GossipElim, GossipFacts, AllCachedLater
    <3>. QED BY <2>3, <2>4, <3>1, OneCached
  <2>6. Remembered([world.cache EXCEPT ![s] = c], SeedsOf(SubSeq(Seeds, 1, 1)), worker.announced, world.missed)
    <3>1. world.cache = [t \in SeedsOf(SubSeq(Seeds, 1, 1)) |-> world.cache[t]]
      BY GossipElim DEF AllCached
    <3>. QED BY <2>3, <2>4, <3>1, GossipElim, OneRemembered
  <2>7. AllSuggest(worker.views, SeedsOf(SubSeq(Seeds, 1, 1)), recent, CandidateTtl + GossipLeast)
    <3>1. CandidateTtl + GossipLeast \in Int
      BY GossipFacts
    <3>. QED BY <2>2, <3>1, GossipElim, SuggestsLater
  <2>8. /\ IsBootstrapWorld(world') /\ world'.flight = world.flight /\ world'.cache = [world.cache EXCEPT ![s] = c]
        /\ world'.recent = recent /\ world'.missed = world.missed
    BY <2>1, GossipElim DEF IsBootstrapWorld
  <2>. QED BY <2>1, <2>2, <2>5, <2>6, <2>7, <2>8, GossipElim, GossipIntro DEF BootstrapParts
<1>. QED BY <1>1, <1>2, <1>3

LEMMA GossipKeeps ==
    ASSUME GossipInv, ProviderInv, ProviderInv', kind = "bootstrap", Gossip!Next
    PROVE  GossipInv'
<1>1. CASE Gossip!ProviderNext
  <2>1. PICK g \in DOMAIN gens : Gossip!Finish(g)
    BY <1>1 DEF Gossip!ProviderNext
  <2>2. /\ gens[g].phase = "joined" /\ gens' = [gens EXCEPT ![g].phase = "cleaning"]
        /\ worker' = worker /\ world' = world /\ now' = now
    BY <2>1 DEF Gossip!Finish
  <2>3. g = Len(gens) /\ gens # <<>>
    BY <2>2, OnlyTheLast
  <2>4. Len(gens') = Len(gens) /\ gens' # <<>> /\ gens'[Len(gens)].phase = "cleaning"
    BY <2>2, <2>3, LastGens DEF Generation
  <2>. QED BY <2>2, <2>3, <2>4, GossipRests
<1>2. CASE Gossip!RequestShutdown /\ UNCHANGED world
  <2>1. worker' = worker /\ world' = world /\ now' = now /\ gens' = gens /\ state' = state
    BY <1>2 DEF Gossip!RequestShutdown
  <2>. QED BY <2>1, GossipRests
<1>3. CASE Gossip!Discover(Gossip!StartedAt(now)) /\ UNCHANGED world
  BY <1>3, GossipSpawns
<1>4. CASE Gossip!Tick
  <2>1. /\ worker' = worker /\ world' = world /\ now' = now + 1 /\ gens' = gens /\ state' = state
        /\ Lives(gens) => \A s \in SeedsOf(SubSeq(Seeds, 1, 1)) : worker.views[s].expires = 0 \/ worker.views[s].expires > now
    BY <1>4, GossipFacts DEF Gossip!Tick, Gossip!providerVars, Gossip!Alive, Gossip!current, Lives
  <2>. QED BY <2>1, GossipRests
<1>5. CASE \E r \in world.flight :
          \/ Gossip!Answered(r)
          \/ \E error \in {"transient", "retry_after", "fatal"} : Gossip!QueryFails(r, error)
  BY <1>5, GossipAnswers, GossipFails
<1>6. CASE \/ Gossip!announce
           \/ \E r \in world.flight : Gossip!LateRequest(r)
           \/ \E s \in Gossip!SeedSet, o \in Others : Gossip!OtherRequest(s, o, o) \/ Gossip!OtherRequest(s, o, NoEndpoint)
  BY <1>6, GossipCalled
<1>7. CASE Gossip!Pass \/ Gossip!Expire \/ Gossip!WorkerEnds \/ \E g \in DOMAIN gens : Gossip!Cleanup(g)
  BY <1>7, GossipPasses, GossipExpires, GossipWorkerEnds, GossipCleans
<1>. QED BY <1>1, <1>2, <1>3, <1>4, <1>5, <1>6, <1>7 DEF Gossip!Next

LEMMA GossipImplies ==
    ASSUME GossipInv
    PROVE  Gossip!AnnouncementInv
<1>1. Gossip!SuggestionIsRecent
  <2>. SUFFICES ASSUME NEW o \in Others, Lives(gens), Gossip!Contains(Gossip!names(state.peers), o)
                PROVE  now - world.recent[o] < CandidateTtl + GossipLeast
    BY GossipFacts DEF Gossip!SuggestionIsRecent, Gossip!Alive, Gossip!current, Lives
  <2>1. PICK S : state.peers \in Seq(S)
    BY GossipElim DEF Covered
  <2>2. PICK k \in DOMAIN state.peers : state.peers[k].peer = o
    <3>1. Gossip!names(state.peers) = [i \in 1..Len(state.peers) |-> state.peers[i].peer] /\ Len(state.peers) \in Nat
      BY <2>1 DEF Gossip!names
    <3>2. Len(Gossip!names(state.peers)) = Len(state.peers)
      BY <3>1
    <3>. QED BY <2>1, <3>1, <3>2 DEF Gossip!Contains
  <2>3. PICK s \in SeedsOf(SubSeq(Seeds, 1, 1)) : \E j \in DOMAIN worker.views[s].endpoints : worker.views[s].endpoints[j] = o
    BY <2>2, GossipElim DEF Covered
  <2>4. PICK j \in DOMAIN worker.views[s].endpoints : worker.views[s].endpoints[j] = o
    BY <2>3
  <2>5. worker.views[s].expires \in Int /\ worker.views[s].expires < world.recent[o] + (CandidateTtl + GossipLeast)
    BY <2>4, GossipElim DEF AllSuggest, Suggests
  <2>6. worker.views[s].endpoints # <<>>
    BY <2>4
  <2>7. now <= worker.views[s].expires
    BY <2>6, GossipElim DEF AllTimely, Timely
  <2>8. now \in Int /\ world.recent[o] \in Int /\ CandidateTtl \in Int /\ GossipLeast \in Int
    BY GossipElim, GossipFacts
  <2>. QED BY <2>5, <2>7, <2>8
<1>2. Gossip!WithdrawnAfterCleanup
  <2>. SUFFICES ASSUME gens # <<>>, gens[Len(gens)].phase = "done", NEW s \in SeedsOf(SubSeq(Seeds, 1, 1)) \ world.missed
                PROVE  Gossip!Without(world.cache[s], Self) = world.cache[s]
    BY GossipFacts DEF Gossip!WithdrawnAfterCleanup, Gossip!current
  <2>. DEFINE c == world.cache[s]
              K == {i \in DOMAIN c : c[i].node # Self}
  <2>1. ~HasSelf(c) /\ \E C : c \in Seq(C)
    BY GossipElim DEF Remembered, AllCached, Cached
  <2>2. Gossip!Without(c, Self) = At(c, K)
    BY GossipAt DEF Gossip!Without
  <2>3. K = DOMAIN c
    BY <2>1 DEF HasSelf
  <2>. HIDE DEF K, c
  <2>4. At(c, DOMAIN c) = c
    BY <2>1, AtAll
  <2>. QED BY <2>2, <2>3, <2>4 DEF c
<1>. QED BY <1>1, <1>2 DEF Gossip!AnnouncementInv

LEMMA GossipInvHolds == Spec => [](kind = "bootstrap" => GossipInv)
<1>. DEFINE Inv == kind = "bootstrap" => GossipInv
<1>1. Init => Inv
  BY GossipBegins
<1>2. Inv /\ ProviderInv /\ ProviderInv' /\ [Next]_allVars => Inv'
  <2>. SUFFICES ASSUME kind = "bootstrap" => GossipInv, ProviderInv, ProviderInv', [Next]_allVars, kind' = "bootstrap" PROVE GossipInv'
    BY DEF Inv
  <2>1. kind = "bootstrap" /\ GossipInv
    BY DEF Next, allVars
  <2>2. CASE Next
    <3>1. Gossip!Next
      BY <2>1, <2>2 DEF Next
    <3>. QED BY <2>1, <3>1, GossipKeeps
  <2>3. CASE UNCHANGED allVars
    <3>1. gens' = gens /\ state' = state /\ now' = now /\ worker' = worker /\ world' = world
      BY <2>3 DEF allVars, vars, providerVars
    <3>. QED BY <2>1, <3>1, GossipRests
  <2>. QED BY <2>2, <2>3
<1>. QED BY <1>1, <1>2, ProviderInvHolds, PTL DEF Spec

LEMMA GossipOfSeedsAt == ASSUME NEW seq, NEW J PROVE GossipOfSeeds!At(seq, J) = At(seq, J)
BY DEF GossipOfSeeds!At, GossipOfSeeds!Nth, GossipOfSeeds!Cardinality, At, Nth, Cardinality

LEMMA GossipOfSeedsDistinct == ASSUME NEW seq PROVE GossipOfSeeds!Distinct(seq) = Distinct(seq)
BY GossipOfSeedsAt DEF GossipOfSeeds!Distinct, Distinct

LEMMA GossipOfSeedsFlatten == ASSUME NEW seqs PROVE GossipOfSeeds!FlattenSeq(seqs) = FlattenSeq(seqs)
BY DEF GossipOfSeeds!FlattenSeq, FlattenSeq

\* What a request leaves at a seed.
LEMMA GossipOfSeedsExchanges ==
    ASSUME NEW c, NEW recent \in [Others -> Int], NEW recent2 \in [Others -> Int], NEW time \in Int,
           Cached(c, recent, (CandidateTtl - 1)), NotBefore(recent, recent2), NEW requester \in Others \cup {Self}, NEW endpoint,
           requester \in Others /\ endpoint # NoEndpoint => endpoint = requester /\ recent2[requester] = time
    PROVE  LET new == GossipOfSeeds!exchange(c, requester, endpoint, time)
           IN  /\ Cached(new, recent2, (CandidateTtl - 1))
               /\ HasSelf(new) => HasSelf(c) \/ (requester = Self /\ endpoint # NoEndpoint)
               /\ requester = Self /\ endpoint = NoEndpoint => ~HasSelf(new)
               /\ requester = Self => AllFresh(new, time)
<1>0. (CandidateTtl - 1) \in Int /\ Self \notin Others
  BY GossipConstants
<1>. DEFINE J == {i \in DOMAIN c : c[i].expires > time}
            live == At(c, J)
            entry == [node |-> requester, endpoint |-> endpoint, expires |-> time + (CandidateTtl - 1)]
            new == GossipOfSeeds!exchange(c, requester, endpoint, time)
            K == {i \in DOMAIN live : live[i].node # requester}
<1>1. J \in SUBSET (DOMAIN c) /\ \A i \in J : c[i].expires > time
  OBVIOUS
<1>2. GossipOfSeeds!prune_expired(c, time) = live
  BY GossipOfSeedsAt DEF GossipOfSeeds!prune_expired
<1>. HIDE DEF J
<1>3. Cached(c, recent2, (CandidateTtl - 1))
  BY <1>0, CachedLater
<1>4. /\ Cached(live, recent2, (CandidateTtl - 1)) /\ (HasSelf(live) => HasSelf(c))
      /\ \A k \in DOMAIN live : \E i \in J : live[k] = c[i]
  BY <1>1, <1>3, CachedPart
<1>5. AllFresh(live, time)
  BY <1>1, <1>4 DEF AllFresh
<1>6. new = IF endpoint = NoEndpoint THEN GossipOfSeeds!Without(live, requester)
            ELSE IF \E i \in DOMAIN live : live[i].node = requester
                 THEN [i \in DOMAIN live |-> IF live[i].node = requester THEN entry ELSE live[i]]
            ELSE IF Len(live) < MaxCachedCandidates THEN Append(live, entry)
            ELSE live
  BY <1>2 DEF GossipOfSeeds!exchange
<1>. HIDE DEF live, new
<1>7. CASE endpoint = NoEndpoint
  <2>1. new = At(live, K) /\ K \in SUBSET (DOMAIN live)
    BY <1>6, <1>7, GossipOfSeedsAt DEF GossipOfSeeds!Without
  <2>2. \A i \in K : live[i].node # requester
    OBVIOUS
  <2>. HIDE DEF K
  <2>3. /\ Cached(new, recent2, (CandidateTtl - 1)) /\ (HasSelf(new) => HasSelf(live))
        /\ \A k \in DOMAIN new : \E i \in K : new[k] = live[i]
    BY <1>4, <2>1, CachedPart
  <2>4. requester = Self => ~HasSelf(new)
    BY <2>2, <2>3 DEF HasSelf
  <2>5. AllFresh(new, time)
    BY <1>5, <2>1, <2>3 DEF AllFresh
  <2>. QED BY <1>4, <1>7, <2>3, <2>4, <2>5 DEF new
<1>8. CASE endpoint # NoEndpoint
  <2>1. Entry(entry, requester, recent2, time, (CandidateTtl - 1))
    BY <1>0, <1>8 DEF Entry
  <2>. HIDE DEF entry
  <2>2. CASE new = live
    BY <1>4, <1>5, <1>8, <2>2 DEF new
  <2>3. CASE \/ new = [i \in DOMAIN live |-> IF live[i].node = requester THEN entry ELSE live[i]]
             \/ new = Append(live, entry)
    <3>1. /\ Cached(new, recent2, (CandidateTtl - 1))
          /\ HasSelf(new) => HasSelf(live) \/ requester = Self
          /\ AllFresh(live, time) /\ requester \notin Others => AllFresh(new, time)
      BY <1>0, <1>4, <2>1, <2>3, CachedReplaced
    <3>. QED BY <1>0, <1>4, <1>5, <1>8, <3>1 DEF new
  <2>. QED BY <1>6, <1>8, <2>2, <2>3
<1>. QED BY <1>7, <1>8

\* What an answer suggests.
LEMMA GossipOfSeedsLearns ==
    ASSUME NEW c, NEW recent \in [Others -> Int], NEW time \in Int, Cached(c, recent, (CandidateTtl - 1)), AllFresh(c, time),
           NEW s, s \notin Others
    PROVE  LET learned == GossipOfSeeds!Distinct(<<s>> \o GossipOfSeeds!reply(c, Self, <<s>>, MaxCandidates))
           IN  /\ \E S : learned \in Seq(S)
               /\ \A k \in DOMAIN learned : learned[k] \in Others => time < recent[learned[k]] + (CandidateTtl - 1)
<1>0. (CandidateTtl - 1) \in Int /\ Self \notin Others /\ MaxCandidates \in Nat /\ MaxResponseCandidates \in Nat
  BY GossipConstants
<1>. DEFINE K == {i \in DOMAIN c : c[i].node # Self}
            others == At(c, K)
            from == [i \in DOMAIN others |-> others[i].endpoint]
            once == Distinct(<<s>> \o from)
            limit == IF MaxCandidates < MaxResponseCandidates THEN MaxCandidates ELSE MaxResponseCandidates
            m == IF Len(once) < limit THEN Len(once) ELSE limit
            answer == SubSeq(once, 1, m)
            learned == Distinct(<<s>> \o answer)
            X == {s} \cup {c[i].endpoint : i \in K}
<1>1. GossipOfSeeds!Distinct(<<s>> \o GossipOfSeeds!reply(c, Self, <<s>>, MaxCandidates)) = learned
  BY GossipOfSeedsAt, GossipOfSeedsDistinct DEF GossipOfSeeds!reply, GossipOfSeeds!Without
<1>2. K \in SUBSET (DOMAIN c) /\ \A i \in K : c[i].node # Self
  OBVIOUS
<1>3. \A x \in X : x \in Others => time < recent[x] + (CandidateTtl - 1)
  <2>. SUFFICES ASSUME NEW i \in K, c[i].endpoint \in Others PROVE time < recent[c[i].endpoint] + (CandidateTtl - 1)
    OBVIOUS
  <2>1. c[i].node \in Others /\ c[i].endpoint = c[i].node /\ c[i].expires <= recent[c[i].node] + (CandidateTtl - 1) /\ c[i].expires \in Int
    BY <1>2 DEF Cached
  <2>2. c[i].expires > time
    BY <1>2, <2>1 DEF AllFresh
  <2>. QED BY <1>0, <2>1, <2>2
<1>4. PICK C : c \in Seq(C)
  BY DEF Cached
<1>. HIDE DEF K
<1>5. others \in Seq(C) /\ Len(others) \in Nat /\ \A k \in 1..Len(others) : \E i \in K : others[k] = c[i]
  <2>1. /\ others \in Seq(C)
        /\ \A k \in 1..Len(others) : Nth(K, k) \in K /\ others[k] = c[Nth(K, k)]
    BY <1>2, <1>4, AtFacts
  <2>. HIDE DEF others
  <2>. QED BY <2>1
<1>6. from \in Seq(X)
  <2>. HIDE DEF others
  <2>1. \A k \in 1..Len(others) : others[k].endpoint \in X
    BY <1>5
  <2>. QED BY <1>5, <2>1
<1>7. <<s>> \o from \in Seq(X)
  <2>1. <<s>> \in Seq(X)
    OBVIOUS
  <2>. HIDE DEF from, X
  <2>. QED BY <1>6, <2>1
<1>8. once \in Seq(X) /\ Len(once) \in Nat
  <2>. HIDE DEF from, X
  <2>1. once \in Seq(X)
    BY <1>7, DistinctFacts
  <2>. HIDE DEF once
  <2>. QED BY <2>1
<1>9. answer \in Seq(X)
  <2>. HIDE DEF once
  <2>1. limit \in Nat /\ m \in Nat /\ m <= Len(once)
    BY <1>0, <1>8
  <2>. HIDE DEF limit, m, X
  <2>. QED BY <1>8, <2>1
<1>10. <<s>> \o answer \in Seq(X)
  <2>1. <<s>> \in Seq(X)
    OBVIOUS
  <2>. HIDE DEF answer, X
  <2>. QED BY <1>9, <2>1
<1>11. learned \in Seq(X)
  <2>. HIDE DEF answer
  <2>. QED BY <1>10, DistinctFacts
<1>. HIDE DEF learned, X
<1>12. \A k \in DOMAIN learned : learned[k] \in X
  BY <1>11
<1>. QED BY <1>1, <1>3, <1>11, <1>12

GossipOfSeedsLeast == IF (CandidateTtl - 1) < Later THEN (CandidateTtl - 1) ELSE Later

GossipOfSeedsInv ==
    /\ IsBootstrapWorker(worker) /\ IsBootstrapWorld(world)
    /\ BootstrapParts(worker.announced, worker.views, world.cache, world.flight, world.recent, world.missed,
                      now, gens, state.peers, SeedsOf(Seeds), (CandidateTtl - 1), GossipOfSeedsLeast)

LEMMA GossipOfSeedsFacts ==
    /\ GossipOfSeeds!SeedSet = SeedsOf(Seeds)
    /\ GossipOfSeeds!Lesser((CandidateTtl - 1), Later) = GossipOfSeedsLeast /\ GossipOfSeedsLeast \in Int /\ (CandidateTtl - 1) \in Int
    /\ Seeds \in Seq(ToSet(Seeds)) /\ \A s \in SeedsOf(Seeds) : s \notin Others
<1>1. GossipOfSeeds!SeedSet = SeedsOf(Seeds)
  BY DEF GossipOfSeeds!SeedSet, GossipOfSeeds!ToSet, SeedsOf
<1>2. GossipOfSeeds!Lesser((CandidateTtl - 1), Later) = GossipOfSeedsLeast /\ GossipOfSeedsLeast \in Int /\ (CandidateTtl - 1) \in Int
  BY GossipConstants DEF GossipOfSeeds!Lesser, GossipOfSeedsLeast
<1>3. Seeds \in Seq(ToSet(Seeds))
  BY GossipConstants
<1>4. \A s \in SeedsOf(Seeds) : s \in ToSet(Seeds)
  BY <1>3 DEF SeedsOf
<1>. QED BY <1>1, <1>2, <1>3, <1>4, GossipConstants

LEMMA GossipOfSeedsIntro ==
    ASSUME IsBootstrapWorker(worker'), IsBootstrapWorld(world'),
           BootstrapParts(worker'.announced, worker'.views, world'.cache, world'.flight, world'.recent, world'.missed,
                          now', gens', state'.peers, SeedsOf(Seeds), (CandidateTtl - 1), GossipOfSeedsLeast)
    PROVE  GossipOfSeedsInv'
BY DEF GossipOfSeedsInv, IsBootstrapWorker, IsBootstrapWorld, BootstrapParts, Recents, AllCached, Cached, AllSuggest, Suggests,
       AllTimely, Timely, Covered, Requests, Remembered, HasSelf, Lives, SeedsOf, GossipOfSeedsLeast

\* What is published is covered by the views.
LEMMA GossipOfSeedsCovers ==
    ASSUME IsView(state), NEW vs, NEW recent, NEW both, AllSuggest(vs, SeedsOf(Seeds), recent, both), GossipOfSeeds!publish_views(vs)
    PROVE  Covered(state'.peers, vs, SeedsOf(Seeds))
<1>. DEFINE seeds == SeedsOf(Seeds)
            qs == [i \in DOMAIN Seeds |-> vs[Seeds[i]].endpoints]
            all == Distinct(FlattenSeq(qs))
            m == IF Len(all) < MaxCandidates THEN Len(all) ELSE MaxCandidates
            peers == SubSeq(all, 1, m)
            seen(p) == {vs[s].at : s \in {t \in GossipOfSeeds!SeedSet : GossipOfSeeds!Contains(vs[t].endpoints, p)}}
            p == [k \in DOMAIN peers |->
                    [peer |-> peers[k], at |-> CHOOSE t \in seen(peers[k]) : \A u \in seen(peers[k]) : u <= t]]
            X == {x \in UNION {ToSet(vs[s].endpoints) : s \in seeds} : TRUE}
<1>1. \A s \in seeds : \E S : vs[s].endpoints \in Seq(S)
  BY DEF AllSuggest, Suggests
<1>2. \A s \in seeds : \A j \in DOMAIN vs[s].endpoints : vs[s].endpoints[j] \in X
  BY DEF ToSet
<1>3. \A x \in X : \E s \in seeds : \E j \in DOMAIN vs[s].endpoints : vs[s].endpoints[j] = x
  BY DEF ToSet
<1>. HIDE DEF X
<1>4. qs \in Seq(Seq(X))
  <2>1. \A s \in seeds : vs[s].endpoints \in Seq(X)
    BY <1>1, <1>2, RangeSeq
  <2>2. \A i \in DOMAIN Seeds : Seeds[i] \in seeds
    BY DEF SeedsOf
  <2>3. Len(Seeds) \in Nat /\ DOMAIN Seeds = 1..Len(Seeds)
    BY GossipOfSeedsFacts
  <2>. HIDE DEF seeds
  <2>. QED BY <2>1, <2>2, <2>3
<1>5. FlattenSeq(qs) \in Seq(X)
  <2>. HIDE DEF qs
  <2>. QED BY <1>4, FlattenFacts
<1>6. all \in Seq(X) /\ Len(all) \in Nat
  <2>. DEFINE flat == FlattenSeq(qs)
  <2>. HIDE DEF flat
  <2>1. Distinct(flat) \in Seq(X)
    BY <1>5, DistinctFacts DEF flat
  <2>2. all \in Seq(X)
    BY <2>1 DEF flat
  <2>. HIDE DEF all
  <2>. QED BY <2>2
<1>7. GossipOfSeeds!flatten_views(vs) = peers
  BY GossipOfSeedsDistinct, GossipOfSeedsFlatten DEF GossipOfSeeds!flatten_views, GossipOfSeeds!Lesser
<1>8. GossipOfSeeds!observe_at(p)
  BY <1>7 DEF GossipOfSeeds!publish_views
<1>. HIDE DEF all
<1>9. peers \in Seq(X)
  <2>1. m \in Nat /\ m <= Len(all)
    BY <1>6, GossipConstants
  <2>. HIDE DEF m
  <2>. QED BY <1>6, <2>1
<1>. HIDE DEF peers, seen
<1>10. /\ DOMAIN p = 1..Len(peers) /\ Len(peers) \in Nat /\ p \in Seq({p[k] : k \in DOMAIN p})
       /\ \A k \in DOMAIN p : p[k].peer \in X
  BY <1>9
<1>. HIDE DEF p
<1>11. state'.peers = p
  BY <1>8, PublishedView DEF GossipOfSeeds!observe_at, GossipOfSeeds!publish, GossipOfSeeds!Published, GossipOfSeeds!NextRevision, Published, NextRevision, IsView
<1>. QED BY <1>3, <1>10, <1>11 DEF Covered

\* Views whose lease is over go.
LEMMA GossipOfSeedsDrops ==
    ASSUME NEW vs, NEW recent, NEW both \in Int, AllSuggest(vs, SeedsOf(Seeds), recent, both), now \in Nat
    PROVE  LET kept == GossipOfSeeds!Unexpired(vs)
           IN  AllSuggest(kept, SeedsOf(Seeds), recent, both) /\ \A gs : AllTimely(kept, SeedsOf(Seeds), now, gs)
<1>. DEFINE kept == GossipOfSeeds!Unexpired(vs)
<1>1. /\ kept = [s \in SeedsOf(Seeds) |-> IF vs[s].expires > now THEN vs[s] ELSE GossipOfSeeds!NoView]
      /\ GossipOfSeeds!NoView = [endpoints |-> <<>>, expires |-> 0, at |-> 0]
  BY GossipOfSeedsFacts DEF GossipOfSeeds!Unexpired, GossipOfSeeds!NoView
<1>2. Suggests(GossipOfSeeds!NoView, recent, both) /\ GossipOfSeeds!NoView.endpoints = <<>>
  <2>1. <<>> \in Seq({})
    OBVIOUS
  <2>. QED BY <1>1, <2>1 DEF Suggests
<1>. HIDE DEF kept
<1>3. AllSuggest(kept, SeedsOf(Seeds), recent, both)
  BY <1>1, <1>2 DEF AllSuggest
<1>4. \A s \in SeedsOf(Seeds) : kept[s].endpoints # <<>> => kept[s].expires > now /\ kept[s].expires \in Int
  BY <1>1, <1>2 DEF AllSuggest, Suggests
<1>5. \A gs : AllTimely(kept, SeedsOf(Seeds), now, gs)
  BY <1>4 DEF AllTimely, Timely
<1>. QED BY <1>3, <1>5 DEF kept

\* The pass goes on: a request takes its seed into announced.
LEMMA GossipOfSeedsGoesOn ==
    ASSUME NEW w, IsBootstrapWorker(w), NEW position \in Nat, NEW requests, IsBootstrapWorld(requests),
           Requests(requests.flight, w.announced, SeedsOf(Seeds), gens), GossipOfSeeds!GoOn(w, position, requests)
    PROVE  /\ IsBootstrapWorker(worker') /\ IsBootstrapWorld(world')
           /\ worker'.views = w.views /\ w.announced \subseteq worker'.announced
           /\ Requests(world'.flight, worker'.announced, SeedsOf(Seeds), gens)
           /\ world'.cache = requests.cache /\ world'.recent = requests.recent /\ world'.missed = requests.missed
<1>. DEFINE due == {i \in (position + 1)..Len(Seeds) : GossipOfSeeds!Due(w.schedules[Seeds[i]])}
            least == CHOOSE i \in due : \A j \in due : i <= j
            request == [seed |-> Seeds[least], endpoint |-> w.announcement, live |-> TRUE]
            more == IF w.announcement = NoEndpoint THEN w.announced ELSE w.announced \cup {Seeds[least]}
<1>1. \/ worker' = [w EXCEPT !.position = 0] /\ world' = requests
      \/ /\ due # {}
         /\ worker' = [w EXCEPT !.position = least, !.announced = more]
         /\ world' = [requests EXCEPT !.flight = @ \cup {request}]
  BY DEF GossipOfSeeds!GoOn, GossipOfSeeds!Announcing
<1>2. CASE worker' = [w EXCEPT !.position = 0] /\ world' = requests
  BY <1>2 DEF IsBootstrapWorker
<1>3. CASE /\ due # {}
           /\ worker' = [w EXCEPT !.position = least, !.announced = more]
           /\ world' = [requests EXCEPT !.flight = @ \cup {request}]
  <2>1. Len(Seeds) \in Nat /\ DOMAIN Seeds = 1..Len(Seeds)
    BY GossipOfSeedsFacts
  <2>2. due \subseteq Nat /\ \A i \in due : i \in DOMAIN Seeds
    BY <2>1
  <2>. HIDE DEF due
  <2>3. least \in due
    BY <1>3, <2>2, NatMin
  <2>. HIDE DEF least
  <2>4. least \in Nat /\ Seeds[least] \in SeedsOf(Seeds)
    BY <2>2, <2>3 DEF SeedsOf
  <2>5. w.announced \subseteq more /\ (w.announcement # NoEndpoint => Seeds[least] \in more)
    OBVIOUS
  <2>. HIDE DEF more
  <2>6. /\ IsBootstrapWorker(worker') /\ worker'.views = w.views /\ worker'.announced = more
    BY <1>3, <2>4 DEF IsBootstrapWorker
  <2>7. /\ IsBootstrapWorld(world') /\ world'.flight = requests.flight \cup {request}
        /\ world'.cache = requests.cache /\ world'.recent = requests.recent /\ world'.missed = requests.missed
    BY <1>3 DEF IsBootstrapWorld
  <2>8. Requests(requests.flight \cup {request}, more, SeedsOf(Seeds), gens)
    <3>1. /\ request \in [seed : SeedsOf(Seeds), endpoint : {request.endpoint}, live : {request.live}]
          /\ request.endpoint # NoEndpoint => request.seed \in more
      BY <2>4, <2>5
    <3>. HIDE DEF request
    <3>. QED BY <2>5, <3>1 DEF Requests
  <2>. QED BY <2>5, <2>6, <2>7, <2>8
<1>. QED BY <1>1, <1>2, <1>3

LEMMA GossipOfSeedsElim ==
    ASSUME GossipOfSeedsInv
    PROVE  /\ IsBootstrapWorker(worker) /\ IsBootstrapWorld(world)
           /\ now \in Nat /\ Recents(world.recent, now) /\ world.recent \in [Others -> Int]
           /\ AllCached(world.cache, SeedsOf(Seeds), world.recent, (CandidateTtl - 1))
           /\ AllSuggest(worker.views, SeedsOf(Seeds), world.recent, (CandidateTtl - 1) + GossipOfSeedsLeast)
           /\ AllTimely(worker.views, SeedsOf(Seeds), now, gens)
           /\ Lives(gens) => Covered(state.peers, worker.views, SeedsOf(Seeds))
           /\ Requests(world.flight, worker.announced, SeedsOf(Seeds), gens)
           /\ Remembered(world.cache, SeedsOf(Seeds), worker.announced, world.missed)
           /\ gens = <<>> => world.flight = {}
           /\ gens = <<>> \/ gens[Len(gens)].phase = "done" => worker.announced = {}
BY DEF GossipOfSeedsInv, BootstrapParts, Recents

LEMMA GossipOfSeedsBegins ==
    ASSUME Init, kind = "bootstrap-seeds"
    PROVE  GossipOfSeedsInv
<1>. DEFINE seeds == SeedsOf(Seeds)
            none == [s \in seeds |-> <<>>]
            empty == [s \in seeds |-> GossipOfSeeds!NoView]
            never == [o \in Others |-> -1]
<1>1. /\ gens = <<>> /\ now = 0
      /\ worker = GossipOfSeeds!StartedAt(0)
      /\ world = [own |-> NoEndpoint, changed |-> FALSE, cache |-> none, flight |-> {},
                  recent |-> never, missed |-> {}, events |-> 0]
  BY GossipOfSeedsFacts DEF Init, GossipOfSeeds!Init, GossipOfSeeds!ProviderInit, GossipOfSeeds!NoWorker
<1>2. /\ IsBootstrapWorker(worker) /\ IsBootstrapWorld(world)
      /\ worker.views = empty /\ worker.announced = {} /\ world.cache = none /\ world.flight = {} /\ world.recent = never
  BY <1>1, GossipOfSeedsFacts DEF GossipOfSeeds!StartedAt, IsBootstrapWorker, IsBootstrapWorld
<1>3. AllCached(none, seeds, never, (CandidateTtl - 1)) /\ Remembered(none, seeds, {}, world.missed)
  <2>1. Cached(<<>>, never, (CandidateTtl - 1)) /\ ~HasSelf(<<>>)
    <3>1. <<>> \in Seq({})
      OBVIOUS
    <3>. QED BY <3>1 DEF Cached, HasSelf
  <2>. HIDE DEF seeds, never
  <2>. QED BY <2>1 DEF AllCached, Remembered
<1>4. AllSuggest(empty, seeds, never, (CandidateTtl - 1) + GossipOfSeedsLeast) /\ AllTimely(empty, seeds, 0, gens)
  <2>1. Suggests(GossipOfSeeds!NoView, never, (CandidateTtl - 1) + GossipOfSeedsLeast) /\ Timely(GossipOfSeeds!NoView, 0, gens)
    <3>1. <<>> \in Seq({})
      OBVIOUS
    <3>. QED BY <3>1 DEF Suggests, Timely, GossipOfSeeds!NoView
  <2>. HIDE DEF seeds, never
  <2>. QED BY <2>1 DEF AllSuggest, AllTimely
<1>5. Recents(never, 0)
  BY DEF Recents
<1>. HIDE DEF never, none, empty, seeds
<1>6. BootstrapParts(worker.announced, worker.views, world.cache, world.flight, world.recent, world.missed,
                     now, gens, state.peers, seeds, (CandidateTtl - 1), GossipOfSeedsLeast)
  BY <1>1, <1>2, <1>3, <1>4, <1>5 DEF BootstrapParts, Lives, Requests
<1>. QED BY <1>2, <1>6 DEF GossipOfSeedsInv, seeds

\* The steps that leave the worker and the seeds alone.
LEMMA GossipOfSeedsRests ==
    ASSUME GossipOfSeedsInv, worker' = worker, world' = world,
           \/ now' = now /\ gens' = gens /\ state' = state
           \/ now' = now /\ gens # <<>> /\ gens' # <<>> /\ gens'[Len(gens')].phase = "cleaning"
           \/ now' = now + 1 /\ gens' = gens /\ state' = state /\
              (Lives(gens) => \A s \in SeedsOf(Seeds) : worker.views[s].expires = 0 \/ worker.views[s].expires > now)
    PROVE  GossipOfSeedsInv'
<1>1. CASE now' = now /\ gens' = gens /\ state' = state
  BY <1>1, GossipOfSeedsElim, GossipOfSeedsIntro DEF BootstrapParts
<1>2. CASE now' = now /\ gens # <<>> /\ gens' # <<>> /\ gens'[Len(gens')].phase = "cleaning"
  <2>1. ~Lives(gens')
    BY <1>2 DEF Lives
  <2>2. AllTimely(worker.views, SeedsOf(Seeds), now, gens') /\ Requests(world.flight, worker.announced, SeedsOf(Seeds), gens')
    BY <2>1, GossipOfSeedsElim DEF AllTimely, Timely, Requests
  <2>. QED BY <1>2, <2>1, <2>2, GossipOfSeedsElim, GossipOfSeedsIntro DEF BootstrapParts
<1>3. CASE now' = now + 1 /\ gens' = gens /\ state' = state /\
           (Lives(gens) => \A s \in SeedsOf(Seeds) : worker.views[s].expires = 0 \/ worker.views[s].expires > now)
  <2>1. Recents(world.recent, now')
    BY <1>3, GossipOfSeedsElim DEF Recents
  <2>2. AllTimely(worker.views, SeedsOf(Seeds), now', gens)
    <3>1. \A s \in SeedsOf(Seeds) : worker.views[s].expires \in Int
      BY GossipOfSeedsElim DEF AllSuggest, Suggests
    <3>. QED BY <1>3, <3>1, GossipOfSeedsElim DEF AllTimely, Timely
  <2>. QED BY <1>3, <2>1, <2>2, GossipOfSeedsElim, GossipOfSeedsIntro DEF BootstrapParts
<1>. QED BY <1>1, <1>2, <1>3

\* A generation begins, the only one.
LEMMA GossipOfSeedsSpawns ==
    ASSUME GossipOfSeedsInv, ProviderInv, GossipOfSeeds!Discover(GossipOfSeeds!StartedAt(now)), UNCHANGED world
    PROVE  GossipOfSeedsInv'
<1>. DEFINE seeds == SeedsOf(Seeds)
            empty == [s \in seeds |-> GossipOfSeeds!NoView]
<1>1. /\ Len(gens) < 1 /\ gens' = Append(gens, [phase |-> "running", result |-> "ok", restart |-> "ok", clean |-> FALSE])
      /\ state' = [state EXCEPT !.available = TRUE] /\ worker' = GossipOfSeeds!StartedAt(now) /\ now' = now
  BY DEF GossipOfSeeds!Discover, GossipOfSeeds!spawn
<1>2. gens = <<>> /\ gens' # <<>> /\ gens'[Len(gens')].phase = "running"
  BY <1>1, InvElim
<1>3. state'.peers = <<>>
  BY <1>1, <1>2, InvElim DEF GensKept, IsView
<1>4. /\ IsBootstrapWorker(worker') /\ worker'.views = empty /\ worker'.announced = {}
  BY <1>1, GossipOfSeedsFacts DEF GossipOfSeeds!StartedAt, IsBootstrapWorker
<1>5. /\ AllSuggest(empty, seeds, world.recent, (CandidateTtl - 1) + GossipOfSeedsLeast) /\ AllTimely(empty, seeds, now, gens')
      /\ Covered(<<>>, empty, seeds)
  <2>1. <<>> \in Seq({})
    OBVIOUS
  <2>2. Suggests(GossipOfSeeds!NoView, world.recent, (CandidateTtl - 1) + GossipOfSeedsLeast) /\ Timely(GossipOfSeeds!NoView, now, gens')
    BY <2>1 DEF Suggests, Timely, GossipOfSeeds!NoView
  <2>. HIDE DEF seeds
  <2>. QED BY <2>1, <2>2 DEF AllSuggest, AllTimely, Covered
<1>6. world.flight = {} /\ Remembered(world.cache, seeds, {}, world.missed)
  BY <1>2, GossipOfSeedsElim DEF Remembered
<1>. HIDE DEF empty
<1>7. BootstrapParts(worker'.announced, worker'.views, world'.cache, world'.flight, world'.recent, world'.missed,
                     now', gens', state'.peers, seeds, (CandidateTtl - 1), GossipOfSeedsLeast)
  BY <1>1, <1>2, <1>3, <1>4, <1>5, <1>6, GossipOfSeedsElim DEF BootstrapParts, Requests
<1>. QED BY <1>4, <1>7, GossipOfSeedsElim, GossipOfSeedsIntro

LEMMA GossipOfSeedsPasses ==
    ASSUME GossipOfSeedsInv, ProviderInv, GossipOfSeeds!Pass
    PROVE  GossipOfSeedsInv'
<1>0. PICK schedules :
         GossipOfSeeds!GoOn([worker EXCEPT !.announcement = world.own, !.schedules = schedules], 0, [world EXCEPT !.changed = FALSE])
  BY DEF GossipOfSeeds!Pass
<1>. DEFINE w == [worker EXCEPT !.announcement = world.own, !.schedules = schedules]
            requests == [world EXCEPT !.changed = FALSE]
<1>1. /\ Lives(gens) /\ gens' = gens /\ state' = state /\ now' = now
      /\ GossipOfSeeds!GoOn(w, 0, requests)
  BY <1>0 DEF GossipOfSeeds!Pass, GossipOfSeeds!Alive, GossipOfSeeds!current, GossipOfSeeds!providerVars, Lives
<1>2. IsBootstrapWorker(w) /\ w.views = worker.views /\ w.announced = worker.announced
  BY GossipOfSeedsElim DEF IsBootstrapWorker
<1>3. /\ IsBootstrapWorld(requests) /\ requests.flight = world.flight /\ requests.cache = world.cache
      /\ requests.recent = world.recent /\ requests.missed = world.missed
  BY GossipOfSeedsElim DEF IsBootstrapWorld
<1>. HIDE DEF w, requests
<1>4. /\ IsBootstrapWorker(worker') /\ IsBootstrapWorld(world')
      /\ worker'.views = w.views /\ w.announced \subseteq worker'.announced
      /\ Requests(world'.flight, worker'.announced, SeedsOf(Seeds), gens)
      /\ world'.cache = requests.cache /\ world'.recent = requests.recent /\ world'.missed = requests.missed
  <2>1. Requests(requests.flight, w.announced, SeedsOf(Seeds), gens) /\ 0 \in Nat
    BY <1>2, <1>3, GossipOfSeedsElim
  <2>. QED BY <1>1, <1>2, <1>3, <2>1, GossipOfSeedsGoesOn
<1>5. Remembered(world.cache, SeedsOf(Seeds), worker'.announced, world.missed)
  BY <1>2, <1>4, GossipOfSeedsElim DEF Remembered
<1>6. gens # <<>> /\ gens[Len(gens)].phase # "done"
  BY <1>1 DEF Lives
<1>. QED BY <1>1, <1>2, <1>3, <1>4, <1>5, <1>6, GossipOfSeedsElim, GossipOfSeedsIntro DEF BootstrapParts

LEMMA GossipOfSeedsExpires ==
    ASSUME GossipOfSeedsInv, ProviderInv, GossipOfSeeds!Expire
    PROVE  GossipOfSeedsInv'
<1>. DEFINE kept == GossipOfSeeds!Unexpired(worker.views)
<1>1. /\ Lives(gens) /\ gens' = gens /\ world' = world /\ now' = now
      /\ worker' = [worker EXCEPT !.views = kept] /\ GossipOfSeeds!publish_views(kept)
  BY DEF GossipOfSeeds!Expire, GossipOfSeeds!Alive, GossipOfSeeds!current, Lives
<1>2. AllSuggest(kept, SeedsOf(Seeds), world.recent, (CandidateTtl - 1) + GossipOfSeedsLeast) /\ AllTimely(kept, SeedsOf(Seeds), now, gens)
  <2>1. (CandidateTtl - 1) + GossipOfSeedsLeast \in Int
    BY GossipOfSeedsFacts
  <2>. QED BY <2>1, GossipOfSeedsElim, GossipOfSeedsDrops
<1>. HIDE DEF kept
<1>3. Covered(state'.peers, kept, SeedsOf(Seeds))
  BY <1>1, <1>2, InvElim, GossipOfSeedsCovers
<1>4. IsBootstrapWorker(worker') /\ worker'.views = kept /\ worker'.announced = worker.announced
  BY <1>1, GossipOfSeedsElim DEF IsBootstrapWorker
<1>. QED BY <1>1, <1>2, <1>3, <1>4, GossipOfSeedsElim, GossipOfSeedsIntro DEF BootstrapParts

\* After an answer or an error.
LEMMA GossipOfSeedsContinues ==
    ASSUME GossipOfSeedsInv, ProviderInv, Lives(gens), NEW vs, NEW schedule, NEW requests,
           AllSuggest(vs, SeedsOf(Seeds), world.recent, (CandidateTtl - 1) + GossipOfSeedsLeast), IsBootstrapWorld(requests),
           requests.recent = world.recent, requests.missed = world.missed,
           Requests(requests.flight, worker.announced, SeedsOf(Seeds), gens),
           AllCached(requests.cache, SeedsOf(Seeds), world.recent, (CandidateTtl - 1)),
           Remembered(requests.cache, SeedsOf(Seeds), worker.announced, world.missed),
           GossipOfSeeds!Continue(vs, schedule, requests)
    PROVE  GossipOfSeedsInv'
<1>. DEFINE kept == GossipOfSeeds!Unexpired(vs)
            w == [worker EXCEPT !.views = kept, !.schedules[Seeds[worker.position]] = schedule]
<1>1. GossipOfSeeds!GoOn(w, worker.position, requests) /\ GossipOfSeeds!publish_views(kept) /\ gens' = gens /\ now' = now
  BY DEF GossipOfSeeds!Continue
<1>2. AllSuggest(kept, SeedsOf(Seeds), world.recent, (CandidateTtl - 1) + GossipOfSeedsLeast) /\ AllTimely(kept, SeedsOf(Seeds), now, gens)
  <2>1. (CandidateTtl - 1) + GossipOfSeedsLeast \in Int
    BY GossipOfSeedsFacts
  <2>. QED BY <2>1, GossipOfSeedsElim, GossipOfSeedsDrops
<1>. HIDE DEF kept
<1>3. Covered(state'.peers, kept, SeedsOf(Seeds))
  BY <1>1, <1>2, InvElim, GossipOfSeedsCovers
<1>4. IsBootstrapWorker(w) /\ w.views = kept /\ w.announced = worker.announced /\ worker.position \in Nat
  BY GossipOfSeedsElim DEF IsBootstrapWorker
<1>. HIDE DEF w
<1>5. /\ IsBootstrapWorker(worker') /\ IsBootstrapWorld(world')
      /\ worker'.views = w.views /\ w.announced \subseteq worker'.announced
      /\ Requests(world'.flight, worker'.announced, SeedsOf(Seeds), gens)
      /\ world'.cache = requests.cache /\ world'.recent = requests.recent /\ world'.missed = requests.missed
  <2>1. Requests(requests.flight, w.announced, SeedsOf(Seeds), gens)
    BY <1>4
  <2>. QED BY <1>1, <1>4, <2>1, GossipOfSeedsGoesOn
<1>6. Remembered(requests.cache, SeedsOf(Seeds), worker'.announced, world.missed)
  BY <1>4, <1>5 DEF Remembered
<1>7. gens # <<>> /\ gens[Len(gens)].phase # "done"
  BY DEF Lives
<1>. QED BY <1>1, <1>2, <1>3, <1>4, <1>5, <1>6, <1>7, GossipOfSeedsElim, GossipOfSeedsIntro DEF BootstrapParts

\* A request of this node that a seed handles.
LEMMA GossipOfSeedsHandles ==
    ASSUME GossipOfSeedsInv, NEW r \in world.flight, NEW missed, world.missed \subseteq missed,
           Lives(gens) \/ r.seed \in missed
    PROVE  LET c == GossipOfSeeds!exchange(world.cache[r.seed], Self, r.endpoint, now)
           IN  /\ r.seed \in SeedsOf(Seeds) /\ Cached(c, world.recent, (CandidateTtl - 1)) /\ AllFresh(c, now)
               /\ AllCached([world.cache EXCEPT ![r.seed] = c], SeedsOf(Seeds), world.recent, (CandidateTtl - 1))
               /\ Remembered([world.cache EXCEPT ![r.seed] = c], SeedsOf(Seeds), worker.announced, missed)
<1>. DEFINE c == GossipOfSeeds!exchange(world.cache[r.seed], Self, r.endpoint, now)
            recent == world.recent
<1>1. r.seed \in SeedsOf(Seeds) /\ (Lives(gens) /\ r.endpoint # NoEndpoint => r.seed \in worker.announced)
  BY GossipOfSeedsElim DEF Requests
<1>2. Cached(world.cache[r.seed], recent, (CandidateTtl - 1)) /\ NotBefore(recent, recent) /\ recent \in [Others -> Int] /\ now \in Int
  BY <1>1, GossipOfSeedsElim DEF AllCached, NotBefore
<1>3. /\ Cached(c, recent, (CandidateTtl - 1)) /\ AllFresh(c, now)
      /\ HasSelf(c) => HasSelf(world.cache[r.seed]) \/ r.endpoint # NoEndpoint
  <2>1. Self \in Others \cup {Self} /\ Self \notin Others
    BY GossipConstants
  <2>. QED BY <1>2, <2>1, GossipOfSeedsExchanges
<1>. HIDE DEF c
<1>4. AllCached([world.cache EXCEPT ![r.seed] = c], SeedsOf(Seeds), recent, (CandidateTtl - 1))
  BY <1>1, <1>3, GossipOfSeedsElim, OneCached
<1>5. Remembered([world.cache EXCEPT ![r.seed] = c], SeedsOf(Seeds), worker.announced, missed)
  <2>1. HasSelf(c) => HasSelf(world.cache[r.seed]) \/ r.seed \in worker.announced \cup missed
    BY <1>1, <1>3
  <2>2. world.cache = [s \in SeedsOf(Seeds) |-> world.cache[s]]
    BY GossipOfSeedsElim DEF AllCached
  <2>. QED BY <1>1, <2>1, <2>2, GossipOfSeedsElim, OneRemembered
<1>. QED BY <1>1, <1>3, <1>4, <1>5 DEF c

LEMMA GossipOfSeedsAnswers ==
    ASSUME GossipOfSeedsInv, ProviderInv, NEW r \in world.flight, GossipOfSeeds!Answered(r)
    PROVE  GossipOfSeedsInv'
<1>. DEFINE s == r.seed
            c == GossipOfSeeds!exchange(world.cache[s], Self, r.endpoint, now)
            learned == GossipOfSeeds!Distinct(<<s>> \o GossipOfSeeds!reply(c, Self, <<s>>, MaxCandidates))
            m == IF Len(learned) < MaxCandidates THEN Len(learned) ELSE MaxCandidates
            view == [endpoints |-> SubSeq(learned, 1, m), at |-> now, expires |-> now + GossipOfSeedsLeast]
            vs == [worker.views EXCEPT ![s] = view]
            schedule == [worker.schedules[s] EXCEPT !.next = now + Later, !.delay = Soon]
            requests == [world EXCEPT !.cache[s] = c, !.flight = @ \ {r}]
<1>1. Lives(gens) /\ GossipOfSeeds!Continue(vs, schedule, requests)
  BY GossipOfSeedsFacts DEF GossipOfSeeds!Answered, GossipOfSeeds!Alive, GossipOfSeeds!current, Lives, GossipOfSeeds!Lesser
<1>2. /\ s \in SeedsOf(Seeds) /\ Cached(c, world.recent, (CandidateTtl - 1)) /\ AllFresh(c, now)
      /\ AllCached([world.cache EXCEPT ![s] = c], SeedsOf(Seeds), world.recent, (CandidateTtl - 1))
      /\ Remembered([world.cache EXCEPT ![s] = c], SeedsOf(Seeds), worker.announced, world.missed)
  BY <1>1, GossipOfSeedsHandles
<1>. HIDE DEF c
<1>3. /\ \E S : learned \in Seq(S)
      /\ \A k \in DOMAIN learned : learned[k] \in Others => now < world.recent[learned[k]] + (CandidateTtl - 1)
  <2>1. s \notin Others /\ now \in Int
    BY <1>2, GossipOfSeedsFacts, GossipOfSeedsElim
  <2>. QED BY <1>2, <2>1, GossipOfSeedsElim, GossipOfSeedsLearns
<1>. HIDE DEF learned
<1>4. Suggests(view, world.recent, (CandidateTtl - 1) + GossipOfSeedsLeast)
  <2>1. PICK S : learned \in Seq(S)
    BY <1>3
  <2>2. Len(learned) \in Nat /\ m \in Nat /\ m <= Len(learned) /\ m <= MaxCandidates
    BY <2>1, GossipConstants
  <2>. HIDE DEF m
  <2>. DEFINE e == SubSeq(learned, 1, m)
  <2>3. e \in Seq(S) /\ \A j \in DOMAIN e : j \in DOMAIN learned /\ e[j] = learned[j]
    BY <2>1, <2>2
  <2>. HIDE DEF e
  <2>4. \A j \in DOMAIN e : e[j] \in Others => now + GossipOfSeedsLeast < world.recent[e[j]] + ((CandidateTtl - 1) + GossipOfSeedsLeast)
    <3>. SUFFICES ASSUME NEW j \in DOMAIN e, e[j] \in Others
                  PROVE  now + GossipOfSeedsLeast < world.recent[e[j]] + ((CandidateTtl - 1) + GossipOfSeedsLeast)
      OBVIOUS
    <3>1. now < world.recent[e[j]] + (CandidateTtl - 1)
      BY <1>3, <2>3
    <3>2. now \in Int /\ world.recent[e[j]] \in Int /\ (CandidateTtl - 1) \in Int /\ GossipOfSeedsLeast \in Int
      BY GossipOfSeedsElim, GossipOfSeedsFacts
    <3>. QED BY <3>1, <3>2
  <2>5. now + GossipOfSeedsLeast \in Int
    BY GossipOfSeedsElim, GossipOfSeedsFacts
  <2>6. view = [endpoints |-> e, at |-> now, expires |-> now + GossipOfSeedsLeast]
    BY DEF e
  <2>. HIDE DEF view
  <2>. QED BY <2>3, <2>4, <2>5, <2>6 DEF Suggests
<1>. HIDE DEF view
<1>5. AllSuggest(vs, SeedsOf(Seeds), world.recent, (CandidateTtl - 1) + GossipOfSeedsLeast)
  BY <1>2, <1>4, GossipOfSeedsElim DEF AllSuggest
<1>6. /\ IsBootstrapWorld(requests) /\ requests.recent = world.recent /\ requests.missed = world.missed
      /\ requests.cache = [world.cache EXCEPT ![s] = c] /\ requests.flight = world.flight \ {r}
  BY GossipOfSeedsElim DEF IsBootstrapWorld
<1>7. Requests(requests.flight, worker.announced, SeedsOf(Seeds), gens)
  BY <1>6, GossipOfSeedsElim, FewerRequests
<1>. HIDE DEF requests, schedule, vs, s
<1>. QED BY <1>1, <1>2, <1>5, <1>6, <1>7, GossipOfSeedsContinues

LEMMA GossipOfSeedsFails ==
    ASSUME GossipOfSeedsInv, ProviderInv, NEW r \in world.flight, NEW error, GossipOfSeeds!QueryFails(r, error)
    PROVE  GossipOfSeedsInv'
<1>. DEFINE s == r.seed
            rest == [world EXCEPT !.flight = @ \ {r}, !.events = @ + 1]
            late == [r EXCEPT !.live = FALSE]
            c == GossipOfSeeds!exchange(rest.cache[s], Self, r.endpoint, now)
            schedule == GossipOfSeeds!failed(worker.schedules[s], error)
<1>1. /\ Lives(gens)
      /\ \E requests \in {rest, [rest EXCEPT !.cache[s] = c], [rest EXCEPT !.flight = {late}]} :
            GossipOfSeeds!Continue(worker.views, schedule, requests)
  BY DEF GossipOfSeeds!QueryFails, GossipOfSeeds!Alive, GossipOfSeeds!current, Lives
<1>2. PICK requests \in {rest, [rest EXCEPT !.cache[s] = c], [rest EXCEPT !.flight = {late}]} :
            GossipOfSeeds!Continue(worker.views, schedule, requests)
  BY <1>1
<1>3. /\ IsBootstrapWorld(rest) /\ rest.recent = world.recent /\ rest.missed = world.missed
      /\ rest.cache = world.cache /\ rest.flight = world.flight \ {r}
  BY GossipOfSeedsElim DEF IsBootstrapWorld
<1>. HIDE DEF rest
<1>4. /\ AllCached([world.cache EXCEPT ![s] = c], SeedsOf(Seeds), world.recent, (CandidateTtl - 1))
      /\ Remembered([world.cache EXCEPT ![s] = c], SeedsOf(Seeds), worker.announced, world.missed)
  BY <1>1, <1>3, GossipOfSeedsHandles
<1>. HIDE DEF c
<1>5. /\ late \in [seed : SeedsOf(Seeds), endpoint : {late.endpoint}, live : {late.live}]
      /\ late.endpoint = r.endpoint /\ late.seed = r.seed
  BY GossipOfSeedsElim DEF Requests
<1>6. Requests({late}, worker.announced, SeedsOf(Seeds), gens)
  <2>1. Lives(gens) /\ r.endpoint # NoEndpoint => r.seed \in worker.announced
    BY GossipOfSeedsElim DEF Requests
  <2>. HIDE DEF late
  <2>. QED BY <1>5, <2>1 DEF Requests
<1>. HIDE DEF late
<1>7. /\ IsBootstrapWorld(requests) /\ requests.recent = world.recent /\ requests.missed = world.missed
      /\ requests.cache \in {world.cache, [world.cache EXCEPT ![s] = c]}
      /\ requests.flight \in {world.flight \ {r}, {late}}
  BY <1>3 DEF IsBootstrapWorld
<1>8. Requests(world.flight \ {r}, worker.announced, SeedsOf(Seeds), gens)
  BY GossipOfSeedsElim, FewerRequests
<1>9. Requests(requests.flight, worker.announced, SeedsOf(Seeds), gens)
  BY <1>6, <1>7, <1>8
<1>10. /\ AllCached(requests.cache, SeedsOf(Seeds), world.recent, (CandidateTtl - 1))
       /\ Remembered(requests.cache, SeedsOf(Seeds), worker.announced, world.missed)
  BY <1>4, <1>7, GossipOfSeedsElim
<1>. HIDE DEF schedule, s
<1>. QED BY <1>1, <1>2, <1>7, <1>9, <1>10, GossipOfSeedsElim, GossipOfSeedsContinues

LEMMA GossipOfSeedsWorkerEnds ==
    ASSUME GossipOfSeedsInv, ProviderInv, GossipOfSeeds!WorkerEnds
    PROVE  GossipOfSeedsInv'
<1>. DEFINE late == {[r EXCEPT !.live = FALSE] : r \in world.flight}
<1>1. /\ gens # <<>> /\ now' = now /\ worker' = [worker EXCEPT !.position = 0] /\ world' = [world EXCEPT !.flight = late]
      /\ \E result : gens' = [gens EXCEPT ![Len(gens)].phase = "joined", ![Len(gens)].result = result]
  BY DEF GossipOfSeeds!WorkerEnds, GossipOfSeeds!WorkerReturns, GossipOfSeeds!Alive
<1>2. gens' # <<>> /\ Len(gens') = Len(gens) /\ gens'[Len(gens)].phase = "joined"
  <2>1. PICK result : gens' = [gens EXCEPT ![Len(gens)].phase = "joined", ![Len(gens)].result = result]
    BY <1>1
  <2>. QED BY <1>1, <2>1, LastJoins
<1>3. ~Lives(gens') /\ gens' # <<>> /\ gens'[Len(gens')].phase # "done"
  BY <1>2 DEF Lives
<1>4. Requests(late, worker.announced, SeedsOf(Seeds), gens')
  <2>. SUFFICES ASSUME NEW r \in world.flight
                PROVE  LET l == [r EXCEPT !.live = FALSE]
                       IN  l \in [seed : SeedsOf(Seeds), endpoint : {l.endpoint}, live : {l.live}]
    BY <1>3 DEF Requests
  <2>. QED BY GossipOfSeedsElim DEF Requests
<1>. HIDE DEF late
<1>5. /\ IsBootstrapWorker(worker') /\ worker'.views = worker.views /\ worker'.announced = worker.announced
  BY <1>1, GossipOfSeedsElim DEF IsBootstrapWorker
<1>6. /\ IsBootstrapWorld(world') /\ world'.flight = late /\ world'.cache = world.cache
      /\ world'.recent = world.recent /\ world'.missed = world.missed
  BY <1>1, GossipOfSeedsElim DEF IsBootstrapWorld
<1>7. AllTimely(worker.views, SeedsOf(Seeds), now, gens')
  BY <1>3, GossipOfSeedsElim DEF AllTimely, Timely
<1>. QED BY <1>1, <1>3, <1>4, <1>5, <1>6, <1>7, GossipOfSeedsElim, GossipOfSeedsIntro DEF BootstrapParts

LEMMA GossipOfSeedsCleans ==
    ASSUME GossipOfSeedsInv, ProviderInv, NEW g \in DOMAIN gens, GossipOfSeeds!Cleanup(g)
    PROVE  GossipOfSeedsInv'
<1>. DEFINE seeds == SeedsOf(Seeds)
            empty == [s \in seeds |-> GossipOfSeeds!NoView]
            recent == world.recent
<1>1. PICK told \in SUBSET worker.announced :
          world' = [world EXCEPT
             !.cache = [s \in GossipOfSeeds!SeedSet |-> IF s \in told THEN GossipOfSeeds!exchange(@[s], Self, NoEndpoint, now) ELSE @[s]],
             !.missed = @ \cup (worker.announced \ told),
             !.own = IF stopped THEN NoEndpoint ELSE @]
  BY DEF GossipOfSeeds!Cleanup
<1>. DEFINE cache == [s \in seeds |-> IF s \in told THEN GossipOfSeeds!exchange(world.cache[s], Self, NoEndpoint, now)
                                      ELSE world.cache[s]]
            missed == world.missed \cup (worker.announced \ told)
<1>2. /\ gens[g].phase = "cleaning" /\ now' = now /\ worker' = GossipOfSeeds!StartedAt(0)
      /\ gens' = [gens EXCEPT ![g].phase = "done", ![g].clean = TRUE,
                              ![g].restart = IF ~TRUE \/ gens[g].result = "fatal" THEN "fatal" ELSE "ok"]
  BY DEF GossipOfSeeds!Cleanup, GossipOfSeeds!Complete, GossipOfSeeds!NoWorker
<1>3. gens' # <<>> /\ gens'[Len(gens')].phase = "done"
  <2>1. g = Len(gens) /\ gens # <<>> /\ gens[g] \in Generation
    BY <1>2, OnlyTheLast
  <2>. DEFINE last == [gens[Len(gens)] EXCEPT !.phase = "done", !.clean = TRUE,
                              !.restart = IF ~TRUE \/ gens[g].result = "fatal" THEN "fatal" ELSE "ok"]
  <2>2. gens' = [gens EXCEPT ![Len(gens)] = last]
    BY <1>2, <2>1, LastGens
  <2>3. last.phase = "done"
    BY <2>1 DEF Generation
  <2>. HIDE DEF last
  <2>4. gens' # <<>> /\ Len(gens') = Len(gens) /\ gens'[Len(gens)] = last
    <3>1. gens \in Seq(Generation \cup {last}) /\ last \in Generation \cup {last}
      BY <2>1, LastGens
    <3>. QED BY <2>1, <2>2, <3>1, LastReplaced
  <2>. QED BY <2>3, <2>4
<1>4. ~Lives(gens')
  BY <1>3 DEF Lives
<1>5. /\ IsBootstrapWorker(worker') /\ worker'.views = empty /\ worker'.announced = {}
  BY <1>2, GossipOfSeedsFacts DEF GossipOfSeeds!StartedAt, IsBootstrapWorker
<1>6. /\ IsBootstrapWorld(world') /\ world'.cache = cache /\ world'.missed = missed
      /\ world'.flight = world.flight /\ world'.recent = recent
  BY <1>1, GossipOfSeedsElim, GossipOfSeedsFacts DEF IsBootstrapWorld
<1>7. \A s \in seeds : /\ Cached(cache[s], recent, (CandidateTtl - 1))
                       /\ HasSelf(cache[s]) => s \in missed
  <2>. SUFFICES ASSUME NEW s \in seeds PROVE Cached(cache[s], recent, (CandidateTtl - 1)) /\ (HasSelf(cache[s]) => s \in missed)
    OBVIOUS
  <2>1. /\ Cached(world.cache[s], recent, (CandidateTtl - 1)) /\ NotBefore(recent, recent) /\ recent \in [Others -> Int] /\ now \in Int
        /\ HasSelf(world.cache[s]) => s \in worker.announced \cup world.missed
    BY GossipOfSeedsElim DEF AllCached, NotBefore, Remembered
  <2>2. CASE s \in told
    <3>1. Self \in Others \cup {Self} /\ Self \notin Others
      BY GossipConstants
    <3>. DEFINE c == GossipOfSeeds!exchange(world.cache[s], Self, NoEndpoint, now)
    <3>2. Cached(c, recent, (CandidateTtl - 1)) /\ ~HasSelf(c)
      BY <2>1, <3>1, GossipOfSeedsExchanges
    <3>. QED BY <2>2, <3>2
  <2>3. CASE s \notin told
    BY <2>1, <2>3
  <2>. QED BY <2>2, <2>3
<1>8. AllCached(cache, seeds, recent, (CandidateTtl - 1))
  <2>1. cache = [s \in seeds |-> cache[s]]
    OBVIOUS
  <2>. HIDE DEF cache, missed
  <2>. QED BY <1>7, <2>1 DEF AllCached
<1>. HIDE DEF cache, missed
<1>9. Remembered(cache, seeds, {}, missed)
  BY <1>7 DEF Remembered
<1>10. AllSuggest(empty, seeds, recent, (CandidateTtl - 1) + GossipOfSeedsLeast) /\ AllTimely(empty, seeds, now, gens')
  <2>1. <<>> \in Seq({})
    OBVIOUS
  <2>2. Suggests(GossipOfSeeds!NoView, recent, (CandidateTtl - 1) + GossipOfSeedsLeast) /\ Timely(GossipOfSeeds!NoView, now, gens')
    BY <2>1 DEF Suggests, Timely, GossipOfSeeds!NoView
  <2>. HIDE DEF seeds
  <2>. QED BY <2>2 DEF AllSuggest, AllTimely
<1>11. Requests(world.flight, {}, seeds, gens')
  BY <1>4, GossipOfSeedsElim DEF Requests
<1>. HIDE DEF empty
<1>12. BootstrapParts(worker'.announced, worker'.views, world'.cache, world'.flight, world'.recent, world'.missed,
                      now', gens', state'.peers, seeds, (CandidateTtl - 1), GossipOfSeedsLeast)
  BY <1>2, <1>3, <1>4, <1>5, <1>6, <1>8, <1>9, <1>10, <1>11, GossipOfSeedsElim DEF BootstrapParts
<1>. QED BY <1>5, <1>6, <1>12, GossipOfSeedsIntro

\* Callers and other nodes.
LEMMA GossipOfSeedsCalled ==
    ASSUME GossipOfSeedsInv, ProviderInv,
           \/ GossipOfSeeds!announce
           \/ \E r \in world.flight : GossipOfSeeds!LateRequest(r)
           \/ \E s \in GossipOfSeeds!SeedSet, o \in Others : GossipOfSeeds!OtherRequest(s, o, o) \/ GossipOfSeeds!OtherRequest(s, o, NoEndpoint)
    PROVE  GossipOfSeedsInv'
<1>1. CASE GossipOfSeeds!announce
  <2>1. /\ gens' = gens /\ state' = state /\ now' = now /\ worker' = worker
        /\ world' = [world EXCEPT !.own = OwnEndpoint, !.changed = TRUE]
    BY <1>1 DEF GossipOfSeeds!announce, GossipOfSeeds!providerVars
  <2>2. /\ IsBootstrapWorld(world') /\ world'.flight = world.flight /\ world'.cache = world.cache
        /\ world'.recent = world.recent /\ world'.missed = world.missed
    BY <2>1, GossipOfSeedsElim DEF IsBootstrapWorld
  <2>. QED BY <2>1, <2>2, GossipOfSeedsElim, GossipOfSeedsIntro DEF BootstrapParts
<1>2. ASSUME NEW r \in world.flight, GossipOfSeeds!LateRequest(r) PROVE GossipOfSeedsInv'
  <2>. DEFINE c == GossipOfSeeds!exchange(world.cache[r.seed], Self, r.endpoint, now)
              missed == IF Lives(gens) THEN world.missed ELSE world.missed \cup {r.seed}
  <2>1. /\ gens' = gens /\ state' = state /\ now' = now /\ worker' = worker
        /\ world' = [world EXCEPT !.flight = @ \ {r}, !.cache[r.seed] = c, !.missed = missed]
    BY <1>2 DEF GossipOfSeeds!LateRequest, GossipOfSeeds!providerVars, GossipOfSeeds!Alive, GossipOfSeeds!current, Lives
  <2>2. world.missed \subseteq missed /\ (Lives(gens) \/ r.seed \in missed)
    OBVIOUS
  <2>. HIDE DEF missed
  <2>3. /\ AllCached([world.cache EXCEPT ![r.seed] = c], SeedsOf(Seeds), world.recent, (CandidateTtl - 1))
        /\ Remembered([world.cache EXCEPT ![r.seed] = c], SeedsOf(Seeds), worker.announced, missed)
    BY <2>2, GossipOfSeedsHandles
  <2>. HIDE DEF c
  <2>4. /\ IsBootstrapWorld(world') /\ world'.flight = world.flight \ {r} /\ world'.cache = [world.cache EXCEPT ![r.seed] = c]
        /\ world'.recent = world.recent /\ world'.missed = missed
    BY <2>1, GossipOfSeedsElim DEF IsBootstrapWorld
  <2>5. Requests(world.flight \ {r}, worker.announced, SeedsOf(Seeds), gens)
    BY GossipOfSeedsElim, FewerRequests
  <2>. QED BY <2>1, <2>3, <2>4, <2>5, GossipOfSeedsElim, GossipOfSeedsIntro DEF BootstrapParts
<1>3. ASSUME NEW s \in GossipOfSeeds!SeedSet, NEW o \in Others, NEW endpoint \in {o, NoEndpoint}, GossipOfSeeds!OtherRequest(s, o, endpoint)
      PROVE  GossipOfSeedsInv'
  <2>. DEFINE recent == [world.recent EXCEPT ![o] = IF endpoint = NoEndpoint THEN @ ELSE now]
              c == GossipOfSeeds!exchange(world.cache[s], o, endpoint, now)
  <2>1. /\ gens' = gens /\ state' = state /\ now' = now /\ worker' = worker
        /\ world' = [world EXCEPT !.cache[s] = c, !.events = @ + 1, !.recent = recent]
    BY <1>3 DEF GossipOfSeeds!OtherRequest, GossipOfSeeds!providerVars
  <2>2. /\ recent \in [Others -> Int] /\ Recents(recent, now) /\ NotBefore(world.recent, recent)
        /\ endpoint # NoEndpoint => recent[o] = now
    BY GossipOfSeedsElim DEF Recents, NotBefore
  <2>. HIDE DEF recent
  <2>3. s \in SeedsOf(Seeds) /\ Cached(world.cache[s], world.recent, (CandidateTtl - 1)) /\ o # Self
    BY GossipOfSeedsFacts, GossipOfSeedsElim, GossipConstants DEF AllCached
  <2>4. Cached(c, recent, (CandidateTtl - 1)) /\ (HasSelf(c) => HasSelf(world.cache[s]))
    BY <1>3, <2>2, <2>3, GossipOfSeedsElim, GossipOfSeedsExchanges
  <2>. HIDE DEF c
  <2>5. AllCached([world.cache EXCEPT ![s] = c], SeedsOf(Seeds), recent, (CandidateTtl - 1))
    <3>1. AllCached(world.cache, SeedsOf(Seeds), recent, (CandidateTtl - 1))
      BY <2>2, GossipOfSeedsElim, GossipOfSeedsFacts, AllCachedLater
    <3>. QED BY <2>3, <2>4, <3>1, OneCached
  <2>6. Remembered([world.cache EXCEPT ![s] = c], SeedsOf(Seeds), worker.announced, world.missed)
    <3>1. world.cache = [t \in SeedsOf(Seeds) |-> world.cache[t]]
      BY GossipOfSeedsElim DEF AllCached
    <3>. QED BY <2>3, <2>4, <3>1, GossipOfSeedsElim, OneRemembered
  <2>7. AllSuggest(worker.views, SeedsOf(Seeds), recent, (CandidateTtl - 1) + GossipOfSeedsLeast)
    <3>1. (CandidateTtl - 1) + GossipOfSeedsLeast \in Int
      BY GossipOfSeedsFacts
    <3>. QED BY <2>2, <3>1, GossipOfSeedsElim, SuggestsLater
  <2>8. /\ IsBootstrapWorld(world') /\ world'.flight = world.flight /\ world'.cache = [world.cache EXCEPT ![s] = c]
        /\ world'.recent = recent /\ world'.missed = world.missed
    BY <2>1, GossipOfSeedsElim DEF IsBootstrapWorld
  <2>. QED BY <2>1, <2>2, <2>5, <2>6, <2>7, <2>8, GossipOfSeedsElim, GossipOfSeedsIntro DEF BootstrapParts
<1>. QED BY <1>1, <1>2, <1>3

LEMMA GossipOfSeedsKeeps ==
    ASSUME GossipOfSeedsInv, ProviderInv, ProviderInv', kind = "bootstrap-seeds", GossipOfSeeds!Next
    PROVE  GossipOfSeedsInv'
<1>1. CASE GossipOfSeeds!ProviderNext
  <2>1. PICK g \in DOMAIN gens : GossipOfSeeds!Finish(g)
    BY <1>1 DEF GossipOfSeeds!ProviderNext
  <2>2. /\ gens[g].phase = "joined" /\ gens' = [gens EXCEPT ![g].phase = "cleaning"]
        /\ worker' = worker /\ world' = world /\ now' = now
    BY <2>1 DEF GossipOfSeeds!Finish
  <2>3. g = Len(gens) /\ gens # <<>>
    BY <2>2, OnlyTheLast
  <2>4. Len(gens') = Len(gens) /\ gens' # <<>> /\ gens'[Len(gens)].phase = "cleaning"
    BY <2>2, <2>3, LastGens DEF Generation
  <2>. QED BY <2>2, <2>3, <2>4, GossipOfSeedsRests
<1>2. CASE GossipOfSeeds!RequestShutdown /\ UNCHANGED world
  <2>1. worker' = worker /\ world' = world /\ now' = now /\ gens' = gens /\ state' = state
    BY <1>2 DEF GossipOfSeeds!RequestShutdown
  <2>. QED BY <2>1, GossipOfSeedsRests
<1>3. CASE GossipOfSeeds!Discover(GossipOfSeeds!StartedAt(now)) /\ UNCHANGED world
  BY <1>3, GossipOfSeedsSpawns
<1>4. CASE GossipOfSeeds!Tick
  <2>1. /\ worker' = worker /\ world' = world /\ now' = now + 1 /\ gens' = gens /\ state' = state
        /\ Lives(gens) => \A s \in SeedsOf(Seeds) : worker.views[s].expires = 0 \/ worker.views[s].expires > now
    BY <1>4, GossipOfSeedsFacts DEF GossipOfSeeds!Tick, GossipOfSeeds!providerVars, GossipOfSeeds!Alive, GossipOfSeeds!current, Lives
  <2>. QED BY <2>1, GossipOfSeedsRests
<1>5. CASE \E r \in world.flight :
          \/ GossipOfSeeds!Answered(r)
          \/ \E error \in {"transient", "retry_after", "fatal"} : GossipOfSeeds!QueryFails(r, error)
  BY <1>5, GossipOfSeedsAnswers, GossipOfSeedsFails
<1>6. CASE \/ GossipOfSeeds!announce
           \/ \E r \in world.flight : GossipOfSeeds!LateRequest(r)
           \/ \E s \in GossipOfSeeds!SeedSet, o \in Others : GossipOfSeeds!OtherRequest(s, o, o) \/ GossipOfSeeds!OtherRequest(s, o, NoEndpoint)
  BY <1>6, GossipOfSeedsCalled
<1>7. CASE GossipOfSeeds!Pass \/ GossipOfSeeds!Expire \/ GossipOfSeeds!WorkerEnds \/ \E g \in DOMAIN gens : GossipOfSeeds!Cleanup(g)
  BY <1>7, GossipOfSeedsPasses, GossipOfSeedsExpires, GossipOfSeedsWorkerEnds, GossipOfSeedsCleans
<1>. QED BY <1>1, <1>2, <1>3, <1>4, <1>5, <1>6, <1>7 DEF GossipOfSeeds!Next

LEMMA GossipOfSeedsImplies ==
    ASSUME GossipOfSeedsInv
    PROVE  GossipOfSeeds!AnnouncementInv
<1>1. GossipOfSeeds!SuggestionIsRecent
  <2>. SUFFICES ASSUME NEW o \in Others, Lives(gens), GossipOfSeeds!Contains(GossipOfSeeds!names(state.peers), o)
                PROVE  now - world.recent[o] < (CandidateTtl - 1) + GossipOfSeedsLeast
    BY GossipOfSeedsFacts DEF GossipOfSeeds!SuggestionIsRecent, GossipOfSeeds!Alive, GossipOfSeeds!current, Lives
  <2>1. PICK S : state.peers \in Seq(S)
    BY GossipOfSeedsElim DEF Covered
  <2>2. PICK k \in DOMAIN state.peers : state.peers[k].peer = o
    <3>1. GossipOfSeeds!names(state.peers) = [i \in 1..Len(state.peers) |-> state.peers[i].peer] /\ Len(state.peers) \in Nat
      BY <2>1 DEF GossipOfSeeds!names
    <3>2. Len(GossipOfSeeds!names(state.peers)) = Len(state.peers)
      BY <3>1
    <3>. QED BY <2>1, <3>1, <3>2 DEF GossipOfSeeds!Contains
  <2>3. PICK s \in SeedsOf(Seeds) : \E j \in DOMAIN worker.views[s].endpoints : worker.views[s].endpoints[j] = o
    BY <2>2, GossipOfSeedsElim DEF Covered
  <2>4. PICK j \in DOMAIN worker.views[s].endpoints : worker.views[s].endpoints[j] = o
    BY <2>3
  <2>5. worker.views[s].expires \in Int /\ worker.views[s].expires < world.recent[o] + ((CandidateTtl - 1) + GossipOfSeedsLeast)
    BY <2>4, GossipOfSeedsElim DEF AllSuggest, Suggests
  <2>6. worker.views[s].endpoints # <<>>
    BY <2>4
  <2>7. now <= worker.views[s].expires
    BY <2>6, GossipOfSeedsElim DEF AllTimely, Timely
  <2>8. now \in Int /\ world.recent[o] \in Int /\ (CandidateTtl - 1) \in Int /\ GossipOfSeedsLeast \in Int
    BY GossipOfSeedsElim, GossipOfSeedsFacts
  <2>. QED BY <2>5, <2>7, <2>8
<1>2. GossipOfSeeds!WithdrawnAfterCleanup
  <2>. SUFFICES ASSUME gens # <<>>, gens[Len(gens)].phase = "done", NEW s \in SeedsOf(Seeds) \ world.missed
                PROVE  GossipOfSeeds!Without(world.cache[s], Self) = world.cache[s]
    BY GossipOfSeedsFacts DEF GossipOfSeeds!WithdrawnAfterCleanup, GossipOfSeeds!current
  <2>. DEFINE c == world.cache[s]
              K == {i \in DOMAIN c : c[i].node # Self}
  <2>1. ~HasSelf(c) /\ \E C : c \in Seq(C)
    BY GossipOfSeedsElim DEF Remembered, AllCached, Cached
  <2>2. GossipOfSeeds!Without(c, Self) = At(c, K)
    BY GossipOfSeedsAt DEF GossipOfSeeds!Without
  <2>3. K = DOMAIN c
    BY <2>1 DEF HasSelf
  <2>. HIDE DEF K, c
  <2>4. At(c, DOMAIN c) = c
    BY <2>1, AtAll
  <2>. QED BY <2>2, <2>3, <2>4 DEF c
<1>. QED BY <1>1, <1>2 DEF GossipOfSeeds!AnnouncementInv

LEMMA GossipOfSeedsInvHolds == Spec => [](kind = "bootstrap-seeds" => GossipOfSeedsInv)
<1>. DEFINE Inv == kind = "bootstrap-seeds" => GossipOfSeedsInv
<1>1. Init => Inv
  BY GossipOfSeedsBegins
<1>2. Inv /\ ProviderInv /\ ProviderInv' /\ [Next]_allVars => Inv'
  <2>. SUFFICES ASSUME kind = "bootstrap-seeds" => GossipOfSeedsInv, ProviderInv, ProviderInv', [Next]_allVars, kind' = "bootstrap-seeds" PROVE GossipOfSeedsInv'
    BY DEF Inv
  <2>1. kind = "bootstrap-seeds" /\ GossipOfSeedsInv
    BY DEF Next, allVars
  <2>2. CASE Next
    <3>1. GossipOfSeeds!Next
      BY <2>1, <2>2 DEF Next
    <3>. QED BY <2>1, <3>1, GossipOfSeedsKeeps
  <2>3. CASE UNCHANGED allVars
    <3>1. gens' = gens /\ state' = state /\ now' = now /\ worker' = worker /\ world' = world
      BY <2>3 DEF allVars, vars, providerVars
    <3>. QED BY <2>1, <3>1, GossipOfSeedsRests
  <2>. QED BY <2>2, <2>3
<1>. QED BY <1>1, <1>2, ProviderInvHolds, PTL DEF Spec

\* What the bootstrap provider lists was announced within the two leases it passes
\* through, the seed's and the provider's; after the cleanup only a seed that could
\* not be told, or was reached too late, still offers this node: for any number of
\* seeds, nodes and events (run_bootstrap, BootstrapCleanup, BootstrapServer::exchange).
THEOREM EveryAnnouncementIsRecent == Spec => []AnnouncementInv
<1>1. (kind = "bootstrap" => GossipInv) /\ (kind = "bootstrap-seeds" => GossipOfSeedsInv)
        => AnnouncementInv
  BY GossipImplies, GossipOfSeedsImplies DEF AnnouncementInv
<1>. QED BY <1>1, GossipInvHolds, GossipOfSeedsInvHolds, PTL
=============================================================================
