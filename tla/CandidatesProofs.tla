-------------------------- MODULE CandidatesProofs --------------------------
(***************************************************************************)
(* Theorems about the discovery coordinator.  The registry's operations    *)
(* are described by what they do to contributions and to the merged order; *)
(* a path of name sets through the queued commands leads from what a       *)
(* source contributes to what it shows, whatever is under way.             *)
(***************************************************************************)
EXTENDS BootstrapProofs

-----------------------------------------------------------------------------
(* The coordinator's registry. *)

SourceIds == ToSet(Sources)
Canonical == {Spellings[p] : p \in DOMAIN Spellings} \ {Invalid}
LastTime == MaxTime + 1
Unlimited == LastTime + 100
Observations(time) == [peer : DOMAIN Spellings, at : 0..time]

RegistryType ==
    [until : [SourceIds -> [Canonical -> Int]], lists : [SourceIds -> Seq(Canonical)],
     order : Seq(Canonical), local : SUBSET LocalEndpoints]

Given(reg, s) == {e \in Canonical : reg.until[s][e] # -1}
AllGiven(reg) == {e \in Canonical : \E s \in SourceIds : reg.until[s][e] # -1}

\* What is contributed is listed, and the own endpoints are not contributed.
Backed(reg) ==
    /\ \A s \in SourceIds : Given(reg, s) \subseteq ToSet(reg.lists[s])
    /\ \A s \in SourceIds : \A e \in Canonical : e \in reg.local => reg.until[s][e] = -1

Merged(reg, order) ==
    /\ order \in Seq(Canonical) /\ IsFiniteSet(AllGiven(reg))
    /\ ToSet(order) = AllGiven(reg) /\ Len(order) = Cardinality(AllGiven(reg))

SoundRegistry(reg) ==
    /\ reg \in RegistryType /\ Backed(reg)
    /\ Merged(reg, reg.order) /\ Len(reg.order) <= MaxCandidates

LEMMA CoordinatorConstants ==
    /\ Coordinator!SourceSet = SourceIds /\ Coordinator!Endpoints = Canonical /\ Coordinator!Absent = -1 /\ Coordinator!Forever = Unlimited
    /\ LastTime \in Nat /\ Unlimited \in Nat /\ Unlimited > LastTime /\ MaxCandidates \in Nat
    /\ Sources \in Seq(SourceIds) /\ Observing \subseteq SourceIds
    /\ \A s \in SourceIds : Ttl[s] \in Nat
    /\ \A view \in Views : view \in Seq(DOMAIN Spellings)
<1>1. Coordinator!SourceSet = SourceIds
  BY DEF Coordinator!SourceSet, Coordinator!ToSet, SourceIds, ToSet
<1>2. Coordinator!Endpoints = Canonical /\ Coordinator!Absent = -1 /\ Coordinator!Forever = Unlimited
  BY DEF Coordinator!Endpoints, Canonical, Coordinator!Absent, Coordinator!Forever, Unlimited, LastTime
<1>3. MaxTime \in Nat /\ MaxCandidates \in Nat
  BY DynamicProviderAssumption
<1>4. LastTime \in Nat /\ Unlimited \in Nat /\ Unlimited > LastTime
  BY <1>3 DEF LastTime, Unlimited
<1>. QED BY <1>1, <1>2, <1>3, <1>4, DiscoveryAssumption DEF SourceIds

LEMMA CoordinatorSelects ==
    /\ \A seq, J : Coordinator!At(seq, J) = At(seq, J)
    /\ \A seq : Coordinator!Distinct(seq) = Distinct(seq)
    /\ \A seqs : Coordinator!FlattenSeq(seqs) = FlattenSeq(seqs)
    /\ \A seq : Coordinator!ToSet(seq) = ToSet(seq)
    /\ \A S : Coordinator!Cardinality(S) = Cardinality(S)
<1>1. ASSUME NEW seq, NEW J PROVE Coordinator!At(seq, J) = At(seq, J)
  BY DEF Coordinator!At, Coordinator!Nth, Coordinator!Cardinality, At, Nth, Cardinality
<1>2. ASSUME NEW seq PROVE Coordinator!Distinct(seq) = Distinct(seq)
  BY <1>1 DEF Coordinator!Distinct, Distinct
<1>3. ASSUME NEW seqs PROVE Coordinator!FlattenSeq(seqs) = FlattenSeq(seqs)
  BY DEF Coordinator!FlattenSeq, FlattenSeq
<1>4. ASSUME NEW seq PROVE Coordinator!ToSet(seq) = ToSet(seq)
  BY DEF Coordinator!ToSet, ToSet
<1>5. ASSUME NEW S PROVE Coordinator!Cardinality(S) = Cardinality(S)
  BY DEF Coordinator!Cardinality, Cardinality
<1>. QED BY <1>1, <1>2, <1>3, <1>4, <1>5, Zenon

LEMMA RecordsAre ==
    ASSUME NEW reg
    PROVE  Coordinator!Records(reg) = AllGiven(reg)
BY CoordinatorConstants DEF Coordinator!Records, AllGiven

LEMMA LiveFacts ==
    ASSUME NEW reg \in RegistryType, NEW s \in SourceIds
    PROVE  Coordinator!Live(reg, s) \in Seq(Canonical) /\ ToSet(Coordinator!Live(reg, s)) = ToSet(reg.lists[s]) \cap Given(reg, s)
<1>. DEFINE list == reg.lists[s]
            I == {i \in DOMAIN list : reg.until[s][list[i]] # -1}
<1>1. list \in Seq(Canonical)
  BY DEF RegistryType
<1>2. Coordinator!Live(reg, s) = At(list, I)
  BY CoordinatorSelects, CoordinatorConstants DEF Coordinator!Live
<1>3. I \in SUBSET (DOMAIN list)
  OBVIOUS
<1>4. {list[i] : i \in I} = ToSet(list) \cap Given(reg, s)
  BY <1>1 DEF ToSet, Given
<1>. HIDE DEF list, I
<1>5. At(list, I) \in Seq(Canonical) /\ ToSet(At(list, I)) = {list[i] : i \in I}
  BY <1>1, <1>3, AtFacts
<1>. QED BY <1>2, <1>4, <1>5 DEF list

LEMMA RebuildFacts ==
    ASSUME NEW reg \in RegistryType, Backed(reg)
    PROVE  Merged(reg, Coordinator!rebuild_order(reg))
<1>. DEFINE parts == [i \in DOMAIN Sources |-> Coordinator!Live(reg, Sources[i])]
            joined == FlattenSeq(parts)
<1>1. Coordinator!rebuild_order(reg) = Distinct(joined)
  BY CoordinatorSelects DEF Coordinator!rebuild_order
<1>2. parts \in Seq(Seq(Canonical)) /\ DOMAIN parts = DOMAIN Sources
  <2>1. \A i \in 1..Len(Sources) : Sources[i] \in SourceIds
    BY CoordinatorConstants
  <2>2. \A i \in 1..Len(Sources) : Coordinator!Live(reg, Sources[i]) \in Seq(Canonical)
    BY <2>1, LiveFacts
  <2>. QED BY <2>2, CoordinatorConstants
<1>3. \A e : e \in ToSet(joined) <=> \E i \in DOMAIN parts : e \in ToSet(parts[i])
  <2>. HIDE DEF parts
  <2>. QED BY <1>2, FlattenFacts
<1>4. joined \in Seq(Canonical)
  <2>. HIDE DEF parts
  <2>. QED BY <1>2, FlattenFacts
<1>5. \A e : e \in ToSet(joined) <=> \E s \in SourceIds : e \in Given(reg, s)
  <2>1. \A i \in DOMAIN Sources : ToSet(parts[i]) = Given(reg, Sources[i]) /\ Sources[i] \in SourceIds
    <3>. TAKE i \in DOMAIN Sources
    <3>1. Sources[i] \in SourceIds
      BY CoordinatorConstants
    <3>2. ToSet(Coordinator!Live(reg, Sources[i])) = Given(reg, Sources[i])
      BY <3>1, LiveFacts DEF Backed
    <3>. QED BY <3>1, <3>2
  <2>2. \A s \in SourceIds : \E i \in DOMAIN Sources : Sources[i] = s
    BY CoordinatorConstants DEF SourceIds, ToSet
  <2>. HIDE DEF parts, joined
  <2>. QED BY <1>2, <1>3, <2>1, <2>2
<1>6. ToSet(joined) = AllGiven(reg)
  <2>. HIDE DEF joined
  <2>. QED BY <1>5 DEF Given, AllGiven
<1>. HIDE DEF joined
<1>7. /\ Distinct(joined) \in Seq(Canonical) /\ ToSet(Distinct(joined)) = ToSet(joined)
      /\ IsFiniteSet(ToSet(joined)) /\ Len(Distinct(joined)) = Cardinality(ToSet(joined))
  BY <1>4, DistinctFacts
<1>. QED BY <1>1, <1>6, <1>7 DEF Merged

LEMMA EndpointsAre ==
    ASSUME NEW reg, SoundRegistry(reg)
    PROVE  Coordinator!endpoints(reg) = reg.order
<1>1. reg.order \in Seq(Canonical)
  BY DEF SoundRegistry, Merged
<1>2. {i \in DOMAIN reg.order : reg.order[i] \in AllGiven(reg)} = DOMAIN reg.order
  BY <1>1 DEF SoundRegistry, Merged, ToSet
<1>3. Coordinator!endpoints(reg) = At(reg.order, DOMAIN reg.order)
  BY <1>2, RecordsAre, CoordinatorSelects DEF Coordinator!endpoints
<1>. QED BY <1>1, <1>3, AtAll

LEMMA FewerGiven ==
    ASSUME NEW reg, NEW old, SoundRegistry(old), AllGiven(reg) \subseteq AllGiven(old)
    PROVE  IsFiniteSet(AllGiven(reg)) /\ Cardinality(AllGiven(reg)) <= MaxCandidates
<1>1. IsFiniteSet(AllGiven(old)) /\ Cardinality(AllGiven(old)) <= MaxCandidates
  BY DEF SoundRegistry, Merged
<1>2. IsFiniteSet(AllGiven(reg)) /\ Cardinality(AllGiven(reg)) <= Cardinality(AllGiven(old))
  BY <1>1, FS_Subset
<1>3. Cardinality(AllGiven(reg)) \in Nat /\ Cardinality(AllGiven(old)) \in Nat
  BY <1>1, <1>2, FS_CardinalityType
<1>. QED BY <1>1, <1>2, <1>3, CoordinatorConstants

\* The order is rebuilt after every change.
LEMMA Reordered ==
    ASSUME NEW reg \in RegistryType, Backed(reg), Cardinality(AllGiven(reg)) <= MaxCandidates
    PROVE  LET new == [reg EXCEPT !.order = Coordinator!rebuild_order(reg)]
           IN  SoundRegistry(new) /\ new.until = reg.until /\ new.local = reg.local /\ new.lists = reg.lists
<1>. DEFINE order == Coordinator!rebuild_order(reg)
            new == [reg EXCEPT !.order = order]
<1>1. Merged(reg, order)
  BY RebuildFacts
<1>. HIDE DEF order
<1>2. new \in RegistryType /\ new.until = reg.until /\ new.local = reg.local /\ new.lists = reg.lists /\ new.order = order
  BY <1>1 DEF RegistryType, Merged
<1>. HIDE DEF new
<1>3. AllGiven(new) = AllGiven(reg) /\ Backed(new)
  BY <1>2 DEF AllGiven, Backed, Given
<1>4. SoundRegistry(new)
  BY <1>1, <1>2, <1>3 DEF SoundRegistry, Merged
<1>. QED BY <1>2, <1>4 DEF new, order

LEMMA PrunedFacts ==
    ASSUME NEW reg \in RegistryType, Backed(reg), NEW old, SoundRegistry(old), AllGiven(reg) \subseteq AllGiven(old)
    PROVE  SoundRegistry(Coordinator!Pruned(reg)) /\ Coordinator!Pruned(reg).until = reg.until /\ Coordinator!Pruned(reg).local = reg.local
<1>. DEFINE lists == [s \in SourceIds |-> Coordinator!Live(reg, s)]
            pruned == [reg EXCEPT !.lists = lists]
<1>1. \A s \in SourceIds : Coordinator!Live(reg, s) \in Seq(Canonical) /\ ToSet(Coordinator!Live(reg, s)) = Given(reg, s)
  BY LiveFacts DEF Backed
<1>2. lists \in [SourceIds -> Seq(Canonical)] /\ \A s \in SourceIds : ToSet(lists[s]) = Given(reg, s)
  BY <1>1
<1>3. Coordinator!Pruned(reg) = [pruned EXCEPT !.order = Coordinator!rebuild_order(pruned)]
  BY CoordinatorConstants DEF Coordinator!Pruned
<1>. HIDE DEF lists
<1>4. /\ pruned \in RegistryType /\ pruned.until = reg.until /\ pruned.lists = lists /\ pruned.local = reg.local
  BY <1>2 DEF RegistryType
<1>. HIDE DEF pruned
<1>5. Backed(pruned) /\ AllGiven(pruned) = AllGiven(reg)
  BY <1>2, <1>4 DEF Backed, AllGiven, Given
<1>6. Cardinality(AllGiven(pruned)) <= MaxCandidates
  BY <1>5, FewerGiven
<1>. QED BY <1>3, <1>4, <1>5, <1>6, Reordered

-----------------------------------------------------------------------------
(* Replacing what a source contributes. *)

LEMMA ReplaceFacts ==
    ASSUME NEW reg, SoundRegistry(reg), NEW s \in SourceIds, NEW list \in Seq(Canonical),
           NEW until \in [Canonical -> Int]
    PROVE  LET r == Coordinator!replace_contributions(reg, s, list, until)
           IN  \/ r = [ok |-> FALSE, reg |-> reg]
               \/ /\ r = [ok |-> TRUE, reg |-> r.reg] /\ SoundRegistry(r.reg) /\ r.reg.local = reg.local
                  /\ \A q \in SourceIds \ {s} : r.reg.until[q] = reg.until[q]
                  /\ \A e \in Canonical :
                        r.reg.until[s][e] = IF e \in ToSet(list) /\ e \notin reg.local THEN until[e] ELSE -1
<1>. DEFINE lease == [e \in Canonical |-> IF e \in ToSet(list) \ reg.local THEN until[e] ELSE -1]
            replaced == [reg EXCEPT !.lists[s] = list, !.until[s] = lease]
<1>0. reg \in RegistryType /\ Backed(reg)
  BY DEF SoundRegistry
<1>1. lease \in [Canonical -> Int] /\ \A e \in Canonical : lease[e] # -1 => e \in ToSet(list) /\ e \notin reg.local
  OBVIOUS
<1>2. Coordinator!replace_contributions(reg, s, list, until)
        = IF Cardinality(AllGiven(replaced)) > MaxCandidates THEN [ok |-> FALSE, reg |-> reg]
          ELSE [ok |-> TRUE, reg |-> [replaced EXCEPT !.order = Coordinator!rebuild_order(replaced)]]
  BY CoordinatorConstants, CoordinatorSelects, RecordsAre DEF Coordinator!replace_contributions
<1>3. \A e \in Canonical : lease[e] = IF e \in ToSet(list) /\ e \notin reg.local THEN until[e] ELSE -1
  OBVIOUS
<1>. HIDE DEF lease
<1>4. /\ replaced \in RegistryType /\ replaced.local = reg.local
      /\ replaced.until = [reg.until EXCEPT ![s] = lease] /\ replaced.lists = [reg.lists EXCEPT ![s] = list]
  BY <1>0, <1>1 DEF RegistryType
<1>. HIDE DEF replaced
<1>5. /\ replaced.until[s] = lease /\ replaced.lists[s] = list
      /\ \A q \in SourceIds \ {s} : replaced.until[q] = reg.until[q] /\ replaced.lists[q] = reg.lists[q]
  BY <1>0, <1>4 DEF RegistryType
<1>6. Backed(replaced)
  BY <1>0, <1>1, <1>4, <1>5 DEF Backed, Given
<1>7. CASE Cardinality(AllGiven(replaced)) > MaxCandidates
  BY <1>2, <1>7
<1>8. CASE ~(Cardinality(AllGiven(replaced)) > MaxCandidates)
  <2>1. IsFiniteSet(AllGiven(replaced))
    BY <1>4, <1>6, RebuildFacts DEF Merged
  <2>2. Cardinality(AllGiven(replaced)) <= MaxCandidates
    BY <2>1, <1>8, FS_CardinalityType, CoordinatorConstants
  <2>. DEFINE new == [replaced EXCEPT !.order = Coordinator!rebuild_order(replaced)]
  <2>3. SoundRegistry(new) /\ new.until = replaced.until /\ new.local = replaced.local
    BY <2>2, <1>4, <1>6, Reordered
  <2>4. Coordinator!replace_contributions(reg, s, list, until) = [ok |-> TRUE, reg |-> new]
    BY <1>2, <1>8
  <2>. DEFINE r == Coordinator!replace_contributions(reg, s, list, until)
  <2>. HIDE DEF new, r
  <2>5. r = [ok |-> TRUE, reg |-> r.reg] /\ r.reg = new
    BY <2>4 DEF r
  <2>6. SoundRegistry(new) /\ new.local = reg.local
    BY <2>3, <1>4
  <2>7. \A q \in SourceIds \ {s} : new.until[q] = reg.until[q]
    BY <2>3, <1>5
  <2>8. \A e \in Canonical : new.until[s][e] = IF e \in ToSet(list) /\ e \notin reg.local THEN until[e] ELSE -1
    BY <2>3, <1>3, <1>5
  <2>. QED BY <2>5, <2>6, <2>7, <2>8 DEF r
<1>. QED BY <1>7, <1>8

\* The endpoints that a view names, and those that it names for longer than a time.
Naming(view) == {Spellings[view[i].peer] : i \in DOMAIN view} \ {Invalid}
NamedAfter(view, e, s, t) ==
    \E i \in DOMAIN view : Spellings[view[i].peer] = e /\ (Ttl[s] = 0 \/ view[i].at + Ttl[s] > t)

\* From this time on, a source contributes what this view names, as long as it does.
Contributes(reg, s, view, time) ==
    \A e \in Canonical, t \in time..LastTime :
        reg.until[s][e] > t <=> e \notin reg.local /\ NamedAfter(view, e, s, t)

\* Leases begin when something was observed or a command was applied.
Leases(reg, s, time) ==
    \A e \in Canonical : reg.until[s][e] # -1 =>
        IF Ttl[s] = 0 THEN reg.until[s][e] = Unlimited ELSE reg.until[s][e] - Ttl[s] \in 0..time

LEMMA SeqElements ==
    ASSUME NEW S, NEW seq \in Seq(S)
    PROVE  /\ Len(seq) \in Nat /\ DOMAIN seq = 1..Len(seq) /\ \A i \in DOMAIN seq : seq[i] \in S
           /\ \A T : (\A i \in DOMAIN seq : seq[i] \in T) => seq \in Seq(T)
OBVIOUS

LEMMA ViewPeers ==
    ASSUME NEW T, NEW view \in Seq([peer : DOMAIN Spellings, at : T])
    PROVE  DOMAIN view = 1..Len(view) /\ \A i \in DOMAIN view : view[i].peer \in DOMAIN Spellings /\ view[i].at \in T
<1>1. DOMAIN view = 1..Len(view) /\ \A i \in DOMAIN view : view[i] \in [peer : DOMAIN Spellings, at : T]
  BY SeqElements, Zenon
<1>. QED BY <1>1

LEMMA ListedFacts ==
    ASSUME NEW T, NEW view \in Seq([peer : DOMAIN Spellings, at : T])
    PROVE  Coordinator!Listed(view) \in Seq(Canonical) /\ ToSet(Coordinator!Listed(view)) = Naming(view)
<1>. DEFINE P == {Spellings[p] : p \in DOMAIN Spellings}
            named == [i \in DOMAIN view |-> Spellings[view[i].peer]]
            I == {i \in DOMAIN view : named[i] # Invalid}
            part == At(named, I)
<1>1. Coordinator!Listed(view) = Distinct(part)
  BY CoordinatorSelects DEF Coordinator!Listed, Coordinator!canonicalize_endpoint
<1>2. named \in Seq(P) /\ DOMAIN named = DOMAIN view
  <2>1. \A i \in 1..Len(view) : view[i].peer \in DOMAIN Spellings
    BY ViewPeers
  <2>. QED BY <2>1
<1>3. I \in SUBSET (DOMAIN named) /\ {named[i] : i \in I} = Naming(view) /\ Naming(view) \subseteq Canonical
  <2>1. \A i \in DOMAIN view : view[i].peer \in DOMAIN Spellings
    BY ViewPeers
  <2>. QED BY <1>2, <2>1 DEF Naming, Canonical
<1>. HIDE DEF named, I, P
<1>4. part \in Seq(P) /\ ToSet(part) = {named[i] : i \in I}
  BY <1>2, <1>3, AtFacts
<1>5. part \in Seq(Canonical)
  <2>. HIDE DEF part
  <2>1. \A k \in DOMAIN part : part[k] \in Canonical
    BY <1>3, <1>4 DEF ToSet
  <2>. QED BY <1>4, <2>1, SeqElements
<1>. HIDE DEF part
<1>6. Distinct(part) \in Seq(Canonical) /\ ToSet(Distinct(part)) = ToSet(part)
  BY <1>5, DistinctFacts
<1>. QED BY <1>1, <1>3, <1>4, <1>6

\* A whole view that was taken.
Taken(reg, s, new) ==
    /\ SoundRegistry(new) /\ new.local = reg.local
    /\ \A q \in SourceIds \ {s} : new.until[q] = reg.until[q]

LEMMA ReplaceSource ==
    ASSUME NEW reg, SoundRegistry(reg), NEW s \in SourceIds, now \in 0..LastTime,
           NEW view \in Seq(Observations(now))
    PROVE  LET r == Coordinator!replace_source(reg, s, view)
           IN  \/ r = [ok |-> FALSE, reg |-> reg]
               \/ /\ r = [ok |-> TRUE, reg |-> r.reg] /\ Taken(reg, s, r.reg) /\ Leases(r.reg, s, now)
                  /\ Given(r.reg, s) = Naming(view) \ reg.local
<1>. DEFINE until == [e \in Canonical |-> IF Ttl[s] = 0 THEN Unlimited ELSE now + Ttl[s]]
            list == Coordinator!Listed(view)
            r == Coordinator!replace_contributions(reg, s, list, until)
<1>0. Ttl[s] \in Nat /\ now \in Nat /\ Unlimited \in Nat
  BY CoordinatorConstants
<1>1. list \in Seq(Canonical) /\ ToSet(list) = Naming(view)
  BY ListedFacts DEF Observations
<1>2. until \in [Canonical -> Int] /\ \A e \in Canonical : until[e] = IF Ttl[s] = 0 THEN Unlimited ELSE now + Ttl[s]
  BY <1>0
<1>3. Coordinator!replace_source(reg, s, view) = [ok |-> FALSE, reg |-> reg] \/ Coordinator!replace_source(reg, s, view) = r
  BY CoordinatorConstants DEF Coordinator!replace_source
<1>. HIDE DEF until, list
<1>4. CASE Coordinator!replace_source(reg, s, view) = r /\ r # [ok |-> FALSE, reg |-> reg]
  <2>. HIDE DEF r
  <2>1. /\ r = [ok |-> TRUE, reg |-> r.reg] /\ SoundRegistry(r.reg) /\ r.reg.local = reg.local
        /\ \A q \in SourceIds \ {s} : r.reg.until[q] = reg.until[q]
        /\ \A e \in Canonical :
              r.reg.until[s][e] = IF e \in ToSet(list) /\ e \notin reg.local THEN until[e] ELSE -1
    BY <1>1, <1>2, <1>4, ReplaceFacts DEF r
  <2>2. Leases(r.reg, s, now)
    BY <1>0, <1>2, <2>1 DEF Leases
  <2>3. Given(r.reg, s) = Naming(view) \ reg.local
    <3>1. Naming(view) \subseteq Canonical
      BY <1>1 DEF ToSet
    <3>2. \A e \in Canonical : until[e] # -1
      BY <1>0, <1>2
    <3>. QED BY <1>1, <2>1, <3>1, <3>2 DEF Given
  <2>. QED BY <1>4, <2>1, <2>2, <2>3 DEF Taken
<1>. QED BY <1>3, <1>4

LEMMA FreshFacts ==
    ASSUME NEW s \in SourceIds, now \in 0..LastTime, NEW view \in Seq(Observations(now))
    PROVE  LET fresh == Coordinator!Fresh(view, s)
           IN  /\ fresh \in Seq(Observations(now))
               /\ \A k \in DOMAIN fresh : \E i \in DOMAIN view :
                     fresh[k] = view[i] /\ (Ttl[s] = 0 \/ view[i].at + Ttl[s] > now)
               /\ \A i \in DOMAIN view : Ttl[s] = 0 \/ view[i].at + Ttl[s] > now =>
                     \E k \in DOMAIN fresh : fresh[k] = view[i]
<1>. DEFINE I == {i \in DOMAIN view : Ttl[s] = 0 \/ view[i].at + Ttl[s] > now}
            fresh == At(view, I)
<1>1. Coordinator!Fresh(view, s) = fresh
  BY CoordinatorSelects DEF Coordinator!Fresh
<1>2. I \in SUBSET (DOMAIN view)
  OBVIOUS
<1>3. \A i : i \in I <=> i \in DOMAIN view /\ (Ttl[s] = 0 \/ view[i].at + Ttl[s] > now)
  OBVIOUS
<1>. HIDE DEF I
<1>4. fresh \in Seq(Observations(now)) /\ ToSet(fresh) = {view[i] : i \in I}
  BY <1>2, AtFacts
<1>5. \A x : (\E k \in DOMAIN fresh : fresh[k] = x) <=> (\E i \in I : view[i] = x)
  BY <1>4 DEF ToSet
<1>. HIDE DEF fresh
<1>. QED BY <1>1, <1>2, <1>3, <1>4, <1>5

LEMMA LatestOf ==
    ASSUME NEW n \in Nat, NEW T \in SUBSET (0..n), T # {}
    PROVE  Coordinator!Max(T) \in T /\ \A y \in T : y <= Coordinator!Max(T)
<1>. DEFINE D == {n - y : y \in T}
<1>1. D \subseteq Nat /\ D # {}
  <2>1. \A y \in T : n - y \in Nat
    OBVIOUS
  <2>2. PICK y \in T : TRUE
    OBVIOUS
  <2>3. n - y \in D
    BY <2>2
  <2>. QED BY <2>1, <2>3
<1>2. PICK d \in D : \A y \in D : d <= y
  <2>. HIDE DEF D
  <2>. QED BY <1>1, NatMin
<1>3. PICK x \in T : d = n - x
  BY <1>2
<1>4. \A y \in T : x >= y
  <2>. TAKE y \in T
  <2>1. n - x <= n - y
    BY <1>2, <1>3
  <2>. QED BY <2>1
<1>5. \E m \in T : \A y \in T : m >= y
  BY <1>4
<1>6. Coordinator!Max(T) = CHOOSE m \in T : \A y \in T : m >= y
  BY DEF Coordinator!Max
<1>. QED BY <1>5, <1>6

\* What a view with observation times leaves of an observing source.
ShownBy(reg, s, view) ==
    \A e \in Canonical : Ttl[s] # 0 /\ reg.until[s][e] # -1 =>
        \E i \in DOMAIN view : reg.until[s][e] - Ttl[s] = view[i].at

LEMMA ReplaceSnapshot ==
    ASSUME NEW reg, SoundRegistry(reg), NEW s \in SourceIds, now \in 0..LastTime,
           NEW view \in Seq(Observations(now))
    PROVE  LET r == Coordinator!replace_snapshot(reg, s, view)
           IN  \/ r = [ok |-> FALSE, reg |-> reg]
               \/ /\ r = [ok |-> TRUE, reg |-> r.reg] /\ Taken(reg, s, r.reg) /\ Leases(r.reg, s, now)
                  /\ Ttl[s] = 0 => Given(r.reg, s) = Naming(view) \ reg.local
                  /\ s \in Observing => Contributes(r.reg, s, view, now) /\ ShownBy(r.reg, s, view)
<1>. DEFINE r == Coordinator!replace_snapshot(reg, s, view)
<1>1. CASE s \notin Observing
  <2>1. r = Coordinator!replace_source(reg, s, view)
    BY <1>1 DEF Coordinator!replace_snapshot
  <2>. QED BY <1>1, <2>1, ReplaceSource
<1>2. CASE s \in Observing /\ r # [ok |-> FALSE, reg |-> reg]
  <2>. DEFINE fresh == Coordinator!Fresh(view, s)
              times(e) == {fresh[i].at : i \in {j \in DOMAIN fresh : Spellings[fresh[j].peer] = e}}
              until == [e \in Canonical |-> IF Ttl[s] = 0 \/ times(e) = {} THEN Unlimited ELSE Coordinator!Max(times(e)) + Ttl[s]]
              list == Coordinator!Listed(fresh)
  <2>0. Ttl[s] \in Nat /\ now \in Nat /\ LastTime \in Nat /\ Unlimited \in Nat /\ Unlimited > LastTime
    BY CoordinatorConstants
  <2>1. r = Coordinator!replace_contributions(reg, s, list, until)
    BY <1>2, CoordinatorConstants DEF Coordinator!replace_snapshot, Coordinator!canonicalize_endpoint
  <2>2. /\ fresh \in Seq(Observations(now))
        /\ \A k \in DOMAIN fresh : \E i \in DOMAIN view :
              fresh[k] = view[i] /\ (Ttl[s] = 0 \/ view[i].at + Ttl[s] > now)
        /\ \A i \in DOMAIN view : Ttl[s] = 0 \/ view[i].at + Ttl[s] > now => \E k \in DOMAIN fresh : fresh[k] = view[i]
    BY FreshFacts
  <2>. HIDE DEF fresh
  <2>3. \A k \in DOMAIN fresh : fresh[k].at \in 0..now /\ fresh[k].peer \in DOMAIN Spellings
    BY <2>2, ViewPeers DEF Observations
  <2>3a. \A i \in DOMAIN view : view[i].at \in 0..now /\ view[i].peer \in DOMAIN Spellings
    BY ViewPeers DEF Observations
  <2>4. \A e \in Canonical : times(e) \in SUBSET (0..now)
    BY <2>3
  <2>5. list \in Seq(Canonical) /\ ToSet(list) = Naming(fresh)
    BY <2>2, ListedFacts DEF Observations
  <2>6. \A e \in Canonical : times(e) # {} => Coordinator!Max(times(e)) \in times(e) /\ \A y \in times(e) : y <= Coordinator!Max(times(e))
    <3>. TAKE e \in Canonical
    <3>. DEFINE T == times(e)
    <3>1. T \in SUBSET (0..now)
      BY <2>4
    <3>. HIDE DEF T
    <3>2. T # {} => Coordinator!Max(T) \in T /\ \A y \in T : y <= Coordinator!Max(T)
      BY <2>0, <3>1, LatestOf
    <3>. QED BY <3>2 DEF T
  <2>7. until \in [Canonical -> Int]
    <3>1. \A e \in Canonical : times(e) # {} => Coordinator!Max(times(e)) \in Int
      BY <2>4, <2>6
    <3>. HIDE DEF times
    <3>. QED BY <2>0, <3>1
  <2>8. \A e \in Canonical : e \in Naming(fresh) <=> times(e) # {}
    BY DEF Naming, Canonical
  <2>9. \A e \in Canonical : until[e] = IF Ttl[s] = 0 \/ times(e) = {} THEN Unlimited ELSE Coordinator!Max(times(e)) + Ttl[s]
    OBVIOUS
  <2>10. \A e \in Canonical : \A a : a \in times(e) <=>
            \E i \in DOMAIN view : view[i].at = a /\ Spellings[view[i].peer] = e /\ (Ttl[s] = 0 \/ a + Ttl[s] > now)
    BY <2>2
  <2>. HIDE DEF until, times, list
  <2>11. /\ r = [ok |-> TRUE, reg |-> r.reg] /\ SoundRegistry(r.reg) /\ r.reg.local = reg.local
         /\ \A q \in SourceIds \ {s} : r.reg.until[q] = reg.until[q]
         /\ \A e \in Canonical :
               r.reg.until[s][e] = IF e \in ToSet(list) /\ e \notin reg.local THEN until[e] ELSE -1
    BY <1>2, <2>1, <2>5, <2>7, ReplaceFacts
  <2>. HIDE DEF r
  <2>12. \A e \in Canonical : r.reg.until[s][e] = IF times(e) # {} /\ e \notin reg.local THEN until[e] ELSE -1
    BY <2>5, <2>8, <2>11
  <2>13. \A e \in Canonical : r.reg.until[s][e] # -1 =>
            /\ times(e) # {} /\ e \notin reg.local
            /\ IF Ttl[s] = 0 THEN r.reg.until[s][e] = Unlimited
               ELSE r.reg.until[s][e] - Ttl[s] = Coordinator!Max(times(e)) /\ Coordinator!Max(times(e)) \in times(e)
    <3>. TAKE e \in Canonical
    <3>. HAVE r.reg.until[s][e] # -1
    <3>1. times(e) # {} /\ e \notin reg.local /\ r.reg.until[s][e] = until[e]
      BY <2>12
    <3>2. Coordinator!Max(times(e)) \in times(e) /\ Coordinator!Max(times(e)) \in Int
      BY <2>4, <2>6, <3>1
    <3>. QED BY <2>0, <2>9, <3>1, <3>2
  <2>14. Leases(r.reg, s, now)
    BY <2>4, <2>13 DEF Leases
  <2>15. ShownBy(r.reg, s, view)
    BY <2>10, <2>13 DEF ShownBy
  <2>16. Ttl[s] = 0 => Given(r.reg, s) = Naming(view) \ reg.local
    <3>. HAVE Ttl[s] = 0
    <3>1. ASSUME NEW e \in Canonical PROVE times(e) # {} <=> e \in Naming(view)
      <4>1. times(e) # {} <=> \E a : a \in times(e)
        OBVIOUS
      <4>2. times(e) # {} <=> \E i \in DOMAIN view : Spellings[view[i].peer] = e
        BY <2>10, <4>1
      <4>3. e # Invalid
        BY DEF Canonical
      <4>. QED BY <4>2, <4>3 DEF Naming
    <3>2. Naming(view) \subseteq Canonical
      BY <2>3a DEF Naming, Canonical
    <3>3. \A e \in Canonical : until[e] # -1
      BY <2>0, <2>9
    <3>. QED BY <2>12, <3>1, <3>2, <3>3 DEF Given
  <2>17. Contributes(r.reg, s, view, now)
    <3>. SUFFICES ASSUME NEW e \in Canonical, NEW t \in now..LastTime
                  PROVE  r.reg.until[s][e] > t <=> e \notin reg.local /\ NamedAfter(view, e, s, t)
      BY <2>11 DEF Contributes
    <3>0. t \in Nat
      BY <2>0
    <3>1. CASE Ttl[s] = 0
      <4>1. times(e) # {} <=> NamedAfter(view, e, s, t)
        BY <2>10, <3>1 DEF NamedAfter
      <4>2. until[e] > t /\ ~(-1 > t)
        BY <2>0, <2>9, <3>0, <3>1
      <4>. QED BY <2>12, <4>1, <4>2
    <3>2. CASE Ttl[s] # 0
      <4>1. ASSUME r.reg.until[s][e] > t PROVE e \notin reg.local /\ NamedAfter(view, e, s, t)
        <5>1. r.reg.until[s][e] # -1
          BY <3>0, <4>1
        <5>2. PICK i \in DOMAIN view : view[i].at = r.reg.until[s][e] - Ttl[s] /\ Spellings[view[i].peer] = e
          BY <2>10, <2>13, <3>2, <5>1
        <5>3. r.reg.until[s][e] \in Int
          BY <2>7, <2>12
        <5>4. view[i].at + Ttl[s] > t
          BY <2>0, <3>0, <4>1, <5>2, <5>3
        <5>. QED BY <2>13, <5>1, <5>2, <5>4 DEF NamedAfter
      <4>2. ASSUME e \notin reg.local, NamedAfter(view, e, s, t) PROVE r.reg.until[s][e] > t
        <5>1. PICK i \in DOMAIN view : Spellings[view[i].peer] = e /\ view[i].at + Ttl[s] > t
          BY <3>2, <4>2 DEF NamedAfter
        <5>2. view[i].at \in Nat /\ view[i].at + Ttl[s] > now
          BY <2>0, <2>3a, <3>0, <5>1
        <5>3. view[i].at \in times(e)
          BY <2>10, <5>1, <5>2
        <5>4. view[i].at <= Coordinator!Max(times(e)) /\ Coordinator!Max(times(e)) \in Int
          BY <2>4, <2>6, <5>3
        <5>5. r.reg.until[s][e] = Coordinator!Max(times(e)) + Ttl[s]
          BY <2>9, <2>12, <3>2, <4>2, <5>3
        <5>. QED BY <2>0, <3>0, <5>1, <5>2, <5>4, <5>5
      <4>. QED BY <4>1, <4>2
    <3>. QED BY <3>1, <3>2
  <2>. QED BY <2>11, <2>14, <2>15, <2>16, <2>17 DEF Taken, r
<1>. QED BY <1>1, <1>2

-----------------------------------------------------------------------------
(* Single additions and removals, expiry, the node's own endpoints. *)

LEMMA AddFacts ==
    ASSUME NEW reg, SoundRegistry(reg), NEW s \in SourceIds, NEW e \in Canonical, now \in 0..LastTime
    PROVE  LET r == Coordinator!add(reg, s, e)
           IN  \/ r = [ok |-> FALSE, reg |-> reg]
               \/ e \in reg.local /\ r = [ok |-> TRUE, reg |-> reg]
               \/ /\ e \notin reg.local /\ r = [ok |-> TRUE, reg |-> r.reg] /\ Taken(reg, s, r.reg)
                  /\ \A x \in Canonical : r.reg.until[s][x] =
                        IF x # e THEN reg.until[s][x] ELSE IF Ttl[s] = 0 THEN Unlimited ELSE now + Ttl[s]
<1>. DEFINE lease == IF Ttl[s] = 0 THEN Unlimited ELSE now + Ttl[s]
            list == IF Coordinator!Contains(reg.lists[s], e) THEN reg.lists[s] ELSE Append(reg.lists[s], e)
            added == [reg EXCEPT !.until[s][e] = lease, !.lists[s] = list]
            r == Coordinator!add(reg, s, e)
<1>0. reg \in RegistryType /\ Backed(reg) /\ MaxCandidates \in Nat
  BY CoordinatorConstants DEF SoundRegistry
<1>1. lease \in Int
  BY CoordinatorConstants
<1>2. r = IF e \in reg.local THEN [ok |-> TRUE, reg |-> reg]
          ELSE IF e \notin AllGiven(reg) /\ Cardinality(AllGiven(reg)) >= MaxCandidates THEN [ok |-> FALSE, reg |-> reg]
          ELSE [ok |-> TRUE, reg |-> [added EXCEPT !.order = Coordinator!rebuild_order(added)]]
  <2>1. added = [reg EXCEPT !.until[s][e] = lease,
                            !.lists[s] = IF Coordinator!Contains(@, e) THEN @ ELSE Append(@, e)]
    BY <1>0 DEF RegistryType
  <2>2. Coordinator!add(reg, s, e) =
          LET added2 == [reg EXCEPT !.until[s][e] = lease,
                            !.lists[s] = IF Coordinator!Contains(@, e) THEN @ ELSE Append(@, e)]
          IN  IF e \in reg.local THEN [ok |-> TRUE, reg |-> reg]
              ELSE IF e \notin AllGiven(reg) /\ Cardinality(AllGiven(reg)) >= MaxCandidates THEN [ok |-> FALSE, reg |-> reg]
              ELSE [ok |-> TRUE, reg |-> [added2 EXCEPT !.order = Coordinator!rebuild_order(added2)]]
    BY CoordinatorConstants, CoordinatorSelects, RecordsAre DEF Coordinator!add
  <2>. HIDE DEF lease, list, added
  <2>. QED BY <2>1, <2>2
<1>3. list \in Seq(Canonical) /\ \A x : x \in ToSet(list) <=> x = e \/ x \in ToSet(reg.lists[s])
  <2>. DEFINE old == reg.lists[s]
  <2>1. old \in Seq(Canonical)
    BY <1>0 DEF RegistryType
  <2>. HIDE DEF old
  <2>2. Coordinator!Contains(old, e) <=> e \in ToSet(old)
    BY <2>1 DEF Coordinator!Contains, ToSet
  <2>3. Append(old, e) \in Seq(Canonical) /\ \A x : x \in ToSet(Append(old, e)) <=> x = e \/ x \in ToSet(old)
    <3>1. /\ Append(old, e) \in Seq(Canonical) /\ Len(Append(old, e)) = Len(old) + 1 /\ Len(old) \in Nat
          /\ \A i \in 1..Len(old) : Append(old, e)[i] = old[i]
          /\ Append(old, e)[Len(old) + 1] = e
      BY <2>1
    <3>. DEFINE long == Append(old, e)
    <3>. HIDE DEF long
    <3>2. \A x : x \in ToSet(long) <=> \E i \in 1..(Len(old) + 1) : long[i] = x
      BY <3>1 DEF ToSet, long
    <3>3. \A x : x \in ToSet(old) <=> \E i \in 1..Len(old) : old[i] = x
      BY <2>1 DEF ToSet
    <3>4. \A i : i \in 1..(Len(old) + 1) <=> i \in 1..Len(old) \/ i = Len(old) + 1
      BY <3>1
    <3>. QED BY <3>1, <3>2, <3>3, <3>4 DEF long
  <2>. QED BY <2>1, <2>2, <2>3 DEF old
<1>. HIDE DEF lease, list
<1>4. /\ added \in RegistryType /\ added.local = reg.local
      /\ added.until = [reg.until EXCEPT ![s] = [reg.until[s] EXCEPT ![e] = lease]]
      /\ added.lists = [reg.lists EXCEPT ![s] = list]
  BY <1>0, <1>1, <1>3 DEF RegistryType
<1>. HIDE DEF added, r
<1>5. /\ \A x \in Canonical : added.until[s][x] = IF x # e THEN reg.until[s][x] ELSE lease
      /\ added.lists[s] = list
      /\ \A q \in SourceIds \ {s} : added.until[q] = reg.until[q] /\ added.lists[q] = reg.lists[q]
  BY <1>0, <1>4 DEF RegistryType
<1>6. CASE e \notin reg.local /\ ~(e \notin AllGiven(reg) /\ Cardinality(AllGiven(reg)) >= MaxCandidates)
  <2>1. Backed(added)
    <3>1. \A q \in SourceIds : Given(added, q) \subseteq ToSet(added.lists[q])
      BY <1>0, <1>3, <1>5 DEF Backed, Given
    <3>2. \A q \in SourceIds : \A x \in Canonical : x \in added.local => added.until[q][x] = -1
      BY <1>0, <1>4, <1>5, <1>6 DEF Backed
    <3>. QED BY <3>1, <3>2 DEF Backed
  <2>2. AllGiven(added) \subseteq AllGiven(reg) \cup {e}
    BY <1>5 DEF AllGiven
  <2>3. Cardinality(AllGiven(added)) <= MaxCandidates
    <3>1. CASE e \in AllGiven(reg)
      BY <2>2, <3>1, FewerGiven
    <3>2. CASE e \notin AllGiven(reg)
      <4>1. IsFiniteSet(AllGiven(reg)) /\ Cardinality(AllGiven(reg)) \in Nat
        BY FS_CardinalityType DEF SoundRegistry, Merged
      <4>2. /\ IsFiniteSet(AllGiven(reg) \cup {e})
            /\ Cardinality(AllGiven(reg) \cup {e}) = Cardinality(AllGiven(reg)) + 1
        BY <3>2, <4>1, FS_AddElement
      <4>3. Cardinality(AllGiven(added)) <= Cardinality(AllGiven(reg)) + 1 /\ IsFiniteSet(AllGiven(added))
        BY <2>2, <4>2, FS_Subset
      <4>4. Cardinality(AllGiven(added)) \in Nat
        BY <4>3, FS_CardinalityType
      <4>. QED BY <1>0, <1>6, <3>2, <4>1, <4>3, <4>4
    <3>. QED BY <3>1, <3>2
  <2>. DEFINE new == [added EXCEPT !.order = Coordinator!rebuild_order(added)]
  <2>4. SoundRegistry(new) /\ new.until = added.until /\ new.local = added.local
    BY <1>4, <2>1, <2>3, Reordered
  <2>5. r = [ok |-> TRUE, reg |-> new]
    BY <1>2, <1>6
  <2>. HIDE DEF new
  <2>6. r = [ok |-> TRUE, reg |-> r.reg] /\ r.reg = new
    BY <2>5
  <2>7. Taken(reg, s, new)
    BY <1>4, <1>5, <2>4 DEF Taken
  <2>8. \A x \in Canonical : new.until[s][x] = IF x # e THEN reg.until[s][x] ELSE lease
    BY <1>5, <2>4
  <2>. QED BY <1>6, <2>6, <2>7, <2>8 DEF lease, r
<1>7. CASE e \in reg.local \/ (e \notin AllGiven(reg) /\ Cardinality(AllGiven(reg)) >= MaxCandidates)
  BY <1>2, <1>7 DEF r
<1>. QED BY <1>6, <1>7

\* Some contributions end, the others go on as they are.
LEMMA ShrinkFacts ==
    ASSUME NEW reg \in RegistryType, NEW old, SoundRegistry(old),
           \A s \in SourceIds : Given(reg, s) \subseteq ToSet(reg.lists[s]),
           \A s \in SourceIds : \A e \in Canonical : reg.until[s][e] # -1 =>
                reg.until[s][e] = old.until[s][e] /\ (e \notin reg.local)
    PROVE  SoundRegistry(Coordinator!Pruned(reg)) /\ Coordinator!Pruned(reg).until = reg.until /\ Coordinator!Pruned(reg).local = reg.local
<1>1. AllGiven(reg) \subseteq AllGiven(old)
  BY DEF AllGiven
<1>2. Backed(reg)
  BY DEF Backed
<1>. QED BY <1>1, <1>2, PrunedFacts

LEMMA RemoveFacts ==
    ASSUME NEW reg, SoundRegistry(reg), NEW s \in SourceIds, NEW e \in Canonical
    PROVE  LET new == Coordinator!remove(reg, s, e)
           IN  /\ Taken(reg, s, new)
               /\ \A x \in Canonical : new.until[s][x] = IF x = e THEN -1 ELSE reg.until[s][x]
<1>. DEFINE gone == -1
            cut == [reg EXCEPT !.until[s][e] = gone]
<1>0. reg \in RegistryType /\ Backed(reg)
  BY DEF SoundRegistry
<1>1. Coordinator!remove(reg, s, e) = Coordinator!Pruned(cut)
  BY CoordinatorConstants DEF Coordinator!remove
<1>1a. gone \in Int
  OBVIOUS
<1>. HIDE DEF gone
<1>2. /\ cut \in RegistryType /\ cut.local = reg.local /\ cut.lists = reg.lists
      /\ cut.until = [reg.until EXCEPT ![s] = [reg.until[s] EXCEPT ![e] = gone]]
  BY <1>0, <1>1a DEF RegistryType
<1>. HIDE DEF cut
<1>3. /\ \A x \in Canonical : cut.until[s][x] = IF x = e THEN -1 ELSE reg.until[s][x]
      /\ \A q \in SourceIds \ {s} : cut.until[q] = reg.until[q]
  BY <1>0, <1>2 DEF RegistryType, gone
<1>4. \A q \in SourceIds : Given(cut, q) \subseteq ToSet(cut.lists[q])
  BY <1>0, <1>2, <1>3 DEF Backed, Given
<1>5. \A q \in SourceIds : \A x \in Canonical : cut.until[q][x] # -1 =>
        cut.until[q][x] = reg.until[q][x] /\ (x \notin cut.local)
  BY <1>0, <1>2, <1>3 DEF Backed
<1>6. SoundRegistry(Coordinator!Pruned(cut)) /\ Coordinator!Pruned(cut).until = cut.until /\ Coordinator!Pruned(cut).local = cut.local
  BY <1>2, <1>4, <1>5, ShrinkFacts
<1>. QED BY <1>1, <1>2, <1>3, <1>6 DEF Taken

LEMMA UnavailableFacts ==
    ASSUME NEW reg, SoundRegistry(reg), NEW s \in SourceIds
    PROVE  LET new == Coordinator!source_unavailable(reg, s)
           IN  IF Ttl[s] # 0 THEN new = reg
               ELSE Taken(reg, s, new) /\ \A x \in Canonical : new.until[s][x] = -1
<1>1. CASE Ttl[s] # 0
  BY <1>1 DEF Coordinator!source_unavailable
<1>2. CASE Ttl[s] = 0
  <2>. DEFINE none == [e \in Canonical |-> -1]
              empty == <<>>
              cut == [reg EXCEPT !.until[s] = none, !.lists[s] = empty]
  <2>0. reg \in RegistryType /\ Backed(reg)
    BY DEF SoundRegistry
  <2>1. Coordinator!source_unavailable(reg, s) = Coordinator!Pruned(cut)
    BY <1>2, CoordinatorConstants DEF Coordinator!source_unavailable
  <2>2. none \in [Canonical -> Int] /\ empty \in Seq(Canonical) /\ \A e \in Canonical : none[e] = -1
    OBVIOUS
  <2>. HIDE DEF none, empty
  <2>3. /\ cut \in RegistryType /\ cut.local = reg.local /\ cut.lists = [reg.lists EXCEPT ![s] = empty]
        /\ cut.until = [reg.until EXCEPT ![s] = none]
    BY <2>0, <2>2 DEF RegistryType
  <2>. HIDE DEF cut
  <2>4. /\ cut.until[s] = none
        /\ \A q \in SourceIds \ {s} : cut.until[q] = reg.until[q] /\ cut.lists[q] = reg.lists[q]
    BY <2>0, <2>3 DEF RegistryType
  <2>5. \A q \in SourceIds : Given(cut, q) \subseteq ToSet(cut.lists[q])
    BY <2>0, <2>2, <2>4 DEF Backed, Given
  <2>6. \A q \in SourceIds : \A x \in Canonical : cut.until[q][x] # -1 =>
          cut.until[q][x] = reg.until[q][x] /\ (x \notin cut.local)
    BY <2>0, <2>2, <2>3, <2>4 DEF Backed
  <2>7. SoundRegistry(Coordinator!Pruned(cut)) /\ Coordinator!Pruned(cut).until = cut.until /\ Coordinator!Pruned(cut).local = cut.local
    BY <2>3, <2>5, <2>6, ShrinkFacts
  <2>. QED BY <1>2, <2>1, <2>2, <2>3, <2>4, <2>7 DEF Taken
<1>. QED BY <1>1, <1>2

LEMMA LocalFacts ==
    ASSUME NEW reg, SoundRegistry(reg)
    PROVE  LET new == Coordinator!set_local_endpoints(reg)
           IN  /\ SoundRegistry(new) /\ new.local = LocalEndpoints
               /\ \A s \in SourceIds : \A e \in Canonical :
                     new.until[s][e] = IF e \in LocalEndpoints THEN -1 ELSE reg.until[s][e]
<1>. DEFINE until == [s \in SourceIds |-> [e \in Canonical |-> IF e \in LocalEndpoints THEN -1 ELSE reg.until[s][e]]]
            cut == [reg EXCEPT !.local = LocalEndpoints, !.until = until]
<1>0. reg \in RegistryType /\ Backed(reg)
  BY DEF SoundRegistry
<1>1. Coordinator!set_local_endpoints(reg) = Coordinator!Pruned(cut)
  <2>1. cut = [reg EXCEPT !.local = LocalEndpoints,
                 !.until = [s \in SourceIds |-> [e \in Canonical |-> IF e \in LocalEndpoints THEN -1 ELSE @[s][e]]]]
    BY <1>0 DEF RegistryType
  <2>. HIDE DEF cut
  <2>. QED BY <2>1, CoordinatorConstants DEF Coordinator!set_local_endpoints
<1>2. /\ until \in [SourceIds -> [Canonical -> Int]]
      /\ \A s \in SourceIds : \A e \in Canonical : until[s][e] = IF e \in LocalEndpoints THEN -1 ELSE reg.until[s][e]
  BY <1>0 DEF RegistryType
<1>. HIDE DEF until
<1>3. cut \in RegistryType /\ cut.local = LocalEndpoints /\ cut.lists = reg.lists /\ cut.until = until
  BY <1>0, <1>2 DEF RegistryType
<1>. HIDE DEF cut
<1>4. \A s \in SourceIds : Given(cut, s) \subseteq ToSet(cut.lists[s])
  BY <1>0, <1>2, <1>3 DEF Backed, Given
<1>5. \A s \in SourceIds : \A e \in Canonical : cut.until[s][e] # -1 =>
        cut.until[s][e] = reg.until[s][e] /\ (e \notin cut.local)
  BY <1>2, <1>3
<1>6. SoundRegistry(Coordinator!Pruned(cut)) /\ Coordinator!Pruned(cut).until = cut.until /\ Coordinator!Pruned(cut).local = cut.local
  BY <1>3, <1>4, <1>5, ShrinkFacts
<1>. QED BY <1>1, <1>2, <1>3, <1>6

LEMMA ExpireFacts ==
    ASSUME NEW reg, SoundRegistry(reg), now \in Nat
    PROVE  LET new == Coordinator!expire(reg)
           IN  /\ SoundRegistry(new) /\ new.local = reg.local
               /\ \A s \in SourceIds : \A e \in Canonical :
                     new.until[s][e] = IF reg.until[s][e] > now THEN reg.until[s][e] ELSE -1
<1>. DEFINE until == [s \in SourceIds |-> [e \in Canonical |-> IF reg.until[s][e] > now THEN reg.until[s][e] ELSE -1]]
            cut == [reg EXCEPT !.until = until]
<1>0. reg \in RegistryType /\ Backed(reg)
  BY DEF SoundRegistry
<1>1. Coordinator!expire(reg) = Coordinator!Pruned(cut)
  <2>1. cut = [reg EXCEPT
                 !.until = [s \in SourceIds |-> [e \in Canonical |-> IF @[s][e] > now THEN @[s][e] ELSE -1]]]
    BY <1>0 DEF RegistryType
  <2>. HIDE DEF cut
  <2>. QED BY <2>1, CoordinatorConstants DEF Coordinator!expire
<1>2. /\ until \in [SourceIds -> [Canonical -> Int]]
      /\ \A s \in SourceIds : \A e \in Canonical : until[s][e] = IF reg.until[s][e] > now THEN reg.until[s][e] ELSE -1
  BY <1>0 DEF RegistryType
<1>. HIDE DEF until
<1>3. cut \in RegistryType /\ cut.local = reg.local /\ cut.lists = reg.lists /\ cut.until = until
  BY <1>0, <1>2 DEF RegistryType
<1>. HIDE DEF cut
<1>4. \A s \in SourceIds : Given(cut, s) \subseteq ToSet(cut.lists[s])
  BY <1>0, <1>2, <1>3 DEF Backed, Given
<1>5. \A s \in SourceIds : \A e \in Canonical : cut.until[s][e] # -1 =>
        cut.until[s][e] = reg.until[s][e] /\ (e \notin cut.local)
  BY <1>0, <1>2, <1>3 DEF Backed
<1>6. SoundRegistry(Coordinator!Pruned(cut)) /\ Coordinator!Pruned(cut).until = cut.until /\ Coordinator!Pruned(cut).local = cut.local
  BY <1>3, <1>4, <1>5, ShrinkFacts
<1>. QED BY <1>1, <1>2, <1>3, <1>6

-----------------------------------------------------------------------------
(* The invariant of the coordinator. *)

\* Of an observing source, later views are observed later.
Shown(s, shown, view, time) ==
    /\ view \in shown
    /\ \A v \in shown : v \in Seq(Observations(time))
    /\ s \in Observing => \A v \in shown : \A i \in DOMAIN v, j \in DOMAIN view : v[i].at <= view[j].at

NotLater(reg, s, view) ==
    s \in Observing /\ Ttl[s] # 0 =>
        \A e \in Canonical : reg.until[s][e] # -1 => \A j \in DOMAIN view : reg.until[s][e] - Ttl[s] <= view[j].at

WholeView(reg, s, shown, time) ==
    s \in Observing => \E v \in shown \cup {<<>>} : Contributes(reg, s, v, time)

CommandOf(c, s, shown) ==
    \/ c = [kind |-> "unavailable", source |-> s]
    \/ \E v \in shown : c = [kind |-> "snapshot", source |-> s, view |-> v]
    \/ s \notin Observing /\ \E v \in shown : c = [kind |-> "replace", source |-> s, view |-> v]
    \/ s \notin Observing /\ \E p \in DOMAIN Spellings : c = [kind |-> "add", source |-> s, peer |-> p]
    \/ s \notin Observing /\ \E p \in DOMAIN Spellings : c = [kind |-> "remove", source |-> s, peer |-> p]

IsCommand(c, shown) == c = [kind |-> "local"] \/ \E s \in SourceIds : CommandOf(c, s, shown[s])

TaskOf(task, s, shown) ==
    /\ task \in [phase : {"watching", "retry", "ended"}, hand : {task.hand}, current : BOOLEAN]
    /\ task.hand = <<>> \/ \E c : task.hand = <<c>> /\ CommandOf(c, s, shown)

\* What a command makes of the endpoints that a source names.
Effect(c, s, named) ==
    IF c.kind = "local" \/ c.source # s THEN named
    ELSE IF c.kind \in {"snapshot", "replace"} THEN Naming(c.view)
    ELSE IF c.kind = "add" THEN named \cup ({Spellings[c.peer]} \ {Invalid})
    ELSE IF c.kind = "remove" THEN named \ {Spellings[c.peer]}
    ELSE {}

\* The commands under way lead from what a source contributes to what it shows.
Path(path, s, reg, cs, task, view) ==
    /\ path \in [0..Len(cs) -> SUBSET Canonical]
    /\ \A k \in 1..Len(cs) : path[k] = Effect(cs[k], s, path[k - 1])
    /\ Ttl[s] = 0 /\ task.current => Given(reg, s) = path[0] \ reg.local
    /\ task.phase = "watching" =>
         Naming(view) = IF task.hand = <<>> THEN path[Len(cs)] ELSE Effect(task.hand[1], s, path[Len(cs)])

SourceInv(s, reg, cs, task, view, shown, time) ==
    /\ TaskOf(task, s, shown) /\ Shown(s, shown, view, time)
    /\ Leases(reg, s, time) /\ NotLater(reg, s, view) /\ WholeView(reg, s, shown, time)
    /\ \E path : Path(path, s, reg, cs, task, view)

Queue(cs, shown) == (\E C : cs \in Seq(C)) /\ \A i \in DOMAIN cs : IsCommand(cs[i], shown)

CoordinatorInv ==
    /\ now \in 0..LastTime
    /\ SoundRegistry(registry) /\ published = registry.order
    /\ Queue(commands, held)
    /\ tasks = [s \in SourceIds |-> tasks[s]] /\ views = [s \in SourceIds |-> views[s]]
    /\ held = [s \in SourceIds |-> held[s]]
    /\ \A s \in SourceIds : SourceInv(s, registry, commands, tasks[s], views[s], held[s], now)

-----------------------------------------------------------------------------
(* Commands. *)

Good(reg, s) == Leases(reg, s, now) /\ NotLater(reg, s, views[s]) /\ WholeView(reg, s, held[s], now)

\* The contribution of a source after a command, from the one before it.
Carries(c, s, before, ok, reg) ==
    \A named \in SUBSET Canonical :
        /\ Ttl[s] = 0
        /\ IF c.kind = "local" \/ c.source # s THEN Given(before, s) = named \ before.local
           ELSE IF c.kind \in {"snapshot", "replace"} THEN ok
           ELSE Given(before, s) = named \ before.local /\ ok /\ c.kind # "unavailable"
        => Given(reg, s) = Effect(c, s, named) \ reg.local

Applied(c, before, r) ==
    /\ r = [ok |-> r.ok, reg |-> r.reg] /\ r.ok \in BOOLEAN /\ SoundRegistry(r.reg)
    /\ r.reg.local = IF c.kind = "local" THEN LocalEndpoints ELSE before.local
    /\ \A s \in SourceIds : Good(r.reg, s) /\ Carries(c, s, before, r.ok, r.reg)

LEMMA SameSource ==
    ASSUME NEW reg, NEW new, NEW s, new.until[s] = reg.until[s], new.local = reg.local
    PROVE  (Good(reg, s) => Good(new, s)) /\ Given(new, s) = Given(reg, s)
BY DEF Good, Leases, NotLater, WholeView, Contributes, Given

LEMMA RefusedApplies ==
    ASSUME NEW reg, SoundRegistry(reg), \A s \in SourceIds : Good(reg, s),
           NEW c, c.kind # "local"
    PROVE  Applied(c, reg, [ok |-> FALSE, reg |-> reg])
<1>. DEFINE r == [ok |-> FALSE, reg |-> reg]
<1>1. r.ok = FALSE /\ r.reg = reg /\ r = [ok |-> r.ok, reg |-> r.reg]
  OBVIOUS
<1>2. \A s \in SourceIds : Carries(c, s, reg, FALSE, reg)
  BY DEF Carries, Effect
<1>. HIDE DEF r
<1>. QED BY <1>1, <1>2 DEF Applied, r

LEMMA TakenApplies ==
    ASSUME NEW reg, SoundRegistry(reg), \A s \in SourceIds : Good(reg, s),
           NEW c, c.kind # "local", NEW s \in SourceIds, c.source = s,
           NEW new, Taken(reg, s, new), Good(new, s), Carries(c, s, reg, TRUE, new)
    PROVE  Applied(c, reg, [ok |-> TRUE, reg |-> new])
<1>. DEFINE r == [ok |-> TRUE, reg |-> new]
<1>1. r.ok = TRUE /\ r.reg = new /\ r = [ok |-> r.ok, reg |-> r.reg]
  OBVIOUS
<1>2. ASSUME NEW q \in SourceIds \ {s} PROVE Good(new, q) /\ Carries(c, q, reg, TRUE, new)
  <2>1. Good(new, q) /\ Given(new, q) = Given(reg, q) /\ new.local = reg.local
    BY SameSource DEF Taken
  <2>2. Carries(c, q, reg, TRUE, new)
    BY <2>1 DEF Carries, Effect
  <2>. QED BY <2>1, <2>2
<1>3. \A q \in SourceIds : Good(new, q) /\ Carries(c, q, reg, TRUE, new)
  BY <1>2
<1>. HIDE DEF r
<1>. QED BY <1>1, <1>3 DEF Applied, Taken, r

LEMMA SnapshotApplies ==
    ASSUME NEW reg, SoundRegistry(reg), \A s \in SourceIds : Good(reg, s), now \in 0..LastTime,
           NEW s \in SourceIds, Shown(s, held[s], views[s], now), NEW v \in held[s],
           NEW c, c.kind = "snapshot", c.source = s, c.view = v
    PROVE  Applied(c, reg, Coordinator!replace_snapshot(reg, s, v))
<1>. DEFINE r == Coordinator!replace_snapshot(reg, s, v)
<1>1. v \in Seq(Observations(now))
  BY DEF Shown
<1>2. \/ r = [ok |-> FALSE, reg |-> reg]
      \/ /\ r = [ok |-> TRUE, reg |-> r.reg] /\ Taken(reg, s, r.reg) /\ Leases(r.reg, s, now)
         /\ Ttl[s] = 0 => Given(r.reg, s) = Naming(v) \ reg.local
         /\ s \in Observing => Contributes(r.reg, s, v, now) /\ ShownBy(r.reg, s, v)
  BY <1>1, ReplaceSnapshot
<1>. HIDE DEF r
<1>3. CASE r = [ok |-> FALSE, reg |-> reg]
  BY <1>3, RefusedApplies DEF r
<1>4. CASE /\ r = [ok |-> TRUE, reg |-> r.reg] /\ Taken(reg, s, r.reg) /\ Leases(r.reg, s, now)
           /\ Ttl[s] = 0 => Given(r.reg, s) = Naming(v) \ reg.local
           /\ s \in Observing => Contributes(r.reg, s, v, now) /\ ShownBy(r.reg, s, v)
  <2>1. WholeView(r.reg, s, held[s], now)
    BY <1>4 DEF WholeView
  <2>2. NotLater(r.reg, s, views[s])
    <3>. SUFFICES ASSUME s \in Observing, Ttl[s] # 0, NEW e \in Canonical, r.reg.until[s][e] # -1,
                         NEW j \in DOMAIN views[s]
                  PROVE  r.reg.until[s][e] - Ttl[s] <= views[s][j].at
      BY DEF NotLater
    <3>1. PICK i \in DOMAIN v : r.reg.until[s][e] - Ttl[s] = v[i].at
      BY <1>4 DEF ShownBy
    <3>. QED BY <3>1 DEF Shown
  <2>3. Carries(c, s, reg, TRUE, r.reg)
    BY <1>4 DEF Carries, Effect, Taken
  <2>4. Good(r.reg, s)
    BY <1>4, <2>1, <2>2 DEF Good
  <2>5. Applied(c, reg, [ok |-> TRUE, reg |-> r.reg])
    BY <1>4, <2>3, <2>4, TakenApplies
  <2>. QED BY <1>4, <2>5 DEF r
<1>. QED BY <1>2, <1>3, <1>4

LEMMA ReplaceApplies ==
    ASSUME NEW reg, SoundRegistry(reg), \A s \in SourceIds : Good(reg, s), now \in 0..LastTime,
           NEW s \in SourceIds, s \notin Observing, Shown(s, held[s], views[s], now), NEW v \in held[s],
           NEW c, c.kind = "replace", c.source = s, c.view = v
    PROVE  Applied(c, reg, Coordinator!replace_source(reg, s, v))
<1>. DEFINE r == Coordinator!replace_source(reg, s, v)
<1>1. v \in Seq(Observations(now))
  BY DEF Shown
<1>2. \/ r = [ok |-> FALSE, reg |-> reg]
      \/ /\ r = [ok |-> TRUE, reg |-> r.reg] /\ Taken(reg, s, r.reg) /\ Leases(r.reg, s, now)
         /\ Given(r.reg, s) = Naming(v) \ reg.local
  BY <1>1, ReplaceSource
<1>. HIDE DEF r
<1>3. CASE r = [ok |-> FALSE, reg |-> reg]
  BY <1>3, RefusedApplies DEF r
<1>4. CASE /\ r = [ok |-> TRUE, reg |-> r.reg] /\ Taken(reg, s, r.reg) /\ Leases(r.reg, s, now)
           /\ Given(r.reg, s) = Naming(v) \ reg.local
  <2>1. Good(r.reg, s)
    BY <1>4 DEF Good, NotLater, WholeView
  <2>2. Carries(c, s, reg, TRUE, r.reg)
    BY <1>4 DEF Carries, Effect, Taken
  <2>3. Applied(c, reg, [ok |-> TRUE, reg |-> r.reg])
    BY <1>4, <2>1, <2>2, TakenApplies
  <2>. QED BY <1>4, <2>3 DEF r
<1>. QED BY <1>2, <1>3, <1>4

LEMMA AddApplies ==
    ASSUME NEW reg, SoundRegistry(reg), \A s \in SourceIds : Good(reg, s), now \in 0..LastTime,
           NEW s \in SourceIds, s \notin Observing, NEW e \in Canonical,
           NEW c, c.kind = "add", c.source = s, Spellings[c.peer] = e
    PROVE  Applied(c, reg, Coordinator!add(reg, s, e))
<1>. DEFINE r == Coordinator!add(reg, s, e)
            lease == IF Ttl[s] = 0 THEN Unlimited ELSE now + Ttl[s]
<1>0. e # Invalid /\ Ttl[s] \in Nat /\ now \in Nat /\ Unlimited \in Nat
  BY CoordinatorConstants DEF Canonical
<1>1. \/ r = [ok |-> FALSE, reg |-> reg]
      \/ e \in reg.local /\ r = [ok |-> TRUE, reg |-> reg]
      \/ /\ e \notin reg.local /\ r = [ok |-> TRUE, reg |-> r.reg] /\ Taken(reg, s, r.reg)
         /\ \A x \in Canonical : r.reg.until[s][x] = IF x # e THEN reg.until[s][x] ELSE lease
  BY AddFacts
<1>1a. lease \in Nat /\ lease # -1 /\ (IF Ttl[s] = 0 THEN lease = Unlimited ELSE lease - Ttl[s] \in 0..now)
  BY <1>0
<1>. HIDE DEF r, lease
<1>2. CASE r = [ok |-> FALSE, reg |-> reg]
  BY <1>2, RefusedApplies DEF r
<1>3. CASE e \in reg.local /\ r = [ok |-> TRUE, reg |-> reg]
  <2>1. Taken(reg, s, reg)
    BY DEF Taken
  <2>2. Carries(c, s, reg, TRUE, reg)
    BY <1>0, <1>3 DEF Carries, Effect
  <2>3. Applied(c, reg, [ok |-> TRUE, reg |-> reg])
    BY <2>1, <2>2, TakenApplies
  <2>. QED BY <1>3, <2>3 DEF r
<1>4. CASE /\ e \notin reg.local /\ r = [ok |-> TRUE, reg |-> r.reg] /\ Taken(reg, s, r.reg)
           /\ \A x \in Canonical : r.reg.until[s][x] = IF x # e THEN reg.until[s][x] ELSE lease
  <2>1. Leases(r.reg, s, now)
    BY <1>1a, <1>4 DEF Leases, Good
  <2>2. Good(r.reg, s)
    BY <2>1 DEF Good, NotLater, WholeView
  <2>3. Given(r.reg, s) = Given(reg, s) \cup {e}
    BY <1>1a, <1>4 DEF Given
  <2>4. Carries(c, s, reg, TRUE, r.reg)
    BY <1>0, <1>4, <2>3 DEF Carries, Effect, Taken
  <2>5. Applied(c, reg, [ok |-> TRUE, reg |-> r.reg])
    BY <1>4, <2>2, <2>4, TakenApplies
  <2>. QED BY <1>4, <2>5 DEF r
<1>. QED BY <1>1, <1>2, <1>3, <1>4

LEMMA RemoveApplies ==
    ASSUME NEW reg, SoundRegistry(reg), \A s \in SourceIds : Good(reg, s),
           NEW s \in SourceIds, s \notin Observing, NEW e \in Canonical,
           NEW c, c.kind = "remove", c.source = s, Spellings[c.peer] = e
    PROVE  Applied(c, reg, [ok |-> TRUE, reg |-> Coordinator!remove(reg, s, e)])
<1>. DEFINE new == Coordinator!remove(reg, s, e)
<1>1. Taken(reg, s, new) /\ \A x \in Canonical : new.until[s][x] = IF x = e THEN -1 ELSE reg.until[s][x]
  BY RemoveFacts
<1>. HIDE DEF new
<1>2. Leases(new, s, now)
  BY <1>1 DEF Leases, Good
<1>3. Good(new, s)
  BY <1>2 DEF Good, NotLater, WholeView
<1>4. Given(new, s) = Given(reg, s) \ {e}
  BY <1>1 DEF Given
<1>5. Carries(c, s, reg, TRUE, new)
  BY <1>1, <1>4 DEF Carries, Effect, Taken
<1>. QED BY <1>1, <1>3, <1>5, TakenApplies DEF new

LEMMA UnavailableApplies ==
    ASSUME NEW reg, SoundRegistry(reg), \A s \in SourceIds : Good(reg, s), now \in 0..LastTime,
           NEW s \in SourceIds, NEW c, c.kind = "unavailable", c.source = s
    PROVE  Applied(c, reg, [ok |-> TRUE, reg |-> Coordinator!source_unavailable(reg, s)])
<1>. DEFINE new == Coordinator!source_unavailable(reg, s)
<1>1. IF Ttl[s] # 0 THEN new = reg ELSE Taken(reg, s, new) /\ \A x \in Canonical : new.until[s][x] = -1
  BY UnavailableFacts
<1>. HIDE DEF new
<1>2. Taken(reg, s, new)
  BY <1>1 DEF Taken
<1>3. Carries(c, s, reg, TRUE, new)
  BY DEF Carries
<1>4. CASE Ttl[s] # 0
  BY <1>1, <1>2, <1>3, <1>4, TakenApplies DEF new
<1>5. CASE Ttl[s] = 0
  <2>1. Leases(new, s, now) /\ NotLater(new, s, views[s])
    BY <1>1, <1>5 DEF Leases, NotLater
  <2>2. WholeView(new, s, held[s], now)
    <3>. DEFINE empty == <<>>
    <3>1. DOMAIN empty = {} /\ empty \in held[s] \cup {<<>>}
      OBVIOUS
    <3>. HIDE DEF empty
    <3>2. \A t \in now..LastTime : ~(-1 > t)
      OBVIOUS
    <3>3. Contributes(new, s, empty, now)
      BY <1>1, <1>5, <3>1, <3>2 DEF Contributes, NamedAfter
    <3>. QED BY <3>1, <3>3 DEF WholeView
  <2>. QED BY <1>2, <1>3, <2>1, <2>2, TakenApplies DEF Good, new
<1>. QED BY <1>4, <1>5

LEMMA LocalApplies ==
    ASSUME NEW reg, SoundRegistry(reg), \A s \in SourceIds : Good(reg, s), now \in 0..LastTime,
           NEW c, c.kind = "local"
    PROVE  Applied(c, reg, [ok |-> TRUE, reg |-> Coordinator!set_local_endpoints(reg)])
<1>. DEFINE new == Coordinator!set_local_endpoints(reg)
            r == [ok |-> TRUE, reg |-> new]
<1>1. /\ SoundRegistry(new) /\ new.local = LocalEndpoints
      /\ \A s \in SourceIds : \A e \in Canonical :
            new.until[s][e] = IF e \in LocalEndpoints THEN -1 ELSE reg.until[s][e]
  BY LocalFacts
<1>2. reg.local \subseteq LocalEndpoints
  BY DEF SoundRegistry, RegistryType
<1>. HIDE DEF new
<1>3. ASSUME NEW s \in SourceIds PROVE Good(new, s) /\ Carries(c, s, reg, TRUE, new)
  <2>1. Leases(new, s, now)
    BY <1>1, <1>3 DEF Good, Leases
  <2>2. NotLater(new, s, views[s])
    BY <1>1, <1>3 DEF Good, NotLater
  <2>3. WholeView(new, s, held[s], now)
    <3>. SUFFICES ASSUME s \in Observing PROVE \E v \in held[s] \cup {<<>>} : Contributes(new, s, v, now)
      BY DEF WholeView
    <3>1. PICK v \in held[s] \cup {<<>>} : Contributes(reg, s, v, now)
      BY DEF Good, WholeView
    <3>2. \A t \in now..LastTime : ~(-1 > t)
      OBVIOUS
    <3>3. Contributes(new, s, v, now)
      BY <1>1, <1>2, <3>1, <3>2 DEF Contributes
    <3>. QED BY <3>3
  <2>4. Given(new, s) = Given(reg, s) \ LocalEndpoints
    BY <1>1 DEF Given
  <2>5. Carries(c, s, reg, TRUE, new)
    BY <1>1, <1>2, <2>4 DEF Carries, Effect
  <2>. QED BY <2>1, <2>2, <2>3, <2>5 DEF Good
<1>4. r.ok = TRUE /\ r.reg = new /\ r = [ok |-> r.ok, reg |-> r.reg]
  OBVIOUS
<1>. HIDE DEF r
<1>5. Applied(c, reg, r)
  BY <1>1, <1>3, <1>4 DEF Applied
<1>. QED BY <1>5 DEF r, new

LEMMA SourcesGood ==
    ASSUME CoordinatorInv
    PROVE  /\ now \in 0..LastTime /\ now \in Nat /\ SoundRegistry(registry)
           /\ \A s \in SourceIds : Good(registry, s) /\ Shown(s, held[s], views[s], now)
BY CoordinatorConstants DEF CoordinatorInv, SourceInv, Good

LEMMA ApplyKeeps ==
    ASSUME CoordinatorInv, NEW c, IsCommand(c, held)
    PROVE  Applied(c, registry, Coordinator!Apply(c))
<1>0. /\ now \in 0..LastTime /\ SoundRegistry(registry)
      /\ \A s \in SourceIds : Good(registry, s)
      /\ \A s \in SourceIds : Shown(s, held[s], views[s], now)
  BY SourcesGood
<1>1. CASE c = [kind |-> "local"]
  <2>1. c.kind = "local"
    BY <1>1
  <2>2. Coordinator!Apply(c) = [ok |-> TRUE, reg |-> Coordinator!set_local_endpoints(registry)]
    BY <2>1 DEF Coordinator!Apply
  <2>. QED BY <1>0, <2>1, <2>2, LocalApplies
<1>2. ASSUME NEW s \in SourceIds, CommandOf(c, s, held[s]) PROVE Applied(c, registry, Coordinator!Apply(c))
  <2>1. CASE c = [kind |-> "unavailable", source |-> s]
    <3>1. c.kind = "unavailable" /\ c.source = s
      BY <2>1
    <3>2. Coordinator!Apply(c) = [ok |-> TRUE, reg |-> Coordinator!source_unavailable(registry, s)]
      BY <3>1 DEF Coordinator!Apply
    <3>. QED BY <1>0, <3>1, <3>2, UnavailableApplies
  <2>2. ASSUME NEW v \in held[s], c = [kind |-> "snapshot", source |-> s, view |-> v] PROVE Applied(c, registry, Coordinator!Apply(c))
    <3>1. c.kind = "snapshot" /\ c.source = s /\ c.view = v
      BY <2>2
    <3>2. Coordinator!Apply(c) = Coordinator!replace_snapshot(registry, s, v)
      BY <3>1 DEF Coordinator!Apply
    <3>. QED BY <1>0, <3>1, <3>2, SnapshotApplies
  <2>3. ASSUME NEW v \in held[s], s \notin Observing, c = [kind |-> "replace", source |-> s, view |-> v]
        PROVE  Applied(c, registry, Coordinator!Apply(c))
    <3>1. c.kind = "replace" /\ c.source = s /\ c.view = v
      BY <2>3
    <3>2. Coordinator!Apply(c) = Coordinator!replace_source(registry, s, v)
      BY <3>1 DEF Coordinator!Apply
    <3>. QED BY <1>0, <2>3, <3>1, <3>2, ReplaceApplies
  <2>4. ASSUME NEW p \in DOMAIN Spellings, s \notin Observing, c = [kind |-> "add", source |-> s, peer |-> p]
        PROVE  Applied(c, registry, Coordinator!Apply(c))
    <3>1. c.kind = "add" /\ c.source = s /\ c.peer = p
      BY <2>4
    <3>2. Coordinator!Apply(c) = IF Spellings[p] = Invalid THEN [ok |-> FALSE, reg |-> registry] ELSE Coordinator!add(registry, s, Spellings[p])
      BY <3>1 DEF Coordinator!Apply, Coordinator!canonicalize_endpoint
    <3>3. CASE Spellings[p] = Invalid
      BY <1>0, <3>1, <3>2, <3>3, RefusedApplies
    <3>4. CASE Spellings[p] # Invalid
      <4>1. Spellings[p] \in Canonical
        BY <3>4 DEF Canonical
      <4>. QED BY <1>0, <2>4, <3>1, <3>2, <3>4, <4>1, AddApplies
    <3>. QED BY <3>3, <3>4
  <2>5. ASSUME NEW p \in DOMAIN Spellings, s \notin Observing, c = [kind |-> "remove", source |-> s, peer |-> p]
        PROVE  Applied(c, registry, Coordinator!Apply(c))
    <3>1. c.kind = "remove" /\ c.source = s /\ c.peer = p
      BY <2>5
    <3>2. Coordinator!Apply(c) = IF Spellings[p] = Invalid THEN [ok |-> FALSE, reg |-> registry]
                      ELSE [ok |-> TRUE, reg |-> Coordinator!remove(registry, s, Spellings[p])]
      BY <3>1 DEF Coordinator!Apply, Coordinator!canonicalize_endpoint
    <3>3. CASE Spellings[p] = Invalid
      BY <1>0, <3>1, <3>2, <3>3, RefusedApplies
    <3>4. CASE Spellings[p] # Invalid
      <4>1. Spellings[p] \in Canonical
        BY <3>4 DEF Canonical
      <4>. QED BY <1>0, <2>5, <3>1, <3>2, <3>4, <4>1, RemoveApplies
    <3>. QED BY <3>3, <3>4
  <2>. QED BY <1>2, <2>1, <2>2, <2>3, <2>4, <2>5 DEF CommandOf
<1>. QED BY <1>1, <1>2 DEF IsCommand

LEMMA PublishKeeps ==
    ASSUME SoundRegistry(registry), published = registry.order, NEW new, SoundRegistry(new), Coordinator!Publish(new)
    PROVE  registry' = new /\ published' = new.order
<1>1. Coordinator!endpoints(registry) = registry.order /\ Coordinator!endpoints(new) = new.order
  BY EndpointsAre
<1>. QED BY <1>1 DEF Coordinator!Publish

LEMMA NamingIs ==
    ASSUME NEW T, NEW view \in Seq([peer : DOMAIN Spellings, at : T])
    PROVE  Naming(view) \subseteq Canonical
<1>1. \A i \in DOMAIN view : view[i].peer \in DOMAIN Spellings
  BY ViewPeers
<1>. QED BY <1>1 DEF Naming, Canonical

LEMMA EffectNames ==
    ASSUME NEW c, NEW q, NEW shown, NEW time, CommandOf(c, q, shown), \A v \in shown : v \in Seq(Observations(time)),
           NEW s, NEW named \in SUBSET Canonical
    PROVE  Effect(c, s, named) \in SUBSET Canonical
<1>1. \A v \in shown : Naming(v) \subseteq Canonical
  BY NamingIs DEF Observations
<1>2. \A p \in DOMAIN Spellings : {Spellings[p]} \ {Invalid} \subseteq Canonical
  BY DEF Canonical
<1>3. CASE c = [kind |-> "unavailable", source |-> q]
  BY <1>3 DEF Effect
<1>4. ASSUME NEW v \in shown, c = [kind |-> "snapshot", source |-> q, view |-> v] \/ c = [kind |-> "replace", source |-> q, view |-> v]
      PROVE  Effect(c, s, named) \in SUBSET Canonical
  <2>1. c.kind \in {"snapshot", "replace"} /\ c.view = v
    BY <1>4
  <2>. QED BY <1>1, <2>1 DEF Effect
<1>5. ASSUME NEW p \in DOMAIN Spellings, c = [kind |-> "add", source |-> q, peer |-> p]
      PROVE  Effect(c, s, named) \in SUBSET Canonical
  <2>1. c.kind = "add" /\ c.peer = p
    BY <1>5
  <2>. QED BY <1>2, <2>1 DEF Effect
<1>6. ASSUME NEW p \in DOMAIN Spellings, c = [kind |-> "remove", source |-> q, peer |-> p]
      PROVE  Effect(c, s, named) \in SUBSET Canonical
  <2>1. c.kind = "remove" /\ c.peer = p
    BY <1>6
  <2>. QED BY <2>1 DEF Effect
<1>. QED BY <1>3, <1>4, <1>5, <1>6 DEF CommandOf

\* The first command is applied.
LEMMA PathAdvances ==
    ASSUME NEW path, NEW s, NEW reg, NEW C, NEW cs \in Seq(C), NEW task, NEW view, Path(path, s, reg, cs, task, view), cs # <<>>,
           NEW reg2, NEW task2, task2.phase = task.phase, task2.hand = task.hand,
           Ttl[s] = 0 /\ task2.current => Given(reg2, s) = path[1] \ reg2.local
    PROVE  \E path2 : Path(path2, s, reg2, Tail(cs), task2, view)
<1>. DEFINE path2 == [k \in 0..(Len(cs) - 1) |-> path[k + 1]]
            rest == Tail(cs)
<1>1. Len(cs) \in Nat /\ Len(cs) >= 1 /\ Len(rest) = Len(cs) - 1 /\ \A k \in 1..(Len(cs) - 1) : rest[k] = cs[k + 1]
  OBVIOUS
<1>2. path \in [0..Len(cs) -> SUBSET Canonical] /\ \A k \in 1..Len(cs) : path[k] = Effect(cs[k], s, path[k - 1])
  BY DEF Path
<1>3. path2 \in [0..Len(rest) -> SUBSET Canonical] /\ path2[0] = path[1] /\ path2[Len(rest)] = path[Len(cs)]
  BY <1>1, <1>2
<1>4. ASSUME NEW k \in 1..Len(rest) PROVE path2[k] = Effect(rest[k], s, path2[k - 1])
  <2>1. k + 1 \in 1..Len(cs) /\ (k + 1) - 1 = k /\ k \in 0..(Len(cs) - 1) /\ k - 1 \in 0..(Len(cs) - 1)
    BY <1>1
  <2>2. path2[k] = path[k + 1] /\ path2[k - 1] = path[k] /\ rest[k] = cs[k + 1]
    BY <1>1, <2>1
  <2>3. path[k + 1] = Effect(cs[k + 1], s, path[(k + 1) - 1])
    BY <1>2, <2>1
  <2>. HIDE DEF path2, rest
  <2>. QED BY <2>1, <2>2, <2>3
<1>. HIDE DEF path2, rest
<1>5. Path(path2, s, reg2, rest, task2, view)
  BY <1>3, <1>4 DEF Path
<1>. QED BY <1>5 DEF rest

\* A command is queued.
LEMMA PathExtends ==
    ASSUME NEW path, NEW s, NEW reg, NEW C, NEW cs \in Seq(C), NEW task, NEW view, Path(path, s, reg, cs, task, view),
           NEW h, \A named \in SUBSET Canonical : Effect(h, s, named) \in SUBSET Canonical,
           NEW task2, task2.phase = task.phase, task2.current = task.current,
           \/ task.hand = <<h>> /\ task2.hand = <<>>
           \/ task2.hand = task.hand /\ (h.kind = "local" \/ h.source # s)
    PROVE  \E path2 : Path(path2, s, reg, Append(cs, h), task2, view)
<1>. DEFINE n == Len(cs)
            last == Effect(h, s, path[n])
            path2 == [k \in 0..(n + 1) |-> IF k <= n THEN path[k] ELSE last]
            more == Append(cs, h)
<1>1. n \in Nat /\ Len(more) = n + 1 /\ more[n + 1] = h /\ \A k \in 1..n : more[k] = cs[k]
  OBVIOUS
<1>2. path \in [0..n -> SUBSET Canonical] /\ \A k \in 1..n : path[k] = Effect(cs[k], s, path[k - 1])
  BY DEF Path
<1>3. last \in SUBSET Canonical
  BY <1>1, <1>2
<1>. HIDE DEF last
<1>4. path2 \in [0..(n + 1) -> SUBSET Canonical] /\ path2[n + 1] = last /\ \A k \in 0..n : path2[k] = path[k]
  BY <1>1, <1>2, <1>3
<1>. HIDE DEF path2, more
<1>5. ASSUME NEW k \in 1..(n + 1) PROVE path2[k] = Effect(more[k], s, path2[k - 1])
  <2>1. CASE k = n + 1
    <3>1. k - 1 = n /\ n \in 0..n
      BY <1>1, <2>1
    <3>. QED BY <1>1, <1>4, <2>1, <3>1 DEF last
  <2>2. CASE k # n + 1
    <3>1. k \in 1..n /\ k \in 0..n /\ k - 1 \in 0..n
      BY <1>1, <2>2
    <3>. QED BY <1>1, <1>2, <1>4, <3>1
  <2>. QED BY <2>1, <2>2
<1>6. path2[0] = path[0] /\ path2[Len(more)] = last
  BY <1>1, <1>4
<1>7. task2.phase = "watching" =>
        Naming(view) = IF task2.hand = <<>> THEN last ELSE Effect(task2.hand[1], s, last)
  <2>. HAVE task2.phase = "watching"
  <2>1. Naming(view) = IF task.hand = <<>> THEN path[n] ELSE Effect(task.hand[1], s, path[n])
    BY DEF Path
  <2>2. CASE task.hand = <<h>> /\ task2.hand = <<>>
    <3>1. task.hand # <<>> /\ task.hand[1] = h
      BY <2>2
    <3>. QED BY <2>1, <2>2, <3>1 DEF last
  <2>3. CASE task2.hand = task.hand /\ (h.kind = "local" \/ h.source # s)
    <3>1. last = path[n]
      BY <2>3 DEF last, Effect
    <3>. QED BY <2>1, <2>3, <3>1
  <2>. QED BY <2>2, <2>3
<1>8. Path(path2, s, reg, more, task2, view)
  BY <1>1, <1>4, <1>5, <1>6, <1>7 DEF Path
<1>. QED BY <1>8 DEF more

\* A source shows another view and its task holds the command.
LEMMA PathShows ==
    ASSUME NEW path, NEW s, NEW reg, NEW cs, NEW task, NEW view, Path(path, s, reg, cs, task, view),
           NEW view2, NEW task2, task2.current = task.current,
           task2.phase = "watching" =>
               Naming(view2) = IF task2.hand = <<>> THEN path[Len(cs)] ELSE Effect(task2.hand[1], s, path[Len(cs)])
    PROVE  Path(path, s, reg, cs, task2, view2)
BY DEF Path

LEMMA CommandsStay ==
    ASSUME NEW c, NEW s, NEW shown, NEW shown2, shown \subseteq shown2, CommandOf(c, s, shown)
    PROVE  CommandOf(c, s, shown2)
<1>1. \A v \in shown : v \in shown2
  OBVIOUS
<1>. QED BY <1>1, Zenon DEF CommandOf

-----------------------------------------------------------------------------
(* Steps of the watch tasks. *)

Phased(task, hand) == task \in [phase : {"watching", "retry", "ended"}, hand : {hand}, current : BOOLEAN]

LEMMA HandChanges ==
    ASSUME NEW task, Phased(task, task.hand), NEW hand
    PROVE  LET new == [task EXCEPT !.hand = hand]
           IN  Phased(new, hand) /\ new.hand = hand /\ new.phase = task.phase /\ new.current = task.current
BY DEF Phased

LEMMA PhaseChanges ==
    ASSUME NEW task, Phased(task, task.hand), NEW phase \in {"watching", "retry", "ended"}
    PROVE  LET new == [task EXCEPT !.phase = phase]
           IN  Phased(new, task.hand) /\ new.hand = task.hand /\ new.phase = phase /\ new.current = task.current
BY DEF Phased

LEMMA CurrentChanges ==
    ASSUME NEW task, Phased(task, task.hand), NEW b \in BOOLEAN
    PROVE  LET new == [task EXCEPT !.current = b]
           IN  Phased(new, task.hand) /\ new.hand = task.hand /\ new.phase = task.phase /\ new.current = b
BY DEF Phased

LEMMA CoordinatorElim ==
    ASSUME CoordinatorInv, NEW s \in SourceIds
    PROVE  /\ now \in 0..LastTime /\ now \in Nat
           /\ Phased(tasks[s], tasks[s].hand)
           /\ tasks[s].hand = <<>> \/ \E c : tasks[s].hand = <<c>> /\ CommandOf(c, s, held[s])
           /\ Shown(s, held[s], views[s], now)
           /\ Leases(registry, s, now) /\ NotLater(registry, s, views[s]) /\ WholeView(registry, s, held[s], now)
           /\ \E path : Path(path, s, registry, commands, tasks[s], views[s])
<1>1. SourceInv(s, registry, commands, tasks[s], views[s], held[s], now) /\ now \in 0..LastTime
  BY DEF CoordinatorInv
<1>2. now \in Nat
  BY <1>1, CoordinatorConstants
<1>. QED BY <1>1, <1>2 DEF SourceInv, TaskOf, Phased

\* A step of one task.
LEMMA OneSource ==
    ASSUME CoordinatorInv, NEW q \in SourceIds, UNCHANGED <<registry, published, commands, now>>,
           NEW task, tasks' = [tasks EXCEPT ![q] = task],
           NEW view, views' = [views EXCEPT ![q] = view],
           NEW shown, held' = [held EXCEPT ![q] = shown], held[q] \subseteq shown,
           SourceInv(q, registry, commands, task, view, shown, now)
    PROVE  CoordinatorInv'
<1>1. /\ tasks' = [s \in SourceIds |-> tasks'[s]] /\ views' = [s \in SourceIds |-> views'[s]]
      /\ held' = [s \in SourceIds |-> held'[s]]
      /\ tasks'[q] = task /\ views'[q] = view /\ held'[q] = shown
      /\ \A s \in SourceIds \ {q} : tasks'[s] = tasks[s] /\ views'[s] = views[s] /\ held'[s] = held[s]
  BY DEF CoordinatorInv
<1>2. ASSUME NEW s \in SourceIds PROVE SourceInv(s, registry', commands', tasks'[s], views'[s], held'[s], now')
  <2>1. CASE s = q
    BY <1>1, <2>1
  <2>2. CASE s # q
    BY <1>1, <2>2 DEF CoordinatorInv
  <2>. QED BY <2>1, <2>2
<1>3. Queue(commands, held')
  <2>1. Queue(commands, held)
    BY DEF CoordinatorInv
  <2>2. \A s \in SourceIds : held[s] \subseteq held'[s]
    BY <1>1
  <2>3. ASSUME NEW c, IsCommand(c, held) PROVE IsCommand(c, held')
    <3>1. ASSUME NEW s \in SourceIds, CommandOf(c, s, held[s]) PROVE CommandOf(c, s, held'[s])
      BY <2>2, <3>1, CommandsStay
    <3>. QED BY <2>3, <3>1 DEF IsCommand
  <2>. QED BY <2>1, <2>3 DEF Queue
<1>. QED BY <1>1, <1>2, <1>3 DEF CoordinatorInv

\* A view that is observed now.
LEMMA ObservedNow ==
    ASSUME NEW s \in SourceIds, NEW shown, NEW view, NEW time \in Nat, Shown(s, shown, view, time),
           NEW new \in Seq(Observations(time)), s \in Observing => \A i \in DOMAIN new : new[i].at = time
    PROVE  Shown(s, shown \cup {new}, new, time)
<1>1. \A v \in shown \cup {new} : v \in Seq(Observations(time))
  BY DEF Shown
<1>2. \A v \in shown \cup {new} : \A i \in DOMAIN v : v[i].at \in 0..time
  BY <1>1, ViewPeers DEF Observations
<1>3. ASSUME s \in Observing, NEW v \in shown \cup {new}, NEW i \in DOMAIN v, NEW j \in DOMAIN new
      PROVE  v[i].at <= new[j].at
  <2>1. v[i].at \in 0..time /\ new[j].at = time
    BY <1>2, <1>3
  <2>. QED BY <2>1
<1>. QED BY <1>1, <1>3 DEF Shown

LEMMA FreshView ==
    ASSUME NEW time \in Nat, NEW peers \in Views
    PROVE  LET new == [i \in DOMAIN peers |-> [peer |-> peers[i], at |-> time]]
           IN  /\ new \in Seq(Observations(time)) /\ DOMAIN new = DOMAIN peers
               /\ \A i \in DOMAIN new : new[i].at = time
<1>. DEFINE new == [i \in DOMAIN peers |-> [peer |-> peers[i], at |-> time]]
<1>1. peers \in Seq(DOMAIN Spellings)
  BY CoordinatorConstants
<1>2. \A i \in 1..Len(peers) : [peer |-> peers[i], at |-> time] \in Observations(time)
  BY <1>1 DEF Observations
<1>3. new = [i \in 1..Len(peers) |-> new[i]] /\ Len(peers) \in Nat /\ \A i \in 1..Len(peers) : new[i] \in Observations(time)
  BY <1>1, <1>2
<1>4. \A i \in DOMAIN new : new[i].at = time
  OBVIOUS
<1>5. new \in Seq(Observations(time))
  <2>. HIDE DEF new
  <2>. QED BY <1>3
<1>. QED BY <1>4, <1>5

\* A task takes a new view and holds a command that shows it.
LEMMA ViewChanges ==
    ASSUME CoordinatorInv, NEW q \in SourceIds, UNCHANGED <<registry, published, commands, now>>,
           NEW c, NEW task, Phased(task, <<c>>), task.hand = <<c>>, task.current = tasks[q].current,
           tasks' = [tasks EXCEPT ![q] = task],
           NEW view \in Seq(Observations(now)), views' = [views EXCEPT ![q] = view],
           view = views[q] \/ (q \in Observing => \A i \in DOMAIN view : view[i].at = now),
           held' = [held EXCEPT ![q] = held[q] \cup {view}],
           CommandOf(c, q, held[q] \cup {view}),
           task.phase = "watching" =>
               \A path : Path(path, q, registry, commands, tasks[q], views[q]) =>
                   Naming(view) = Effect(c, q, path[Len(commands)])
    PROVE  CoordinatorInv'
<1>. DEFINE shown == held[q] \cup {view}
<1>0. now \in Nat /\ Shown(q, held[q], views[q], now)
  BY CoordinatorElim
<1>1. Shown(q, shown, view, now)
  <2>1. CASE view = views[q]
    <3>1. shown = held[q]
      BY <1>0, <2>1 DEF Shown
    <3>. QED BY <1>0, <2>1, <3>1
  <2>2. CASE q \in Observing => \A i \in DOMAIN view : view[i].at = now
    BY <1>0, <2>2, ObservedNow
  <2>. QED BY <2>1, <2>2
<1>2. TaskOf(task, q, shown)
  BY DEF TaskOf, Phased
<1>3. Leases(registry, q, now) /\ WholeView(registry, q, shown, now)
  BY CoordinatorElim DEF WholeView
<1>4. NotLater(registry, q, view)
  <2>1. CASE view = views[q]
    BY <2>1, CoordinatorElim
  <2>2. CASE q \in Observing => \A i \in DOMAIN view : view[i].at = now
    <3>. SUFFICES ASSUME q \in Observing, Ttl[q] # 0, NEW e \in Canonical, registry.until[q][e] # -1, NEW j \in DOMAIN view
                  PROVE  registry.until[q][e] - Ttl[q] <= view[j].at
      BY DEF NotLater
    <3>1. registry.until[q][e] - Ttl[q] \in 0..now
      BY CoordinatorElim DEF Leases
    <3>2. view[j].at = now
      BY <2>2
    <3>. QED BY <1>0, <3>1, <3>2
  <2>. QED BY <2>1, <2>2
<1>5. \E path : Path(path, q, registry, commands, task, view)
  <2>1. PICK path : Path(path, q, registry, commands, tasks[q], views[q])
    BY CoordinatorElim
  <2>2. task.hand # <<>> /\ task.hand[1] = c
    OBVIOUS
  <2>3. Path(path, q, registry, commands, task, view)
    BY <2>1, <2>2, PathShows
  <2>. QED BY <2>3
<1>. HIDE DEF shown
<1>6. SourceInv(q, registry, commands, task, view, shown, now)
  BY <1>1, <1>2, <1>3, <1>4, <1>5 DEF SourceInv
<1>. QED BY <1>6, OneSource DEF shown

LEMMA HoldsTask ==
    ASSUME CoordinatorInv, NEW s \in SourceIds, NEW c, Coordinator!Holding(s, c)
    PROVE  LET task == [tasks[s] EXCEPT !.hand = <<c>>]
           IN  /\ tasks' = [tasks EXCEPT ![s] = task]
               /\ Phased(task, <<c>>) /\ task.hand = <<c>> /\ task.phase = tasks[s].phase /\ task.current = tasks[s].current
<1>1. Phased(tasks[s], tasks[s].hand)
  BY CoordinatorElim
<1>2. tasks' = [tasks EXCEPT ![s] = [tasks[s] EXCEPT !.hand = <<c>>]]
  BY DEF Coordinator!Holding, CoordinatorInv
<1>. QED BY <1>1, <1>2, HandChanges

\* Whole views.
LEMMA WholeViewShown ==
    ASSUME CoordinatorInv, NEW s \in SourceIds, NEW peers \in Views,
           Coordinator!ObserveView(s, peers) \/ Coordinator!ReplaceView(s, peers)
    PROVE  CoordinatorInv'
<1>. DEFINE view == [i \in DOMAIN peers |-> [peer |-> peers[i], at |-> now]]
            kd == IF s \in Observing THEN "snapshot" ELSE "replace"
            c == [kind |-> kd, source |-> s, view |-> view]
            task == [tasks[s] EXCEPT !.hand = <<c>>]
<1>1. Coordinator!Changing(s, view) /\ Coordinator!Holding(s, c)
  BY DEF Coordinator!ObserveView, Coordinator!ReplaceView
<1>2. now \in Nat
  BY CoordinatorElim
<1>3. view \in Seq(Observations(now)) /\ \A i \in DOMAIN view : view[i].at = now
  BY <1>2, FreshView
<1>4. c.kind \in {"snapshot", "replace"} /\ c.kind # "local" /\ c.source = s /\ c.view = view
  OBVIOUS
<1>. HIDE DEF view
<1>5. CommandOf(c, s, held[s] \cup {view})
  BY DEF CommandOf
<1>. HIDE DEF c
<1>6. /\ tasks' = [tasks EXCEPT ![s] = task]
      /\ Phased(task, <<c>>) /\ task.hand = <<c>> /\ task.phase = tasks[s].phase /\ task.current = tasks[s].current
  BY <1>1, HoldsTask
<1>7. views' = [views EXCEPT ![s] = view] /\ held' = [held EXCEPT ![s] = held[s] \cup {view}]
      /\ UNCHANGED <<registry, published, commands, now>>
  BY <1>1 DEF Coordinator!Changing, CoordinatorInv
<1>8. \A named : Naming(view) = Effect(c, s, named)
  BY <1>4 DEF Effect
<1>. HIDE DEF task
<1>. QED BY <1>3, <1>5, <1>6, <1>7, <1>8, ViewChanges

LEMMA InNaming ==
    ASSUME NEW view, NEW e
    PROVE  e \in Naming(view) <=> e # Invalid /\ \E i \in DOMAIN view : e = Spellings[view[i].peer]
BY DEF Naming

LEMMA AppendedNames ==
    ASSUME NEW S, NEW view \in Seq(S), NEW x
    PROVE  Naming(Append(view, x)) = Naming(view) \cup ({Spellings[x.peer]} \ {Invalid})
<1>. DEFINE long == Append(view, x)
<1>1. /\ DOMAIN long = 1..(Len(view) + 1) /\ DOMAIN view = 1..Len(view) /\ Len(view) \in Nat
      /\ long[Len(view) + 1] = x /\ \A i \in 1..Len(view) : long[i] = view[i]
  OBVIOUS
<1>. HIDE DEF long
<1>2. \A i : i \in DOMAIN long <=> i \in DOMAIN view \/ i = Len(view) + 1
  BY <1>1
<1>3. \A e : (\E i \in DOMAIN long : e = Spellings[long[i].peer]) <=>
             (\E i \in DOMAIN view : e = Spellings[view[i].peer]) \/ e = Spellings[x.peer]
  BY <1>1, <1>2
<1>4. \A e : e \in Naming(long) <=> e \in Naming(view) \/ (e = Spellings[x.peer] /\ e # Invalid)
  BY <1>3, InNaming
<1>. QED BY <1>4 DEF long

LEMMA PartNames ==
    ASSUME NEW time, NEW view \in Seq(Observations(time)), NEW e
    PROVE  LET I == {i \in DOMAIN view : Spellings[view[i].peer] # e}
           IN  At(view, I) \in Seq(Observations(time)) /\ Naming(At(view, I)) = Naming(view) \ {e}
<1>. DEFINE I == {i \in DOMAIN view : Spellings[view[i].peer] # e}
            part == At(view, I)
<1>1. I \in SUBSET (DOMAIN view) /\ \A i : i \in I <=> i \in DOMAIN view /\ Spellings[view[i].peer] # e
  OBVIOUS
<1>. HIDE DEF I
<1>2. part \in Seq(Observations(time)) /\ ToSet(part) = {view[i] : i \in I}
  BY <1>1, AtFacts
<1>3. \A x : (\E k \in DOMAIN part : part[k] = x) <=> (\E i \in I : view[i] = x)
  BY <1>2 DEF ToSet
<1>. HIDE DEF part
<1>4. \A a : (\E k \in DOMAIN part : a = Spellings[part[k].peer]) <=> (\E i \in I : a = Spellings[view[i].peer])
  BY <1>3
<1>5. \A a : a \in Naming(part) <=> a \in Naming(view) /\ a # e
  BY <1>1, <1>4, InNaming
<1>6. Naming(part) = Naming(view) \ {e}
  BY <1>5
<1>. QED BY <1>2, <1>6 DEF part, I

\* Single changes.
LEMMA PeerChanges ==
    ASSUME CoordinatorInv, NEW s \in SourceIds, NEW p \in DOMAIN Spellings,
           Coordinator!AddPeer(s, p) \/ Coordinator!RemovePeer(s, p)
    PROVE  CoordinatorInv'
<1>1. s \notin Observing /\ tasks[s].phase = "watching" /\ tasks[s].hand = <<>>
  BY DEF Coordinator!AddPeer, Coordinator!RemovePeer, Coordinator!Watching
<1>2. now \in Nat /\ views[s] \in Seq(Observations(now))
  BY CoordinatorElim DEF Shown
<1>3. \A path : Path(path, s, registry, commands, tasks[s], views[s]) => path[Len(commands)] = Naming(views[s])
  BY <1>1 DEF Path
<1>4. CASE Coordinator!AddPeer(s, p)
  <2>. DEFINE x == [peer |-> p, at |-> now]
              view == Append(views[s], x)
              c == [kind |-> "add", source |-> s, peer |-> p]
              task == [tasks[s] EXCEPT !.hand = <<c>>]
  <2>1. Coordinator!Changing(s, view) /\ Coordinator!Holding(s, c)
    BY <1>4 DEF Coordinator!AddPeer
  <2>2. x \in Observations(now) /\ x.peer = p
    BY <1>2 DEF Observations
  <2>3. c.kind = "add" /\ c.source = s /\ c.peer = p /\ CommandOf(c, s, held[s] \cup {view})
    BY <1>1 DEF CommandOf
  <2>. HIDE DEF x, c
  <2>4. view \in Seq(Observations(now)) /\ Naming(view) = Naming(views[s]) \cup ({Spellings[p]} \ {Invalid})
    BY <1>2, <2>2, AppendedNames
  <2>. HIDE DEF view
  <2>5. /\ tasks' = [tasks EXCEPT ![s] = task]
        /\ Phased(task, <<c>>) /\ task.hand = <<c>> /\ task.phase = tasks[s].phase /\ task.current = tasks[s].current
    BY <2>1, HoldsTask
  <2>6. /\ views' = [views EXCEPT ![s] = view] /\ held' = [held EXCEPT ![s] = held[s] \cup {view}]
        /\ UNCHANGED <<registry, published, commands, now>>
    BY <2>1 DEF Coordinator!Changing, CoordinatorInv
  <2>7. Effect(c, s, Naming(views[s])) = Naming(view)
    BY <2>3, <2>4 DEF Effect
  <2>. HIDE DEF task
  <2>8. \A path : Path(path, s, registry, commands, tasks[s], views[s]) =>
                Naming(view) = Effect(c, s, path[Len(commands)])
    BY <1>3, <2>7
  <2>. QED BY <1>1, <2>3, <2>4, <2>5, <2>6, <2>8, ViewChanges
<1>5. CASE Coordinator!RemovePeer(s, p)
  <2>. DEFINE I == {i \in DOMAIN views[s] : Spellings[views[s][i].peer] # Spellings[p]}
              view == At(views[s], I)
              c == [kind |-> "remove", source |-> s, peer |-> p]
              task == [tasks[s] EXCEPT !.hand = <<c>>]
  <2>1. Coordinator!Changing(s, view) /\ Coordinator!Holding(s, c)
    BY <1>5, CoordinatorSelects DEF Coordinator!RemovePeer, Coordinator!canonicalize_endpoint
  <2>3. c.kind = "remove" /\ c.source = s /\ c.peer = p /\ CommandOf(c, s, held[s] \cup {view})
    BY <1>1 DEF CommandOf
  <2>. HIDE DEF c
  <2>4. view \in Seq(Observations(now)) /\ Naming(view) = Naming(views[s]) \ {Spellings[p]}
    BY <1>2, PartNames
  <2>. HIDE DEF view, I
  <2>5. /\ tasks' = [tasks EXCEPT ![s] = task]
        /\ Phased(task, <<c>>) /\ task.hand = <<c>> /\ task.phase = tasks[s].phase /\ task.current = tasks[s].current
    BY <2>1, HoldsTask
  <2>6. /\ views' = [views EXCEPT ![s] = view] /\ held' = [held EXCEPT ![s] = held[s] \cup {view}]
        /\ UNCHANGED <<registry, published, commands, now>>
    BY <2>1 DEF Coordinator!Changing, CoordinatorInv
  <2>7. Effect(c, s, Naming(views[s])) = Naming(view)
    BY <2>3, <2>4 DEF Effect
  <2>. HIDE DEF task
  <2>8. \A path : Path(path, s, registry, commands, tasks[s], views[s]) =>
                Naming(view) = Effect(c, s, path[Len(commands)])
    BY <1>3, <2>7
  <2>. QED BY <1>1, <2>3, <2>4, <2>5, <2>6, <2>8, ViewChanges
<1>. QED BY <1>4, <1>5

ResetTask(task, phase, hand) == [[task EXCEPT !.phase = phase] EXCEPT !.hand = hand]

LEMMA TaskResets ==
    ASSUME CoordinatorInv, NEW s \in SourceIds, NEW phase \in {"watching", "retry", "ended"}, NEW c
    PROVE  LET task == ResetTask(tasks[s], phase, <<c>>)
           IN  Phased(task, <<c>>) /\ task.hand = <<c>> /\ task.phase = phase /\ task.current = tasks[s].current
<1>. DEFINE moved == [tasks[s] EXCEPT !.phase = phase]
            task == [moved EXCEPT !.hand = <<c>>]
<1>1. Phased(tasks[s], tasks[s].hand)
  BY CoordinatorElim
<1>2. Phased(moved, tasks[s].hand) /\ moved.hand = tasks[s].hand /\ moved.phase = phase /\ moved.current = tasks[s].current
  BY <1>1, PhaseChanges
<1>. HIDE DEF moved
<1>3. Phased(task, <<c>>) /\ task.hand = <<c>> /\ task.phase = phase /\ task.current = tasks[s].current
  BY <1>2, HandChanges
<1>. QED BY <1>3 DEF ResetTask, moved

LEMMA SameView ==
    ASSUME CoordinatorInv, NEW s \in SourceIds
    PROVE  /\ views = [views EXCEPT ![s] = views[s]] /\ held = [held EXCEPT ![s] = held[s] \cup {views[s]}]
           /\ views[s] \in held[s] /\ views[s] \in Seq(Observations(now))
<1>1. Shown(s, held[s], views[s], now)
  BY CoordinatorElim
<1>2. held[s] \cup {views[s]} = held[s] /\ views[s] \in held[s] /\ views[s] \in Seq(Observations(now))
  BY <1>1 DEF Shown
<1>. QED BY <1>2 DEF CoordinatorInv

LEMMA WatchFailsKeeps ==
    ASSUME CoordinatorInv, NEW s \in SourceIds, NEW phase \in {"retry", "ended"}, Coordinator!WatchFails(s, phase)
    PROVE  CoordinatorInv'
<1>. DEFINE c == [kind |-> "unavailable", source |-> s]
<1>1. /\ tasks' = [tasks EXCEPT ![s].phase = phase, ![s].hand = <<c>>]
      /\ UNCHANGED <<registry, published, commands, views, now, held>>
  BY DEF Coordinator!WatchFails
<1>2. CommandOf(c, s, held[s] \cup {views[s]})
  BY DEF CommandOf
<1>. HIDE DEF c
<1>. DEFINE task == ResetTask(tasks[s], phase, <<c>>)
<1>3. /\ tasks' = [tasks EXCEPT ![s] = task]
      /\ Phased(task, <<c>>) /\ task.hand = <<c>> /\ task.phase = phase /\ task.current = tasks[s].current
  <2>1. tasks' = [tasks EXCEPT ![s] = task]
    BY <1>1 DEF ResetTask, CoordinatorInv
  <2>2. CASE phase = "retry"
    BY <2>1, <2>2, TaskResets
  <2>3. CASE phase = "ended"
    BY <2>1, <2>3, TaskResets
  <2>. QED BY <2>2, <2>3
<1>. HIDE DEF task
<1>4. views' = [views EXCEPT ![s] = views[s]] /\ held' = [held EXCEPT ![s] = held[s] \cup {views[s]}]
      /\ UNCHANGED <<registry, published, commands, now>> /\ views[s] \in Seq(Observations(now))
  BY <1>1, SameView
<1>5. task.phase # "watching"
  BY <1>3
<1>. QED BY <1>2, <1>3, <1>4, <1>5, ViewChanges

LEMMA ResubscribeKeeps ==
    ASSUME CoordinatorInv, NEW s \in SourceIds, NEW peers \in Views, Coordinator!Resubscribe(s, peers)
    PROVE  CoordinatorInv'
<1>. DEFINE fresh == [i \in DOMAIN peers |-> [peer |-> peers[i], at |-> now]]
<1>1. PICK view \in {views[s], fresh} :
         /\ views' = [views EXCEPT ![s] = view] /\ held' = [held EXCEPT ![s] = @ \cup {view}]
         /\ tasks' = [tasks EXCEPT ![s].phase = "watching",
                                   ![s].hand = <<[kind |-> "snapshot", source |-> s, view |-> view]>>]
  BY DEF Coordinator!Resubscribe
<1>2. UNCHANGED <<registry, published, commands, now>>
  BY DEF Coordinator!Resubscribe
<1>3. fresh \in Seq(Observations(now)) /\ \A i \in DOMAIN fresh : fresh[i].at = now
  <2>1. now \in Nat
    BY CoordinatorElim
  <2>. QED BY <2>1, FreshView
<1>. HIDE DEF fresh
<1>4. view \in Seq(Observations(now)) /\ (view = views[s] \/ (s \in Observing => \A i \in DOMAIN view : view[i].at = now))
  BY <1>3, SameView
<1>. DEFINE c == [kind |-> "snapshot", source |-> s, view |-> view]
<1>5. CommandOf(c, s, held[s] \cup {view}) /\ c.kind = "snapshot" /\ c.source = s /\ c.view = view
  BY DEF CommandOf
<1>6. tasks' = [tasks EXCEPT ![s].phase = "watching", ![s].hand = <<c>>]
  BY <1>1
<1>. HIDE DEF c
<1>. DEFINE task == ResetTask(tasks[s], "watching", <<c>>)
<1>7. /\ tasks' = [tasks EXCEPT ![s] = task]
      /\ Phased(task, <<c>>) /\ task.hand = <<c>> /\ task.phase = "watching" /\ task.current = tasks[s].current
  <2>1. tasks' = [tasks EXCEPT ![s] = task]
    BY <1>6 DEF ResetTask, CoordinatorInv
  <2>. QED BY <2>1, TaskResets
<1>. HIDE DEF task
<1>8. held' = [held EXCEPT ![s] = held[s] \cup {view}]
  BY <1>1 DEF CoordinatorInv
<1>9. \A named : Naming(view) = Effect(c, s, named)
  BY <1>5 DEF Effect
<1>10. \A path : Path(path, s, registry, commands, tasks[s], views[s]) => Naming(view) = Effect(c, s, path[Len(commands)])
  BY <1>9
<1>11. views' = [views EXCEPT ![s] = view]
  BY <1>1
<1>. QED BY <1>2, <1>4, <1>5, <1>7, <1>8, <1>10, <1>11, ViewChanges

LEMMA GiveUpKeeps ==
    ASSUME CoordinatorInv, NEW s \in SourceIds, Coordinator!GiveUp(s)
    PROVE  CoordinatorInv'
<1>. DEFINE task == [tasks[s] EXCEPT !.phase = "ended"]
<1>1. tasks' = [tasks EXCEPT ![s] = task] /\ UNCHANGED <<registry, published, commands, views, now, held>>
  BY DEF Coordinator!GiveUp, CoordinatorInv
<1>2. Phased(task, tasks[s].hand) /\ task.hand = tasks[s].hand /\ task.phase = "ended" /\ task.current = tasks[s].current
  <2>1. Phased(tasks[s], tasks[s].hand)
    BY CoordinatorElim
  <2>. QED BY <2>1, PhaseChanges
<1>. HIDE DEF task
<1>3. views' = [views EXCEPT ![s] = views[s]] /\ held' = [held EXCEPT ![s] = held[s]]
  BY <1>1 DEF CoordinatorInv
<1>4. PICK path : Path(path, s, registry, commands, tasks[s], views[s])
  BY CoordinatorElim
<1>5. Path(path, s, registry, commands, task, views[s])
  BY <1>2, <1>4, PathShows
<1>6. TaskOf(task, s, held[s])
  BY <1>2, CoordinatorElim DEF TaskOf, Phased
<1>7. SourceInv(s, registry, commands, task, views[s], held[s], now)
  BY <1>5, <1>6, CoordinatorElim DEF SourceInv
<1>. QED BY <1>1, <1>3, <1>7, OneSource

LEMMA SendKeeps ==
    ASSUME CoordinatorInv, NEW q \in SourceIds, Coordinator!SendCommand(q)
    PROVE  CoordinatorInv'
<1>. DEFINE h == tasks[q].hand[1]
            sent == [tasks[q] EXCEPT !.hand = <<>>]
<1>1. /\ tasks[q].hand # <<>> /\ commands' = Append(commands, h) /\ tasks' = [tasks EXCEPT ![q] = sent]
      /\ UNCHANGED <<registry, published, views, now, held>>
  BY DEF Coordinator!SendCommand, CoordinatorInv
<1>2. tasks[q].hand = <<h>> /\ CommandOf(h, q, held[q])
  <2>1. PICK c : tasks[q].hand = <<c>> /\ CommandOf(c, q, held[q])
    BY <1>1, CoordinatorElim
  <2>2. h = c
    BY <2>1
  <2>. QED BY <2>1, <2>2
<1>3. Phased(sent, <<>>) /\ sent.hand = <<>> /\ sent.phase = tasks[q].phase /\ sent.current = tasks[q].current
  <2>1. Phased(tasks[q], tasks[q].hand)
    BY CoordinatorElim
  <2>. QED BY <2>1, HandChanges
<1>. HIDE DEF h, sent
<1>4. h.source = q /\ h.kind # "local"
  BY <1>2 DEF CommandOf
<1>5. Queue(commands, held)
  BY DEF CoordinatorInv
<1>6. PICK C : commands \in Seq(C)
  BY <1>5 DEF Queue
<1>7. /\ commands' \in Seq(C \cup {h}) /\ Len(commands') = Len(commands) + 1 /\ Len(commands) \in Nat
      /\ DOMAIN commands = 1..Len(commands) /\ DOMAIN commands' = 1..(Len(commands) + 1)
      /\ commands'[Len(commands) + 1] = h /\ \A i \in 1..Len(commands) : commands'[i] = commands[i]
  BY <1>1, <1>6
<1>8. Queue(commands', held')
  <2>1. IsCommand(h, held)
    BY <1>2 DEF IsCommand
  <2>2. \A i \in DOMAIN commands' : i \in DOMAIN commands \/ i = Len(commands) + 1
    BY <1>7
  <2>3. \A i \in DOMAIN commands' : IsCommand(commands'[i], held)
    BY <1>5, <1>7, <2>1, <2>2 DEF Queue
  <2>. QED BY <1>1, <1>7, <2>3 DEF Queue
<1>10. /\ tasks' = [s \in SourceIds |-> tasks'[s]] /\ tasks'[q] = sent
       /\ \A s \in SourceIds \ {q} : tasks'[s] = tasks[s]
  BY <1>1 DEF CoordinatorInv
<1>11. ASSUME NEW s \in SourceIds PROVE SourceInv(s, registry, commands', tasks'[s], views[s], held[s], now)
  <2>1. PICK path : Path(path, s, registry, commands, tasks[s], views[s])
    BY CoordinatorElim
  <2>2. \A named \in SUBSET Canonical : Effect(h, s, named) \in SUBSET Canonical
    <3>1. \A v \in held[q] : v \in Seq(Observations(now))
      BY CoordinatorElim DEF Shown
    <3>. QED BY <1>2, <3>1, EffectNames
  <2>3. /\ tasks'[s].phase = tasks[s].phase /\ tasks'[s].current = tasks[s].current
        /\ \/ tasks[s].hand = <<h>> /\ tasks'[s].hand = <<>>
           \/ tasks'[s].hand = tasks[s].hand /\ h.source # s
    BY <1>2, <1>3, <1>4, <1>10
  <2>4. \E path2 : Path(path2, s, registry, Append(commands, h), tasks'[s], views[s])
    BY <1>6, <2>1, <2>2, <2>3, PathExtends
  <2>5. TaskOf(tasks'[s], s, held[s])
    <3>1. CASE s = q
      BY <1>3, <1>10, <3>1 DEF TaskOf, Phased
    <3>2. CASE s # q
      BY <1>10, <3>2, CoordinatorElim DEF TaskOf, Phased
    <3>. QED BY <3>1, <3>2
  <2>. QED BY <1>1, <2>4, <2>5, CoordinatorElim DEF SourceInv
<1>. QED BY <1>1, <1>8, <1>10, <1>11 DEF CoordinatorInv

LEMMA LocalSendKeeps ==
    ASSUME CoordinatorInv, Coordinator!configure_local_endpoint
    PROVE  CoordinatorInv'
<1>. DEFINE h == [kind |-> "local"]
<1>1. commands' = Append(commands, h) /\ UNCHANGED <<registry, published, views, tasks, now, held>>
  BY DEF Coordinator!configure_local_endpoint
<1>2. h.kind = "local" /\ IsCommand(h, held)
  BY DEF IsCommand
<1>. HIDE DEF h
<1>3. Queue(commands, held)
  BY DEF CoordinatorInv
<1>4. PICK C : commands \in Seq(C)
  BY <1>3 DEF Queue
<1>5. /\ commands' \in Seq(C \cup {h}) /\ Len(commands) \in Nat
      /\ DOMAIN commands = 1..Len(commands) /\ DOMAIN commands' = 1..(Len(commands) + 1)
      /\ commands'[Len(commands) + 1] = h /\ \A i \in 1..Len(commands) : commands'[i] = commands[i]
  BY <1>1, <1>4
<1>6. Queue(commands', held')
  <2>1. \A i \in DOMAIN commands' : i \in DOMAIN commands \/ i = Len(commands) + 1
    BY <1>5
  <2>2. \A i \in DOMAIN commands' : IsCommand(commands'[i], held)
    BY <1>2, <1>3, <1>5, <2>1 DEF Queue
  <2>. QED BY <1>1, <1>5, <2>2 DEF Queue
<1>7. ASSUME NEW s \in SourceIds PROVE SourceInv(s, registry, commands', tasks[s], views[s], held[s], now)
  <2>1. PICK path : Path(path, s, registry, commands, tasks[s], views[s])
    BY CoordinatorElim
  <2>2. \A named \in SUBSET Canonical : Effect(h, s, named) \in SUBSET Canonical
    BY <1>2 DEF Effect
  <2>3. \E path2 : Path(path2, s, registry, Append(commands, h), tasks[s], views[s])
    BY <1>2, <1>4, <2>1, <2>2, PathExtends
  <2>4. SourceInv(s, registry, commands, tasks[s], views[s], held[s], now)
    BY DEF CoordinatorInv
  <2>. QED BY <1>1, <2>3, <2>4 DEF SourceInv
<1>. QED BY <1>1, <1>6, <1>7 DEF CoordinatorInv

LEMMA ApplyCommandKeeps ==
    ASSUME CoordinatorInv, Coordinator!apply_candidate_command
    PROVE  CoordinatorInv'
<1>. DEFINE c == Head(commands)
            r == Coordinator!Apply(c)
            cur(task) == IF c.kind \in {"snapshot", "replace"} THEN r.ok
                         ELSE task.current /\ r.ok /\ c.kind # "unavailable"
<1>1. /\ commands # <<>> /\ commands' = Tail(commands) /\ Coordinator!Publish(r.reg)
      /\ UNCHANGED <<views, now, held>>
  BY DEF Coordinator!apply_candidate_command
<1>2. tasks' = IF c.kind = "local" THEN tasks
               ELSE [tasks EXCEPT ![c.source] = [tasks[c.source] EXCEPT !.current = cur(tasks[c.source])]]
  <2>1. tasks' = IF c.kind = "local" THEN tasks
                 ELSE [tasks EXCEPT ![c.source].current =
                         IF c.kind \in {"snapshot", "replace"} THEN r.ok ELSE @ /\ r.ok /\ c.kind # "unavailable"]
    BY DEF Coordinator!apply_candidate_command
  <2>. HIDE DEF r, c
  <2>. QED BY <2>1
<1>3. Queue(commands, held)
  BY DEF CoordinatorInv
<1>4. PICK C : commands \in Seq(C)
  BY <1>3 DEF Queue
<1>5. /\ commands' \in Seq(C) /\ Len(commands') = Len(commands) - 1 /\ Len(commands) \in Nat \ {0}
      /\ DOMAIN commands = 1..Len(commands) /\ DOMAIN commands' = 1..(Len(commands) - 1)
      /\ c = commands[1] /\ \A i \in 1..(Len(commands) - 1) : commands'[i] = commands[i + 1]
  BY <1>1, <1>4
<1>6. IsCommand(c, held) /\ 1 \in DOMAIN commands
  BY <1>3, <1>5 DEF Queue
<1>7. Applied(c, registry, r)
  BY <1>6, ApplyKeeps
<1>. HIDE DEF c, r
<1>8. SoundRegistry(r.reg) /\ r.ok \in BOOLEAN
  BY <1>7 DEF Applied
<1>9. registry' = r.reg /\ published' = r.reg.order
  BY <1>1, <1>8, PublishKeeps DEF CoordinatorInv
<1>10. Queue(commands', held')
  <2>1. \A i \in DOMAIN commands' : i + 1 \in DOMAIN commands /\ commands'[i] = commands[i + 1]
    BY <1>5
  <2>. QED BY <1>1, <1>3, <1>5, <2>1 DEF Queue
<1>12. c.kind = "local" \/ (c.kind # "local" /\ c.source \in SourceIds)
  BY <1>6 DEF IsCommand, CommandOf
<1>13. /\ tasks' = [s \in SourceIds |-> tasks'[s]]
       /\ \A s \in SourceIds : tasks'[s] = IF c.kind = "local" \/ c.source # s THEN tasks[s]
                                           ELSE [tasks[s] EXCEPT !.current = cur(tasks[s])]
  <2>. HIDE DEF cur
  <2>. QED BY <1>2, <1>12 DEF CoordinatorInv
<1>14. ASSUME NEW s \in SourceIds PROVE SourceInv(s, registry', commands', tasks'[s], views[s], held[s], now)
  <2>0. Phased(tasks[s], tasks[s].hand) /\ tasks[s].current \in BOOLEAN
    <3>1. Phased(tasks[s], tasks[s].hand)
      BY CoordinatorElim
    <3>. QED BY <3>1 DEF Phased
  <2>1. /\ Phased(tasks'[s], tasks[s].hand) /\ tasks'[s].hand = tasks[s].hand /\ tasks'[s].phase = tasks[s].phase
        /\ tasks'[s].current = IF c.kind = "local" \/ c.source # s THEN tasks[s].current ELSE cur(tasks[s])
    <3>1. CASE c.kind = "local" \/ c.source # s
      BY <1>13, <2>0, <3>1
    <3>2. CASE ~(c.kind = "local" \/ c.source # s)
      <4>1. cur(tasks[s]) \in BOOLEAN
        BY <1>8, <2>0
      <4>. HIDE DEF cur
      <4>2. tasks'[s] = [tasks[s] EXCEPT !.current = cur(tasks[s])]
        BY <1>13, <3>2
      <4>. QED BY <2>0, <3>2, <4>1, <4>2, CurrentChanges
    <3>. QED BY <3>1, <3>2
  <2>2. TaskOf(tasks'[s], s, held[s])
    BY <2>1, CoordinatorElim DEF TaskOf, Phased
  <2>3. PICK path : Path(path, s, registry, commands, tasks[s], views[s])
    BY CoordinatorElim
  <2>4. /\ path[0] \in SUBSET Canonical /\ path[1] = Effect(c, s, path[0])
        /\ Ttl[s] = 0 /\ tasks[s].current => Given(registry, s) = path[0] \ registry.local
    <3>1. 1 \in 1..Len(commands) /\ 1 - 1 = 0 /\ 0 \in 0..Len(commands)
      BY <1>5
    <3>. QED BY <1>5, <2>3, <3>1 DEF Path
  <2>5. Carries(c, s, registry, r.ok, r.reg) /\ Good(r.reg, s)
    BY <1>7 DEF Applied
  <2>6. Ttl[s] = 0 /\ tasks'[s].current => Given(r.reg, s) = path[1] \ r.reg.local
    <3>. SUFFICES ASSUME Ttl[s] = 0, tasks'[s].current PROVE Given(r.reg, s) = Effect(c, s, path[0]) \ r.reg.local
      BY <2>4
    <3>1. IF c.kind = "local" \/ c.source # s THEN Given(registry, s) = path[0] \ registry.local
          ELSE IF c.kind \in {"snapshot", "replace"} THEN r.ok
          ELSE Given(registry, s) = path[0] \ registry.local /\ r.ok /\ c.kind # "unavailable"
      BY <2>1, <2>4
    <3>. QED BY <2>4, <2>5, <3>1 DEF Carries
  <2>7. \E path2 : Path(path2, s, r.reg, Tail(commands), tasks'[s], views[s])
    BY <1>1, <1>4, <2>1, <2>3, <2>6, PathAdvances
  <2>8. Shown(s, held[s], views[s], now)
    BY CoordinatorElim
  <2>. QED BY <1>1, <1>9, <2>2, <2>5, <2>7, <2>8 DEF SourceInv, Good
<1>15. /\ now' \in 0..LastTime /\ SoundRegistry(registry') /\ published' = registry'.order
       /\ views' = [s \in SourceIds |-> views'[s]] /\ held' = [s \in SourceIds |-> held'[s]]
  BY <1>1, <1>8, <1>9 DEF CoordinatorInv
<1>16. \A s \in SourceIds : SourceInv(s, registry', commands', tasks'[s], views'[s], held'[s], now')
  BY <1>1, <1>14
<1>17. tasks' = [s \in SourceIds |-> tasks'[s]]
  BY <1>13
<1>. QED BY <1>10, <1>15, <1>16, <1>17 DEF CoordinatorInv

-----------------------------------------------------------------------------
(* Time. *)

LEMMA ExpireKeeps ==
    ASSUME CoordinatorInv, Coordinator!Expire
    PROVE  CoordinatorInv'
<1>. DEFINE new == Coordinator!expire(registry)
<1>0. now \in 0..LastTime /\ now \in Nat /\ SoundRegistry(registry) /\ Unlimited > LastTime /\ LastTime \in Nat /\ Unlimited \in Nat
  BY SourcesGood, CoordinatorConstants
<1>1. Coordinator!Publish(new) /\ UNCHANGED <<commands, views, tasks, now, held>>
  BY DEF Coordinator!Expire
<1>2. /\ SoundRegistry(new) /\ new.local = registry.local
      /\ \A s \in SourceIds : \A e \in Canonical :
            new.until[s][e] = IF registry.until[s][e] > now THEN registry.until[s][e] ELSE -1
  BY <1>0, ExpireFacts
<1>. HIDE DEF new
<1>3. registry' = new /\ published' = new.order
  BY <1>0, <1>1, <1>2, PublishKeeps DEF CoordinatorInv
<1>4. ASSUME NEW s \in SourceIds PROVE SourceInv(s, new, commands, tasks[s], views[s], held[s], now)
  <2>0. SourceInv(s, registry, commands, tasks[s], views[s], held[s], now)
    BY DEF CoordinatorInv
  <2>1. Leases(new, s, now)
    BY <1>2, <2>0 DEF SourceInv, Leases
  <2>2. NotLater(new, s, views[s])
    BY <1>2, <2>0 DEF SourceInv, NotLater
  <2>3. WholeView(new, s, held[s], now)
    <3>. SUFFICES ASSUME s \in Observing PROVE \E v \in held[s] \cup {<<>>} : Contributes(new, s, v, now)
      BY DEF WholeView
    <3>1. PICK v \in held[s] \cup {<<>>} : Contributes(registry, s, v, now)
      BY <2>0 DEF SourceInv, WholeView
    <3>2. \A e \in Canonical : registry.until[s][e] \in Int
      BY <1>0 DEF SoundRegistry, RegistryType
    <3>3. \A e \in Canonical, t \in now..LastTime : new.until[s][e] > t <=> registry.until[s][e] > t
      <4>. TAKE e \in Canonical, t \in now..LastTime
      <4>1. t \in Nat /\ now <= t /\ registry.until[s][e] \in Int
        BY <1>0, <3>2
      <4>2. CASE registry.until[s][e] > now
        BY <1>2, <4>2
      <4>3. CASE ~(registry.until[s][e] > now)
        BY <1>0, <1>2, <4>1, <4>3
      <4>. QED BY <4>2, <4>3
    <3>4. Contributes(new, s, v, now)
      BY <1>2, <3>1, <3>3 DEF Contributes
    <3>. QED BY <3>4
  <2>4. Ttl[s] = 0 => Given(new, s) = Given(registry, s)
    <3>. HAVE Ttl[s] = 0
    <3>1. \A e \in Canonical : registry.until[s][e] # -1 => registry.until[s][e] > now
      BY <1>0, <2>0 DEF SourceInv, Leases
    <3>. QED BY <1>2, <3>1 DEF Given
  <2>5. PICK path : Path(path, s, registry, commands, tasks[s], views[s])
    BY <2>0 DEF SourceInv
  <2>6. Path(path, s, new, commands, tasks[s], views[s])
    BY <1>2, <2>4, <2>5 DEF Path
  <2>. QED BY <2>0, <2>1, <2>2, <2>3, <2>6 DEF SourceInv
<1>6. \A s \in SourceIds : SourceInv(s, registry', commands', tasks'[s], views'[s], held'[s], now')
  BY <1>1, <1>3, <1>4
<1>. QED BY <1>1, <1>2, <1>3, <1>6 DEF CoordinatorInv

LEMMA TickKeeps ==
    ASSUME CoordinatorInv, Coordinator!Tick
    PROVE  CoordinatorInv'
<1>0. now \in 0..LastTime /\ now \in Nat /\ LastTime \in Nat
  BY SourcesGood, CoordinatorConstants
<1>1. now' = now + 1 /\ now < LastTime /\ UNCHANGED <<registry, published, commands, views, tasks, held>>
  BY DEF Coordinator!Tick, LastTime
<1>2. now' \in 0..LastTime /\ now' \in Nat
  BY <1>0, <1>1
<1>3. ASSUME NEW s \in SourceIds PROVE SourceInv(s, registry, commands, tasks[s], views[s], held[s], now')
  <2>0. SourceInv(s, registry, commands, tasks[s], views[s], held[s], now)
    BY DEF CoordinatorInv
  <2>1. Shown(s, held[s], views[s], now')
    <3>1. ASSUME NEW v \in held[s] PROVE v \in Seq(Observations(now'))
      <4>1. v \in Seq(Observations(now))
        BY <2>0 DEF SourceInv, Shown
      <4>2. Observations(now) \subseteq Observations(now')
        <5>1. 0..now \subseteq 0..now'
          BY <1>0, <1>1
        <5>. QED BY <5>1 DEF Observations
      <4>3. \A i \in DOMAIN v : v[i] \in Observations(now')
        BY <4>1, <4>2, SeqElements
      <4>. QED BY <4>1, <4>3, SeqElements
    <3>. QED BY <2>0, <3>1 DEF SourceInv, Shown
  <2>2. Leases(registry, s, now')
    <3>1. \A x : x \in 0..now => x \in 0..now'
      BY <1>0, <1>1
    <3>. QED BY <2>0, <3>1 DEF SourceInv, Leases
  <2>3. WholeView(registry, s, held[s], now')
    <3>1. \A t : t \in now'..LastTime => t \in now..LastTime
      BY <1>0, <1>1
    <3>2. \A v : Contributes(registry, s, v, now) => Contributes(registry, s, v, now')
      BY <3>1 DEF Contributes
    <3>. QED BY <2>0, <3>2 DEF SourceInv, WholeView
  <2>. QED BY <2>0, <2>1, <2>2, <2>3 DEF SourceInv
<1>4. \A s \in SourceIds : SourceInv(s, registry', commands', tasks'[s], views'[s], held'[s], now')
  BY <1>1, <1>3
<1>. QED BY <1>1, <1>2, <1>4 DEF CoordinatorInv

LEMMA CoordinatorKeeps ==
    ASSUME CoordinatorInv, Coordinator!Next
    PROVE  CoordinatorInv'
<1>1. ASSUME NEW s \in SourceIds, NEW peers \in Views, Coordinator!ObserveView(s, peers) \/ Coordinator!ReplaceView(s, peers) \/ Coordinator!Resubscribe(s, peers)
      PROVE  CoordinatorInv'
  BY <1>1, WholeViewShown, ResubscribeKeeps
<1>2. ASSUME NEW s \in SourceIds, NEW p \in DOMAIN Spellings, Coordinator!AddPeer(s, p) \/ Coordinator!RemovePeer(s, p) PROVE CoordinatorInv'
  BY <1>2, PeerChanges
<1>3. ASSUME NEW s \in SourceIds, Coordinator!SendCommand(s) \/ Coordinator!GiveUp(s) PROVE CoordinatorInv'
  BY <1>3, SendKeeps, GiveUpKeeps
<1>4. ASSUME NEW s \in SourceIds, NEW phase \in {"retry", "ended"}, Coordinator!WatchFails(s, phase) PROVE CoordinatorInv'
  BY <1>4, WatchFailsKeeps
<1>5. Coordinator!SourceSet = SourceIds
  BY CoordinatorConstants
<1>. QED BY <1>1, <1>2, <1>3, <1>4, <1>5, ApplyCommandKeeps, LocalSendKeeps, ExpireKeeps, TickKeeps DEF Coordinator!Next

-----------------------------------------------------------------------------
(* The start: the first snapshots of all providers, in configuration order. *)

FirstTaken(before, s, first) == IF before.ok THEN Coordinator!replace_snapshot(before.reg, s, first[s]) ELSE before
FirstResult == [ok |-> TRUE, reg |-> Coordinator!Empty]

\* f has the results after the first snapshots.
Starting(f, first, n) ==
    f = [k \in 0..n |-> IF k = 0 THEN FirstResult ELSE FirstTaken(f[k - 1], Sources[k], first)]

LEMMA StartingExists ==
    ASSUME NEW first, NEW n \in 0..Len(Sources)
    PROVE  \E f : Starting(f, first, n)
<1>. DEFINE T == {k \in 0..Len(Sources) : ~\E f : Starting(f, first, k)}
<1>. SUFFICES ASSUME T # {} PROVE FALSE
  OBVIOUS
<1>1. Len(Sources) \in Nat /\ T \subseteq Nat
  BY CoordinatorConstants
<1>2. PICK k \in T : \A l \in T : k <= l
  <2>. HIDE DEF T
  <2>. QED BY <1>1, NatMin
<1>3. k \in 0..Len(Sources) /\ ~\E f : Starting(f, first, k)
  OBVIOUS
<1>4. CASE k = 0
  <2>. DEFINE f == [i \in 0..0 |-> FirstResult]
  <2>1. f = [i \in 0..0 |-> f[i]] /\ \A i \in 0..0 : i = 0 /\ f[i] = FirstResult
    OBVIOUS
  <2>. HIDE DEF f
  <2>2. Starting(f, first, 0)
    BY <2>1 DEF Starting
  <2>. QED BY <1>3, <1>4, <2>2
<1>5. CASE k # 0
  <2>1. k - 1 \in 0..Len(Sources) /\ k \in Nat /\ ~(k <= k - 1)
    BY <1>1, <1>3, <1>5
  <2>2. PICK f : Starting(f, first, k - 1)
    <3>1. k - 1 \notin T
      <4>. HIDE DEF T
      <4>. QED BY <1>2, <2>1
    <3>. QED BY <2>1, <3>1
  <2>. DEFINE last == FirstTaken(f[k - 1], Sources[k], first)
              g == [i \in 0..k |-> IF i < k THEN f[i] ELSE last]
  <2>3. \A i \in 0..(k - 1) : f[i] = IF i = 0 THEN FirstResult ELSE FirstTaken(f[i - 1], Sources[i], first)
    BY <2>2 DEF Starting
  <2>4. ASSUME NEW i \in 0..k PROVE g[i] = IF i = 0 THEN FirstResult ELSE FirstTaken(g[i - 1], Sources[i], first)
    <3>1. CASE i = k
      <4>1. k \in 0..k /\ ~(k < k) /\ k - 1 \in 0..k /\ k - 1 < k
        BY <1>5, <2>1
      <4>2. g[k] = last /\ g[k - 1] = f[k - 1]
        BY <4>1
      <4>. HIDE DEF g
      <4>. QED BY <1>5, <3>1, <4>2
    <3>2. CASE i < k /\ i = 0
      <4>1. i \in 0..(k - 1) /\ g[i] = f[i]
        BY <2>1, <3>2
      <4>. HIDE DEF g
      <4>. QED BY <2>3, <3>2, <4>1
    <3>3. CASE i < k /\ i # 0
      <4>1. i \in 0..(k - 1) /\ i - 1 \in 0..k /\ i - 1 < k
        BY <2>1, <3>3
      <4>2. g[i] = f[i] /\ g[i - 1] = f[i - 1]
        BY <3>3, <4>1
      <4>. HIDE DEF g
      <4>. QED BY <2>3, <3>3, <4>1, <4>2
    <3>. QED BY <2>1, <3>1, <3>2, <3>3
  <2>5. g = [i \in 0..k |-> g[i]]
    OBVIOUS
  <2>. HIDE DEF g
  <2>6. Starting(g, first, k)
    BY <2>4, <2>5 DEF Starting
  <2>. QED BY <1>3, <2>6
<1>. QED BY <1>4, <1>5

LEMMA StartIs ==
    ASSUME NEW first
    PROVE  \E f : Starting(f, first, Len(Sources)) /\ Coordinator!start(first) = f[Len(Sources)]
<1>. DEFINE n == Len(Sources)
            after == CHOOSE f : f = [k \in 0..n |-> IF k = 0 THEN [ok |-> TRUE, reg |-> Coordinator!Empty]
                                                    ELSE IF f[k - 1].ok THEN Coordinator!replace_snapshot(f[k - 1].reg, Sources[k], first[Sources[k]])
                                                    ELSE f[k - 1]]
<1>1. Coordinator!start(first) = after[n]
  BY DEF Coordinator!start
<1>2. n \in 0..Len(Sources)
  BY CoordinatorConstants
<1>3. PICK f : Starting(f, first, n)
  BY <1>2, StartingExists
<1>4. \E f2 : f2 = [k \in 0..n |-> IF k = 0 THEN [ok |-> TRUE, reg |-> Coordinator!Empty]
                                 ELSE IF f2[k - 1].ok THEN Coordinator!replace_snapshot(f2[k - 1].reg, Sources[k], first[Sources[k]])
                                 ELSE f2[k - 1]]
  BY <1>3 DEF Starting, FirstTaken, FirstResult
<1>5. Starting(after, first, n)
  BY <1>4 DEF Starting, FirstTaken, FirstResult
<1>. HIDE DEF after
<1>. QED BY <1>1, <1>5

LEMMA EmptyIsSound == SoundRegistry(Coordinator!Empty) /\ Coordinator!Empty.local = {}
<1>. DEFINE e0 == Coordinator!Empty
<1>1. e0 = [until |-> [s \in SourceIds |-> [e \in Canonical |-> -1]],
            lists |-> [s \in SourceIds |-> <<>>], order |-> <<>>, local |-> {}]
  BY CoordinatorConstants DEF Coordinator!Empty
<1>2. <<>> \in Seq(Canonical) /\ Len(<<>>) = 0
  OBVIOUS
<1>3. e0 \in RegistryType
  BY <1>1, <1>2 DEF RegistryType
<1>4. /\ \A s \in SourceIds : \A e \in Canonical : e0.until[s][e] = -1
      /\ e0.order = <<>> /\ e0.local = {}
  BY <1>1
<1>. HIDE DEF e0
<1>5. Backed(e0) /\ AllGiven(e0) = {}
  BY <1>4 DEF Backed, Given, AllGiven
<1>6. Merged(e0, <<>>)
  BY <1>2, <1>5, FS_EmptySet DEF Merged, ToSet
<1>7. Len(e0.order) <= MaxCandidates
  BY <1>2, <1>4, CoordinatorConstants
<1>. QED BY <1>3, <1>4, <1>5, <1>6, <1>7 DEF SoundRegistry, e0

\* A source whose first view was taken.
Settled(reg, s, view) ==
    /\ Leases(reg, s, 0)
    /\ Ttl[s] = 0 => Given(reg, s) = Naming(view)
    /\ s \in Observing => Contributes(reg, s, view, 0) /\ ShownBy(reg, s, view)

LEMMA SettledStays ==
    ASSUME NEW reg, NEW new, NEW s, new.until[s] = reg.until[s], new.local = reg.local, NEW view, Settled(reg, s, view)
    PROVE  Settled(new, s, view)
BY DEF Settled, Leases, Given, Contributes, ShownBy

LEMMA StartSettles ==
    ASSUME now = 0, NEW first, \A s \in SourceIds : first[s] \in Seq(Observations(0)),
           NEW f, Starting(f, first, Len(Sources)), NEW n \in 0..Len(Sources), f[n].ok
    PROVE  /\ SoundRegistry(f[n].reg) /\ f[n].reg.local = {}
           /\ \A i \in 1..n : Settled(f[n].reg, Sources[i], first[Sources[i]])
<1>. DEFINE P(k) == f[k].ok => /\ SoundRegistry(f[k].reg) /\ f[k].reg.local = {}
                               /\ \A i \in 1..k : Settled(f[k].reg, Sources[i], first[Sources[i]])
            T == {k \in 0..Len(Sources) : ~P(k)}
<1>. SUFFICES ASSUME T # {} PROVE FALSE
  OBVIOUS
<1>1. Len(Sources) \in Nat /\ T \subseteq Nat /\ now \in 0..LastTime
  BY CoordinatorConstants
<1>2. PICK k \in T : \A l \in T : k <= l
  <2>. HIDE DEF T
  <2>. QED BY <1>1, NatMin
<1>3. k \in 0..Len(Sources) /\ ~P(k)
  OBVIOUS
<1>4. f[k] = IF k = 0 THEN FirstResult ELSE FirstTaken(f[k - 1], Sources[k], first)
  BY <1>3 DEF Starting
<1>5. CASE k = 0
  <2>1. f[0].reg = Coordinator!Empty
    BY <1>4, <1>5 DEF FirstResult
  <2>2. P(0)
    BY <2>1, EmptyIsSound
  <2>. QED BY <1>3, <1>5, <2>2
<1>6. CASE k # 0
  <2>1. k - 1 \in 0..Len(Sources) /\ ~(k <= k - 1) /\ k \in 1..Len(Sources)
    BY <1>1, <1>3, <1>6
  <2>2. P(k - 1)
    <3>1. k - 1 \notin T
      <4>. HIDE DEF T
      <4>. QED BY <1>2, <2>1
    <3>. QED BY <2>1, <3>1
  <2>. DEFINE s == Sources[k]
              view == first[s]
              reg == f[k - 1].reg
              r == Coordinator!replace_snapshot(reg, s, view)
  <2>3. s \in SourceIds /\ view \in Seq(Observations(now))
    <3>1. s \in SourceIds
      BY <2>1, CoordinatorConstants
    <3>. QED BY <3>1
  <2>4. f[k].ok /\ f[k - 1].ok /\ f[k] = r
    <3>1. f[k] = FirstTaken(f[k - 1], Sources[k], first)
      BY <1>4, <1>6
    <3>2. f[k].ok
      BY <1>3
    <3>. QED BY <3>1, <3>2 DEF FirstTaken
  <2>5. SoundRegistry(reg) /\ reg.local = {} /\ \A i \in 1..(k - 1) : Settled(reg, Sources[i], first[Sources[i]])
    BY <2>2, <2>4
  <2>. HIDE DEF s, view, reg
  <2>6. \/ r = [ok |-> FALSE, reg |-> reg]
        \/ /\ r = [ok |-> TRUE, reg |-> r.reg] /\ Taken(reg, s, r.reg) /\ Leases(r.reg, s, now)
           /\ Ttl[s] = 0 => Given(r.reg, s) = Naming(view) \ reg.local
           /\ s \in Observing => Contributes(r.reg, s, view, now) /\ ShownBy(r.reg, s, view)
    BY <1>1, <2>3, <2>5, ReplaceSnapshot
  <2>. HIDE DEF r
  <2>7. r.ok
    BY <2>4
  <2>8. /\ Taken(reg, s, r.reg) /\ Leases(r.reg, s, now)
        /\ Ttl[s] = 0 => Given(r.reg, s) = Naming(view) \ reg.local
        /\ s \in Observing => Contributes(r.reg, s, view, now) /\ ShownBy(r.reg, s, view)
    BY <2>6, <2>7
  <2>9. Settled(r.reg, s, view)
    BY <2>5, <2>8 DEF Settled
  <2>10. SoundRegistry(r.reg) /\ r.reg.local = reg.local /\ \A q \in SourceIds \ {s} : r.reg.until[q] = reg.until[q]
    BY <2>8 DEF Taken
  <2>11. ASSUME NEW i \in 1..k PROVE Settled(r.reg, Sources[i], first[Sources[i]])
    <3>1. CASE Sources[i] = s
      BY <2>9, <3>1 DEF s, view
    <3>2. CASE Sources[i] # s
      <4>1. i # k
        BY <3>2 DEF s
      <4>2. i \in 1..(k - 1) /\ i \in 1..Len(Sources)
        BY <2>1, <4>1
      <4>3. Sources[i] \in SourceIds
        BY <4>2, CoordinatorConstants
      <4>. QED BY <2>5, <2>10, <3>2, <4>2, <4>3, SettledStays
    <3>. QED BY <3>1, <3>2
  <2>12. P(k)
    BY <2>4, <2>5, <2>10, <2>11
  <2>. QED BY <1>3, <2>12
<1>. QED BY <1>5, <1>6

LEMMA CoordinatorStarts ==
    ASSUME Coordinator!Init
    PROVE  CoordinatorInv
<1>1. PICK first \in [SourceIds -> Views] :
         views = [s \in SourceIds |-> Coordinator!Observed(first[s])] /\ Coordinator!start(views).ok /\ registry = Coordinator!start(views).reg
  BY CoordinatorConstants DEF Coordinator!Init
<1>2. /\ now = 0 /\ published = Coordinator!endpoints(registry) /\ commands = <<>>
      /\ tasks = [s \in SourceIds |-> [phase |-> "watching", hand |-> <<>>, current |-> TRUE]]
      /\ held = [s \in SourceIds |-> {views[s]}]
  BY CoordinatorConstants DEF Coordinator!Init
<1>3. ASSUME NEW s \in SourceIds
      PROVE  views[s] \in Seq(Observations(0)) /\ \A i \in DOMAIN views[s] : views[s][i].at = 0
  <2>1. views[s] = [i \in DOMAIN first[s] |-> [peer |-> first[s][i], at |-> 0]]
    BY <1>1 DEF Coordinator!Observed
  <2>2. first[s] \in Views
    OBVIOUS
  <2>. QED BY <2>1, <2>2, FreshView
<1>4. PICK f : Starting(f, views, Len(Sources)) /\ Coordinator!start(views) = f[Len(Sources)]
  BY StartIs
<1>5. Len(Sources) \in 0..Len(Sources) /\ LastTime \in Nat
  BY CoordinatorConstants
<1>6. /\ SoundRegistry(registry) /\ registry.local = {}
      /\ \A i \in 1..Len(Sources) : Settled(registry, Sources[i], views[Sources[i]])
  <2>. DEFINE n == Len(Sources)
  <2>1. n \in 0..Len(Sources) /\ f[n].ok /\ registry = f[n].reg /\ Starting(f, views, Len(Sources))
    BY <1>1, <1>4, <1>5
  <2>2. \A s \in SourceIds : views[s] \in Seq(Observations(0))
    BY <1>3
  <2>. HIDE DEF n
  <2>3. /\ SoundRegistry(f[n].reg) /\ f[n].reg.local = {}
        /\ \A i \in 1..n : Settled(f[n].reg, Sources[i], views[Sources[i]])
    BY <1>2, <2>1, <2>2, StartSettles
  <2>. QED BY <2>1, <2>3 DEF n
<1>7. \A s \in SourceIds : Settled(registry, s, views[s])
  <2>1. \A s \in SourceIds : \E i \in 1..Len(Sources) : Sources[i] = s
    BY CoordinatorConstants DEF SourceIds, ToSet
  <2>. QED BY <1>6, <2>1
<1>8. published = registry.order
  BY <1>2, <1>6, EndpointsAre
<1>11. commands \in Seq({}) /\ Len(commands) = 0 /\ DOMAIN commands = {}
  BY <1>2
<1>12. Queue(commands, held)
  BY <1>11 DEF Queue
<1>13. ASSUME NEW s \in SourceIds PROVE SourceInv(s, registry, commands, tasks[s], views[s], held[s], now)
  <2>1. /\ tasks[s].phase = "watching" /\ tasks[s].hand = <<>> /\ tasks[s].current = TRUE
        /\ tasks[s] \in [phase : {"watching", "retry", "ended"}, hand : {tasks[s].hand}, current : BOOLEAN]
    BY <1>2
  <2>2. TaskOf(tasks[s], s, held[s])
    BY <2>1 DEF TaskOf
  <2>3. held[s] = {views[s]}
    BY <1>2
  <2>4. Shown(s, held[s], views[s], now)
    BY <1>2, <1>3, <2>3 DEF Shown
  <2>5. Settled(registry, s, views[s])
    BY <1>7
  <2>6. NotLater(registry, s, views[s])
    <3>. SUFFICES ASSUME s \in Observing, Ttl[s] # 0, NEW e \in Canonical, registry.until[s][e] # -1, NEW j \in DOMAIN views[s]
                  PROVE  registry.until[s][e] - Ttl[s] <= views[s][j].at
      BY DEF NotLater
    <3>1. PICK i \in DOMAIN views[s] : registry.until[s][e] - Ttl[s] = views[s][i].at
      BY <2>5 DEF Settled, ShownBy
    <3>2. views[s][i].at = 0 /\ views[s][j].at = 0
      BY <1>3
    <3>. QED BY <3>1, <3>2
  <2>7. WholeView(registry, s, held[s], now)
    BY <1>2, <2>3, <2>5 DEF WholeView, Settled
  <2>. DEFINE X == Naming(views[s])
              path == [k \in 0..0 |-> X]
  <2>8. X \in SUBSET Canonical
    BY <1>3, NamingIs DEF Observations
  <2>9. Ttl[s] = 0 => Given(registry, s) = X \ registry.local
    BY <1>6, <2>5 DEF Settled
  <2>. HIDE DEF X
  <2>10. path \in [0..0 -> SUBSET Canonical] /\ path[0] = X
    BY <2>8
  <2>. HIDE DEF path
  <2>12. Path(path, s, registry, commands, tasks[s], views[s])
    BY <1>11, <2>1, <2>9, <2>10 DEF Path, X
  <2>. QED BY <1>2, <2>2, <2>4, <2>5, <2>6, <2>7, <2>12 DEF SourceInv, Settled
<1>14. tasks = [s \in SourceIds |-> tasks[s]] /\ views = [s \in SourceIds |-> views[s]] /\ held = [s \in SourceIds |-> held[s]]
  BY <1>1, <1>2
<1>16. now \in 0..LastTime
  BY <1>2, <1>5
<1>. QED BY <1>6, <1>8, <1>12, <1>13, <1>14, <1>16 DEF CoordinatorInv

-----------------------------------------------------------------------------
(* What the coordinator promises. *)

LEMMA ListCompletes ==
    ASSUME CoordinatorInv
    PROVE  Coordinator!ListIsComplete
<1>1. SoundRegistry(registry) /\ published = registry.order
  BY DEF CoordinatorInv
<1>2. Coordinator!Records(registry) = AllGiven(registry)
  BY RecordsAre
<1>3. Coordinator!ToSet(registry.order) = ToSet(registry.order) /\ Coordinator!Cardinality(AllGiven(registry)) = Cardinality(AllGiven(registry))
  BY CoordinatorSelects
<1>4. /\ ToSet(registry.order) = AllGiven(registry) /\ Len(registry.order) = Cardinality(AllGiven(registry))
      /\ Len(registry.order) <= MaxCandidates
  BY <1>1 DEF SoundRegistry, Merged
<1>. QED BY <1>1, <1>2, <1>3, <1>4 DEF Coordinator!ListIsComplete

LEMMA LocalIsLeftOut ==
    ASSUME CoordinatorInv
    PROVE  Coordinator!LocalIsNoCandidate
<1>. SUFFICES ASSUME registry.local = LocalEndpoints
              PROVE  \A e : e \in Coordinator!ToSet(published) => e \notin LocalEndpoints
  BY DEF Coordinator!LocalIsNoCandidate
<1>. TAKE e
<1>. HAVE e \in Coordinator!ToSet(published)
<1>1. SoundRegistry(registry) /\ published = registry.order /\ registry.local = LocalEndpoints
  BY DEF CoordinatorInv
<1>2. e \in ToSet(registry.order)
  BY <1>1, CoordinatorSelects
<1>3. e \in AllGiven(registry) /\ Backed(registry)
  BY <1>1, <1>2 DEF SoundRegistry, Merged
<1>4. PICK s \in SourceIds : registry.until[s][e] # -1 /\ e \in Canonical
  BY <1>3 DEF AllGiven
<1>. QED BY <1>1, <1>3, <1>4 DEF Backed

LEMMA LeasesAreHonoured ==
    ASSUME CoordinatorInv
    PROVE  Coordinator!LeaseIsHonoured
<1>. SUFFICES ASSUME NEW s \in SourceIds, NEW e \in Canonical, Ttl[s] # 0, registry.until[s][e] # -1
              PROVE  /\ registry.until[s][e] <= now + Ttl[s]
                     /\ s \in Observing => \E t \in 0..now :
                           /\ registry.until[s][e] = t + Ttl[s]
                           /\ \A i \in DOMAIN views[s] : Spellings[views[s][i].peer] = e => t <= views[s][i].at
  BY CoordinatorConstants DEF Coordinator!LeaseIsHonoured, Coordinator!canonicalize_endpoint
<1>. DEFINE until == registry.until[s][e]
            t == until - Ttl[s]
<1>1. now \in Nat /\ Ttl[s] \in Nat
  BY CoordinatorElim, CoordinatorConstants
<1>2. t \in 0..now
  BY CoordinatorElim DEF Leases
<1>3. until \in Int
  BY DEF CoordinatorInv, SoundRegistry, RegistryType
<1>4. s \in Observing => \A i \in DOMAIN views[s] : t <= views[s][i].at
  BY CoordinatorElim DEF NotLater
<1>5. until = t + Ttl[s] /\ until <= now + Ttl[s]
  <2>. HIDE DEF until
  <2>. QED BY <1>1, <1>2, <1>3
<1>. HIDE DEF t
<1>. QED BY <1>2, <1>4, <1>5 DEF until

LEMMA SourcesAreFollowed ==
    ASSUME CoordinatorInv
    PROVE  Coordinator!FollowsTheSource
<1>. SUFFICES ASSUME NEW s \in SourceIds, Ttl[s] = 0, tasks[s].phase = "watching", tasks[s].hand = <<>>, tasks[s].current,
                     \A i \in DOMAIN commands : commands[i].kind = "local" \/ commands[i].source # s
              PROVE  Given(registry, s) = Naming(views[s]) \ registry.local
  BY CoordinatorConstants DEF Coordinator!FollowsTheSource, Coordinator!Watching, Coordinator!Named, Coordinator!canonicalize_endpoint, Given, Naming
<1>1. PICK path : Path(path, s, registry, commands, tasks[s], views[s])
  BY CoordinatorElim
<1>2. Given(registry, s) = path[0] \ registry.local /\ Naming(views[s]) = path[Len(commands)]
  BY <1>1 DEF Path
<1>3. Len(commands) \in Nat /\ DOMAIN commands = 1..Len(commands)
  <2>1. PICK C : commands \in Seq(C)
    BY DEF CoordinatorInv, Queue
  <2>. QED BY <2>1
<1>4. \A k \in 1..Len(commands) : path[k] = path[k - 1]
  BY <1>1, <1>3 DEF Path, Effect
<1>5. path[Len(commands)] = path[0]
  <2>. DEFINE T == {k \in 0..Len(commands) : path[k] # path[0]}
  <2>. SUFFICES ASSUME T # {} PROVE FALSE
    BY <1>3
  <2>1. T \subseteq Nat
    BY <1>3
  <2>2. PICK k \in T : \A l \in T : k <= l
    <3>. HIDE DEF T
    <3>. QED BY <2>1, NatMin
  <2>3. k \in 0..Len(commands) /\ path[k] # path[0] /\ k # 0
    OBVIOUS
  <2>4. k \in 1..Len(commands) /\ k - 1 \in 0..Len(commands) /\ ~(k <= k - 1)
    BY <1>3, <2>3
  <2>5. k - 1 \notin T
    <3>. HIDE DEF T
    <3>. QED BY <2>2, <2>4
  <2>6. path[k - 1] = path[0]
    BY <2>4, <2>5
  <2>. QED BY <1>4, <2>3, <2>4, <2>6
<1>. QED BY <1>2, <1>5

LEMMA FreshNames ==
    ASSUME NEW s \in SourceIds, now \in 0..LastTime, NEW view \in Seq(Observations(now)), NEW e \in Canonical
    PROVE  e \in Coordinator!Named(Coordinator!Fresh(view, s)) <=> NamedAfter(view, e, s, now)
<1>. DEFINE fresh == Coordinator!Fresh(view, s)
<1>1. /\ \A k \in DOMAIN fresh : \E i \in DOMAIN view :
            fresh[k] = view[i] /\ (Ttl[s] = 0 \/ view[i].at + Ttl[s] > now)
      /\ \A i \in DOMAIN view : Ttl[s] = 0 \/ view[i].at + Ttl[s] > now =>
            \E k \in DOMAIN fresh : fresh[k] = view[i]
  BY FreshFacts
<1>2. e # Invalid
  BY DEF Canonical
<1>. HIDE DEF fresh
<1>3. e \in Coordinator!Named(fresh) <=> \E k \in DOMAIN fresh : Spellings[fresh[k].peer] = e
  BY <1>2 DEF Coordinator!Named, Coordinator!canonicalize_endpoint
<1>4. (\E k \in DOMAIN fresh : Spellings[fresh[k].peer] = e) <=> NamedAfter(view, e, s, now)
  BY <1>1 DEF NamedAfter
<1>. QED BY <1>3, <1>4 DEF fresh

LEMMA OnlyWholeViews ==
    ASSUME CoordinatorInv
    PROVE  Coordinator!WholeViewsOnly
<1>. SUFFICES ASSUME NEW s \in Observing
              PROVE  \E view \in held[s] \cup {<<>>} :
                        {e \in Canonical : registry.until[s][e] > now} = Coordinator!Named(Coordinator!Fresh(view, s)) \ registry.local
  BY CoordinatorConstants DEF Coordinator!WholeViewsOnly
<1>1. s \in SourceIds
  BY CoordinatorConstants
<1>2. now \in 0..LastTime /\ now \in now..LastTime
  BY <1>1, CoordinatorElim, CoordinatorConstants
<1>3. PICK view \in held[s] \cup {<<>>} : Contributes(registry, s, view, now)
  BY <1>1, CoordinatorElim DEF WholeView
<1>4. view \in Seq(Observations(now))
  <2>1. view \in held[s] => view \in Seq(Observations(now))
    BY <1>1, CoordinatorElim DEF Shown
  <2>2. <<>> \in Seq(Observations(now))
    OBVIOUS
  <2>. QED BY <1>3, <2>1, <2>2
<1>5. \A e \in Canonical : registry.until[s][e] > now <=> e \notin registry.local /\ NamedAfter(view, e, s, now)
  BY <1>2, <1>3 DEF Contributes
<1>6. \A e \in Canonical : e \in Coordinator!Named(Coordinator!Fresh(view, s)) <=> NamedAfter(view, e, s, now)
  BY <1>1, <1>2, <1>4, FreshNames
<1>7. Coordinator!Named(Coordinator!Fresh(view, s)) \subseteq Canonical
  <2>. DEFINE fresh == Coordinator!Fresh(view, s)
  <2>1. fresh \in Seq(Observations(now))
    BY <1>1, <1>2, <1>4, FreshFacts
  <2>. HIDE DEF fresh
  <2>2. Naming(fresh) \subseteq Canonical
    BY <2>1, NamingIs DEF Observations
  <2>3. Coordinator!Named(fresh) = Naming(fresh)
    BY DEF Coordinator!Named, Coordinator!canonicalize_endpoint, Naming
  <2>. QED BY <2>2, <2>3 DEF fresh
<1>8. \A e : e \in {x \in Canonical : registry.until[s][x] > now} <=> e \in Coordinator!Named(Coordinator!Fresh(view, s)) \ registry.local
  BY <1>5, <1>6, <1>7
<1>9. {x \in Canonical : registry.until[s][x] > now} = Coordinator!Named(Coordinator!Fresh(view, s)) \ registry.local
  BY <1>8
<1>. QED BY <1>3, <1>9

LEMMA CoordinatorRests ==
    ASSUME CoordinatorInv, registry' = registry, published' = published, commands' = commands, views' = views,
           tasks' = tasks, now' = now, held' = held
    PROVE  CoordinatorInv'
BY DEF CoordinatorInv, Queue, SourceInv, Path, Good

LEMMA CoordinatorInvHolds == Spec => [](kind = "candidates" => CoordinatorInv)
<1>. DEFINE Inv == kind = "candidates" => CoordinatorInv
<1>1. Init => Inv
  <2>. SUFFICES ASSUME Init, kind = "candidates" PROVE CoordinatorInv
    BY DEF Inv
  <2>1. Coordinator!Init
    BY DEF Init
  <2>. QED BY <2>1, CoordinatorStarts
<1>2. Inv /\ [Next]_allVars => Inv'
  <2>. SUFFICES ASSUME kind = "candidates" => CoordinatorInv, [Next]_allVars, kind' = "candidates" PROVE CoordinatorInv'
    BY DEF Inv
  <2>1. kind = "candidates" /\ CoordinatorInv
    BY DEF Next, allVars
  <2>2. CASE Next
    <3>1. Coordinator!Next
      BY <2>1, <2>2 DEF Next
    <3>. QED BY <2>1, <3>1, CoordinatorKeeps
  <2>3. CASE UNCHANGED allVars
    <3>1. /\ registry' = registry /\ published' = published /\ commands' = commands /\ views' = views
          /\ tasks' = tasks /\ now' = now /\ held' = held
      BY <2>3 DEF allVars, vars, providerVars, coordinatorVars
    <3>. QED BY <2>1, <3>1, CoordinatorRests
  <2>. QED BY <2>2, <2>3
<1>. QED BY <1>1, <1>2, PTL DEF Spec

\* The published list is the merge of what the sources contribute, each endpoint
\* once, within max_candidates and without the node's own; leases begin at the
\* observation, a source without leases is followed through queued commands,
\* failures and new subscriptions, and what an observing source contributes is one
\* whole view that it has shown: for any number of sources, views and endpoints
\* (CandidateRegistry, run_candidate_registry, run_provider_watch).
THEOREM CandidatesAreMerged == Spec => []CandidatesInv
<1>1. (kind = "candidates" => CoordinatorInv) => CandidatesInv
  BY ListCompletes, LocalIsLeftOut, LeasesAreHonoured, SourcesAreFollowed, OnlyWholeViews
     DEF CandidatesInv, Coordinator!CandidatesInv
<1>. QED BY <1>1, CoordinatorInvHolds, PTL
=============================================================================
