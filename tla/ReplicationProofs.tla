------------------------- MODULE ReplicationProofs -------------------------
(***************************************************************************)
(* Proofs about Replication, for every number of nodes and operations and  *)
(* every limit.                                                            *)
(***************************************************************************)
EXTENDS Replication, FiniteSetTheorems, FunctionTheorems, SequenceTheorems, TLAPS

-----------------------------------------------------------------------------
(* Sequences: what the seen list and the log keep and drop. *)

\* A prefix is a sequence of the same elements.
LEMMA FirstOfFacts ==
    ASSUME NEW S, NEW s \in Seq(S), NEW k \in Nat
    PROVE  /\ FirstOf(s, k) \in Seq(S)
           /\ Range(FirstOf(s, k)) \subseteq Range(s)
  BY DEF FirstOf, Smaller, Range

\* The kept suffix is a sequence of the same elements.
LEMMA LastOfFacts ==
    ASSUME NEW S, NEW s \in Seq(S), NEW limit \in Nat
    PROVE  /\ LastOf(s, limit) \in Seq(S)
           /\ Range(LastOf(s, limit)) \subseteq Range(s)
  <1> DEFINE e == Excess(Len(s), limit)
  <1>1. e \in Nat /\ e <= Len(s)
    BY DEF Excess
  <1>2. SubSeq(s, e + 1, Len(s)) \in Seq(S)
    BY <1>1
  <1>3. \A i \in DOMAIN SubSeq(s, e + 1, Len(s)) :
           i + e \in 1..Len(s) /\ SubSeq(s, e + 1, Len(s))[i] = s[i + e]
    BY <1>1
  <1>4. ASSUME NEW x \in Range(SubSeq(s, e + 1, Len(s)))
        PROVE  x \in Range(s)
    <2>1. PICK i \in DOMAIN SubSeq(s, e + 1, Len(s)) : x = SubSeq(s, e + 1, Len(s))[i]
      BY DEF Range
    <2>2. i + e \in 1..Len(s) /\ x = s[i + e]
      BY <1>3, <2>1
    <2>3. DOMAIN s = 1..Len(s)
      OBVIOUS
    <2> QED
      BY <2>2, <2>3 DEF Range
  <1> QED
    BY <1>2, <1>4 DEF LastOf

\* What is not evicted from the front is kept.
LEMMA KeptOrEvicted ==
    ASSUME NEW S, NEW s \in Seq(S), NEW limit \in Nat, NEW o \in Range(s),
           o \notin Range(FirstOf(s, Excess(Len(s), limit)))
    PROVE  o \in Range(LastOf(s, limit))
  <1> DEFINE e == Excess(Len(s), limit)
  <1>1. e \in Nat /\ e <= Len(s)
    BY DEF Excess
  <1>2. PICK i \in 1..Len(s) : s[i] = o
    BY DEF Range
  <1>3. CASE i <= e
    <2>1. FirstOf(s, e) = SubSeq(s, 1, e)
      BY <1>1 DEF FirstOf, Smaller
    <2>2. i \in DOMAIN SubSeq(s, 1, e) /\ SubSeq(s, 1, e)[i] = o
      BY <1>1, <1>2, <1>3
    <2> QED
      BY <2>1, <2>2 DEF Range
  <1>4. CASE i > e
    <2>1. LastOf(s, limit) = SubSeq(s, e + 1, Len(s))
      BY DEF LastOf
    <2>2. i - e \in DOMAIN SubSeq(s, e + 1, Len(s)) /\ SubSeq(s, e + 1, Len(s))[i - e] = o
      BY <1>1, <1>2, <1>4
    <2> QED
      BY <2>1, <2>2 DEF Range
  <1> QED
    BY <1>1, <1>2, <1>3, <1>4

\* The position of an element lies in the sequence.
LEMMA IndexInType ==
    ASSUME NEW S, NEW s \in Seq(S), NEW o \in Range(s)
    PROVE  IndexIn(s, o) \in 1..Len(s)
  BY DEF IndexIn, Range

\* A finite set enumerated by a sequence.
LEMMA EnumerationIsSeq ==
    ASSUME NEW T \in SUBSET Ops, NEW s \in [1..Cardinality(T) -> T]
    PROVE  s \in Seq(Ops)
  <1>1. Cardinality(T) \in Nat
    BY OpsAssumption, FS_Subset, FS_CardinalityType
  <1> QED
    BY <1>1

\* Filtering a batch leaves exactly its unknown ids.
LEMMA UnseenFacts ==
    ASSUME NEW ops \in Seq(Ops), NEW known, NEW s \in Unseen(ops, known)
    PROVE  /\ s \in Seq(Ops)
           /\ Range(s) = Range(ops) \ known
  <1> DEFINE new == Range(ops) \ known
  <1>1. new \in SUBSET Ops
    BY RangeOfSeq
  <1>2. s \in [1..Cardinality(new) -> new] /\ Range(s) = new
    BY DEF Unseen, NewIds
  <1> QED
    BY <1>1, <1>2, EnumerationIsSeq

\* Sorting a table lists exactly its ids.
LEMMA SortedFacts ==
    ASSUME NEW table, NEW s \in SortedBySequence(table)
    PROVE  /\ s \in Seq(Ops)
           /\ Range(s) = {o \in Ops : table[o] # Absent}
  <1> DEFINE ids == {o \in Ops : table[o] # Absent}
  <1>1. s \in [1..Cardinality(ids) -> ids] /\ Range(s) = ids
    BY DEF SortedBySequence
  <1> QED
    BY <1>1, EnumerationIsSeq

\* A batch of writes on a table keeps it a table of sequence numbers.
LEMMA TableBatchType ==
    ASSUME NEW table \in [Ops -> Nat \cup {Absent}], NEW ins \in Seq(Ops),
           NEW next \in Nat, NEW evicted
    PROVE  TableBatch(table, ins, next, evicted) \in [Ops -> Nat \cup {Absent}]
  <1>1. ASSUME NEW o \in Ops, o \in Range(ins)
        PROVE  next + IndexIn(ins, o) - 1 \in Nat
    <2>1. IndexIn(ins, o) \in 1..Len(ins)
      BY <1>1, IndexInType
    <2> QED
      BY <2>1
  <1> QED
    BY <1>1 DEF TableBatch

-----------------------------------------------------------------------------
(* Types. *)

\* Recording a batch keeps the types of all it writes.
LEMMA RecordType ==
    ASSUME TypeOK, NEW n \in Nodes, NEW ins \in Seq(Ops), NEW d \in Store,
           Record(n, ins, d)
    PROVE  /\ state' \in [Nodes -> [Ops -> Nat]]
           /\ seen' \in [Nodes -> Seq(Ops)]
           /\ opLog' \in [Nodes -> Seq(Ops)]
           /\ nextSeen' \in [Nodes -> Nat]
           /\ nextLog' \in [Nodes -> Nat]
           /\ store' \in [Nodes -> Store]
           /\ disk' \in [Nodes -> Store]
           /\ forgotten' \in [Nodes -> SUBSET Ops]
  <1> USE LimitsAssumption
  <1> DEFINE se == plan_seen_evictions(n, ins)
             le == plan_op_log_evictions(n, ins)
             w  == [d EXCEPT !.seen = TableBatch(@, ins, nextSeen[n], se),
                             !.log  = TableBatch(@, ins, nextLog[n], le)]
  <1>1. /\ seen[n] \in Seq(Ops) /\ opLog[n] \in Seq(Ops)
        /\ nextSeen[n] \in Nat /\ nextLog[n] \in Nat
        /\ Len(ins) \in Nat
    BY DEF TypeOK
  <1>2. seen[n] \o ins \in Seq(Ops) /\ opLog[n] \o ins \in Seq(Ops)
    BY <1>1
  <1>3. se \in SUBSET Ops
    <2>1. Excess(Len(seen[n] \o ins), SeenLimit) \in Nat
      BY <1>2 DEF Excess
    <2>2. FirstOf(seen[n] \o ins, Excess(Len(seen[n] \o ins), SeenLimit)) \in Seq(Ops)
      BY <1>2, <2>1, FirstOfFacts
    <2>3. Range(FirstOf(seen[n] \o ins, Excess(Len(seen[n] \o ins), SeenLimit))) \in SUBSET Ops
      BY <2>2, RangeOfSeq
    <2> QED
      BY <2>3 DEF plan_seen_evictions
  <1>4. w \in Store
    <2>1. TableBatch(d.seen, ins, nextSeen[n], se) \in [Ops -> Nat \cup {Absent}]
      BY <1>1, TableBatchType DEF Store
    <2>2. TableBatch(d.log, ins, nextLog[n], le) \in [Ops -> Nat \cup {Absent}]
      BY <1>1, TableBatchType DEF Store
    <2> QED
      BY <2>1, <2>2 DEF Store
  <1>5. store' \in [Nodes -> Store] /\ disk' \in [Nodes -> Store]
    <2>1. store' = [store EXCEPT ![n] = w]
      BY DEF Record
    <2>2. Durable(n, w)
      BY DEF Record
    <2> QED
      BY <1>4, <2>1, <2>2 DEF Durable, TypeOK
  <1>6. state' \in [Nodes -> [Ops -> Nat]]
    BY DEF Record, TypeOK, Store
  <1>7. /\ seen' \in [Nodes -> Seq(Ops)]
        /\ opLog' \in [Nodes -> Seq(Ops)]
    <2>1. LastOf(seen[n] \o ins, SeenLimit) \in Seq(Ops)
      BY <1>2, LastOfFacts
    <2>2. LastOf(opLog[n] \o ins, OpLogLimit) \in Seq(Ops)
      BY <1>2, LastOfFacts
    <2> QED
      BY <2>1, <2>2 DEF Record, TypeOK
  <1>8. nextSeen' \in [Nodes -> Nat] /\ nextLog' \in [Nodes -> Nat]
    <2>1. /\ nextSeen' = [nextSeen EXCEPT ![n] = @ + Len(ins)]
          /\ nextLog' = [nextLog EXCEPT ![n] = @ + Len(ins)]
      BY DEF Record
    <2> QED
      BY <1>1, <2>1 DEF TypeOK
  <1>9. forgotten' \in [Nodes -> SUBSET Ops]
    BY <1>3 DEF Record, TypeOK
  <1> QED
    BY <1>5, <1>6, <1>7, <1>8, <1>9

\* Channels with both directions of one connection replaced.
LEMMA ChannelsType ==
    ASSUME TypeOK, NEW n \in Nodes, NEW m \in Nodes,
           NEW a \in Seq(Message), NEW b \in Seq(Message)
    PROVE  [chan EXCEPT ![n][m] = a, ![m][n] = b] \in [Nodes -> [Nodes -> Seq(Message)]]
  <1>1. [chan EXCEPT ![n][m] = a] \in [Nodes -> [Nodes -> Seq(Message)]]
    BY DEF TypeOK
  <1> QED
    BY <1>1

\* Every step keeps the types.
LEMMA TypeStep ==
    ASSUME TypeOK, [Next]_vars
    PROVE  TypeOK'
  <1> USE LimitsAssumption
  <1>1. ASSUME NEW n \in Nodes, NEW o \in Ops, HostCall(n, o)
        PROVE  TypeOK'
    <2> DEFINE applied == [state[n] EXCEPT ![o] = @ + 1]
               written == [store[n] EXCEPT !.state = applied]
    <2>1. applied \in [Ops -> Nat] /\ written \in Store
      <3>1. state[n] \in [Ops -> Nat] /\ store[n] \in Store
        BY DEF TypeOK
      <3>2. applied \in [Ops -> Nat]
        BY <3>1
      <3> QED
        BY <3>1, <3>2 DEF Store
    <2>2. /\ state' = [state EXCEPT ![n] = applied]
          /\ store' = [store EXCEPT ![n] = written]
          /\ Durable(n, written)
      BY <1>1 DEF HostCall
    <2>3. /\ state' \in [Nodes -> [Ops -> Nat]]
          /\ store' \in [Nodes -> Store]
          /\ disk' \in [Nodes -> Store]
      BY <2>1, <2>2 DEF Durable, TypeOK
    <2>4. /\ issued' = issued \cup {o} /\ o \in Ops
          /\ calls' = [calls EXCEPT ![n] = @ \cup {o}]
          /\ UNCHANGED <<queue, phase, batch, seen, opLog, nextSeen, nextLog, chan, forgotten, faults>>
      BY <1>1 DEF HostCall
    <2>5. issued' \in SUBSET Ops /\ calls' \in [Nodes -> SUBSET Ops]
      BY <2>4 DEF TypeOK
    <2> HIDE DEF applied, written
    <2> QED
      BY <2>3, <2>4, <2>5 DEF TypeOK
  <1>2. ASSUME NEW n \in Nodes, NEW o \in Ops, HostSend(n, o)
        PROVE  TypeOK'
    BY <1>2 DEF HostSend, TypeOK
  <1>3. ASSUME NEW n \in Nodes, RecvFirst(n)
        PROVE  TypeOK'
    <2>1. Head(queue[n]) \in Ops /\ Tail(queue[n]) \in Seq(Ops)
      BY <1>3 DEF RecvFirst, TypeOK
    <2> QED
      BY <1>3, <2>1 DEF RecvFirst, TypeOK
  <1> DEFINE taken(n) == FirstOf(queue[n], Coalesced(n))
             rest(n)  == SubSeq(queue[n], Coalesced(n) + 1, Len(queue[n]))
  <1>4. ASSUME NEW n \in Nodes
        PROVE  taken(n) \in Seq(Ops) /\ rest(n) \in Seq(Ops)
    <2>1. queue[n] \in Seq(Ops) /\ Coalesced(n) \in Nat /\ Coalesced(n) <= Len(queue[n])
      BY DEF TypeOK, Coalesced, Smaller
    <2>2. taken(n) \in Seq(Ops)
      BY <2>1, FirstOfFacts
    <2>3. rest(n) \in Seq(Ops)
      BY <2>1
    <2> QED
      BY <2>2, <2>3
  <1>5. ASSUME NEW n \in Nodes, RememberOps(n)
        PROVE  TypeOK'
    <2> DEFINE ops == batch[n] \o taken(n)
    <2>1. ops \in Seq(Ops) /\ store[n] \in Store
      BY <1>4 DEF TypeOK
    <2>2. PICK ins \in Unseen(ops, Range(seen[n])) : Record(n, ins, store[n])
      BY <1>5 DEF RememberOps
    <2>3. ins \in Seq(Ops)
      BY <2>1, UnseenFacts
    <2> QED
      BY <1>4, <1>5, <2>1, <2>2, <2>3, RecordType DEF RememberOps, TypeOK
  <1>6. ASSUME NEW n \in Nodes, RememberOpsFails(n)
        PROVE  TypeOK'
    <2>1. rest(n) \in Seq(Ops)
      BY <1>4
    <2>2. queue' = [queue EXCEPT ![n] = rest(n)]
      BY <1>6 DEF RememberOpsFails
    <2>3. queue' \in [Nodes -> Seq(Ops)]
      BY <2>1, <2>2 DEF TypeOK
    <2> QED
      BY <1>6, <2>3 DEF RememberOpsFails, Fault, TypeOK
  <1>7. ASSUME NEW n \in Nodes, BroadcastOps(n)
        PROVE  TypeOK'
    <2>1. PushOps(batch[n]) \in Message
      BY DEF PushOps, Message, TypeOK
    <2>2. PICK reached \in SUBSET (Nodes \ {n}) :
             chan' = [chan EXCEPT ![n] =
                [m \in Nodes |-> IF m \in reached THEN Append(@[m], PushOps(batch[n]))
                                 ELSE @[m]]]
      BY <1>7 DEF BroadcastOps
    <2>3. chan' \in [Nodes -> [Nodes -> Seq(Message)]]
      BY <2>1, <2>2 DEF TypeOK
    <2> QED
      BY <1>7, <2>3 DEF BroadcastOps, TypeOK
  <1>8. ASSUME NEW n \in Nodes, Flush(n)
        PROVE  TypeOK'
    BY <1>8 DEF Flush, nodeVars, TypeOK
  <1>9. ASSUME NEW n \in Nodes, Crash(n)
        PROVE  TypeOK'
    <2>1. PICK s \in SortedBySequence(disk[n].seen), l \in SortedBySequence(disk[n].log) :
          LET seenEvicted == Range(FirstOf(s, Excess(Len(s), SeenLimit)))
              logEvicted  == Range(FirstOf(l, Excess(Len(l), OpLogLimit)))
              hydrated    == [disk[n] EXCEPT
                                !.seen = TableBatch(@, <<>>, 0, seenEvicted),
                                !.log  = TableBatch(@, <<>>, 0, logEvicted)]
          IN  /\ store' = [store EXCEPT ![n] = hydrated]
              /\ Durable(n, hydrated)
              /\ seen' = [seen EXCEPT ![n] = LastOf(s, SeenLimit)]
              /\ opLog' = [opLog EXCEPT ![n] = LastOf(l, OpLogLimit)]
              /\ nextSeen' = [nextSeen EXCEPT ![n] = NextSequence(s, disk[n].seen)]
              /\ nextLog' = [nextLog EXCEPT ![n] = NextSequence(l, disk[n].log)]
              /\ forgotten' = [forgotten EXCEPT ![n] = @ \cup seenEvicted]
      BY <1>9 DEF Crash
    <2> DEFINE se == Range(FirstOf(s, Excess(Len(s), SeenLimit)))
               le == Range(FirstOf(l, Excess(Len(l), OpLogLimit)))
               h  == [disk[n] EXCEPT !.seen = TableBatch(@, <<>>, 0, se),
                                     !.log  = TableBatch(@, <<>>, 0, le)]
    <2>2. /\ s \in Seq(Ops) /\ l \in Seq(Ops)
          /\ Range(s) = {o \in Ops : disk[n].seen[o] # Absent}
          /\ Range(l) = {o \in Ops : disk[n].log[o] # Absent}
      BY SortedFacts
    <2>3. disk[n] \in Store /\ <<>> \in Seq(Ops)
      BY DEF TypeOK
    <2>4. se \in SUBSET Ops
      <3>1. Excess(Len(s), SeenLimit) \in Nat
        BY <2>2 DEF Excess
      <3> QED
        BY <2>2, <3>1, FirstOfFacts, RangeOfSeq
    <2>5. h \in Store
      <3>1. /\ TableBatch(disk[n].seen, <<>>, 0, se) \in [Ops -> Nat \cup {Absent}]
            /\ TableBatch(disk[n].log, <<>>, 0, le) \in [Ops -> Nat \cup {Absent}]
        BY <2>3, TableBatchType DEF Store
      <3> QED
        BY <2>3, <3>1 DEF Store
    <2>6. store' \in [Nodes -> Store] /\ disk' \in [Nodes -> Store]
      BY <2>1, <2>5 DEF Durable, TypeOK
    <2>7. LastOf(s, SeenLimit) \in Seq(Ops) /\ LastOf(l, OpLogLimit) \in Seq(Ops)
      BY <2>2, LastOfFacts
    <2>8. seen' \in [Nodes -> Seq(Ops)] /\ opLog' \in [Nodes -> Seq(Ops)]
      BY <2>1, <2>7 DEF TypeOK
    <2>9. ASSUME NEW t \in Seq(Ops), NEW table \in [Ops -> Nat \cup {Absent}],
                 Range(t) = {o \in Ops : table[o] # Absent}
          PROVE  NextSequence(t, table) \in Nat
      <3>1. CASE t = <<>>
        BY <3>1 DEF NextSequence
      <3>2. CASE t # <<>>
        <4>1. t[Len(t)] \in Range(t)
          BY <3>2 DEF Range
        <4>2. table[t[Len(t)]] \in Nat
          BY <2>9, <4>1
        <4> QED
          BY <3>2, <4>2 DEF NextSequence
      <3> QED
        BY <3>1, <3>2
    <2>10. nextSeen' \in [Nodes -> Nat] /\ nextLog' \in [Nodes -> Nat]
      <3>1. NextSequence(s, disk[n].seen) \in Nat /\ NextSequence(l, disk[n].log) \in Nat
        BY <2>2, <2>3, <2>9 DEF Store
      <3> QED
        BY <2>1, <3>1 DEF TypeOK
    <2>11. forgotten' \in [Nodes -> SUBSET Ops]
      BY <2>1, <2>4 DEF TypeOK
    <2>12. /\ state' \in [Nodes -> [Ops -> Nat]]
           /\ chan' \in [Nodes -> [Nodes -> Seq(Message)]]
      BY <1>9, <2>3 DEF Crash, TypeOK, Store
    <2>13. /\ issued' \in SUBSET Ops
           /\ calls' \in [Nodes -> SUBSET Ops]
           /\ queue' \in [Nodes -> Seq(Ops)]
           /\ phase' \in [Nodes -> {"idle", "coalesce", "push"}]
           /\ batch' \in [Nodes -> Seq(Ops)]
           /\ faults' \in Nat
      BY <1>9 DEF Crash, Fault, TypeOK
    <2> QED
      BY <2>6, <2>8, <2>10, <2>11, <2>12, <2>13 DEF TypeOK
  <1>10. ASSUME NEW n \in Nodes, NEW m \in Nodes, AntiEntropyPull(n, m)
         PROVE  TypeOK'
    <2>1. PullSince \in Message
      BY DEF PullSince, Message
    <2>2. Append(chan[n][m], PullSince) \in Seq(Message)
      BY <2>1 DEF TypeOK
    <2>3. chan' = [chan EXCEPT ![n][m] = Append(chan[n][m], PullSince)]
      BY <1>10 DEF AntiEntropyPull
    <2>4. chan' \in [Nodes -> [Nodes -> Seq(Message)]]
      BY <2>2, <2>3 DEF TypeOK
    <2> QED
      BY <1>10, <2>4 DEF AntiEntropyPull, nodeVars, TypeOK
  <1>11. ASSUME NEW n \in Nodes, NEW m \in Nodes, NEW k, Arrived(n, m, k)
         PROVE  Head(chan[m][n]) \in Message /\ Tail(chan[m][n]) \in Seq(Message)
    BY <1>11 DEF Arrived, TypeOK
  <1>12. ASSUME NEW n \in Nodes, NEW m \in Nodes, AnswerPull(n, m)
         PROVE  TypeOK'
    <2>1. PushOps(opLog[n]) \in Message
      BY DEF PushOps, Message, TypeOK
    <2>2. Tail(chan[m][n]) \in Seq(Message) /\ n # m
      BY <1>11, <1>12 DEF AnswerPull, Arrived
    <2>3. Append(chan[n][m], PushOps(opLog[n])) \in Seq(Message)
      BY <2>1 DEF TypeOK
    <2>4. chan' = [chan EXCEPT ![n][m] = Append(chan[n][m], PushOps(opLog[n])),
                               ![m][n] = Tail(chan[m][n])]
      BY <1>12, <2>2 DEF AnswerPull, op_log_since, TypeOK
    <2>5. chan' \in [Nodes -> [Nodes -> Seq(Message)]]
      BY <2>2, <2>3, <2>4, ChannelsType
    <2> QED
      BY <1>12, <2>5 DEF AnswerPull, nodeVars, TypeOK
  <1>13. ASSUME NEW n \in Nodes, NEW m \in Nodes, AnswerTimesOut(n, m)
         PROVE  TypeOK'
    <2>1. chan' = [chan EXCEPT ![n][m] = <<>>, ![m][n] = <<>>]
      BY <1>13 DEF AnswerTimesOut, DropConnection
    <2>2. <<>> \in Seq(Message)
      OBVIOUS
    <2>3. chan' \in [Nodes -> [Nodes -> Seq(Message)]]
      BY <2>1, <2>2, ChannelsType
    <2> QED
      BY <1>13, <2>3 DEF AnswerTimesOut, nodeVars, TypeOK
  <1>14. ASSUME NEW n \in Nodes, NEW m \in Nodes, ApplyRemoteOps(n, m)
         PROVE  TypeOK'
    <2> DEFINE ops     == Head(chan[m][n]).ops
               new     == Range(ops) \ Range(seen[n])
               applied == [o \in Ops |-> IF o \in new THEN state[n][o] + 1 ELSE state[n][o]]
               d       == [store[n] EXCEPT !.state = applied]
    <2>1. Tail(chan[m][n]) \in Seq(Message) /\ ops \in Seq(Ops)
      BY <1>11, <1>14 DEF ApplyRemoteOps, Message
    <2>2. d \in Store
      <3>1. state[n] \in [Ops -> Nat] /\ store[n] \in Store
        BY DEF TypeOK
      <3>2. applied \in [Ops -> Nat]
        BY <3>1
      <3> QED
        BY <3>1, <3>2 DEF Store
    <2>3. PICK ins \in Unseen(ops, Range(seen[n])) : Record(n, ins, d)
      BY <1>14 DEF ApplyRemoteOps, NewIds
    <2>4. ins \in Seq(Ops)
      BY <2>1, UnseenFacts
    <2>5. chan' \in [Nodes -> [Nodes -> Seq(Message)]]
      BY <1>14, <2>1 DEF ApplyRemoteOps, TypeOK
    <2> QED
      BY <1>14, <2>2, <2>3, <2>4, <2>5, RecordType DEF ApplyRemoteOps, TypeOK
  <1>15. ASSUME NEW n \in Nodes, NEW m \in Nodes, ApplyRemoteOpsFails(n, m)
         PROVE  TypeOK'
    <2>1. Tail(chan[m][n]) \in Seq(Message)
      BY <1>11, <1>15 DEF ApplyRemoteOpsFails
    <2> QED
      BY <1>15, <2>1 DEF ApplyRemoteOpsFails, Fault, nodeVars, TypeOK
  <1>16. ASSUME NEW n \in Nodes, NEW m \in Nodes, Disconnect(n, m)
         PROVE  TypeOK'
    <2>1. chan' = [chan EXCEPT ![n][m] = <<>>, ![m][n] = <<>>]
      BY <1>16 DEF Disconnect, DropConnection
    <2>2. <<>> \in Seq(Message)
      OBVIOUS
    <2>3. chan' \in [Nodes -> [Nodes -> Seq(Message)]]
      BY <2>1, <2>2, ChannelsType
    <2>4. /\ faults' = faults + 1
          /\ UNCHANGED <<issued, calls, queue, phase, batch, state, seen, opLog, nextSeen,
                         nextLog, store, disk, forgotten>>
      BY <1>16 DEF Disconnect, Fault, nodeVars
    <2>5. faults' \in Nat
      BY <2>4 DEF TypeOK
    <2> QED
      BY <2>3, <2>4, <2>5 DEF TypeOK
  <1>17. CASE UNCHANGED vars
    BY <1>17 DEF vars, nodeVars, TypeOK
  <1> QED
    BY <1>1, <1>2, <1>3, <1>5, <1>6, <1>7, <1>8, <1>9, <1>10, <1>12, <1>13, <1>14,
       <1>15, <1>16, <1>17 DEF Next, NodeStep, LinkStep

\* The sync manager's registries, lists, tables, queues and channels keep
\* their types for every number of nodes and operations and every limit.
THEOREM TypeCorrect == Spec => []TypeOK
  <1>1. Init => TypeOK
    BY DEF Init, TypeOK, EmptyStore, Store, Absent
  <1> QED
    BY <1>1, TypeStep, PTL DEF Spec

-----------------------------------------------------------------------------
(* At most once. *)

\* The elements of the sequences that the actions build.
LEMMA AppendTailRange ==
    ASSUME NEW S, NEW s \in Seq(S)
    PROVE  /\ \A x \in S : Range(Append(s, x)) = Range(s) \cup {x}
           /\ s # <<>> => Range(Tail(s)) \subseteq Range(s) /\ Head(s) \in Range(s)
           /\ Range(<<>>) = {}
  <1>1. ASSUME NEW x \in S
        PROVE  Range(Append(s, x)) = Range(s) \cup {x}
    <2>1. /\ DOMAIN Append(s, x) = 1..(Len(s) + 1)
          /\ DOMAIN s = 1..Len(s)
          /\ \A i \in 1..Len(s) : Append(s, x)[i] = s[i]
          /\ Append(s, x)[Len(s) + 1] = x
      OBVIOUS
    <2>2. ASSUME NEW y \in Range(Append(s, x))
          PROVE  y \in Range(s) \cup {x}
      <3>1. PICK i \in 1..(Len(s) + 1) : y = Append(s, x)[i]
        BY <2>1 DEF Range
      <3>2. CASE i \in 1..Len(s)
        BY <2>1, <3>1, <3>2 DEF Range
      <3>3. CASE i = Len(s) + 1
        BY <2>1, <3>1, <3>3
      <3> QED
        BY <3>1, <3>2, <3>3
    <2>3. ASSUME NEW y \in Range(s) \cup {x}
          PROVE  y \in Range(Append(s, x))
      <3>1. CASE y = x
        BY <2>1, <3>1 DEF Range
      <3>2. CASE y \in Range(s)
        <4>1. PICK i \in 1..Len(s) : y = s[i]
          BY <2>1, <3>2 DEF Range
        <4>2. i \in DOMAIN Append(s, x) /\ y = Append(s, x)[i]
          BY <2>1, <4>1
        <4> QED
          BY <4>2 DEF Range
      <3> QED
        BY <3>1, <3>2
    <2> QED
      BY <2>2, <2>3
  <1>2. ASSUME s # <<>>
        PROVE  Range(Tail(s)) \subseteq Range(s) /\ Head(s) \in Range(s)
    <2>1. /\ Len(s) \in Nat \ {0}
          /\ DOMAIN s = 1..Len(s)
          /\ DOMAIN Tail(s) = 1..(Len(s) - 1)
          /\ \A i \in 1..(Len(s) - 1) : Tail(s)[i] = s[i + 1]
          /\ Head(s) = s[1]
      BY <1>2
    <2>2. ASSUME NEW y \in Range(Tail(s))
          PROVE  y \in Range(s)
      <3>1. PICK i \in 1..(Len(s) - 1) : y = Tail(s)[i]
        BY <2>1 DEF Range
      <3>2. i + 1 \in DOMAIN s /\ y = s[i + 1]
        BY <2>1, <3>1
      <3> QED
        BY <3>2 DEF Range
    <2> QED
      BY <2>1, <2>2 DEF Range
  <1>3. Range(<<>>) = {}
    BY DEF Range
  <1> QED
    BY <1>1, <1>2, <1>3

\* What a write to a table changes.
LEMMA TableBatchFacts ==
    ASSUME NEW table \in [Ops -> Nat \cup {Absent}], NEW ins \in Seq(Ops),
           NEW next \in Nat, NEW evicted, NEW o \in Ops
    PROVE  LET t == TableBatch(table, ins, next, evicted)
           IN  /\ t[o] # Absent => o \notin evicted /\ (o \in Range(ins) \/ table[o] # Absent)
               /\ o \in Range(ins) \/ table[o] # Absent => t[o] # Absent \/ o \in evicted
  <1>1. o \in Range(ins) => next + IndexIn(ins, o) - 1 \in Nat
    <2>1. o \in Range(ins) => IndexIn(ins, o) \in 1..Len(ins)
      BY IndexInType
    <2> QED
      BY <2>1
  <1> QED
    BY <1>1 DEF TableBatch, Absent

\* What recording a batch changes: only n's part, only for the batch's
\* operations and for evicted ids, and an evicted id is in forgotten.
LEMMA RecordFacts ==
    ASSUME TypeOK, ~WriteBehind, SeenTableIsRead,
           NEW n \in Nodes, NEW ins \in Seq(Ops), NEW d \in Store,
           d.seen = store[n].seen, d.log = store[n].log,
           Record(n, ins, d)
    PROVE  /\ \A m \in Nodes \ {n} : /\ store'[m] = store[m] /\ disk'[m] = disk[m]
                                     /\ seen'[m] = seen[m] /\ opLog'[m] = opLog[m]
                                     /\ state'[m] = state[m] /\ forgotten'[m] = forgotten[m]
           /\ state'[n] = d.state /\ store'[n].state = d.state /\ disk'[n] = store'[n]
           /\ \A o \in Ops : store'[n].seen[o] # Absent => o \in Range(seen'[n])
           /\ \A o \in Ops : Held(n, o)' => Held(n, o) \/ o \in Range(ins)
           /\ \A o \in Ops : o \in Range(ins) \/ store[n].seen[o] # Absent =>
                                store'[n].seen[o] # Absent \/ o \in forgotten'[n]
           /\ forgotten[n] \subseteq forgotten'[n]
  <1> USE LimitsAssumption
  <1> DEFINE se == plan_seen_evictions(n, ins)
             le == plan_op_log_evictions(n, ins)
             ts == TableBatch(store[n].seen, ins, nextSeen[n], se)
             tl == TableBatch(store[n].log, ins, nextLog[n], le)
             w  == [d EXCEPT !.seen = ts, !.log = tl]
  <1>1. /\ store' = [store EXCEPT ![n] = w]
        /\ disk' = [disk EXCEPT ![n] = w]
        /\ state' = [state EXCEPT ![n] = d.state]
        /\ seen' = [seen EXCEPT ![n] = LastOf(seen[n] \o ins, SeenLimit)]
        /\ opLog' = [opLog EXCEPT ![n] = LastOf(opLog[n] \o ins, OpLogLimit)]
        /\ forgotten' = [forgotten EXCEPT ![n] = forgotten[n] \cup se]
    BY DEF Record, Durable, TypeOK
  <1>2. w.state = d.state /\ w.seen = ts /\ w.log = tl
    BY DEF Store
  <1>3. /\ store'[n] = w /\ disk'[n] = w /\ state'[n] = d.state
        /\ seen'[n] = LastOf(seen[n] \o ins, SeenLimit)
        /\ opLog'[n] = LastOf(opLog[n] \o ins, OpLogLimit)
        /\ forgotten'[n] = forgotten[n] \cup se
    BY <1>1 DEF TypeOK
  <1>4. \A m \in Nodes \ {n} : /\ store'[m] = store[m] /\ disk'[m] = disk[m]
                              /\ seen'[m] = seen[m] /\ opLog'[m] = opLog[m]
                              /\ state'[m] = state[m] /\ forgotten'[m] = forgotten[m]
    BY <1>1 DEF TypeOK
  <1>5. /\ seen[n] \in Seq(Ops) /\ opLog[n] \in Seq(Ops)
        /\ seen[n] \o ins \in Seq(Ops) /\ opLog[n] \o ins \in Seq(Ops)
        /\ Range(seen[n] \o ins) = Range(seen[n]) \cup Range(ins)
        /\ Range(opLog[n] \o ins) = Range(opLog[n]) \cup Range(ins)
    BY RangeConcatenation DEF TypeOK
  <1>6. /\ store[n].seen \in [Ops -> Nat \cup {Absent}]
        /\ store[n].log \in [Ops -> Nat \cup {Absent}]
        /\ nextSeen[n] \in Nat /\ nextLog[n] \in Nat
    BY DEF TypeOK, Store
  <1>7. ASSUME NEW o \in Ops
        PROVE  /\ ts[o] # Absent => o \notin se /\ (o \in Range(ins) \/ store[n].seen[o] # Absent)
               /\ o \in Range(ins) \/ store[n].seen[o] # Absent => ts[o] # Absent \/ o \in se
               /\ tl[o] # Absent => o \in Range(ins) \/ store[n].log[o] # Absent
    BY <1>6, TableBatchFacts
  <1>8. ASSUME NEW o \in Ops, store'[n].seen[o] # Absent
        PROVE  o \in Range(seen'[n])
    <2>1. o \notin se /\ o \in Range(seen[n] \o ins)
      BY <1>2, <1>3, <1>5, <1>7, <1>8 DEF SeenTableIsRead
    <2>2. o \notin Range(FirstOf(seen[n] \o ins, Excess(Len(seen[n] \o ins), SeenLimit)))
      BY <2>1 DEF plan_seen_evictions
    <2> QED
      BY <1>3, <1>5, <2>1, <2>2, KeptOrEvicted
  <1>9. ASSUME NEW o \in Ops, Held(n, o)'
        PROVE  Held(n, o) \/ o \in Range(ins)
    <2>1. /\ Range(seen'[n]) \subseteq Range(seen[n]) \cup Range(ins)
          /\ Range(opLog'[n]) \subseteq Range(opLog[n]) \cup Range(ins)
      BY <1>3, <1>5, LastOfFacts
    <2> QED
      BY <1>2, <1>3, <1>7, <1>9, <2>1 DEF Held
  <1> QED
    BY <1>2, <1>3, <1>4, <1>7, <1>8, <1>9

\* A step that applies, records and evicts nothing, and exposes only what was
\* exposed, keeps the delivery invariant.
LEMMA QuietStep ==
    ASSUME DeliveryInv, TypeOK',
           UNCHANGED <<issued, state, store, disk, seen, forgotten>>,
           \A o \in Ops : Exposed(o)' => Exposed(o),
           \A n \in Nodes : /\ Pending(n)' \subseteq Pending(n)
                            /\ \A i, j \in DOMAIN Waiting(n)' :
                                   Waiting(n)'[i] = Waiting(n)'[j] => i = j
                            /\ calls'[n] \cap Range(Waiting(n)') = {}
    PROVE  DeliveryInv'
  <1>1. SeenTableIsRead'
    BY DEF DeliveryInv, SeenTableIsRead
  <1>2. OnlyIssuedOps'
    BY DEF DeliveryInv, OnlyIssuedOps
  <1>3. RecordedBeforeExposed'
    BY DEF DeliveryInv, RecordedBeforeExposed
  <1>4. ReappliedOnlyIfForgotten'
    BY DEF DeliveryInv, ReappliedOnlyIfForgotten
  <1>5. PendingIsPrivate'
    <2>1. ASSUME NEW n \in Nodes, NEW o \in Pending(n)'
          PROVE  ~Exposed(o)' /\ \A m \in Nodes : state'[m][o] > 0 <=> m = n
      <3>1. o \in Pending(n) /\ o \in Ops
        <4>1. Pending(n) \subseteq Ops
          <5>1. Waiting(n) \in Seq(Ops)
            BY DEF DeliveryInv, TypeOK, Waiting
          <5> QED
            BY <5>1, RangeOfSeq DEF DeliveryInv, TypeOK, Pending
        <4> QED
          BY <2>1, <4>1
      <3> QED
        BY <3>1 DEF DeliveryInv, PendingIsPrivate
    <2> QED
      BY <2>1 DEF PendingIsPrivate
  <1> QED
    BY <1>1, <1>2, <1>3, <1>4, <1>5 DEF DeliveryInv

\* A step of the connections alone: a message that is not already in its
\* channel carries only exposed operations.
LEMMA ChannelStep ==
    ASSUME DeliveryInv, TypeOK',
           UNCHANGED <<issued, nodeVars, store, disk, forgotten>>,
           \A i, j \in Nodes : \A msg \in Range(chan'[i][j]) :
               \/ msg \in Range(chan[i][j])
               \/ \A o \in Ops : o \in Range(msg.ops) => Exposed(o)
    PROVE  DeliveryInv'
  <1>1. ASSUME NEW o \in Ops, Exposed(o)'
        PROVE  Exposed(o)
    <2>1. CASE InFlight(o)'
      <3>1. PICK i \in Nodes, j \in Nodes :
               \E msg \in Range(chan'[i][j]) : o \in Range(msg.ops)
        BY <2>1 DEF InFlight
      <3> QED
        BY <3>1 DEF Exposed, InFlight
    <2>2. CASE \E n \in Nodes : Held(n, o)' \/ Pushed(n, o)'
      BY <2>2 DEF Exposed, Held, Pushed, nodeVars
    <2> QED
      BY <1>1, <2>1, <2>2 DEF Exposed
  <1>2. \A n \in Nodes : Pending(n)' = Pending(n) /\ Waiting(n)' = Waiting(n) /\ calls'[n] = calls[n]
    BY DEF Pending, Waiting, nodeVars
  <1>3. UNCHANGED <<issued, state, store, disk, seen, forgotten>>
    BY DEF nodeVars
  <1> QED
    BY <1>1, <1>2, <1>3, QuietStep DEF DeliveryInv, PendingIsPrivate

\* all is ops followed by rest.
SplitsInto(all, ops, rest) ==
    /\ all \in Seq(Ops) /\ ops \in Seq(Ops) /\ rest \in Seq(Ops)
    /\ \A i \in DOMAIN ops : i \in DOMAIN all /\ all[i] = ops[i]
    /\ \A i \in DOMAIN rest : Len(ops) + i \in DOMAIN all /\ all[Len(ops) + i] = rest[i]

\* A sequence b \o q cut after the first c elements of q.
LEMMA ConcatSplit ==
    ASSUME NEW b \in Seq(Ops), NEW q \in Seq(Ops), NEW c \in Nat, c <= Len(q)
    PROVE  SplitsInto(b \o q, b \o SubSeq(q, 1, c), SubSeq(q, c + 1, Len(q)))
  <1>1. PICK first \in Seq(Ops) :
           /\ first = SubSeq(q, 1, c) /\ Len(first) = c
           /\ \A i \in 1..c : first[i] = q[i]
    <2>1. /\ SubSeq(q, 1, c) \in Seq(Ops) /\ Len(SubSeq(q, 1, c)) = c
          /\ \A i \in 1..c : SubSeq(q, 1, c)[i] = q[i]
      OBVIOUS
    <2> QED
      BY <2>1
  <1>2. PICK rest \in Seq(Ops) :
           /\ rest = SubSeq(q, c + 1, Len(q)) /\ Len(rest) = Len(q) - c
           /\ \A i \in 1..(Len(q) - c) : rest[i] = q[c + i]
    <2>1. /\ SubSeq(q, c + 1, Len(q)) \in Seq(Ops)
          /\ Len(SubSeq(q, c + 1, Len(q))) = Len(q) - c
      OBVIOUS
    <2>2. \A i \in 1..(Len(q) - c) : SubSeq(q, c + 1, Len(q))[i] = q[c + i]
      <3>1. \A i \in 1..(Len(q) - c) : SubSeq(q, c + 1, Len(q))[i] = q[(c + 1) + i - 1]
        OBVIOUS
      <3>2. \A i \in 1..(Len(q) - c) : (c + 1) + i - 1 = c + i
        OBVIOUS
      <3> QED
        BY <3>1, <3>2
    <2> QED
      BY <2>1, <2>2
  <1>3. PICK all \in Seq(Ops) :
           /\ all = b \o q /\ Len(all) = Len(b) + Len(q) /\ DOMAIN all = 1..(Len(b) + Len(q))
           /\ \A i \in 1..(Len(b) + Len(q)) : all[i] = IF i <= Len(b) THEN b[i] ELSE q[i - Len(b)]
    <2>1. /\ b \o q \in Seq(Ops) /\ Len(b \o q) = Len(b) + Len(q)
          /\ DOMAIN (b \o q) = 1..(Len(b) + Len(q))
      BY ConcatProperties
    <2>2. \A i \in 1..(Len(b) + Len(q)) : (b \o q)[i] = IF i <= Len(b) THEN b[i] ELSE q[i - Len(b)]
      BY ConcatProperties
    <2> QED
      BY <2>1, <2>2
  <1>4. PICK ops \in Seq(Ops) :
           /\ ops = b \o first /\ Len(ops) = Len(b) + c /\ DOMAIN ops = 1..(Len(b) + c)
           /\ \A i \in 1..(Len(b) + c) : ops[i] = IF i <= Len(b) THEN b[i] ELSE first[i - Len(b)]
    <2>1. /\ b \o first \in Seq(Ops) /\ Len(b \o first) = Len(b) + c
          /\ DOMAIN (b \o first) = 1..(Len(b) + c)
      BY <1>1
    <2>2. \A i \in 1..(Len(b) + c) : (b \o first)[i] = IF i <= Len(b) THEN b[i] ELSE first[i - Len(b)]
      BY <1>1, ConcatProperties
    <2> QED
      BY <2>1, <2>2
  <1>5. Len(b) \in Nat /\ Len(q) \in Nat /\ DOMAIN rest = 1..(Len(q) - c)
    BY <1>2
  <1>6. ASSUME NEW i \in 1..(Len(b) + c)
        PROVE  i \in 1..(Len(b) + Len(q)) /\ all[i] = ops[i]
    <2>1. i \in 1..(Len(b) + Len(q))
      BY <1>5
    <2>2. CASE i <= Len(b)
      BY <1>3, <1>4, <1>5, <2>1, <2>2
    <2>3. CASE ~(i <= Len(b))
      <3>1. i - Len(b) \in 1..c
        BY <1>5, <2>3
      <3> QED
        BY <1>1, <1>3, <1>4, <1>5, <2>1, <2>3, <3>1
    <2> QED
      BY <2>1, <2>2, <2>3
  <1>7. ASSUME NEW i \in 1..(Len(q) - c)
        PROVE  Len(ops) + i \in 1..(Len(b) + Len(q)) /\ all[Len(ops) + i] = rest[i]
    <2>1. /\ Len(b) + c + i \in 1..(Len(b) + Len(q))
          /\ ~(Len(b) + c + i <= Len(b)) /\ (Len(b) + c + i) - Len(b) = c + i
      BY <1>5
    <2>2. all[Len(b) + c + i] = q[c + i]
      BY <1>3, <2>1
    <2> QED
      BY <1>2, <1>4, <2>1, <2>2
  <1>8. SplitsInto(all, ops, rest)
    BY <1>3, <1>4, <1>5, <1>6, <1>7 DEF SplitsInto
  <1> QED
    BY <1>1, <1>2, <1>3, <1>4, <1>8

\* What one batch of the broadcast loop takes: a prefix of what waits, and the
\* rest stays in the queue.
LEMMA WaitingSplit ==
    ASSUME TypeOK, NEW n \in Nodes, phase[n] = "coalesce"
    PROVE  SplitsInto(Waiting(n), batch[n] \o FirstOf(queue[n], Coalesced(n)),
                      SubSeq(queue[n], Coalesced(n) + 1, Len(queue[n])))
  <1> USE LimitsAssumption
  <1>1. /\ batch[n] \in Seq(Ops) /\ queue[n] \in Seq(Ops)
        /\ Coalesced(n) \in Nat /\ Coalesced(n) <= Len(queue[n])
    BY DEF TypeOK, Coalesced, Smaller
  <1>2. FirstOf(queue[n], Coalesced(n)) = SubSeq(queue[n], 1, Coalesced(n))
    BY <1>1 DEF FirstOf, Smaller
  <1>3. Waiting(n) = batch[n] \o queue[n]
    BY DEF Waiting
  <1> QED
    BY <1>1, <1>2, <1>3, ConcatSplit

\* Appending to the second of two concatenated sequences.
LEMMA AppendToConcat ==
    ASSUME NEW b \in Seq(Ops), NEW q \in Seq(Ops), NEW o \in Ops
    PROVE  b \o Append(q, o) = Append(b \o q, o)
  <1>1. b \o q \in Seq(Ops) /\ <<o>> \in Seq(Ops)
    OBVIOUS
  <1>2. Append(q, o) = q \o <<o>>
    BY AppendIsConcat
  <1>3. Append(b \o q, o) = (b \o q) \o <<o>>
    BY <1>1, AppendIsConcat
  <1>4. (b \o q) \o <<o>> = b \o (q \o <<o>>)
    BY <1>1, ConcatAssociative
  <1> QED
    BY <1>2, <1>3, <1>4

\* The pending ids are ids.
LEMMA PendingType ==
    ASSUME TypeOK, NEW n \in Nodes
    PROVE  Waiting(n) \in Seq(Ops) /\ Pending(n) \in SUBSET Ops
  <1>1. Waiting(n) \in Seq(Ops)
    BY DEF TypeOK, Waiting
  <1> QED
    BY <1>1, RangeOfSeq DEF TypeOK, Pending

\* A host call creates an id that nobody knows.
LEMMA HostCallStep ==
    ASSUME DeliveryInv, TypeOK', ~WriteBehind,
           NEW n \in Nodes, NEW o \in Ops, HostCall(n, o)
    PROVE  DeliveryInv'
  <1> USE DEF DeliveryInv
  <1>1. /\ ~Exposed(o) /\ \A m \in Nodes : state[m][o] = 0
    BY DEF HostCall, OnlyIssuedOps
  <1>2. /\ state' = [state EXCEPT ![n] = [state[n] EXCEPT ![o] = state[n][o] + 1]]
        /\ store' = [store EXCEPT ![n] = [store[n] EXCEPT !.state = [state[n] EXCEPT ![o] = state[n][o] + 1]]]
        /\ disk' = [disk EXCEPT ![n] = [store[n] EXCEPT !.state = [state[n] EXCEPT ![o] = state[n][o] + 1]]]
        /\ issued' = issued \cup {o}
        /\ calls' = [calls EXCEPT ![n] = calls[n] \cup {o}]
        /\ UNCHANGED <<queue, phase, batch, seen, opLog, chan, forgotten>>
    BY DEF HostCall, Durable, TypeOK
  <1>3. \A m \in Nodes : /\ store'[m].seen = store[m].seen /\ store'[m].log = store[m].log
                         /\ store'[m].state = state'[m] /\ disk'[m] = store'[m]
    <2> DEFINE applied == [state[n] EXCEPT ![o] = state[n][o] + 1]
               written == [store[n] EXCEPT !.state = applied]
    <2>1. /\ written.seen = store[n].seen /\ written.log = store[n].log
          /\ written.state = applied
      BY DEF TypeOK, Store
    <2>2. /\ store' = [store EXCEPT ![n] = written] /\ disk' = [disk EXCEPT ![n] = written]
          /\ state' = [state EXCEPT ![n] = applied]
      BY <1>2
    <2> HIDE DEF applied, written
    <2>3. /\ store'[n] = written /\ disk'[n] = written /\ state'[n] = applied
          /\ \A m \in Nodes \ {n} : store'[m] = store[m] /\ disk'[m] = disk[m] /\ state'[m] = state[m]
      BY <2>2 DEF TypeOK
    <2>4. \A m \in Nodes \ {n} : store[m].state = state[m] /\ disk[m] = store[m]
      BY DEF SeenTableIsRead
    <2> QED
      BY <2>1, <2>3, <2>4
  <1>4. \A p \in Ops : Exposed(p)' <=> Exposed(p)
    BY <1>2, <1>3 DEF Exposed, InFlight, Held, Pushed
  <1>5. \A m \in Nodes, p \in Ops :
           state'[m][p] = IF m = n /\ p = o THEN 1 ELSE state[m][p]
    <2>1. state \in [Nodes -> [Ops -> Nat]]
      BY DEF TypeOK
    <2>2. state[n][o] = 0
      BY <1>1
    <2>3. \A m \in Nodes \ {n} : state'[m] = state[m]
      BY <1>2, <2>1
    <2>4. state'[n] = [state[n] EXCEPT ![o] = 1]
      BY <1>2, <2>1, <2>2
    <2>5. \A p \in Ops : state'[n][p] = IF p = o THEN 1 ELSE state[n][p]
      BY <2>1, <2>4
    <2> QED
      BY <2>3, <2>5
  <1>6. SeenTableIsRead'
    BY <1>2, <1>3 DEF SeenTableIsRead
  <1>7. OnlyIssuedOps'
    BY <1>2, <1>4, <1>5 DEF OnlyIssuedOps
  <1>8. RecordedBeforeExposed'
    BY <1>1, <1>2, <1>3, <1>4, <1>5 DEF RecordedBeforeExposed
  <1>9. ReappliedOnlyIfForgotten'
    BY <1>2, <1>5 DEF ReappliedOnlyIfForgotten
  <1>10. \A m \in Nodes : o \notin Pending(m)
    BY <1>1 DEF PendingIsPrivate
  <1>11. \A m \in Nodes : /\ Waiting(m)' = Waiting(m)
                          /\ calls'[m] = IF m = n THEN calls[m] \cup {o} ELSE calls[m]
                          /\ Pending(m)' = IF m = n THEN Pending(m) \cup {o} ELSE Pending(m)
    BY <1>2 DEF Waiting, Pending, TypeOK
  <1>12. PendingIsPrivate'
    <2>1. ASSUME NEW m \in Nodes, NEW p \in Pending(m)'
          PROVE  ~Exposed(p)' /\ \A k \in Nodes : state'[k][p] > 0 <=> k = m
      <3>1. CASE p = o
        <4>1. m = n
          BY <1>10, <1>11, <3>1
        <4> QED
          BY <1>1, <1>4, <1>5, <3>1, <4>1
      <3>2. CASE p # o
        <4>1. p \in Pending(m) /\ p \in Ops
          BY <1>11, <3>2, PendingType
        <4> QED
          BY <1>4, <1>5, <3>2, <4>1 DEF PendingIsPrivate
      <3> QED
        BY <3>1, <3>2
    <2>2. ASSUME NEW m \in Nodes
          PROVE  /\ \A i, j \in DOMAIN Waiting(m)' : Waiting(m)'[i] = Waiting(m)'[j] => i = j
                 /\ calls'[m] \cap Range(Waiting(m)') = {}
      <3>1. Waiting(m)' = Waiting(m) /\ calls'[m] \subseteq calls[m] \cup {o}
        BY <1>11
      <3>2. o \notin Range(Waiting(m)) /\ calls[m] \cap Range(Waiting(m)) = {}
        BY <1>10 DEF Pending, PendingIsPrivate
      <3>3. \A i, j \in DOMAIN Waiting(m) : Waiting(m)[i] = Waiting(m)[j] => i = j
        BY DEF PendingIsPrivate
      <3> QED
        BY <3>1, <3>2, <3>3
    <2> QED
      BY <2>1, <2>2 DEF PendingIsPrivate
  <1> QED
    BY <1>6, <1>7, <1>8, <1>9, <1>12

\* Sending to the broadcast queue moves an id from the call to the queue.
LEMMA HostSendStep ==
    ASSUME DeliveryInv, TypeOK',
           NEW n \in Nodes, NEW o \in Ops, HostSend(n, o)
    PROVE  DeliveryInv'
  <1> USE DEF DeliveryInv
  <1>1. /\ o \in calls[n]
        /\ calls' = [calls EXCEPT ![n] = calls[n] \ {o}]
        /\ queue' = [queue EXCEPT ![n] = Append(queue[n], o)]
        /\ UNCHANGED <<issued, phase, batch, state, seen, opLog, store, disk, chan, forgotten>>
    BY DEF HostSend, TypeOK
  <1>2. \A p \in Ops : Exposed(p)' => Exposed(p)
    BY <1>1 DEF Exposed, InFlight, Held, Pushed
  <1>3. Waiting(n)' = Append(Waiting(n), o)
    <2>1. queue'[n] = Append(queue[n], o) /\ batch[n] \in Seq(Ops) /\ queue[n] \in Seq(Ops)
      BY <1>1 DEF TypeOK
    <2>2. batch[n] \o Append(queue[n], o) = Append(batch[n] \o queue[n], o)
      BY <2>1, AppendToConcat
    <2> QED
      BY <1>1, <2>1, <2>2 DEF Waiting
  <1>4. \A m \in Nodes \ {n} : /\ Waiting(m)' = Waiting(m) /\ calls'[m] = calls[m]
                              /\ Pending(m)' = Pending(m)
    BY <1>1 DEF Waiting, Pending, TypeOK
  <1>5. Range(Waiting(n)') = Range(Waiting(n)) \cup {o}
    BY <1>3, PendingType, AppendTailRange
  <1>6. Pending(n)' \subseteq Pending(n) /\ calls'[n] \cap Range(Waiting(n)') = {}
    BY <1>1, <1>5 DEF Pending, PendingIsPrivate, TypeOK
  <1>7. ASSUME NEW i \in DOMAIN Waiting(n)', NEW j \in DOMAIN Waiting(n)',
               Waiting(n)'[i] = Waiting(n)'[j]
        PROVE  i = j
    <2> DEFINE w == Waiting(n)
    <2>1. /\ w \in Seq(Ops) /\ o \notin Range(w)
          /\ \A k, l \in 1..Len(w) : w[k] = w[l] => k = l
      BY <1>1, PendingType DEF PendingIsPrivate
    <2>2. /\ DOMAIN Append(w, o) = 1..(Len(w) + 1) /\ Append(w, o)[Len(w) + 1] = o
          /\ \A k \in 1..Len(w) : Append(w, o)[k] = w[k] /\ w[k] # o
      BY <2>1 DEF Range
    <2>3. /\ i \in 1..(Len(w) + 1) /\ j \in 1..(Len(w) + 1) /\ Len(w) \in Nat
          /\ Append(w, o)[i] = Append(w, o)[j]
      BY <1>3, <1>7, <2>1, <2>2
    <2> HIDE DEF w
    <2> QED
      BY <2>1, <2>2, <2>3
  <1> QED
    BY <1>1, <1>2, <1>4, <1>6, <1>7, QuietStep DEF PendingIsPrivate

\* Receiving the first operation of a batch leaves the same ids waiting.
LEMMA RecvFirstStep ==
    ASSUME DeliveryInv, TypeOK', NEW n \in Nodes, RecvFirst(n)
    PROVE  DeliveryInv'
  <1> USE DEF DeliveryInv
  <1>1. /\ phase[n] = "idle" /\ queue[n] # <<>>
        /\ batch' = [batch EXCEPT ![n] = <<Head(queue[n])>>]
        /\ queue' = [queue EXCEPT ![n] = Tail(queue[n])]
        /\ phase' = [phase EXCEPT ![n] = "coalesce"]
        /\ UNCHANGED <<issued, calls, state, seen, opLog, store, disk, chan, forgotten>>
    BY DEF RecvFirst, TypeOK
  <1>2. ASSUME NEW p \in Ops, Exposed(p)'
        PROVE  Exposed(p)
    <2>1. \A m \in Nodes : Pushed(m, p)' => Pushed(m, p)
      BY <1>1 DEF Pushed, TypeOK
    <2>2. \A m \in Nodes : Held(m, p)' => Held(m, p)
      BY <1>1 DEF Held
    <2>3. InFlight(p)' => InFlight(p)
      BY <1>1 DEF InFlight
    <2> QED
      BY <1>2, <2>1, <2>2, <2>3 DEF Exposed
  <1>3. Waiting(n)' = Waiting(n)
    <2>1. queue[n] \in Seq(Ops) /\ queue[n] # <<>>
      BY <1>1 DEF TypeOK
    <2>2. <<Head(queue[n])>> \o Tail(queue[n]) = queue[n]
      BY <2>1
    <2> QED
      BY <1>1, <2>2 DEF Waiting, TypeOK
  <1>4. \A m \in Nodes : Waiting(m)' = Waiting(m) /\ calls'[m] = calls[m]
    BY <1>1, <1>3 DEF Waiting, TypeOK
  <1> QED
    BY <1>1, <1>2, <1>4, QuietStep DEF PendingIsPrivate, Pending

\* Part of what waits is still distinct ids that are not in a call.
LEMMA RestOfWaiting ==
    ASSUME DeliveryInv, NEW n \in Nodes, NEW ops, NEW rest,
           SplitsInto(Waiting(n), ops, rest)
    PROVE  /\ \A i, j \in DOMAIN rest : rest[i] = rest[j] => i = j
           /\ Range(rest) \subseteq Range(Waiting(n))
           /\ Range(ops) \subseteq Range(Waiting(n))
           /\ Range(ops) \cap Range(rest) = {}
           /\ calls[n] \cap Range(rest) = {}
  <1> USE DEF DeliveryInv
  <1>1. /\ ops \in Seq(Ops) /\ rest \in Seq(Ops)
        /\ DOMAIN ops = 1..Len(ops) /\ DOMAIN rest = 1..Len(rest) /\ Len(ops) \in Nat
        /\ \A i \in DOMAIN ops : i \in DOMAIN Waiting(n) /\ Waiting(n)[i] = ops[i]
        /\ \A i \in DOMAIN rest : Len(ops) + i \in DOMAIN Waiting(n) /\ Waiting(n)[Len(ops) + i] = rest[i]
    BY DEF SplitsInto
  <1>2. \A i, j \in DOMAIN Waiting(n) : Waiting(n)[i] = Waiting(n)[j] => i = j
    BY DEF PendingIsPrivate
  <1>3. ASSUME NEW i \in DOMAIN rest, NEW j \in DOMAIN rest, rest[i] = rest[j]
        PROVE  i = j
    <2>1. Len(ops) + i = Len(ops) + j
      BY <1>1, <1>2, <1>3
    <2>2. i \in Nat /\ j \in Nat
      BY <1>1
    <2> QED
      BY <1>1, <2>1, <2>2
  <1>4. Range(rest) \subseteq Range(Waiting(n)) /\ Range(ops) \subseteq Range(Waiting(n))
    BY <1>1 DEF Range
  <1>5. ASSUME NEW o \in Range(ops), o \in Range(rest)
        PROVE  FALSE
    <2>1. PICK i \in DOMAIN ops : o = ops[i]
      BY DEF Range
    <2>2. PICK j \in DOMAIN rest : o = rest[j]
      BY <1>5 DEF Range
    <2>3. i = Len(ops) + j
      BY <1>1, <1>2, <2>1, <2>2
    <2>4. i \in 1..Len(ops) /\ j \in 1..Len(rest) /\ Len(ops) \in Nat
      BY <1>1
    <2> QED
      BY <2>3, <2>4
  <1>6. calls[n] \cap Range(rest) = {}
    BY <1>4 DEF PendingIsPrivate
  <1> QED
    BY <1>3, <1>4, <1>5, <1>6

\* A batch that cannot be recorded is dropped: its ids stay private for ever.
LEMMA RememberOpsFailsStep ==
    ASSUME DeliveryInv, TypeOK', NEW n \in Nodes, RememberOpsFails(n)
    PROVE  DeliveryInv'
  <1> USE DEF DeliveryInv
  <1> DEFINE ops  == batch[n] \o FirstOf(queue[n], Coalesced(n))
             rest == SubSeq(queue[n], Coalesced(n) + 1, Len(queue[n]))
  <1>1. /\ phase[n] = "coalesce"
        /\ batch' = [batch EXCEPT ![n] = <<>>]
        /\ queue' = [queue EXCEPT ![n] = rest]
        /\ phase' = [phase EXCEPT ![n] = "idle"]
        /\ UNCHANGED <<issued, calls, state, seen, opLog, store, disk, chan, forgotten>>
    BY DEF RememberOpsFails, TypeOK
  <1>2. SplitsInto(Waiting(n), ops, rest)
    BY <1>1, WaitingSplit
  <1> HIDE DEF ops, rest
  <1>3. ASSUME NEW p \in Ops, Exposed(p)'
        PROVE  Exposed(p)
    <2>1. \A m \in Nodes : Pushed(m, p)' => Pushed(m, p)
      BY <1>1 DEF Pushed, TypeOK
    <2>2. \A m \in Nodes : Held(m, p)' => Held(m, p)
      BY <1>1 DEF Held
    <2>3. InFlight(p)' => InFlight(p)
      BY <1>1 DEF InFlight
    <2> QED
      BY <1>3, <2>1, <2>2, <2>3 DEF Exposed
  <1>4. Waiting(n)' = rest
    BY <1>1 DEF Waiting, TypeOK
  <1>5. \A m \in Nodes \ {n} : Waiting(m)' = Waiting(m) /\ calls'[m] = calls[m]
    BY <1>1 DEF Waiting, TypeOK
  <1>6. /\ \A i, j \in DOMAIN rest : rest[i] = rest[j] => i = j
        /\ Range(rest) \subseteq Range(Waiting(n))
        /\ calls[n] \cap Range(rest) = {}
    BY <1>2, RestOfWaiting
  <1> QED
    BY <1>1, <1>3, <1>4, <1>5, <1>6, QuietStep DEF PendingIsPrivate, Pending

\* Recording a batch exposes ids that only n has applied.
LEMMA RememberOpsStep ==
    ASSUME DeliveryInv, TypeOK', ~WriteBehind, NEW n \in Nodes, RememberOps(n)
    PROVE  DeliveryInv'
  <1> DEFINE ops  == batch[n] \o FirstOf(queue[n], Coalesced(n))
             rest == SubSeq(queue[n], Coalesced(n) + 1, Len(queue[n]))
  <1>1. TypeOK /\ SeenTableIsRead /\ store[n] \in Store /\ disk = store
    <2>1. TypeOK /\ SeenTableIsRead /\ store \in [Nodes -> Store] /\ disk \in [Nodes -> Store]
      BY DEF DeliveryInv, TypeOK
    <2> QED
      BY <2>1 DEF SeenTableIsRead
  <1>2. /\ phase[n] = "coalesce"
        /\ batch' = [batch EXCEPT ![n] = ops]
        /\ queue' = [queue EXCEPT ![n] = rest]
        /\ phase' = [phase EXCEPT ![n] = "push"]
        /\ UNCHANGED <<issued, calls, chan>>
    BY <1>1 DEF RememberOps, TypeOK
  <1>3. PICK ins \in Unseen(ops, Range(seen[n])) : Record(n, ins, store[n])
    BY DEF RememberOps
  <1>4. SplitsInto(Waiting(n), ops, rest)
    BY <1>1, <1>2, WaitingSplit
  <1>5. ops \in Seq(Ops) /\ ins \in Seq(Ops) /\ Range(ins) = Range(ops) \ Range(seen[n])
    BY <1>3, <1>4, UnseenFacts DEF SplitsInto
  <1> HIDE DEF ops, rest
  <1>6. /\ \A i, j \in DOMAIN rest : rest[i] = rest[j] => i = j
        /\ Range(rest) \subseteq Range(Waiting(n)) /\ Range(ops) \subseteq Range(Waiting(n))
        /\ Range(ops) \cap Range(rest) = {} /\ calls[n] \cap Range(rest) = {}
    BY <1>4, RestOfWaiting
  <1>7. Range(ops) \subseteq Pending(n) /\ Range(ops) \subseteq Ops
    BY <1>5, <1>6, RangeOfSeq DEF Pending
  <1>8. \A o \in Range(ops) : ~Exposed(o) /\ \A m \in Nodes : state[m][o] > 0 <=> m = n
    BY <1>7 DEF DeliveryInv, PendingIsPrivate
  <1>9. Range(ins) = Range(ops)
    <2>1. \A o \in Range(ops) : o \notin Range(seen[n])
      BY <1>8 DEF Exposed, Held
    <2> QED
      BY <1>5, <2>1
  <1>10. /\ \A m \in Nodes \ {n} : /\ store'[m] = store[m] /\ disk'[m] = disk[m]
                                   /\ seen'[m] = seen[m] /\ opLog'[m] = opLog[m]
                                   /\ state'[m] = state[m] /\ forgotten'[m] = forgotten[m]
         /\ state'[n] = store[n].state /\ store'[n].state = store[n].state /\ disk'[n] = store'[n]
         /\ \A o \in Ops : store'[n].seen[o] # Absent => o \in Range(seen'[n])
         /\ \A o \in Ops : Held(n, o)' => Held(n, o) \/ o \in Range(ins)
         /\ \A o \in Ops : o \in Range(ins) \/ store[n].seen[o] # Absent =>
                              store'[n].seen[o] # Absent \/ o \in forgotten'[n]
         /\ forgotten[n] \subseteq forgotten'[n]
    BY <1>1, <1>3, <1>5, RecordFacts
  <1>11. \A m \in Nodes : state'[m] = state[m]
    BY <1>1, <1>10 DEF SeenTableIsRead
  <1>12. ASSUME NEW o \in Ops, Exposed(o)'
         PROVE  Exposed(o) \/ o \in Range(ops)
    <2>1. InFlight(o)' => InFlight(o)
      BY <1>2 DEF InFlight
    <2>2. ASSUME NEW m \in Nodes, Held(m, o)' PROVE Held(m, o) \/ o \in Range(ops)
      <3>1. CASE m = n
        BY <1>9, <1>10, <2>2, <3>1
      <3>2. CASE m # n
        BY <1>10, <2>2, <3>2 DEF Held
      <3> QED
        BY <3>1, <3>2
    <2>3. ASSUME NEW m \in Nodes, Pushed(m, o)' PROVE Pushed(m, o) \/ o \in Range(ops)
      BY <1>1, <1>2, <2>3 DEF Pushed, TypeOK
    <2> QED
      BY <1>12, <2>1, <2>2, <2>3 DEF Exposed
  <1>13. SeenTableIsRead'
    BY <1>1, <1>10 DEF SeenTableIsRead
  <1>14. OnlyIssuedOps'
    <2>1. ASSUME NEW o \in Ops, o \notin issued
          PROVE  ~Exposed(o)' /\ \A m \in Nodes : state'[m][o] = 0
      <3>1. ~Exposed(o) /\ \A m \in Nodes : state[m][o] = 0
        BY <2>1 DEF DeliveryInv, OnlyIssuedOps
      <3> QED
        BY <1>8, <1>11, <1>12, <3>1
    <2> QED
      BY <1>2, <2>1 DEF OnlyIssuedOps
  <1>15. RecordedBeforeExposed'
    <2>1. ASSUME NEW m \in Nodes, NEW o \in Ops, state'[m][o] > 0, Exposed(o)'
          PROVE  store'[m].seen[o] # Absent \/ o \in forgotten'[m]
      <3>1. state[m][o] > 0
        BY <1>11, <2>1
      <3>2. CASE o \in Range(ops)
        BY <1>8, <1>9, <1>10, <3>1, <3>2
      <3>3. CASE Exposed(o)
        <4>1. store[m].seen[o] # Absent \/ o \in forgotten[m]
          BY <3>1, <3>3 DEF DeliveryInv, RecordedBeforeExposed
        <4> QED
          BY <1>10, <4>1
      <3> QED
        BY <1>12, <2>1, <3>2, <3>3
    <2> QED
      BY <2>1 DEF RecordedBeforeExposed
  <1>16. ReappliedOnlyIfForgotten'
    BY <1>10, <1>11 DEF DeliveryInv, ReappliedOnlyIfForgotten
  <1>17. PendingIsPrivate'
    <2>1. Waiting(n)' = rest /\ calls'[n] = calls[n]
      BY <1>1, <1>2 DEF Waiting, TypeOK
    <2>2. \A m \in Nodes \ {n} : Waiting(m)' = Waiting(m) /\ calls'[m] = calls[m]
      BY <1>1, <1>2 DEF Waiting, TypeOK
    <2>3. ASSUME NEW m \in Nodes, NEW o \in Pending(m)'
          PROVE  ~Exposed(o)' /\ \A k \in Nodes : state'[k][o] > 0 <=> k = m
      <3>1. o \in Pending(m)
        BY <1>6, <2>1, <2>2 DEF Pending
      <3>2. o \in Ops /\ ~Exposed(o) /\ \A k \in Nodes : state[k][o] > 0 <=> k = m
        BY <1>1, <3>1, PendingType DEF DeliveryInv, PendingIsPrivate
      <3>3. o \notin Range(ops)
        <4>1. CASE m = n
          BY <1>6, <2>1, <4>1 DEF Pending, DeliveryInv, PendingIsPrivate
        <4>2. CASE m # n
          BY <1>8, <3>2, <4>2
        <4> QED
          BY <4>1, <4>2
      <3> QED
        BY <1>11, <1>12, <3>2, <3>3
    <2>4. ASSUME NEW m \in Nodes
          PROVE  /\ \A i, j \in DOMAIN Waiting(m)' : Waiting(m)'[i] = Waiting(m)'[j] => i = j
                 /\ calls'[m] \cap Range(Waiting(m)') = {}
      <3>1. CASE m = n
        BY <1>6, <2>1, <3>1
      <3>2. CASE m # n
        BY <2>2, <3>2 DEF DeliveryInv, PendingIsPrivate
      <3> QED
        BY <3>1, <3>2
    <2> QED
      BY <2>3, <2>4 DEF PendingIsPrivate
  <1> QED
    BY <1>13, <1>14, <1>15, <1>16, <1>17 DEF DeliveryInv

\* Pushing a recorded batch exposes nothing new.
LEMMA BroadcastOpsStep ==
    ASSUME DeliveryInv, TypeOK', NEW n \in Nodes, BroadcastOps(n)
    PROVE  DeliveryInv'
  <1>1. TypeOK
    BY DEF DeliveryInv
  <1>2. PICK reached \in SUBSET (Nodes \ {n}) :
           chan' = [chan EXCEPT ![n] =
              [m \in Nodes |-> IF m \in reached THEN Append(@[m], PushOps(batch[n])) ELSE @[m]]]
    BY DEF BroadcastOps
  <1>3. /\ phase[n] = "push"
        /\ batch' = [batch EXCEPT ![n] = <<>>]
        /\ phase' = [phase EXCEPT ![n] = "idle"]
        /\ UNCHANGED <<issued, calls, queue, state, seen, opLog, store, disk, forgotten>>
    BY DEF BroadcastOps
  <1>4. ASSUME NEW i \in Nodes, NEW j \in Nodes, NEW msg \in Range(chan'[i][j])
        PROVE  msg \in Range(chan[i][j]) \/ (i = n /\ msg = PushOps(batch[n]))
    <2>1. chan[i][j] \in Seq(Message)
      BY <1>1 DEF TypeOK
    <2>2. PushOps(batch[n]) \in Message
      BY <1>1 DEF TypeOK, PushOps, Message
    <2>3. chan'[i][j] = IF i = n /\ j \in reached THEN Append(chan[i][j], PushOps(batch[n]))
                        ELSE chan[i][j]
      BY <1>1, <1>2 DEF TypeOK
    <2> QED
      BY <2>1, <2>2, <2>3, AppendTailRange
  <1>5. ASSUME NEW o \in Ops, Exposed(o)'
        PROVE  Exposed(o)
    <2>1. ASSUME InFlight(o)' PROVE InFlight(o) \/ Pushed(n, o)
      <3>1. PICK i \in Nodes, j \in Nodes : \E msg \in Range(chan'[i][j]) : o \in Range(msg.ops)
        BY <2>1 DEF InFlight
      <3>2. PICK msg \in Range(chan'[i][j]) : o \in Range(msg.ops)
        BY <3>1
      <3>3. CASE msg \in Range(chan[i][j])
        BY <3>2, <3>3 DEF InFlight
      <3>4. CASE msg = PushOps(batch[n])
        BY <1>3, <3>2, <3>4 DEF PushOps, Pushed
      <3> QED
        BY <1>4, <3>3, <3>4
    <2>2. \A m \in Nodes : Pushed(m, o)' => Pushed(m, o)
      BY <1>1, <1>3 DEF Pushed, TypeOK
    <2>3. \A m \in Nodes : Held(m, o)' => Held(m, o)
      BY <1>3 DEF Held
    <2> QED
      BY <1>5, <2>1, <2>2, <2>3 DEF Exposed
  <1>6. \A m \in Nodes : Waiting(m)' = Waiting(m) /\ calls'[m] = calls[m]
    BY <1>1, <1>3 DEF Waiting, TypeOK
  <1> QED
    BY <1>3, <1>5, <1>6, QuietStep DEF DeliveryInv, PendingIsPrivate, Pending

\* A remote batch is in flight, so what it applies anew at n was either never
\* applied there or forgotten.
LEMMA ApplyRemoteOpsStep ==
    ASSUME DeliveryInv, TypeOK', ~WriteBehind,
           NEW n \in Nodes, NEW m \in Nodes, ApplyRemoteOps(n, m)
    PROVE  DeliveryInv'
  <1> DEFINE ops     == Head(chan[m][n]).ops
             new     == Range(ops) \ Range(seen[n])
             applied == [o \in Ops |-> IF o \in new THEN state[n][o] + 1 ELSE state[n][o]]
             d       == [store[n] EXCEPT !.state = applied]
  <1>1. TypeOK /\ SeenTableIsRead /\ store[n] \in Store /\ state[n] \in [Ops -> Nat]
    BY DEF DeliveryInv, TypeOK
  <1>2. /\ chan[m][n] \in Seq(Message) /\ chan[m][n] # <<>>
        /\ Head(chan[m][n]) \in Message /\ Head(chan[m][n]) \in Range(chan[m][n])
        /\ Tail(chan[m][n]) \in Seq(Message) /\ Range(Tail(chan[m][n])) \subseteq Range(chan[m][n])
    <2>1. chan[m][n] \in Seq(Message) /\ chan[m][n] # <<>>
      BY <1>1 DEF TypeOK, ApplyRemoteOps, Arrived
    <2> QED
      BY <2>1, AppendTailRange
  <1>3. ops \in Seq(Ops)
    BY <1>2 DEF Message
  <1>4. d \in Store /\ d.seen = store[n].seen /\ d.log = store[n].log /\ d.state = applied
    <2>1. applied \in [Ops -> Nat]
      BY <1>1
    <2> QED
      BY <1>1, <2>1 DEF Store
  <1>5. PICK ins \in Unseen(ops, Range(seen[n])) : Record(n, ins, d)
    BY DEF ApplyRemoteOps, NewIds
  <1>6. ins \in Seq(Ops) /\ Range(ins) = new
    BY <1>3, <1>5, UnseenFacts
  <1>7. \A o \in Range(ops) : Exposed(o)
    BY <1>2 DEF Exposed, InFlight
  <1>8. /\ chan' = [chan EXCEPT ![m][n] = Tail(chan[m][n])]
        /\ UNCHANGED <<issued, calls, queue, phase, batch>>
    BY <1>1 DEF ApplyRemoteOps, TypeOK
  <1>9. \A o \in Ops : applied[o] = IF o \in new THEN state[n][o] + 1 ELSE state[n][o]
    OBVIOUS
  <1> HIDE DEF ops, applied, d
  <1>10. /\ \A k \in Nodes \ {n} : /\ store'[k] = store[k] /\ disk'[k] = disk[k]
                                   /\ seen'[k] = seen[k] /\ opLog'[k] = opLog[k]
                                   /\ state'[k] = state[k] /\ forgotten'[k] = forgotten[k]
         /\ state'[n] = applied /\ store'[n].state = applied /\ disk'[n] = store'[n]
         /\ \A o \in Ops : store'[n].seen[o] # Absent => o \in Range(seen'[n])
         /\ \A o \in Ops : Held(n, o)' => Held(n, o) \/ o \in new
         /\ \A o \in Ops : o \in new \/ store[n].seen[o] # Absent =>
                              store'[n].seen[o] # Absent \/ o \in forgotten'[n]
         /\ forgotten[n] \subseteq forgotten'[n]
    BY <1>1, <1>4, <1>5, <1>6, RecordFacts
  <1>11. \A o \in new : Exposed(o)
    BY <1>7
  <1> HIDE DEF new
  <1>12. ASSUME NEW o \in Ops, Exposed(o)'
         PROVE  Exposed(o)
    <2>1. ASSUME NEW i \in Nodes, NEW j \in Nodes
          PROVE  Range(chan'[i][j]) \subseteq Range(chan[i][j])
      <3>1. chan \in [Nodes -> [Nodes -> Seq(Message)]]
        BY <1>1 DEF TypeOK
      <3>2. chan'[i][j] = IF i = m /\ j = n THEN Tail(chan[m][n]) ELSE chan[i][j]
        BY <1>8, <3>1
      <3> QED
        BY <1>2, <3>2
    <2>2. InFlight(o)' => InFlight(o)
      BY <2>1 DEF InFlight
    <2>3. ASSUME NEW k \in Nodes, Held(k, o)' PROVE Held(k, o) \/ o \in new
      <3>1. CASE k = n
        BY <1>10, <2>3, <3>1
      <3>2. CASE k # n
        BY <1>10, <2>3, <3>2 DEF Held
      <3> QED
        BY <3>1, <3>2
    <2>4. \A k \in Nodes : Pushed(k, o)' => Pushed(k, o)
      BY <1>8 DEF Pushed
    <2>5. o \in new => Exposed(o)
      BY <1>11
    <2> QED
      BY <1>12, <2>2, <2>3, <2>4, <2>5 DEF Exposed
  <1>13. SeenTableIsRead'
    BY <1>1, <1>10 DEF SeenTableIsRead
  <1>14. \A k \in Nodes, o \in Ops : ~Exposed(o) => state'[k][o] = state[k][o]
    BY <1>9, <1>10, <1>11
  <1>15. OnlyIssuedOps'
    BY <1>8, <1>12, <1>14 DEF DeliveryInv, OnlyIssuedOps
  <1>16. PendingIsPrivate'
    <2>1. \A k \in Nodes : /\ Waiting(k)' = Waiting(k) /\ calls'[k] = calls[k]
                           /\ Pending(k)' = Pending(k)
      BY <1>8 DEF Waiting, Pending
    <2>2. ASSUME NEW k \in Nodes, NEW o \in Pending(k)
          PROVE  ~Exposed(o)' /\ \A l \in Nodes : state'[l][o] > 0 <=> l = k
      <3>1. o \in Ops /\ ~Exposed(o) /\ \A l \in Nodes : state[l][o] > 0 <=> l = k
        BY <1>1, PendingType DEF DeliveryInv, PendingIsPrivate
      <3> QED
        BY <1>12, <1>14, <3>1
    <2> QED
      BY <2>1, <2>2 DEF DeliveryInv, PendingIsPrivate
  <1>17. RecordedBeforeExposed'
    <2>1. ASSUME NEW k \in Nodes, NEW o \in Ops, state'[k][o] > 0, Exposed(o)'
          PROVE  store'[k].seen[o] # Absent \/ o \in forgotten'[k]
      <3>1. CASE k = n /\ o \in new
        BY <1>10, <3>1
      <3>2. CASE ~(k = n /\ o \in new)
        <4>1. state[k][o] > 0
          BY <1>9, <1>10, <2>1, <3>2
        <4>2. store[k].seen[o] # Absent \/ o \in forgotten[k]
          BY <1>12, <2>1, <4>1 DEF DeliveryInv, RecordedBeforeExposed
        <4> QED
          BY <1>10, <4>2
      <3> QED
        BY <3>1, <3>2
    <2> QED
      BY <2>1 DEF RecordedBeforeExposed
  <1>18. ReappliedOnlyIfForgotten'
    <2>1. ASSUME NEW k \in Nodes, NEW o \in Ops, state'[k][o] > 1
          PROVE  o \in forgotten'[k]
      <3>1. CASE k = n /\ o \in new
        <4>1. state[n][o] > 0 /\ Exposed(o)
          BY <1>1, <1>9, <1>10, <1>11, <2>1, <3>1
        <4>2. store[n].seen[o] # Absent \/ o \in forgotten[n]
          BY <4>1 DEF DeliveryInv, RecordedBeforeExposed
        <4>3. o \notin Range(seen[n])
          BY <3>1 DEF new
        <4> QED
          BY <1>1, <1>10, <3>1, <4>2, <4>3 DEF SeenTableIsRead
      <3>2. CASE ~(k = n /\ o \in new)
        <4>1. state[k][o] > 1
          BY <1>9, <1>10, <2>1, <3>2
        <4>2. o \in forgotten[k]
          BY <4>1 DEF DeliveryInv, ReappliedOnlyIfForgotten
        <4> QED
          BY <1>10, <4>2
      <3> QED
        BY <3>1, <3>2
    <2> QED
      BY <2>1 DEF ReappliedOnlyIfForgotten
  <1> QED
    BY <1>13, <1>15, <1>16, <1>17, <1>18 DEF DeliveryInv

\* A crash loses the pending ids of n, and hydration reads the rest back.
LEMMA CrashStep ==
    ASSUME DeliveryInv, TypeOK', ~WriteBehind, NEW n \in Nodes, Crash(n)
    PROVE  DeliveryInv'
  <1> USE LimitsAssumption
  <1>1. TypeOK /\ SeenTableIsRead /\ store[n] \in Store /\ disk[n] = store[n]
    BY DEF DeliveryInv, TypeOK, SeenTableIsRead
  <1>2. PICK s \in SortedBySequence(disk[n].seen), l \in SortedBySequence(disk[n].log) :
          LET seenEvicted == Range(FirstOf(s, Excess(Len(s), SeenLimit)))
              logEvicted  == Range(FirstOf(l, Excess(Len(l), OpLogLimit)))
              hydrated    == [disk[n] EXCEPT
                                !.seen = TableBatch(@, <<>>, 0, seenEvicted),
                                !.log  = TableBatch(@, <<>>, 0, logEvicted)]
          IN  /\ store' = [store EXCEPT ![n] = hydrated]
              /\ Durable(n, hydrated)
              /\ seen' = [seen EXCEPT ![n] = LastOf(s, SeenLimit)]
              /\ opLog' = [opLog EXCEPT ![n] = LastOf(l, OpLogLimit)]
              /\ forgotten' = [forgotten EXCEPT ![n] = @ \cup seenEvicted]
    BY DEF Crash
  <1> DEFINE se == Range(FirstOf(s, Excess(Len(s), SeenLimit)))
             le == Range(FirstOf(l, Excess(Len(l), OpLogLimit)))
             ts == TableBatch(store[n].seen, <<>>, 0, se)
             tl == TableBatch(store[n].log, <<>>, 0, le)
             h  == [store[n] EXCEPT !.seen = ts, !.log = tl]
  <1>3. /\ s \in Seq(Ops) /\ l \in Seq(Ops)
        /\ Range(s) = {o \in Ops : store[n].seen[o] # Absent}
        /\ Range(l) = {o \in Ops : store[n].log[o] # Absent}
    BY <1>1, SortedFacts
  <1>4. /\ store' = [store EXCEPT ![n] = h] /\ disk' = [disk EXCEPT ![n] = h]
        /\ seen' = [seen EXCEPT ![n] = LastOf(s, SeenLimit)]
        /\ opLog' = [opLog EXCEPT ![n] = LastOf(l, OpLogLimit)]
        /\ forgotten' = [forgotten EXCEPT ![n] = forgotten[n] \cup se]
    BY <1>1, <1>2 DEF Durable, TypeOK
  <1>5. /\ state' = [state EXCEPT ![n] = disk[n].state]
        /\ calls' = [calls EXCEPT ![n] = {}]
        /\ queue' = [queue EXCEPT ![n] = <<>>]
        /\ batch' = [batch EXCEPT ![n] = <<>>]
        /\ phase' = [phase EXCEPT ![n] = "idle"]
        /\ chan' = [i \in Nodes |-> [j \in Nodes |-> IF n \in {i, j} THEN <<>> ELSE chan[i][j]]]
        /\ issued' = issued
    BY DEF Crash
  <1>6. h.seen = ts /\ h.log = tl /\ h.state = store[n].state
    BY <1>1 DEF Store
  <1>7. ASSUME NEW o \in Ops
        PROVE  /\ ts[o] # Absent => o \notin se /\ store[n].seen[o] # Absent
               /\ store[n].seen[o] # Absent => ts[o] # Absent \/ o \in se
               /\ tl[o] # Absent => store[n].log[o] # Absent
    <2>1. /\ store[n].seen \in [Ops -> Nat \cup {Absent}] /\ <<>> \in Seq(Ops)
          /\ store[n].log \in [Ops -> Nat \cup {Absent}] /\ Range(<<>>) = {} /\ 0 \in Nat
      BY <1>1 DEF Store, Range
    <2>2. ASSUME NEW t \in [Ops -> Nat \cup {Absent}], NEW ev
          PROVE  /\ TableBatch(t, <<>>, 0, ev)[o] # Absent => o \notin ev /\ t[o] # Absent
                 /\ t[o] # Absent => TableBatch(t, <<>>, 0, ev)[o] # Absent \/ o \in ev
      BY <2>1 DEF TableBatch
    <2> HIDE DEF se, le
    <2> QED
      BY <2>1, <2>2
  <1>8. /\ Range(LastOf(s, SeenLimit)) \subseteq Range(s)
        /\ Range(LastOf(l, OpLogLimit)) \subseteq Range(l)
        /\ \A o \in Range(s) : o \notin se => o \in Range(LastOf(s, SeenLimit))
    BY <1>3, LastOfFacts, KeptOrEvicted
  <1> HIDE DEF se, le, ts, tl, h
  <1>9. /\ store'[n] = h /\ disk'[n] = h /\ seen'[n] = LastOf(s, SeenLimit)
        /\ opLog'[n] = LastOf(l, OpLogLimit) /\ forgotten'[n] = forgotten[n] \cup se
        /\ phase'[n] = "idle" /\ queue'[n] = <<>> /\ calls'[n] = {}
        /\ state'[n] = store[n].state
    BY <1>1, <1>4, <1>5 DEF TypeOK
  <1>10. \A m \in Nodes \ {n} :
            /\ store'[m] = store[m] /\ disk'[m] = disk[m] /\ seen'[m] = seen[m]
            /\ opLog'[m] = opLog[m] /\ forgotten'[m] = forgotten[m] /\ phase'[m] = phase[m]
            /\ queue'[m] = queue[m] /\ calls'[m] = calls[m] /\ batch'[m] = batch[m]
            /\ state'[m] = state[m]
    BY <1>1, <1>4, <1>5 DEF TypeOK
  <1>11. \A m \in Nodes : state'[m] = state[m]
    BY <1>1, <1>9, <1>10 DEF SeenTableIsRead
  <1>12. ASSUME NEW o \in Ops, Exposed(o)'
         PROVE  Exposed(o)
    <2>1. InFlight(o)' => InFlight(o)
      <3>1. \A i, j \in Nodes : chan'[i][j] = <<>> \/ chan'[i][j] = chan[i][j]
        BY <1>5
      <3>2. Range(<<>>) = {}
        BY DEF Range
      <3> QED
        BY <3>1, <3>2 DEF InFlight
    <2>2. ASSUME NEW k \in Nodes, Held(k, o)' PROVE Held(k, o)
      <3>1. CASE k = n
        BY <1>3, <1>6, <1>7, <1>8, <1>9, <2>2, <3>1 DEF Held
      <3>2. CASE k # n
        BY <1>10, <2>2, <3>2 DEF Held
      <3> QED
        BY <3>1, <3>2
    <2>3. ASSUME NEW k \in Nodes, Pushed(k, o)' PROVE Pushed(k, o)
      <3>1. k # n
        BY <1>9, <2>3 DEF Pushed
      <3> QED
        BY <1>10, <2>3, <3>1 DEF Pushed
    <2> QED
      BY <1>12, <2>1, <2>2, <2>3 DEF Exposed
  <1>13. SeenTableIsRead'
    <2>1. \A o \in Ops : store'[n].seen[o] # Absent => o \in Range(seen'[n])
      BY <1>3, <1>6, <1>7, <1>8, <1>9
    <2> QED
      BY <1>1, <1>6, <1>9, <1>10, <2>1 DEF SeenTableIsRead
  <1>14. OnlyIssuedOps'
    BY <1>5, <1>11, <1>12 DEF DeliveryInv, OnlyIssuedOps
  <1>15. PendingIsPrivate'
    <2>1. Waiting(n)' = <<>> /\ Pending(n)' = {} /\ DOMAIN <<>> = {} /\ Range(<<>>) = {}
      <3>1. DOMAIN <<>> = {} /\ Range(<<>>) = {}
        BY DEF Range
      <3> QED
        BY <1>9, <3>1 DEF Waiting, Pending
    <2>2. \A m \in Nodes \ {n} : /\ Waiting(m)' = Waiting(m) /\ calls'[m] = calls[m]
                                /\ Pending(m)' = Pending(m)
      BY <1>10 DEF Waiting, Pending
    <2>3. ASSUME NEW m \in Nodes, NEW o \in Pending(m)'
          PROVE  ~Exposed(o)' /\ \A k \in Nodes : state'[k][o] > 0 <=> k = m
      <3>1. m # n /\ o \in Pending(m)
        BY <2>1, <2>2, <2>3
      <3>2. o \in Ops
        BY <1>1, <3>1, PendingType
      <3> QED
        BY <1>11, <1>12, <3>1, <3>2 DEF DeliveryInv, PendingIsPrivate
    <2>4. ASSUME NEW m \in Nodes
          PROVE  /\ \A i, j \in DOMAIN Waiting(m)' : Waiting(m)'[i] = Waiting(m)'[j] => i = j
                 /\ calls'[m] \cap Range(Waiting(m)') = {}
      <3>1. CASE m = n
        BY <2>1, <3>1
      <3>2. CASE m # n
        BY <2>2, <3>2 DEF DeliveryInv, PendingIsPrivate
      <3> QED
        BY <3>1, <3>2
    <2> QED
      BY <2>3, <2>4 DEF PendingIsPrivate
  <1>16. RecordedBeforeExposed'
    <2>1. ASSUME NEW m \in Nodes, NEW o \in Ops, state'[m][o] > 0, Exposed(o)'
          PROVE  store'[m].seen[o] # Absent \/ o \in forgotten'[m]
      <3>1. store[m].seen[o] # Absent \/ o \in forgotten[m]
        BY <1>11, <1>12, <2>1 DEF DeliveryInv, RecordedBeforeExposed
      <3>2. CASE m = n
        BY <1>6, <1>7, <1>9, <3>1, <3>2
      <3>3. CASE m # n
        BY <1>10, <3>1, <3>3
      <3> QED
        BY <3>2, <3>3
    <2> QED
      BY <2>1 DEF RecordedBeforeExposed
  <1>17. ReappliedOnlyIfForgotten'
    BY <1>9, <1>10, <1>11 DEF DeliveryInv, ReappliedOnlyIfForgotten
  <1> QED
    BY <1>13, <1>14, <1>15, <1>16, <1>17 DEF DeliveryInv

\* A step on one connection only removes messages, adds a request, or adds
\* an answer made of the log.
LEMMA ConnectionStep ==
    ASSUME DeliveryInv, TypeOK', NEW n \in Nodes, NEW m \in Nodes,
           \/ AntiEntropyPull(n, m) \/ AnswerPull(n, m) \/ AnswerTimesOut(n, m)
           \/ ApplyRemoteOpsFails(n, m) \/ Disconnect(n, m)
    PROVE  DeliveryInv'
  <1>1. chan \in [Nodes -> [Nodes -> Seq(Message)]] /\ opLog \in [Nodes -> Seq(Ops)]
    BY DEF DeliveryInv, TypeOK
  <1>2. UNCHANGED <<issued, nodeVars, store, disk, forgotten>>
    BY DEF AntiEntropyPull, AnswerPull, AnswerTimesOut, ApplyRemoteOpsFails, Disconnect
  <1>3. Range(<<>>) = {}
    BY DEF Range
  <1>4. PullSince \in Message /\ PullSince.ops = <<>>
    BY DEF PullSince, Message
  <1>5. PushOps(opLog[n]) \in Message /\ PushOps(opLog[n]).ops = opLog[n]
    BY <1>1 DEF PushOps, Message
  <1>6. \A o \in Range(opLog[n]) : Exposed(o)
    BY DEF Exposed, Held
  <1>7. ASSUME NEW i \in Nodes, NEW j \in Nodes, NEW msg \in Range(chan'[i][j])
        PROVE  \/ msg \in Range(chan[i][j])
               \/ \A o \in Ops : o \in Range(msg.ops) => Exposed(o)
    <2>1. chan[i][j] \in Seq(Message)
      BY <1>1
    <2>2. CASE AntiEntropyPull(n, m)
      <3>1. chan'[i][j] = chan[i][j] \/ chan'[i][j] = Append(chan[i][j], PullSince)
        BY <1>1, <2>2 DEF AntiEntropyPull
      <3>2. Range(Append(chan[i][j], PullSince)) = Range(chan[i][j]) \cup {PullSince}
        BY <1>4, <2>1, AppendTailRange
      <3> QED
        BY <1>3, <1>4, <3>1, <3>2
    <2>3. CASE AnswerPull(n, m)
      <3>1. \/ chan'[i][j] = chan[i][j]
            \/ chan'[i][j] = Append(chan[i][j], PushOps(opLog[n]))
            \/ chan'[i][j] = Tail(chan[i][j]) /\ chan[i][j] # <<>>
        BY <1>1, <2>3 DEF AnswerPull, op_log_since, Arrived
      <3>2. /\ Range(Append(chan[i][j], PushOps(opLog[n]))) = Range(chan[i][j]) \cup {PushOps(opLog[n])}
            /\ chan[i][j] # <<>> => Range(Tail(chan[i][j])) \subseteq Range(chan[i][j])
        BY <1>5, <2>1, AppendTailRange
      <3> QED
        BY <1>5, <1>6, <3>1, <3>2
    <2>4. CASE ApplyRemoteOpsFails(n, m)
      <3>1. \/ chan'[i][j] = chan[i][j]
            \/ chan'[i][j] = Tail(chan[i][j]) /\ chan[i][j] # <<>>
        BY <1>1, <2>4 DEF ApplyRemoteOpsFails, Arrived
      <3>2. chan[i][j] # <<>> => Range(Tail(chan[i][j])) \subseteq Range(chan[i][j])
        BY <2>1, AppendTailRange
      <3> QED
        BY <3>1, <3>2
    <2>5. CASE AnswerTimesOut(n, m) \/ Disconnect(n, m)
      <3>1. chan' = [[chan EXCEPT ![n][m] = <<>>] EXCEPT ![m][n] = <<>>]
        BY <2>5 DEF AnswerTimesOut, Disconnect, DropConnection
      <3> DEFINE half == [chan EXCEPT ![n][m] = <<>>]
      <3>2. half \in [Nodes -> [Nodes -> Seq(Message)]]
        BY <1>1
      <3>3. half[i][j] = chan[i][j] \/ half[i][j] = <<>>
        BY <1>1
      <3> HIDE DEF half
      <3>4. [half EXCEPT ![m][n] = <<>>][i][j] \in {half[i][j], <<>>}
        BY <3>2
      <3>5. chan'[i][j] = chan[i][j] \/ chan'[i][j] = <<>>
        BY <3>1, <3>3, <3>4 DEF half
      <3> QED
        BY <1>3, <3>5
    <2> QED
      BY <2>2, <2>3, <2>4, <2>5
  <1> QED
    BY <1>2, <1>7, ChannelStep

\* Every step keeps the invariant, when no write is lost in a crash.
LEMMA DeliveryStep ==
    ASSUME DeliveryInv, [Next]_vars, ~WriteBehind
    PROVE  DeliveryInv'
  <1>1. TypeOK'
    BY TypeStep DEF DeliveryInv
  <1>2. ASSUME NEW n \in Nodes, NodeStep(n)
        PROVE  DeliveryInv'
    <2>1. ASSUME NEW o \in Ops, HostCall(n, o) PROVE DeliveryInv'
      BY <1>1, <2>1, HostCallStep
    <2>2. ASSUME NEW o \in Ops, HostSend(n, o) PROVE DeliveryInv'
      BY <1>1, <2>2, HostSendStep
    <2>3. CASE RecvFirst(n)
      BY <1>1, <2>3, RecvFirstStep
    <2>4. CASE RememberOps(n)
      BY <1>1, <2>4, RememberOpsStep
    <2>5. CASE RememberOpsFails(n)
      BY <1>1, <2>5, RememberOpsFailsStep
    <2>6. CASE BroadcastOps(n)
      BY <1>1, <2>6, BroadcastOpsStep
    <2>7. CASE Flush(n)
      BY <2>7 DEF Flush, DeliveryInv, SeenTableIsRead
    <2>8. CASE Crash(n)
      BY <1>1, <2>8, CrashStep
    <2> QED
      BY <1>2, <2>1, <2>2, <2>3, <2>4, <2>5, <2>6, <2>7, <2>8 DEF NodeStep
  <1>3. ASSUME NEW n \in Nodes, NEW m \in Nodes, LinkStep(n, m)
        PROVE  DeliveryInv'
    <2>1. CASE ApplyRemoteOps(n, m)
      BY <1>1, <2>1, ApplyRemoteOpsStep
    <2> QED
      BY <1>1, <1>3, <2>1, ConnectionStep DEF LinkStep
  <1>4. CASE UNCHANGED vars
    <2>1. UNCHANGED <<issued, nodeVars, store, disk, forgotten>> /\ chan' = chan
      BY <1>4 DEF vars
    <2> QED
      BY <1>1, <2>1, ChannelStep
  <1> QED
    BY <1>2, <1>3, <1>4 DEF Next

\* The empty cluster satisfies the invariant.
LEMMA DeliveryInit == Init => DeliveryInv
  <1> SUFFICES ASSUME Init PROVE DeliveryInv
    OBVIOUS
  <1>1. TypeOK
    BY DEF Init, TypeOK, EmptyStore, Store, Absent
  <1>2. /\ \A n \in Nodes : /\ queue[n] = <<>> /\ batch[n] = <<>> /\ calls[n] = {}
                            /\ phase[n] = "idle" /\ opLog[n] = <<>> /\ seen[n] = <<>>
                            /\ store[n] = EmptyStore /\ disk[n] = EmptyStore
                            /\ state[n] = [o \in Ops |-> 0]
                            /\ \A m \in Nodes : chan[n][m] = <<>>
    BY DEF Init
  <1>3. Range(<<>>) = {} /\ DOMAIN <<>> = {}
    BY DEF Range
  <1>4. /\ EmptyStore.state = [o \in Ops |-> 0]
        /\ \A o \in Ops : EmptyStore.seen[o] = Absent /\ EmptyStore.log[o] = Absent
    BY DEF EmptyStore
  <1>5. ASSUME NEW o \in Ops PROVE ~Exposed(o)
    <2>1. ~InFlight(o)
      BY <1>2, <1>3 DEF InFlight
    <2>2. \A n \in Nodes : ~Held(n, o) /\ ~Pushed(n, o)
      BY <1>2, <1>3, <1>4 DEF Held, Pushed
    <2> QED
      BY <2>1, <2>2 DEF Exposed
  <1>6. SeenTableIsRead
    BY <1>2, <1>4 DEF SeenTableIsRead
  <1>7. \A n \in Nodes, o \in Ops : state[n][o] = 0
    BY <1>2
  <1>8. PendingIsPrivate
    <2>1. \A n \in Nodes : Waiting(n) = <<>> /\ Pending(n) = {} /\ calls[n] = {}
      BY <1>2, <1>3 DEF Waiting, Pending
    <2> QED
      BY <1>3, <2>1 DEF PendingIsPrivate
  <1> QED
    BY <1>1, <1>5, <1>6, <1>7, <1>8
       DEF DeliveryInv, OnlyIssuedOps, RecordedBeforeExposed, ReappliedOnlyIfForgotten

\* For every number of nodes and operations and every limit: when no write is
\* lost in a crash, the duplicate check of apply_remote_ops rests on a sound
\* record (DeliveryInv), whatever crashes, losses, echoes and relays happen.
THEOREM DeliveryInvariant == ASSUME ~WriteBehind PROVE Spec => []DeliveryInv
  <1>1. DeliveryInv /\ [Next]_vars => DeliveryInv'
    BY DeliveryStep
  <1> QED
    BY <1>1, DeliveryInit, PTL DEF Spec

\* remember_ops and apply_remote_ops leave no moment at which a peer can hand
\* a node an operation that it has applied and neither recorded nor evicted.
THEOREM RecordFirst == ASSUME ~WriteBehind PROVE Spec => []RecordedBeforeExposed
  <1>1. DeliveryInv => RecordedBeforeExposed
    BY DEF DeliveryInv
  <1> QED
    BY <1>1, DeliveryInvariant, PTL

\* apply_remote_ops applies no delta a second time unless the bounded seen
\* list evicted its id.
THEOREM AtMostOnceUnlessForgotten ==
    ASSUME ~WriteBehind PROVE Spec => []ReappliedOnlyIfForgotten
  <1>1. DeliveryInv => ReappliedOnlyIfForgotten
    BY DEF DeliveryInv
  <1> QED
    BY <1>1, DeliveryInvariant, PTL

\* No step of any node, a crash and the following hydration included, takes
\* back an applied operation: the state on disk is the state in memory.
THEOREM NoAppliedOpIsLost == ASSUME ~WriteBehind PROVE Spec => AppliedStays
  <1>1. ASSUME DeliveryInv, [Next]_vars, NEW k \in Nodes, NEW p \in Ops
        PROVE  state'[k][p] >= state[k][p]
    <2>1. /\ TypeOK /\ state \in [Nodes -> [Ops -> Nat]] /\ state[k][p] \in Nat
          /\ \A n \in Nodes : disk[n].state = state[n] /\ store[n].state = state[n]
      BY <1>1 DEF DeliveryInv, SeenTableIsRead, TypeOK
    <2>2. ASSUME NEW n \in Nodes, NodeStep(n) PROVE state'[k][p] >= state[k][p]
      <3>1. ASSUME NEW o \in Ops, HostCall(n, o) PROVE state'[k][p] >= state[k][p]
        BY <2>1, <3>1 DEF HostCall
      <3>2. CASE RememberOps(n)
        BY <2>1, <3>2 DEF RememberOps, Record
      <3>3. CASE Crash(n)
        BY <2>1, <3>3 DEF Crash
      <3>4. CASE \/ \E o \in Ops : HostSend(n, o)
                 \/ RecvFirst(n) \/ RememberOpsFails(n) \/ BroadcastOps(n) \/ Flush(n)
        <4>1. state' = state
          BY <3>4 DEF HostSend, RecvFirst, RememberOpsFails, BroadcastOps, Flush, nodeVars
        <4> QED
          BY <2>1, <4>1
      <3> QED
        BY <2>2, <3>1, <3>2, <3>3, <3>4 DEF NodeStep
    <2>3. ASSUME NEW n \in Nodes, NEW m \in Nodes, LinkStep(n, m)
          PROVE  state'[k][p] >= state[k][p]
      <3>1. CASE ApplyRemoteOps(n, m)
        <4>1. PICK applied \in [Ops -> Nat] :
                 /\ \A o \in Ops : applied[o] >= state[n][o]
                 /\ state' = [state EXCEPT ![n] = applied]
          <5> DEFINE new == Range(Head(chan[m][n]).ops) \ Range(seen[n])
                     applied == [o \in Ops |-> IF o \in new THEN state[n][o] + 1 ELSE state[n][o]]
          <5>1. PICK ins : Record(n, ins, [store[n] EXCEPT !.state = applied])
            BY <3>1 DEF ApplyRemoteOps, NewIds
          <5>2. state[n] \in [Ops -> Nat] /\ store[n] \in Store
            BY <2>1 DEF TypeOK
          <5> HIDE DEF new
          <5>3. applied \in [Ops -> Nat] /\ \A o \in Ops : applied[o] >= state[n][o]
            BY <5>2
          <5> HIDE DEF applied
          <5>4. [store[n] EXCEPT !.state = applied].state = applied
            BY <5>2 DEF Store
          <5>5. state' = [state EXCEPT ![n] = applied]
            BY <5>1, <5>4 DEF Record
          <5> QED
            BY <5>3, <5>5
        <4> QED
          BY <2>1, <4>1
      <3>2. CASE \/ AntiEntropyPull(n, m) \/ AnswerPull(n, m) \/ AnswerTimesOut(n, m)
                 \/ ApplyRemoteOpsFails(n, m) \/ Disconnect(n, m)
        <4>1. state' = state
          BY <3>2 DEF AntiEntropyPull, AnswerPull, AnswerTimesOut, ApplyRemoteOpsFails,
                      Disconnect, nodeVars
        <4> QED
          BY <2>1, <4>1
      <3> QED
        BY <2>3, <3>1, <3>2 DEF LinkStep
    <2>4. CASE UNCHANGED vars
      BY <2>1, <2>4 DEF vars, nodeVars
    <2> QED
      BY <1>1, <2>2, <2>3, <2>4 DEF Next
  <1>2. DeliveryInv /\ [Next]_vars =>
           [\A n \in Nodes, o \in Ops : state'[n][o] >= state[n][o]]_vars
    BY <1>1
  <1> QED
    BY <1>2, DeliveryInvariant, PTL DEF Spec, AppliedStays

-----------------------------------------------------------------------------
(* Refinement: Replication implements OpDelivery. *)

\* A node has applied every operation whose id it skips.
SeenIsApplied == \A n \in Nodes : \A o \in Range(seen[n]) : state[n][o] > 0

\* The ids that recording a batch evicts are old ids or ids of the batch, and
\* the ids that stay are, too.
LEMMA RecordEvicts ==
    ASSUME TypeOK, NEW n \in Nodes, NEW ins \in Seq(Ops), NEW d \in Store,
           Record(n, ins, d)
    PROVE  /\ plan_seen_evictions(n, ins) \subseteq Range(seen[n]) \cup Range(ins)
           /\ Range(seen'[n]) \subseteq Range(seen[n]) \cup Range(ins)
           /\ plan_seen_evictions(n, ins) \subseteq Ops
           /\ forgotten' = [forgotten EXCEPT ![n] = forgotten[n] \cup plan_seen_evictions(n, ins)]
           /\ state' = [state EXCEPT ![n] = d.state]
           /\ \A m \in Nodes \ {n} : seen'[m] = seen[m]
  <1> USE LimitsAssumption
  <1> DEFINE all == seen[n] \o ins
  <1>1. /\ seen[n] \in Seq(Ops) /\ all \in Seq(Ops)
        /\ Range(all) = Range(seen[n]) \cup Range(ins)
    BY RangeConcatenation DEF TypeOK
  <1>2. Excess(Len(all), SeenLimit) \in Nat
    BY <1>1 DEF Excess
  <1>3. plan_seen_evictions(n, ins) \subseteq Range(all)
    BY <1>1, <1>2, FirstOfFacts DEF plan_seen_evictions
  <1>4. /\ seen' = [seen EXCEPT ![n] = LastOf(all, SeenLimit)]
        /\ Range(LastOf(all, SeenLimit)) \subseteq Range(all)
    BY <1>1, LastOfFacts DEF Record
  <1>5. Range(all) \subseteq Ops
    BY <1>1, RangeOfSeq
  <1> QED
    BY <1>1, <1>3, <1>4, <1>5 DEF Record, TypeOK

\* What a step does, as OpDelivery sees it.
AbstractStep ==
    \/ \E n \in Nodes, o \in Ops : Delivery!Create(n, o)
    \/ \E n \in Nodes : \E S \in SUBSET issued, F \in SUBSET issued : Delivery!Deliver(n, S, F)
    \/ UNCHANGED <<issued, state, forgotten>>

\* A node that applies the operations S and evicts F takes a step of OpDelivery.
LEMMA DeliverStep ==
    ASSUME TypeOK, NEW n \in Nodes, NEW S \in SUBSET issued, NEW F \in SUBSET issued,
           \A o \in S : state[n][o] = 0 \/ o \in forgotten[n],
           state' \in [Nodes -> [Ops -> Nat]],
           \A m \in Nodes \ {n} : state'[m] = state[m],
           \A o \in Ops : state'[n][o] = IF o \in S THEN state[n][o] + 1 ELSE state[n][o],
           \A o \in F : state'[n][o] > 0,
           forgotten' = [forgotten EXCEPT ![n] = forgotten[n] \cup F],
           issued' = issued
    PROVE  AbstractStep
  <1>1. Delivery!Apply(n, S)
    <2> DEFINE after == [o \in Ops |-> IF o \in S THEN state[n][o] + 1 ELSE state[n][o]]
    <2>1. state'[n] = after
      OBVIOUS
    <2> HIDE DEF after
    <2>2. state' = [state EXCEPT ![n] = after]
      BY <2>1 DEF TypeOK
    <2> QED
      BY <2>2 DEF Delivery!Apply, after
  <1>2. Delivery!Forget(n, F)
    BY DEF Delivery!Forget, TypeOK
  <1>3. Delivery!Deliver(n, S, F)
    BY <1>1, <1>2 DEF Delivery!Deliver
  <1> QED
    BY <1>3 DEF AbstractStep

\* A node that applies nothing and evicts F.
LEMMA ForgetStep ==
    ASSUME TypeOK, NEW n \in Nodes, NEW F \in SUBSET issued,
           state' = state, \A o \in F : state[n][o] > 0,
           forgotten' = [forgotten EXCEPT ![n] = forgotten[n] \cup F],
           issued' = issued
    PROVE  AbstractStep
  <1>1. /\ state' \in [Nodes -> [Ops -> Nat]]
        /\ \A m \in Nodes \ {n} : state'[m] = state[m]
        /\ \A o \in Ops : state'[n][o] = IF o \in {} THEN state[n][o] + 1 ELSE state[n][o]
        /\ \A o \in F : state'[n][o] > 0
    BY DEF TypeOK
  <1>2. {} \in SUBSET issued /\ \A o \in {} : state[n][o] = 0 \/ o \in forgotten[n]
    OBVIOUS
  <1> QED
    BY <1>1, <1>2, DeliverStep

\* A host call is Create.
LEMMA HostCallImplements ==
    ASSUME DeliveryInv, SeenIsApplied, NEW n \in Nodes, NEW o \in Ops, HostCall(n, o)
    PROVE  AbstractStep /\ SeenIsApplied'
  <1>1. TypeOK
    BY DEF DeliveryInv
  <1>2. /\ o \notin issued /\ issued' = issued \cup {o}
        /\ state' = [state EXCEPT ![n] = [state[n] EXCEPT ![o] = state[n][o] + 1]]
        /\ UNCHANGED <<seen, forgotten>>
    BY <1>1 DEF HostCall, TypeOK
  <1>3. state' = [state EXCEPT ![n][o] = @ + 1]
    BY <1>1, <1>2 DEF TypeOK
  <1>4. Delivery!Create(n, o)
    BY <1>2, <1>3 DEF Delivery!Create
  <1>5. \A m \in Nodes, p \in Ops : state[m][p] > 0 => state'[m][p] > 0
    BY <1>1, <1>2 DEF TypeOK
  <1>6. \A m \in Nodes : Range(seen[m]) \subseteq Ops
    BY <1>1, RangeOfSeq DEF TypeOK
  <1> QED
    BY <1>2, <1>4, <1>5, <1>6 DEF AbstractStep, SeenIsApplied

\* Recording a batch of one's own forgets what it evicts.
LEMMA RememberOpsImplements ==
    ASSUME DeliveryInv, SeenIsApplied, NEW n \in Nodes, RememberOps(n)
    PROVE  AbstractStep /\ SeenIsApplied'
  <1> DEFINE ops  == batch[n] \o FirstOf(queue[n], Coalesced(n))
             rest == SubSeq(queue[n], Coalesced(n) + 1, Len(queue[n]))
  <1>1. TypeOK /\ store[n] \in Store /\ store[n].state = state[n]
    BY DEF DeliveryInv, TypeOK, SeenTableIsRead
  <1>2. PICK ins \in Unseen(ops, Range(seen[n])) : Record(n, ins, store[n])
    BY DEF RememberOps
  <1>3. SplitsInto(Waiting(n), ops, rest)
    BY <1>1, WaitingSplit DEF RememberOps
  <1>4. ops \in Seq(Ops) /\ ins \in Seq(Ops) /\ Range(ins) \subseteq Range(ops)
    <2>1. ops \in Seq(Ops)
      BY <1>3 DEF SplitsInto
    <2> HIDE DEF ops
    <2>2. ins \in Seq(Ops) /\ Range(ins) = Range(ops) \ Range(seen[n])
      BY <1>2, <2>1, UnseenFacts
    <2> QED
      BY <2>1, <2>2
  <1>5. Range(ops) \subseteq Pending(n)
    BY <1>3, RestOfWaiting DEF Pending
  <1> HIDE DEF ops, rest
  <1> DEFINE evicted == plan_seen_evictions(n, ins)
  <1>6. /\ evicted \subseteq Range(seen[n]) \cup Range(ins) /\ evicted \subseteq Ops
        /\ Range(seen'[n]) \subseteq Range(seen[n]) \cup Range(ins)
        /\ forgotten' = [forgotten EXCEPT ![n] = forgotten[n] \cup evicted]
        /\ state' = [state EXCEPT ![n] = state[n]]
        /\ \A m \in Nodes \ {n} : seen'[m] = seen[m]
    BY <1>1, <1>2, <1>4, RecordEvicts
  <1> HIDE DEF evicted
  <1>7. \A o \in Range(seen[n]) \cup Range(ins) : state[n][o] > 0
    BY <1>4, <1>5 DEF SeenIsApplied, DeliveryInv, PendingIsPrivate
  <1>8. state' = state /\ issued' = issued
    BY <1>1, <1>6 DEF TypeOK, RememberOps
  <1>9. evicted \in SUBSET issued
    BY <1>6, <1>7 DEF DeliveryInv, OnlyIssuedOps
  <1>10. AbstractStep
    BY <1>1, <1>6, <1>7, <1>8, <1>9, ForgetStep
  <1>11. SeenIsApplied'
    BY <1>6, <1>7, <1>8 DEF SeenIsApplied
  <1> QED
    BY <1>10, <1>11

\* Applying a remote batch is Deliver of its new ids.
LEMMA ApplyRemoteOpsImplements ==
    ASSUME DeliveryInv, SeenIsApplied, NEW n \in Nodes, NEW m \in Nodes, ApplyRemoteOps(n, m)
    PROVE  AbstractStep /\ SeenIsApplied'
  <1> DEFINE ops     == Head(chan[m][n]).ops
             new     == Range(ops) \ Range(seen[n])
             applied == [o \in Ops |-> IF o \in new THEN state[n][o] + 1 ELSE state[n][o]]
             d       == [store[n] EXCEPT !.state = applied]
  <1>1. TypeOK /\ store[n] \in Store /\ state[n] \in [Ops -> Nat]
    BY DEF DeliveryInv, TypeOK
  <1>2. Head(chan[m][n]) \in Message /\ Head(chan[m][n]) \in Range(chan[m][n])
    <2>1. chan[m][n] \in Seq(Message) /\ chan[m][n] # <<>>
      BY <1>1 DEF TypeOK, ApplyRemoteOps, Arrived
    <2> QED
      BY <2>1, AppendTailRange
  <1>3. ops \in Seq(Ops) /\ \A o \in Range(ops) : Exposed(o)
    BY <1>2 DEF Message, Exposed, InFlight
  <1>4. d \in Store /\ d.state = applied
    <2>1. applied \in [Ops -> Nat]
      BY <1>1
    <2> QED
      BY <1>1, <2>1 DEF Store
  <1>5. PICK ins \in Unseen(ops, Range(seen[n])) : Record(n, ins, d)
    BY DEF ApplyRemoteOps, NewIds
  <1>6. ins \in Seq(Ops) /\ Range(ins) = new
    BY <1>3, <1>5, UnseenFacts
  <1>7. new \subseteq Ops /\ \A o \in new : Exposed(o) /\ o \notin Range(seen[n])
    BY <1>3, RangeOfSeq
  <1> HIDE DEF ops, new, d
  <1> DEFINE evicted == plan_seen_evictions(n, ins)
  <1>8. /\ evicted \subseteq Range(seen[n]) \cup new /\ evicted \subseteq Ops
        /\ Range(seen'[n]) \subseteq Range(seen[n]) \cup new
        /\ forgotten' = [forgotten EXCEPT ![n] = forgotten[n] \cup evicted]
        /\ state' = [state EXCEPT ![n] = applied]
        /\ \A k \in Nodes \ {n} : seen'[k] = seen[k]
    BY <1>1, <1>4, <1>5, <1>6, RecordEvicts
  <1> HIDE DEF evicted
  <1>9. ASSUME NEW o \in new
        PROVE  state[n][o] = 0 \/ o \in forgotten[n]
    <2>1. ASSUME state[n][o] # 0
          PROVE  o \in forgotten[n]
      <3>1. state[n][o] > 0 /\ Exposed(o) /\ o \in Ops /\ o \notin Range(seen[n])
        BY <1>1, <1>7, <2>1
      <3>2. store[n].seen[o] # Absent \/ o \in forgotten[n]
        BY <3>1 DEF DeliveryInv, RecordedBeforeExposed
      <3> QED
        BY <3>1, <3>2 DEF DeliveryInv, SeenTableIsRead
    <2> QED
      BY <2>1
  <1>10. /\ state'[n] = applied /\ \A k \in Nodes \ {n} : state'[k] = state[k]
         /\ \A o \in Ops : applied[o] = IF o \in new THEN state[n][o] + 1 ELSE state[n][o]
         /\ state' \in [Nodes -> [Ops -> Nat]]
    BY <1>1, <1>8 DEF TypeOK
  <1>11. Range(seen[n]) \subseteq Ops
    BY <1>1, RangeOfSeq DEF TypeOK
  <1>12. \A o \in Range(seen[n]) \cup new : state'[n][o] > 0
    BY <1>1, <1>7, <1>10, <1>11 DEF SeenIsApplied
  <1>13. issued' = issued /\ new \in SUBSET issued
    BY <1>7 DEF ApplyRemoteOps, DeliveryInv, OnlyIssuedOps
  <1>14. evicted \in SUBSET issued
    <2>1. \A o \in Range(seen[n]) : o \in issued
      BY <1>11 DEF SeenIsApplied, DeliveryInv, OnlyIssuedOps
    <2> QED
      BY <1>8, <1>13, <2>1
  <1> HIDE DEF applied
  <1>15. AbstractStep
    <2>1. \A o \in Ops : state'[n][o] = IF o \in new THEN state[n][o] + 1 ELSE state[n][o]
      BY <1>10
    <2>2. \A o \in evicted : state'[n][o] > 0
      BY <1>8, <1>12
    <2>3. \A o \in new : state[n][o] = 0 \/ o \in forgotten[n]
      BY <1>9
    <2>4. TypeOK
      BY <1>1
    <2>5. \A k \in Nodes \ {n} : state'[k] = state[k]
      BY <1>10
    <2>6. state' \in [Nodes -> [Ops -> Nat]]
      BY <1>10
    <2>7. forgotten' = [forgotten EXCEPT ![n] = forgotten[n] \cup evicted]
      BY <1>8
    <2>8. issued' = issued
      BY <1>13
    <2>9. new \in SUBSET issued
      BY <1>13
    <2> QED
      BY <1>14, <2>1, <2>2, <2>3, <2>4, <2>5, <2>6, <2>7, <2>8, <2>9, DeliverStep, Zenon
  <1>16. SeenIsApplied'
    <2>1. \A k \in Nodes \ {n} : \A o \in Range(seen'[k]) : state'[k][o] > 0
      BY <1>8, <1>10 DEF SeenIsApplied
    <2> QED
      BY <1>8, <1>12, <2>1 DEF SeenIsApplied
  <1> QED
    BY <1>15, <1>16

\* A restart applies nothing and forgets what hydration prunes.
LEMMA CrashImplements ==
    ASSUME DeliveryInv, SeenIsApplied, NEW n \in Nodes, Crash(n)
    PROVE  AbstractStep /\ SeenIsApplied'
  <1> USE LimitsAssumption
  <1>1. TypeOK /\ disk[n] = store[n] /\ store[n].state = state[n]
    BY DEF DeliveryInv, TypeOK, SeenTableIsRead
  <1>2. PICK s \in SortedBySequence(disk[n].seen) :
            LET seenEvicted == Range(FirstOf(s, Excess(Len(s), SeenLimit)))
            IN  /\ seen' = [seen EXCEPT ![n] = LastOf(s, SeenLimit)]
                /\ forgotten' = [forgotten EXCEPT ![n] = @ \cup seenEvicted]
    BY DEF Crash
  <1> DEFINE evicted == Range(FirstOf(s, Excess(Len(s), SeenLimit)))
  <1>3. s \in Seq(Ops) /\ Range(s) = {o \in Ops : store[n].seen[o] # Absent}
    BY <1>1, SortedFacts
  <1>4. Range(s) \subseteq Range(seen[n]) /\ Range(s) \subseteq Ops
    BY <1>3 DEF DeliveryInv, SeenTableIsRead
  <1>5. evicted \subseteq Range(s) /\ Range(LastOf(s, SeenLimit)) \subseteq Range(s)
    <2>1. Excess(Len(s), SeenLimit) \in Nat
      BY <1>3 DEF Excess
    <2> QED
      BY <1>3, <2>1, FirstOfFacts, LastOfFacts
  <1>6. forgotten' = [forgotten EXCEPT ![n] = forgotten[n] \cup evicted]
    BY <1>1, <1>2 DEF TypeOK
  <1> HIDE DEF evicted
  <1>7. state' = state /\ issued' = issued
    BY <1>1 DEF Crash, TypeOK
  <1>8. \A o \in Range(s) : state[n][o] > 0
    BY <1>4 DEF SeenIsApplied
  <1>9. evicted \in SUBSET issued
    BY <1>4, <1>5, <1>8 DEF DeliveryInv, OnlyIssuedOps
  <1>10. AbstractStep
    BY <1>1, <1>5, <1>6, <1>7, <1>8, <1>9, ForgetStep
  <1>11. /\ seen'[n] = LastOf(s, SeenLimit)
         /\ \A m \in Nodes \ {n} : seen'[m] = seen[m]
    BY <1>1, <1>2 DEF TypeOK
  <1>12. SeenIsApplied'
    BY <1>5, <1>7, <1>8, <1>11 DEF SeenIsApplied
  <1> QED
    BY <1>10, <1>12

\* Every step of the nodes is a step of OpDelivery or leaves its variables alone.
LEMMA StepImplements ==
    ASSUME DeliveryInv, SeenIsApplied, [Next]_vars
    PROVE  AbstractStep /\ SeenIsApplied'
  <1>1. ASSUME UNCHANGED <<issued, state, seen, forgotten>>
        PROVE  AbstractStep /\ SeenIsApplied'
    BY <1>1 DEF AbstractStep, SeenIsApplied
  <1>2. ASSUME NEW n \in Nodes, NodeStep(n)
        PROVE  AbstractStep /\ SeenIsApplied'
    <2>1. CASE \/ \E o \in Ops : HostSend(n, o)
               \/ RecvFirst(n) \/ RememberOpsFails(n) \/ BroadcastOps(n) \/ Flush(n)
      <3>1. UNCHANGED <<issued, state, seen, forgotten>>
        BY <2>1 DEF HostSend, RecvFirst, RememberOpsFails, BroadcastOps, Flush, nodeVars
      <3> QED
        BY <1>1, <3>1
    <2> QED
      BY <1>2, <2>1, HostCallImplements, RememberOpsImplements, CrashImplements DEF NodeStep
  <1>3. ASSUME NEW n \in Nodes, NEW m \in Nodes, LinkStep(n, m)
        PROVE  AbstractStep /\ SeenIsApplied'
    <2>1. CASE \/ AntiEntropyPull(n, m) \/ AnswerPull(n, m) \/ AnswerTimesOut(n, m)
               \/ ApplyRemoteOpsFails(n, m) \/ Disconnect(n, m)
      <3>1. UNCHANGED <<issued, state, seen, forgotten>>
        BY <2>1 DEF AntiEntropyPull, AnswerPull, AnswerTimesOut, ApplyRemoteOpsFails,
                    Disconnect, nodeVars
      <3> QED
        BY <1>1, <3>1
    <2> QED
      BY <1>3, <2>1, ApplyRemoteOpsImplements DEF LinkStep
  <1>4. CASE UNCHANGED vars
    BY <1>1, <1>4 DEF vars, nodeVars
  <1> QED
    BY <1>2, <1>3, <1>4 DEF Next

\* The sync manager delivers as OpDelivery promises, for every number of nodes
\* and operations and every limit, when no write is lost in a crash: host calls
\* create operations, remote batches deliver what the node has not applied or
\* has evicted, recording and restarting only forget, and nothing else that a
\* node or a connection does is visible.
THEOREM ImplementsOpDelivery == ASSUME ~WriteBehind PROVE Spec => DeliversAsPromised
  <1>1. Init => Delivery!Init
    BY DEF Init, Delivery!Init
  <1>2. Init => SeenIsApplied
    <2>1. Range(<<>>) = {}
      BY DEF Range
    <2> QED
      BY <2>1 DEF Init, SeenIsApplied
  <1>3. DeliveryInv /\ SeenIsApplied /\ [Next]_vars => SeenIsApplied'
    BY StepImplements
  <1>4. DeliveryInv /\ SeenIsApplied /\ [Next]_vars => [Delivery!Next]_(Delivery!vars)
    <2>1. AbstractStep => [Delivery!Next]_(Delivery!vars)
      BY DEF AbstractStep, Delivery!Next, Delivery!vars
    <2> QED
      BY <2>1, StepImplements
  <1> QED
    BY <1>1, <1>2, <1>3, <1>4, DeliveryInvariant, PTL DEF Spec, DeliversAsPromised, Delivery!Spec

-----------------------------------------------------------------------------
(* Restart: the store gives back what memory held. *)

\* The elements of the kept suffix, by position.
LEMMA LastOfView ==
    ASSUME NEW S, NEW s \in Seq(S), NEW limit \in Nat
    PROVE  /\ Excess(Len(s), limit) \in Nat
           /\ Excess(Len(s), limit) <= Len(s)
           /\ LastOf(s, limit) \in Seq(S)
           /\ Len(LastOf(s, limit)) = Len(s) - Excess(Len(s), limit)
           /\ Len(LastOf(s, limit)) <= limit
           /\ \A i \in 1..Len(LastOf(s, limit)) :
                 LastOf(s, limit)[i] = s[i + Excess(Len(s), limit)]
  <1> DEFINE e == Excess(Len(s), limit)
  <1>1. e \in Nat /\ e <= Len(s) /\ Len(s) - e <= limit /\ Len(s) \in Nat
    BY DEF Excess
  <1> HIDE DEF e
  <1>2. LET t == SubSeq(s, e + 1, Len(s))
        IN  /\ t \in Seq(S) /\ Len(t) = Len(s) - e
            /\ \A i \in 1..Len(t) : t[i] = s[i + e]
    BY <1>1
  <1>3. LastOf(s, limit) = SubSeq(s, e + 1, Len(s))
    BY DEF LastOf, e
  <1>4. /\ LastOf(s, limit) \in Seq(S)
        /\ Len(LastOf(s, limit)) = Len(s) - e
        /\ Len(LastOf(s, limit)) <= limit
        /\ \A i \in 1..Len(LastOf(s, limit)) : LastOf(s, limit)[i] = s[i + e]
    BY <1>1, <1>2, <1>3
  <1> QED
    BY <1>1, <1>4 DEF e

\* Dropping the excess over a, then over b, drops the excess over b.
LEMMA ExcessOfRest ==
    ASSUME NEW k \in Nat, NEW a \in Nat, NEW b \in Nat, b <= a
    PROVE  Excess(k, b) = Excess(k, a) + Excess(k - Excess(k, a), b)
  BY DEF Excess

\* Dropping the excess before and after a list grows by m.
LEMMA ExcessOfGrown ==
    ASSUME NEW k \in Nat, NEW m \in Nat, NEW limit \in Nat
    PROVE  Excess(k + m, limit) = Excess(k, limit) + Excess((k - Excess(k, limit)) + m, limit)
  BY DEF Excess

\* The elements of a concatenation, by position.
LEMMA ConcatView ==
    ASSUME NEW S, NEW a \in Seq(S), NEW b \in Seq(S)
    PROVE  /\ a \o b \in Seq(S) /\ Len(a) \in Nat /\ Len(b) \in Nat
           /\ Len(a \o b) = Len(a) + Len(b)
           /\ \A i \in 1..Len(a) : (a \o b)[i] = a[i]
           /\ \A i \in 1..Len(b) : (a \o b)[Len(a) + i] = b[i]
  BY ConcatProperties

\* Keeping the last of the last is keeping the last.
LEMMA LastOfLast ==
    ASSUME NEW S, NEW s \in Seq(S), NEW a \in Nat, NEW b \in Nat, b <= a
    PROVE  LastOf(LastOf(s, a), b) = LastOf(s, b)
  <1> DEFINE k == LastOf(s, a)
             x == LastOf(k, b)
             y == LastOf(s, b)
  <1>1. /\ k \in Seq(S) /\ Len(k) = Len(s) - Excess(Len(s), a)
        /\ Excess(Len(s), a) \in Nat
        /\ \A i \in 1..Len(k) : k[i] = s[i + Excess(Len(s), a)]
    BY LastOfView
  <1>2. /\ y \in Seq(S) /\ Len(y) = Len(s) - Excess(Len(s), b)
        /\ Excess(Len(s), b) \in Nat
        /\ \A i \in 1..Len(y) : y[i] = s[i + Excess(Len(s), b)]
    BY LastOfView
  <1> HIDE DEF k, y
  <1>3. /\ x \in Seq(S) /\ Len(x) = Len(k) - Excess(Len(k), b)
        /\ Excess(Len(k), b) \in Nat
        /\ \A i \in 1..Len(x) : x[i] = k[i + Excess(Len(k), b)]
    BY <1>1, LastOfView
  <1> HIDE DEF x
  <1>4. Excess(Len(s), b) = Excess(Len(s), a) + Excess(Len(k), b) /\ Len(s) \in Nat /\ Len(k) \in Nat
    <2>1. Len(s) \in Nat /\ Len(k) \in Nat
      BY <1>1
    <2> QED
      BY <1>1, <2>1, ExcessOfRest
  <1>5. Len(x) = Len(y)
    BY <1>1, <1>2, <1>3, <1>4
  <1>6. ASSUME NEW i \in 1..Len(x) PROVE x[i] = y[i]
    <2>1. i + Excess(Len(k), b) \in 1..Len(k) /\ i \in 1..Len(y)
      BY <1>3, <1>4, <1>5
    <2>2. x[i] = s[(i + Excess(Len(k), b)) + Excess(Len(s), a)]
      BY <1>1, <1>3, <2>1
    <2>3. y[i] = s[i + Excess(Len(s), b)]
      BY <1>2, <2>1
    <2>4. (i + Excess(Len(k), b)) + Excess(Len(s), a) = i + Excess(Len(s), b)
      BY <1>1, <1>3, <1>4
    <2> QED
      BY <2>2, <2>3, <2>4
  <1>7. x = y
    BY <1>2, <1>3, <1>5, <1>6, SeqEqual
  <1> QED
    BY <1>7 DEF x, y, k

\* A list that grows by b: what was dropped before stays dropped.
LEMMA LastOfGrown ==
    ASSUME NEW S, NEW a \in Seq(S), NEW b \in Seq(S), NEW limit \in Nat
    PROVE  LastOf(LastOf(a, limit) \o b, limit) = LastOf(a \o b, limit)
  <1> DEFINE k == LastOf(a, limit)
             e == Excess(Len(a), limit)
             x == LastOf(k \o b, limit)
             y == LastOf(a \o b, limit)
             f == Excess(Len(k \o b), limit)
             g == Excess(Len(a \o b), limit)
  <1>1. /\ k \in Seq(S) /\ Len(k) = Len(a) - e /\ Len(a) \in Nat /\ Len(b) \in Nat
        /\ e \in Nat /\ \A i \in 1..Len(k) : k[i] = a[i + e]
    BY LastOfView
  <1>2. Len(k) \in Nat
    BY <1>1
  <1>6. g = e + f
    <2>1. Len(k \o b) = Len(k) + Len(b) /\ Len(a \o b) = Len(a) + Len(b)
      BY <1>1, ConcatView
    <2>2. Len(k \o b) = (Len(a) - e) + Len(b)
      BY <1>1, <2>1
    <2> QED
      BY <1>1, <2>1, <2>2, ExcessOfGrown
  <1> HIDE DEF k, e, f, g
  <1>3. /\ k \o b \in Seq(S) /\ Len(k \o b) = Len(k) + Len(b)
        /\ a \o b \in Seq(S) /\ Len(a \o b) = Len(a) + Len(b)
        /\ \A i \in 1..Len(k) : (k \o b)[i] = k[i]
        /\ \A i \in 1..Len(b) : (k \o b)[Len(k) + i] = b[i]
        /\ \A i \in 1..Len(a) : (a \o b)[i] = a[i]
        /\ \A i \in 1..Len(b) : (a \o b)[Len(a) + i] = b[i]
    <2>1. k \in Seq(S)
      BY <1>1
    <2>2. /\ k \o b \in Seq(S) /\ Len(k \o b) = Len(k) + Len(b)
          /\ \A i \in 1..Len(k) : (k \o b)[i] = k[i]
          /\ \A i \in 1..Len(b) : (k \o b)[Len(k) + i] = b[i]
      BY <2>1, ConcatView
    <2>3. /\ a \o b \in Seq(S) /\ Len(a \o b) = Len(a) + Len(b)
          /\ \A i \in 1..Len(a) : (a \o b)[i] = a[i]
          /\ \A i \in 1..Len(b) : (a \o b)[Len(a) + i] = b[i]
      BY ConcatView
    <2> QED
      BY <2>2, <2>3
  <1>4. /\ x \in Seq(S) /\ Len(x) = Len(k \o b) - f /\ f \in Nat
        /\ \A i \in 1..Len(x) : x[i] = (k \o b)[i + f]
    BY <1>3, LastOfView DEF f
  <1>5. /\ y \in Seq(S) /\ Len(y) = Len(a \o b) - g /\ g \in Nat
        /\ \A i \in 1..Len(y) : y[i] = (a \o b)[i + g]
    BY <1>3, LastOfView DEF g
  <1> HIDE DEF x, y
  <1>7. Len(x) = Len(y)
    BY <1>1, <1>3, <1>4, <1>5, <1>6
  <1>8. ASSUME NEW i \in 1..Len(x) PROVE x[i] = y[i]
    <2>1. /\ i + f \in 1..(Len(k) + Len(b)) /\ i + g = (i + f) + e /\ i \in 1..Len(y)
          /\ Len(a) = Len(k) + e /\ x[i] = (k \o b)[i + f] /\ y[i] = (a \o b)[i + g]
      BY <1>1, <1>2, <1>3, <1>4, <1>5, <1>6, <1>7
    <2>2. CASE i + f \in 1..Len(k)
      <3>1. (k \o b)[i + f] = a[(i + f) + e] /\ (i + f) + e \in 1..Len(a)
        BY <1>1, <1>2, <1>3, <2>1, <2>2
      <3> QED
        BY <1>3, <2>1, <3>1
    <2>3. CASE i + f > Len(k)
      <3> DEFINE j == (i + f) - Len(k)
      <3>1. j \in 1..Len(b) /\ i + f = Len(k) + j /\ i + g = Len(a) + j
        BY <1>1, <1>2, <1>4, <2>1, <2>3
      <3> HIDE DEF j
      <3> QED
        BY <1>3, <2>1, <3>1
    <2>4. i + f \in 1..Len(k) \/ i + f > Len(k)
      BY <1>2, <2>1
    <2> QED
      BY <2>2, <2>3, <2>4
  <1>9. x = y
    BY <1>4, <1>5, <1>7, <1>8, SeqEqual
  <1> QED
    BY <1>9 DEF x, y, k

\* A list in memory mirrors a table of the store: it holds the table's ids in
\* the order of their numbers, except ids that a full list has already dropped.
Mirrors(list, table, next, limit) ==
    /\ Len(list) <= limit
    /\ \A i \in 1..Len(list) : table[list[i]] # Absent
    /\ \A i, j \in 1..Len(list) : i < j => table[list[i]] < table[list[j]]
    /\ \A o \in Ops : table[o] # Absent => table[o] < next
    /\ \A o, p \in Ops : table[o] # Absent /\ table[o] = table[p] => o = p
    /\ \A o \in Ops : table[o] # Absent /\ o \notin Range(list) =>
          Len(list) = limit /\ \A i \in 1..Len(list) : table[o] < table[list[i]]

\* A list that mirrors a table holds no id twice.
LEMMA MirrorsInjective ==
    ASSUME NEW table \in [Ops -> Nat \cup {Absent}], NEW list \in Seq(Ops), NEW next, NEW limit,
           Mirrors(list, table, next, limit)
    PROVE  \A i, j \in 1..Len(list) : list[i] = list[j] => i = j
  <1> SUFFICES ASSUME NEW i \in 1..Len(list), NEW j \in 1..Len(list), list[i] = list[j], i # j
               PROVE  FALSE
    OBVIOUS
  <1>1. list[i] \in Ops /\ list[j] \in Ops
    OBVIOUS
  <1>2. table[list[i]] \in Int /\ table[list[j]] \in Int
    BY <1>1 DEF Absent
  <1>3. i < j \/ j < i
    OBVIOUS
  <1>4. table[list[i]] < table[list[j]] \/ table[list[j]] < table[list[i]]
    BY <1>3 DEF Mirrors
  <1> QED
    BY <1>2, <1>4

\* The number an inserted id gets.
LEMMA IndexOfInjective ==
    ASSUME NEW S, NEW s \in Seq(S), \A i, j \in 1..Len(s) : s[i] = s[j] => i = j,
           NEW i \in 1..Len(s)
    PROVE  IndexIn(s, s[i]) = i
  <1>1. DOMAIN s = 1..Len(s)
    OBVIOUS
  <1>2. \E k \in DOMAIN s : s[k] = s[i]
    BY <1>1
  <1>3. IndexIn(s, s[i]) \in DOMAIN s /\ s[IndexIn(s, s[i])] = s[i]
    BY <1>2 DEF IndexIn
  <1> QED
    BY <1>1, <1>3

\* Recording a batch of new ids keeps list and table together, whether the
\* eviction of the store reaches into the batch or only into the old list.
LEMMA MirrorsRecord ==
    ASSUME NEW table \in [Ops -> Nat \cup {Absent}], NEW list \in Seq(Ops),
           NEW next \in Nat, NEW limit \in Nat,
           Mirrors(list, table, next, limit),
           NEW ins \in Seq(Ops),
           \A i, j \in 1..Len(ins) : ins[i] = ins[j] => i = j,
           \A i \in 1..Len(list), j \in 1..Len(ins) : list[i] # ins[j],
           NEW evicted,
           \A i \in 1..Len(list) : i <= Excess(Len(list \o ins), limit) => list[i] \in evicted,
           \A o \in evicted : \E i \in 1..Len(list \o ins) :
              i <= Excess(Len(list \o ins), limit) /\ (list \o ins)[i] = o
    PROVE  Mirrors(LastOf(list \o ins, limit), TableBatch(table, ins, next, evicted),
                   next + Len(ins), limit)
  <1> DEFINE all  == list \o ins
             e    == Excess(Len(all), limit)
             kept == LastOf(all, limit)
             a    == Len(list)
             t    == TableBatch(table, ins, next, evicted)
  <1>1. /\ all \in Seq(Ops) /\ a \in Nat /\ Len(ins) \in Nat /\ Len(all) = a + Len(ins)
        /\ \A i \in 1..a : all[i] = list[i]
        /\ \A i \in 1..Len(ins) : all[a + i] = ins[i]
    BY ConcatView
  <1>2. /\ kept \in Seq(Ops) /\ e \in Nat /\ e <= Len(all) /\ Len(kept) = Len(all) - e
        /\ Len(kept) <= limit /\ \A i \in 1..Len(kept) : kept[i] = all[i + e]
    BY <1>1, LastOfView
  <1>3. e > 0 => Len(kept) = limit
    BY <1>1, <1>2 DEF Excess
  <1> HIDE DEF all, kept, t
  <1>4. \A i, j \in 1..a : list[i] = list[j] => i = j
    BY MirrorsInjective
  <1>5. ASSUME NEW i \in 1..Len(all)
        PROVE  \/ i \in 1..a /\ all[i] = list[i]
               \/ i - a \in 1..Len(ins) /\ all[i] = ins[i - a] /\ i > a
    <2>1. CASE i <= a
      BY <1>1, <2>1
    <2>2. CASE i > a
      <3>1. i - a \in 1..Len(ins) /\ a + (i - a) = i
        BY <1>1, <2>2
      <3> QED
        BY <1>1, <2>2, <3>1
    <2> QED
      BY <1>1, <2>1, <2>2
  <1>6. ASSUME NEW i \in 1..Len(all), NEW j \in 1..Len(all), all[i] = all[j]
        PROVE  i = j
    <2>1. CASE i \in 1..a /\ all[i] = list[i]
      <3>1. j \in 1..a /\ all[j] = list[j]
        <4>1. ASSUME j - a \in 1..Len(ins), all[j] = ins[j - a] PROVE FALSE
          BY <1>6, <2>1, <4>1
        <4> QED
          BY <1>5, <4>1
      <3>2. list[i] = list[j]
        BY <1>6, <2>1, <3>1
      <3> QED
        BY <1>4, <2>1, <3>1, <3>2
    <2>2. CASE i - a \in 1..Len(ins) /\ all[i] = ins[i - a] /\ i > a
      <3>1. j - a \in 1..Len(ins) /\ all[j] = ins[j - a]
        BY <1>5, <1>6, <2>2
      <3>2. i - a = j - a
        BY <1>6, <2>2, <3>1
      <3> QED
        BY <1>1, <3>2
    <2> QED
      BY <1>5, <2>1, <2>2
  <1> DEFINE number(i) == IF i <= a THEN table[list[i]] ELSE next + (i - a) - 1
  <1>7. ASSUME NEW i \in 1..Len(all), i > e
        PROVE  t[all[i]] = number(i) /\ all[i] \in Ops
    <2>1. all[i] \notin evicted /\ all[i] \in Ops
      <3>1. ASSUME all[i] \in evicted PROVE FALSE
        <4>1. PICK j \in 1..Len(all) : j <= e /\ all[j] = all[i]
          BY <3>1 DEF all
        <4> QED
          BY <1>2, <1>6, <1>7, <4>1
      <3> QED
        BY <1>1, <3>1
    <2>2. CASE i \in 1..a /\ all[i] = list[i]
      <3>1. all[i] \notin Range(ins)
        BY <2>2 DEF Range
      <3> QED
        BY <2>1, <2>2, <3>1 DEF t, TableBatch
    <2>3. CASE i - a \in 1..Len(ins) /\ all[i] = ins[i - a] /\ i > a
      <3>1. all[i] \in Range(ins) /\ IndexIn(ins, all[i]) = i - a
        <4>1. DOMAIN ins = 1..Len(ins)
          OBVIOUS
        <4>2. IndexIn(ins, ins[i - a]) = i - a
          BY <2>3, IndexOfInjective
        <4> QED
          BY <2>3, <4>1, <4>2 DEF Range
      <3>2. t[all[i]] = next + IndexIn(ins, all[i]) - 1
        BY <2>1, <3>1 DEF t, TableBatch
      <3> QED
        BY <1>1, <2>1, <2>3, <3>1, <3>2
    <2> QED
      BY <1>5, <2>2, <2>3
  <1>8. \A i \in 1..Len(all) : number(i) \in Nat /\ number(i) < next + Len(ins)
    <2>1. \A i \in 1..a : list[i] \in Ops /\ table[list[i]] \in Nat /\ table[list[i]] < next
      BY DEF Mirrors
    <2> QED
      BY <1>1, <2>1
  <1>9. \A i, j \in 1..Len(all) : i < j => number(i) < number(j)
    <2>1. \A i \in 1..a : list[i] \in Ops /\ table[list[i]] \in Nat /\ table[list[i]] < next
      BY DEF Mirrors
    <2>2. \A i, j \in 1..a : i < j => table[list[i]] < table[list[j]]
      BY DEF Mirrors
    <2> QED
      BY <1>1, <2>1, <2>2
  \* What is left of an id that the list does not keep.
  <1>10. ASSUME NEW o \in Ops, t[o] # Absent, o \notin Range(kept)
         PROVE  \/ \E i \in 1..Len(all) : i <= e /\ all[i] = o /\ t[o] = number(i)
                \/ /\ t[o] = table[o] /\ a = limit /\ o \notin Range(all)
                   /\ \A i \in 1..Len(all) : table[o] < number(i)
    <2>1. CASE o \in Range(all)
      <3>1. PICK i \in 1..Len(all) : all[i] = o
        BY <1>1, <2>1 DEF Range
      <3>2. i <= e
        <4>1. ASSUME i > e PROVE FALSE
          <5>1. i - e \in 1..Len(kept) /\ (i - e) + e = i
            BY <1>1, <1>2, <4>1
          <5>2. kept[i - e] = o /\ DOMAIN kept = 1..Len(kept)
            BY <1>2, <3>1, <5>1
          <5> QED
            BY <1>10, <5>1, <5>2 DEF Range
        <4> QED
          BY <1>1, <1>2, <4>1
      <3>3. i - a \in 1..Len(ins) /\ all[i] = ins[i - a] /\ i > a
        <4>1. o \notin evicted
          BY <1>10 DEF t, TableBatch
        <4> QED
          BY <1>5, <3>1, <3>2, <4>1 DEF e, all
      <3>4. t[o] = next + IndexIn(ins, o) - 1 /\ IndexIn(ins, o) = i - a
        <4>1. IndexIn(ins, ins[i - a]) = i - a /\ DOMAIN ins = 1..Len(ins)
          BY <3>3, IndexOfInjective
        <4>2. o \in Range(ins) /\ o \notin evicted
          BY <1>10, <3>1, <3>3, <4>1 DEF t, TableBatch, Range
        <4> QED
          BY <3>1, <3>3, <4>1, <4>2 DEF t, TableBatch
      <3>5. t[o] = number(i)
        BY <1>1, <3>3, <3>4
      <3> QED
        BY <3>1, <3>2, <3>5
    <2>2. CASE o \notin Range(all)
      <3>1. Range(all) = Range(list) \cup Range(ins)
        BY RangeConcatenation DEF all
      <3>2. t[o] = table[o] /\ o \notin Range(list) /\ table[o] # Absent
        BY <1>10, <2>2, <3>1 DEF t, TableBatch
      <3>3. a = limit /\ table[o] < next /\ \A i \in 1..a : table[o] < table[list[i]]
        BY <3>2 DEF Mirrors
      <3>4. table[o] \in Nat
        BY <3>2
      <3>5. \A i \in 1..Len(all) : table[o] < number(i)
        BY <1>1, <3>3, <3>4
      <3> QED
        BY <2>2, <3>2, <3>3, <3>5
    <2> QED
      BY <2>1, <2>2
  <1> HIDE DEF number, e, a
  <1>11. \A i \in 1..Len(kept) : /\ i + e \in 1..Len(all) /\ i + e > e /\ kept[i] = all[i + e]
                                 /\ t[kept[i]] = number(i + e)
    <2>1. \A i \in 1..Len(kept) : i + e \in 1..Len(all) /\ i + e > e /\ kept[i] = all[i + e]
      BY <1>1, <1>2
    <2> QED
      BY <1>7, <2>1
  <1>12. ASSUME NEW o \in Ops, t[o] # Absent, o \in Range(kept)
         PROVE  \E i \in 1..Len(all) : i > e /\ all[i] = o /\ t[o] = number(i)
    <2>1. PICK i \in 1..Len(kept) : kept[i] = o
      BY <1>2, <1>12 DEF Range
    <2>2. i + e \in 1..Len(all) /\ i + e > e /\ all[i + e] = o /\ t[o] = number(i + e)
      BY <1>11, <2>1
    <2> QED
      BY <2>2
  <1>13. \A i \in 1..Len(kept) : t[kept[i]] # Absent
    BY <1>8, <1>11 DEF Absent
  <1>14. \A i, j \in 1..Len(kept) : i < j => t[kept[i]] < t[kept[j]]
    BY <1>1, <1>2, <1>9, <1>11
  <1>15. \A o \in Ops : t[o] # Absent => t[o] < next + Len(ins)
    <2>1. ASSUME NEW o \in Ops, t[o] # Absent
          PROVE  t[o] < next + Len(ins)
      <3>1. CASE \E i \in 1..Len(all) : t[o] = number(i)
        BY <1>8, <3>1
      <3>2. CASE t[o] = table[o]
        <4>1. table[o] < next /\ table[o] \in Nat
          BY <2>1, <3>2 DEF Mirrors
        <4> QED
          BY <1>1, <3>2, <4>1
      <3> QED
        BY <1>10, <1>12, <2>1, <3>1, <3>2
    <2> QED
      BY <2>1
  <1>16. \A o, p \in Ops : t[o] # Absent /\ t[o] = t[p] => o = p
    <2>1. ASSUME NEW o \in Ops, NEW p \in Ops, t[o] # Absent, t[o] = t[p]
          PROVE  o = p
      <3> DEFINE placed(x) == \E i \in 1..Len(all) : all[i] = x /\ t[x] = number(i)
                 old(x)    == /\ t[x] = table[x] /\ table[x] \in Nat
                              /\ \A i \in 1..Len(all) : table[x] < number(i)
      <3>1. ASSUME NEW x \in Ops, t[x] # Absent PROVE placed(x) \/ old(x)
        BY <1>10, <1>12, <3>1
      <3>2. (placed(o) \/ old(o)) /\ (placed(p) \/ old(p))
        BY <2>1, <3>1
      <3>3. CASE placed(o) /\ placed(p)
        <4>1. PICK i \in 1..Len(all) : all[i] = o /\ t[o] = number(i)
          BY <3>3
        <4>2. PICK j \in 1..Len(all) : all[j] = p /\ t[p] = number(j)
          BY <3>3
        <4>3. number(i) = number(j) /\ number(i) \in Nat
          BY <1>8, <2>1, <4>1, <4>2
        <4>4. i = j
          BY <1>1, <1>9, <4>3
        <4> QED
          BY <4>1, <4>2, <4>4
      <3>4. ASSUME NEW x \in Ops, NEW y \in Ops, t[x] = t[y], placed(x), old(y) PROVE FALSE
        <4>1. PICK i \in 1..Len(all) : t[x] = number(i)
          BY <3>4
        <4>2. t[y] < number(i) /\ number(i) \in Nat
          BY <1>8, <3>4, <4>1
        <4> QED
          BY <3>4, <4>1, <4>2
      <3>5. ~(placed(o) /\ old(p)) /\ ~(old(o) /\ placed(p))
        BY <2>1, <3>4
      <3>6. CASE old(o) /\ old(p)
        BY <2>1, <3>6 DEF Mirrors
      <3> QED
        BY <3>2, <3>3, <3>5, <3>6
    <2> QED
      BY <2>1
  <1>17. ASSUME NEW o \in Ops, t[o] # Absent, o \notin Range(kept)
         PROVE  Len(kept) = limit /\ \A i \in 1..Len(kept) : t[o] < t[kept[i]]
    <2>1. CASE \E i \in 1..Len(all) : i <= e /\ all[i] = o /\ t[o] = number(i)
      <3>1. PICK i \in 1..Len(all) : i <= e /\ all[i] = o /\ t[o] = number(i)
        BY <2>1
      <3>2. Len(kept) = limit
        BY <1>2, <1>3, <3>1
      <3>3. \A j \in 1..Len(kept) : i < j + e
        BY <1>1, <1>2, <3>1
      <3> QED
        BY <1>9, <1>11, <3>1, <3>2, <3>3
    <2>2. CASE /\ t[o] = table[o] /\ a = limit /\ o \notin Range(all)
               /\ \A i \in 1..Len(all) : table[o] < number(i)
      <3>1. Len(kept) = limit
        <4>1. Len(list) = limit
          BY <2>2 DEF a
        <4> QED
          BY <1>1, <1>2, <4>1 DEF Excess, e, a
      <3> QED
        BY <1>11, <2>2, <3>1
    <2> QED
      BY <1>10, <1>17, <2>1, <2>2
  <1>18. Mirrors(kept, t, next + Len(ins), limit)
    BY <1>2, <1>13, <1>14, <1>15, <1>16, <1>17 DEF Mirrors
  <1> QED
    BY <1>18 DEF kept, t, all

-----------------------------------------------------------------------------
(* Reading a table back: there is one sorted list, and it is the mirror. *)

Present(table) == {o \in Ops : table[o] # Absent}

UpTo(table, o) == {p \in Ops : table[p] # Absent /\ table[p] <= table[o]}

\* The positions of a list of n elements.
LEMMA IntervalSize ==
    ASSUME NEW n \in Nat
    PROVE  IsFiniteSet(1..n) /\ Cardinality(1..n) = n
  <1>1. n \in Int /\ 1 \in Int /\ (1 > n => n = 0) /\ (n - 1) + 1 = n
    OBVIOUS
  <1> QED
    BY <1>1, FS_Interval

\* A sorted list, by position.
LEMMA SortedView ==
    ASSUME NEW table \in [Ops -> Nat \cup {Absent}], NEW s \in SortedBySequence(table)
    PROVE  /\ s \in Seq(Ops) /\ Len(s) \in Nat /\ Len(s) = Cardinality(Present(table))
           /\ Range(s) = Present(table)
           /\ \A i \in 1..Len(s) : s[i] \in Ops /\ table[s[i]] \in Nat
           /\ \A i, j \in 1..Len(s) : i < j => table[s[i]] < table[s[j]]
           /\ \A i, j \in 1..Len(s) : s[i] = s[j] => i = j
           /\ \A i, j \in 1..Len(s) : table[s[i]] <= table[s[j]] => i <= j
  <1>1. s \in Seq(Ops) /\ Range(s) = Present(table)
    BY SortedFacts DEF Present
  <1>2. DOMAIN s = 1..Len(s) /\ Len(s) \in Nat
    BY <1>1
  <1>3. s \in [1..Cardinality(Present(table)) -> Present(table)]
    BY DEF SortedBySequence, Present
  <1>4. Cardinality(Present(table)) \in Nat
    BY OpsAssumption, FS_Subset, FS_CardinalityType DEF Present
  <1>5. Len(s) = Cardinality(Present(table))
    BY <1>3, <1>4
  <1>6. \A i, j \in 1..Len(s) : i < j => table[s[i]] < table[s[j]]
    BY <1>2 DEF SortedBySequence
  <1>7. \A i \in 1..Len(s) : s[i] \in Ops /\ table[s[i]] \in Nat
    <2>1. \A i \in 1..Len(s) : s[i] \in Range(s)
      BY <1>2 DEF Range
    <2>2. \A o \in Present(table) : o \in Ops /\ table[o] \in Nat
      BY DEF Present
    <2> QED
      BY <1>1, <2>1, <2>2
  <1>8. ASSUME NEW i \in 1..Len(s), NEW j \in 1..Len(s), i # j
        PROVE  s[i] # s[j]
    <2>1. i < j \/ j < i
      BY <1>2, <1>8
    <2>2. table[s[i]] < table[s[j]] \/ table[s[j]] < table[s[i]]
      BY <1>6, <2>1
    <2> QED
      BY <1>7, <2>2
  <1>9. ASSUME NEW i \in 1..Len(s), NEW j \in 1..Len(s), table[s[i]] <= table[s[j]]
        PROVE  i <= j
    <2>1. ASSUME j < i PROVE FALSE
      <3>1. table[s[j]] < table[s[i]]
        BY <1>6, <2>1
      <3> QED
        BY <1>7, <1>9, <3>1
    <2> QED
      BY <1>2, <2>1
  <1> QED
    BY <1>1, <1>2, <1>5, <1>6, <1>7, <1>8, <1>9

\* The ids up to the i-th are i ids.
LEMMA SortedRank ==
    ASSUME NEW table \in [Ops -> Nat \cup {Absent}], NEW s \in SortedBySequence(table),
           NEW i \in 1..Len(s)
    PROVE  Cardinality(UpTo(table, s[i])) = i
  <1>1. /\ s \in Seq(Ops) /\ Len(s) \in Nat /\ Range(s) = Present(table)
        /\ \A k \in 1..Len(s) : s[k] \in Ops /\ table[s[k]] \in Nat
        /\ \A k, j \in 1..Len(s) : k < j => table[s[k]] < table[s[j]]
        /\ \A k, j \in 1..Len(s) : s[k] = s[j] => k = j
        /\ \A k, j \in 1..Len(s) : table[s[k]] <= table[s[j]] => k <= j
    BY SortedView
  <1> DEFINE f == [k \in 1..i |-> s[k]]
  <1>2. \A k \in 1..i : k \in 1..Len(s) /\ s[k] \in UpTo(table, s[i])
    <2>1. \A k \in 1..i : k \in 1..Len(s) /\ table[s[k]] <= table[s[i]]
      BY <1>1
    <2> QED
      BY <1>1, <2>1 DEF UpTo, Absent
  <1>3. ASSUME NEW p \in UpTo(table, s[i])
        PROVE  \E k \in 1..i : s[k] = p
    <2>1. p \in Range(s) /\ table[p] <= table[s[i]]
      BY <1>1 DEF UpTo, Present
    <2>2. PICK k \in 1..Len(s) : s[k] = p
      BY <1>1, <2>1 DEF Range
    <2>3. k <= i
      BY <1>1, <2>1, <2>2
    <2> QED
      BY <1>1, <2>2, <2>3
  <1>4. f \in [1..i -> UpTo(table, s[i])]
    BY <1>2
  <1>5. f \in Bijection(1..i, UpTo(table, s[i]))
    <2>1. \A k, j \in 1..i : f[k] = f[j] => k = j
      BY <1>1, <1>2
    <2>2. \A p \in UpTo(table, s[i]) : \E k \in 1..i : f[k] = p
      BY <1>3
    <2> QED
      BY <1>4, <2>1, <2>2, Fun_IsBij
  <1>6. ExistsBijection(1..i, UpTo(table, s[i]))
    BY <1>5 DEF ExistsBijection
  <1>7. IsFiniteSet(1..i) /\ Cardinality(1..i) = i
    BY <1>1, IntervalSize
  <1> QED
    BY <1>6, <1>7, FS_Bijection

\* A larger number has more ids up to it.
LEMMA RankGrows ==
    ASSUME NEW table \in [Ops -> Nat \cup {Absent}],
           NEW o \in Present(table), NEW p \in Present(table), table[o] < table[p]
    PROVE  /\ Cardinality(UpTo(table, o)) < Cardinality(UpTo(table, p))
           /\ Cardinality(UpTo(table, o)) \in Nat /\ Cardinality(UpTo(table, p)) \in Nat
  <1>1. table[o] \in Nat /\ table[p] \in Nat
    BY DEF Present
  <1>2. UpTo(table, o) \subseteq UpTo(table, p)
    BY <1>1 DEF UpTo
  <1>3. p \in UpTo(table, p) /\ p \notin UpTo(table, o)
    BY <1>1 DEF UpTo, Present
  <1>4. IsFiniteSet(UpTo(table, p)) /\ IsFiniteSet(UpTo(table, o))
    BY OpsAssumption, FS_Subset DEF UpTo
  <1>5. Cardinality(UpTo(table, o)) \in Nat /\ Cardinality(UpTo(table, p)) \in Nat
    BY <1>4, FS_CardinalityType
  <1>6. /\ Cardinality(UpTo(table, o)) <= Cardinality(UpTo(table, p))
        /\ Cardinality(UpTo(table, o)) # Cardinality(UpTo(table, p))
    BY <1>2, <1>3, <1>4, FS_Subset
  <1> QED
    BY <1>5, <1>6

Injective(table) == \A o, p \in Ops : table[o] # Absent /\ table[o] = table[p] => o = p

\* A table sorts in one way only.
LEMMA SortedUnique ==
    ASSUME NEW table \in [Ops -> Nat \cup {Absent}], Injective(table),
           NEW s \in SortedBySequence(table), NEW u \in SortedBySequence(table)
    PROVE  s = u
  <1>1. /\ s \in Seq(Ops) /\ Len(s) = Cardinality(Present(table))
        /\ \A k \in 1..Len(s) : s[k] \in Ops /\ table[s[k]] \in Nat
    BY SortedView
  <1>2. /\ u \in Seq(Ops) /\ Len(u) = Cardinality(Present(table))
        /\ \A k \in 1..Len(u) : u[k] \in Ops /\ table[u[k]] \in Nat
    BY SortedView
  <1>3. ASSUME NEW i \in 1..Len(s) PROVE s[i] = u[i]
    <2>1. i \in 1..Len(u)
      BY <1>1, <1>2
    <2>2. /\ Cardinality(UpTo(table, s[i])) = i
          /\ Cardinality(UpTo(table, u[i])) = i
      BY <2>1, SortedRank
    <2>3. s[i] \in Present(table) /\ u[i] \in Present(table)
      BY <1>1, <1>2, <2>1 DEF Present, Absent
    <2>4. ~(table[s[i]] < table[u[i]]) /\ ~(table[u[i]] < table[s[i]])
      BY <2>2, <2>3, RankGrows
    <2>5. table[s[i]] = table[u[i]] /\ s[i] \in Ops /\ u[i] \in Ops
      BY <1>1, <1>2, <2>1, <2>4
    <2> QED
      BY <2>3, <2>5 DEF Injective, Present
  <1> QED
    BY <1>1, <1>2, <1>3, SeqEqual

\* A table without repeated numbers can be sorted.
LEMMA SortedExists ==
    ASSUME NEW table \in [Ops -> Nat \cup {Absent}], Injective(table)
    PROVE  \E s : s \in SortedBySequence(table)
  <1> DEFINE ids == Present(table)
             c   == Cardinality(ids)
             r   == [o \in ids |-> Cardinality(UpTo(table, o))]
  <1>1. ids \subseteq Ops /\ IsFiniteSet(ids) /\ c \in Nat
    BY OpsAssumption, FS_Subset, FS_CardinalityType DEF Present
  <1>2. ASSUME NEW o \in ids
        PROVE  table[o] \in Nat /\ r[o] \in 1..c
    <2>1. o \in Ops /\ table[o] \in Nat /\ o \in UpTo(table, o) /\ UpTo(table, o) \subseteq ids
      BY DEF Present, UpTo
    <2>2. IsFiniteSet(UpTo(table, o)) /\ Cardinality(UpTo(table, o)) <= c
      BY <1>1, <2>1, FS_Subset
    <2>3. Cardinality(UpTo(table, o)) \in Nat /\ Cardinality(UpTo(table, o)) # 0
      BY <2>1, <2>2, FS_CardinalityType, FS_EmptySet
    <2>4. r[o] = Cardinality(UpTo(table, o))
      OBVIOUS
    <2> QED
      BY <1>1, <2>1, <2>2, <2>3, <2>4
  <1>3. ASSUME NEW o \in ids, NEW p \in ids, table[o] < table[p]
        PROVE  r[o] < r[p]
    BY <1>3, RankGrows
  <1>4. ASSUME NEW o \in ids, NEW p \in ids, r[o] = r[p]
        PROVE  o = p
    <2>1. ~(table[o] < table[p]) /\ ~(table[p] < table[o])
      BY <1>2, <1>3, <1>4
    <2>2. table[o] = table[p] /\ o \in Ops /\ p \in Ops /\ table[o] # Absent
      BY <1>1, <1>2, <2>1 DEF Absent
    <2> QED
      BY <2>2 DEF Injective
  <1>5. r \in [ids -> 1..c]
    BY <1>2
  <1> HIDE DEF ids, c, r
  <1>6. r \in Injection(ids, 1..c)
    BY <1>4, <1>5, Fun_IsInj
  <1>7. IsFiniteSet(1..c) /\ Cardinality(1..c) = c
    BY <1>1, IntervalSize
  <1>8. \A i \in 1..c : \E o \in ids : r[o] = i
    <2>1. r \in Surjection(ids, 1..c)
      BY <1>6, <1>7, FS_Injection DEF c
    <2> QED
      BY <2>1 DEF Surjection
  <1> DEFINE s == [i \in 1..c |-> CHOOSE o \in ids : r[o] = i]
  <1>9. \A i \in 1..c : s[i] \in ids /\ r[s[i]] = i
    BY <1>8
  <1>10. s \in [1..c -> ids]
    BY <1>9
  <1>11. Range(s) = ids
    <2>1. \A o \in ids : r[o] \in 1..c /\ s[r[o]] = o
      BY <1>4, <1>5, <1>9
    <2> HIDE DEF s
    <2> QED
      BY <1>10, <2>1 DEF Range
  <1>12. ASSUME NEW i \in 1..c, NEW j \in 1..c, i < j
         PROVE  table[s[i]] < table[s[j]]
    <2>1. s[i] \in ids /\ s[j] \in ids /\ r[s[i]] = i /\ r[s[j]] = j
      BY <1>9
    <2> HIDE DEF s
    <2>2. table[s[i]] \in Nat /\ table[s[j]] \in Nat
      BY <1>2, <2>1
    <2>3. table[s[i]] # table[s[j]]
      <3>1. s[i] # s[j]
        BY <1>12, <2>1
      <3> QED
        BY <1>1, <2>1, <2>2, <3>1 DEF Injective, Absent
    <2>4. ~(table[s[j]] < table[s[i]])
      BY <1>3, <1>12, <2>1
    <2> QED
      BY <2>2, <2>3, <2>4
  <1> HIDE DEF s
  <1>13. DOMAIN s = 1..c
    BY <1>10
  <1>14. s \in SortedBySequence(table)
    <2>1. \A i, j \in DOMAIN s : i < j => table[s[i]] < table[s[j]]
      BY <1>12, <1>13
    <2> QED
      BY <1>10, <1>11, <2>1 DEF SortedBySequence, ids, c, Present
  <1> QED
    BY <1>14

\* What hydration would read back from a mirrored table is the list.
LEMMA MirrorsRecovers ==
    ASSUME NEW table \in [Ops -> Nat \cup {Absent}], NEW list \in Seq(Ops),
           NEW next, NEW limit \in Nat, Mirrors(list, table, next, limit)
    PROVE  \E s \in SortedBySequence(table) : list = LastOf(s, limit)
  <1> DEFINE old == [o \in Ops |-> IF o \in Range(list) THEN Absent ELSE table[o]]
  <1>1. old \in [Ops -> Nat \cup {Absent}] /\ Injective(old)
    <2>1. \A o, p \in Ops : old[o] # Absent /\ old[o] = old[p] => table[o] = old[o] /\ table[p] = old[o]
      OBVIOUS
    <2>2. Injective(old)
      BY <2>1 DEF Injective, Mirrors
    <2> QED
      BY <2>2
  <1>2. \A o \in Ops : old[o] # Absent <=> (table[o] # Absent /\ o \notin Range(list))
    OBVIOUS
  <1>3. \A o \in Ops : old[o] # Absent => old[o] = table[o]
    OBVIOUS
  <1> HIDE DEF old
  <1>4. PICK u : u \in SortedBySequence(old)
    BY <1>1, SortedExists
  <1>5. /\ u \in Seq(Ops) /\ Len(u) \in Nat /\ Len(u) = Cardinality(Present(old))
        /\ Range(u) = Present(old)
        /\ \A i \in 1..Len(u) : u[i] \in Ops /\ old[u[i]] \in Nat
        /\ \A i, j \in 1..Len(u) : i < j => old[u[i]] < old[u[j]]
    BY <1>1, <1>4, SortedView
  <1> DEFINE s == u \o list
             a == Len(u)
  <1>6. /\ s \in Seq(Ops) /\ Len(list) \in Nat /\ Len(s) = a + Len(list)
        /\ \A i \in 1..a : s[i] = u[i]
        /\ \A i \in 1..Len(list) : s[a + i] = list[i]
    <2>1. u \in Seq(Ops)
      BY <1>5
    <2> QED
      BY <2>1, ConcatView
  <1>7. Range(s) = Present(table)
    <2>1. Range(s) = Range(u) \cup Range(list)
      BY <1>5, RangeConcatenation
    <2>2. Range(list) \subseteq Present(table)
      <3>1. DOMAIN list = 1..Len(list)
        OBVIOUS
      <3>2. \A i \in 1..Len(list) : list[i] \in Ops /\ table[list[i]] # Absent
        BY DEF Mirrors
      <3> QED
        BY <3>1, <3>2 DEF Range, Present
    <2>3. Present(table) = Present(old) \cup Range(list)
      BY <1>2, <2>2 DEF Present
    <2> QED
      BY <1>5, <2>1, <2>3
  <1> HIDE DEF s
  <1>8. ASSUME NEW i \in 1..Len(s), NEW j \in 1..Len(s), i < j
        PROVE  table[s[i]] < table[s[j]]
    <2>1. ASSUME NEW k \in 1..Len(s), ~(k <= a)
          PROVE  k - a \in 1..Len(list) /\ s[k] = list[k - a]
      <3>1. k - a \in 1..Len(list) /\ a + (k - a) = k
        BY <1>5, <1>6, <2>1
      <3> QED
        BY <1>6, <3>1
    <2>2. \A k \in 1..a : s[k] = u[k] /\ u[k] \in Ops /\ old[u[k]] \in Nat /\ table[u[k]] = old[u[k]]
                          /\ table[u[k]] # Absent /\ u[k] \notin Range(list)
      BY <1>2, <1>3, <1>5, <1>6 DEF Absent
    <2>3. CASE j <= a
      <3>1. i \in 1..a /\ j \in 1..a
        BY <1>5, <1>6, <1>8, <2>3
      <3>2. old[u[i]] < old[u[j]]
        BY <1>5, <1>8, <3>1
      <3> QED
        BY <2>2, <3>1, <3>2
    <2>4. CASE i <= a /\ ~(j <= a)
      <3>1. i \in 1..a /\ j - a \in 1..Len(list) /\ s[j] = list[j - a]
        BY <1>5, <2>1, <2>4
      <3>2. u[i] \in Ops /\ table[u[i]] # Absent /\ u[i] \notin Range(list) /\ s[i] = u[i]
        BY <2>2, <3>1
      <3>3. table[u[i]] < table[list[j - a]]
        BY <3>1, <3>2 DEF Mirrors
      <3> QED
        BY <3>1, <3>2, <3>3
    <2>5. CASE ~(i <= a) /\ ~(j <= a)
      <3>1. /\ i - a \in 1..Len(list) /\ s[i] = list[i - a] /\ i - a < j - a
            /\ j - a \in 1..Len(list) /\ s[j] = list[j - a]
        BY <1>5, <1>8, <2>1, <2>5
      <3> QED
        BY <3>1 DEF Mirrors
    <2>6. j <= a \/ (i <= a /\ ~(j <= a)) \/ (~(i <= a) /\ ~(j <= a))
      BY <1>5, <1>8
    <2> QED
      BY <2>3, <2>4, <2>5, <2>6
  <1>9. Len(s) = Cardinality(Present(table))
    <2> DEFINE n == Len(s)
               f == [i \in 1..n |-> s[i]]
    <2>1. n \in Nat /\ DOMAIN s = 1..n /\ \A i \in 1..n : s[i] \in Present(table)
      BY <1>6, <1>7 DEF Range
    <2>2. \A i, j \in 1..n : s[i] = s[j] => i = j
      <3>1. ASSUME NEW i \in 1..n, NEW j \in 1..n, s[i] = s[j], i # j PROVE FALSE
        <4>1. s[i] \in Ops /\ s[j] \in Ops /\ table[s[i]] \in Nat /\ table[s[j]] \in Nat
          BY <2>1 DEF Present
        <4>2. i < j \/ j < i
          BY <2>1, <3>1
        <4> QED
          BY <1>8, <3>1, <4>1, <4>2
      <3> QED
        BY <3>1
    <2>3. f \in [1..n -> Present(table)]
      BY <2>1
    <2>4. \A p \in Present(table) : \E i \in 1..n : f[i] = p
      BY <1>7, <2>1 DEF Range
    <2>5. f \in Bijection(1..n, Present(table))
      BY <2>2, <2>3, <2>4, Fun_IsBij
    <2>6. ExistsBijection(1..n, Present(table))
      BY <2>5 DEF ExistsBijection
    <2>7. IsFiniteSet(1..n) /\ Cardinality(1..n) = n
      BY <2>1, IntervalSize
    <2> QED
      BY <2>6, <2>7, FS_Bijection
  <1>10. s \in SortedBySequence(table)
    <2>1. DOMAIN s = 1..Len(s) /\ \A i \in 1..Len(s) : s[i] \in Present(table)
      BY <1>6, <1>7 DEF Range
    <2>2. s \in [1..Cardinality(Present(table)) -> Present(table)]
      <3>1. s = [i \in 1..Len(s) |-> s[i]]
        BY <1>6
      <3> QED
        BY <1>9, <2>1, <3>1
    <2>3. \A i, j \in DOMAIN s : i < j => table[s[i]] < table[s[j]]
      BY <1>8, <2>1
    <2> QED
      BY <1>7, <2>2, <2>3 DEF SortedBySequence, Present
  <1>11. list = LastOf(s, limit)
    <2> DEFINE k == LastOf(s, limit)
               e == Excess(Len(s), limit)
    <2>1. /\ k \in Seq(Ops) /\ e \in Nat /\ Len(k) = Len(s) - e
          /\ \A i \in 1..Len(k) : k[i] = s[i + e]
      BY <1>6, LastOfView
    <2>2. a = 0 \/ Len(list) = limit
      <3>1. ASSUME a # 0 PROVE Len(list) = limit
        <4>1. 1 \in 1..a /\ u[1] \in Ops /\ old[u[1]] \in Nat
          BY <1>5, <3>1
        <4>2. table[u[1]] # Absent /\ u[1] \notin Range(list)
          BY <1>2, <4>1 DEF Absent
        <4> QED
          BY <4>1, <4>2 DEF Mirrors
      <3> QED
        BY <3>1
    <2>3. Len(list) <= limit
      BY DEF Mirrors
    <2>4. e = a
      BY <1>5, <1>6, <2>2, <2>3 DEF Excess
    <2> HIDE DEF k, e
    <2>5. Len(k) = Len(list) /\ \A i \in 1..Len(list) : list[i] = k[i]
      <3>1. Len(k) = Len(list)
        BY <1>5, <1>6, <2>1, <2>4
      <3>2. ASSUME NEW i \in 1..Len(list) PROVE list[i] = k[i]
        <4>1. k[i] = s[i + e] /\ s[a + i] = list[i] /\ i + e = a + i
          BY <1>5, <1>6, <2>1, <2>4, <3>1, <3>2
        <4> QED
          BY <4>1
      <3> QED
        BY <3>1, <3>2
    <2>6. list = k
      BY <2>1, <2>5, SeqEqual
    <2> QED
      BY <2>6 DEF k
  <1> QED
    BY <1>10, <1>11

\* Hydration reads a list that mirrors the table it leaves behind.
LEMMA MirrorsRestart ==
    ASSUME NEW table \in [Ops -> Nat \cup {Absent}], Injective(table),
           NEW s \in SortedBySequence(table), NEW limit \in Nat
    PROVE  Mirrors(LastOf(s, limit),
                   TableBatch(table, <<>>, 0, Range(FirstOf(s, Excess(Len(s), limit)))),
                   NextSequence(s, table), limit)
  <1> DEFINE e    == Excess(Len(s), limit)
             kept == LastOf(s, limit)
             gone == Range(FirstOf(s, e))
             t    == TableBatch(table, <<>>, 0, gone)
             next == NextSequence(s, table)
  <1>1. /\ s \in Seq(Ops) /\ Len(s) \in Nat /\ Range(s) = Present(table)
        /\ \A i \in 1..Len(s) : s[i] \in Ops /\ table[s[i]] \in Nat
        /\ \A i, j \in 1..Len(s) : i < j => table[s[i]] < table[s[j]]
        /\ \A i, j \in 1..Len(s) : s[i] = s[j] => i = j
        /\ \A i, j \in 1..Len(s) : table[s[i]] <= table[s[j]] => i <= j
    BY SortedView
  <1>2. /\ kept \in Seq(Ops) /\ e \in Nat /\ e <= Len(s) /\ Len(kept) = Len(s) - e
        /\ Len(kept) <= limit /\ \A i \in 1..Len(kept) : kept[i] = s[i + e]
    BY <1>1, LastOfView
  <1>3. \A o \in gone : \E j \in 1..Len(s) : j <= e /\ s[j] = o
    <2>1. FirstOf(s, e) = SubSeq(s, 1, e)
      BY <1>1, <1>2 DEF FirstOf, Smaller
    <2>2. /\ SubSeq(s, 1, e) \in Seq(Ops) /\ Len(SubSeq(s, 1, e)) = e
          /\ \A j \in 1..e : SubSeq(s, 1, e)[j] = s[j] /\ j \in 1..Len(s)
      BY <1>1, <1>2
    <2>3. DOMAIN SubSeq(s, 1, e) = 1..e
      BY <2>2
    <2> QED
      BY <2>1, <2>2, <2>3 DEF Range
  <1>4. \A o \in Present(table) : o \notin gone => o \in Range(kept)
    BY <1>1, KeptOrEvicted
  <1> HIDE DEF kept, gone, e
  <1>5. \A o \in Ops : t[o] = IF o \in gone THEN Absent ELSE table[o]
    <2>1. Range(<<>>) = {}
      BY DEF Range
    <2> QED
      BY <2>1 DEF TableBatch
  <1> HIDE DEF t
  <1>6. \A i \in 1..Len(kept) :
           /\ i + e \in 1..Len(s) /\ kept[i] = s[i + e] /\ kept[i] \in Ops
           /\ kept[i] \notin gone /\ t[kept[i]] = table[kept[i]] /\ table[kept[i]] \in Nat
    <2>1. ASSUME NEW i \in 1..Len(kept) PROVE i + e \in 1..Len(s) /\ i + e > e
      BY <1>1, <1>2
    <2>2. ASSUME NEW i \in 1..Len(kept) PROVE kept[i] \notin gone
      <3>1. ASSUME kept[i] \in gone PROVE FALSE
        <4>1. PICK j \in 1..Len(s) : j <= e /\ s[j] = s[i + e]
          BY <1>2, <1>3, <3>1
        <4>2. j = i + e
          BY <1>1, <2>1, <4>1
        <4> QED
          BY <1>1, <1>2, <2>1, <4>1, <4>2
      <3> QED
        BY <3>1
    <2> QED
      BY <1>1, <1>2, <1>5, <2>1, <2>2
  <1>7. \A o \in Ops : t[o] # Absent => t[o] = table[o] /\ o \in Present(table) /\ o \in Range(kept)
    BY <1>4, <1>5 DEF Present
  <1>8. \A o \in Present(table) : table[o] < next
    <2>1. ASSUME NEW o \in Present(table) PROVE table[o] < next
      <3>1. PICK i \in 1..Len(s) : s[i] = o
        BY <1>1 DEF Range
      <3>2. s # <<>> /\ Len(s) \in 1..Len(s) /\ (i < Len(s) \/ i = Len(s))
        BY <1>1, <3>1
      <3>3. table[s[i]] <= table[s[Len(s)]] /\ table[s[Len(s)]] \in Nat /\ table[s[i]] \in Nat
        BY <1>1, <3>2
      <3> QED
        BY <3>1, <3>2, <3>3 DEF NextSequence
    <2> QED
      BY <2>1
  <1> HIDE DEF next
  <1>9. \A i, j \in 1..Len(kept) : i < j => t[kept[i]] < t[kept[j]]
    <2>1. ASSUME NEW i \in 1..Len(kept), NEW j \in 1..Len(kept), i < j
          PROVE  t[kept[i]] < t[kept[j]]
      <3>1. i + e < j + e
        BY <1>1, <1>2, <2>1
      <3> QED
        BY <1>1, <1>6, <3>1
    <2> QED
      BY <2>1
  <1>10. Mirrors(kept, t, next, limit)
    <2>1. \A i \in 1..Len(kept) : t[kept[i]] # Absent
      BY <1>6 DEF Absent
    <2>2. \A o \in Ops : t[o] # Absent => t[o] < next
      BY <1>7, <1>8
    <2>3. \A o, p \in Ops : t[o] # Absent /\ t[o] = t[p] => o = p
      BY <1>7 DEF Injective
    <2>4. \A o \in Ops : t[o] # Absent => o \in Range(kept)
      BY <1>7
    <2> QED
      BY <1>2, <1>9, <2>1, <2>2, <2>3, <2>4 DEF Mirrors
  <1> QED
    BY <1>10 DEF kept, t, gone, e, next

-----------------------------------------------------------------------------
(* The recovery invariant. *)

\* A store from which a restart reads the lists sl and ll.
Recovers(d, sl, ll, ns, nl) ==
    /\ Mirrors(sl, d.seen, ns, SeenLimit)
    /\ Mirrors(ll, d.log, nl, OpLogLimit)
    /\ ll = LastOf(sl, OpLogLimit)

\* The store gives back the lists in memory, and the disk, which may be older,
\* gives back lists that belong together as well.
RecoveryInv ==
    \A n \in Nodes :
        /\ store[n].state = state[n]
        /\ Recovers(store[n], seen[n], opLog[n], nextSeen[n], nextLog[n])
        /\ \E sl, ll \in Seq(Ops), ns, nl \in Nat : Recovers(disk[n], sl, ll, ns, nl)

\* The ids of a prefix, by position.
LEMMA FirstOfView ==
    ASSUME NEW S, NEW s \in Seq(S), NEW k \in Nat
    PROVE  /\ \A o \in Range(FirstOf(s, k)) : \E i \in 1..Len(s) : i <= k /\ s[i] = o
           /\ \A i \in 1..Len(s) : i <= k => s[i] \in Range(FirstOf(s, k))
  <1> DEFINE c == Smaller(k, Len(s))
             f == SubSeq(s, 1, c)
  <1>1. c \in Nat /\ c <= Len(s) /\ c <= k /\ Len(s) \in Nat
        /\ \A i \in 1..Len(s) : i <= k => i \in 1..c
    BY DEF Smaller
  <1> HIDE DEF c
  <1>2. /\ f \in Seq(S) /\ Len(f) = c
        /\ \A i \in 1..c : f[i] = s[i] /\ i \in 1..Len(s) /\ i <= k
    BY <1>1
  <1>3. DOMAIN f = 1..c /\ FirstOf(s, k) = f
    BY <1>2 DEF FirstOf, c
  <1> HIDE DEF f
  <1> QED
    BY <1>1, <1>2, <1>3 DEF Range

\* The new ids of a batch are listed once each.
LEMMA UnseenInjective ==
    ASSUME NEW ops \in Seq(Ops), NEW known, NEW s \in Unseen(ops, known)
    PROVE  \A i, j \in 1..Len(s) : s[i] = s[j] => i = j
  <1> DEFINE new == NewIds(ops, known)
             c   == Cardinality(new)
  <1>1. new \in SUBSET Ops
    BY RangeOfSeq DEF NewIds
  <1>2. s \in [1..c -> new] /\ Range(s) = new
    BY DEF Unseen
  <1>3. c \in Nat
    BY <1>1, OpsAssumption, FS_Subset, FS_CardinalityType
  <1> HIDE DEF c
  <1>4. s \in Seq(Ops) /\ Len(s) = c /\ DOMAIN s = 1..c
    BY <1>1, <1>2, <1>3
  <1>5. IsFiniteSet(1..c) /\ Cardinality(1..c) = c
    BY <1>3, IntervalSize
  <1>6. \A p \in new : \E i \in 1..c : s[i] = p
    BY <1>2, <1>4 DEF Range
  <1>7. s \in Surjection(1..c, new)
    BY <1>2, <1>6, Fun_IsSurj
  <1>8. s \in Injection(1..c, new)
    BY <1>5, <1>7, FS_SurjSameCardinalityImpliesInj DEF c
  <1> QED
    BY <1>4, <1>8 DEF Injection, IsInjective

\* Recording a batch keeps store and memory together.
LEMMA RecordRecovers ==
    ASSUME TypeOK, OpLogLimit <= SeenLimit, NEW n \in Nodes,
           Recovers(store[n], seen[n], opLog[n], nextSeen[n], nextLog[n]),
           NEW ops \in Seq(Ops), NEW ins \in Unseen(ops, Range(seen[n])), NEW d \in Store,
           d.seen = store[n].seen, d.log = store[n].log, Record(n, ins, d)
    PROVE  /\ Recovers(store'[n], seen'[n], opLog'[n], nextSeen'[n], nextLog'[n])
           /\ store'[n].state = state'[n]
           /\ disk'[n] \in {disk[n], store'[n]}
           /\ \A m \in Nodes \ {n} :
                 /\ store'[m] = store[m] /\ disk'[m] = disk[m] /\ state'[m] = state[m]
                 /\ seen'[m] = seen[m] /\ opLog'[m] = opLog[m]
                 /\ nextSeen'[m] = nextSeen[m] /\ nextLog'[m] = nextLog[m]
  <1> USE LimitsAssumption
  <1> DEFINE se == plan_seen_evictions(n, ins)
             le == plan_op_log_evictions(n, ins)
             ts == TableBatch(store[n].seen, ins, nextSeen[n], se)
             tl == TableBatch(store[n].log, ins, nextLog[n], le)
             w  == [d EXCEPT !.seen = ts, !.log = tl]
  <1>1. /\ store' = [store EXCEPT ![n] = w]
        /\ disk' = [disk EXCEPT ![n] = IF WriteBehind THEN disk[n] ELSE w]
        /\ state' = [state EXCEPT ![n] = d.state]
        /\ seen' = [seen EXCEPT ![n] = LastOf(seen[n] \o ins, SeenLimit)]
        /\ opLog' = [opLog EXCEPT ![n] = LastOf(opLog[n] \o ins, OpLogLimit)]
        /\ nextSeen' = [nextSeen EXCEPT ![n] = nextSeen[n] + Len(ins)]
        /\ nextLog' = [nextLog EXCEPT ![n] = nextLog[n] + Len(ins)]
    BY DEF Record, Durable, TypeOK
  <1>2. w.seen = ts /\ w.log = tl /\ w.state = d.state
    BY DEF Store
  <1> HIDE DEF w
  <1>3. /\ store'[n] = w /\ disk'[n] \in {disk[n], w} /\ state'[n] = d.state
        /\ seen'[n] = LastOf(seen[n] \o ins, SeenLimit)
        /\ opLog'[n] = LastOf(opLog[n] \o ins, OpLogLimit)
        /\ nextSeen'[n] = nextSeen[n] + Len(ins) /\ nextLog'[n] = nextLog[n] + Len(ins)
    BY <1>1 DEF TypeOK
  <1>4. \A m \in Nodes \ {n} :
           /\ store'[m] = store[m] /\ disk'[m] = disk[m] /\ state'[m] = state[m]
           /\ seen'[m] = seen[m] /\ opLog'[m] = opLog[m]
           /\ nextSeen'[m] = nextSeen[m] /\ nextLog'[m] = nextLog[m]
    BY <1>1 DEF TypeOK
  <1>5. /\ seen[n] \in Seq(Ops) /\ opLog[n] \in Seq(Ops) /\ nextSeen[n] \in Nat /\ nextLog[n] \in Nat
        /\ store[n].seen \in [Ops -> Nat \cup {Absent}]
        /\ store[n].log \in [Ops -> Nat \cup {Absent}]
    BY DEF TypeOK, Store
  <1>6. /\ ins \in Seq(Ops) /\ Range(ins) = Range(ops) \ Range(seen[n])
        /\ \A i, j \in 1..Len(ins) : ins[i] = ins[j] => i = j
    BY UnseenFacts, UnseenInjective
  <1>7. Range(opLog[n]) \subseteq Range(seen[n])
    BY <1>5, LastOfFacts DEF Recovers
  <1>8. ASSUME NEW list \in Seq(Ops), Range(list) \subseteq Range(seen[n])
        PROVE  \A i \in 1..Len(list), j \in 1..Len(ins) : list[i] # ins[j]
    <2>1. DOMAIN list = 1..Len(list) /\ DOMAIN ins = 1..Len(ins)
      BY <1>6
    <2>2. \A i \in 1..Len(list) : list[i] \in Range(seen[n])
      BY <1>8, <2>1 DEF Range
    <2>3. \A j \in 1..Len(ins) : ins[j] \in Range(ins)
      BY <2>1 DEF Range
    <2> QED
      BY <1>6, <2>2, <2>3
  <1>9. Mirrors(LastOf(seen[n] \o ins, SeenLimit), ts, nextSeen[n] + Len(ins), SeenLimit)
    <2> DEFINE all == seen[n] \o ins
               e   == Excess(Len(all), SeenLimit)
    <2>1. all \in Seq(Ops) /\ e \in Nat /\ \A i \in 1..Len(seen[n]) : i \in 1..Len(all) /\ all[i] = seen[n][i]
      <3>1. /\ all \in Seq(Ops) /\ Len(seen[n]) \in Nat /\ Len(ins) \in Nat
            /\ Len(all) = Len(seen[n]) + Len(ins)
            /\ \A i \in 1..Len(seen[n]) : all[i] = seen[n][i]
        BY <1>5, <1>6, ConcatView
      <3> QED
        BY <3>1 DEF Excess
    <2>2. /\ \A o \in se : \E i \in 1..Len(all) : i <= e /\ all[i] = o
          /\ \A i \in 1..Len(all) : i <= e => all[i] \in se
      <3>1. se = Range(FirstOf(all, e))
        BY DEF plan_seen_evictions
      <3> HIDE DEF all, e, se
      <3> QED
        BY <2>1, <3>1, FirstOfView
    <2>3. \A i \in 1..Len(seen[n]) : i <= e => seen[n][i] \in se
      <3> HIDE DEF all, e, se
      <3> QED
        BY <2>1, <2>2
    <2>4. Mirrors(seen[n], store[n].seen, nextSeen[n], SeenLimit)
      BY DEF Recovers
    <2>5. \A i \in 1..Len(seen[n]), j \in 1..Len(ins) : seen[n][i] # ins[j]
      BY <1>5, <1>8
    <2>6. \A o \in se : \E i \in 1..Len(all) : i <= e /\ all[i] = o
      BY <2>2
    <2> HIDE DEF all, e, se
    <2> QED
      BY <1>5, <1>6, <2>3, <2>4, <2>5, <2>6, MirrorsRecord DEF all, e
  <1>10. Mirrors(LastOf(opLog[n] \o ins, OpLogLimit), tl, nextLog[n] + Len(ins), OpLogLimit)
    <2> DEFINE all == opLog[n] \o ins
               e   == Excess(Len(all), OpLogLimit)
    <2>1. /\ all \in Seq(Ops) /\ e \in Nat /\ Len(all) = Len(opLog[n]) + Len(ins)
          /\ \A i \in 1..Len(opLog[n]) : i \in 1..Len(all) /\ all[i] = opLog[n][i]
      <3>1. /\ all \in Seq(Ops) /\ Len(opLog[n]) \in Nat /\ Len(ins) \in Nat
            /\ Len(all) = Len(opLog[n]) + Len(ins)
            /\ \A i \in 1..Len(opLog[n]) : all[i] = opLog[n][i]
        BY <1>5, <1>6, ConcatView
      <3> QED
        BY <3>1 DEF Excess
    <2>2. le = Range(FirstOf(opLog[n], e))
      BY <2>1 DEF plan_op_log_evictions
    <2> HIDE DEF all, e, le
    <2>3. /\ \A o \in le : \E i \in 1..Len(opLog[n]) : i <= e /\ opLog[n][i] = o
          /\ \A i \in 1..Len(opLog[n]) : i <= e => opLog[n][i] \in le
      BY <1>5, <2>1, <2>2, FirstOfView
    <2>4. \A o \in le : \E i \in 1..Len(all) : i <= e /\ all[i] = o
      BY <2>1, <2>3
    <2>5. Mirrors(opLog[n], store[n].log, nextLog[n], OpLogLimit)
      BY DEF Recovers
    <2>6. \A i \in 1..Len(opLog[n]), j \in 1..Len(ins) : opLog[n][i] # ins[j]
      BY <1>5, <1>7, <1>8
    <2> QED
      BY <1>5, <1>6, <2>3, <2>4, <2>5, <2>6, MirrorsRecord DEF all, e
  <1> HIDE DEF ts, tl
  <1>11. LastOf(opLog[n] \o ins, OpLogLimit) = LastOf(LastOf(seen[n] \o ins, SeenLimit), OpLogLimit)
    <2>1. LastOf(opLog[n] \o ins, OpLogLimit) = LastOf(seen[n] \o ins, OpLogLimit)
      BY <1>5, <1>6, LastOfGrown DEF Recovers
    <2>2. seen[n] \o ins \in Seq(Ops)
      BY <1>5, <1>6, ConcatView
    <2> QED
      BY <2>1, <2>2, LastOfLast
  <1>12. Recovers(store'[n], seen'[n], opLog'[n], nextSeen'[n], nextLog'[n])
    BY <1>2, <1>3, <1>9, <1>10, <1>11 DEF Recovers
  <1> QED
    BY <1>2, <1>3, <1>4, <1>12

\* A restart reads back, from whatever the disk holds, lists that mirror the
\* store it leaves, and the lists the disk recorded.
LEMMA CrashRecovers ==
    ASSUME TypeOK, NEW n \in Nodes, Crash(n),
           NEW sl \in Seq(Ops), NEW ll \in Seq(Ops), NEW ns \in Nat, NEW nl \in Nat,
           Recovers(disk[n], sl, ll, ns, nl)
    PROVE  /\ Recovers(store'[n], seen'[n], opLog'[n], nextSeen'[n], nextLog'[n])
           /\ store'[n].state = state'[n]
           /\ disk'[n] \in {disk[n], store'[n]}
           /\ \A m \in Nodes \ {n} :
                 /\ store'[m] = store[m] /\ disk'[m] = disk[m] /\ state'[m] = state[m]
                 /\ seen'[m] = seen[m] /\ opLog'[m] = opLog[m]
                 /\ nextSeen'[m] = nextSeen[m] /\ nextLog'[m] = nextLog[m]
  <1> USE LimitsAssumption
  <1>1. PICK s \in SortedBySequence(disk[n].seen), l \in SortedBySequence(disk[n].log) :
          LET seenEvicted == Range(FirstOf(s, Excess(Len(s), SeenLimit)))
              logEvicted  == Range(FirstOf(l, Excess(Len(l), OpLogLimit)))
              hydrated    == [disk[n] EXCEPT
                                !.seen = TableBatch(@, <<>>, 0, seenEvicted),
                                !.log  = TableBatch(@, <<>>, 0, logEvicted)]
          IN  /\ store' = [store EXCEPT ![n] = hydrated]
              /\ Durable(n, hydrated)
              /\ seen' = [seen EXCEPT ![n] = LastOf(s, SeenLimit)]
              /\ opLog' = [opLog EXCEPT ![n] = LastOf(l, OpLogLimit)]
              /\ nextSeen' = [nextSeen EXCEPT ![n] = NextSequence(s, disk[n].seen)]
              /\ nextLog' = [nextLog EXCEPT ![n] = NextSequence(l, disk[n].log)]
    BY DEF Crash
  <1> DEFINE se == Range(FirstOf(s, Excess(Len(s), SeenLimit)))
             le == Range(FirstOf(l, Excess(Len(l), OpLogLimit)))
             ts == TableBatch(disk[n].seen, <<>>, 0, se)
             tl == TableBatch(disk[n].log, <<>>, 0, le)
             h  == [disk[n] EXCEPT !.seen = ts, !.log = tl]
  <1>2. /\ store' = [store EXCEPT ![n] = h]
        /\ disk' = [disk EXCEPT ![n] = IF WriteBehind THEN disk[n] ELSE h]
        /\ state' = [state EXCEPT ![n] = disk[n].state]
        /\ seen' = [seen EXCEPT ![n] = LastOf(s, SeenLimit)]
        /\ opLog' = [opLog EXCEPT ![n] = LastOf(l, OpLogLimit)]
        /\ nextSeen' = [nextSeen EXCEPT ![n] = NextSequence(s, disk[n].seen)]
        /\ nextLog' = [nextLog EXCEPT ![n] = NextSequence(l, disk[n].log)]
    BY <1>1 DEF Crash, Durable, TypeOK
  <1>3. h.seen = ts /\ h.log = tl /\ h.state = disk[n].state
    BY DEF Store, TypeOK
  <1>4. /\ disk[n].seen \in [Ops -> Nat \cup {Absent}]
        /\ disk[n].log \in [Ops -> Nat \cup {Absent}]
        /\ Injective(disk[n].seen) /\ Injective(disk[n].log)
    BY DEF TypeOK, Store, Recovers, Mirrors, Injective
  <1>5. /\ Mirrors(LastOf(s, SeenLimit), ts, NextSequence(s, disk[n].seen), SeenLimit)
        /\ Mirrors(LastOf(l, OpLogLimit), tl, NextSequence(l, disk[n].log), OpLogLimit)
    BY <1>4, MirrorsRestart
  <1>6. LastOf(s, SeenLimit) = sl
    <2>1. PICK u \in SortedBySequence(disk[n].seen) : sl = LastOf(u, SeenLimit)
      BY <1>4, MirrorsRecovers DEF Recovers
    <2> QED
      BY <1>4, <2>1, SortedUnique
  <1>7. LastOf(l, OpLogLimit) = ll
    <2>1. PICK u \in SortedBySequence(disk[n].log) : ll = LastOf(u, OpLogLimit)
      BY <1>4, MirrorsRecovers DEF Recovers
    <2> QED
      BY <1>4, <2>1, SortedUnique
  <1> HIDE DEF ts, tl, h
  <1>8. /\ store'[n] = h /\ disk'[n] \in {disk[n], h} /\ state'[n] = disk[n].state
        /\ seen'[n] = LastOf(s, SeenLimit) /\ opLog'[n] = LastOf(l, OpLogLimit)
        /\ nextSeen'[n] = NextSequence(s, disk[n].seen)
        /\ nextLog'[n] = NextSequence(l, disk[n].log)
    BY <1>2 DEF TypeOK
  <1>9. \A m \in Nodes \ {n} :
           /\ store'[m] = store[m] /\ disk'[m] = disk[m] /\ state'[m] = state[m]
           /\ seen'[m] = seen[m] /\ opLog'[m] = opLog[m]
           /\ nextSeen'[m] = nextSeen[m] /\ nextLog'[m] = nextLog[m]
    BY <1>2 DEF TypeOK
  <1>10. Recovers(store'[n], seen'[n], opLog'[n], nextSeen'[n], nextLog'[n])
    BY <1>3, <1>5, <1>6, <1>7, <1>8 DEF Recovers
  <1> QED
    BY <1>3, <1>8, <1>9, <1>10

\* A step that leaves the lists, their numbers and the tables of n alone, and
\* may write the disk or the registries' state of the store.
LEMMA TablesAlone ==
    ASSUME TypeOK, RecoveryInv, NEW n \in Nodes,
           UNCHANGED <<seen, opLog, nextSeen, nextLog>>,
           \A m \in Nodes : /\ store'[m].seen = store[m].seen /\ store'[m].log = store[m].log
                            /\ store'[m].state = state'[m],
           \A m \in Nodes : disk'[m] \in {disk[m], store[m], store'[m]}
    PROVE  RecoveryInv'
  <1>1. ASSUME NEW m \in Nodes
        PROVE  /\ Recovers(store'[m], seen'[m], opLog'[m], nextSeen'[m], nextLog'[m])
               /\ \E sl, ll \in Seq(Ops), ns, nl \in Nat : Recovers(disk'[m], sl, ll, ns, nl)
    <2>1. /\ Recovers(store[m], seen[m], opLog[m], nextSeen[m], nextLog[m])
          /\ \E sl, ll \in Seq(Ops), ns, nl \in Nat : Recovers(disk[m], sl, ll, ns, nl)
          /\ seen[m] \in Seq(Ops) /\ opLog[m] \in Seq(Ops)
          /\ nextSeen[m] \in Nat /\ nextLog[m] \in Nat
      BY DEF RecoveryInv, TypeOK
    <2>2. Recovers(store'[m], seen[m], opLog[m], nextSeen[m], nextLog[m])
      BY <2>1 DEF Recovers
    <2>3. \E sl, ll \in Seq(Ops), ns, nl \in Nat : Recovers(disk'[m], sl, ll, ns, nl)
      BY <2>1, <2>2
    <2> QED
      BY <2>2, <2>3
  <1> QED
    BY <1>1 DEF RecoveryInv

\* A step that rewrites one node's lists and tables together.
LEMMA TablesTogether ==
    ASSUME TypeOK', RecoveryInv, NEW n \in Nodes,
           Recovers(store'[n], seen'[n], opLog'[n], nextSeen'[n], nextLog'[n]),
           store'[n].state = state'[n], disk'[n] \in {disk[n], store'[n]},
           \A m \in Nodes \ {n} :
              /\ store'[m] = store[m] /\ disk'[m] = disk[m] /\ state'[m] = state[m]
              /\ seen'[m] = seen[m] /\ opLog'[m] = opLog[m]
              /\ nextSeen'[m] = nextSeen[m] /\ nextLog'[m] = nextLog[m]
    PROVE  RecoveryInv'
  <1>1. \E sl, ll \in Seq(Ops), ns, nl \in Nat : Recovers(disk'[n], sl, ll, ns, nl)
    <2>1. /\ \E sl, ll \in Seq(Ops), ns, nl \in Nat : Recovers(disk[n], sl, ll, ns, nl)
          /\ seen'[n] \in Seq(Ops) /\ opLog'[n] \in Seq(Ops)
          /\ nextSeen'[n] \in Nat /\ nextLog'[n] \in Nat
      BY DEF RecoveryInv, TypeOK
    <2> QED
      BY <2>1
  <1>2. ASSUME NEW m \in Nodes, m # n
        PROVE  /\ store'[m].state = state'[m]
               /\ Recovers(store'[m], seen'[m], opLog'[m], nextSeen'[m], nextLog'[m])
               /\ \E sl, ll \in Seq(Ops), ns, nl \in Nat : Recovers(disk'[m], sl, ll, ns, nl)
    BY <1>2 DEF RecoveryInv
  <1> QED
    BY <1>1, <1>2 DEF RecoveryInv

\* Every step keeps what a restart recovers.
LEMMA RecoveryStep ==
    ASSUME TypeOK, TypeOK', RecoveryInv, OpLogLimit <= SeenLimit, [Next]_vars
    PROVE  RecoveryInv'
  <1>1. ASSUME UNCHANGED <<state, seen, opLog, nextSeen, nextLog, store>>,
               \A m \in Nodes : disk'[m] \in {disk[m], store[m]}
        PROVE  RecoveryInv'
    <2>1. ASSUME NEW n \in Nodes PROVE RecoveryInv'
      BY <1>1, TablesAlone DEF RecoveryInv
    <2> QED
      BY <2>1 DEF RecoveryInv
  <1>2. ASSUME NEW n \in Nodes, NodeStep(n)
        PROVE  RecoveryInv'
    <2>1. ASSUME NEW o \in Ops, HostCall(n, o) PROVE RecoveryInv'
      <3> DEFINE applied == [state[n] EXCEPT ![o] = @ + 1]
                 written == [store[n] EXCEPT !.state = applied]
      <3>1. /\ state' = [state EXCEPT ![n] = applied]
            /\ store' = [store EXCEPT ![n] = written]
            /\ disk' = [disk EXCEPT ![n] = IF WriteBehind THEN disk[n] ELSE written]
            /\ UNCHANGED <<seen, opLog, nextSeen, nextLog>>
        BY <2>1 DEF HostCall, Durable, TypeOK
      <3>2. written.seen = store[n].seen /\ written.log = store[n].log /\ written.state = applied
        BY DEF TypeOK, Store
      <3> HIDE DEF applied, written
      <3>3. \A m \in Nodes : /\ store'[m].seen = store[m].seen /\ store'[m].log = store[m].log
                            /\ store'[m].state = state'[m]
        BY <3>1, <3>2 DEF TypeOK, RecoveryInv
      <3>4. \A m \in Nodes : disk'[m] \in {disk[m], store[m], store'[m]}
        BY <3>1 DEF TypeOK
      <3> QED
        BY <3>1, <3>3, <3>4, TablesAlone
    <2>2. CASE RememberOps(n)
      <3> DEFINE ops == batch[n] \o FirstOf(queue[n], Coalesced(n))
      <3>1. PICK ins \in Unseen(ops, Range(seen[n])) : Record(n, ins, store[n])
        BY <2>2 DEF RememberOps
      <3>2. ops \in Seq(Ops)
        <4>1. batch[n] \in Seq(Ops) /\ queue[n] \in Seq(Ops) /\ Coalesced(n) \in Nat
          BY LimitsAssumption DEF TypeOK, Coalesced, Smaller
        <4>2. FirstOf(queue[n], Coalesced(n)) \in Seq(Ops)
          BY <4>1, FirstOfFacts
        <4> QED
          BY <4>1, <4>2, ConcatView
      <3>3. /\ store[n] \in Store
            /\ Recovers(store[n], seen[n], opLog[n], nextSeen[n], nextLog[n])
        BY DEF TypeOK, RecoveryInv
      <3> HIDE DEF ops
      <3> QED
        BY <3>1, <3>2, <3>3, RecordRecovers, TablesTogether
    <2>3. CASE Crash(n)
      <3>1. PICK sl, ll \in Seq(Ops), ns, nl \in Nat : Recovers(disk[n], sl, ll, ns, nl)
        BY DEF RecoveryInv
      <3> QED
        BY <2>3, <3>1, CrashRecovers, TablesTogether
    <2>4. CASE Flush(n)
      <3>1. UNCHANGED <<state, seen, opLog, nextSeen, nextLog, store>>
        BY <2>4 DEF Flush, nodeVars
      <3>2. \A m \in Nodes : disk'[m] \in {disk[m], store[m]}
        BY <2>4 DEF Flush, TypeOK
      <3> QED
        BY <1>1, <3>1, <3>2
    <2>5. CASE \/ \E o \in Ops : HostSend(n, o)
               \/ RecvFirst(n) \/ RememberOpsFails(n) \/ BroadcastOps(n)
      <3>1. UNCHANGED <<state, seen, opLog, nextSeen, nextLog, store, disk>>
        BY <2>5 DEF HostSend, RecvFirst, RememberOpsFails, BroadcastOps
      <3> QED
        BY <1>1, <3>1
    <2> QED
      BY <1>2, <2>1, <2>2, <2>3, <2>4, <2>5 DEF NodeStep
  <1>3. ASSUME NEW n \in Nodes, NEW m \in Nodes, LinkStep(n, m)
        PROVE  RecoveryInv'
    <2>1. CASE ApplyRemoteOps(n, m)
      <3> DEFINE ops     == Head(chan[m][n]).ops
                 applied == [o \in Ops |-> IF o \in NewIds(ops, Range(seen[n]))
                                           THEN state[n][o] + 1 ELSE state[n][o]]
                 d       == [store[n] EXCEPT !.state = applied]
      <3>1. PICK ins \in Unseen(ops, Range(seen[n])) : Record(n, ins, d)
        BY <2>1 DEF ApplyRemoteOps
      <3>2. ops \in Seq(Ops)
        <4>1. chan[m][n] \in Seq(Message) /\ chan[m][n] # <<>>
          BY <2>1 DEF TypeOK, ApplyRemoteOps, Arrived
        <4>2. Head(chan[m][n]) \in Message
          BY <4>1
        <4> QED
          BY <4>2 DEF Message
      <3>3. /\ store[n] \in Store /\ state[n] \in [Ops -> Nat]
            /\ Recovers(store[n], seen[n], opLog[n], nextSeen[n], nextLog[n])
        BY DEF TypeOK, RecoveryInv
      <3> HIDE DEF ops
      <3>4. applied \in [Ops -> Nat]
        BY <3>3
      <3> HIDE DEF applied
      <3>5. d \in Store /\ d.seen = store[n].seen /\ d.log = store[n].log
        BY <3>3, <3>4 DEF Store
      <3> HIDE DEF d
      <3> QED
        BY <3>1, <3>2, <3>3, <3>5, RecordRecovers, TablesTogether
    <2>2. CASE \/ AntiEntropyPull(n, m) \/ AnswerPull(n, m) \/ AnswerTimesOut(n, m)
               \/ ApplyRemoteOpsFails(n, m) \/ Disconnect(n, m)
      <3>1. UNCHANGED <<state, seen, opLog, nextSeen, nextLog, store, disk>>
        BY <2>2 DEF AntiEntropyPull, AnswerPull, AnswerTimesOut, ApplyRemoteOpsFails,
                    Disconnect, nodeVars
      <3> QED
        BY <1>1, <3>1
    <2> QED
      BY <1>3, <2>1, <2>2 DEF LinkStep
  <1>4. CASE UNCHANGED vars
    BY <1>1, <1>4 DEF vars, nodeVars
  <1> QED
    BY <1>2, <1>3, <1>4 DEF Next

\* A fresh node has empty lists and tables.
LEMMA RecoveryInit == Init => RecoveryInv
  <1> SUFFICES ASSUME Init, NEW n \in Nodes
               PROVE  /\ store[n].state = state[n]
                      /\ Recovers(store[n], seen[n], opLog[n], nextSeen[n], nextLog[n])
                      /\ \E sl, ll \in Seq(Ops), ns, nl \in Nat : Recovers(disk[n], sl, ll, ns, nl)
    BY DEF RecoveryInv
  <1> USE LimitsAssumption
  <1>1. /\ store[n] = EmptyStore /\ disk[n] = EmptyStore /\ seen[n] = <<>> /\ opLog[n] = <<>>
        /\ nextSeen[n] = 0 /\ nextLog[n] = 0 /\ state[n] = [o \in Ops |-> 0]
    BY DEF Init
  <1>2. LastOf(<<>>, OpLogLimit) = <<>>
    BY DEF LastOf, Excess
  <1>3. ASSUME NEW table, \A o \in Ops : table[o] = Absent, NEW limit \in Nat
        PROVE  Mirrors(<<>>, table, 0, limit)
    <2>1. Len(<<>>) = 0
      OBVIOUS
    <2> QED
      BY <1>3, <2>1 DEF Mirrors
  <1>4. Recovers(EmptyStore, <<>>, <<>>, 0, 0)
    BY <1>2, <1>3 DEF Recovers, EmptyStore
  <1>5. <<>> \in Seq(Ops) /\ 0 \in Nat
    OBVIOUS
  <1>6. \E sl, ll \in Seq(Ops), ns, nl \in Nat : Recovers(EmptyStore, sl, ll, ns, nl)
    BY <1>4, <1>5
  <1>7. store[n].state = state[n]
    BY <1>1 DEF EmptyStore
  <1> QED
    BY <1>1, <1>4, <1>6, <1>7

\* At every moment a restart would give back the seen list, the log and the
\* registries' state that memory holds, for every number of nodes and
\* operations and whether or not sled holds back writes, when the seen limit is
\* no smaller than the log limit.
THEOREM RestartGivesBackMemory ==
    ASSUME OpLogLimit <= SeenLimit
    PROVE  Spec => []RestartRecoversMemory
  <1> USE LimitsAssumption
  <1>1. TypeOK /\ RecoveryInv => RestartRecoversMemory
    <2> SUFFICES ASSUME TypeOK, RecoveryInv, NEW n \in Nodes
                 PROVE  /\ state[n] = store[n].state
                        /\ \E s \in SortedBySequence(store[n].seen) : seen[n] = LastOf(s, SeenLimit)
                        /\ \E l \in SortedBySequence(store[n].log) : opLog[n] = LastOf(l, OpLogLimit)
      BY DEF RestartRecoversMemory
    <2>1. /\ seen[n] \in Seq(Ops) /\ opLog[n] \in Seq(Ops)
          /\ store[n].seen \in [Ops -> Nat \cup {Absent}]
          /\ store[n].log \in [Ops -> Nat \cup {Absent}]
      BY DEF TypeOK, Store
    <2>2. /\ state[n] = store[n].state
          /\ Mirrors(seen[n], store[n].seen, nextSeen[n], SeenLimit)
          /\ Mirrors(opLog[n], store[n].log, nextLog[n], OpLogLimit)
      BY DEF RecoveryInv, Recovers
    <2> QED
      BY <2>1, <2>2, MirrorsRecovers
  <1> QED
    BY <1>1, RecoveryInit, RecoveryStep, TypeCorrect, PTL DEF Spec

\* The log is the most recent part of the seen list, across batches larger
\* than either limit and across restarts from an older disk: a node never
\* offers an operation that it would itself take for new.
THEOREM LogStaysInSeen ==
    ASSUME OpLogLimit <= SeenLimit
    PROVE  Spec => []LogIsRecentPartOfSeen
  <1>1. RecoveryInv => LogIsRecentPartOfSeen
    BY DEF RecoveryInv, Recovers, LogIsRecentPartOfSeen
  <1> QED
    BY <1>1, RecoveryInit, RecoveryStep, TypeCorrect, PTL DEF Spec

-----------------------------------------------------------------------------
(* A seen list with room for every id. *)

NothingForgotten == \A n \in Nodes : forgotten[n] = {}

\* A list without repeats is no longer than the set of its elements.
LEMMA InjectiveIsShort ==
    ASSUME NEW s \in Seq(Ops), \A i, j \in 1..Len(s) : s[i] = s[j] => i = j
    PROVE  Len(s) <= Cardinality(Ops)
  <1>1. Len(s) \in Nat /\ s \in [1..Len(s) -> Ops]
    OBVIOUS
  <1>2. IsFiniteSet(1..Len(s)) /\ Cardinality(1..Len(s)) = Len(s)
    BY <1>1, IntervalSize
  <1>3. s \in Injection(1..Len(s), Ops)
    BY <1>1, Fun_IsInj
  <1> QED
    BY <1>2, <1>3, OpsAssumption, FS_Injection

\* Nothing is evicted from a list that is within its limit.
LEMMA NoneEvicted ==
    ASSUME NEW s \in Seq(Ops), NEW limit \in Nat, Len(s) <= limit
    PROVE  Range(FirstOf(s, Excess(Len(s), limit))) = {}
  <1>1. Excess(Len(s), limit) = 0 /\ 0 \in Nat
    BY DEF Excess
  <1>2. \A o \in Range(FirstOf(s, 0)) : \E i \in 1..Len(s) : i <= 0 /\ s[i] = o
    BY <1>1, FirstOfView
  <1> QED
    BY <1>1, <1>2

\* Recording a batch evicts nothing.
LEMMA RecordKeepsAll ==
    ASSUME TypeOK, RecoveryInv, Cardinality(Ops) <= SeenLimit, NEW n \in Nodes,
           NEW ops \in Seq(Ops), NEW ins \in Unseen(ops, Range(seen[n])), NEW d,
           Record(n, ins, d)
    PROVE  forgotten' = forgotten
  <1> USE LimitsAssumption
  <1> DEFINE all == seen[n] \o ins
             a   == Len(seen[n])
  <1>1. /\ seen[n] \in Seq(Ops) /\ nextSeen[n] \in Nat
        /\ store[n].seen \in [Ops -> Nat \cup {Absent}]
        /\ Mirrors(seen[n], store[n].seen, nextSeen[n], SeenLimit)
    BY DEF TypeOK, Store, RecoveryInv, Recovers
  <1>2. /\ ins \in Seq(Ops) /\ Range(ins) = Range(ops) \ Range(seen[n])
        /\ \A i, j \in 1..Len(ins) : ins[i] = ins[j] => i = j
    BY UnseenFacts, UnseenInjective
  <1>3. \A i, j \in 1..a : seen[n][i] = seen[n][j] => i = j
    BY <1>1, MirrorsInjective
  <1>4. /\ all \in Seq(Ops) /\ a \in Nat /\ Len(ins) \in Nat /\ Len(all) = a + Len(ins)
        /\ \A i \in 1..a : all[i] = seen[n][i]
        /\ \A i \in 1..Len(ins) : all[a + i] = ins[i]
    BY <1>1, <1>2, ConcatView
  <1>5. /\ \A i \in 1..a : seen[n][i] \in Range(seen[n])
        /\ \A i \in 1..Len(ins) : ins[i] \notin Range(seen[n])
    <2>1. DOMAIN seen[n] = 1..a /\ DOMAIN ins = 1..Len(ins)
      BY <1>1, <1>2
    <2>2. \A i \in 1..Len(ins) : ins[i] \in Range(ins)
      BY <2>1 DEF Range
    <2> QED
      BY <1>2, <2>1, <2>2 DEF Range
  <1> HIDE DEF all, a
  <1>6. ASSUME NEW i \in 1..Len(all), NEW j \in 1..Len(all), all[i] = all[j]
        PROVE  i = j
    <2>1. ASSUME NEW k \in 1..Len(all)
          PROVE  \/ k \in 1..a /\ all[k] = seen[n][k]
                 \/ k - a \in 1..Len(ins) /\ all[k] = ins[k - a] /\ ~(k \in 1..a)
      <3>1. CASE k <= a
        BY <1>4, <3>1
      <3>2. CASE ~(k <= a)
        <4>1. k - a \in 1..Len(ins) /\ a + (k - a) = k
          BY <1>4, <3>2
        <4> QED
          BY <1>4, <3>2, <4>1
      <3> QED
        BY <3>1, <3>2
    <2>2. CASE i \in 1..a /\ all[i] = seen[n][i]
      <3>1. j \in 1..a /\ all[j] = seen[n][j]
        BY <1>5, <1>6, <2>1, <2>2
      <3> QED
        BY <1>3, <1>6, <2>2, <3>1
    <2>3. CASE i - a \in 1..Len(ins) /\ all[i] = ins[i - a] /\ ~(i \in 1..a)
      <3>1. j - a \in 1..Len(ins) /\ all[j] = ins[j - a]
        BY <1>5, <1>6, <2>1, <2>3
      <3>2. i - a = j - a
        BY <1>2, <1>6, <2>3, <3>1
      <3> QED
        BY <1>4, <3>2
    <2> QED
      BY <2>1, <2>2, <2>3
  <1>7. Len(all) <= SeenLimit
    <2>1. Len(all) <= Cardinality(Ops)
      BY <1>4, <1>6, InjectiveIsShort
    <2>2. Len(all) \in Nat /\ Cardinality(Ops) \in Nat
      BY <1>4, OpsAssumption, FS_CardinalityType
    <2> QED
      BY <2>1, <2>2
  <1>8. plan_seen_evictions(n, ins) = {}
    BY <1>4, <1>7, NoneEvicted DEF plan_seen_evictions, all
  <1>9. forgotten' = [forgotten EXCEPT ![n] = forgotten[n] \cup {}]
    BY <1>8 DEF Record, TypeOK
  <1> QED
    BY <1>9 DEF TypeOK

\* A restart prunes nothing.
LEMMA CrashKeepsAll ==
    ASSUME TypeOK, Cardinality(Ops) <= SeenLimit, NEW n \in Nodes, Crash(n)
    PROVE  forgotten' = forgotten
  <1> USE LimitsAssumption
  <1>1. PICK s \in SortedBySequence(disk[n].seen) :
           forgotten' = [forgotten EXCEPT
                           ![n] = @ \cup Range(FirstOf(s, Excess(Len(s), SeenLimit)))]
    BY DEF Crash
  <1>2. disk[n].seen \in [Ops -> Nat \cup {Absent}]
    BY DEF TypeOK, Store
  <1>3. s \in Seq(Ops) /\ \A i, j \in 1..Len(s) : s[i] = s[j] => i = j
    BY <1>2, SortedView
  <1>4. Len(s) <= SeenLimit
    <2>1. Len(s) <= Cardinality(Ops)
      BY <1>3, InjectiveIsShort
    <2>2. Len(s) \in Nat /\ Cardinality(Ops) \in Nat
      BY <1>3, OpsAssumption, FS_CardinalityType
    <2> QED
      BY <2>1, <2>2
  <1>5. Range(FirstOf(s, Excess(Len(s), SeenLimit))) = {}
    BY <1>3, <1>4, NoneEvicted
  <1> QED
    BY <1>1, <1>5 DEF TypeOK

\* No step forgets an id.
LEMMA NothingForgottenStep ==
    ASSUME TypeOK, RecoveryInv, NothingForgotten, Cardinality(Ops) <= SeenLimit, [Next]_vars
    PROVE  NothingForgotten'
  <1>1. ASSUME forgotten' = forgotten PROVE NothingForgotten'
    BY <1>1 DEF NothingForgotten
  <1>2. ASSUME NEW n \in Nodes, NodeStep(n) PROVE forgotten' = forgotten
    <2>1. CASE RememberOps(n)
      <3> DEFINE ops == batch[n] \o FirstOf(queue[n], Coalesced(n))
      <3>1. PICK ins \in Unseen(ops, Range(seen[n])) : Record(n, ins, store[n])
        BY <2>1 DEF RememberOps
      <3>2. ops \in Seq(Ops)
        <4>1. batch[n] \in Seq(Ops) /\ queue[n] \in Seq(Ops) /\ Coalesced(n) \in Nat
          BY LimitsAssumption DEF TypeOK, Coalesced, Smaller
        <4>2. FirstOf(queue[n], Coalesced(n)) \in Seq(Ops)
          BY <4>1, FirstOfFacts
        <4> QED
          BY <4>1, <4>2, ConcatView
      <3> HIDE DEF ops
      <3> QED
        BY <3>1, <3>2, RecordKeepsAll
    <2>2. CASE Crash(n)
      BY <2>2, CrashKeepsAll
    <2>3. CASE \/ \E o \in Ops : HostCall(n, o) \/ HostSend(n, o)
               \/ RecvFirst(n) \/ RememberOpsFails(n) \/ BroadcastOps(n) \/ Flush(n)
      BY <2>3 DEF HostCall, HostSend, RecvFirst, RememberOpsFails, BroadcastOps, Flush
    <2> QED
      BY <1>2, <2>1, <2>2, <2>3 DEF NodeStep
  <1>3. ASSUME NEW n \in Nodes, NEW m \in Nodes, LinkStep(n, m) PROVE forgotten' = forgotten
    <2>1. CASE ApplyRemoteOps(n, m)
      <3> DEFINE ops == Head(chan[m][n]).ops
      <3>1. \E d : \E ins \in Unseen(ops, Range(seen[n])) : Record(n, ins, d)
        BY <2>1 DEF ApplyRemoteOps
      <3>2. ops \in Seq(Ops)
        <4>1. chan[m][n] \in Seq(Message) /\ chan[m][n] # <<>>
          BY <2>1 DEF TypeOK, ApplyRemoteOps, Arrived
        <4>2. Head(chan[m][n]) \in Message
          BY <4>1
        <4> QED
          BY <4>2 DEF Message
      <3> HIDE DEF ops
      <3> QED
        BY <3>1, <3>2, RecordKeepsAll
    <2>2. CASE \/ AntiEntropyPull(n, m) \/ AnswerPull(n, m) \/ AnswerTimesOut(n, m)
               \/ ApplyRemoteOpsFails(n, m) \/ Disconnect(n, m)
      BY <2>2 DEF AntiEntropyPull, AnswerPull, AnswerTimesOut, ApplyRemoteOpsFails, Disconnect
    <2> QED
      BY <1>3, <2>1, <2>2 DEF LinkStep
  <1>4. CASE UNCHANGED vars
    BY <1>1, <1>4 DEF vars
  <1> QED
    BY <1>1, <1>2, <1>3, <1>4 DEF Next

\* With a seen list that has room for every id, and no write lost in a crash,
\* no node ever applies an operation twice: retries, duplicates, the echo of its
\* own operations and restarts included.
THEOREM AtMostOnceWithRoom ==
    ASSUME ~WriteBehind, OpLogLimit <= SeenLimit, Cardinality(Ops) <= SeenLimit
    PROVE  Spec => []AppliedAtMostOnce
  <1>1. Init => NothingForgotten
    BY DEF Init, NothingForgotten
  <1>2. TypeOK /\ ReappliedOnlyIfForgotten /\ NothingForgotten => AppliedAtMostOnce
    <2> SUFFICES ASSUME TypeOK, ReappliedOnlyIfForgotten, NothingForgotten,
                        NEW n \in Nodes, NEW o \in Ops
                 PROVE  state[n][o] <= 1
      BY DEF AppliedAtMostOnce
    <2>1. state[n][o] \in Nat /\ ~(state[n][o] > 1)
      BY DEF TypeOK, ReappliedOnlyIfForgotten, NothingForgotten
    <2> QED
      BY <2>1
  <1> QED
    BY <1>1, <1>2, RecoveryInit, RecoveryStep, NothingForgottenStep, TypeCorrect,
       AtMostOnceUnlessForgotten, PTL DEF Spec
=============================================================================
