---------------------------- MODULE Replication ----------------------------
(***************************************************************************)
(* How CRDT operations travel between numax nodes: host calls, the         *)
(* broadcast loop, anti-entropy, remote apply, and restart.                *)
(*                                                                         *)
(* Every node keeps, in memory, the CRDT registries, the bounded list of   *)
(* operation ids it has seen (SeenOps) and the bounded operation log, and  *)
(* in its sled store a durable copy of the three.  An operation is an      *)
(* element of Ops (its UUID); what it does to a CRDT is abstracted to how  *)
(* many times it has been applied, because that is what a non-idempotent   *)
(* delta (a counter increment) is sensitive to.                            *)
(***************************************************************************)
EXTENDS Integers, Sequences, FiniteSets, Functions

CONSTANTS
    Nodes,        \* the replicas
    Ops,          \* the operation ids that host calls may create
    SeenLimit,    \* SyncConfig.seen_ops_limit, normalised to at least 1
    OpLogLimit,   \* SyncConfig.op_log_limit, normalised to at least 1
    QueueCap,     \* capacity of the broadcast queue (op_tx / op_rx)
    BatchMax,     \* BROADCAST_BATCH_MAX
    ChanCap,      \* bound: messages in flight on one direction of a connection
    MaxApplied,   \* bound: an operation already applied this often is not applied again
    MaxFaults,    \* bound: crashes, lost connections and failed writes in one behaviour
    WriteBehind   \* TRUE: a crash may lose writes that sled has not flushed yet

ASSUME LimitsAssumption ==
    /\ SeenLimit \in Nat \ {0}
    /\ OpLogLimit \in Nat \ {0}
    /\ QueueCap \in Nat \ {0}
    /\ BatchMax \in Nat \ {0}
    /\ ChanCap \in Nat \ {0}
    /\ MaxApplied \in Nat \ {0}
    /\ MaxFaults \in Nat
    /\ WriteBehind \in BOOLEAN

ASSUME OpsAssumption == IsFiniteSet(Ops)

VARIABLES
    issued,     \* the ids already drawn: a UUID is never drawn twice
    calls,      \* per node, operations persisted by a host call that still holds its queue permit
    queue,      \* per node, the broadcast queue
    phase,      \* per node, where the broadcast loop is
    batch,      \* per node, the operations the broadcast loop holds
    state,      \* per node, how often each operation is applied in the registries
    seen,       \* per node, SeenOps.order
    opLog,      \* per node, the in-memory operation log
    nextSeen,   \* per node, seen_ops_next_sequence
    nextLog,    \* per node, op_log_next_sequence
    store,      \* per node, the contents of its sled store as the process reads them
    disk,       \* per node, the contents that survive a crash
    chan,       \* chan[n][m]: what n has sent to m and m has not handled yet
    forgotten,  \* history: per node, the ids that left its seen list by eviction
    faults      \* faults so far

nodeVars == <<calls, queue, phase, batch, state, seen, opLog, nextSeen, nextLog>>
vars == <<issued, nodeVars, store, disk, chan, forgotten, faults>>

-----------------------------------------------------------------------------
(* The store: CRDT state, and under each operation id the sequence number of
   its seen entry and of its log entry. *)

Absent == -1

Store == [state : [Ops -> Nat],
          seen  : [Ops -> Nat \cup {Absent}],
          log   : [Ops -> Nat \cup {Absent}]]

EmptyStore == [state |-> [o \in Ops |-> 0],
               seen  |-> [o \in Ops |-> Absent],
               log   |-> [o \in Ops |-> Absent]]

Message == [kind : {"PushOps", "PullSince"}, ops : Seq(Ops)]

PushOps(s) == [kind |-> "PushOps", ops |-> s]

PullSince == [kind |-> "PullSince", ops |-> <<>>]

Excess(len, limit) == IF len > limit THEN len - limit ELSE 0

Smaller(a, b) == IF a < b THEN a ELSE b

LastOf(s, limit) == SubSeq(s, Excess(Len(s), limit) + 1, Len(s))

FirstOf(s, k) == SubSeq(s, 1, Smaller(k, Len(s)))

IndexIn(s, o) == CHOOSE i \in DOMAIN s : s[i] = o

FirstIndex(s, o) == CHOOSE i \in DOMAIN s : s[i] = o /\ \A j \in 1..(i - 1) : s[j] # o

\* Faulty variant: no duplicate check.
NewIds_without_check(ops, known) == Range(ops)

\* The ids of a batch that are not seen yet.
NewIds(ops, known) == Range(ops) \ known

\* The new operations of a batch, each at its first occurrence, in batch
\* order.  The set has exactly one element.
Unseen(ops, known) ==
    LET new == NewIds(ops, known)
    IN  {s \in [1..Cardinality(new) -> new] :
            /\ Range(s) = new
            /\ \A i, j \in DOMAIN s : i < j => FirstIndex(ops, s[i]) < FirstIndex(ops, s[j])}

\* A table of sequence numbers read back in sequence order.  One element.
SortedBySequence(table) ==
    LET ids == {o \in Ops : table[o] # Absent}
    IN  {s \in [1..Cardinality(ids) -> ids] :
            /\ Range(s) = ids
            /\ \A i, j \in DOMAIN s : i < j => table[s[i]] < table[s[j]]}

\* Faulty variants: an empty table does not start at 0; a used number is used again.
NextSequence_negative(s, table) == IF s = <<>> THEN Absent ELSE table[s[Len(s)]] + 1

\* Faulty variant: the largest number is given out again.
NextSequence_reused(s, table) == IF s = <<>> THEN 0 ELSE table[s[Len(s)]]

\* Hydration goes on numbering after the largest number it read.
NextSequence(s, table) == IF s = <<>> THEN 0 ELSE table[s[Len(s)]] + 1

\* One atomic batch on a table: the inserted ids get consecutive sequence
\* numbers, then the evicted ids are deleted.
TableBatch(table, ins, next, evicted) ==
    [o \in Ops |-> IF o \in evicted THEN Absent
                   ELSE IF o \in Range(ins) THEN next + IndexIn(ins, o) - 1
                   ELSE table[o]]

plan_seen_evictions(n, ins) ==
    LET all == seen[n] \o ins
    IN  Range(FirstOf(all, Excess(Len(all), SeenLimit)))

\* Faulty variant: one log entry too many is deleted from the durable table.
plan_op_log_evictions_one_more(n, ins) ==
    LET all == opLog[n] \o ins
    IN  Range(FirstOf(all, Excess(Len(all) + 1, OpLogLimit)))

plan_op_log_evictions(n, ins) ==
    Range(FirstOf(opLog[n], Excess(Len(opLog[n]) + Len(ins), OpLogLimit)))

\* What survives a crash once the store holds d: everything, unless sled
\* may still be holding the write in its buffers.
Durable(n, d) == disk' = [disk EXCEPT ![n] = IF WriteBehind THEN @ ELSE d]

\* The common end of remember_ops and apply_remote_ops: the ids ins, none of
\* them seen, are written to the store together with the CRDT state d.state,
\* and then published in memory.
Record(n, ins, d) ==
    LET seenEvicted == plan_seen_evictions(n, ins)
        logEvicted  == plan_op_log_evictions(n, ins)
        written     == [d EXCEPT
                          !.seen = TableBatch(@, ins, nextSeen[n], seenEvicted),
                          !.log  = TableBatch(@, ins, nextLog[n], logEvicted)]
    IN  /\ store' = [store EXCEPT ![n] = written]
        /\ Durable(n, written)
        /\ state' = [state EXCEPT ![n] = d.state]
        /\ seen' = [seen EXCEPT ![n] = LastOf(@ \o ins, SeenLimit)]
        /\ opLog' = [opLog EXCEPT ![n] = LastOf(@ \o ins, OpLogLimit)]
        /\ nextSeen' = [nextSeen EXCEPT ![n] = @ + Len(ins)]
        /\ nextLog' = [nextLog EXCEPT ![n] = @ + Len(ins)]
        /\ forgotten' = [forgotten EXCEPT ![n] = @ \cup seenEvicted]

Fault == /\ faults < MaxFaults
         /\ faults' = faults + 1

-----------------------------------------------------------------------------
Init ==
    /\ issued = {}
    /\ calls = [n \in Nodes |-> {}]
    /\ queue = [n \in Nodes |-> <<>>]
    /\ phase = [n \in Nodes |-> "idle"]
    /\ batch = [n \in Nodes |-> <<>>]
    /\ state = [n \in Nodes |-> [o \in Ops |-> 0]]
    /\ seen = [n \in Nodes |-> <<>>]
    /\ opLog = [n \in Nodes |-> <<>>]
    /\ nextSeen = [n \in Nodes |-> 0]
    /\ nextLog = [n \in Nodes |-> 0]
    /\ store = [n \in Nodes |-> EmptyStore]
    /\ disk = [n \in Nodes |-> EmptyStore]
    /\ chan = [n \in Nodes |-> [m \in Nodes |-> <<>>]]
    /\ forgotten = [n \in Nodes |-> {}]
    /\ faults = 0

\* Faulty variant: the new state is published and not persisted.
HostCall_without_persist(n, o) ==
    /\ o \in Ops \ issued
    /\ Cardinality(calls[n]) + Len(queue[n]) < QueueCap
    /\ state' = [state EXCEPT ![n][o] = @ + 1]
    /\ issued' = issued \cup {o}
    /\ calls' = [calls EXCEPT ![n] = @ \cup {o}]
    /\ UNCHANGED <<queue, phase, batch, seen, opLog, nextSeen, nextLog,
                   store, disk, chan, forgotten, faults>>

(* A CRDT host call: reserve a place in the broadcast queue (a full queue
   fails the call before anything changes), then under the registry's lock
   change the CRDT, persist it and publish it.  A failed persist returns an
   error and changes nothing. *)
HostCall(n, o) ==
    /\ o \in Ops \ issued
    /\ Cardinality(calls[n]) + Len(queue[n]) < QueueCap
    /\ LET applied == [state[n] EXCEPT ![o] = @ + 1]
           written == [store[n] EXCEPT !.state = applied]
       IN  /\ state' = [state EXCEPT ![n] = applied]
           /\ store' = [store EXCEPT ![n] = written]
           /\ Durable(n, written)
    /\ issued' = issued \cup {o}
    /\ calls' = [calls EXCEPT ![n] = @ \cup {o}]
    /\ UNCHANGED <<queue, phase, batch, seen, opLog, nextSeen, nextLog, chan, forgotten, faults>>

\* The end of the host call, after the lock is released: op_permit.send(op).
HostSend(n, o) ==
    /\ o \in calls[n]
    /\ calls' = [calls EXCEPT ![n] = @ \ {o}]
    /\ queue' = [queue EXCEPT ![n] = Append(@, o)]
    /\ UNCHANGED <<issued, phase, batch, state, seen, opLog, nextSeen, nextLog,
                   store, disk, chan, forgotten, faults>>

\* Faulty variant: the operation that wakes the loop is not part of the batch.
RecvFirst_as_signal(n) ==
    /\ phase[n] = "idle"
    /\ queue[n] # <<>>
    /\ queue' = [queue EXCEPT ![n] = Tail(@)]
    /\ phase' = [phase EXCEPT ![n] = "coalesce"]
    /\ UNCHANGED <<issued, calls, batch, state, seen, opLog, nextSeen, nextLog,
                   store, disk, chan, forgotten, faults>>

\* The broadcast loop receives the first operation of a batch and waits for
\* BROADCAST_COALESCE_DELAY.
RecvFirst(n) ==
    /\ phase[n] = "idle"
    /\ queue[n] # <<>>
    /\ batch' = [batch EXCEPT ![n] = <<Head(queue[n])>>]
    /\ queue' = [queue EXCEPT ![n] = Tail(@)]
    /\ phase' = [phase EXCEPT ![n] = "coalesce"]
    /\ UNCHANGED <<issued, calls, state, seen, opLog, nextSeen, nextLog,
                   store, disk, chan, forgotten, faults>>

\* What one batch takes from the queue: all of it, up to BATCH_MAX in total.
Coalesced(n) == Smaller(BatchMax - 1, Len(queue[n]))

\* The delay is over: fill the batch from the queue and record it
\* (remember_ops) before anything is sent.
RememberOps(n) ==
    /\ phase[n] = "coalesce"
    /\ LET ops == batch[n] \o FirstOf(queue[n], Coalesced(n))
       IN  /\ batch' = [batch EXCEPT ![n] = ops]
           /\ \E ins \in Unseen(ops, Range(seen[n])) : Record(n, ins, store[n])
    /\ queue' = [queue EXCEPT ![n] = SubSeq(@, Coalesced(n) + 1, Len(@))]
    /\ phase' = [phase EXCEPT ![n] = "push"]
    /\ UNCHANGED <<issued, calls, chan, faults>>

\* Faulty variant: the batch is pushed although it could not be recorded.
RememberOpsFails_and_pushes(n) ==
    /\ phase[n] = "coalesce"
    /\ Fault
    /\ batch' = [batch EXCEPT ![n] = @ \o FirstOf(queue[n], Coalesced(n))]
    /\ queue' = [queue EXCEPT ![n] = SubSeq(@, Coalesced(n) + 1, Len(@))]
    /\ phase' = [phase EXCEPT ![n] = "push"]
    /\ UNCHANGED <<issued, calls, state, seen, opLog, nextSeen, nextLog,
                   store, disk, chan, forgotten>>

\* remember_ops could not write: the batch is dropped, neither logged nor sent.
RememberOpsFails(n) ==
    /\ phase[n] = "coalesce"
    /\ Fault
    /\ batch' = [batch EXCEPT ![n] = <<>>]
    /\ queue' = [queue EXCEPT ![n] = SubSeq(@, Coalesced(n) + 1, Len(@))]
    /\ phase' = [phase EXCEPT ![n] = "idle"]
    /\ UNCHANGED <<issued, calls, state, seen, opLog, nextSeen, nextLog,
                   store, disk, chan, forgotten>>

\* Faulty variant: the batch is pushed as soon as it is received.
BroadcastOps_before_record(n) ==
    /\ phase[n] = "coalesce"
    /\ \E m \in Nodes \ {n} :
          /\ Len(chan[n][m]) < ChanCap
          /\ chan' = [chan EXCEPT ![n][m] = Append(@, PushOps(batch[n]))]
    /\ UNCHANGED <<issued, nodeVars, store, disk, forgotten, faults>>

\* Push the recorded batch to the peers that are connected and whose socket
\* accepts it; it is dropped for every other peer.
BroadcastOps(n) ==
    /\ phase[n] = "push"
    /\ \E reached \in SUBSET (Nodes \ {n}) :
          /\ \A m \in reached : Len(chan[n][m]) < ChanCap
          /\ chan' = [chan EXCEPT ![n] =
                [m \in Nodes |-> IF m \in reached THEN Append(@[m], PushOps(batch[n]))
                                 ELSE @[m]]]
    /\ batch' = [batch EXCEPT ![n] = <<>>]
    /\ phase' = [phase EXCEPT ![n] = "idle"]
    /\ UNCHANGED <<issued, calls, queue, state, seen, opLog, nextSeen, nextLog,
                   store, disk, forgotten, faults>>

\* The anti-entropy tick of n for its connection to m asks for m's whole log.
\* Bound: the interval is long, so m has taken n's previous request.
AntiEntropyPull(n, m) ==
    /\ n # m
    /\ PullSince \notin Range(chan[n][m])
    /\ Len(chan[n][m]) < ChanCap
    /\ chan' = [chan EXCEPT ![n][m] = Append(@, PullSince)]
    /\ UNCHANGED <<issued, nodeVars, store, disk, forgotten, faults>>

Arrived(n, m, kind) == /\ n # m
                       /\ chan[m][n] # <<>>
                       /\ Head(chan[m][n]).kind = kind

\* Faulty variant: the oldest log entry is left out.
op_log_since_skips_first(n) == SubSeq(opLog[n], 2, Len(opLog[n]))

\* The answer to a PullSince without a starting id: the whole log.
op_log_since(n) == opLog[n]

\* n's event loop answers m's PullSince with everything n's log retains.
AnswerPull(n, m) ==
    /\ Arrived(n, m, "PullSince")
    /\ Len(chan[n][m]) < ChanCap
    /\ chan' = [chan EXCEPT ![n][m] = Append(@, PushOps(op_log_since(n))),
                            ![m][n] = Tail(@)]
    /\ UNCHANGED <<issued, nodeVars, store, disk, forgotten, faults>>

\* n's event loop handles a PushOps of m (apply_remote_ops): skip the ids
\* already seen and repeats within the batch, apply the rest on copies, write
\* state, seen ids and log entries as one store batch, then publish.
ApplyRemoteOps(n, m) ==
    /\ Arrived(n, m, "PushOps")
    /\ LET ops     == Head(chan[m][n]).ops
           new     == NewIds(ops, Range(seen[n]))
           applied == [o \in Ops |-> IF o \in new THEN state[n][o] + 1 ELSE state[n][o]]
       IN  /\ \A o \in new : state[n][o] < MaxApplied
           /\ \E ins \in Unseen(ops, Range(seen[n])) :
                 Record(n, ins, [store[n] EXCEPT !.state = applied])
    /\ chan' = [chan EXCEPT ![m][n] = Tail(@)]
    /\ UNCHANGED <<issued, calls, queue, phase, batch, faults>>

\* The store batch fails: the operations are dropped and nothing changes.
ApplyRemoteOpsFails(n, m) ==
    /\ Arrived(n, m, "PushOps")
    /\ Fault
    /\ chan' = [chan EXCEPT ![m][n] = Tail(@)]
    /\ UNCHANGED <<issued, nodeVars, store, disk, forgotten>>

\* The connection between n and m is lost with what it carries, and re-made.
DropConnection(n, m) ==
    chan' = [chan EXCEPT ![n][m] = <<>>, ![m][n] = <<>>]

Disconnect(n, m) ==
    /\ n # m
    /\ Fault
    /\ DropConnection(n, m)
    /\ UNCHANGED <<issued, nodeVars, store, disk, forgotten>>

\* n's event loop is blocked writing the answer to m's PullSince.
AnswerBlocked(n, m) == /\ Arrived(n, m, "PullSince")
                       /\ Len(chan[n][m]) = ChanCap

\* Two event loops block each other, each writing an answer that the other
\* does not read: after socket_timeout send_message_to_addr removes the
\* connection.  (A peer that is merely too slow is a Disconnect.)
AnswerTimesOut(n, m) ==
    /\ AnswerBlocked(n, m)
    /\ AnswerBlocked(m, n)
    /\ DropConnection(n, m)
    /\ UNCHANGED <<issued, nodeVars, store, disk, forgotten, faults>>

\* sled writes its buffers to disk: its own timer, or the flush at shutdown.
Flush(n) ==
    /\ disk[n] # store[n]
    /\ disk' = [disk EXCEPT ![n] = store[n]]
    /\ UNCHANGED <<issued, nodeVars, store, chan, forgotten, faults>>

\* The process of n stops at any point and starts again: queues and
\* connections are gone, the registries, the seen list and the log are read
\* back from the store in sequence order, and what exceeds a limit is deleted.
Crash(n) ==
    /\ Fault
    /\ \E s \in SortedBySequence(disk[n].seen), l \in SortedBySequence(disk[n].log) :
          LET seenEvicted == Range(FirstOf(s, Excess(Len(s), SeenLimit)))
              logEvicted  == Range(FirstOf(l, Excess(Len(l), OpLogLimit)))
              hydrated    == [disk[n] EXCEPT
                                !.seen = TableBatch(@, <<>>, 0, seenEvicted),
                                !.log  = TableBatch(@, <<>>, 0, logEvicted)]
          IN  /\ store' = [store EXCEPT ![n] = hydrated]
              /\ Durable(n, hydrated)
              /\ seen' = [seen EXCEPT ![n] = LastOf(s, SeenLimit)]
              /\ opLog' = [opLog EXCEPT ![n] = LastOf(l, OpLogLimit)]
              /\ nextSeen' = [nextSeen EXCEPT ![n] = NextSequence(s, disk[n].seen)]
              /\ nextLog' = [nextLog EXCEPT ![n] = NextSequence(l, disk[n].log)]
              /\ forgotten' = [forgotten EXCEPT ![n] = @ \cup seenEvicted]
    /\ state' = [state EXCEPT ![n] = disk[n].state]
    /\ calls' = [calls EXCEPT ![n] = {}]
    /\ queue' = [queue EXCEPT ![n] = <<>>]
    /\ batch' = [batch EXCEPT ![n] = <<>>]
    /\ phase' = [phase EXCEPT ![n] = "idle"]
    /\ chan' = [i \in Nodes |-> [j \in Nodes |-> IF n \in {i, j} THEN <<>> ELSE chan[i][j]]]
    /\ UNCHANGED issued

NodeStep(n) ==
    \/ \E o \in Ops : HostCall(n, o) \/ HostSend(n, o)
    \/ RecvFirst(n)
    \/ RememberOps(n)
    \/ RememberOpsFails(n)
    \/ BroadcastOps(n)
    \/ Flush(n)
    \/ Crash(n)

LinkStep(n, m) ==
    \/ AntiEntropyPull(n, m)
    \/ AnswerPull(n, m)
    \/ AnswerTimesOut(n, m)
    \/ ApplyRemoteOps(n, m)
    \/ ApplyRemoteOpsFails(n, m)
    \/ Disconnect(n, m)

Next == \/ \E n \in Nodes : NodeStep(n)
        \/ \E n, m \in Nodes : LinkStep(n, m)

Spec == Init /\ [][Next]_vars

(* Fairness.  The broadcast loop and the event loop are tokio tasks that run
   whenever their queue holds something, the anti-entropy loop ticks for
   ever, and a host call that has persisted sends its operation without
   waiting for anything.  A writer that waits for room on its socket gets it
   once room comes back again and again (strong fairness).  Host calls,
   faults and the flush owe nothing. *)
Fairness ==
    /\ \A n \in Nodes : /\ \A o \in Ops : WF_vars(HostSend(n, o))
                         /\ WF_vars(RecvFirst(n))
                         /\ WF_vars(RememberOps(n))
                         /\ WF_vars(BroadcastOps(n))
    /\ \A n, m \in Nodes : /\ SF_vars(AntiEntropyPull(n, m))
                            /\ SF_vars(AnswerPull(n, m))
                            /\ WF_vars(AnswerTimesOut(n, m))
                            /\ WF_vars(ApplyRemoteOps(n, m))

FairSpec == Spec /\ Fairness

-----------------------------------------------------------------------------
(* Properties *)

\* Every variable has its type (the registries, lists, tables and channels
\* that the sync manager keeps for each node).
TypeOK ==
    /\ issued \in SUBSET Ops
    /\ calls \in [Nodes -> SUBSET Ops]
    /\ queue \in [Nodes -> Seq(Ops)]
    /\ phase \in [Nodes -> {"idle", "coalesce", "push"}]
    /\ batch \in [Nodes -> Seq(Ops)]
    /\ state \in [Nodes -> [Ops -> Nat]]
    /\ seen \in [Nodes -> Seq(Ops)]
    /\ opLog \in [Nodes -> Seq(Ops)]
    /\ nextSeen \in [Nodes -> Nat]
    /\ nextLog \in [Nodes -> Nat]
    /\ store \in [Nodes -> Store]
    /\ disk \in [Nodes -> Store]
    /\ chan \in [Nodes -> [Nodes -> Seq(Message)]]
    /\ forgotten \in [Nodes -> SUBSET Ops]
    /\ faults \in Nat

\* An operation some node may still hand to another one, or has recorded: it
\* is in a log or a seen list, in memory or in a store, in a message, or in a
\* batch about to be pushed.
Held(n, o) ==
    \/ o \in Range(opLog[n]) \/ store[n].log[o] # Absent
    \/ o \in Range(seen[n]) \/ store[n].seen[o] # Absent

Pushed(n, o) == phase[n] = "push" /\ o \in Range(batch[n])

InFlight(o) ==
    \E n, m \in Nodes : \E msg \in Range(chan[n][m]) : o \in Range(msg.ops)

Exposed(o) == InFlight(o) \/ \E n \in Nodes : Held(n, o) \/ Pushed(n, o)

\* An operation that is applied at a node and can still be handed to it by a
\* peer has its id in the node's durable seen table, unless the id was evicted:
\* the broadcast loop records an operation before it pushes it, and a remote
\* batch is applied and recorded at once, so no crash separates the two.
RecordedBeforeExposed ==
    \A n \in Nodes, o \in Ops :
        state[n][o] > 0 /\ Exposed(o) =>
            store[n].seen[o] # Absent \/ o \in forgotten[n]

\* No operation's delta is applied twice at a node, neither by duplicated
\* delivery, nor by the echo of the node's own operations, nor across
\* restarts, unless the node evicted the id from its bounded seen list.
ReappliedOnlyIfForgotten ==
    \A n \in Nodes, o \in Ops : state[n][o] > 1 => o \in forgotten[n]

\* No operation's delta is applied twice at a node.
AppliedAtMostOnce == \A n \in Nodes, o \in Ops : state[n][o] <= 1

\* The operations of n that peers cannot know of yet: persisted by a host
\* call, and still to be recorded by the broadcast loop.
Waiting(n) == IF phase[n] = "coalesce" THEN batch[n] \o queue[n] ELSE queue[n]

Pending(n) == calls[n] \cup Range(Waiting(n))

\* Without write-behind, what is on disk is what the process wrote; and an id
\* in the durable seen table is an id the node skips.
SeenTableIsRead ==
    \A n \in Nodes : /\ disk[n] = store[n]
                     /\ store[n].state = state[n]
                     /\ \A o \in Ops : store[n].seen[o] # Absent => o \in Range(seen[n])

\* An operation is applied or handed on only after a host call created it.
OnlyIssuedOps ==
    \A o \in Ops : o \notin issued => /\ ~Exposed(o)
                                      /\ \A n \in Nodes : state[n][o] = 0

\* A pending operation is applied at its own node alone, waits there once, and
\* nobody can have heard of it.
PendingIsPrivate ==
    \A n \in Nodes :
        /\ \A o \in Pending(n) : /\ ~Exposed(o)
                                 /\ \A m \in Nodes : state[m][o] > 0 <=> m = n
        /\ \A i, j \in DOMAIN Waiting(n) : Waiting(n)[i] = Waiting(n)[j] => i = j
        /\ calls[n] \cap Range(Waiting(n)) = {}

\* The inductive invariant behind ReappliedOnlyIfForgotten.
DeliveryInv ==
    /\ TypeOK
    /\ SeenTableIsRead
    /\ OnlyIssuedOps
    /\ PendingIsPrivate
    /\ RecordedBeforeExposed
    /\ ReappliedOnlyIfForgotten

\* Hydration gives back what memory held: at every moment the store sorts to
\* exactly the seen list and the log in memory and holds the registries'
\* state, so a restart forgets no id, no log entry and no applied operation.
RestartRecoversMemory ==
    \A n \in Nodes :
        /\ state[n] = store[n].state
        /\ \E s \in SortedBySequence(store[n].seen) : seen[n] = LastOf(s, SeenLimit)
        /\ \E l \in SortedBySequence(store[n].log) : opLog[n] = LastOf(l, OpLogLimit)

\* With a seen limit no smaller than the log limit, the log is the most recent
\* part of the seen list: a node never offers a peer an operation that it
\* would itself take for new if the peer sent it back.
LogIsRecentPartOfSeen ==
    \A n \in Nodes : opLog[n] = LastOf(seen[n], OpLogLimit)

\* No step, a crash and restart included, takes back an applied operation.
AppliedStays ==
    [][\A n \in Nodes, o \in Ops : state'[n][o] >= state[n][o]]_vars

\* What the queues, logs, seen lists, stores and restarts of the nodes add up
\* to, with the registries as the count and the evicted ids as the forgotten.
Delivery == INSTANCE OpDelivery WITH created <- issued, count <- state

\* The sync manager delivers as OpDelivery promises: every step of a node, a
\* restart included, creates one operation, applies created operations that
\* the node has never applied or has evicted from its seen list, forgets
\* operations it has applied, or changes nothing.
DeliversAsPromised == Delivery!Spec

\* Anti-entropy repairs every loss while the log retains the operation: what
\* is in some node's log reaches the registries of every node.
LoggedReachesEveryNode ==
    \A o \in Ops, n \in Nodes :
        (\E m \in Nodes : o \in Range(opLog[m])) ~> state[n][o] > 0

\* Where no write fails and no process stops, the operation of an accepted host
\* call reaches every node, however many of its pushes find no connection.
AcceptedReachesEveryNode ==
    \A o \in Ops, n \in Nodes : o \in issued ~> state[n][o] > 0 \/ faults > 0
=============================================================================
