------------------------------ MODULE Counters ------------------------------
(***************************************************************************)
(* The grow-only counter and the counter that goes both ways.  A PNCounter *)
(* is two GCounters; a GCounter is the positive half alone.  Operations    *)
(* are deltas, so this module relies on at-most-once delivery, which       *)
(* Replication establishes.                                                *)
(***************************************************************************)
EXTENDS CrdtReplica, Functions

CONSTANTS
    Deltas,  \* the amounts a guest adds or subtracts
    Width    \* bits of a slot: 64 in the code

MaxSlot == 2^Width - 1

Signs == {"positive", "negative"}

Op == [id : Nat, origin : Nodes, sign : Signs, delta : Deltas]

Zero == [sign \in Signs |-> [m \in Nodes |-> 0]]

saturating_add(a, b) == IF a + b > MaxSlot THEN MaxSlot ELSE a + b

\* Faulty variant: an increment that does not fit is refused (checked_add).
increment_or_nothing(counter, op) ==
    [counter EXCEPT ![op.sign][op.origin] = IF @ + op.delta > MaxSlot THEN @ ELSE @ + op.delta]

\* GCounter::increment and apply_op, on the half that the operation names.
increment(counter, op) ==
    [counter EXCEPT ![op.sign][op.origin] = saturating_add(@, op.delta)]

\* GCounter::value: the sum wraps around in a release build.
gcounter_value(slots) == SumFunction(slots) % 2^Width

\* clamp_i128_to_i64.
clamp(v) == IF v < -(2^(Width - 1)) THEN -(2^(Width - 1))
            ELSE IF v > 2^(Width - 1) - 1 THEN 2^(Width - 1) - 1
            ELSE v

pncounter_value(counter) ==
    clamp(gcounter_value(counter["positive"]) - gcounter_value(counter["negative"]))

-----------------------------------------------------------------------------
Init == ReplicaInit(Zero)

\* crdt_gcounter_inc, crdt_pncounter_inc and crdt_pncounter_dec.
CounterChange(n, sign, delta) ==
    LET op == [id |-> calls, origin |-> n, sign |-> sign, delta |-> delta]
    IN  HostUpdate(n, op, increment(obj[n], op))

\* The seen list lets an operation pass once.
ApplyRemoteCounter(n, op) ==
    /\ op \notin applied[n]
    /\ RemoteUpdate(n, op, increment(obj[n], op))

Next == \E n \in Nodes :
            \/ \E sign \in Signs, delta \in Deltas : CounterChange(n, sign, delta)
            \/ \E op \in sent : ApplyRemoteCounter(n, op)
            \/ \E op \in unsent[n] : Send(n, op)
            \/ Flush(n)
            \/ Crash(n)

Spec == Init /\ [][Next]_replicaVars

-----------------------------------------------------------------------------
(* Properties *)

\* The deltas of the operations ops that came from node m with one sign.
Total(ops, m, sign) ==
    SumFunction([op \in {o \in ops : o.origin = m /\ o.sign = sign} |-> op.delta])

\* A slot holds the sum of its node's deltas, or the largest number once the
\* sum exceeds it, in whatever order the deltas came: saturation loses no
\* increment that a replica with another order counts, and replicas that have
\* applied the same operations agree.
SlotIsSaturatedSum ==
    \A n, m \in Nodes, sign \in Signs :
        LET total == Total(applied[n], m, sign)
        IN  obj[n][sign][m] = IF total > MaxSlot THEN MaxSlot ELSE total

AbsDiff(a, b) == IF a < b THEN b - a ELSE a - b

\* The visible value of a PNCounter is the difference of everything added and
\* everything subtracted, clamped to its signed range, as long as each half fits
\* the width; beyond that GCounter::value wraps around.
ValueIsClampedDifference ==
    \A n \in Nodes :
        LET plus  == SumFunction(obj[n]["positive"])
            minus == SumFunction(obj[n]["negative"])
        IN  plus <= MaxSlot /\ minus <= MaxSlot =>
                pncounter_value(obj[n]) =
                    CHOOSE v \in -(2^(Width - 1))..(2^(Width - 1) - 1) :
                        \A w \in -(2^(Width - 1))..(2^(Width - 1) - 1) :
                            AbsDiff(v, plus - minus) <= AbsDiff(w, plus - minus)
=============================================================================
