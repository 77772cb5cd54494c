---------------------------- MODULE LwwRegister ----------------------------
(***************************************************************************)
(* The last-writer-wins register.  An operation is the triple it carries.  *)
(* A host call may read any time from the wall clock: clocks differ        *)
(* between nodes and, unless SteadyClocks holds, step back.                *)
(***************************************************************************)
EXTENDS CrdtReplica, LwwStamp

CONSTANT
    SteadyClocks  \* TRUE: the clock of a node never steps back, and a restart takes time

VARIABLE
    clock  \* per node, the earliest reading its next host call can get

vars == <<replicaVars, clock>>

Register == [value : Values, timestamp_ms : Nat, writer : Nodes]

\* The key is absent from the registry.
NoRegister == [value |-> -1, timestamp_ms |-> NoTime, writer |-> -1]

\* Faulty variant: on equal timestamps the newcomer wins.
candidate_wins_on_tie(candidate, current) == candidate.timestamp_ms >= current.timestamp_ms

candidate_wins(candidate, current) ==
    \/ candidate.timestamp_ms > current.timestamp_ms
    \/ /\ candidate.timestamp_ms = current.timestamp_ms
       /\ candidate.writer > current.writer

\* assign and merge; an absent register takes any candidate.
Assign(current, candidate) ==
    IF current = NoRegister \/ candidate_wins(candidate, current) THEN candidate ELSE current

-----------------------------------------------------------------------------
Init ==
    /\ ReplicaInit(NoRegister)
    /\ clock = [n \in Nodes |-> 0]

\* crdt_lww_set: stamp, merge into the register, persist, publish, send.
LwwSet(n, v, now) ==
    /\ now >= clock[n]
    /\ Stamp(obj[n].timestamp_ms, now) <= MaxTime
    /\ LET candidate == [value |-> v, timestamp_ms |-> Stamp(obj[n].timestamp_ms, now), writer |-> n]
       IN  HostUpdate(n, candidate, Assign(obj[n], candidate))
    /\ clock' = [clock EXCEPT ![n] = IF SteadyClocks THEN now ELSE @]

apply_remote_lww_register_set(n, op) ==
    /\ RemoteUpdate(n, op, Assign(obj[n], op))
    /\ UNCHANGED clock

Restart(n) ==
    /\ clock[n] < MaxTime
    /\ Crash(n)
    /\ clock' = [clock EXCEPT ![n] = IF SteadyClocks THEN @ + 1 ELSE @]

Next == \E n \in Nodes :
            \/ \E v \in Values, now \in 0..MaxTime : LwwSet(n, v, now)
            \/ \E op \in sent : apply_remote_lww_register_set(n, op)
            \/ \E op \in unsent[n] : Send(n, op) /\ UNCHANGED clock
            \/ Flush(n) /\ UNCHANGED clock
            \/ Restart(n)

Spec == Init /\ [][Next]_vars

-----------------------------------------------------------------------------
(* Properties *)

\* Every variable has its type (the register, its operations and their copies).
TypeOK ==
    /\ ReplicaTypeOK(Register \cup {NoRegister}, Register)
    /\ clock \in [Nodes -> Nat]

\* The register holds a write that was applied and that beats all others.
RegisterIsWinner ==
    \A n \in Nodes :
        /\ applied[n] = {} <=> obj[n] = NoRegister
        /\ applied[n] # {} => obj[n] \in applied[n]
        /\ \A op \in applied[n] : op = obj[n] \/ candidate_wins(obj[n], op)

\* A node stamps its writes upwards: none of its writes is newer than its register.
OwnWritesObserved ==
    \A op \in AllOps : op.timestamp_ms <= obj[op.writer].timestamp_ms

\* No two writes share a timestamp and a writer, the case that candidate_wins
\* leaves undecided.
UniqueStamps ==
    \A a, b \in AllOps :
        a.timestamp_ms = b.timestamp_ms /\ a.writer = b.writer => a = b

\* The inductive invariant behind convergence: replicas that have applied the
\* same writes hold the same value because both hold the one that beats all
\* others, and there is only one such write.
RegisterInv ==
    /\ TypeOK
    /\ DiskIsCurrent
    /\ RegisterIsWinner
    /\ OwnWritesObserved
    /\ UniqueStamps

\* A step in which a guest writes leaves its write in the register, even
\* against a peer whose clock is ahead.
ReadsItsWrite == \A n \in Nodes : \A op \in unsent'[n] \ unsent[n] : obj'[n] = op
=============================================================================
