---------------------------- MODULE CrdtReplica ----------------------------
(***************************************************************************)
(* What every CRDT host call and every remote apply have in common.  One   *)
(* key of one CRDT type: its object in each node's registry, the copy in   *)
(* each node's store, and the operations on their way between the nodes.   *)
(*                                                                         *)
(* Replication.tla models the way itself.  Here peers may deliver an       *)
(* operation once it is sent, at any time, in any order and more than      *)
(* once; a module that needs at-most-once delivery says so in its guards.  *)
(* A host call that fails before it has persisted changes nothing and is   *)
(* no step.                                                                *)
(***************************************************************************)
EXTENDS Integers, FiniteSets

CONSTANTS
    Nodes,       \* node ids, integers in the order of the id strings
    MaxCalls,    \* bound: host calls in one behaviour
    WriteBehind  \* TRUE: a crash may lose writes that sled has not flushed yet

ASSUME ReplicaAssumption ==
    /\ Nodes \subseteq Nat
    /\ MaxCalls \in Nat
    /\ WriteBehind \in BOOLEAN

VARIABLES
    obj,      \* per node, the object in the registry
    applied,  \* history: per node, the operations whose effect the object holds
    disk,     \* per node, the object and its history that survive a crash
    unsent,   \* per node, operations persisted by a host call and not yet handed on
    sent,     \* the operations that peers may deliver
    calls     \* host calls so far; the number is also a new id, never drawn twice

replicaVars == <<obj, applied, disk, unsent, sent, calls>>

ReplicaInit(empty) ==
    /\ obj = [n \in Nodes |-> empty]
    /\ applied = [n \in Nodes |-> {}]
    /\ disk = [n \in Nodes |-> [obj |-> empty, applied |-> {}]]
    /\ unsent = [n \in Nodes |-> {}]
    /\ sent = {}
    /\ calls = 0

\* Write the new object to the store, then put it into the registry, both
\* under the registry's lock.  (A write that fails changes nothing.)
PersistAndPublish(n, op, new) ==
    /\ obj' = [obj EXCEPT ![n] = new]
    /\ applied' = [applied EXCEPT ![n] = @ \cup {op}]
    /\ disk' = [disk EXCEPT ![n] =
                  IF WriteBehind THEN @ ELSE [obj |-> new, applied |-> applied[n] \cup {op}]]

\* One more host call of the guests.
Called ==
    /\ calls < MaxCalls
    /\ calls' = calls + 1

\* A host call that changes the object and holds a permit of the queue.
HostUpdate(n, op, new) ==
    /\ Called
    /\ PersistAndPublish(n, op, new)
    /\ unsent' = [unsent EXCEPT ![n] = @ \cup {op}]
    /\ UNCHANGED sent

\* The end of the host call and the broadcast: from now on peers hold the
\* operation, in their queues or in somebody's log.
Send(n, op) ==
    /\ op \in unsent[n]
    /\ unsent' = [unsent EXCEPT ![n] = @ \ {op}]
    /\ sent' = sent \cup {op}
    /\ UNCHANGED <<obj, applied, disk, calls>>

\* A peer delivers an operation, perhaps one of n's own.
RemoteUpdate(n, op, new) ==
    /\ op \in sent
    /\ PersistAndPublish(n, op, new)
    /\ UNCHANGED <<unsent, sent, calls>>

\* sled writes its buffers to disk.
Flush(n) ==
    /\ disk' = [disk EXCEPT ![n] = [obj |-> obj[n], applied |-> applied[n]]]
    /\ UNCHANGED <<obj, applied, unsent, sent, calls>>

\* The process stops and hydrates from disk; what it had not sent is never sent.
Crash(n) ==
    /\ obj' = [obj EXCEPT ![n] = disk[n].obj]
    /\ applied' = [applied EXCEPT ![n] = disk[n].applied]
    /\ unsent' = [unsent EXCEPT ![n] = {}]
    /\ UNCHANGED <<disk, sent, calls>>

-----------------------------------------------------------------------------
(* What the modules of the CRDT types state. *)

ReplicaTypeOK(Object, Op) ==
    /\ obj \in [Nodes -> Object]
    /\ applied \in [Nodes -> SUBSET Op]
    /\ disk \in [Nodes -> [obj : Object, applied : SUBSET Op]]
    /\ unsent \in [Nodes -> SUBSET Op]
    /\ sent \in SUBSET Op
    /\ calls \in Nat

\* Every operation there is, at a replica or on its way.
AllOps ==
    sent \cup UNION {applied[n] \cup unsent[n] \cup disk[n].applied : n \in Nodes}

\* Replicas that have applied the same operations hold the same object,
\* whatever the order and the repetitions of the deliveries.
SameOpsSameObject ==
    \A n, m \in Nodes : applied[n] = applied[m] => obj[n] = obj[m]

\* Without write-behind the disk holds what the registry holds.
DiskIsCurrent == \A n \in Nodes : disk[n] = [obj |-> obj[n], applied |-> applied[n]]
=============================================================================
