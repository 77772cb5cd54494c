------------------------------- MODULE Crdts -------------------------------
(***************************************************************************)
(* The six CRDT types behind one interface.  The registries of the types   *)
(* share nothing, so a behaviour follows one key in one of them; a         *)
(* PNCounter holds two GCounters, which leaves five cases.                 *)
(***************************************************************************)
EXTENDS CrdtReplica, LwwStamp

CONSTANTS
    Kinds,                \* the types that behaviours start from
    Fields,               \* of a map
    Elements,             \* of a set
    Ids,                  \* of the elements of a sequence
    Deltas, Width,        \* of a counter
    SteadyClocks,         \* clocks never step back
    RegisterWriteBehind   \* a crash may lose unflushed writes of registers

\* The powers are natural numbers, which the provers do not know.
ASSUME CrdtsAssumption ==
    /\ Kinds \subseteq {"LwwRegister", "LwwMap", "ORSet", "PNCounter", "Rga"}
    /\ IsFiniteSet(Nodes)
    /\ Deltas \subseteq Nat
    /\ Width \in Nat \ {0} /\ {2^Width, 2^(Width - 1)} \subseteq Nat \ {0}

VARIABLES
    kind,   \* the type of the key
    clock,  \* of LwwRegister
    drawn   \* of Rga

vars == <<replicaVars, kind, clock, drawn>>

\* Registers and sequences have small objects and get larger bounds; sequences
\* lose nothing in a crash, to keep four calls within reach.
Register == INSTANCE LwwRegister
               WITH WriteBehind <- RegisterWriteBehind, MaxTime <- MaxTime + 2
Map == INSTANCE LwwMap
Set == INSTANCE OrSet
Counter == INSTANCE Counters
Sequence == INSTANCE Rga
               WITH MaxCalls <- MaxCalls + 1, WriteBehind <- FALSE

Init ==
    /\ kind \in Kinds
    /\ CASE kind = "LwwRegister" -> Register!Init /\ drawn = {}
         [] kind = "LwwMap" -> Map!Init /\ drawn = {} /\ clock = <<>>
         [] kind = "ORSet" -> Set!Init /\ drawn = {} /\ clock = <<>>
         [] kind = "PNCounter" -> Counter!Init /\ drawn = {} /\ clock = <<>>
         [] kind = "Rga" -> Sequence!Init /\ clock = <<>>

\* apply_remote_op and the host calls: each type has its own actions.
Next ==
    /\ UNCHANGED kind
    /\ \/ kind = "LwwRegister" /\ Register!Next /\ UNCHANGED drawn
       \/ kind = "LwwMap" /\ Map!Next /\ UNCHANGED <<clock, drawn>>
       \/ kind = "ORSet" /\ Set!Next /\ UNCHANGED <<clock, drawn>>
       \/ kind = "PNCounter" /\ Counter!Next /\ UNCHANGED <<clock, drawn>>
       \/ kind = "Rga" /\ Sequence!Next /\ UNCHANGED clock

Spec == Init /\ [][Next]_vars

-----------------------------------------------------------------------------
(* The properties of the single types, each for the keys of its type.       *)
(* SameOpsSameObject is stated once, for all.                               *)

\* LwwRegister and LwwMap: the register and every field of a map hold the write
\* that wins over all others applied, and a node's stamps tell its writes apart
\* (RegisterInv and WinnersInv there).
LwwInv == /\ kind = "LwwRegister" => Register!RegisterInv
          /\ kind = "LwwMap" => Map!WinnersInv

\* LwwRegister and LwwMap: a guest reads back what it wrote or removed, against
\* peers whose clocks are ahead and its own clock stepping back.
WriteIsVisible ==
    [][/\ kind = "LwwRegister" => Register!ReadsItsWrite
       /\ kind = "LwwMap" => Map!ReadsItsWrite]_vars

\* ORSet: the tables are a function of the operations applied, and they follow
\* the observed-remove rule (TablesInv and ContainsObservedRemove there).
SetInv == kind = "ORSet" => Set!TablesInv /\ Set!ContainsObservedRemove

\* Counters: slots hold saturated sums and the value is the clamped difference
\* (SlotIsSaturatedSum and ValueIsClampedDifference there).
CounterInv == kind = "PNCounter" => Counter!SlotIsSaturatedSum /\ Counter!ValueIsClampedDifference

\* Rga: the order shows every element once, and replicas never show two elements
\* in opposite orders (OrderIsComplete and AgreedOrder there).
SequenceInv == kind = "Rga" => Sequence!OrderIsComplete /\ Sequence!AgreedOrder
=============================================================================
