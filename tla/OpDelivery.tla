---------------------------- MODULE OpDelivery ----------------------------
(***************************************************************************)
(* What replication promises of the operations of host calls, with no      *)
(* queue, connection, log or store in sight: an operation is created once, *)
(* at one node, and is applied there; every node may take created          *)
(* operations from the others, several in one step; and a node applies an  *)
(* operation again only if it has forgotten it, as a node with a bounded   *)
(* memory may.  Nothing applied is ever taken back.                        *)
(***************************************************************************)
EXTENDS Naturals

CONSTANTS
    Nodes,      \* the replicas
    Ops         \* the operation ids

VARIABLES
    created,    \* the operations that exist
    count,      \* count[n][o]: how often n has applied o
    forgotten   \* per node, the operations it no longer recognises

vars == <<created, count, forgotten>>

Init ==
    /\ created = {}
    /\ count = [n \in Nodes |-> [o \in Ops |-> 0]]
    /\ forgotten = [n \in Nodes |-> {}]

\* A host call of n creates o, which is applied at n and nowhere else.
Create(n, o) ==
    /\ o \notin created
    /\ created' = created \cup {o}
    /\ count' = [count EXCEPT ![n][o] = @ + 1]
    /\ UNCHANGED forgotten

\* n applies the operations S of its peers, each of them once.
Apply(n, S) ==
    /\ \A o \in S : count[n][o] = 0 \/ o \in forgotten[n]
    /\ count' = [count EXCEPT ![n] = [o \in Ops |-> IF o \in S THEN @[o] + 1 ELSE @[o]]]

\* n forgets operations F, all of which it has applied by then.
Forget(n, F) ==
    /\ \A o \in F : count'[n][o] > 0
    /\ forgotten' = [forgotten EXCEPT ![n] = @ \cup F]

\* One step of n on operations others created; S or F may be empty.
Deliver(n, S, F) ==
    /\ Apply(n, S)
    /\ Forget(n, F)
    /\ UNCHANGED created

Next == \E n \in Nodes :
            \/ \E o \in Ops : Create(n, o)
            \/ \E S \in SUBSET created, F \in SUBSET created : Deliver(n, S, F)

Spec == Init /\ [][Next]_vars
===========================================================================
