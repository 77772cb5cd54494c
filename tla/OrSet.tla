------------------------------- MODULE OrSet -------------------------------
(***************************************************************************)
(* The observed-remove set.  An add carries its own operation id as tag, a *)
(* remove the tags its node has observed for the element.                  *)
(***************************************************************************)
EXTENDS CrdtReplica

CONSTANT
    Elements  \* the strings a guest adds and removes

\* Operation ids.
Tags == Nat

\* An operation.  The field observed is history: the adds that the remover
\* held when it issued a remove, as tags.
Op == [kind : {"add", "remove"}, element : Elements, tags : SUBSET Tags, observed : SUBSET Tags]

ORSet == [adds : [Elements -> SUBSET Tags], removes : [Elements -> SUBSET Tags]]

EmptySet == [adds |-> [e \in Elements |-> {}], removes |-> [e \in Elements |-> {}]]

apply_add(set, op) ==
    [adds |-> [set.adds EXCEPT ![op.element] = @ \cup op.tags], removes |-> set.removes]

\* Faulty variant: a remove deletes the tags it finds and leaves no trace.
apply_remove_in_place(set, op) == [set EXCEPT !.adds[op.element] = @ \ op.tags]

apply_remove(set, op) ==
    [adds |-> set.adds, removes |-> [set.removes EXCEPT ![op.element] = @ \cup op.tags]]

Apply(set, op) == IF op.kind = "add" THEN apply_add(set, op) ELSE apply_remove(set, op)

contains(set, e) == set.adds[e] \ set.removes[e] # {}

-----------------------------------------------------------------------------
Init == ReplicaInit(EmptySet)

\* The tag is the id of the operation, new in this call.
OrSetAdd(n, e) ==
    LET op == [kind |-> "add", element |-> e, tags |-> {calls}, observed |-> {}]
    IN  HostUpdate(n, op, Apply(obj[n], op))

\* The tags of the adds among ops: what their holder can have observed.
AddTags(ops) == UNION {op.tags : op \in {a \in ops : a.kind = "add"}}

\* A remove of an element without any tag returns before it writes or sends.
OrSetRemove(n, e) ==
    /\ obj[n].adds[e] # {}
    /\ LET op == [kind |-> "remove", element |-> e, tags |-> obj[n].adds[e],
                  observed |-> AddTags(applied[n])]
       IN  HostUpdate(n, op, Apply(obj[n], op))

\* apply_remote_orset_add and apply_remote_orset_remove.
ApplyRemoteOrSet(n, op) ==
    RemoteUpdate(n, op, Apply(obj[n], op))

Next == \E n \in Nodes :
            \/ \E e \in Elements : OrSetAdd(n, e)
            \/ \E e \in Elements : OrSetRemove(n, e)
            \/ \E op \in sent : ApplyRemoteOrSet(n, op)
            \/ \E op \in unsent[n] : Send(n, op)
            \/ Flush(n)
            \/ Crash(n)

Spec == Init /\ [][Next]_replicaVars

-----------------------------------------------------------------------------
(* Properties *)

\* Every variable has its type (the set, its operations and their copies).
TypeOK == ReplicaTypeOK(ORSet, Op)

\* The observed-remove rule, from the history alone: an element is in the set
\* if some add of it was not observed by any of the removes of it.
Visible(ops, e) ==
    \E a \in ops : /\ a.kind = "add" /\ a.element = e
                   /\ \A r \in ops : r.kind = "remove" /\ r.element = e => a.tags \cap r.observed = {}

\* What contains reports is what the rule says, for removes that arrive before
\* the adds they observed, for repeated deliveries and across lost writes: a
\* concurrent add survives a remove, an observed one does not.
ContainsObservedRemove ==
    \A n \in Nodes, e \in Elements : contains(obj[n], e) <=> Visible(applied[n], e)

\* What the operations ops leave in the two tables of a set.
Tables(ops) ==
    [adds    |-> [e \in Elements |-> UNION {op.tags : op \in {a \in ops : a.kind = "add" /\ a.element = e}}],
     removes |-> [e \in Elements |-> UNION {op.tags : op \in {r \in ops : r.kind = "remove" /\ r.element = e}}]]

\* An operation speaks of ids already drawn.  An add has one; a remove carries
\* exactly the observed tags of its element.
WellFormed(op) ==
    /\ \A t \in op.tags \cup op.observed : t < calls
    /\ op.kind = "add" => op.observed = {} /\ \E t \in op.tags : op.tags = {t}
    /\ op.kind = "remove" =>
          \A a \in AllOps : a.kind = "add" =>
              (a.tags \cap op.tags # {} <=> a.element = op.element /\ a.tags \cap op.observed # {})

\* The inductive invariant behind convergence and the observed-remove rule:
\* both tables, in memory and on disk, are a function of the operations applied.
TablesInv ==
    /\ TypeOK
    /\ \A n \in Nodes : /\ obj[n] = Tables(applied[n])
                        /\ disk[n].obj = Tables(disk[n].applied)
    /\ \A op \in AllOps : WellFormed(op)
    /\ \A a, b \in AllOps : /\ a.kind = "add" /\ b.kind = "add" /\ a.tags \cap b.tags # {}
                            => a = b
=============================================================================
