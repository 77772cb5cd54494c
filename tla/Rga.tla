-------------------------------- MODULE Rga --------------------------------
(***************************************************************************)
(* The replicated growable array.  An element is inserted after a parent   *)
(* that the guest names, and its id is the operation's, so the order of    *)
(* two ids says nothing about when they were drawn.  Payloads are left     *)
(* out: an element stands for its value.                                   *)
(***************************************************************************)
EXTENDS CrdtReplica, SequencesExt

CONSTANT
    Ids  \* element ids, integers in the order of the id strings

VARIABLE
    drawn  \* the ids already drawn

vars == <<replicaVars, drawn>>

\* The parent of an element inserted at the head.
None == -1

Element == [id : Ids, parent : Ids \cup {None}]

EmptyRga == [elements |-> {}, tombstones |-> {}]

Op == [kind : {"insert"}, element : Element] \cup [kind : {"delete"}, id : Ids]

IdsOf(rga) == {x.id : x \in rga.elements}

\* insert and apply_insert: an id that is present keeps its element.
insert(rga, x) == IF x.id \in IdsOf(rga) THEN rga ELSE [rga EXCEPT !.elements = @ \cup {x}]

\* delete and apply_delete: the id need not be present.
delete(rga, id) == [rga EXCEPT !.tombstones = @ \cup {id}]

Apply(rga, op) == IF op.kind = "insert" THEN insert(rga, op.element) ELSE delete(rga, op.id)

\* Faulty variant: an element whose parent is deleted counts as inserted at the head.
ParentIn_visible(rga, x) ==
    IF x.parent \in IdsOf(rga) \ rga.tombstones THEN x.parent ELSE None

\* Where an element hangs: an element whose parent is missing hangs at the head.
ParentIn(rga, x) == IF x.parent \in IdsOf(rga) THEN x.parent ELSE None

Children(rga, p) == {x.id : x \in {y \in rga.elements : ParentIn(rga, y) = p}}

\* Depth first, siblings by ascending id.
append_children(rga) ==
    LET below[p \in IdsOf(rga) \cup {None}] ==
            FoldLeft(LAMBDA out, id : Append(out, id) \o below[id],
                     <<>>, SetToSortSeq(Children(rga, p), <))
    IN  below

ordered_ids(rga) == append_children(rga)[None]

-----------------------------------------------------------------------------
Init ==
    /\ ReplicaInit(EmptyRga)
    /\ drawn = {}

\* The guest names as parent any element it has heard of, on this node or elsewhere.
Inserted(id, parent) ==
    /\ id \in Ids \ drawn
    /\ parent \in drawn \cup {None}
    /\ drawn' = drawn \cup {id}

InsertOp(id, parent) == [kind |-> "insert", element |-> [id |-> id, parent |-> parent]]

RgaInsert(n, id, parent) ==
    /\ Inserted(id, parent)
    /\ HostUpdate(n, InsertOp(id, parent), Apply(obj[n], InsertOp(id, parent)))

\* The new id cannot be written to the guest's memory: the call fails after
\* the element was persisted and published, and no operation is sent.
RgaInsertFails(n, id, parent) ==
    /\ Inserted(id, parent)
    /\ Called
    /\ PersistAndPublish(n, InsertOp(id, parent), Apply(obj[n], InsertOp(id, parent)))
    /\ UNCHANGED <<unsent, sent>>

RgaDelete(n, id) ==
    /\ LET op == [kind |-> "delete", id |-> id]
       IN  HostUpdate(n, op, Apply(obj[n], op))
    /\ UNCHANGED drawn

\* apply_remote_rga_insert and apply_remote_rga_delete.
ApplyRemoteRga(n, op) ==
    /\ RemoteUpdate(n, op, Apply(obj[n], op))
    /\ UNCHANGED drawn

Next == \E n \in Nodes :
            \/ \E id \in Ids, parent \in Ids \cup {None} :
                  RgaInsert(n, id, parent) \/ RgaInsertFails(n, id, parent)
            \/ \E id \in drawn : RgaDelete(n, id)
            \/ \E op \in sent : ApplyRemoteRga(n, op)
            \/ \E op \in unsent[n] : Send(n, op) /\ UNCHANGED drawn
            \/ Flush(n) /\ UNCHANGED drawn
            \/ Crash(n) /\ UNCHANGED drawn

Spec == Init /\ [][Next]_vars

-----------------------------------------------------------------------------
(* Properties *)

\* Elements all of whose ancestors have arrived.
Rooted(n) ==
    LET rooted[p \in Ids \cup {None}] ==
            LET kids == {x.id : x \in {y \in obj[n].elements : y.parent = p}}
            IN  kids \cup UNION {rooted[id] : id \in kids}
    IN  rooted[None]

Before(n, x, y) ==
    LET s == ordered_ids(obj[n])
    IN  \E i, j \in DOMAIN s : i < j /\ s[i] = x /\ s[j] = y

\* The order shows every element exactly once, also those whose parent has
\* not arrived, was lost with an unsent operation or is deleted.
OrderIsComplete ==
    \A n \in Nodes : LET s == ordered_ids(obj[n])
                     IN  /\ Range(s) = IdsOf(obj[n])
                         /\ Len(s) = Cardinality(IdsOf(obj[n]))

\* Two replicas never show two elements in opposite orders once the ancestors
\* of both have arrived at both, however different what else they have
\* received: later operations insert between, and reorder nothing.
AgreedOrder ==
    \A n, m \in Nodes :
        \A x, y \in Rooted(n) \cap Rooted(m) : Before(n, x, y) => Before(m, x, y)
=============================================================================
