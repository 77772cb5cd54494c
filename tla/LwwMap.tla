------------------------------- MODULE LwwMap -------------------------------
(***************************************************************************)
(* The map of last-writer-wins fields.  An operation sets or removes one   *)
(* field; a removal is an entry whose value is a tombstone.  Clocks read   *)
(* anything, as in LwwRegister.                                            *)
(***************************************************************************)
EXTENDS CrdtReplica, LwwStamp

CONSTANT
    Fields  \* field names

Tombstone == -1

Entry == [value : Values \cup {Tombstone}, timestamp_ms : Nat, writer : Nodes]

\* A field that the map has no entry for.
NoEntry == [value |-> Tombstone, timestamp_ms |-> NoTime, writer |-> -1]

Op == [field : Fields, entry : Entry]

Map == [Fields -> Entry \cup {NoEntry}]

value_wins(candidate, current) ==
    /\ current # Tombstone
    /\ candidate = Tombstone \/ candidate > current

entry_wins(candidate, current) ==
    \/ candidate.timestamp_ms > current.timestamp_ms
    \/ /\ candidate.timestamp_ms = current.timestamp_ms
       /\ \/ candidate.writer > current.writer
          \/ /\ candidate.writer = current.writer
             /\ value_wins(candidate.value, current.value)

\* set and remove end here: the entry replaces a missing or a losing one.
apply_entry(map, op) ==
    IF map[op.field] = NoEntry \/ entry_wins(op.entry, map[op.field])
    THEN [map EXCEPT ![op.field] = op.entry]
    ELSE map

-----------------------------------------------------------------------------
Init == ReplicaInit([f \in Fields |-> NoEntry])

\* A host call writes the value v, or the tombstone, into field f, stamped
\* after the entry, tombstones included, that the node has observed.
HostWrite(n, f, v, now) ==
    LET stamp == Stamp(obj[n][f].timestamp_ms, now)
        op    == [field |-> f, entry |-> [value |-> v, timestamp_ms |-> stamp, writer |-> n]]
    IN  stamp <= MaxTime /\ HostUpdate(n, op, apply_entry(obj[n], op))

LwwMapSet(n, f, v, now) == v \in Values /\ HostWrite(n, f, v, now)

LwwMapRemove(n, f, now) == HostWrite(n, f, Tombstone, now)

\* apply_remote_lww_map_set and apply_remote_lww_map_remove.
ApplyRemoteLwwMap(n, op) ==
    RemoteUpdate(n, op, apply_entry(obj[n], op))

Next == \E n \in Nodes :
            \/ \E f \in Fields, now \in 0..MaxTime :
                  \/ \E v \in Values : LwwMapSet(n, f, v, now)
                  \/ LwwMapRemove(n, f, now)
            \/ \E op \in sent : ApplyRemoteLwwMap(n, op)
            \/ \E op \in unsent[n] : Send(n, op)
            \/ Flush(n)
            \/ Crash(n)

Spec == Init /\ [][Next]_replicaVars

-----------------------------------------------------------------------------
(* Properties *)

\* Every variable has its type (the map, its operations and their copies).
TypeOK == ReplicaTypeOK(Map, Op)

\* What set and remove promise of a map that holds the operations ops: per
\* field, the entry of an operation that beats all others, or none.
HoldsWinners(map, ops) ==
    \A f \in Fields :
        /\ (\E op \in ops : op.field = f) => [field |-> f, entry |-> map[f]] \in ops
        /\ (\A op \in ops : op.field # f) => map[f] = NoEntry
        /\ \A op \in ops : op.field = f => op.entry = map[f] \/ entry_wins(map[f], op.entry)

\* In the registry and on disk, every field holds its winning entry.
WinnersInv ==
    /\ TypeOK
    /\ \A n \in Nodes : /\ HoldsWinners(obj[n], applied[n])
                        /\ HoldsWinners(disk[n].obj, disk[n].applied)

\* A step in which a guest writes or removes a field leaves its entry in the
\* field, even against a peer whose clock is ahead and after a crash.
ReadsItsWrite ==
    \A n \in Nodes : \A op \in unsent'[n] \ unsent[n] : obj'[n][op.field] = op.entry
=============================================================================
