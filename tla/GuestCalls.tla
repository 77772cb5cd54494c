----------------------------- MODULE GuestCalls -----------------------------
(***************************************************************************)
(* Host calls that return bytes, and the SDK's loops that repeat them with *)
(* twice the buffer until the answer fits.  Between two tries the value    *)
(* may change; a call that inserts must not insert at a try that fails.    *)
(***************************************************************************)
EXTENDS Integers, FiniteSets

CONSTANTS
    MaxValueLen,     \* what the host accepts for a value
    MaxCap,          \* the SDK's largest buffer, MAX_OUT_CAP of the host
    SmallCap, LargeCap,  \* first buffers: of db_get, inserts and the network, of the others
    IdSize,          \* bytes of an element id
    RowSize,         \* bytes of a row of a list
    MaxRows,         \* bound: rows of a list
    MaxChanges,      \* bound: changes by others
    QueueLimit       \* queued_ops_limit

VARIABLES
    entry,      \* the value read: [version, size], version 0 if there is none
    sizes,      \* history: the size of every version
    rows,       \* number of rows of the list read
    sequence,   \* ids that this guest inserted into the sequence
    sent,       \* ids of the operations handed to the broadcast queue
    queued,     \* operations in the queue
    call,       \* the SDK call: [api, cap, status, result]
    tries,      \* ids that have been generated
    changes     \* number of changes by others

guestVars == <<entry, sizes, rows, sequence, sent, queued, call, tries, changes>>

OneValue == {"db_get", "crdt_lww_get", "crdt_lww_map_get"}
Lists == {"crdt_lww_map_entries", "crdt_orset_elements", "crdt_rga_values", "net_peers"}
Absent == [version |-> 0, size |-> 0]
NoResult == [code |-> "none", version |-> 0, size |-> 0]
TooSmall == [NoResult EXCEPT !.code = "ERR_BUF_TOO_SMALL"]

GuestInit ==
    /\ entry \in {Absent} \union [version : {1}, size : 0 .. MaxValueLen]
    /\ sizes = [v \in 0 .. MaxChanges + 1 |-> IF v = entry.version THEN entry.size ELSE 0]
    /\ rows \in 0 .. MaxRows
    /\ sequence = {} /\ sent = {} /\ queued = 0
    /\ call = [api |-> "none", cap |-> 0, status |-> "idle", result |-> NoResult]
    /\ tries = 0
    /\ changes = 0

-----------------------------------------------------------------------------
(* The host's answers.                                                     *)

write_bytes(version, size, cap) ==
    IF size > cap THEN TooSmall ELSE [code |-> "ok", version |-> version, size |-> size]

\* A value that is not there is no error.
CopyValue(cap) ==
    IF entry.version = 0 THEN [NoResult EXCEPT !.code = "ERR_NOT_FOUND"]
    ELSE write_bytes(entry.version, entry.size, cap)
db_get(cap) == CopyValue(cap)
crdt_lww_get(cap) == CopyValue(cap)
crdt_lww_map_get(cap) == CopyValue(cap)

\* A list is encoded as a whole: its count, then its rows.
encode_rows == 1 + rows * RowSize
CopyList(cap) == write_bytes(rows, encode_rows, cap)
crdt_lww_map_entries(cap) == CopyList(cap)
crdt_orset_elements(cap) == CopyList(cap)
crdt_rga_values(cap) == CopyList(cap)
net_peers(cap) == CopyList(cap)

-----------------------------------------------------------------------------
(* The SDK's loops.                                                        *)

FirstBuffer(api) == IF api \in {"db_get", "crdt_rga_insert", "net_peers"} THEN SmallCap ELSE LargeCap

Begin(api) ==
    /\ call.status = "idle"
    /\ call' = [call EXCEPT !.api = api, !.cap = FirstBuffer(api), !.status = "running"]
    /\ UNCHANGED <<entry, sizes, rows, sequence, sent, queued, tries, changes>>

MayGrow(cap) == 2 * cap <= MaxCap

\* The next try, or BufferTooSmall.
Grow(result) ==
    call' = IF MayGrow(call.cap) THEN [call EXCEPT !.cap = 2 * @]
            ELSE [call EXCEPT !.status = "failed", !.result = result]

Read(api, result) ==
    /\ call.status = "running" /\ call.api = api
    /\ IF result = TooSmall THEN Grow(result)
       ELSE call' = [call EXCEPT !.status = "done", !.result = result]
    /\ UNCHANGED <<entry, sizes, rows, sequence, sent, queued, tries, changes>>

db_get_loop == Read("db_get", db_get(call.cap))
lww_register_get == Read("crdt_lww_get", crdt_lww_get(call.cap))
lww_map_get == Read("crdt_lww_map_get", crdt_lww_map_get(call.cap))
lww_map_entries == Read("crdt_lww_map_entries", crdt_lww_map_entries(call.cap))
orset_elements == Read("crdt_orset_elements", crdt_orset_elements(call.cap))
rga_values == Read("crdt_rga_values", crdt_rga_values(call.cap))
read_dynamic == Read("net_peers", net_peers(call.cap))

Fails(code) == call' = [call EXCEPT !.status = "failed", !.result.code = code]

\* Faulty variant: the room for the id is checked after the insertion.
crdt_rga_insert_late_check ==
    /\ queued < QueueLimit
    /\ tries' = tries + 1
    /\ sequence' = sequence \union {tries'}
    /\ IF IdSize > call.cap THEN Grow(TooSmall) /\ UNCHANGED <<sent, queued>>
       ELSE /\ sent' = sent \union {tries'}
            /\ queued' = queued + 1
            /\ call' = [call EXCEPT !.status = "done", !.result = [code |-> "ok", version |-> tries', size |-> IdSize]]
    /\ UNCHANGED <<entry, sizes, rows, changes>>

\* Every try generates an id; a place in the queue comes first, then the room
\* for the id, then the insertion, and last the operation.
crdt_rga_insert ==
    /\ \/ /\ queued = QueueLimit
          /\ Fails("ERR_INTERNAL")
          /\ UNCHANGED <<tries, sequence, sent, queued>>
       \/ /\ queued < QueueLimit
          /\ tries' = tries + 1
          /\ \/ IdSize > call.cap /\ Grow(TooSmall) /\ UNCHANGED <<sequence, sent, queued>>
             \/ IdSize <= call.cap /\ Fails("ERR_INTERNAL") /\ UNCHANGED <<sequence, sent, queued>>
             \/ /\ IdSize <= call.cap
                /\ sequence' = sequence \union {tries'}
                /\ sent' = sent \union {tries'}
                /\ queued' = queued + 1
                /\ call' = [call EXCEPT !.status = "done",
                                        !.result = [code |-> "ok", version |-> tries', size |-> IdSize]]
    /\ UNCHANGED <<entry, sizes, rows, changes>>

insert_after == call.status = "running" /\ call.api = "crdt_rga_insert" /\ crdt_rga_insert

-----------------------------------------------------------------------------
(* Others: db_set and db_delete of other guests, operations of peers, the  *)
(* broadcast loop.                                                         *)

\* The host refuses a value that is too long.
db_set(size) ==
    /\ changes < MaxChanges /\ size <= MaxValueLen
    /\ changes' = changes + 1
    /\ entry' = [version |-> changes + 2, size |-> size]
    /\ sizes' = [sizes EXCEPT ![changes + 2] = size]
    /\ UNCHANGED <<rows, sequence, sent, queued, call, tries>>

db_delete ==
    /\ changes < MaxChanges
    /\ changes' = changes + 1
    /\ entry' = Absent
    /\ UNCHANGED <<sizes, rows, sequence, sent, queued, call, tries>>

ChangeRows(n) ==
    /\ changes < MaxChanges /\ n # rows
    /\ changes' = changes + 1
    /\ rows' = n
    /\ UNCHANGED <<entry, sizes, sequence, sent, queued, call, tries>>

Queue ==
    /\ \/ queued < QueueLimit /\ changes < MaxChanges /\ changes' = changes + 1 /\ queued' = queued + 1
       \/ queued > 0 /\ queued' = queued - 1 /\ UNCHANGED changes
    /\ UNCHANGED <<entry, sizes, rows, sequence, sent, call, tries>>

GuestNext ==
    \/ \E api \in OneValue \union Lists \union {"crdt_rga_insert"} : Begin(api)
    \/ db_get_loop \/ lww_register_get \/ lww_map_get
    \/ lww_map_entries \/ orset_elements \/ rga_values \/ read_dynamic
    \/ insert_after
    \/ \E size \in 0 .. MaxValueLen + 1 : db_set(size)
    \/ db_delete
    \/ \E n \in 0 .. MaxRows : ChangeRows(n)
    \/ Queue

-----------------------------------------------------------------------------
(* An insertion that succeeds, after however many tries, has put one       *)
(* element into the sequence and one operation into the queue, those of    *)
(* the id that the guest gets; one that fails has put none (the size of    *)
(* the id is checked before the insertion, crdt.rs:1239).                  *)
InsertedOnce ==
    call.api = "crdt_rga_insert" =>
        sequence = sent /\ sequence = IF call.status = "done" THEN {call.result.version} ELSE {}

(* A value that is read is one whole version, never the start of one that  *)
(* grew between two tries (db.rs:196, net.rs:32).                          *)
ReadIsWhole ==
    call.status = "done" /\ call.api \in OneValue /\ call.result.code = "ok" =>
        call.result.version > 0 /\ call.result.size = sizes[call.result.version]

(* Whatever value the host accepts can be read back: the buffers double up *)
(* to the largest value exactly, also while the value changes; only a list *)
(* can be too long to be read (the SDK's db.rs:354).                       *)
AcceptedIsReadable ==
    call.status = "failed" /\ call.api \in OneValue \union Lists =>
        call.api \in Lists /\ 1 + MaxRows * RowSize > MaxCap

(* A call that is repeated with a larger buffer has its effect once and    *)
(* returns a whole value (crdt_rga_insert, db_get and their SDK loops).    *)
CallsAreFaithful ==
    /\ InsertedOnce
    /\ ReadIsWhole
    /\ AcceptedIsReadable
=============================================================================
