-------------------------------- MODULE Walk --------------------------------
(***************************************************************************)
(* Clients that read a collection page by page while others change it: the *)
(* management API's pages of keys, modules and peers, and the SDK's keys   *)
(* and scan, whose host calls are repeated with a larger buffer.  A page   *)
(* is one request or one host call; between two of them anything may be    *)
(* stored and deleted.                                                     *)
(***************************************************************************)
EXTENDS Integers, Sequences, FiniteSets, SequencesExt, StoreScan

CONSTANTS
    Keys,            \* numbers from 1, in the order of the store
    EmptyKey,        \* the least of them
    Reserved,        \* those under __nx/, which end with a module's record
    SizeOf,          \* bytes of a key in a page
    PageLimits,      \* what an API client may ask for
    ScanLimit,       \* DEFAULT_SCAN_LIMIT
    MaxBody,         \* MAX_RESPONSE_BODY_SIZE
    FirstCap, MaxCap,  \* the SDK's first and last buffer
    MaxWrites        \* bound: changes by others

VARIABLES
    collection,   \* the keys, or the addresses of the peers, that exist
    client,       \* the walk: [mode, cursor, cap, out, status]
    stable,       \* history: what existed during the whole walk
    ever,         \* history: what existed at some time during the walk
    changed       \* number of changes

walkVars == <<collection, client, stable, ever, changed>>

NoCursor == 0
ApiModes == {"keys", "modules", "peers"}
GuestModes == {"db_keys_after", "db_scan_after", "db_keys", "db_scan"}

WalkInit ==
    /\ collection \in SUBSET Keys
    /\ client \in [mode : ApiModes \union GuestModes, cursor : {NoCursor}, cap : {FirstCap},
                   out : {<<>>}, status : {"walking"}]
    /\ stable = collection
    /\ ever = collection
    /\ changed = 0

Size(items) == Total(SizeOf, ToSet(items))
SizeOfCursor(cursor) == IF cursor = NoCursor THEN 0 ELSE SizeOf[cursor]

-----------------------------------------------------------------------------
(* The runtime's collections; one item more than asked for tells whether   *)
(* there are more.                                                         *)

FirstOf(rows, limit) == SubSeq(rows, 1, Min({limit, Len(rows)}))

\* Faulty variant: the cursor is the first item of the next page.
ControlPage_beyond(rows, limit) ==
    [items |-> FirstOf(rows, limit),
     next_cursor |-> IF Len(rows) > limit THEN rows[limit + 1] ELSE NoCursor]

ControlPage(rows, limit) ==
    [items |-> FirstOf(rows, limit),
     next_cursor |-> IF Len(rows) > limit THEN rows[limit] ELSE NoCursor]

list_keys(cursor, limit) ==
    ControlPage(keys_prefix_page_after(collection, Keys, cursor, limit + 1, Reserved), limit)

\* Modules are the records under a reserved prefix.
list_modules(cursor, limit) ==
    ControlPage(scan_prefix_page_after(collection, Reserved, cursor, limit + 1, {}), limit)

\* Peers are no keys: their addresses in order, beyond the cursor.
list_peers(cursor, limit) ==
    ControlPage(FirstOf(Ordered({p \in collection : p > cursor}), limit + 1), limit)

\* The page with its last items left to the next page.
Shortened(page, n) ==
    [items |-> SubSeq(page.items, 1, n),
     next_cursor |-> IF n = Len(page.items) THEN page.next_cursor ELSE page.items[n]]

Fits(page) == Size(page.items) + SizeOfCursor(page.next_cursor) <= MaxBody

\* The longest page that fits the response, if its first item fits.
bounded_page(page) ==
    LET fitting == {n \in 1 .. Len(page.items) : Fits(Shortened(page, n))}
    IN IF page.items = <<>> THEN {page}
       ELSE {Shortened(page, n) : n \in {m \in fitting : \A l \in fitting : l <= m}}

\* One GET of a page with the cursor of the page before: its response, if any.
Get(mode, responses) ==
    /\ client.status = "walking" /\ client.mode = mode
    /\ \/ /\ responses = {}
          /\ client' = [client EXCEPT !.status = "failed"]
       \/ \E response \in responses :
             client' = [client EXCEPT !.out = @ \o response.items,
                                      !.cursor = response.next_cursor,
                                      !.status = IF response.next_cursor = NoCursor THEN "done" ELSE @]
    /\ UNCHANGED <<collection, stable, ever, changed>>

GetKeys(limit) == Get("keys", bounded_page(list_keys(client.cursor, limit)))
GetPeers(limit) == Get("peers", bounded_page(list_peers(client.cursor, limit)))
\* Ids have one length: a page of modules always fits.
GetModules(limit) == Get("modules", {list_modules(client.cursor, limit)})

-----------------------------------------------------------------------------
(* The SDK's loops.  The empty key has no bytes and, as a cursor, reads as *)
(* none; it cannot be the last key of a full page of more than one.        *)

read_scan_cursor(cursor) == IF cursor = EmptyKey THEN NoCursor ELSE cursor

db_keys_after(cursor) ==
    keys_prefix_page_after(collection, Keys, read_scan_cursor(cursor), ScanLimit, Reserved)
db_scan_after(cursor) ==
    scan_prefix_page_after(collection, Keys, read_scan_cursor(cursor), ScanLimit, Reserved)
db_keys(offset) == keys_prefix_page(collection, Keys, offset, ScanLimit, Reserved)
db_scan(offset) == scan_prefix_page(collection, Keys, offset, ScanLimit, Reserved)

\* The rows of a scan carry values, here of one byte.
encode_keys(page) == Size(page)
encode_scan_rows(page) == Size(page) + Len(page)

\* A page that does not fit is asked for again; the store may change meanwhile.
Grown ==
    IF 2 * client.cap > MaxCap THEN [client EXCEPT !.status = "failed"] ELSE [client EXCEPT !.cap = 2 * @]

\* keys and scan: a short page is the last.
Extended(page) ==
    [client EXCEPT !.out = @ \o page,
                   !.cap = FirstCap,
                   !.cursor = IF page = <<>> THEN @ ELSE Last(page),
                   !.status = IF Len(page) < ScanLimit THEN "done" ELSE @]

\* One host call of the SDK's loop.
HostCall(mode, page, bytes) ==
    /\ client.status = "walking" /\ client.mode = mode
    /\ client' = IF bytes > client.cap THEN Grown ELSE Extended(page)
    /\ UNCHANGED <<collection, stable, ever, changed>>

keys_page_after == \E page \in {db_keys_after(client.cursor)} : HostCall("db_keys_after", page, encode_keys(page))
scan_page_after == \E page \in {db_scan_after(client.cursor)} : HostCall("db_scan_after", page, encode_scan_rows(page))
keys_page == \E page \in {db_keys(Len(client.out))} : HostCall("db_keys", page, encode_keys(page))
scan_page == \E page \in {db_scan(Len(client.out))} : HostCall("db_scan", page, encode_scan_rows(page))

-----------------------------------------------------------------------------
(* Others: guests, operations of peers, connections that come and go.      *)

SetKey(k) ==
    /\ changed < MaxWrites /\ k \notin collection
    /\ collection' = collection \union {k}
    /\ ever' = ever \union {k}
    /\ changed' = changed + 1
    /\ UNCHANGED <<client, stable>>

DeleteKey(k) ==
    /\ changed < MaxWrites /\ k \in collection
    /\ collection' = collection \ {k}
    /\ stable' = stable \ {k}
    /\ changed' = changed + 1
    /\ UNCHANGED <<client, ever>>

WalkNext ==
    \/ \E limit \in PageLimits : GetKeys(limit) \/ GetPeers(limit) \/ GetModules(limit)
    \/ keys_page_after \/ scan_page_after \/ keys_page \/ scan_page
    \/ \E k \in Keys : SetKey(k) \/ DeleteKey(k)

-----------------------------------------------------------------------------
\* What a walk should return of a collection.
Shown(mode) ==
    CASE mode = "modules" -> Reserved
      [] mode = "peers" -> Keys
      [] OTHER -> Keys \ Reserved
ByCursor == client.mode \notin {"db_keys", "db_scan"}

(* A finished walk has everything that existed from its first page to its  *)
(* last, however pages were cut to the response limit and whatever was     *)
(* stored and deleted meanwhile (control.rs:199, routes.rs:427, the SDK's  *)
(* db.rs:287); pages by offset promise it only while nothing changes.      *)
WalkIsComplete ==
    client.status = "done" /\ (ByCursor \/ changed = 0) =>
        stable \intersect Shown(client.mode) \subseteq ToSet(client.out)

(* A walk returns nothing twice, in the order of the store, nothing that   *)
(* never existed and no reserved key, although a cursor may name a key     *)
(* that was deleted (store.rs:355).                                        *)
WalkIsExact ==
    /\ ToSet(client.out) \subseteq ever \intersect Shown(client.mode)
    /\ ByCursor \/ changed = 0 =>
          \A i \in 1 .. Len(client.out) - 1 : client.out[i] < client.out[i + 1]

(* An API walk fails only at an item that with its own cursor exceeds the  *)
(* response limit, never because many items are large (routes.rs:459).     *)
OnlyOversizedItemsFail ==
    client.status = "failed" /\ client.mode \in ApiModes =>
        \E k \in ever : SizeOf[k] * 2 > MaxBody

(* A walk returns what existed, completely and once, while others change   *)
(* the collection (list_keys and its like, bounded_page, the SDK's keys).  *)
WalkIsSound ==
    /\ WalkIsComplete
    /\ WalkIsExact
    /\ OnlyOversizedItemsFail
=============================================================================
