----------------------------- MODULE Encodings -----------------------------
(***************************************************************************)
(* The byte layouts that two sides write and read by hand: the lists that  *)
(* host calls copy into a guest's memory and the SDK parses, the migration *)
(* checkpoint and the schema header in the store, and the variants of wire *)
(* messages, which are written as one enumeration and read as another.     *)
(* A buffer is a sequence of cells: an integer of any width is one cell, a *)
(* byte is one, NotUtf8 is a byte that no string contains, and of a        *)
(* message the format byte and the tags of its variants are left.  JSON is *)
(* taken up to white space and unknown fields.  A parser is given what the *)
(* other side encoded, or any other bytes.                                 *)
(***************************************************************************)
EXTENDS Integers, Sequences, SequencesExt

CONSTANTS
    MaxCells,     \* the longest buffer that was not encoded
    MaxField,     \* the longest key, value or string
    MaxItems      \* the longest list

VARIABLES
    layout,       \* what the buffer is read as
    buffer,
    origin,       \* the encoded value, a set of at most one
    parsed        \* what the parsers returned so far: nothing, or one result

encodingVars == <<layout, buffer, origin, parsed>>

Cells == 0 .. 2
NotUtf8 == 2
Magic == 2
FormatVersion == 1
Table == 1               \* the table under whose key a header or a checkpoint lies
Unread == <<>>

Bytes == UNION {[1 .. n -> Cells] : n \in 0 .. MaxField}
Strings == {s \in Bytes : NotUtf8 \notin ToSet(s)}

-----------------------------------------------------------------------------
(* Encoders.  An item of a list is a sequence of one or two fields.        *)

Length(field) == <<Len(field)>>

encode_keys(key) == Length(key[1]) \o key[1]
encode_string_list(value) == Length(value[1]) \o value[1]
encode_bytes_list(value) == Length(value[1]) \o value[1]
encode_scan_rows(row) == Length(row[1]) \o Length(row[2]) \o row[1] \o row[2]
encode_peers(peer) == Length(peer[1]) \o Length(peer[2]) \o peer[1] \o peer[2]
encode_lww_map_entries(entry) == Length(entry[1]) \o entry[1] \o Length(entry[2]) \o entry[2]

\* No last key and an empty last key are written alike.
EncodeCheckpoint(checkpoint) ==
    <<Magic, FormatVersion, Table, checkpoint.from, checkpoint.to>>
        \o Length(checkpoint.key) \o checkpoint.key

EncodeHeader(header) == <<Magic, header.version, Table>>

\* Variants in the order of their declaration.  Messages are sent as Message,
\* those of the bootstrap exchange as WireMessage, and all are read as WireMessage.
MessageKind == <<"Hello", "HelloAck", "PushOps", "PushOpsAck", "PullSince", "Ping", "Pong", "Error">>
WireMessageKind == <<"Hello", "HelloAck", "PushOps", "PushOpsAck", "PullSince", "Ping", "Pong", "Error",
                     "BootstrapHello", "BootstrapAck">>
WireError == <<"ProtocolMismatch", "OpRejected", "RateLimited", "NotAuthorized", "Internal">>
ProtocolWireError == <<"ProtocolMismatch", "OpRejected", "RateLimited", "NotAuthorized", "Internal",
                       "BootstrapRejected">>
WireByte == [Json |-> 1, Bincode |-> 2]

\* Binary tags count the variants, JSON names them.
Names == WireMessageKind \o ProtocolWireError
Position(variants, name) == CHOOSE i \in DOMAIN variants : variants[i] = name
Tag(format, variants, name) ==
    IF format = "Bincode" THEN Position(variants, name) - 1 ELSE Len(WireMessageKind) + Position(Names, name)
Tags == 0 .. Len(WireMessageKind) + Len(Names)

EncodeVariants(kinds, errors, message) ==
    <<WireByte[message.format], Tag(message.format, kinds, message.kind)>>
        \o IF message.kind = "Error" THEN <<Tag(message.format, errors, message.error)>> ELSE <<>>
EncodeMessage(message) == EncodeVariants(MessageKind, WireError, message)
EncodeWireMessage(message) == EncodeVariants(WireMessageKind, ProtocolWireError, message)

Variants(kinds, errors) ==
    [format : DOMAIN WireByte, kind : ToSet(kinds) \ {"Error"}, error : {"none"}]
        \union [format : DOMAIN WireByte, kind : {"Error"}, error : ToSet(errors)]
Messages == Variants(MessageKind, WireError)
WireMessages == Variants(<<"Error", "BootstrapHello", "BootstrapAck">>, ProtocolWireError)

EncodeItem(l, item) ==
    CASE l = "keys" -> encode_keys(item)
      [] l = "elements" -> encode_string_list(item)
      [] l = "values" -> encode_bytes_list(item)
      [] l = "rows" -> encode_scan_rows(item)
      [] l = "peers" -> encode_peers(item)
      [] l = "entries" -> encode_lww_map_entries(item)

Encoded(l, value) ==
    CASE l = "checkpoint" -> EncodeCheckpoint(value)
      [] l = "header" -> EncodeHeader(value)
      [] l = "message" -> EncodeMessage(value)
      [] l = "bootstrap" -> EncodeWireMessage(value)
      [] OTHER -> <<Len(value)>> \o FlattenSeq([i \in DOMAIN value |-> EncodeItem(l, value[i])])

\* The items that each layout is used for.
Items(l) ==
    CASE l \in {"keys", "values"} -> {<<f>> : f \in Bytes}
      [] l = "elements" -> {<<f>> : f \in Strings}
      [] l = "rows" -> Bytes \X Bytes
      [] l = "peers" -> Strings \X Strings
      [] l = "entries" -> Strings \X Bytes

Values(l) ==
    CASE l = "checkpoint" -> [from : Cells, to : Cells, key : Bytes]
      [] l = "header" -> [version : Cells]
      [] l = "message" -> Messages
      [] l = "bootstrap" -> WireMessages
      [] OTHER -> UNION {[1 .. n -> Items(l)] : n \in 0 .. MaxItems}

Layouts == {"keys", "values", "elements", "rows", "peers", "entries", "checkpoint", "header", "message", "bootstrap"}

-----------------------------------------------------------------------------
(* Parsers: a set with the result, empty for an error.                     *)

Result(condition, result) == IF condition THEN {result} ELSE {}

read_u32_le(buf, at) == Result(at <= Len(buf), [value |-> buf[at], next |-> at + 1])

Field(buf, at, len) == Result(at + len <= Len(buf) + 1, [item |-> <<SubSeq(buf, at, at + len - 1)>>, next |-> at + len])

\* One field behind its own length.
Single(buf, at) == UNION {Field(buf, len.next, len.value) : len \in read_u32_le(buf, at)}

\* The first field and the one behind it.
Both(first, second) == {[item |-> first.item \o s.item, next |-> s.next] : s \in second}

\* Two fields behind their two lengths.
Pair(buf, at) ==
    UNION {UNION {UNION {Both(f, Field(buf, f.next, l2.value)) : f \in Field(buf, l2.next, l1.value)}
                  : l2 \in read_u32_le(buf, l1.next)}
           : l1 \in read_u32_le(buf, at)}

from_utf8(field) == NotUtf8 \notin ToSet(field)

parse_keys(buf, at) == Single(buf, at)
parse_values(buf, at) == Single(buf, at)
parse_elements(buf, at) == {e \in Single(buf, at) : from_utf8(e.item[1])}
parse_scan_rows(buf, at) == Pair(buf, at)
parse_peers(buf, at) == {p \in Pair(buf, at) : from_utf8(p.item[1]) /\ from_utf8(p.item[2])}

\* Faulty variant: both lengths are expected before both fields.
parse_entries_lengths_first(buf, at) == {e \in Pair(buf, at) : from_utf8(e.item[1])}

parse_entries(buf, at) ==
    UNION {Both(f, Single(buf, f.next)) : f \in {s \in Single(buf, at) : from_utf8(s.item[1])}}

ParseItem(l, buf, at) ==
    CASE l = "keys" -> parse_keys(buf, at)
      [] l = "values" -> parse_values(buf, at)
      [] l = "elements" -> parse_elements(buf, at)
      [] l = "rows" -> parse_scan_rows(buf, at)
      [] l = "peers" -> parse_peers(buf, at)
      [] l = "entries" -> parse_entries(buf, at)

AllRead(buf, next) == next = Len(buf) + 1

\* The count, that many items, and nothing behind them.
ParseList(l, buf) ==
    LET first[n \in Cells] ==
            IF n = 0 THEN {[items |-> <<>>, next |-> 2]}
            ELSE UNION {{[items |-> Append(p.items, i.item), next |-> i.next] : i \in ParseItem(l, buf, p.next)}
                        : p \in first[n - 1]}
    IN UNION {{p.items : p \in {q \in first[count.value] : AllRead(buf, q.next)}} : count \in read_u32_le(buf, 1)}

DecodeCheckpoint(buf) ==
    IF Len(buf) < 6 \/ SubSeq(buf, 1, 3) # <<Magic, FormatVersion, Table>> \/ Len(buf) # 6 + buf[6] THEN {}
    ELSE {[from |-> buf[4], to |-> buf[5], key |-> SubSeq(buf, 7, Len(buf))]}

DecodeHeader(buf) ==
    IF Len(buf) # 3 \/ buf[1] # Magic \/ buf[3] # Table THEN {} ELSE {[version |-> buf[2]]}

Untag(format, variants, cell) == {name \in ToSet(variants) : Tag(format, variants, name) = cell}

\* The format byte, the variant, and in an error its variant, exactly.
DecodeWireMessage(buf) ==
    IF Len(buf) < 2 THEN {}
    ELSE UNION {UNION {{[format |-> format, kind |-> kind, error |-> error]
                        : error \in IF kind # "Error" THEN Result(Len(buf) = 2, "none")
                                     ELSE IF Len(buf) = 3 THEN Untag(format, ProtocolWireError, buf[3]) ELSE {}}
                       : kind \in Untag(format, WireMessageKind, buf[2])}
                : format \in {f \in DOMAIN WireByte : WireByte[f] = buf[1]}}

\* WireError::try_from and Message::try_from.
IsPublicError(error) == error # "BootstrapRejected"
IsPublic(message) == message.kind \notin {"BootstrapHello", "BootstrapAck"} /\ IsPublicError(message.error)

Parsed(l, buf) ==
    CASE l = "checkpoint" -> DecodeCheckpoint(buf)
      [] l = "header" -> DecodeHeader(buf)
      [] l = "message" -> {message \in DecodeWireMessage(buf) : IsPublic(message)}
      [] l = "bootstrap" -> DecodeWireMessage(buf)
      [] OTHER -> ParseList(l, buf)

-----------------------------------------------------------------------------
EncodingsInit ==
    /\ layout \in Layouts
    /\ buffer = <<>> /\ origin = {} /\ parsed = Unread

Encode(value) ==
    /\ buffer = <<>> /\ parsed = Unread
    /\ buffer' = Encoded(layout, value)
    /\ origin' = {value}
    /\ UNCHANGED <<layout, parsed>>

\* Bytes that nobody encoded.
OfVariants == layout \in {"message", "bootstrap"}
Scribble(cell) ==
    /\ origin = {} /\ parsed = Unread /\ Len(buffer) < (IF OfVariants THEN 3 ELSE MaxCells)
    /\ buffer' = Append(buffer, cell)
    /\ UNCHANGED <<layout, origin, parsed>>

Parse ==
    /\ parsed = Unread
    /\ parsed' = <<Parsed(layout, buffer)>>
    /\ UNCHANGED <<layout, buffer, origin>>

EncodingsNext ==
    \/ \E value \in Values(layout) : Encode(value)
    \/ \E cell \in IF OfVariants /\ buffer # <<>> THEN Tags ELSE Cells : Scribble(cell)
    \/ Parse

-----------------------------------------------------------------------------
(* Whatever was encoded on one side is read back as it was on the other    *)
(* (lww_map.rs:174, net.rs:63 of the SDK, crdt.rs:141 of the host), a      *)
(* message also as the other enumeration (message.rs:429).                 *)
EncodedIsDecoded == parsed # Unread /\ origin # {} => parsed[1] = origin

(* A buffer that is accepted is the encoding of the value it is read as:   *)
(* nothing is missing, cut off or left over, and no two buffers are read   *)
(* as the same value (db.rs:99 of the SDK, migration.rs:325).              *)
DecodedIsEncoded == parsed # Unread => \A value \in parsed[1] : Encoded(layout, value) = buffer

(* Both sides of a layout agree on every buffer (the encoders of host_api, *)
(* the parsers of the SDK, migration.rs, message.rs).                      *)
EncodingsAgree == EncodedIsDecoded /\ DecodedIsEncoded
=============================================================================
