------------------------------- MODULE Frames -------------------------------
(***************************************************************************)
(* One direction of a connection: tasks of one node that write frames      *)
(* under the connection's lock, each with a timeout that may strike in the *)
(* middle of a frame, and the peer's read loop.  A frame is its length, a  *)
(* format byte and the payload, here cells of numbers.  In Bincode only    *)
(* the first cells of a payload are checked by decoding: tags, lengths and *)
(* counts; the bytes of a value behind them may be any.                    *)
(***************************************************************************)
EXTENDS Integers, FiniteSets, Sequences, SequencesExt

CONSTANTS
    Payload,          \* per format: the payload of every message, a sequence of cells
    Checked,          \* how many cells of a message's Bincode payload decoding checks
    Senders,          \* the tasks that write: broadcasts, answers, pongs
    MaxMessageSize,   \* max_message_size of the peer
    SocketBuffer      \* cells that the socket takes before the peer reads

VARIABLES
    prefers,      \* the serialization_format that both nodes are configured with
    sender,       \* what each task is doing: [phase, left]
    lock,         \* the task that holds the writer, or NoSender
    open,         \* the writing node still has the connection
    stream,       \* cells written and not read
    order,        \* history: the frames in the order of their first cells
    reader        \* the peer's read loop: [status, received], with whether a message is intact

frameVars == <<prefers, sender, lock, open, stream, order, reader>>

NoSender == "none"
Messages == DOMAIN Checked
WireByte == [Json |-> 1, Bincode |-> 2]

-----------------------------------------------------------------------------
(* The format, chosen by the accepting node.                               *)

supported_formats_for(preferred) == IF preferred = "Json" THEN <<"Json">> ELSE <<"Bincode", "Json">>

negotiate_serialization_format(preferred, peer_supported) ==
    LET local == supported_formats_for(preferred)
        shared == SelectSeq(local, LAMBDA format : format \in ToSet(peer_supported))
    IN IF preferred \in ToSet(peer_supported) \intersect ToSet(local) THEN preferred ELSE Head(shared)

Format == negotiate_serialization_format(prefers.acceptor, supported_formats_for(prefers.dialer))

-----------------------------------------------------------------------------
(* Writing.                                                                *)

encode_frame(message) == <<1 + Len(Payload[Format][message]), WireByte[Format]>> \o Payload[Format][message]

Idle == [phase |-> "idle", left |-> <<>>]

FramesInit ==
    /\ prefers \in [dialer : DOMAIN WireByte, acceptor : DOMAIN WireByte]
    /\ sender = [s \in Senders |-> Idle]
    /\ lock = NoSender /\ open = TRUE /\ stream = <<>> /\ order = <<>>
    /\ reader = [status |-> "reading", received |-> <<>>]

\* Every message is sent once, so that the order tells frames apart.
write_message(s, message) ==
    /\ open /\ sender[s].phase = "idle"
    /\ \A i \in DOMAIN order : order[i].message # message
    /\ \A t \in Senders : sender[t].phase # "idle" => sender[t].left # encode_frame(message)
    /\ sender' = [sender EXCEPT ![s] = [phase |-> "waiting", left |-> encode_frame(message)]]
    /\ UNCHANGED <<prefers, lock, open, stream, order, reader>>

Lock(s) ==
    /\ open /\ lock = NoSender /\ sender[s].phase = "waiting"
    /\ lock' = s
    /\ sender' = [sender EXCEPT ![s].phase = "writing"]
    /\ UNCHANGED <<prefers, open, stream, order, reader>>

MessageOf(cells) == CHOOSE m \in Messages : encode_frame(m) = cells

Began(s) == sender[s].left \notin {encode_frame(m) : m \in Messages}

\* The socket takes some cells; the last of them completes the frame.
WriteSome(s, n) ==
    /\ lock = s /\ sender[s].phase = "writing"
    /\ n <= Len(sender[s].left) /\ Len(stream) + n <= SocketBuffer
    /\ LET left == SubSeq(sender[s].left, n + 1, Len(sender[s].left))
           began == IF Began(s) THEN order ELSE Append(order, [message |-> MessageOf(sender[s].left), whole |-> FALSE])
       IN /\ stream' = IF reader.status = "reading" THEN stream \o SubSeq(sender[s].left, 1, n) ELSE stream
          /\ order' = IF left = <<>> THEN [began EXCEPT ![Len(began)].whole = TRUE] ELSE began
          /\ sender' = [sender EXCEPT ![s].left = left]
    /\ UNCHANGED <<prefers, lock, open, reader>>

write_bytes(s) ==
    /\ lock = s /\ sender[s].phase = "writing" /\ sender[s].left = <<>>
    /\ lock' = NoSender
    /\ sender' = [sender EXCEPT ![s] = Idle]
    /\ UNCHANGED <<prefers, open, stream, order, reader>>

\* A timeout or an error drops the lock; other tasks may write before the
\* connection is given up.
WriteFails(s) ==
    /\ lock = s /\ sender[s].phase = "writing"
    /\ lock' = NoSender
    /\ sender' = [sender EXCEPT ![s] = [phase |-> "failed", left |-> <<>>]]
    /\ UNCHANGED <<prefers, open, stream, order, reader>>

mark_peer_failed(s) ==
    /\ sender[s].phase = "failed"
    /\ open' = FALSE
    /\ sender' = [sender EXCEPT ![s] = Idle]
    /\ UNCHANGED <<prefers, lock, stream, order, reader>>

\* The end of the connection cancels whoever waits or writes.
while_connection_open(s) ==
    /\ ~open /\ sender[s].phase \in {"waiting", "writing"}
    /\ lock' = IF lock = s THEN NoSender ELSE lock
    /\ sender' = [sender EXCEPT ![s] = Idle]
    /\ UNCHANGED <<prefers, open, stream, order, reader>>

-----------------------------------------------------------------------------
(* Reading.                                                                *)

\* A JSON text has no control characters, so that the length of another frame
\* in it is refused; a Bincode payload of the right length is a message if the
\* cells that are checked are.
Decodes(format, cells, m) ==
    LET payload == Payload[format][m]
        checked == IF format = "Json" THEN Len(payload) ELSE Checked[m]
    IN Len(cells) = Len(payload) /\ SubSeq(cells, 1, checked) = SubSeq(payload, 1, checked)

\* The message of a frame's cells after the length, or nothing; the frame's own
\* byte tells the format.
decode_frame(cells) ==
    IF cells = <<>> THEN {}
    ELSE UNION {{[message |-> m, intact |-> Tail(cells) = Payload[format][m]] :
                    m \in {n \in Messages : Decodes(format, Tail(cells), n)}} :
                format \in {f \in DOMAIN WireByte : WireByte[f] = Head(cells)}}

ReadEnds(why) == reader' = [reader EXCEPT !.status = why] /\ stream' = <<>>

Available == stream # <<>> /\ Len(stream) >= 1 + Head(stream)

\* Faulty variant: a frame that cannot be decoded is skipped.
read_messages_lenient(decoded) ==
    reader' = [reader EXCEPT !.received = IF decoded = {} THEN @ ELSE Append(@, CHOOSE m \in decoded : TRUE)]

\* Whatever is no message ends the loop and with it the connection.
read_messages(decoded) ==
    reader' = IF decoded = {} THEN [reader EXCEPT !.status = "invalid"]
              ELSE [reader EXCEPT !.received = Append(@, CHOOSE m \in decoded : TRUE)]

read_wire_message_with_format ==
    /\ reader.status = "reading"
    /\ stream # <<>>
    /\ \/ Head(stream) > MaxMessageSize /\ ReadEnds("too large")
       \/ /\ Head(stream) <= MaxMessageSize /\ Available
          /\ read_messages(decode_frame(SubSeq(stream, 2, 1 + Head(stream))))
          /\ stream' = SubSeq(stream, 2 + Head(stream), Len(stream))
    /\ UNCHANGED <<prefers, sender, lock, open, order>>

\* The timeout of either read, or the end of the stream.
ReadTimesOut ==
    /\ reader.status = "reading" /\ ~Available
    /\ ReadEnds("timeout")
    /\ UNCHANGED <<prefers, sender, lock, open, order>>

FramesNext ==
    \/ \E s \in Senders, m \in Messages : write_message(s, m)
    \/ \E s \in Senders : Lock(s) \/ write_bytes(s) \/ WriteFails(s) \/ mark_peer_failed(s) \/ while_connection_open(s)
    \/ \E s \in Senders, n \in 1 .. SocketBuffer : WriteSome(s, n)
    \/ read_wire_message_with_format
    \/ ReadTimesOut

-----------------------------------------------------------------------------
Cut(i) == ~order[i].whole

(* The peer takes the messages in the order of their frames, each once and *)
(* as it was sent, up to the first frame that was cut off.  In JSON it     *)
(* takes nothing from that frame or from behind it.  In Bincode it may     *)
(* take the cut message with the bytes of another frame for its value, and *)
(* then only if a task went on writing behind the cut (node.rs:887).       *)
ReadAsSent ==
    \A i \in DOMAIN reader.received :
        \/ /\ i <= Len(order) /\ reader.received[i] = [message |-> order[i].message, intact |-> TRUE]
           /\ \A j \in 1 .. i : ~Cut(j)
        \/ Format = "Bincode" /\ \E j \in 1 .. i : j < Len(order) /\ Cut(j)

(* A read loop that stops over a frame it cannot read has met one that was *)
(* cut off; one that it finds too large was too large or behind a cut: the *)
(* lock keeps frames apart and the length counts the format byte           *)
(* (message.rs:556).                                                       *)
OnlyCutsBreakFrames ==
    LET next == Len(reader.received) + 1
        spoilt == \E j \in 1 .. next : j \in DOMAIN order /\ Cut(j)
    IN /\ reader.status = "invalid" => spoilt
       /\ reader.status = "too large" =>
              spoilt \/ 1 + Len(Payload[Format][order[next].message]) > MaxMessageSize

(* Both nodes can read the format in which they write (node.rs:1456).      *)
FormatIsShared ==
    Format \in ToSet(supported_formats_for(prefers.dialer)) \intersect ToSet(supported_formats_for(prefers.acceptor))

(* The peer reads the messages as they were sent, in a format that it      *)
(* knows, up to a frame that was cut off, and in JSON nothing behind it    *)
(* (write_bytes, read_messages).                                           *)
FramesArrive ==
    /\ ReadAsSent
    /\ OnlyCutsBreakFrames
    /\ FormatIsShared
=============================================================================
