---------------------------- MODULE Connections ----------------------------
(***************************************************************************)
(* The connections of one node and the tasks that share them: callers of   *)
(* connect_to_peer, the listener and the handshakes it starts, one task    *)
(* per admitted connection, the tasks that write to peers, the event loop  *)
(* of the sync manager and the shutdown of the node.                       *)
(*                                                                         *)
(* Each attempt has a generation, its index in conn.  What a peer sends is *)
(* left out but for its kind; transport, TLS, protocol version, identity   *)
(* and timeouts decide only whether a handshake succeeds.                  *)
(***************************************************************************)
EXTENDS Integers, Sequences, FiniteSets

CONSTANTS
    Endpoints,  \* addresses that are dialed
    Sockets,    \* addresses that peers connect from
    MaxPeers,   \* permits of connection_slots
    QueueCap,   \* capacity of the event queue
    MaxGens,    \* bound: connection attempts in one behaviour
    Writers     \* tasks that write to peers, without the event loop

ASSUME ConnectionsAssumption ==
    /\ Endpoints \cap Sockets = {}
    /\ MaxPeers \in Nat
    /\ QueueCap \in Nat \ {0}
    /\ MaxGens \in Nat
    /\ "events" \notin Writers

VARIABLES
    conn,          \* per generation, its address, its phase and whether it is cancelled
    peers,         \* per address, the generation in the connection map or None
    slots,         \* free permits of connection_slots
    callers,       \* generations whose connect_to_peer has not returned
    attempts,      \* outbound_attempts: the endpoints being dialed
    attemptSlots,  \* free permits of outbound_attempt_slots
    writing,       \* per writer, the generations of its snapshot still to be written
    failed,        \* per writer, the generation whose failure it has to report, or None
    queue,         \* the event queue
    known,         \* active_connections of the sync manager, by address
    node           \* "open", "closing" or "closed"

dialVars == <<callers, attempts, attemptSlots>>
writerVars == <<writing, failed>>
vars == <<conn, peers, slots, dialVars, writerVars, queue, known, node>>

Addrs == Endpoints \cup Sockets

\* The event loop writes, too: it answers pulls.
AllWriters == Writers \cup {"events"}

None == 0

Phases == {"checked", "dialing", "accepted", "announcing", "reading", "reporting", "done"}

Connection == [addr : Addrs, phase : Phases, closed : BOOLEAN]

Event == [kind : {"connected", "disconnected", "ops", "pull"}, addr : Addrs]

Gens == DOMAIN conn

\* Phases in which an attempt holds a permit that is not in the map yet.
Handshaking == {"dialing", "accepted"}

\* Phases of tasks in the registry that shutdown joins.
InRegistry == Phases \ {"checked", "dialing", "done"}

connected_peer_count == Cardinality({a \in Addrs : peers[a] # None})

ensure_peer_slot_available(a) == peers[a] # None \/ connected_peer_count < MaxPeers

Init ==
    /\ conn = <<>>
    /\ peers = [a \in Addrs |-> None]
    /\ slots = MaxPeers
    /\ callers = {}
    /\ attempts = {}
    /\ attemptSlots = 1
    /\ writing = [w \in AllWriters |-> {}]
    /\ failed = [w \in AllWriters |-> None]
    /\ queue = <<>>
    /\ known = {}
    /\ node = "open"

-----------------------------------------------------------------------------
(* Steps that several actions share *)

\* A new attempt at address a.
NewAttempt(a, phase) ==
    /\ Len(conn) < MaxGens
    /\ conn' = Append(conn, [addr |-> a, phase |-> phase, closed |-> FALSE])

MoveTo(g, phase) == conn' = [conn EXCEPT ![g].phase = phase]

\* connect_to_peer returns or is dropped by its caller: its guards are released.
Return(g) ==
    /\ callers' = callers \ {g}
    /\ attempts' = IF g \in callers THEN attempts \ {conn[g].addr} ELSE attempts
    /\ attemptSlots' = IF g \in callers THEN attemptSlots + 1 ELSE attemptSlots

\* Faulty variant: whatever connection the address has counts as this one.
is_current_by_address(g) == peers[conn[g].addr] # None

\* Whether the entry of the map is still this generation's.
is_current(g) == peers[conn[g].addr] = g

\* remove_connection_if_current, once it found the entry: dropping the entry
\* frees its permit and cancels the users of the generation.
Remove(g, phase) ==
    /\ peers' = [peers EXCEPT ![conn[g].addr] = None]
    /\ slots' = slots + 1
    /\ conn' = [conn EXCEPT ![g].phase = phase, ![g].closed = TRUE]

\* Faulty variant: a full queue is never waited for.
SendNodeEvent_try(kind, a) ==
    queue' = IF Len(queue) < QueueCap THEN Append(queue, [kind |-> kind, addr |-> a]) ELSE queue

\* send_node_event: waits for room in the queue.  A full queue is not waited
\* for once the node shuts down: the event is lost.
SendNodeEvent(kind, a) ==
    \/ /\ Len(queue) < QueueCap
       /\ queue' = Append(queue, [kind |-> kind, addr |-> a])
    \/ /\ Len(queue) >= QueueCap
       /\ node # "open"
       /\ UNCHANGED queue

\* Faulty variant: the permit of a replaced connection is lost.
Insert_keeps_permit(g) ==
    /\ peers' = [peers EXCEPT ![conn[g].addr] = g]
    /\ UNCHANGED slots
    /\ conn' = [h \in Gens |->
                  IF h = g THEN [conn[h] EXCEPT !.phase = "announcing"]
                  ELSE IF h = peers[conn[g].addr] THEN [conn[h] EXCEPT !.closed = TRUE]
                  ELSE conn[h]]

\* The connection g takes its place in the map.  What it replaces is dropped,
\* which cancels it and frees its permit.
Insert(g) ==
    LET old == peers[conn[g].addr]
    IN  /\ peers' = [peers EXCEPT ![conn[g].addr] = g]
        /\ slots' = IF old = None THEN slots ELSE slots + 1
        /\ conn' = [h \in Gens |->
                      IF h = g THEN [conn[h] EXCEPT !.phase = "announcing"]
                      ELSE IF h = old THEN [conn[h] EXCEPT !.closed = TRUE]
                      ELSE conn[h]]

-----------------------------------------------------------------------------
(* Outbound: connect_to_peer *)

\* Neither shut down nor connected; both may have changed at the next step.
DialCheck(e) ==
    /\ node = "open"
    /\ peers[e] = None
    /\ NewAttempt(e, "checked")
    /\ UNCHANGED <<peers, slots, dialVars, writerVars, queue, known, node>>

\* The guard of the endpoint, the attempt slot and a permit, or an error.
DialAcquire(g) ==
    /\ conn[g].phase = "checked"
    /\ IF /\ node = "open" /\ conn[g].addr \notin attempts
          /\ attemptSlots > 0 /\ slots > 0
       THEN /\ MoveTo(g, "dialing")
            /\ slots' = slots - 1
            /\ callers' = callers \cup {g}
            /\ attempts' = attempts \cup {conn[g].addr}
            /\ attemptSlots' = attemptSlots - 1
       ELSE /\ MoveTo(g, "done")
            /\ UNCHANGED <<slots, dialVars>>
    /\ UNCHANGED <<peers, writerVars, queue, known, node>>

\* Transport or handshake fails or times out, or the caller gives up.
DialFails(g) ==
    /\ conn[g].phase = "dialing"
    /\ MoveTo(g, "done")
    /\ slots' = slots + 1
    /\ Return(g)
    /\ UNCHANGED <<peers, writerVars, queue, known, node>>

\* Faulty variant: a closed registry is not noticed.
DialSave_unregistered(g) ==
    /\ conn[g].phase = "dialing"
    /\ peers[conn[g].addr] = None
    /\ Insert(g)
    /\ UNCHANGED <<dialVars, writerVars, queue, known, node>>

\* The handshake succeeded.  Under the lock of the map: somebody else may have
\* connected; otherwise insert and register the task, and take the insertion
\* back if the registry is closed.
DialSave(g) ==
    /\ conn[g].phase = "dialing"
    /\ IF \/ peers[conn[g].addr] # None
          \/ ~ensure_peer_slot_available(conn[g].addr)
          \/ node # "open"
       THEN /\ MoveTo(g, "done")
            /\ slots' = slots + 1
            /\ Return(g)
            /\ UNCHANGED peers
       ELSE /\ Insert(g)
            /\ UNCHANGED dialVars
    /\ UNCHANGED <<writerVars, queue, known, node>>

\* The caller gives up while its connection waits to announce itself.
DialCancelled(g) ==
    /\ g \in callers
    /\ conn[g].phase = "announcing"
    /\ Return(g)
    /\ UNCHANGED <<conn, peers, slots, writerVars, queue, known, node>>

-----------------------------------------------------------------------------
(* Inbound: the listener and handle_incoming *)

\* Faulty variant: connections are accepted without a free permit.
Accept_unlimited(s) ==
    /\ node = "open"
    /\ NewAttempt(s, "accepted")
    /\ slots' = slots - 1
    /\ UNCHANGED <<peers, dialVars, writerVars, queue, known, node>>

\* Without a permit the connection is dropped: no step.
Accept(s) ==
    /\ node = "open"
    /\ slots > 0
    /\ NewAttempt(s, "accepted")
    /\ slots' = slots - 1
    /\ UNCHANGED <<peers, dialVars, writerVars, queue, known, node>>

\* The handshake fails, or it was a bootstrap exchange.
HandshakeEnds(g) ==
    /\ conn[g].phase = "accepted"
    /\ MoveTo(g, "done")
    /\ slots' = slots + 1
    /\ UNCHANGED <<peers, dialVars, writerVars, queue, known, node>>

\* Hello is answered and the connection saved.  The size of the map is checked
\* before the answer and again under the lock; the answer itself is a local step.
IncomingSave(g) ==
    /\ conn[g].phase = "accepted"
    /\ IF ensure_peer_slot_available(conn[g].addr)
       THEN Insert(g)
       ELSE /\ MoveTo(g, "done")
            /\ slots' = slots + 1
            /\ UNCHANGED peers
    /\ UNCHANGED <<dialVars, writerVars, queue, known, node>>

-----------------------------------------------------------------------------
(* The task of a connection, dialed or accepted *)

\* while_connection_open: cancellation and shutdown come first.
Open(g) == ~conn[g].closed /\ node = "open"

\* PeerConnected, unless the connection is cancelled while the queue is full.
Announce(g) ==
    /\ conn[g].phase = "announcing"
    /\ IF Open(g) THEN SendNodeEvent("connected", conn[g].addr) ELSE UNCHANGED queue
    /\ MoveTo(g, "reading")
    /\ Return(g)
    /\ UNCHANGED <<peers, slots, writerVars, known, node>>

\* The read loop hands on operations or a pull request.
Read(g, kind) ==
    /\ conn[g].phase = "reading"
    /\ Open(g)
    /\ SendNodeEvent(kind, conn[g].addr)
    /\ UNCHANGED <<conn, peers, slots, dialVars, writerVars, known, node>>

\* End of stream, an error, a timeout, cancellation or shutdown end the read
\* loop; then the cleanup under the lock of the map.  A task whose generation
\* was removed or replaced has nothing to report.
ReadEnds(g) ==
    /\ conn[g].phase = "reading"
    /\ IF is_current(g) THEN Remove(g, "reporting")
       ELSE MoveTo(g, "done") /\ UNCHANGED <<peers, slots>>
    /\ UNCHANGED <<dialVars, writerVars, queue, known, node>>

Report(g) ==
    /\ conn[g].phase = "reporting"
    /\ SendNodeEvent("disconnected", conn[g].addr)
    /\ MoveTo(g, "done")
    /\ UNCHANGED <<peers, slots, dialVars, writerVars, known, node>>

-----------------------------------------------------------------------------
(* Tasks that write: broadcast_message and send_message_to_addr *)

Idle(w) == writing[w] = {} /\ failed[w] = None

\* A snapshot of the connections, written to one after the other.
Snapshot(w) ==
    /\ Idle(w)
    /\ writing' = [writing EXCEPT ![w] = {peers[a] : a \in Addrs} \ {None}]
    /\ UNCHANGED <<conn, peers, slots, dialVars, failed, queue, known, node>>

WriteSucceeds(w, g) ==
    /\ failed[w] = None
    /\ g \in writing[w]
    /\ Open(g)
    /\ writing' = [writing EXCEPT ![w] = @ \ {g}]
    /\ UNCHANGED <<conn, peers, slots, dialVars, failed, queue, known, node>>

\* The write fails, times out or is cancelled; mark_peer_failed.
WriteFails(w, g) ==
    /\ failed[w] = None
    /\ g \in writing[w]
    /\ writing' = [writing EXCEPT ![w] = @ \ {g}]
    /\ IF is_current(g)
       THEN Remove(g, conn[g].phase) /\ failed' = [failed EXCEPT ![w] = g]
       ELSE UNCHANGED <<peers, slots, conn, failed>>
    /\ UNCHANGED <<dialVars, queue, known, node>>

\* The writer goes on when the queue has taken its report.
WriterReports(w) ==
    /\ failed[w] # None
    /\ SendNodeEvent("disconnected", conn[failed[w]].addr)
    /\ failed' = [failed EXCEPT ![w] = None]
    /\ UNCHANGED <<conn, peers, slots, dialVars, writing, known, node>>

-----------------------------------------------------------------------------
(* The event loop of the sync manager *)

\* active_connections after an event: a connection that has already ended is
\* not recorded.
Known(e) ==
    CASE e.kind = "connected" -> IF peers[e.addr] # None THEN known \cup {e.addr} ELSE known
      [] e.kind = "disconnected" -> known \ {e.addr}
      [] OTHER -> known

\* handle_node_event.  A pull is answered on the connection that its address
\* has now; the loop takes no other event before the answer is written.
HandleNodeEvent ==
    /\ queue # <<>>
    /\ Idle("events")
    /\ queue' = Tail(queue)
    /\ known' = Known(Head(queue))
    /\ writing' = [writing EXCEPT !["events"] =
                      IF Head(queue).kind = "pull" THEN {peers[Head(queue).addr]} \ {None} ELSE @]
    /\ UNCHANGED <<conn, peers, slots, dialVars, failed, node>>

-----------------------------------------------------------------------------
(* Shutdown of the node *)

\* The registry, the semaphores and every wait are closed.
ShutdownStarts ==
    /\ node = "open"
    /\ node' = "closing"
    /\ UNCHANGED <<conn, peers, slots, dialVars, writerVars, queue, known>>

\* The tasks have ended, or were aborted after a grace period; the map is
\* cleared.  Callers of connect_to_peer are nobody's tasks.
ShutdownEnds ==
    /\ node = "closing"
    /\ node' = "closed"
    /\ peers' = [a \in Addrs |-> None]
    /\ slots' = slots + Cardinality({g \in Gens : conn[g].phase = "accepted" \/ peers[conn[g].addr] = g})
    /\ conn' = [g \in Gens |-> IF conn[g].phase \in InRegistry
                               THEN [conn[g] EXCEPT !.phase = "done", !.closed = TRUE]
                               ELSE conn[g]]
    /\ LET left == {g \in callers : conn[g].phase \in InRegistry}
       IN  /\ callers' = callers \ left
           /\ attempts' = attempts \ {conn[g].addr : g \in left}
           /\ attemptSlots' = attemptSlots + Cardinality(left)
    /\ UNCHANGED <<writerVars, queue, known>>

-----------------------------------------------------------------------------
Dial == \/ \E e \in Endpoints : DialCheck(e)
        \/ \E g \in Gens : \/ DialAcquire(g)
                           \/ DialFails(g)
                           \/ DialSave(g)
                           \/ DialCancelled(g)

Incoming == \/ \E s \in Sockets : Accept(s)
            \/ \E g \in Gens : HandshakeEnds(g) \/ IncomingSave(g)

Task(g) == \/ Announce(g)
           \/ \E kind \in {"ops", "pull"} : Read(g, kind)
           \/ ReadEnds(g)
           \/ Report(g)

Write(w) == \/ \E g \in Gens : WriteSucceeds(w, g) \/ WriteFails(w, g)
            \/ WriterReports(w)

Next == \/ Dial
        \/ Incoming
        \/ \E g \in Gens : Task(g)
        \/ \E w \in Writers : Snapshot(w)
        \/ \E w \in AllWriters : Write(w)
        \/ HandleNodeEvent
        \/ ShutdownStarts
        \/ ShutdownEnds

Spec == Init /\ [][Next]_vars

\* Tasks are scheduled while they can go on, and the socket timeout ends every
\* write.  Nobody has to dial, to accept, to send or to shut down.
FairSpec ==
    /\ Spec
    /\ WF_vars(HandleNodeEvent)
    /\ \A w \in AllWriters : WF_vars(Write(w))
    /\ \A g \in 1..MaxGens : WF_vars(g \in Gens /\ Task(g))

-----------------------------------------------------------------------------
(* Properties *)

\* Every variable has its type.
TypeOK ==
    /\ conn \in Seq(Connection)
    /\ peers \in [Addrs -> Gens \cup {None}]
    /\ slots \in Nat
    /\ callers \subseteq Gens
    /\ attempts \subseteq Endpoints
    /\ attemptSlots \in Nat
    /\ writing \in [AllWriters -> SUBSET Gens]
    /\ failed \in [AllWriters -> Gens \cup {None}]
    /\ queue \in Seq(Event)
    /\ known \subseteq Addrs
    /\ node \in {"open", "closing", "closed"}

\* The generations that hold a permit: handshakes and entries of the map.
Holders == {g \in Gens : conn[g].phase \in Handshaking \/ peers[conn[g].addr] = g}

\* Permits are neither lost nor doubled when connections fail, are replaced,
\* are removed by two tasks at once or are taken back during a shutdown.
SlotsConserved == slots + Cardinality(Holders) = MaxPeers

\* A peer whose handshake has taken a permit is not refused afterwards: the
\* checks of the map's size behind the handshake never fail.
HandshakeIsAdmitted ==
    \A g \in Gens : conn[g].phase \in Handshaking => ensure_peer_slot_available(conn[g].addr)

\* One dial at a time, with one guard for its endpoint: no path out of
\* connect_to_peer, cancellation and shutdown included, keeps a guard.
GuardsMatchCallers ==
    /\ attempts = {conn[g].addr : g \in callers}
    /\ attemptSlots + Cardinality(callers) = 1
    /\ \A g \in callers : conn[g].phase \in {"dialing", "announcing"}

\* Every entry of the map has a task of its generation that will clean it up,
\* and every admitted generation that is not in the map any more is cancelled.
MapIsOwned ==
    \A g \in Gens :
        /\ conn[g].phase \in {"announcing", "reading"} => (conn[g].closed <=> peers[conn[g].addr] # g)
        /\ conn[g].phase \in {"reporting", "done"} => peers[conn[g].addr] # g
        /\ conn[g].phase \in Handshaking \cup {"checked"} => peers[conn[g].addr] # g /\ ~conn[g].closed
        /\ \A a \in Addrs : peers[a] = g => conn[g].addr = a

\* Nothing survives the end of shutdown but callers of connect_to_peer, and
\* those cannot bring a connection into the map any more.
ClosedIsEmpty ==
    node = "closed" => /\ \A a \in Addrs : peers[a] = None
                       /\ \A g \in Gens : conn[g].phase \notin InRegistry

\* The end of a generation is reported by one task, the one that removed it.
ReportedOnce ==
    /\ \A w \in AllWriters : failed[w] # None =>
          /\ conn[failed[w]].closed
          /\ conn[failed[w]].phase # "reporting"
          /\ \A v \in AllWriters : failed[v] = failed[w] => v = w
    /\ \A g \in Gens : conn[g].phase = "reporting" => conn[g].closed

\* A removal of address a is on its way to the event loop.
RemovalPending(a) ==
    \/ \E i \in DOMAIN queue : queue[i] = [kind |-> "disconnected", addr |-> a]
    \/ \E g \in Gens : conn[g].phase = "reporting" /\ conn[g].addr = a
    \/ \E w \in AllWriters : failed[w] # None /\ conn[failed[w]].addr = a

\* active_connections lists no ended connection for ever: its removal is on
\* its way, whatever the order in which the tasks reach the queue.
EndedIsForgotten ==
    node = "open" => \A a \in known : peers[a] # None \/ RemovalPending(a)

\* active_connections lists every connection that has been announced, once
\* the queue is empty and nobody waits to report.
ActiveIsKnown ==
    \A g \in Gens :
        /\ node = "open" /\ queue = <<>> /\ conn[g].phase = "reading"
        /\ peers[conn[g].addr] = g
        /\ ~RemovalPending(conn[g].addr)
        => conn[g].addr \in known

\* The event loop comes back to its queue: operations of peers are handled.
EventLoopReturns == []<>Idle("events")

\* Permits and guards come back on every path, and a permit is what a
\* handshake needs to be admitted (connect_to_peer, handle_incoming, the read
\* loop's cleanup, Node::shutdown).
PermitsConserved == SlotsConserved /\ GuardsMatchCallers /\ HandshakeIsAdmitted

\* The end of a connection reaches the event loop, from one task
\* (mark_peer_failed, send_node_event).
EndsAreReported == ReportedOnce /\ EndedIsForgotten
=============================================================================
