------------------------- MODULE ConnectionsProofs -------------------------
(***************************************************************************)
(* Proofs about Connections, for every set of addresses and writers, every *)
(* number of permits and every capacity of the event queue.                *)
(***************************************************************************)
EXTENDS Connections, FiniteSetTheorems, SequenceTheorems, TLAPS

-----------------------------------------------------------------------------
(* What the steps do to the generations. *)

\* The generation g moves to phase ph with its cancellation at cl.
Moved(g, ph, cl) ==
    /\ conn' \in Seq(Connection)
    /\ Gens' = Gens
    /\ \A h \in Gens : h # g => conn'[h] = conn[h]
    /\ conn'[g].addr = conn[g].addr
    /\ conn'[g].phase = ph
    /\ conn'[g].closed <=> cl

\* Generations are numbered from 1 and have an address, a phase and a flag.
LEMMA GensFacts ==
    ASSUME conn \in Seq(Connection)
    PROVE  /\ Gens = 1..Len(conn) /\ Len(conn) \in Nat
           /\ None \notin Gens
           /\ IsFiniteSet(Gens)
           /\ \A g \in Gens : /\ conn[g] \in Connection /\ conn[g].addr \in Addrs
                              /\ conn[g].phase \in Phases /\ conn[g].closed \in BOOLEAN
  <1>1. Gens = 1..Len(conn) /\ Len(conn) \in Nat
    BY DEF Gens
  <1>2. IsFiniteSet(Gens)
    BY <1>1, FS_Interval
  <1>3. None \notin Gens
    BY <1>1 DEF None
  <1>4. \A g \in Gens : conn[g] \in Connection
    BY <1>1
  <1>5. \A c \in Connection : c.addr \in Addrs /\ c.phase \in Phases /\ c.closed \in BOOLEAN
    BY DEF Connection
  <1> QED
    BY <1>1, <1>2, <1>3, <1>4, <1>5

\* Replacing the record of one generation.
LEMMA ReplaceFacts ==
    ASSUME conn \in Seq(Connection), NEW g \in Gens, NEW r \in Connection,
           conn' = [conn EXCEPT ![g] = r]
    PROVE  /\ conn' \in Seq(Connection) /\ Gens' = Gens
           /\ conn'[g] = r /\ \A h \in Gens : h # g => conn'[h] = conn[h]
  <1>1. g \in 1..Len(conn)
    BY GensFacts
  <1>2. conn' \in Seq(Connection) /\ Len(conn') = Len(conn)
    BY <1>1, ExceptSeq
  <1> QED
    BY <1>1, <1>2 DEF Gens

\* A record with a new phase.
LEMMA PhaseFacts ==
    ASSUME NEW c \in Connection, NEW ph \in Phases
    PROVE  /\ [c EXCEPT !.phase = ph] \in Connection
           /\ [c EXCEPT !.phase = ph] = [addr |-> c.addr, phase |-> ph, closed |-> c.closed]
  <1>1. [c EXCEPT !.phase = ph] \in Connection
    BY DEF Connection
  <1>2. [c EXCEPT !.phase = ph] = [addr |-> c.addr, phase |-> ph, closed |-> c.closed]
    BY DEF Connection
  <1> QED
    BY <1>1, <1>2

\* A record with a new flag.
LEMMA FlagFacts ==
    ASSUME NEW c \in Connection, NEW cl \in BOOLEAN
    PROVE  /\ [c EXCEPT !.closed = cl] \in Connection
           /\ [c EXCEPT !.closed = cl] = [addr |-> c.addr, phase |-> c.phase, closed |-> cl]
  <1>1. [c EXCEPT !.closed = cl] \in Connection
    BY DEF Connection
  <1>2. [c EXCEPT !.closed = cl] = [addr |-> c.addr, phase |-> c.phase, closed |-> cl]
    BY DEF Connection
  <1> QED
    BY <1>1, <1>2

\* A record with a new phase, cancelled.
LEMMA CancelFacts ==
    ASSUME NEW c \in Connection, NEW ph \in Phases
    PROVE  /\ [c EXCEPT !.phase = ph, !.closed = TRUE] \in Connection
           /\ [c EXCEPT !.phase = ph, !.closed = TRUE] =
                 [addr |-> c.addr, phase |-> ph, closed |-> TRUE]
           /\ [c EXCEPT !.closed = TRUE] \in Connection
           /\ [c EXCEPT !.closed = TRUE] =
                 [addr |-> c.addr, phase |-> c.phase, closed |-> TRUE]
  <1> DEFINE d == [c EXCEPT !.phase = ph]
  <1>1. d \in Connection /\ d.addr = c.addr /\ d.phase = ph
    <2>1. [addr |-> c.addr, phase |-> ph, closed |-> c.closed].addr = c.addr
      OBVIOUS
    <2>2. [addr |-> c.addr, phase |-> ph, closed |-> c.closed].phase = ph
      OBVIOUS
    <2> QED
      BY <2>1, <2>2, PhaseFacts
  <1>2. [c EXCEPT !.phase = ph, !.closed = TRUE] = [d EXCEPT !.closed = TRUE]
    OBVIOUS
  <1>3. TRUE \in BOOLEAN
    OBVIOUS
  <1> HIDE DEF d
  <1>4. /\ [d EXCEPT !.closed = TRUE] \in Connection
        /\ [d EXCEPT !.closed = TRUE] = [addr |-> d.addr, phase |-> d.phase, closed |-> TRUE]
    BY <1>1, <1>3, FlagFacts, Zenon
  <1>5. /\ [c EXCEPT !.closed = TRUE] \in Connection
        /\ [c EXCEPT !.closed = TRUE] = [addr |-> c.addr, phase |-> c.phase, closed |-> TRUE]
    BY <1>3, FlagFacts, Zenon
  <1> QED
    BY <1>1, <1>2, <1>4, <1>5, Zenon

\* Moving a generation to another phase.
LEMMA MoveFacts ==
    ASSUME conn \in Seq(Connection), NEW g \in Gens, NEW ph \in Phases, MoveTo(g, ph)
    PROVE  Moved(g, ph, conn[g].closed)
  <1> DEFINE r == [conn[g] EXCEPT !.phase = ph]
  <1>1. conn[g] \in Connection
    BY GensFacts
  <1>2. r \in Connection /\ r = [addr |-> conn[g].addr, phase |-> ph, closed |-> conn[g].closed]
    BY <1>1, PhaseFacts
  <1>3. conn' = [conn EXCEPT ![g] = r]
    BY DEF MoveTo
  <1>4. r.addr = conn[g].addr /\ r.phase = ph /\ r.closed = conn[g].closed
    BY <1>2
  <1> HIDE DEF r
  <1>5. /\ conn' \in Seq(Connection) /\ Gens' = Gens
        /\ conn'[g] = r /\ \A h \in Gens : h # g => conn'[h] = conn[h]
    BY <1>2, <1>3, ReplaceFacts
  <1> QED
    BY <1>4, <1>5 DEF Moved

\* Removing a generation from the map.
LEMMA RemoveFacts ==
    ASSUME conn \in Seq(Connection), NEW g \in Gens, NEW ph \in Phases, Remove(g, ph)
    PROVE  Moved(g, ph, TRUE)
  <1> DEFINE r == [conn[g] EXCEPT !.phase = ph, !.closed = TRUE]
  <1>1. conn[g] \in Connection
    BY GensFacts
  <1>2. r \in Connection /\ r = [addr |-> conn[g].addr, phase |-> ph, closed |-> TRUE]
    BY <1>1, CancelFacts, Zenon
  <1>3. conn' = [conn EXCEPT ![g] = r]
    BY DEF Remove
  <1>4. r.addr = conn[g].addr /\ r.phase = ph /\ r.closed
    BY <1>2
  <1> HIDE DEF r
  <1>5. /\ conn' \in Seq(Connection) /\ Gens' = Gens
        /\ conn'[g] = r /\ \A h \in Gens : h # g => conn'[h] = conn[h]
    BY <1>2, <1>3, ReplaceFacts
  <1> QED
    BY <1>4, <1>5 DEF Moved

\* A new generation.
LEMMA NewFacts ==
    ASSUME conn \in Seq(Connection), NEW a \in Addrs, NEW ph \in Phases, NewAttempt(a, ph)
    PROVE  LET new == Len(conn) + 1
           IN  /\ conn' \in Seq(Connection) /\ Gens' = Gens \cup {new} /\ new \notin Gens
               /\ new # None
               /\ \A h \in Gens : conn'[h] = conn[h]
               /\ conn'[new].addr = a /\ conn'[new].phase = ph /\ ~conn'[new].closed
  <1> DEFINE r == [addr |-> a, phase |-> ph, closed |-> FALSE]
  <1>1. r \in Connection /\ conn' = Append(conn, r)
    BY DEF NewAttempt, Connection
  <1> HIDE DEF r
  <1>2. /\ conn' \in Seq(Connection) /\ Len(conn') = Len(conn) + 1
        /\ \A h \in 1..Len(conn) : conn'[h] = conn[h]
        /\ conn'[Len(conn) + 1] = r
    BY <1>1, AppendProperties
  <1>3. Gens = 1..Len(conn) /\ Gens' = 1..Len(conn')
    BY <1>2 DEF Gens
  <1>4. r.addr = a /\ r.phase = ph /\ ~r.closed
    BY DEF r
  <1> QED
    BY <1>2, <1>3, <1>4 DEF None

\* The connection g enters the map; the one it replaces is cancelled.
LEMMA InsertFacts ==
    ASSUME conn \in Seq(Connection), NEW g \in Gens, Insert(g)
    PROVE  LET old == peers[conn[g].addr]
           IN  /\ conn' \in Seq(Connection) /\ Gens' = Gens
               /\ conn'[g].addr = conn[g].addr /\ conn'[g].phase = "announcing"
               /\ conn'[g].closed <=> conn[g].closed
               /\ old \in Gens \ {g} => /\ conn'[old].addr = conn[old].addr
                                        /\ conn'[old].phase = conn[old].phase
                                        /\ conn'[old].closed
               /\ \A h \in Gens : h \notin {g, old} => conn'[h] = conn[h]
  <1> DEFINE old == peers[conn[g].addr]
             new(h) == IF h = g THEN [conn[h] EXCEPT !.phase = "announcing"]
                       ELSE IF h = old THEN [conn[h] EXCEPT !.closed = TRUE]
                       ELSE conn[h]
  <1>1. conn' = [h \in Gens |-> new(h)]
    BY DEF Insert
  <1>2. Gens = 1..Len(conn) /\ Len(conn) \in Nat /\ \A h \in Gens : conn[h] \in Connection
    BY GensFacts
  <1>3. \A h \in Gens :
           /\ [conn[h] EXCEPT !.phase = "announcing"] =
                 [addr |-> conn[h].addr, phase |-> "announcing", closed |-> conn[h].closed]
           /\ [conn[h] EXCEPT !.closed = TRUE] =
                 [addr |-> conn[h].addr, phase |-> conn[h].phase, closed |-> TRUE]
           /\ new(h) \in Connection
    <2>1. "announcing" \in Phases
      BY DEF Phases
    <2>2. ASSUME NEW h \in Gens
          PROVE  /\ [conn[h] EXCEPT !.phase = "announcing"] =
                       [addr |-> conn[h].addr, phase |-> "announcing", closed |-> conn[h].closed]
                 /\ [conn[h] EXCEPT !.phase = "announcing"] \in Connection
      BY <1>2, <2>1, PhaseFacts
    <2>3. ASSUME NEW h \in Gens
          PROVE  /\ [conn[h] EXCEPT !.closed = TRUE] =
                       [addr |-> conn[h].addr, phase |-> conn[h].phase, closed |-> TRUE]
                 /\ [conn[h] EXCEPT !.closed = TRUE] \in Connection
      BY <1>2, <2>1, CancelFacts, Zenon
    <2>4. \A h \in Gens : new(h) \in Connection
      <3> HIDE DEF old
      <3> QED
        BY <1>2, <2>2, <2>3, Zenon
    <2> QED
      BY <2>2, <2>3, <2>4
  <1> HIDE DEF old
  <1>4. conn' \in Seq(Connection)
    <2>1. \A h \in 1..Len(conn) : new(h) \in Connection
      BY <1>2, <1>3
    <2>2. conn' = [h \in 1..Len(conn) |-> new(h)]
      BY <1>1, <1>2
    <2> HIDE DEF new
    <2> QED
      BY <1>2, <2>1, <2>2, IsASeq
  <1>5. Gens' = Gens
    BY <1>1 DEF Gens
  <1>6. \A h \in Gens : conn'[h] = new(h)
    BY <1>1
  <1>7. /\ conn'[g].addr = conn[g].addr /\ conn'[g].phase = "announcing"
        /\ conn'[g].closed <=> conn[g].closed
    BY <1>3, <1>6
  <1>8. ASSUME old \in Gens \ {g}
        PROVE  conn'[old].addr = conn[old].addr /\ conn'[old].phase = conn[old].phase /\ conn'[old].closed
    BY <1>3, <1>6, <1>8
  <1>9. \A h \in Gens : h \notin {g, old} => conn'[h] = conn[h]
    BY <1>6
  <1> QED
    BY <1>4, <1>5, <1>7, <1>8, <1>9 DEF old

\* The end of shutdown ends every task of the registry.
LEMMA EndFacts ==
    ASSUME conn \in Seq(Connection), ShutdownEnds
    PROVE  /\ conn' \in Seq(Connection) /\ Gens' = Gens
           /\ \A h \in Gens : IF conn[h].phase \in InRegistry
                              THEN /\ conn'[h].addr = conn[h].addr /\ conn'[h].phase = "done"
                                   /\ conn'[h].closed
                              ELSE conn'[h] = conn[h]
  <1> DEFINE new(h) == IF conn[h].phase \in InRegistry
                       THEN [conn[h] EXCEPT !.phase = "done", !.closed = TRUE]
                       ELSE conn[h]
  <1>1. conn' = [h \in Gens |-> new(h)]
    BY DEF ShutdownEnds
  <1>2. Gens = 1..Len(conn) /\ Len(conn) \in Nat /\ \A h \in Gens : conn[h] \in Connection
    BY GensFacts
  <1>3. "done" \in Phases
    BY DEF Phases
  <1>4. ASSUME NEW h \in Gens
        PROVE  /\ [conn[h] EXCEPT !.phase = "done", !.closed = TRUE] \in Connection
               /\ [conn[h] EXCEPT !.phase = "done", !.closed = TRUE] =
                     [addr |-> conn[h].addr, phase |-> "done", closed |-> TRUE]
    BY <1>2, <1>3, CancelFacts, Zenon
  <1>5. conn' \in Seq(Connection)
    <2>1. \A h \in Gens : new(h) \in Connection
      BY <1>2, <1>4, Zenon
    <2>2. conn' = [h \in 1..Len(conn) |-> new(h)]
      BY <1>1, <1>2
    <2> HIDE DEF new
    <2>3. \A h \in 1..Len(conn) : new(h) \in Connection
      BY <1>2, <2>1
    <2> QED
      BY <1>2, <2>2, <2>3, IsASeq
  <1>6. Gens' = Gens
    BY <1>1 DEF Gens
  <1>7. ASSUME NEW h \in Gens, conn[h].phase \in InRegistry
        PROVE  conn'[h].addr = conn[h].addr /\ conn'[h].phase = "done" /\ conn'[h].closed
    <2>1. conn'[h] = [addr |-> conn[h].addr, phase |-> "done", closed |-> TRUE]
      BY <1>1, <1>4, <1>7
    <2> QED
      BY <2>1
  <1>8. ASSUME NEW h \in Gens, conn[h].phase \notin InRegistry
        PROVE  conn'[h] = conn[h]
    BY <1>1, <1>8
  <1> QED
    BY <1>5, <1>6, <1>7, <1>8

-----------------------------------------------------------------------------
(* The map, the phases and the permits. *)

\* A dial is a dial of an endpoint.
DialedAreEndpoints ==
    \A g \in Gens : conn[g].phase \in {"checked", "dialing"} => conn[g].addr \in Endpoints

OwnedInv == DialedAreEndpoints /\ MapIsOwned /\ ClosedIsEmpty

\* The steps, as far as they concern generations, map and permits: nothing; a
\* new attempt; a generation in its next phase; a removal; an entry; the end.
ConnChange ==
    \/ /\ UNCHANGED <<conn, peers, slots>>
       /\ node' = node \/ (node = "open" /\ node' = "closing")
    \/ /\ node = "open" /\ UNCHANGED <<peers, node>>
       /\ \/ \E a \in Endpoints : NewAttempt(a, "checked") /\ UNCHANGED slots
          \/ \E a \in Sockets : NewAttempt(a, "accepted") /\ slots > 0 /\ slots' = slots - 1
    \/ \E g \in Gens :
          /\ UNCHANGED <<peers, node>>
          /\ \/ conn[g].phase = "checked" /\ MoveTo(g, "dialing") /\ slots > 0 /\ slots' = slots - 1
             \/ conn[g].phase \in {"checked", "reporting"} /\ MoveTo(g, "done") /\ UNCHANGED slots
             \/ /\ conn[g].phase = "reading" /\ ~is_current(g)
                /\ MoveTo(g, "done") /\ UNCHANGED slots
             \/ conn[g].phase = "announcing" /\ MoveTo(g, "reading") /\ UNCHANGED slots
             \/ conn[g].phase \in Handshaking /\ MoveTo(g, "done") /\ slots' = slots + 1
    \/ \E g \in Gens :
          /\ is_current(g) /\ UNCHANGED node
          /\ \/ conn[g].phase = "reading" /\ Remove(g, "reporting")
             \/ Remove(g, conn[g].phase)
    \/ \E g \in Gens :
          /\ conn[g].phase \in Handshaking /\ Insert(g) /\ UNCHANGED node
          /\ conn[g].phase = "dialing" => node = "open"
    \/ ShutdownEnds

\* Every step is one of them.
LEMMA Classified ==
    ASSUME TypeOK, [Next]_vars
    PROVE  ConnChange
  <1>1. ASSUME Dial PROVE ConnChange
    <2>1. ASSUME NEW e \in Endpoints, DialCheck(e) PROVE ConnChange
      BY <2>1 DEF DialCheck, ConnChange
    <2>2. ASSUME NEW g \in Gens, DialAcquire(g) PROVE ConnChange
      BY <2>2 DEF DialAcquire, ConnChange
    <2>3. ASSUME NEW g \in Gens, DialFails(g) PROVE ConnChange
      BY <2>3 DEF DialFails, ConnChange, Handshaking
    <2>4. ASSUME NEW g \in Gens, DialSave(g) PROVE ConnChange
      <3>1. CASE MoveTo(g, "done") /\ slots' = slots + 1 /\ UNCHANGED peers
        BY <2>4, <3>1 DEF DialSave, ConnChange, Handshaking
      <3>2. CASE node = "open" /\ Insert(g)
        BY <2>4, <3>2 DEF DialSave, ConnChange, Handshaking
      <3> QED
        BY <2>4, <3>1, <3>2 DEF DialSave
    <2>5. ASSUME NEW g \in Gens, DialCancelled(g) PROVE ConnChange
      BY <2>5 DEF DialCancelled, ConnChange
    <2> QED
      BY <1>1, <2>1, <2>2, <2>3, <2>4, <2>5 DEF Dial
  <1>2. ASSUME Incoming PROVE ConnChange
    <2>1. ASSUME NEW s \in Sockets, Accept(s) PROVE ConnChange
      BY <2>1 DEF Accept, ConnChange
    <2>2. ASSUME NEW g \in Gens, HandshakeEnds(g) PROVE ConnChange
      BY <2>2 DEF HandshakeEnds, ConnChange, Handshaking
    <2>3. ASSUME NEW g \in Gens, IncomingSave(g) PROVE ConnChange
      <3>1. CASE MoveTo(g, "done") /\ slots' = slots + 1 /\ UNCHANGED peers
        BY <2>3, <3>1 DEF IncomingSave, ConnChange, Handshaking
      <3>2. CASE Insert(g)
        BY <2>3, <3>2 DEF IncomingSave, ConnChange, Handshaking
      <3> QED
        BY <2>3, <3>1, <3>2 DEF IncomingSave
    <2> QED
      BY <1>2, <2>1, <2>2, <2>3 DEF Incoming
  <1>3. ASSUME NEW g \in Gens, Task(g) PROVE ConnChange
    <2>1. CASE Announce(g)
      BY <2>1 DEF Announce, ConnChange
    <2>2. ASSUME NEW kind, Read(g, kind) PROVE ConnChange
      BY <2>2 DEF Read, ConnChange
    <2>3. CASE ReadEnds(g)
      BY <2>3 DEF ReadEnds, ConnChange
    <2>4. CASE Report(g)
      BY <2>4 DEF Report, ConnChange
    <2> QED
      BY <1>3, <2>1, <2>2, <2>3, <2>4 DEF Task
  <1>4. ASSUME NEW w \in Writers, Snapshot(w) PROVE ConnChange
    BY <1>4 DEF Snapshot, ConnChange
  <1>5. ASSUME NEW w \in AllWriters, Write(w) PROVE ConnChange
    <2>1. ASSUME NEW g \in Gens, WriteSucceeds(w, g) PROVE ConnChange
      BY <2>1 DEF WriteSucceeds, ConnChange
    <2>2. ASSUME NEW g \in Gens, WriteFails(w, g) PROVE ConnChange
      BY <2>2 DEF WriteFails, ConnChange
    <2>3. CASE WriterReports(w)
      BY <2>3 DEF WriterReports, ConnChange
    <2> QED
      BY <1>5, <2>1, <2>2, <2>3 DEF Write
  <1>6. CASE HandleNodeEvent
    BY <1>6 DEF HandleNodeEvent, ConnChange
  <1>7. CASE ShutdownStarts
    BY <1>7 DEF ShutdownStarts, ConnChange
  <1>8. CASE ShutdownEnds
    BY <1>8 DEF ConnChange
  <1>9. CASE UNCHANGED vars
    BY <1>9 DEF vars, ConnChange
  <1> QED
    BY <1>1, <1>2, <1>3, <1>4, <1>5, <1>6, <1>7, <1>8, <1>9 DEF Next

\* What every step keeps: types of the generations, the map and the permits,
\* and the address of a generation.
CoreType ==
    /\ conn \in Seq(Connection)
    /\ peers \in [Addrs -> Gens \cup {None}]
    /\ slots \in Nat
    /\ node \in {"open", "closing", "closed"}

Stable == Gens \subseteq Gens' /\ \A g \in Gens : conn'[g].addr = conn[g].addr

\* The phases a generation can be in while it is in the map.
LEMMA CurrentPhase ==
    ASSUME CoreType, OwnedInv, NEW g \in Gens, is_current(g)
    PROVE  conn[g].phase \in {"announcing", "reading"} /\ ~conn[g].closed
  <1>1. conn[g].phase \in Phases
    BY GensFacts DEF CoreType
  <1> QED
    BY <1>1 DEF OwnedInv, MapIsOwned, is_current, Phases, Handshaking

\* A new attempt.
LEMMA NewStep ==
    ASSUME CoreType, OwnedInv, UNCHANGED <<peers, node>>, slots' \in Nat, node = "open",
           NEW a \in Addrs, NEW ph \in {"checked", "accepted"}, NewAttempt(a, ph),
           ph = "checked" => a \in Endpoints
    PROVE  CoreType' /\ OwnedInv' /\ Stable
  <1> DEFINE new == Len(conn) + 1
  <1>1. ph \in Phases
    BY DEF Phases
  <1>2. /\ conn' \in Seq(Connection) /\ Gens' = Gens \cup {new} /\ new \notin Gens /\ new # None
        /\ \A h \in Gens : conn'[h] = conn[h]
        /\ conn'[new].addr = a /\ conn'[new].phase = ph /\ ~conn'[new].closed
    BY <1>1, NewFacts DEF CoreType
  <1> HIDE DEF new
  <1>3. CoreType'
    BY <1>2 DEF CoreType
  <1>4. \A b \in Addrs : peers[b] # new
    BY <1>2 DEF CoreType
  <1>5. DialedAreEndpoints'
    BY <1>2 DEF OwnedInv, DialedAreEndpoints
  <1>6. MapIsOwned'
    <2>1. ASSUME NEW h \in Gens
          PROVE  /\ conn'[h].phase \in {"announcing", "reading"} =>
                       (conn'[h].closed <=> peers'[conn'[h].addr] # h)
                 /\ conn'[h].phase \in {"reporting", "done"} => peers'[conn'[h].addr] # h
                 /\ conn'[h].phase \in Handshaking \cup {"checked"} =>
                       peers'[conn'[h].addr] # h /\ ~conn'[h].closed
                 /\ \A b \in Addrs : peers'[b] = h => conn'[h].addr = b
      BY <1>2 DEF OwnedInv, MapIsOwned
    <2>2. /\ conn'[new].phase \notin {"announcing", "reading", "reporting", "done"}
          /\ ~conn'[new].closed /\ peers'[conn'[new].addr] # new
          /\ \A b \in Addrs : peers'[b] # new
      BY <1>2, <1>4
    <2> QED
      BY <1>2, <2>1, <2>2 DEF MapIsOwned
  <1>7. ClosedIsEmpty'
    BY DEF ClosedIsEmpty
  <1> QED
    BY <1>2, <1>3, <1>5, <1>6, <1>7 DEF OwnedInv, Stable

\* A generation that is not in the map goes to its next phase, or one in the
\* map begins to read.
LEMMA PhaseStep ==
    ASSUME CoreType, OwnedInv, UNCHANGED <<peers, node>>, slots' \in Nat,
           NEW g \in Gens, NEW ph \in Phases, MoveTo(g, ph),
           \/ conn[g].phase = "checked" /\ ph = "dialing"
           \/ ~is_current(g) /\ ph = "done"
           \/ conn[g].phase = "announcing" /\ ph = "reading"
    PROVE  CoreType' /\ OwnedInv' /\ Stable
  <1>1. Moved(g, ph, conn[g].closed)
    BY MoveFacts DEF CoreType
  <1>2. CoreType'
    BY <1>1 DEF CoreType, Moved
  <1>3. Stable
    BY <1>1 DEF Moved, Stable
  <1>4. DialedAreEndpoints'
    BY <1>1 DEF Moved, OwnedInv, DialedAreEndpoints
  <1>5. MapIsOwned'
    <2>1. ASSUME NEW h \in Gens, h # g
          PROVE  /\ conn'[h].phase \in {"announcing", "reading"} =>
                       (conn'[h].closed <=> peers'[conn'[h].addr] # h)
                 /\ conn'[h].phase \in {"reporting", "done"} => peers'[conn'[h].addr] # h
                 /\ conn'[h].phase \in Handshaking \cup {"checked"} =>
                       peers'[conn'[h].addr] # h /\ ~conn'[h].closed
                 /\ \A b \in Addrs : peers'[b] = h => conn'[h].addr = b
      BY <1>1, <2>1 DEF OwnedInv, MapIsOwned, Moved
    <2>2. /\ conn'[g].phase \in {"announcing", "reading"} =>
                 (conn'[g].closed <=> peers'[conn'[g].addr] # g)
          /\ conn'[g].phase \in {"reporting", "done"} => peers'[conn'[g].addr] # g
          /\ conn'[g].phase \in Handshaking \cup {"checked"} =>
                peers'[conn'[g].addr] # g /\ ~conn'[g].closed
          /\ \A b \in Addrs : peers'[b] = g => conn'[g].addr = b
      <3>1. \A b \in Addrs : peers'[b] = g => conn'[g].addr = b
        BY <1>1 DEF OwnedInv, MapIsOwned, Moved
      <3>2. CASE conn[g].phase = "checked" /\ ph = "dialing"
        BY <1>1, <3>1, <3>2 DEF OwnedInv, MapIsOwned, Moved, Handshaking
      <3>3. CASE ~is_current(g) /\ ph = "done"
        BY <1>1, <3>1, <3>3 DEF Moved, is_current, Handshaking
      <3>4. CASE conn[g].phase = "announcing" /\ ph = "reading"
        BY <1>1, <3>1, <3>4 DEF OwnedInv, MapIsOwned, Moved, Handshaking
      <3> QED
        BY <3>2, <3>3, <3>4
    <2> QED
      BY <1>1, <2>1, <2>2 DEF MapIsOwned, Moved
  <1>6. ClosedIsEmpty'
    BY <1>1 DEF Moved, OwnedInv, ClosedIsEmpty, InRegistry, Phases
  <1> QED
    BY <1>2, <1>3, <1>4, <1>5, <1>6 DEF OwnedInv

\* The entry of g leaves the map.
LEMMA RemoveStep ==
    ASSUME CoreType, OwnedInv, UNCHANGED node, NEW g \in Gens, is_current(g), NEW ph,
           \/ conn[g].phase = "reading" /\ ph = "reporting"
           \/ ph = conn[g].phase,
           Remove(g, ph)
    PROVE  CoreType' /\ OwnedInv' /\ Stable
  <1>1. conn[g].phase \in {"announcing", "reading"} /\ ph \in Phases
    BY CurrentPhase DEF Phases
  <1>2. Moved(g, ph, TRUE)
    BY <1>1, RemoveFacts DEF CoreType
  <1>3. peers' = [peers EXCEPT ![conn[g].addr] = None] /\ slots' = slots + 1
    BY DEF Remove
  <1>4. conn[g].addr \in Addrs /\ None \notin Gens
    BY GensFacts DEF CoreType
  <1>5. CoreType'
    BY <1>2, <1>3, <1>4 DEF CoreType, Moved
  <1>6. /\ peers'[conn[g].addr] = None
        /\ \A b \in Addrs : b # conn[g].addr => peers'[b] = peers[b]
        /\ \A b \in Addrs : peers'[b] # g
    <2>1. /\ peers'[conn[g].addr] = None
          /\ \A b \in Addrs : b # conn[g].addr => peers'[b] = peers[b]
      BY <1>3, <1>4 DEF CoreType
    <2> QED
      BY <1>4, <2>1 DEF OwnedInv, MapIsOwned
  <1>7. DialedAreEndpoints'
    BY <1>1, <1>2 DEF Moved, OwnedInv, DialedAreEndpoints
  <1>8. MapIsOwned'
    <2>1. ASSUME NEW h \in Gens, h # g
          PROVE  /\ conn'[h] = conn[h]
                 /\ peers'[conn[h].addr] = h <=> peers[conn[h].addr] = h
                 /\ \A b \in Addrs : peers'[b] = h => peers[b] = h
      <3>1. conn'[h] = conn[h] /\ h # None
        BY <1>2, <1>4, <2>1 DEF Moved
      <3>2. conn[h].addr \in Addrs
        BY GensFacts DEF CoreType
      <3>3. peers[conn[g].addr] = g
        BY DEF is_current
      <3> QED
        BY <1>6, <2>1, <3>1, <3>2, <3>3
    <2>2. conn'[g].closed /\ conn'[g].phase \in {"announcing", "reading", "reporting"}
      BY <1>1, <1>2 DEF Moved
    <2>3. ASSUME NEW h \in Gens, h # g
          PROVE  /\ conn'[h].phase \in {"announcing", "reading"} =>
                       (conn'[h].closed <=> peers'[conn'[h].addr] # h)
                 /\ conn'[h].phase \in {"reporting", "done"} => peers'[conn'[h].addr] # h
                 /\ conn'[h].phase \in Handshaking \cup {"checked"} =>
                       peers'[conn'[h].addr] # h /\ ~conn'[h].closed
                 /\ \A b \in Addrs : peers'[b] = h => conn'[h].addr = b
      BY <2>1, <2>3 DEF OwnedInv, MapIsOwned
    <2>4. /\ conn'[g].phase \in {"announcing", "reading"} =>
                 (conn'[g].closed <=> peers'[conn'[g].addr] # g)
          /\ conn'[g].phase \in {"reporting", "done"} => peers'[conn'[g].addr] # g
          /\ conn'[g].phase \in Handshaking \cup {"checked"} =>
                peers'[conn'[g].addr] # g /\ ~conn'[g].closed
          /\ \A b \in Addrs : peers'[b] = g => conn'[g].addr = b
      BY <1>2, <1>4, <1>6, <2>2 DEF Moved, Handshaking
    <2> QED
      BY <1>2, <2>3, <2>4 DEF MapIsOwned, Moved
  <1>9. ClosedIsEmpty'
    <2>1. node # "closed"
      BY <1>4 DEF OwnedInv, ClosedIsEmpty, is_current
    <2> QED
      BY <2>1 DEF ClosedIsEmpty
  <1> QED
    BY <1>2, <1>5, <1>7, <1>8, <1>9 DEF OwnedInv, Stable, Moved

\* The connection g takes its place in the map.
LEMMA InsertStep ==
    ASSUME CoreType, OwnedInv, UNCHANGED node, NEW g \in Gens, conn[g].phase \in Handshaking,
           conn[g].phase = "dialing" => node = "open", Insert(g)
    PROVE  CoreType' /\ OwnedInv' /\ Stable
  <1> DEFINE a   == conn[g].addr
             old == peers[a]
  <1>1. /\ conn' \in Seq(Connection) /\ Gens' = Gens
        /\ conn'[g].addr = conn[g].addr /\ conn'[g].phase = "announcing"
        /\ conn'[g].closed <=> conn[g].closed
        /\ old \in Gens \ {g} => /\ conn'[old].addr = conn[old].addr
                                 /\ conn'[old].phase = conn[old].phase
                                 /\ conn'[old].closed
        /\ \A h \in Gens : h \notin {g, old} => conn'[h] = conn[h]
    BY InsertFacts DEF CoreType
  <1>2. peers' = [peers EXCEPT ![a] = g] /\ slots' = IF old = None THEN slots ELSE slots + 1
    BY DEF Insert
  <1>3. a \in Addrs /\ None \notin Gens /\ \A h \in Gens : conn[h].addr \in Addrs
    BY GensFacts DEF CoreType
  <1>4. old # g /\ ~conn[g].closed
    BY DEF OwnedInv, MapIsOwned
  <1>5. peers'[a] = g /\ \A b \in Addrs : b # a => peers'[b] = peers[b]
    BY <1>2, <1>3 DEF CoreType
  <1>6. CoreType'
    BY <1>1, <1>2, <1>3 DEF CoreType
  <1>7. old \in Gens => conn[old].addr = a
    BY <1>3 DEF OwnedInv, MapIsOwned
  <1>8. Stable
    <2>1. ASSUME NEW h \in Gens PROVE conn'[h].addr = conn[h].addr
      BY <1>1, <1>4
    <2> QED
      BY <1>1, <2>1 DEF Stable
  <1> HIDE DEF a, old
  <1>9. \A h \in Gens : h # g => conn'[h].phase = conn[h].phase
    BY <1>1
  <1>10. DialedAreEndpoints'
    BY <1>1, <1>8, <1>9 DEF OwnedInv, DialedAreEndpoints, Stable
  <1>11. MapIsOwned'
    <2>1. ASSUME NEW h \in Gens, h # g, h # old
          PROVE  /\ conn'[h] = conn[h]
                 /\ peers'[conn[h].addr] = h <=> peers[conn[h].addr] = h
                 /\ \A b \in Addrs : peers'[b] = h => peers[b] = h
      <3>1. conn'[h] = conn[h] /\ conn[h].addr \in Addrs
        BY <1>1, <1>3, <2>1
      <3>2. peers[a] = old
        BY DEF old
      <3> QED
        BY <1>5, <2>1, <3>1, <3>2
    <2>2. ASSUME NEW h \in Gens, h # g, h # old
          PROVE  /\ conn'[h].phase \in {"announcing", "reading"} =>
                       (conn'[h].closed <=> peers'[conn'[h].addr] # h)
                 /\ conn'[h].phase \in {"reporting", "done"} => peers'[conn'[h].addr] # h
                 /\ conn'[h].phase \in Handshaking \cup {"checked"} =>
                       peers'[conn'[h].addr] # h /\ ~conn'[h].closed
                 /\ \A b \in Addrs : peers'[b] = h => conn'[h].addr = b
      BY <2>1, <2>2 DEF OwnedInv, MapIsOwned
    <2>3. /\ conn'[g].phase \in {"announcing", "reading"} =>
                 (conn'[g].closed <=> peers'[conn'[g].addr] # g)
          /\ conn'[g].phase \in {"reporting", "done"} => peers'[conn'[g].addr] # g
          /\ conn'[g].phase \in Handshaking \cup {"checked"} =>
                peers'[conn'[g].addr] # g /\ ~conn'[g].closed
          /\ \A b \in Addrs : peers'[b] = g => conn'[g].addr = b
      <3>1. conn'[g].addr = a /\ ~conn'[g].closed /\ conn'[g].phase = "announcing"
        BY <1>1, <1>4 DEF a
      <3>2. \A b \in Addrs : b # a => peers[b] # g
        BY DEF OwnedInv, MapIsOwned, a
      <3> QED
        BY <1>5, <3>1, <3>2 DEF Handshaking
    <2>4. ASSUME old \in Gens
          PROVE  /\ conn'[old].phase \in {"announcing", "reading"} =>
                       (conn'[old].closed <=> peers'[conn'[old].addr] # old)
                 /\ conn'[old].phase \in {"reporting", "done"} => peers'[conn'[old].addr] # old
                 /\ conn'[old].phase \in Handshaking \cup {"checked"} =>
                       peers'[conn'[old].addr] # old /\ ~conn'[old].closed
                 /\ \A b \in Addrs : peers'[b] = old => conn'[old].addr = b
      <3>1. conn[old].phase \in {"announcing", "reading"}
        BY <1>7, <2>4, CurrentPhase DEF is_current, old
      <3>2. conn'[old].closed /\ conn'[old].phase = conn[old].phase /\ conn'[old].addr = a
        BY <1>1, <1>4, <1>7, <2>4
      <3>3. \A b \in Addrs : peers'[b] # old
        <4>1. \A b \in Addrs : b # a => peers[b] # old
          BY <1>7, <2>4 DEF OwnedInv, MapIsOwned
        <4> QED
          BY <1>4, <1>5, <4>1
      <3> QED
        BY <1>3, <3>1, <3>2, <3>3 DEF Handshaking
    <2> QED
      BY <1>1, <2>2, <2>3, <2>4 DEF MapIsOwned
  <1>12. ClosedIsEmpty'
    <2>1. node # "closed"
      BY DEF OwnedInv, ClosedIsEmpty, InRegistry, Phases, Handshaking
    <2> QED
      BY <2>1 DEF ClosedIsEmpty
  <1> QED
    BY <1>6, <1>8, <1>10, <1>11, <1>12 DEF OwnedInv

\* The end of shutdown.
LEMMA EndStep ==
    ASSUME CoreType, OwnedInv, ShutdownEnds
    PROVE  CoreType' /\ OwnedInv' /\ Stable
  <1>1. /\ conn' \in Seq(Connection) /\ Gens' = Gens
        /\ \A h \in Gens : IF conn[h].phase \in InRegistry
                           THEN /\ conn'[h].addr = conn[h].addr /\ conn'[h].phase = "done"
                                /\ conn'[h].closed
                           ELSE conn'[h] = conn[h]
    BY EndFacts DEF CoreType
  <1>2. peers' = [a \in Addrs |-> None] /\ node' = "closed"
    BY DEF ShutdownEnds
  <1>3. slots' \in Nat
    <2> DEFINE held == {g \in Gens : conn[g].phase = "accepted" \/ peers[conn[g].addr] = g}
    <2>1. IsFiniteSet(held)
      BY GensFacts, FS_Subset DEF CoreType
    <2>2. Cardinality(held) \in Nat
      BY <2>1, FS_CardinalityType
    <2>3. slots' = slots + Cardinality(held)
      BY DEF ShutdownEnds
    <2> HIDE DEF held
    <2> QED
      BY <2>2, <2>3 DEF CoreType
  <1>4. /\ None \notin Gens
        /\ \A h \in Gens : conn[h].addr \in Addrs /\ conn[h].phase \in Phases
    BY GensFacts DEF CoreType
  <1>5. CoreType'
    BY <1>1, <1>2, <1>3 DEF CoreType
  <1>6. Stable
    BY <1>1 DEF Stable
  <1>7. DialedAreEndpoints'
    BY <1>1 DEF OwnedInv, DialedAreEndpoints
  <1>8. \A h \in Gens : conn'[h].phase \in {"checked", "dialing", "done"}
    BY <1>1, <1>4 DEF InRegistry, Phases
  <1>9. MapIsOwned'
    <2>1. \A h \in Gens : conn'[h].addr \in Addrs
      BY <1>1, <1>4
    <2>2. \A h \in Gens : \A b \in Addrs : peers'[b] # h
      BY <1>2, <1>4
    <2>3. \A h \in Gens : conn'[h].phase \in {"checked", "dialing"} => ~conn'[h].closed
      BY <1>1 DEF OwnedInv, MapIsOwned, Handshaking
    <2> QED
      BY <1>1, <1>8, <2>1, <2>2, <2>3 DEF MapIsOwned, Handshaking
  <1>10. ClosedIsEmpty'
    BY <1>1, <1>2, <1>8 DEF ClosedIsEmpty, InRegistry
  <1> QED
    BY <1>5, <1>6, <1>7, <1>9, <1>10 DEF OwnedInv

\* Every step keeps the map owned.
LEMMA CoreStep ==
    ASSUME CoreType, OwnedInv, ConnChange
    PROVE  CoreType' /\ OwnedInv' /\ Stable
  <1>1. slots \in Nat /\ (slots > 0 => slots - 1 \in Nat) /\ slots + 1 \in Nat
    BY DEF CoreType
  <1>2. CASE /\ UNCHANGED <<conn, peers, slots>>
             /\ node' = node \/ (node = "open" /\ node' = "closing")
    <2>1. CoreType' /\ Stable /\ Gens' = Gens
      BY <1>2 DEF CoreType, Stable, Gens
    <2> QED
      BY <1>2, <2>1 DEF OwnedInv, DialedAreEndpoints, MapIsOwned, ClosedIsEmpty
  <1>3. CASE /\ node = "open" /\ UNCHANGED <<peers, node>>
             /\ \/ \E a \in Endpoints : NewAttempt(a, "checked") /\ UNCHANGED slots
                \/ \E a \in Sockets : NewAttempt(a, "accepted") /\ slots > 0 /\ slots' = slots - 1
    <2>1. \E a \in Addrs, ph \in {"checked", "accepted"} :
             NewAttempt(a, ph) /\ (ph = "checked" => a \in Endpoints) /\ slots' \in Nat
      BY <1>1, <1>3 DEF Addrs
    <2> QED
      BY <1>3, <2>1, NewStep
  <1>4. ASSUME NEW g \in Gens, UNCHANGED <<peers, node>>,
               \/ conn[g].phase = "checked" /\ MoveTo(g, "dialing") /\ slots > 0 /\ slots' = slots - 1
               \/ conn[g].phase \in {"checked", "reporting"} /\ MoveTo(g, "done") /\ UNCHANGED slots
               \/ /\ conn[g].phase = "reading" /\ ~is_current(g)
                  /\ MoveTo(g, "done") /\ UNCHANGED slots
               \/ conn[g].phase = "announcing" /\ MoveTo(g, "reading") /\ UNCHANGED slots
               \/ conn[g].phase \in Handshaking /\ MoveTo(g, "done") /\ slots' = slots + 1
        PROVE  CoreType' /\ OwnedInv' /\ Stable
    <2>1. slots' \in Nat
      BY <1>1, <1>4
    <2>2. conn[g].phase \in {"checked", "reporting"} \cup Handshaking => ~is_current(g)
      BY DEF OwnedInv, MapIsOwned, is_current
    <2>3. PICK ph \in Phases : /\ MoveTo(g, ph)
                               /\ \/ conn[g].phase = "checked" /\ ph = "dialing"
                                  \/ ~is_current(g) /\ ph = "done"
                                  \/ conn[g].phase = "announcing" /\ ph = "reading"
      BY <1>4, <2>2 DEF Phases
    <2> QED
      BY <1>4, <2>1, <2>3, PhaseStep
  <1>5. ASSUME NEW g \in Gens, is_current(g), UNCHANGED node,
               \/ conn[g].phase = "reading" /\ Remove(g, "reporting")
               \/ Remove(g, conn[g].phase)
        PROVE  CoreType' /\ OwnedInv' /\ Stable
    <2>1. PICK ph : /\ Remove(g, ph)
                    /\ \/ conn[g].phase = "reading" /\ ph = "reporting"
                       \/ ph = conn[g].phase
      BY <1>5
    <2> QED
      BY <1>5, <2>1, RemoveStep
  <1>6. ASSUME NEW g \in Gens, conn[g].phase \in Handshaking, Insert(g), UNCHANGED node,
               conn[g].phase = "dialing" => node = "open"
        PROVE  CoreType' /\ OwnedInv' /\ Stable
    BY <1>6, InsertStep
  <1>7. CASE ShutdownEnds
    BY <1>7, EndStep
  <1> QED
    BY <1>2, <1>3, <1>4, <1>5, <1>6, <1>7 DEF ConnChange

-----------------------------------------------------------------------------
(* The permits. *)

LEMMA HoldersFacts ==
    ASSUME CoreType
    PROVE  IsFiniteSet(Holders) /\ Cardinality(Holders) \in Nat /\ Holders \subseteq Gens
  <1>1. Holders \subseteq Gens /\ IsFiniteSet(Gens)
    BY GensFacts DEF Holders, CoreType
  <1> QED
    BY <1>1, FS_Subset, FS_CardinalityType

\* One permit less, one holder more.
LEMMA PermitTaken ==
    ASSUME CoreType, SlotsConserved, NEW g, g \notin Holders, Holders' = Holders \cup {g},
           slots' = slots - 1
    PROVE  SlotsConserved'
  <1>1. Cardinality(Holders') = Cardinality(Holders) + 1 /\ Cardinality(Holders) \in Nat
    BY HoldersFacts, FS_AddElement
  <1> QED
    BY <1>1, ConnectionsAssumption DEF SlotsConserved, CoreType

\* One permit more, one holder less.
LEMMA PermitFreed ==
    ASSUME CoreType, SlotsConserved, NEW g, g \in Holders, Holders' = Holders \ {g},
           slots' = slots + 1
    PROVE  SlotsConserved'
  <1>1. Cardinality(Holders') = Cardinality(Holders) - 1 /\ Cardinality(Holders) \in Nat
    BY HoldersFacts, FS_RemoveElement
  <1> QED
    BY <1>1, ConnectionsAssumption DEF SlotsConserved, CoreType

\* A generation that is in no shared map entry after its step is a holder by
\* its phase alone.
LEMMA MoveHolders ==
    ASSUME CoreType, OwnedInv, NEW g \in Gens, NEW ph, NEW cl, Moved(g, ph, cl), UNCHANGED peers
    PROVE  Holders' = {h \in Gens : IF h = g THEN ph \in Handshaking \/ peers[conn[g].addr] = g
                                    ELSE h \in Holders}
  <1>1. \A h \in Gens : h # g => (h \in Holders' <=> h \in Holders)
    BY DEF Moved, Holders
  <1>2. g \in Holders' <=> (ph \in Handshaking \/ peers[conn[g].addr] = g)
    BY DEF Moved, Holders
  <1>3. Holders' \subseteq Gens
    BY DEF Moved, Holders
  <1> QED
    BY <1>1, <1>2, <1>3

\* The permits of the generations that shutdown ends.
LEMMA EndSlots ==
    ASSUME CoreType, OwnedInv, SlotsConserved, ShutdownEnds
    PROVE  SlotsConserved'
  <1> DEFINE held == {g \in Gens : conn[g].phase = "accepted" \/ peers[conn[g].addr] = g}
  <1>1. /\ conn' \in Seq(Connection) /\ Gens' = Gens
        /\ \A h \in Gens : IF conn[h].phase \in InRegistry
                           THEN /\ conn'[h].addr = conn[h].addr /\ conn'[h].phase = "done"
                                /\ conn'[h].closed
                           ELSE conn'[h] = conn[h]
    BY EndFacts DEF CoreType
  <1>2. slots' = slots + Cardinality(held) /\ peers' = [a \in Addrs |-> None]
    BY DEF ShutdownEnds
  <1>3. held \subseteq Holders
    BY DEF Holders, Handshaking
  <1>4. /\ None \notin Gens
        /\ \A h \in Gens : conn[h].addr \in Addrs /\ conn[h].phase \in Phases
    BY GensFacts DEF CoreType
  <1>5. \A h \in Gens : h \in Holders' <=> conn[h].phase = "dialing"
    <2>1. \A h \in Gens : conn'[h].addr \in Addrs /\ peers'[conn'[h].addr] # h
      BY <1>1, <1>2, <1>4
    <2>2. \A h \in Gens : conn'[h].phase \in Handshaking <=> conn[h].phase = "dialing"
      BY <1>1, <1>4 DEF Handshaking, InRegistry, Phases
    <2> QED
      BY <1>1, <2>1, <2>2 DEF Holders
  <1>6. \A h \in Gens : h \in Holders \ held <=> conn[h].phase = "dialing"
    BY <1>4 DEF Holders, Handshaking, OwnedInv, MapIsOwned
  <1>7. Holders' = Holders \ held
    <2>1. Holders' \subseteq Gens /\ Holders \subseteq Gens
      BY <1>1 DEF Holders
    <2> HIDE DEF held
    <2> QED
      BY <1>5, <1>6, <2>1
  <1> HIDE DEF held
  <1>8. IsFiniteSet(Holders) /\ Cardinality(Holders) \in Nat
    BY HoldersFacts
  <1>9. Holders \cap held = held /\ IsFiniteSet(held)
    BY <1>3, <1>8, FS_Subset
  <1>10. Cardinality(held) \in Nat
    BY <1>9, FS_CardinalityType
  <1>11. Cardinality(Holders') = Cardinality(Holders) - Cardinality(held)
    BY <1>7, <1>8, <1>9, FS_Difference
  <1> QED
    BY <1>2, <1>8, <1>10, <1>11, ConnectionsAssumption DEF SlotsConserved, CoreType

\* The permits of a connection that enters the map: its own goes with it, the
\* one of the connection it replaces comes back.
LEMMA InsertSlots ==
    ASSUME CoreType, OwnedInv, SlotsConserved, NEW g \in Gens, conn[g].phase \in Handshaking,
           Insert(g)
    PROVE  SlotsConserved'
  <1> DEFINE a   == conn[g].addr
             old == peers[a]
  <1>1. /\ conn' \in Seq(Connection) /\ Gens' = Gens
        /\ conn'[g].addr = conn[g].addr /\ conn'[g].phase = "announcing"
        /\ old \in Gens \ {g} => /\ conn'[old].addr = conn[old].addr
                                 /\ conn'[old].phase = conn[old].phase
        /\ \A h \in Gens : h \notin {g, old} => conn'[h] = conn[h]
    BY InsertFacts DEF CoreType
  <1>2. peers' = [peers EXCEPT ![a] = g] /\ slots' = IF old = None THEN slots ELSE slots + 1
    BY DEF Insert
  <1>3. a \in Addrs /\ None \notin Gens /\ \A h \in Gens : conn[h].addr \in Addrs
    BY GensFacts DEF CoreType
  <1>4. old # g /\ old \in Gens \cup {None}
    BY <1>3 DEF OwnedInv, MapIsOwned, CoreType
  <1>5. peers'[a] = g /\ \A b \in Addrs : b # a => peers'[b] = peers[b]
    BY <1>2, <1>3 DEF CoreType
  <1>6. old \in Gens => conn[old].addr = a /\ conn[old].phase \in {"announcing", "reading"}
    <2>1. old \in Gens => conn[old].addr = a
      BY <1>3 DEF OwnedInv, MapIsOwned
    <2> QED
      BY <2>1, CurrentPhase DEF is_current
  <1>7. peers[a] = old /\ conn[g].addr = a
    OBVIOUS
  <1> HIDE DEF a, old
  <1>8. g \in Holders /\ g \in Holders'
    BY <1>1, <1>5, <1>7 DEF Holders
  <1>9. \A h \in Gens : h \notin {g, old} => (h \in Holders' <=> h \in Holders)
    BY <1>1, <1>3, <1>5, <1>7 DEF Holders
  <1>10. old \in Gens => old \in Holders /\ old \notin Holders'
    BY <1>1, <1>4, <1>5, <1>6, <1>7 DEF Holders, Handshaking
  <1>11. Holders \subseteq Gens /\ Holders' \subseteq Gens
    BY <1>1 DEF Holders
  <1>12. CASE old = None
    <2>1. \A h \in Gens : h # old
      BY <1>3, <1>12
    <2>2. \A h \in Gens : h \in Holders' <=> h \in Holders
      BY <1>8, <1>9, <2>1
    <2>3. Holders' = Holders
      BY <1>11, <2>2
    <2> QED
      BY <1>2, <1>12, <2>3 DEF SlotsConserved
  <1>13. CASE old \in Gens
    <2>1. Holders' = Holders \ {old} /\ old \in Holders
      BY <1>4, <1>8, <1>9, <1>10, <1>11, <1>13
    <2>2. slots' = slots + 1
      BY <1>2, <1>3, <1>13
    <2> QED
      BY <2>1, <2>2, PermitFreed
  <1> QED
    BY <1>4, <1>12, <1>13

\* Every step conserves the permits.
LEMMA SlotsStep ==
    ASSUME CoreType, OwnedInv, SlotsConserved, ConnChange
    PROVE  SlotsConserved'
  <1>1. ASSUME UNCHANGED <<conn, peers, slots>> PROVE SlotsConserved'
    BY <1>1 DEF SlotsConserved, Holders, Gens
  <1>2. ASSUME NEW a \in Addrs, NEW ph \in {"checked", "accepted"}, NewAttempt(a, ph),
               UNCHANGED peers,
               slots' = IF ph = "checked" THEN slots ELSE slots - 1
        PROVE  SlotsConserved'
    <2> DEFINE new == Len(conn) + 1
    <2>1. /\ Gens' = Gens \cup {new} /\ new \notin Gens /\ new # None
          /\ \A h \in Gens : conn'[h] = conn[h]
          /\ conn'[new].addr = a /\ conn'[new].phase = ph
      <3>1. ph \in Phases
        BY DEF Phases
      <3> QED
        BY <1>2, <3>1, NewFacts DEF CoreType
    <2> HIDE DEF new
    <2>2. peers[a] # new
      BY <2>1 DEF CoreType
    <2>3. \A h \in Gens : h \in Holders' <=> h \in Holders
      BY <1>2, <2>1 DEF Holders
    <2>4. new \in Holders' <=> ph = "accepted"
      BY <1>2, <2>1, <2>2 DEF Holders, Handshaking
    <2>5. Holders' \subseteq Gens \cup {new} /\ Holders \subseteq Gens
      BY <2>1 DEF Holders
    <2>6. CASE ph = "checked"
      <3>1. Holders' = Holders
        BY <2>1, <2>3, <2>4, <2>5, <2>6
      <3> QED
        BY <1>2, <2>6, <3>1 DEF SlotsConserved
    <2>7. CASE ph = "accepted"
      <3>1. Holders' = Holders \cup {new} /\ new \notin Holders
        BY <2>1, <2>3, <2>4, <2>5, <2>7
      <3>2. slots' = slots - 1
        BY <1>2, <2>7
      <3> QED
        BY <3>1, <3>2, PermitTaken
    <2> QED
      BY <2>6, <2>7
  <1>3. ASSUME NEW g \in Gens, NEW ph \in Phases, MoveTo(g, ph), UNCHANGED peers,
               \/ /\ conn[g].phase = "checked" /\ ph = "dialing" /\ slots' = slots - 1
               \/ /\ conn[g].phase \notin Handshaking /\ ph \notin Handshaking /\ slots' = slots
               \/ /\ conn[g].phase \in Handshaking /\ ph = "done" /\ slots' = slots + 1
        PROVE  SlotsConserved'
    <2>1. Moved(g, ph, conn[g].closed)
      BY <1>3, MoveFacts DEF CoreType
    <2>2. Holders' = {h \in Gens : IF h = g THEN ph \in Handshaking \/ peers[conn[g].addr] = g
                                    ELSE h \in Holders}
      BY <1>3, <2>1, MoveHolders
    <2>3. g \in Holders <=> conn[g].phase \in Handshaking \/ peers[conn[g].addr] = g
      BY DEF Holders
    <2>4. Holders \subseteq Gens
      BY DEF Holders
    <2>5. CASE conn[g].phase = "checked" /\ ph = "dialing" /\ slots' = slots - 1
      <3>1. peers[conn[g].addr] # g /\ conn[g].phase \notin Handshaking /\ ph \in Handshaking
        BY <2>5 DEF OwnedInv, MapIsOwned, Handshaking
      <3>2. g \notin Holders /\ Holders' = Holders \cup {g}
        BY <2>2, <2>3, <2>4, <3>1
      <3> QED
        BY <2>5, <3>2, PermitTaken
    <2>6. CASE conn[g].phase \notin Handshaking /\ ph \notin Handshaking /\ slots' = slots
      <3>1. Holders' = Holders
        BY <2>2, <2>3, <2>4, <2>6
      <3> QED
        BY <2>6, <3>1 DEF SlotsConserved
    <2>7. CASE conn[g].phase \in Handshaking /\ ph = "done" /\ slots' = slots + 1
      <3>1. peers[conn[g].addr] # g /\ ph \notin Handshaking
        BY <2>7 DEF OwnedInv, MapIsOwned, Handshaking
      <3>2. g \in Holders /\ Holders' = Holders \ {g}
        BY <2>2, <2>3, <2>4, <2>7, <3>1
      <3> QED
        BY <2>7, <3>2, PermitFreed
    <2> QED
      BY <1>3, <2>5, <2>6, <2>7
  <1>4. ASSUME NEW g \in Gens, is_current(g), NEW ph, Remove(g, ph),
               (conn[g].phase = "reading" /\ ph = "reporting") \/ ph = conn[g].phase
        PROVE  SlotsConserved'
    <2>1. conn[g].phase \in {"announcing", "reading"} /\ ph \in Phases /\ ph \notin Handshaking
      BY <1>4, CurrentPhase DEF Phases, Handshaking
    <2>2. Moved(g, ph, TRUE)
      BY <1>4, <2>1, RemoveFacts DEF CoreType
    <2>3. peers' = [peers EXCEPT ![conn[g].addr] = None] /\ slots' = slots + 1
      BY <1>4 DEF Remove
    <2>4. None \notin Gens /\ \A h \in Gens : conn[h].addr \in Addrs
      BY GensFacts DEF CoreType
    <2>5. /\ peers'[conn[g].addr] = None
          /\ \A b \in Addrs : b # conn[g].addr => peers'[b] = peers[b]
      BY <2>3, <2>4 DEF CoreType
    <2>6. peers[conn[g].addr] = g
      BY <1>4 DEF is_current
    <2>7. \A h \in Gens : h # g => (h \in Holders' <=> h \in Holders)
      BY <2>2, <2>4, <2>5, <2>6 DEF Moved, Holders
    <2>8. g \in Holders /\ g \notin Holders'
      BY <2>1, <2>2, <2>4, <2>5, <2>6 DEF Moved, Holders
    <2>9. Holders \subseteq Gens /\ Holders' \subseteq Gens
      BY <2>2 DEF Holders, Moved
    <2>10. Holders' = Holders \ {g}
      BY <2>7, <2>8, <2>9
    <2> QED
      BY <2>3, <2>8, <2>10, PermitFreed
  <1>5. ASSUME NEW g \in Gens, conn[g].phase \in Handshaking, Insert(g)
        PROVE  SlotsConserved'
    BY <1>5, InsertSlots
  <1>6. CASE ShutdownEnds
    BY <1>6, EndSlots
  <1>7. CASE /\ node = "open" /\ UNCHANGED <<peers, node>>
             /\ \/ \E a \in Endpoints : NewAttempt(a, "checked") /\ UNCHANGED slots
                \/ \E a \in Sockets : NewAttempt(a, "accepted") /\ slots > 0 /\ slots' = slots - 1
    <2>1. \E a \in Addrs, ph \in {"checked", "accepted"} :
             NewAttempt(a, ph) /\ slots' = IF ph = "checked" THEN slots ELSE slots - 1
      BY <1>7 DEF Addrs
    <2> QED
      BY <1>2, <1>7, <2>1
  <1>8. ASSUME NEW g \in Gens, UNCHANGED <<peers, node>>,
               \/ conn[g].phase = "checked" /\ MoveTo(g, "dialing") /\ slots > 0 /\ slots' = slots - 1
               \/ conn[g].phase \in {"checked", "reporting"} /\ MoveTo(g, "done") /\ UNCHANGED slots
               \/ /\ conn[g].phase = "reading" /\ ~is_current(g)
                  /\ MoveTo(g, "done") /\ UNCHANGED slots
               \/ conn[g].phase = "announcing" /\ MoveTo(g, "reading") /\ UNCHANGED slots
               \/ conn[g].phase \in Handshaking /\ MoveTo(g, "done") /\ slots' = slots + 1
        PROVE  SlotsConserved'
    <2>1. \E ph \in Phases :
             /\ MoveTo(g, ph)
             /\ \/ /\ conn[g].phase = "checked" /\ ph = "dialing" /\ slots' = slots - 1
                \/ /\ conn[g].phase \notin Handshaking /\ ph \notin Handshaking /\ slots' = slots
                \/ /\ conn[g].phase \in Handshaking /\ ph = "done" /\ slots' = slots + 1
      BY <1>8 DEF Phases, Handshaking
    <2> QED
      BY <1>3, <1>8, <2>1
  <1>9. ASSUME NEW g \in Gens, is_current(g),
               \/ conn[g].phase = "reading" /\ Remove(g, "reporting")
               \/ Remove(g, conn[g].phase)
        PROVE  SlotsConserved'
    BY <1>4, <1>9
  <1> QED
    BY <1>1, <1>5, <1>6, <1>7, <1>8, <1>9 DEF ConnChange

\* The number of entries of the map is the number of holders that are in it.
LEMMA MapSize ==
    ASSUME CoreType, OwnedInv
    PROVE  /\ connected_peer_count \in Nat
           /\ connected_peer_count = Cardinality({g \in Gens : peers[conn[g].addr] = g})
  <1> DEFINE used == {a \in Addrs : peers[a] # None}
             inMap == {g \in Gens : peers[conn[g].addr] = g}
             addrOf == [g \in inMap |-> conn[g].addr]
  <1>1. None \notin Gens /\ IsFiniteSet(Gens) /\ \A g \in Gens : conn[g].addr \in Addrs
    BY GensFacts DEF CoreType
  <1>2. addrOf \in Bijection(inMap, used)
    <2>1. addrOf \in [inMap -> used]
      BY <1>1
    <2>2. \A g, h \in inMap : addrOf[g] = addrOf[h] => g = h
      OBVIOUS
    <2>3. \A a \in used : \E g \in inMap : addrOf[g] = a
      <3> TAKE a \in used
      <3>1. peers[a] \in Gens
        BY DEF CoreType
      <3>2. conn[peers[a]].addr = a
        BY <3>1 DEF OwnedInv, MapIsOwned
      <3> QED
        BY <3>1, <3>2
    <2> HIDE DEF addrOf, inMap, used
    <2> QED
      BY <2>1, <2>2, <2>3 DEF Bijection, Injection, Surjection, IsInjective
  <1>3. inMap \subseteq Gens
    OBVIOUS
  <1> HIDE DEF addrOf, inMap, used
  <1>4. IsFiniteSet(inMap) /\ Cardinality(inMap) \in Nat
    BY <1>1, <1>3, FS_Subset, FS_CardinalityType
  <1>5. Cardinality(used) = Cardinality(inMap)
    BY <1>2, <1>4, FS_Bijection DEF ExistsBijection
  <1> QED
    BY <1>4, <1>5 DEF connected_peer_count, used, inMap

\* A handshake that holds a permit finds room in the map.
LEMMA AdmittedStep ==
    ASSUME CoreType, OwnedInv, SlotsConserved
    PROVE  HandshakeIsAdmitted
  <1> DEFINE inMap == {g \in Gens : peers[conn[g].addr] = g}
  <1>1. connected_peer_count \in Nat /\ connected_peer_count = Cardinality(inMap)
    BY MapSize
  <1>2. inMap \subseteq Holders
    BY DEF Holders
  <1>3. IsFiniteSet(Holders) /\ Cardinality(Holders) \in Nat
    BY HoldersFacts
  <1>4. Cardinality(Holders) <= MaxPeers
    BY <1>3, ConnectionsAssumption DEF SlotsConserved, CoreType
  <1>5. ASSUME NEW g \in Gens, conn[g].phase \in Handshaking
        PROVE  connected_peer_count < MaxPeers
    <2>1. g \in Holders /\ g \notin inMap
      BY <1>5 DEF Holders, OwnedInv, MapIsOwned
    <2> HIDE DEF inMap
    <2>2. inMap \subseteq Holders \ {g}
      BY <1>2, <2>1
    <2>3. IsFiniteSet(Holders \ {g}) /\ Cardinality(Holders \ {g}) = Cardinality(Holders) - 1
      BY <1>3, <2>1, FS_RemoveElement
    <2>4. Cardinality(inMap) <= Cardinality(Holders \ {g})
      BY <2>2, <2>3, FS_Subset
    <2> QED
      BY <1>1, <1>3, <1>4, <2>3, <2>4, ConnectionsAssumption
  <1> QED
    BY <1>5 DEF HandshakeIsAdmitted, ensure_peer_slot_available

-----------------------------------------------------------------------------
(* The guards of connect_to_peer. *)

DialType == callers \subseteq Gens /\ attempts \subseteq Endpoints /\ attemptSlots \in Nat

\* There is no dial, or one with its guards.
OneDial ==
    \/ callers = {} /\ attempts = {} /\ attemptSlots = 1
    \/ \E g \in Gens : /\ callers = {g} /\ attempts = {conn[g].addr} /\ attemptSlots = 0
                       /\ conn[g].phase \in {"dialing", "announcing"}

LEMMA GuardsGiveOneDial ==
    ASSUME CoreType, DialType, GuardsMatchCallers
    PROVE  OneDial
  <1>1. IsFiniteSet(callers) /\ Cardinality(callers) \in Nat
    BY GensFacts, FS_Subset, FS_CardinalityType DEF CoreType, DialType
  <1>2. Cardinality(callers) \in {0, 1} /\ attemptSlots = 1 - Cardinality(callers)
    BY <1>1 DEF GuardsMatchCallers, DialType
  <1>3. attempts = {conn[g].addr : g \in callers}
    BY DEF GuardsMatchCallers
  <1>4. CASE callers = {}
    <2>1. Cardinality(callers) = 0
      BY <1>4, FS_EmptySet
    <2> QED
      BY <1>2, <1>3, <1>4, <2>1 DEF OneDial
  <1>5. CASE callers # {}
    <2>1. PICK g \in callers : TRUE
      BY <1>5
    <2>2. IsFiniteSet(callers \ {g}) /\ Cardinality(callers \ {g}) = Cardinality(callers) - 1
      BY <1>1, FS_RemoveElement
    <2>3. Cardinality(callers \ {g}) \in Nat
      BY <2>2, FS_CardinalityType
    <2>4. Cardinality(callers \ {g}) = 0 /\ attemptSlots = 0
      BY <1>1, <1>2, <2>2, <2>3
    <2>5. callers \ {g} = {}
      BY <2>2, <2>4, FS_EmptySet
    <2>6. callers = {g} /\ g \in Gens
      BY <2>5 DEF DialType
    <2>7. attempts = {conn[g].addr} /\ conn[g].phase \in {"dialing", "announcing"}
      BY <1>3, <2>6 DEF GuardsMatchCallers
    <2> QED
      BY <2>4, <2>6, <2>7 DEF OneDial
  <1> QED
    BY <1>4, <1>5

LEMMA OneDialGivesGuards ==
    ASSUME OneDial
    PROVE  GuardsMatchCallers
  <1>1. CASE callers = {} /\ attempts = {} /\ attemptSlots = 1
    <2>1. Cardinality(callers) = 0
      BY <1>1, FS_EmptySet
    <2> QED
      BY <1>1, <2>1 DEF GuardsMatchCallers
  <1>2. ASSUME NEW g \in Gens, callers = {g}, attempts = {conn[g].addr}, attemptSlots = 0,
               conn[g].phase \in {"dialing", "announcing"}
        PROVE  GuardsMatchCallers
    <2>1. Cardinality(callers) = 1
      BY <1>2, FS_Singleton
    <2> QED
      BY <1>2, <2>1 DEF GuardsMatchCallers
  <1> QED
    BY <1>1, <1>2 DEF OneDial

\* The steps, as far as they concern dials: none of the callers moves on; an
\* attempt takes its guards; a caller returns; the end of shutdown.
DialChange ==
    \/ /\ UNCHANGED dialVars
       /\ \A h \in callers : conn'[h].phase \in {"dialing", "announcing"}
    \/ \E g \in Gens :
          /\ conn[g].phase = "checked" /\ conn'[g].phase = "dialing" /\ attemptSlots > 0
          /\ callers' = callers \cup {g}
          /\ attempts' = attempts \cup {conn[g].addr}
          /\ attemptSlots' = attemptSlots - 1
    \/ \E g \in Gens : Return(g) /\ \A h \in callers \ {g} : conn'[h].phase = conn[h].phase
    \/ ShutdownEnds

\* A step of that kind keeps the guards.
LEMMA DialStep ==
    ASSUME CoreType, OwnedInv, Stable, DialType, GuardsMatchCallers, DialChange
    PROVE  DialType' /\ GuardsMatchCallers'
  <1>1. OneDial
    BY GuardsGiveOneDial
  <1>2. SUFFICES DialType' /\ OneDial'
    BY OneDialGivesGuards, PTL
  <1>3. CASE /\ UNCHANGED dialVars
             /\ \A h \in callers : conn'[h].phase \in {"dialing", "announcing"}
    BY <1>1, <1>3 DEF OneDial, DialType, Stable, dialVars
  <1>4. ASSUME NEW g \in Gens,
               conn[g].phase = "checked", conn'[g].phase = "dialing", attemptSlots > 0,
               callers' = callers \cup {g},
               attempts' = attempts \cup {conn[g].addr},
               attemptSlots' = attemptSlots - 1
        PROVE  DialType' /\ OneDial'
    <2>1. callers = {} /\ attempts = {} /\ attemptSlots = 1
      BY <1>1, <1>4 DEF OneDial
    <2>2. conn[g].addr \in Endpoints
      BY <1>4 DEF OwnedInv, DialedAreEndpoints
    <2>3. callers' = {g} /\ attempts' = {conn'[g].addr} /\ attemptSlots' = 0 /\ g \in Gens'
      BY <1>4, <2>1 DEF Stable
    <2>4. conn'[g].addr = conn[g].addr
      BY DEF Stable
    <2> QED
      BY <1>4, <2>2, <2>3, <2>4 DEF OneDial, DialType
  <1>5. ASSUME NEW g \in Gens, Return(g), \A h \in callers \ {g} : conn'[h].phase = conn[h].phase
        PROVE  DialType' /\ OneDial'
    <2>1. CASE g \in callers
      <3>1. callers = {g} /\ attempts = {conn[g].addr} /\ attemptSlots = 0
        BY <1>1, <2>1 DEF OneDial
      <3>2. callers' = {} /\ attempts' = {} /\ attemptSlots' = 1
        BY <1>5, <3>1 DEF Return
      <3> QED
        BY <3>2 DEF OneDial, DialType
    <2>2. CASE g \notin callers
      <3>1. UNCHANGED dialVars
        BY <1>5, <2>2 DEF Return, dialVars
      <3>2. \A h \in callers : conn'[h].phase = conn[h].phase
        BY <1>5, <2>2
      <3> QED
        BY <1>1, <3>1, <3>2 DEF OneDial, DialType, Stable, dialVars
    <2> QED
      BY <2>1, <2>2
  <1>6. CASE ShutdownEnds
    <2> DEFINE left == {g \in callers : conn[g].phase \in InRegistry}
    <2>1. /\ callers' = callers \ left /\ attempts' = attempts \ {conn[g].addr : g \in left}
          /\ attemptSlots' = attemptSlots + Cardinality(left)
      BY <1>6 DEF ShutdownEnds
    <2>2. /\ Gens' = Gens
          /\ \A h \in Gens : conn[h].phase \notin InRegistry => conn'[h] = conn[h]
      BY <1>6, EndFacts DEF CoreType
    <2>3. CASE callers = {} /\ attempts = {} /\ attemptSlots = 1
      <3>1. left = {}
        BY <2>3
      <3>2. Cardinality(left) = 0
        BY <3>1, FS_EmptySet
      <3>3. callers' = {} /\ attempts' = {} /\ attemptSlots' = 1
        BY <2>1, <2>3, <3>2
      <3> QED
        BY <3>3 DEF OneDial, DialType
    <2>4. ASSUME NEW g \in Gens, callers = {g}, attempts = {conn[g].addr}, attemptSlots = 0,
                 conn[g].phase \in {"dialing", "announcing"}
          PROVE  DialType' /\ OneDial'
      <3>1. CASE conn[g].phase = "announcing"
        <4>1. left = {g}
          BY <2>4, <3>1 DEF InRegistry, Phases
        <4>2. Cardinality(left) = 1
          BY <4>1, FS_Singleton
        <4>3. callers' = {} /\ attempts' = {} /\ attemptSlots' = 1
          BY <2>1, <2>4, <4>1, <4>2
        <4> QED
          BY <4>3 DEF OneDial, DialType
      <3>2. CASE conn[g].phase = "dialing"
        <4>1. left = {} /\ conn[g].phase \notin InRegistry
          BY <2>4, <3>2 DEF InRegistry
        <4>2. Cardinality(left) = 0 /\ {conn[h].addr : h \in left} = {}
          BY <4>1, FS_EmptySet
        <4>3. callers' = callers /\ attempts' = attempts /\ attemptSlots' = 0
          BY <2>1, <2>4, <4>1, <4>2
        <4>4. conn'[g] = conn[g]
          BY <2>2, <4>1
        <4>5. callers' = {g} /\ attempts' = {conn'[g].addr} /\ conn'[g].phase = "dialing"
          BY <2>4, <3>2, <4>3, <4>4
        <4> QED
          BY <2>2, <4>3, <4>5 DEF OneDial, DialType
      <3> QED
        BY <2>4, <3>1, <3>2
    <2> QED
      BY <1>1, <2>3, <2>4 DEF OneDial
  <1> QED
    BY <1>3, <1>4, <1>5, <1>6 DEF DialChange

\* Every step is of that kind.
LEMMA DialClassified ==
    ASSUME CoreType, OwnedInv, DialType, GuardsMatchCallers, [Next]_vars
    PROVE  DialChange
  <1>1. \A h \in callers : h \in Gens /\ conn[h].phase \in {"dialing", "announcing"}
    BY DEF DialType, GuardsMatchCallers
  \* A generation that is no caller moves on, or one that is stays in its phase.
  <1>2. ASSUME NEW g \in Gens, NEW ph \in Phases, NEW cl, Moved(g, ph, cl), UNCHANGED dialVars,
               g \notin callers \/ ph = conn[g].phase
        PROVE  DialChange
    BY <1>1, <1>2 DEF Moved, DialChange
  \* A caller moves on and returns.
  <1>3. ASSUME NEW g \in Gens, NEW ph, NEW cl, Moved(g, ph, cl), Return(g)
        PROVE  DialChange
    BY <1>1, <1>3 DEF Moved, DialChange
  <1>4. ASSUME UNCHANGED conn, UNCHANGED dialVars
        PROVE  DialChange
    BY <1>1, <1>4 DEF DialChange
  <1>5. ASSUME NEW g \in Gens, Insert(g), UNCHANGED dialVars
        PROVE  DialChange
    <2>1. /\ conn'[g].phase = "announcing"
          /\ \A h \in Gens : h # g => conn'[h].phase = conn[h].phase
      BY <1>5, InsertFacts DEF CoreType
    <2> QED
      BY <1>1, <1>5, <2>1 DEF DialChange
  <1>6. ASSUME NEW a \in Addrs, NEW ph \in Phases, NewAttempt(a, ph), UNCHANGED dialVars
        PROVE  DialChange
    <2>1. \A h \in Gens : conn'[h] = conn[h]
      BY <1>6, NewFacts DEF CoreType
    <2> QED
      BY <1>1, <1>6, <2>1 DEF DialChange
  <1>7. {"dialing", "done", "reading", "reporting", "checked", "accepted"} \subseteq Phases
    BY DEF Phases
  <1>8. \A g \in Gens, ph \in Phases : MoveTo(g, ph) => Moved(g, ph, conn[g].closed)
    BY MoveFacts DEF CoreType
  <1>9. \A g \in Gens, ph \in Phases : Remove(g, ph) => Moved(g, ph, TRUE)
    BY RemoveFacts DEF CoreType
  <1>10. \A g \in Gens : conn[g].phase \in Phases
    BY GensFacts DEF CoreType
  <1>11. ASSUME Dial PROVE DialChange
    <2>1. ASSUME NEW e \in Endpoints, DialCheck(e) PROVE DialChange
      BY <1>6, <1>7, <2>1 DEF DialCheck, Addrs
    <2>2. ASSUME NEW g \in Gens, DialAcquire(g) PROVE DialChange
      <3>1. CASE /\ conn[g].phase = "checked" /\ attemptSlots > 0
                 /\ MoveTo(g, "dialing")
                 /\ callers' = callers \cup {g}
                 /\ attempts' = attempts \cup {conn[g].addr}
                 /\ attemptSlots' = attemptSlots - 1
        <4>1. conn'[g].phase = "dialing"
          BY <1>7, <1>8, <3>1 DEF Moved
        <4> QED
          BY <3>1, <4>1 DEF DialChange
      <3>2. CASE MoveTo(g, "done") /\ UNCHANGED dialVars /\ conn[g].phase = "checked"
        <4>1. g \notin callers
          BY <1>1, <3>2
        <4> QED
          BY <1>2, <1>7, <1>8, <3>2, <4>1
      <3> QED
        BY <2>2, <3>1, <3>2 DEF DialAcquire
    <2>3. ASSUME NEW g \in Gens, DialFails(g) PROVE DialChange
      BY <1>3, <1>7, <1>8, <2>3 DEF DialFails
    <2>4. ASSUME NEW g \in Gens, DialSave(g) PROVE DialChange
      <3>1. CASE MoveTo(g, "done") /\ Return(g)
        BY <1>3, <1>7, <1>8, <3>1
      <3>2. CASE Insert(g) /\ UNCHANGED dialVars
        BY <1>5, <3>2
      <3> QED
        BY <2>4, <3>1, <3>2 DEF DialSave
    <2>5. ASSUME NEW g \in Gens, DialCancelled(g) PROVE DialChange
      BY <2>5 DEF DialCancelled, DialChange
    <2> QED
      BY <1>11, <2>1, <2>2, <2>3, <2>4, <2>5 DEF Dial
  <1>12. ASSUME Incoming PROVE DialChange
    <2>1. ASSUME NEW s \in Sockets, Accept(s) PROVE DialChange
      BY <1>6, <1>7, <2>1 DEF Accept, Addrs
    <2>2. ASSUME NEW g \in Gens, conn[g].phase = "accepted", MoveTo(g, "done"), UNCHANGED dialVars
          PROVE  DialChange
      <3>1. g \notin callers
        BY <1>1, <2>2
      <3> QED
        BY <1>2, <1>7, <1>8, <2>2, <3>1
    <2>3. ASSUME NEW g \in Gens, IncomingSave(g) PROVE DialChange
      BY <1>5, <2>2, <2>3 DEF IncomingSave
    <2>4. ASSUME NEW g \in Gens, HandshakeEnds(g) PROVE DialChange
      BY <2>2, <2>4 DEF HandshakeEnds
    <2> QED
      BY <1>12, <2>1, <2>3, <2>4 DEF Incoming
  <1>13. ASSUME NEW g \in Gens, Task(g) PROVE DialChange
    <2>1. CASE Announce(g)
      BY <1>3, <1>7, <1>8, <2>1 DEF Announce
    <2>2. ASSUME NEW kind, Read(g, kind) PROVE DialChange
      BY <1>4, <2>2 DEF Read
    <2>3. CASE ReadEnds(g)
      <3>1. g \notin callers /\ UNCHANGED dialVars
        BY <1>1, <2>3 DEF ReadEnds
      <3>2. \E ph \in Phases : \E cl : Moved(g, ph, cl)
        BY <1>7, <1>8, <1>9, <2>3 DEF ReadEnds
      <3> QED
        BY <1>2, <3>1, <3>2
    <2>4. CASE Report(g)
      <3>1. g \notin callers /\ UNCHANGED dialVars /\ MoveTo(g, "done")
        BY <1>1, <2>4 DEF Report
      <3> QED
        BY <1>2, <1>7, <1>8, <3>1
    <2> QED
      BY <1>13, <2>1, <2>2, <2>3, <2>4 DEF Task
  <1>14. ASSUME NEW w, Snapshot(w) PROVE DialChange
    BY <1>4, <1>14 DEF Snapshot
  <1>15. ASSUME NEW w, Write(w) PROVE DialChange
    <2>1. ASSUME NEW g \in Gens, WriteSucceeds(w, g) PROVE DialChange
      BY <1>4, <2>1 DEF WriteSucceeds
    <2>2. ASSUME NEW g \in Gens, WriteFails(w, g) PROVE DialChange
      <3>1. CASE UNCHANGED conn /\ UNCHANGED dialVars
        BY <1>4, <3>1
      <3>2. CASE Remove(g, conn[g].phase) /\ UNCHANGED dialVars
        BY <1>2, <1>9, <1>10, <3>2
      <3> QED
        BY <2>2, <3>1, <3>2 DEF WriteFails
    <2>3. CASE WriterReports(w)
      BY <1>4, <2>3 DEF WriterReports
    <2> QED
      BY <1>15, <2>1, <2>2, <2>3 DEF Write
  <1>16. CASE HandleNodeEvent
    BY <1>4, <1>16 DEF HandleNodeEvent
  <1>17. CASE ShutdownStarts
    BY <1>4, <1>17 DEF ShutdownStarts
  <1>18. CASE ShutdownEnds
    BY <1>18 DEF DialChange
  <1>19. CASE UNCHANGED vars
    BY <1>4, <1>19 DEF vars
  <1> QED
    BY <1>11, <1>12, <1>13, <1>14, <1>15, <1>16, <1>17, <1>18, <1>19 DEF Next

-----------------------------------------------------------------------------
(* Who reports the end of a connection. *)

WriterType ==
    /\ writing \in [AllWriters -> SUBSET Gens]
    /\ failed \in [AllWriters -> Gens \cup {None}]

\* A cancelled generation stays cancelled and does not begin to report.
LEMMA ClosedStays ==
    ASSUME CoreType, OwnedInv, ReportedOnce, ConnChange
    PROVE  /\ \A h \in Gens : conn[h].closed =>
                 /\ conn'[h].closed
                 /\ conn'[h].phase = "reporting" => conn[h].phase = "reporting"
           /\ \A h \in Gens' : conn'[h].phase = "reporting" => conn'[h].closed
  <1> DEFINE Good == /\ \A h \in Gens : conn[h].closed =>
                           /\ conn'[h].closed
                           /\ conn'[h].phase = "reporting" => conn[h].phase = "reporting"
                     /\ \A h \in Gens' : conn'[h].phase = "reporting" => conn'[h].closed
  <1> SUFFICES Good
    OBVIOUS
  <1>1. \A h \in Gens : conn[h].phase = "reporting" => conn[h].closed
    BY DEF ReportedOnce
  <1>2. ASSUME UNCHANGED <<conn, peers, slots>> PROVE Good
    BY <1>1, <1>2 DEF Gens
  <1>3. ASSUME NEW a \in Addrs, NEW ph \in {"checked", "accepted"}, NewAttempt(a, ph) PROVE Good
    <2> DEFINE new == Len(conn) + 1
    <2>1. ph \in Phases
      BY DEF Phases
    <2>2. /\ Gens' = Gens \cup {new} /\ \A h \in Gens : conn'[h] = conn[h]
          /\ conn'[new].phase = ph
      BY <1>3, <2>1, NewFacts DEF CoreType
    <2> QED
      BY <1>1, <2>2
  <1>4. ASSUME NEW g \in Gens, NEW ph \in Phases \ {"reporting"}, MoveTo(g, ph) PROVE Good
    <2>1. Moved(g, ph, conn[g].closed)
      BY <1>4, MoveFacts DEF CoreType
    <2> QED
      BY <1>1, <2>1 DEF Moved
  <1>5. ASSUME NEW g \in Gens, is_current(g), NEW ph \in Phases, Remove(g, ph) PROVE Good
    <2>1. Moved(g, ph, TRUE)
      BY <1>5, RemoveFacts DEF CoreType
    <2>2. ~conn[g].closed
      BY <1>5, CurrentPhase
    <2> QED
      BY <1>1, <2>1, <2>2 DEF Moved
  <1>6. ASSUME NEW g \in Gens, conn[g].phase \in Handshaking, Insert(g) PROVE Good
    <2> DEFINE old == peers[conn[g].addr]
    <2>1. /\ Gens' = Gens
          /\ conn'[g].phase = "announcing"
          /\ conn'[g].closed <=> conn[g].closed
          /\ old \in Gens \ {g} => conn'[old].phase = conn[old].phase /\ conn'[old].closed
          /\ \A h \in Gens : h \notin {g, old} => conn'[h] = conn[h]
      BY <1>6, InsertFacts DEF CoreType
    <2> HIDE DEF old
    <2> QED
      BY <1>1, <2>1
  <1>7. CASE ShutdownEnds
    <2>1. /\ Gens' = Gens
          /\ \A h \in Gens : IF conn[h].phase \in InRegistry
                             THEN conn'[h].phase = "done" /\ conn'[h].closed
                             ELSE conn'[h] = conn[h]
      BY <1>7, EndFacts DEF CoreType
    <2> QED
      BY <1>1, <2>1
  <1>8. {"checked", "dialing", "done", "reading", "reporting"} \subseteq Phases
        /\ \A g \in Gens : conn[g].phase \in Phases
    BY GensFacts DEF Phases, CoreType
  <1> HIDE DEF Good
  <1>9. ASSUME NEW g \in Gens,
               \/ MoveTo(g, "dialing") \/ MoveTo(g, "done") \/ MoveTo(g, "reading")
        PROVE  Good
    BY <1>4, <1>8, <1>9
  <1>10. ASSUME NEW g \in Gens, is_current(g),
                \/ Remove(g, "reporting") \/ Remove(g, conn[g].phase)
         PROVE  Good
    BY <1>5, <1>8, <1>10
  <1>11. ASSUME NEW a \in Endpoints, NewAttempt(a, "checked") PROVE Good
    BY <1>3, <1>11 DEF Addrs
  <1>12. ASSUME NEW a \in Sockets, NewAttempt(a, "accepted") PROVE Good
    BY <1>3, <1>12 DEF Addrs
  <1>13. ASSUME NEW g \in Gens,
                \/ conn[g].phase = "checked" /\ MoveTo(g, "dialing") /\ slots > 0 /\ slots' = slots - 1
                \/ conn[g].phase \in {"checked", "reporting"} /\ MoveTo(g, "done") /\ UNCHANGED slots
                \/ /\ conn[g].phase = "reading" /\ ~is_current(g)
                   /\ MoveTo(g, "done") /\ UNCHANGED slots
                \/ conn[g].phase = "announcing" /\ MoveTo(g, "reading") /\ UNCHANGED slots
                \/ conn[g].phase \in Handshaking /\ MoveTo(g, "done") /\ slots' = slots + 1
         PROVE  Good
    BY <1>9, <1>13
  <1>14. CASE /\ node = "open" /\ UNCHANGED <<peers, node>>
              /\ \/ \E a \in Endpoints : NewAttempt(a, "checked") /\ UNCHANGED slots
                 \/ \E a \in Sockets : NewAttempt(a, "accepted") /\ slots > 0 /\ slots' = slots - 1
    BY <1>11, <1>12, <1>14
  <1>15. ASSUME NEW g \in Gens, is_current(g),
                \/ conn[g].phase = "reading" /\ Remove(g, "reporting")
                \/ Remove(g, conn[g].phase)
         PROVE  Good
    BY <1>10, <1>15
  <1> QED
    BY <1>2, <1>6, <1>7, <1>13, <1>14, <1>15 DEF ConnChange

\* The steps, as far as they concern writers.
WriterChange ==
    \/ UNCHANGED failed /\ writing' \in [AllWriters -> SUBSET Gens]
    \/ \E w \in AllWriters, g \in Gens :
          /\ is_current(g) /\ Remove(g, conn[g].phase)
          /\ writing' \in [AllWriters -> SUBSET Gens]
          /\ failed' = [failed EXCEPT ![w] = g]
    \/ \E w \in AllWriters : UNCHANGED writing /\ failed' = [failed EXCEPT ![w] = None]

LEMMA WriterClassified ==
    ASSUME CoreType, WriterType, queue \in Seq(Event), [Next]_vars
    PROVE  WriterChange
  <1>1. ASSUME UNCHANGED writerVars PROVE WriterChange
    BY <1>1 DEF WriterType, WriterChange, writerVars
  <1>2. ASSUME Dial \/ Incoming \/ (\E g \in Gens : Task(g)) PROVE WriterChange
    <2>1. UNCHANGED writerVars
      <3>1. ASSUME Dial PROVE UNCHANGED writerVars
        BY <3>1 DEF Dial, DialCheck, DialAcquire, DialFails, DialSave, DialCancelled
      <3>2. ASSUME Incoming PROVE UNCHANGED writerVars
        BY <3>2 DEF Incoming, Accept, HandshakeEnds, IncomingSave
      <3>3. ASSUME NEW g \in Gens, Task(g) PROVE UNCHANGED writerVars
        BY <3>3 DEF Task, Announce, Read, ReadEnds, Report
      <3> QED
        BY <1>2, <3>1, <3>2, <3>3
    <2> QED
      BY <1>1, <2>1
  <1>3. ASSUME NEW w \in Writers, Snapshot(w) PROVE WriterChange
    <2>0. w \in AllWriters
      BY DEF AllWriters
    <2> DEFINE all == {peers[a] : a \in Addrs} \ {None}
    <2>1. all \subseteq Gens
      BY DEF CoreType
    <2>2. UNCHANGED failed /\ writing' = [writing EXCEPT ![w] = all]
      BY <1>3 DEF Snapshot
    <2> HIDE DEF all
    <2> QED
      BY <2>0, <2>1, <2>2 DEF WriterType, WriterChange
  <1>4. ASSUME NEW w \in AllWriters, NEW g \in Gens, WriteSucceeds(w, g) PROVE WriterChange
    BY <1>4 DEF WriteSucceeds, WriterType, WriterChange
  <1>5. ASSUME NEW w \in AllWriters, NEW g \in Gens, WriteFails(w, g) PROVE WriterChange
    <2>1. writing' \in [AllWriters -> SUBSET Gens]
      BY <1>5 DEF WriteFails, WriterType
    <2> QED
      BY <1>5, <2>1 DEF WriteFails, WriterChange
  <1>6. ASSUME NEW w \in AllWriters, WriterReports(w) PROVE WriterChange
    BY <1>6 DEF WriterReports, WriterChange
  <1>7. CASE HandleNodeEvent
    <2> DEFINE ans == IF Head(queue).kind = "pull" THEN {peers[Head(queue).addr]} \ {None}
                      ELSE writing["events"]
    <2>1. UNCHANGED failed /\ writing' = [writing EXCEPT !["events"] = ans]
      BY <1>7 DEF HandleNodeEvent
    <2>2. Head(queue) \in Event
      BY <1>7 DEF HandleNodeEvent
    <2>3. Head(queue).addr \in Addrs
      BY <2>2 DEF Event
    <2>4. "events" \in AllWriters
      BY DEF AllWriters
    <2>5. ans \in SUBSET Gens
      BY <2>3, <2>4 DEF CoreType, WriterType
    <2> HIDE DEF ans
    <2> QED
      BY <2>1, <2>4, <2>5 DEF WriterType, WriterChange
  <1>8. CASE ShutdownStarts \/ ShutdownEnds
    BY <1>1, <1>8 DEF ShutdownStarts, ShutdownEnds
  <1>9. CASE UNCHANGED vars
    BY <1>1, <1>9 DEF vars
  <1> QED
    BY <1>2, <1>3, <1>4, <1>5, <1>6, <1>7, <1>8, <1>9 DEF Next, Write

\* One task reports the end of a generation: the one that removed it.
LEMMA WriterStep ==
    ASSUME CoreType, OwnedInv, WriterType, ReportedOnce, ConnChange, Stable, WriterChange
    PROVE  WriterType' /\ ReportedOnce'
  <1>1. /\ \A h \in Gens : conn[h].closed =>
              /\ conn'[h].closed
              /\ conn'[h].phase = "reporting" => conn[h].phase = "reporting"
        /\ \A h \in Gens' : conn'[h].phase = "reporting" => conn'[h].closed
    BY ClosedStays
  <1>2. None \notin Gens /\ Gens \subseteq Gens'
    BY GensFacts DEF CoreType, Stable
  <1>3. \A w \in AllWriters : failed[w] # None =>
           /\ failed[w] \in Gens /\ conn[failed[w]].closed /\ conn[failed[w]].phase # "reporting"
           /\ \A v \in AllWriters : failed[v] = failed[w] => v = w
    BY DEF ReportedOnce, WriterType
  <1>4. WriterType'
    <2>1. writing' \in [AllWriters -> SUBSET Gens']
      BY <1>2 DEF WriterType, WriterChange
    <2>2. failed' \in [AllWriters -> Gens' \cup {None}]
      BY <1>2 DEF WriterType, WriterChange
    <2> QED
      BY <2>1, <2>2 DEF WriterType
  <1>5. \A w \in AllWriters : failed'[w] # None =>
           /\ conn'[failed'[w]].closed
           /\ conn'[failed'[w]].phase # "reporting"
           /\ \A v \in AllWriters : failed'[v] = failed'[w] => v = w
    <2>1. CASE UNCHANGED failed
      BY <1>1, <1>3, <2>1
    <2>2. ASSUME NEW u \in AllWriters, failed' = [failed EXCEPT ![u] = None]
          PROVE  \A w \in AllWriters : failed'[w] # None =>
                    /\ conn'[failed'[w]].closed
                    /\ conn'[failed'[w]].phase # "reporting"
                    /\ \A v \in AllWriters : failed'[v] = failed'[w] => v = w
      <3>1. failed'[u] = None /\ \A v \in AllWriters : v # u => failed'[v] = failed[v]
        BY <2>2 DEF WriterType
      <3> QED
        BY <1>1, <1>3, <3>1
    <2>3. ASSUME NEW u \in AllWriters, NEW g \in Gens, is_current(g), Remove(g, conn[g].phase),
                 failed' = [failed EXCEPT ![u] = g]
          PROVE  \A w \in AllWriters : failed'[w] # None =>
                    /\ conn'[failed'[w]].closed
                    /\ conn'[failed'[w]].phase # "reporting"
                    /\ \A v \in AllWriters : failed'[v] = failed'[w] => v = w
      <3>1. failed'[u] = g /\ \A v \in AllWriters : v # u => failed'[v] = failed[v]
        BY <2>3 DEF WriterType
      <3>2. conn[g].phase \in {"announcing", "reading"} /\ ~conn[g].closed
        BY <2>3, CurrentPhase
      <3>3. conn'[g].closed /\ conn'[g].phase = conn[g].phase
        <4>1. conn[g].phase \in Phases
          BY GensFacts DEF CoreType
        <4> QED
          BY <2>3, <4>1, RemoveFacts DEF CoreType, Moved
      <3>4. \A v \in AllWriters : failed[v] # g
        BY <1>2, <1>3, <3>2
      <3>5. ASSUME NEW w \in AllWriters, w # u, failed'[w] # None
            PROVE  /\ conn'[failed'[w]].closed
                   /\ conn'[failed'[w]].phase # "reporting"
                   /\ \A v \in AllWriters : failed'[v] = failed'[w] => v = w
        BY <1>1, <1>3, <3>1, <3>4, <3>5
      <3>6. /\ conn'[failed'[u]].closed
            /\ conn'[failed'[u]].phase # "reporting"
            /\ \A v \in AllWriters : failed'[v] = failed'[u] => v = u
        BY <3>1, <3>2, <3>3, <3>4
      <3> QED
        BY <3>5, <3>6
    <2> QED
      BY <2>1, <2>2, <2>3 DEF WriterChange
  <1> QED
    BY <1>1, <1>4, <1>5 DEF ReportedOnce

-----------------------------------------------------------------------------
(* The event queue and active_connections. *)

QueueType == queue \in Seq(Event) /\ known \subseteq Addrs

\* What was in the queue is in the queue, at its place.
Grown == \A i \in DOMAIN queue : i \in DOMAIN queue' /\ queue'[i] = queue[i]

ReportsStay == \A h \in Gens : conn[h].phase = "reporting" => conn'[h].phase = "reporting"

EntriesStay == \A a \in Addrs : peers[a] # None => peers'[a] # None

FailuresStay == \A w \in AllWriters : failed[w] # None => failed'[w] = failed[w]

\* Sending an event; while the node is open it arrives.
LEMMA SendFacts ==
    ASSUME queue \in Seq(Event), NEW kind \in {"connected", "disconnected", "ops", "pull"},
           NEW a \in Addrs, SendNodeEvent(kind, a)
    PROVE  /\ queue' \in Seq(Event) /\ Grown
           /\ node = "open" =>
                 \E i \in DOMAIN queue' : queue'[i] = [kind |-> kind, addr |-> a]
  <1> DEFINE e == [kind |-> kind, addr |-> a]
  <1>1. e \in Event
    BY DEF Event
  <1>2. CASE queue' = Append(queue, e)
    <2> HIDE DEF e
    <2>1. queue' \in Seq(Event) /\ Len(queue') = Len(queue) + 1 /\ queue'[Len(queue) + 1] = e
      BY <1>1, <1>2
    <2>2. \A i \in 1..Len(queue) : queue'[i] = queue[i]
      BY <1>1, <1>2
    <2>3. DOMAIN queue = 1..Len(queue) /\ DOMAIN queue' = 1..Len(queue') /\ Len(queue) \in Nat
      BY <2>1
    <2>4. Len(queue) + 1 \in DOMAIN queue'
      BY <2>1, <2>3
    <2>5. Grown
      BY <2>1, <2>2, <2>3 DEF Grown
    <2>6. \E i \in DOMAIN queue' : queue'[i] = e
      BY <2>1, <2>4
    <2> QED
      BY <2>1, <2>5, <2>6 DEF e
  <1>3. CASE UNCHANGED queue /\ node # "open"
    BY <1>3 DEF Grown
  <1> QED
    BY <1>2, <1>3 DEF SendNodeEvent

\* A pending removal stays pending while nobody delivers it.
LEMMA PendingStays ==
    ASSUME CoreType, WriterType, Stable, ReportsStay, FailuresStay, Grown,
           NEW a, RemovalPending(a)
    PROVE  RemovalPending(a)'
  <1>1. CASE \E i \in DOMAIN queue : queue[i] = [kind |-> "disconnected", addr |-> a]
    <2>1. \E i \in DOMAIN queue' : queue'[i] = [kind |-> "disconnected", addr |-> a]
      BY <1>1 DEF Grown
    <2> QED
      BY <2>1 DEF RemovalPending
  <1>2. CASE \E g \in Gens : conn[g].phase = "reporting" /\ conn[g].addr = a
    <2>1. \E g \in Gens' : conn'[g].phase = "reporting" /\ conn'[g].addr = a
      BY <1>2 DEF ReportsStay, Stable
    <2> QED
      BY <2>1 DEF RemovalPending
  <1>3. CASE \E w \in AllWriters : failed[w] # None /\ conn[failed[w]].addr = a
    <2>1. PICK w \in AllWriters : failed[w] # None /\ conn[failed[w]].addr = a
      BY <1>3
    <2>2. failed[w] \in Gens /\ failed'[w] = failed[w]
      BY <2>1 DEF WriterType, FailuresStay
    <2>3. failed'[w] # None /\ conn'[failed'[w]].addr = a
      BY <2>1, <2>2 DEF Stable
    <2> QED
      BY <2>3 DEF RemovalPending
  <1> QED
    BY <1>1, <1>2, <1>3 DEF RemovalPending

\* A step that removes no entry and delivers no removal.
LEMMA ForgottenKept ==
    ASSUME CoreType, WriterType, QueueType, EndedIsForgotten, Stable, ReportsStay, FailuresStay,
           Grown, EntriesStay, UNCHANGED known, node' = "open" => node = "open"
    PROVE  EndedIsForgotten'
  <1> SUFFICES ASSUME node' = "open", NEW a \in known' PROVE peers'[a] # None \/ RemovalPending(a)'
    BY DEF EndedIsForgotten
  <1>1. a \in known /\ a \in Addrs /\ (peers[a] # None \/ RemovalPending(a))
    BY DEF EndedIsForgotten, QueueType
  <1>2. CASE peers[a] # None
    BY <1>1, <1>2 DEF EntriesStay
  <1>3. CASE RemovalPending(a)
    BY <1>3, PendingStays
  <1> QED
    BY <1>1, <1>2, <1>3

\* New attempts, moves of a generation that has nothing to report, and entries
\* into the map remove nothing.
LEMMA QuietSteps ==
    ASSUME CoreType,
           \/ UNCHANGED <<conn, peers>>
           \/ \E a \in Addrs, ph \in Phases : NewAttempt(a, ph) /\ UNCHANGED peers
           \/ \E g \in Gens, ph \in Phases : /\ conn[g].phase # "reporting" /\ MoveTo(g, ph)
                                             /\ UNCHANGED peers
           \/ \E g \in Gens : conn[g].phase \in Handshaking /\ Insert(g)
    PROVE  ReportsStay /\ EntriesStay
  <1>1. CASE UNCHANGED <<conn, peers>>
    BY <1>1 DEF ReportsStay, EntriesStay
  <1>2. ASSUME NEW a \in Addrs, NEW ph \in Phases, NewAttempt(a, ph), UNCHANGED peers
        PROVE  ReportsStay /\ EntriesStay
    <2>1. \A h \in Gens : conn'[h] = conn[h]
      BY <1>2, NewFacts DEF CoreType
    <2> QED
      BY <1>2, <2>1 DEF ReportsStay, EntriesStay
  <1>3. ASSUME NEW g \in Gens, NEW ph \in Phases, conn[g].phase # "reporting", MoveTo(g, ph),
               UNCHANGED peers
        PROVE  ReportsStay /\ EntriesStay
    <2>1. Moved(g, ph, conn[g].closed)
      BY <1>3, MoveFacts DEF CoreType
    <2> QED
      BY <1>3, <2>1 DEF Moved, ReportsStay, EntriesStay
  <1>4. ASSUME NEW g \in Gens, conn[g].phase \in Handshaking, Insert(g)
        PROVE  ReportsStay /\ EntriesStay
    <2>1. \A h \in Gens : h # g => conn'[h].phase = conn[h].phase
      BY <1>4, InsertFacts DEF CoreType
    <2>2. peers' = [peers EXCEPT ![conn[g].addr] = g]
      BY <1>4 DEF Insert
    <2>3. None \notin Gens
      BY GensFacts DEF CoreType
    <2>4. EntriesStay
      BY <2>2, <2>3 DEF EntriesStay, CoreType
    <2>5. ReportsStay
      BY <1>4, <2>1 DEF ReportsStay, Handshaking
    <2> QED
      BY <2>4, <2>5
  <1> QED
    BY <1>1, <1>2, <1>3, <1>4

\* The entry of g leaves the map and its removal has a reporter.
LEMMA RemovalIsReported ==
    ASSUME CoreType, WriterType, QueueType, EndedIsForgotten, Stable, FailuresStay,
           UNCHANGED <<queue, known, node>>, NEW g \in Gens, NEW ph \in Phases, Remove(g, ph),
           conn[g].phase = "reporting" => ph = "reporting",
           ph = "reporting" \/ \E w \in AllWriters : failed'[w] = g
    PROVE  EndedIsForgotten'
  <1>1. Moved(g, ph, TRUE)
    BY RemoveFacts DEF CoreType
  <1>2. peers' = [peers EXCEPT ![conn[g].addr] = None]
    BY DEF Remove
  <1>3. ReportsStay /\ Grown /\ g # None
    BY <1>1, GensFacts DEF Moved, ReportsStay, Grown, CoreType
  <1>4. ASSUME NEW a, a = conn[g].addr PROVE RemovalPending(a)'
    <2>1. CASE ph = "reporting"
      <3>1. g \in Gens' /\ conn'[g].phase = "reporting" /\ conn'[g].addr = a
        BY <1>1, <1>4, <2>1 DEF Moved
      <3> QED
        BY <3>1 DEF RemovalPending
    <2>2. CASE \E w \in AllWriters : failed'[w] = g
      <3>1. \E w \in AllWriters : failed'[w] # None /\ conn'[failed'[w]].addr = a
        BY <1>1, <1>3, <1>4, <2>2 DEF Moved
      <3> QED
        BY <3>1 DEF RemovalPending
    <2> QED
      BY <2>1, <2>2
  <1>5. ASSUME NEW a \in known, node = "open" PROVE peers'[a] # None \/ RemovalPending(a)'
    <2>1. a \in Addrs /\ (peers[a] # None \/ RemovalPending(a))
      BY <1>5 DEF EndedIsForgotten, QueueType
    <2>2. CASE a = conn[g].addr
      BY <1>4, <2>2
    <2>3. CASE a # conn[g].addr /\ peers[a] # None
      BY <1>2, <2>1, <2>3 DEF CoreType
    <2>4. CASE RemovalPending(a)
      BY <1>3, <2>4, PendingStays
    <2> QED
      BY <2>1, <2>2, <2>3, <2>4
  <1> QED
    BY <1>5 DEF EndedIsForgotten

\* The task of g delivers the removal of its address.
LEMMA ReportStep ==
    ASSUME CoreType, WriterType, QueueType, EndedIsForgotten, Stable, NEW g \in Gens, Report(g)
    PROVE  QueueType' /\ EndedIsForgotten'
  <1>1. Moved(g, "done", conn[g].closed)
    BY MoveFacts DEF CoreType, Report, Phases
  <1>2. conn[g].addr \in Addrs
    BY GensFacts DEF CoreType
  <1>3. /\ queue' \in Seq(Event) /\ Grown
        /\ node = "open" =>
              \E i \in DOMAIN queue' : queue'[i] = [kind |-> "disconnected", addr |-> conn[g].addr]
    BY <1>2, SendFacts DEF Report, QueueType
  <1>4. UNCHANGED <<peers, writerVars, known, node>>
    BY DEF Report
  <1>5. ASSUME NEW a \in known, node = "open" PROVE peers'[a] # None \/ RemovalPending(a)'
    <2>1. peers[a] # None \/ RemovalPending(a)
      BY <1>5 DEF EndedIsForgotten
    <2>2. CASE peers[a] # None
      BY <1>4, <2>2
    <2>3. CASE a = conn[g].addr
      BY <1>3, <1>5, <2>3 DEF RemovalPending
    <2>4. CASE \E i \in DOMAIN queue : queue[i] = [kind |-> "disconnected", addr |-> a]
      BY <1>3, <2>4 DEF RemovalPending, Grown
    <2>5. ASSUME NEW h \in Gens, h # g, conn[h].phase = "reporting", conn[h].addr = a
          PROVE  RemovalPending(a)'
      <3>1. h \in Gens' /\ conn'[h].phase = "reporting" /\ conn'[h].addr = a
        BY <1>1, <2>5 DEF Moved
      <3> QED
        BY <3>1 DEF RemovalPending
    <2>6. ASSUME NEW w \in AllWriters, failed[w] # None, conn[failed[w]].addr = a
          PROVE  RemovalPending(a)'
      <3>1. failed[w] \in Gens /\ failed'[w] = failed[w]
        BY <1>4, <2>6 DEF WriterType, writerVars
      <3>2. failed'[w] # None /\ conn'[failed'[w]].addr = a
        BY <2>6, <3>1 DEF Stable
      <3> QED
        BY <3>2 DEF RemovalPending
    <2> QED
      BY <2>1, <2>2, <2>3, <2>4, <2>5, <2>6 DEF RemovalPending
  <1>6. EndedIsForgotten'
    BY <1>4, <1>5 DEF EndedIsForgotten
  <1> QED
    BY <1>3, <1>4, <1>6 DEF QueueType

\* A writer delivers the removal it caused.
LEMMA WriterReportStep ==
    ASSUME CoreType, WriterType, QueueType, EndedIsForgotten, NEW u \in AllWriters, WriterReports(u)
    PROVE  QueueType' /\ EndedIsForgotten'
  <1> DEFINE b == conn[failed[u]].addr
  <1>1. failed[u] \in Gens
    BY DEF WriterReports, WriterType
  <1>2. b \in Addrs
    BY <1>1, GensFacts DEF CoreType
  <1>3. /\ queue' \in Seq(Event) /\ Grown
        /\ node = "open" => \E i \in DOMAIN queue' : queue'[i] = [kind |-> "disconnected", addr |-> b]
    BY <1>2, SendFacts DEF WriterReports, QueueType
  <1>4. /\ UNCHANGED <<conn, peers, known, node>> /\ Gens' = Gens
        /\ \A v \in AllWriters : v # u => failed'[v] = failed[v]
    BY DEF WriterReports, WriterType, Gens
  <1> HIDE DEF b
  <1>5. ASSUME NEW a \in known, node = "open" PROVE peers'[a] # None \/ RemovalPending(a)'
    <2>1. peers[a] # None \/ RemovalPending(a)
      BY <1>5 DEF EndedIsForgotten
    <2>2. CASE peers[a] # None
      BY <1>4, <2>2
    <2>3. CASE a = b
      BY <1>3, <1>5, <2>3 DEF RemovalPending
    <2>4. CASE \E i \in DOMAIN queue : queue[i] = [kind |-> "disconnected", addr |-> a]
      BY <1>3, <2>4 DEF RemovalPending, Grown
    <2>5. ASSUME NEW h \in Gens, conn[h].phase = "reporting", conn[h].addr = a
          PROVE  RemovalPending(a)'
      BY <1>4, <2>5 DEF RemovalPending
    <2>6. ASSUME NEW w \in AllWriters, failed[w] # None, conn[failed[w]].addr = a, a # b
          PROVE  RemovalPending(a)'
      <3>1. w # u
        BY <2>6 DEF b
      <3> QED
        BY <1>4, <2>6, <3>1 DEF RemovalPending
    <2> QED
      BY <2>1, <2>2, <2>3, <2>4, <2>5, <2>6 DEF RemovalPending
  <1>6. EndedIsForgotten'
    BY <1>4, <1>5 DEF EndedIsForgotten
  <1> QED
    BY <1>3, <1>4, <1>6 DEF QueueType

\* The event loop takes an event.
LEMMA HandleStep ==
    ASSUME CoreType, WriterType, QueueType, EndedIsForgotten, HandleNodeEvent
    PROVE  QueueType' /\ EndedIsForgotten'
  <1> DEFINE e == Head(queue)
  <1>1. queue \in Seq(Event) /\ queue # <<>>
    BY DEF QueueType, HandleNodeEvent
  <1>2. /\ e \in Event /\ e = queue[1] /\ queue' = Tail(queue) /\ queue' \in Seq(Event)
        /\ Len(queue) \in Nat \ {0} /\ Len(queue') = Len(queue) - 1
        /\ \A i \in 2..Len(queue) : queue'[i - 1] = queue[i]
    BY <1>1 DEF HandleNodeEvent
  <1>3. /\ known' = Known(e) /\ UNCHANGED <<conn, peers, failed, node>> /\ Gens' = Gens
    BY DEF HandleNodeEvent, Gens
  <1>4. e.addr \in Addrs
    BY <1>2 DEF Event
  <1> HIDE DEF e
  <1>5. \A a \in known' : \/ a \in known /\ ~(e.kind = "disconnected" /\ e.addr = a)
                          \/ peers[a] # None
    BY <1>3 DEF Known
  <1>6. known' \subseteq Addrs
    BY <1>3, <1>4 DEF Known, QueueType
  <1>7. ASSUME NEW a \in known', node = "open" PROVE peers'[a] # None \/ RemovalPending(a)'
    <2>1. CASE peers[a] # None
      BY <1>3, <2>1
    <2>2. CASE a \in known /\ ~(e.kind = "disconnected" /\ e.addr = a) /\ peers[a] = None
      <3>1. RemovalPending(a)
        BY <1>7, <2>2 DEF EndedIsForgotten
      <3>2. ASSUME NEW i \in DOMAIN queue, queue[i] = [kind |-> "disconnected", addr |-> a]
            PROVE  RemovalPending(a)'
        <4>1. i \in 1..Len(queue) /\ i # 1
          BY <1>1, <1>2, <2>2, <3>2
        <4>2. i \in 2..Len(queue) /\ i - 1 \in 1..Len(queue')
          BY <1>2, <4>1
        <4>3. i - 1 \in DOMAIN queue' /\ queue'[i - 1] = [kind |-> "disconnected", addr |-> a]
          BY <1>2, <3>2, <4>2
        <4> QED
          BY <4>3 DEF RemovalPending
      <3>3. ASSUME \/ \E g \in Gens : conn[g].phase = "reporting" /\ conn[g].addr = a
                   \/ \E w \in AllWriters : failed[w] # None /\ conn[failed[w]].addr = a
            PROVE  RemovalPending(a)'
        BY <1>3, <3>3 DEF RemovalPending
      <3> QED
        BY <3>1, <3>2, <3>3 DEF RemovalPending
    <2> QED
      BY <1>5, <2>1, <2>2
  <1>8. EndedIsForgotten'
    BY <1>3, <1>7 DEF EndedIsForgotten
  <1> QED
    BY <1>2, <1>6, <1>8 DEF QueueType

\* Every step keeps the promise that ends of connections reach the event loop.
LEMMA QueueStep ==
    ASSUME CoreType, OwnedInv, WriterType, QueueType, EndedIsForgotten, Stable, [Next]_vars
    PROVE  QueueType' /\ EndedIsForgotten'
  <1> DEFINE Good == QueueType' /\ EndedIsForgotten'
  <1> SUFFICES Good
    OBVIOUS
  <1>1. ASSUME ReportsStay, EntriesStay, UNCHANGED <<writerVars, queue, known>>,
               node' = "open" => node = "open"
        PROVE  Good
    <2>1. Grown /\ FailuresStay /\ QueueType'
      BY <1>1 DEF Grown, FailuresStay, QueueType, writerVars
    <2> QED
      BY <1>1, <2>1, ForgottenKept
  <1>2. ASSUME ReportsStay, EntriesStay, UNCHANGED <<writerVars, known, node>>,
               NEW kind \in {"connected", "ops", "pull"}, NEW a \in Addrs, SendNodeEvent(kind, a)
        PROVE  Good
    <2>1. queue' \in Seq(Event) /\ Grown
      BY <1>2, SendFacts DEF QueueType
    <2>2. FailuresStay /\ QueueType'
      BY <1>2, <2>1 DEF FailuresStay, QueueType, writerVars
    <2> QED
      BY <1>2, <2>1, <2>2, ForgottenKept
  <1>3. {"dialing", "done", "reading", "reporting", "checked", "accepted"} \subseteq Phases
    BY DEF Phases
  <1>4. ASSUME UNCHANGED <<conn, peers>> PROVE ReportsStay /\ EntriesStay
    BY <1>4, QuietSteps
  <1>5. ASSUME NEW a \in Addrs, NEW ph \in Phases, NewAttempt(a, ph), UNCHANGED peers
        PROVE  ReportsStay /\ EntriesStay
    BY <1>5, QuietSteps
  <1>6. ASSUME NEW g \in Gens, NEW ph \in Phases, conn[g].phase # "reporting", MoveTo(g, ph),
               UNCHANGED peers
        PROVE  ReportsStay /\ EntriesStay
    BY <1>6, QuietSteps
  <1>7. ASSUME NEW g \in Gens, conn[g].phase \in Handshaking, Insert(g)
        PROVE  ReportsStay /\ EntriesStay
    BY <1>7, QuietSteps
  <1>8. \A g \in Gens : conn[g].addr \in Addrs /\ conn[g].phase \in Phases
    BY GensFacts DEF CoreType
  <1> HIDE DEF Good
  <1>9. ASSUME NEW e \in Endpoints, DialCheck(e) PROVE Good
    <2>1. NewAttempt(e, "checked") /\ UNCHANGED <<peers, writerVars, queue, known, node>>
      BY <1>9 DEF DialCheck
    <2>2. e \in Addrs /\ "checked" \in Phases
      BY <1>3 DEF Addrs
    <2> QED
      BY <1>1, <1>5, <2>1, <2>2
  <1>10. ASSUME NEW s \in Sockets, Accept(s) PROVE Good
    <2>1. NewAttempt(s, "accepted") /\ UNCHANGED <<peers, writerVars, queue, known, node>>
      BY <1>10 DEF Accept
    <2>2. s \in Addrs /\ "accepted" \in Phases
      BY <1>3 DEF Addrs
    <2> QED
      BY <1>1, <1>5, <2>1, <2>2
  <1>11. ASSUME NEW g \in Gens, DialAcquire(g) \/ DialFails(g) \/ DialSave(g)
         PROVE  Good
    <2>1. UNCHANGED <<writerVars, queue, known, node>> /\ conn[g].phase # "reporting"
      BY <1>11 DEF DialAcquire, DialFails, DialSave
    <2>2. \/ UNCHANGED peers /\ (MoveTo(g, "dialing") \/ MoveTo(g, "done"))
          \/ conn[g].phase \in Handshaking /\ Insert(g)
      BY <1>11 DEF DialAcquire, DialFails, DialSave, Handshaking
    <2>3. ReportsStay /\ EntriesStay
      BY <1>3, <1>6, <1>7, <2>1, <2>2
    <2> QED
      BY <1>1, <2>1, <2>3
  <1>12. ASSUME NEW g \in Gens, HandshakeEnds(g) \/ IncomingSave(g)
         PROVE  Good
    <2>1. UNCHANGED <<writerVars, queue, known, node>> /\ conn[g].phase # "reporting"
      BY <1>12 DEF HandshakeEnds, IncomingSave
    <2>2. \/ UNCHANGED peers /\ MoveTo(g, "done")
          \/ conn[g].phase \in Handshaking /\ Insert(g)
      BY <1>12 DEF HandshakeEnds, IncomingSave, Handshaking
    <2>3. ReportsStay /\ EntriesStay
      BY <1>3, <1>6, <1>7, <2>1, <2>2
    <2> QED
      BY <1>1, <2>1, <2>3
  <1>13. ASSUME NEW g \in Gens, DialCancelled(g) PROVE Good
    <2>1. UNCHANGED <<conn, peers, writerVars, queue, known, node>>
      BY <1>13 DEF DialCancelled
    <2> QED
      BY <1>1, <1>4, <2>1
  <1>14. ASSUME NEW g \in Gens, Announce(g) PROVE Good
    <2>1. UNCHANGED <<peers, writerVars, known, node>> /\ conn[g].phase # "reporting"
      BY <1>14 DEF Announce
    <2>2. MoveTo(g, "reading")
      BY <1>14 DEF Announce
    <2>3. ReportsStay /\ EntriesStay
      BY <1>3, <1>6, <2>1, <2>2
    <2>4. SendNodeEvent("connected", conn[g].addr) \/ UNCHANGED queue
      BY <1>14 DEF Announce
    <2> QED
      BY <1>1, <1>2, <1>8, <2>1, <2>3, <2>4
  <1>15. ASSUME NEW g \in Gens, NEW kind \in {"ops", "pull"}, Read(g, kind) PROVE Good
    <2>1. UNCHANGED <<conn, peers, writerVars, known, node>> /\ SendNodeEvent(kind, conn[g].addr)
      BY <1>15 DEF Read
    <2> QED
      BY <1>2, <1>4, <1>8, <2>1
  <1>16. ASSUME NEW g \in Gens, ReadEnds(g) PROVE Good
    <2>1. UNCHANGED <<writerVars, queue, known, node>> /\ conn[g].phase = "reading"
      BY <1>16 DEF ReadEnds
    <2>2. CASE MoveTo(g, "done") /\ UNCHANGED peers
      <3>1. ReportsStay /\ EntriesStay
        BY <1>3, <1>6, <2>1, <2>2
      <3> QED
        BY <1>1, <2>1, <3>1
    <2>3. CASE Remove(g, "reporting")
      <3>1. FailuresStay /\ QueueType'
        BY <2>1 DEF FailuresStay, QueueType, writerVars
      <3>2. EndedIsForgotten'
        BY <1>3, <2>1, <2>3, <3>1, RemovalIsReported
      <3> QED
        BY <3>1, <3>2 DEF Good
    <2> QED
      BY <1>16, <2>2, <2>3 DEF ReadEnds
  <1>17. ASSUME NEW g \in Gens, Report(g) PROVE Good
    BY <1>17, ReportStep DEF Good
  <1>18. ASSUME NEW w \in AllWriters, NEW g \in Gens, WriteFails(w, g) PROVE Good
    <2>1. failed[w] = None /\ UNCHANGED <<queue, known, node>>
      BY <1>18 DEF WriteFails
    <2>2. QueueType'
      BY <2>1 DEF QueueType
    <2>3. CASE UNCHANGED <<peers, slots, conn, failed>>
      <3>1. FailuresStay /\ Grown /\ ReportsStay /\ EntriesStay
        BY <1>4, <2>1, <2>3 DEF FailuresStay, Grown
      <3> QED
        BY <2>1, <2>2, <3>1, ForgottenKept DEF Good
    <2>4. CASE is_current(g) /\ Remove(g, conn[g].phase) /\ failed' = [failed EXCEPT ![w] = g]
      <3>1. failed'[w] = g /\ FailuresStay
        BY <2>1, <2>4 DEF WriterType, FailuresStay
      <3>2. EndedIsForgotten'
        BY <1>8, <2>1, <2>4, <3>1, RemovalIsReported
      <3> QED
        BY <2>2, <3>2 DEF Good
    <2> QED
      BY <1>18, <2>3, <2>4 DEF WriteFails
  <1>19. ASSUME NEW w \in AllWriters, WriterReports(w) PROVE Good
    BY <1>19, WriterReportStep DEF Good
  <1>20. ASSUME UNCHANGED <<conn, peers, failed, queue, known, node>> PROVE Good
    <2>1. FailuresStay /\ Grown /\ ReportsStay /\ EntriesStay /\ QueueType'
      BY <1>4, <1>20 DEF FailuresStay, Grown, QueueType
    <2> QED
      BY <1>20, <2>1, ForgottenKept DEF Good
  <1>21. ASSUME NEW w, Snapshot(w) PROVE Good
    BY <1>20, <1>21 DEF Snapshot
  <1>22. ASSUME NEW w, NEW g, WriteSucceeds(w, g) PROVE Good
    BY <1>20, <1>22 DEF WriteSucceeds
  <1>23. CASE HandleNodeEvent
    BY <1>23, HandleStep DEF Good
  <1>24. CASE ShutdownStarts
    <2>1. UNCHANGED <<conn, peers, writerVars, queue, known>> /\ node = "open"
      BY <1>24 DEF ShutdownStarts
    <2> QED
      BY <1>1, <1>4, <2>1
  <1>25. CASE ShutdownEnds
    <2>1. QueueType' /\ node' = "closed"
      BY <1>25 DEF ShutdownEnds, QueueType
    <2> QED
      BY <2>1 DEF EndedIsForgotten, Good
  <1>26. CASE UNCHANGED vars
    BY <1>20, <1>26 DEF vars, writerVars
  <1>27. CASE Dial
    BY <1>9, <1>11, <1>13, <1>27 DEF Dial
  <1>28. CASE Incoming
    BY <1>10, <1>12, <1>28 DEF Incoming
  <1>29. ASSUME NEW g \in Gens, Task(g) PROVE Good
    BY <1>14, <1>15, <1>16, <1>17, <1>29 DEF Task
  <1>30. ASSUME NEW w \in AllWriters, Write(w) PROVE Good
    BY <1>18, <1>19, <1>22, <1>30 DEF Write
  <1> QED
    BY <1>21, <1>23, <1>24, <1>25, <1>26, <1>27, <1>28, <1>29, <1>30 DEF Next

-----------------------------------------------------------------------------
(* The inductive invariant and the theorems. *)

ConnInv ==
    /\ TypeOK
    /\ OwnedInv
    /\ SlotsConserved
    /\ GuardsMatchCallers
    /\ ReportedOnce
    /\ EndedIsForgotten

LEMMA TypeParts == TypeOK <=> CoreType /\ DialType /\ WriterType /\ QueueType
  BY DEF TypeOK, CoreType, DialType, WriterType, QueueType

LEMMA ConnInit == Init => ConnInv
  <1> SUFFICES ASSUME Init PROVE ConnInv
    OBVIOUS
  <1>1. Gens = {} /\ conn \in Seq(Connection) /\ queue \in Seq(Event) /\ DOMAIN queue = {}
    BY DEF Init, Gens
  <1>2. Holders = {} /\ Cardinality(Holders) = 0 /\ Cardinality({}) = 0
    BY <1>1, FS_EmptySet DEF Holders
  <1>3. TypeOK
    BY <1>1, ConnectionsAssumption DEF Init, TypeOK, None
  <1>4. OwnedInv
    BY <1>1 DEF Init, OwnedInv, DialedAreEndpoints, MapIsOwned, ClosedIsEmpty
  <1>5. SlotsConserved
    BY <1>2, ConnectionsAssumption DEF Init, SlotsConserved
  <1>6. GuardsMatchCallers
    BY <1>2 DEF Init, GuardsMatchCallers
  <1>7. ReportedOnce /\ EndedIsForgotten
    BY <1>1 DEF Init, ReportedOnce, EndedIsForgotten, None
  <1> QED
    BY <1>3, <1>4, <1>5, <1>6, <1>7 DEF ConnInv

LEMMA ConnNext == ConnInv /\ [Next]_vars => ConnInv'
  <1> SUFFICES ASSUME ConnInv, [Next]_vars PROVE ConnInv'
    OBVIOUS
  <1>1. /\ CoreType /\ DialType /\ WriterType /\ QueueType /\ OwnedInv /\ SlotsConserved
        /\ GuardsMatchCallers /\ ReportedOnce /\ EndedIsForgotten
    BY TypeParts DEF ConnInv
  <1>2. ConnChange
    BY Classified DEF ConnInv
  <1>3. CoreType' /\ OwnedInv' /\ Stable
    BY <1>1, <1>2, CoreStep
  <1>4. SlotsConserved'
    BY <1>1, <1>2, SlotsStep
  <1>5. DialType' /\ GuardsMatchCallers'
    <2>1. DialChange
      BY <1>1, DialClassified
    <2> QED
      BY <1>1, <1>3, <2>1, DialStep
  <1>6. WriterType' /\ ReportedOnce'
    <2>1. WriterChange
      BY <1>1, WriterClassified DEF QueueType
    <2> QED
      BY <1>1, <1>2, <1>3, <2>1, WriterStep
  <1>7. QueueType' /\ EndedIsForgotten'
    BY <1>1, <1>3, QueueStep
  <1>8. TypeOK'
    BY <1>3, <1>5, <1>6, <1>7 DEF TypeOK, CoreType, DialType, WriterType, QueueType
  <1> QED
    BY <1>3, <1>4, <1>5, <1>6, <1>7, <1>8 DEF ConnInv

\* The conjunction that holds for ever and on which the theorems rest.
LEMMA ConnInvariant == Spec => []ConnInv
  <1>1. Init => ConnInv
    BY ConnInit
  <1>2. ConnInv /\ [Next]_vars => ConnInv'
    BY ConnNext
  <1> QED
    BY <1>1, <1>2, PTL DEF Spec

\* Every variable of a node's connections keeps its type, whatever callers,
\* listeners, tasks, writers and a shutdown do in between.
THEOREM ConnectionsTypeOK == Spec => []TypeOK
  <1>1. ConnInv => TypeOK
    BY DEF ConnInv
  <1> QED
    BY <1>1, ConnInvariant, PTL

\* Permits of connection_slots and guards of connect_to_peer come back on
\* every path, and a handshake that took a permit is never refused afterwards
\* (connect_to_peer, handle_incoming, remove_connection_if_current, shutdown).
THEOREM PermitsComeBack == Spec => []PermitsConserved
  <1>1. ConnInv => PermitsConserved
    <2> SUFFICES ASSUME ConnInv PROVE PermitsConserved
      OBVIOUS
    <2>1. CoreType /\ OwnedInv /\ SlotsConserved /\ GuardsMatchCallers
      BY TypeParts DEF ConnInv
    <2>2. HandshakeIsAdmitted
      BY <2>1, AdmittedStep
    <2> QED
      BY <2>1, <2>2 DEF PermitsConserved
  <1> QED
    BY <1>1, ConnInvariant, PTL

\* Every entry of the connection map belongs to a task that will remove it,
\* and a generation that lost its entry is cancelled, for every interleaving
\* of dials, accepts, replacements, failed writes and the shutdown.
THEOREM EntriesAreOwned == Spec => []MapIsOwned
  <1>1. ConnInv => MapIsOwned
    BY DEF ConnInv, OwnedInv
  <1> QED
    BY <1>1, ConnInvariant, PTL

\* After Node::shutdown the map is empty and stays empty, and no task of the
\* registry is left, although callers of connect_to_peer may still run.
THEOREM ShutdownLeavesNothing == Spec => []ClosedIsEmpty
  <1>1. ConnInv => ClosedIsEmpty
    BY DEF ConnInv, OwnedInv
  <1> QED
    BY <1>1, ConnInvariant, PTL

\* The end of a connection is reported by exactly the task that removed it,
\* and active_connections keeps no ended connection without a removal on its
\* way (mark_peer_failed, the read loop's cleanup, handle_node_event).
THEOREM EndsReachTheEventLoop == Spec => []EndsAreReported
  <1>1. ConnInv => EndsAreReported
    BY DEF ConnInv, EndsAreReported
  <1> QED
    BY <1>1, ConnInvariant, PTL
=============================================================================
