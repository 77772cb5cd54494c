---------------------------- MODULE CrdtsProofs ----------------------------
(***************************************************************************)
(* The CRDT types for every set of nodes, values, fields, elements and     *)
(* ids, every clock, and every order and repetition of deliveries.         *)
(***************************************************************************)
EXTENDS Crdts, FiniteSetTheorems, WellFoundedInduction, TLAPS

-----------------------------------------------------------------------------
(* LwwRegister *)

\* Where the operations are.
LEMMA RegisterAllOpsMembers ==
    ASSUME NEW op
    PROVE  op \in Register!AllOps <=>
              \/ op \in sent
              \/ \E n \in Nodes : op \in applied[n] \/ op \in unsent[n] \/ op \in disk[n].applied
  BY DEF Register!AllOps

\* A write beats another one, or the other way round, or they share a stamp.
LEMMA RegisterWinsIsOrder ==
    ASSUME NEW a \in Register!Register, NEW b \in Register!Register, NEW c \in Register!Register
    PROVE  /\ Register!candidate_wins(a, b) => ~Register!candidate_wins(b, a)
           /\ Register!candidate_wins(a, b) /\ Register!candidate_wins(b, c) => Register!candidate_wins(a, c)
           /\ \/ Register!candidate_wins(a, b)
              \/ Register!candidate_wins(b, a)
              \/ a.timestamp_ms = b.timestamp_ms /\ a.writer = b.writer
  <1>1. /\ a.timestamp_ms \in Nat /\ b.timestamp_ms \in Nat /\ c.timestamp_ms \in Nat
        /\ a.writer \in Nat /\ b.writer \in Nat /\ c.writer \in Nat
    BY ReplicaAssumption DEF Register!Register
  <1> QED
    BY <1>1 DEF Register!candidate_wins

\* A local write is stamped above the register it finds.
LEMMA RegisterStampFacts ==
    ASSUME Register!TypeOK, NEW n \in Nodes, NEW now \in Nat
    PROVE  /\ Register!Stamp(obj[n].timestamp_ms, now) \in Nat
           /\ Register!Stamp(obj[n].timestamp_ms, now) > obj[n].timestamp_ms
  <1>1. obj[n] \in Register!Register \/ obj[n] = Register!NoRegister
    BY DEF Register!TypeOK, Register!ReplicaTypeOK
  <1>2. obj[n].timestamp_ms \in Nat \/ obj[n].timestamp_ms = -1
    BY <1>1 DEF Register!Register, Register!NoRegister, Register!NoTime
  <1> QED
    BY <1>2 DEF Register!Stamp

\* The initial state.
LEMMA RegisterInvInit == Register!Init => Register!RegisterInv
  <1> SUFFICES ASSUME Register!Init PROVE Register!RegisterInv
    OBVIOUS
  <1>1. Register!TypeOK
    BY DEF Register!Init, Register!ReplicaInit, Register!TypeOK, Register!ReplicaTypeOK
  <1>2. \A op : op \notin Register!AllOps
    BY RegisterAllOpsMembers DEF Register!Init, Register!ReplicaInit
  <1>3. Register!DiskIsCurrent /\ Register!RegisterIsWinner
    BY DEF Register!Init, Register!ReplicaInit, Register!DiskIsCurrent, Register!RegisterIsWinner
  <1> QED
    BY <1>1, <1>2, <1>3 DEF Register!RegisterInv, Register!OwnWritesObserved, Register!UniqueStamps

\* Every operation there is, is a write.
LEMMA RegisterAllOpsType == Register!TypeOK => Register!AllOps \subseteq Register!Register
  BY DEF Register!TypeOK, Register!ReplicaTypeOK, Register!AllOps

\* An object and its history that change at one node only, with the operation op.
LEMMA RegisterPublishStep ==
    ASSUME Register!RegisterInv, ~RegisterWriteBehind, NEW n \in Nodes, NEW op \in Register!Register,
           NEW new \in Register!Register, Register!PersistAndPublish(n, op, new)
    PROVE  /\ obj' \in [Nodes -> Register!Register \cup {Register!NoRegister}]
           /\ applied' \in [Nodes -> SUBSET Register!Register]
           /\ disk' \in [Nodes -> [obj : Register!Register \cup {Register!NoRegister}, applied : SUBSET Register!Register]]
           /\ Register!DiskIsCurrent'
           /\ obj'[n] = new
           /\ applied'[n] = applied[n] \cup {op}
           /\ disk'[n].applied = applied[n] \cup {op}
           /\ \A m \in Nodes \ {n} : /\ obj'[m] = obj[m]
                                     /\ applied'[m] = applied[m]
                                     /\ disk'[m] = disk[m]
  <1>1. /\ obj \in [Nodes -> Register!Register \cup {Register!NoRegister}]
        /\ applied \in [Nodes -> SUBSET Register!Register]
        /\ disk \in [Nodes -> [obj : Register!Register \cup {Register!NoRegister}, applied : SUBSET Register!Register]]
    BY DEF Register!RegisterInv, Register!TypeOK, Register!ReplicaTypeOK
  <1>2. /\ obj' = [obj EXCEPT ![n] = new]
        /\ applied' = [applied EXCEPT ![n] = applied[n] \cup {op}]
        /\ disk' = [disk EXCEPT ![n] = [obj |-> new, applied |-> applied[n] \cup {op}]]
    BY <1>1 DEF Register!PersistAndPublish
  <1>3. Register!DiskIsCurrent'
    BY <1>1, <1>2 DEF Register!RegisterInv, Register!DiskIsCurrent
  <1> QED
    BY <1>1, <1>2, <1>3

\* A host call keeps the invariant: its write is stamped above everything its
\* node has written, so it wins and its stamp is new.
LEMMA RegisterSetStep ==
    ASSUME Register!RegisterInv, ~RegisterWriteBehind, NEW n \in Nodes, NEW v \in Values,
           NEW now \in 0..(MaxTime + 2), Register!LwwSet(n, v, now)
    PROVE  Register!RegisterInv'
  <1> DEFINE c == [value |-> v, timestamp_ms |-> Register!Stamp(obj[n].timestamp_ms, now), writer |-> n]
  <1>1. Register!TypeOK /\ now \in Nat
    BY LwwAssumption DEF Register!RegisterInv
  <1>2. c \in Register!Register /\ c.timestamp_ms > obj[n].timestamp_ms /\ c.writer = n
    BY <1>1, RegisterStampFacts DEF Register!Register
  <1>3. obj[n] \in Register!Register \cup {Register!NoRegister}
    BY <1>1 DEF Register!TypeOK, Register!ReplicaTypeOK
  <1>4. Register!Assign(obj[n], c) = c
    BY <1>2 DEF Register!Assign, Register!candidate_wins
  <1>5. Register!HostUpdate(n, c, c)
    BY <1>4 DEF Register!LwwSet
  <1> HIDE DEF c
  <1>6. Register!PersistAndPublish(n, c, c) /\ sent' = sent /\ unsent' = [unsent EXCEPT ![n] = @ \cup {c}]
    BY <1>5 DEF Register!HostUpdate
  <1>7. /\ Register!DiskIsCurrent'
        /\ obj'[n] = c
        /\ applied'[n] = applied[n] \cup {c}
        /\ disk'[n].applied = applied[n] \cup {c}
        /\ \A m \in Nodes \ {n} : /\ obj'[m] = obj[m]
                                  /\ applied'[m] = applied[m]
                                  /\ disk'[m] = disk[m]
    BY <1>2, <1>6, RegisterPublishStep
  <1>8. Register!TypeOK'
    <2>1. /\ unsent' \in [Nodes -> SUBSET Register!Register]
          /\ sent' \in SUBSET Register!Register
      BY <1>1, <1>2, <1>6 DEF Register!TypeOK, Register!ReplicaTypeOK
    <2>2. calls' \in Nat /\ clock' \in [Nodes -> Nat]
      BY <1>1, <1>5, LwwAssumption DEF Register!LwwSet, Register!HostUpdate, Register!Called, Register!TypeOK, Register!ReplicaTypeOK
    <2>3. /\ obj' \in [Nodes -> Register!Register \cup {Register!NoRegister}]
          /\ applied' \in [Nodes -> SUBSET Register!Register]
          /\ disk' \in [Nodes -> [obj : Register!Register \cup {Register!NoRegister}, applied : SUBSET Register!Register]]
      BY <1>2, <1>6, RegisterPublishStep
    <2> QED
      BY <2>1, <2>2, <2>3 DEF Register!TypeOK, Register!ReplicaTypeOK
  <1>9. \A op \in Register!AllOps' : op \in Register!AllOps \/ op = c
    <2>1. \A m \in Nodes : unsent'[m] \subseteq unsent[m] \cup {c}
      BY <1>1, <1>6 DEF Register!TypeOK, Register!ReplicaTypeOK
    <2> SUFFICES ASSUME NEW op \in Register!AllOps' PROVE op \in Register!AllOps \/ op = c
      OBVIOUS
    <2>2. \/ op \in sent'
          \/ \E m \in Nodes : op \in applied'[m] \/ op \in unsent'[m] \/ op \in disk'[m].applied
      BY DEF Register!AllOps
    <2> QED
      BY <2>1, <2>2, <1>6, <1>7, RegisterAllOpsMembers
  <1>10. Register!AllOps \subseteq Register!Register
    BY <1>1, RegisterAllOpsType
  <1>11. \A op \in Register!AllOps : op.writer = n => op.timestamp_ms < c.timestamp_ms
    BY <1>2, <1>3, <1>10 DEF Register!RegisterInv, Register!OwnWritesObserved, Register!Register, Register!NoRegister, Register!NoTime
  <1>12. Register!OwnWritesObserved'
    <2> SUFFICES ASSUME NEW op \in Register!AllOps' PROVE op.timestamp_ms <= obj'[op.writer].timestamp_ms
      BY DEF Register!OwnWritesObserved
    <2>1. CASE op = c
      BY <2>1, <1>2, <1>7 DEF Register!Register
    <2>2. CASE op \in Register!AllOps /\ op.writer = n
      BY <2>2, <1>2, <1>7, <1>10, <1>11 DEF Register!Register
    <2>3. CASE op \in Register!AllOps /\ op.writer # n
      BY <2>3, <1>7, <1>10 DEF Register!RegisterInv, Register!OwnWritesObserved, Register!Register
    <2> QED
      BY <1>9, <2>1, <2>2, <2>3
  <1>13. Register!UniqueStamps'
    <2> SUFFICES ASSUME NEW a \in Register!AllOps', NEW b \in Register!AllOps',
                        a.timestamp_ms = b.timestamp_ms, a.writer = b.writer
                 PROVE  a = b
      BY DEF Register!UniqueStamps
    <2>1. (a \in Register!AllOps \/ a = c) /\ (b \in Register!AllOps \/ b = c)
      BY <1>9
    <2>2. CASE a \in Register!AllOps /\ b \in Register!AllOps
      BY <2>2 DEF Register!RegisterInv, Register!UniqueStamps
    <2>3. CASE a = c /\ b \in Register!AllOps
      BY <2>3, <1>2, <1>10, <1>11 DEF Register!Register
    <2>4. CASE a \in Register!AllOps /\ b = c
      BY <2>4, <1>2, <1>10, <1>11 DEF Register!Register
    <2> QED
      BY <2>1, <2>2, <2>3, <2>4
  <1>14. Register!RegisterIsWinner'
    <2> SUFFICES ASSUME NEW m \in Nodes
                 PROVE  /\ applied'[m] = {} <=> obj'[m] = Register!NoRegister
                        /\ applied'[m] # {} => obj'[m] \in applied'[m]
                        /\ \A op \in applied'[m] : op = obj'[m] \/ Register!candidate_wins(obj'[m], op)
      BY DEF Register!RegisterIsWinner, Register!candidate_wins
    <2>1. CASE m # n
      BY <2>1, <1>7 DEF Register!RegisterInv, Register!RegisterIsWinner
    <2>2. CASE m = n
      <3>1. c # Register!NoRegister
        BY <1>2 DEF Register!Register, Register!NoRegister, Register!NoTime
      <3>2. \A op \in applied[n] : op.timestamp_ms <= obj[n].timestamp_ms
        <4> SUFFICES ASSUME NEW op \in applied[n] PROVE op.timestamp_ms <= obj[n].timestamp_ms
          OBVIOUS
        <4>1. op \in Register!Register /\ obj[n] \in Register!Register
          BY <1>1, <1>3 DEF Register!TypeOK, Register!ReplicaTypeOK, Register!RegisterInv, Register!RegisterIsWinner
        <4> QED
          BY <4>1 DEF Register!RegisterInv, Register!RegisterIsWinner, Register!candidate_wins, Register!Register
      <3>3. \A op \in applied[n] : Register!candidate_wins(c, op)
        BY <3>2, <1>1, <1>2, <1>3 DEF Register!candidate_wins, Register!TypeOK, Register!ReplicaTypeOK, Register!Register, Register!NoRegister, Register!NoTime
      <3> QED
        BY <2>2, <1>7, <3>1, <3>3
    <2> QED
      BY <2>1, <2>2
  <1> QED
    BY <1>7, <1>8, <1>12, <1>13, <1>14 DEF Register!RegisterInv

\* A delivery keeps the invariant: the operation wins against the register and
\* so against all that the register beats, or it loses, or it is the
\* register's own, since stamps are unique.
LEMMA RegisterRemoteStep ==
    ASSUME Register!RegisterInv, ~RegisterWriteBehind, NEW n \in Nodes, NEW op \in sent,
           Register!apply_remote_lww_register_set(n, op)
    PROVE  Register!RegisterInv'
  <1> DEFINE new == Register!Assign(obj[n], op)
  <1>1. Register!TypeOK /\ Register!AllOps \subseteq Register!Register
    BY RegisterAllOpsType DEF Register!RegisterInv
  <1>2. op \in Register!AllOps /\ op \in Register!Register
    BY <1>1, RegisterAllOpsMembers
  <1>3. obj[n] \in Register!Register \cup {Register!NoRegister}
    BY <1>1 DEF Register!TypeOK, Register!ReplicaTypeOK
  <1>4. /\ new \in Register!Register
        /\ new = op \/ new = obj[n]
        /\ new.timestamp_ms >= obj[n].timestamp_ms
    BY <1>2, <1>3 DEF Register!Assign, Register!candidate_wins, Register!Register, Register!NoRegister, Register!NoTime
  <1>5. /\ Register!PersistAndPublish(n, op, new)
        /\ UNCHANGED <<unsent, sent, calls, clock>>
    BY DEF Register!apply_remote_lww_register_set, Register!RemoteUpdate
  <1>6. /\ Register!DiskIsCurrent'
        /\ obj'[n] = new
        /\ applied'[n] = applied[n] \cup {op}
        /\ disk'[n].applied = applied[n] \cup {op}
        /\ \A m \in Nodes \ {n} : /\ obj'[m] = obj[m]
                                  /\ applied'[m] = applied[m]
                                  /\ disk'[m] = disk[m]
    BY <1>2, <1>4, <1>5, RegisterPublishStep
  <1>7. Register!TypeOK'
    <2>1. /\ obj' \in [Nodes -> Register!Register \cup {Register!NoRegister}]
          /\ applied' \in [Nodes -> SUBSET Register!Register]
          /\ disk' \in [Nodes -> [obj : Register!Register \cup {Register!NoRegister}, applied : SUBSET Register!Register]]
      BY <1>2, <1>4, <1>5, RegisterPublishStep
    <2> QED
      BY <1>1, <1>5, <2>1 DEF Register!TypeOK, Register!ReplicaTypeOK
  <1>8. \A o \in Register!AllOps' : o \in Register!AllOps
    <2> SUFFICES ASSUME NEW o \in Register!AllOps' PROVE o \in Register!AllOps
      OBVIOUS
    <2>1. \/ o \in sent'
          \/ \E m \in Nodes : o \in applied'[m] \/ o \in unsent'[m] \/ o \in disk'[m].applied
      BY DEF Register!AllOps
    <2> QED
      BY <2>1, <1>2, <1>5, <1>6, RegisterAllOpsMembers
  <1>9. Register!OwnWritesObserved'
    <2> SUFFICES ASSUME NEW o \in Register!AllOps' PROVE o.timestamp_ms <= obj'[o.writer].timestamp_ms
      BY DEF Register!OwnWritesObserved
    <2>1. o \in Register!Register /\ o.timestamp_ms <= obj[o.writer].timestamp_ms
      BY <1>1, <1>8 DEF Register!RegisterInv, Register!OwnWritesObserved
    <2>2. CASE o.writer = n
      BY <2>1, <2>2, <1>3, <1>4, <1>6 DEF Register!Register, Register!NoRegister, Register!NoTime
    <2>3. CASE o.writer # n
      BY <2>1, <2>3, <1>6 DEF Register!Register
    <2> QED
      BY <2>2, <2>3
  <1>10. Register!UniqueStamps'
    BY <1>8 DEF Register!RegisterInv, Register!UniqueStamps
  <1>11. Register!RegisterIsWinner'
    <2> SUFFICES ASSUME NEW m \in Nodes
                 PROVE  /\ applied'[m] = {} <=> obj'[m] = Register!NoRegister
                        /\ applied'[m] # {} => obj'[m] \in applied'[m]
                        /\ \A o \in applied'[m] : o = obj'[m] \/ Register!candidate_wins(obj'[m], o)
      BY DEF Register!RegisterIsWinner, Register!candidate_wins
    <2>1. CASE m # n
      BY <2>1, <1>6 DEF Register!RegisterInv, Register!RegisterIsWinner
    <2>2. CASE m = n
      <3>1. op # Register!NoRegister
        BY <1>2 DEF Register!Register, Register!NoRegister, Register!NoTime
      <3>2. CASE applied[n] = {}
        <4>1. obj[n] = Register!NoRegister
          BY <3>2 DEF Register!RegisterInv, Register!RegisterIsWinner
        <4>2. new = op
          BY <4>1 DEF Register!Assign
        <4> QED
          BY <2>2, <3>1, <3>2, <4>2, <1>6
      <3>3. CASE applied[n] # {}
        <4>1. obj[n] \in applied[n] /\ obj[n] # Register!NoRegister
          BY <3>3 DEF Register!RegisterInv, Register!RegisterIsWinner
        <4>2. obj[n] \in Register!Register /\ obj[n] \in Register!AllOps /\ applied[n] \subseteq Register!Register
          BY <4>1, <1>1, RegisterAllOpsMembers DEF Register!TypeOK, Register!ReplicaTypeOK
        <4>3. \A o \in applied[n] : o = obj[n] \/ Register!candidate_wins(obj[n], o)
          BY DEF Register!RegisterInv, Register!RegisterIsWinner
        <4>4. CASE Register!candidate_wins(op, obj[n])
          <5>1. new = op
            BY <4>4 DEF Register!Assign
          <5>2. \A o \in applied[n] : Register!candidate_wins(op, o)
            BY <4>2, <4>3, <4>4, <1>2, RegisterWinsIsOrder
          <5> QED
            BY <2>2, <3>1, <5>1, <5>2, <1>6
        <4>5. CASE ~Register!candidate_wins(op, obj[n])
          <5>1. new = obj[n]
            BY <4>1, <4>5 DEF Register!Assign
          <5>2. op = obj[n] \/ Register!candidate_wins(obj[n], op)
            <6>1. \/ Register!candidate_wins(obj[n], op)
                  \/ obj[n].timestamp_ms = op.timestamp_ms /\ obj[n].writer = op.writer
              BY <4>2, <4>5, <1>2, RegisterWinsIsOrder
            <6> QED
              BY <6>1, <4>2, <1>2 DEF Register!RegisterInv, Register!UniqueStamps
          <5> QED
            BY <2>2, <4>1, <4>3, <5>1, <5>2, <1>6
        <4> QED
          BY <4>4, <4>5
      <3> QED
        BY <3>2, <3>3
    <2> QED
      BY <2>1, <2>2
  <1> QED
    BY <1>6, <1>7, <1>9, <1>10, <1>11 DEF Register!RegisterInv

\* Steps that leave every register and its history alone and add no operation.
LEMMA RegisterQuietStep ==
    ASSUME Register!RegisterInv, Register!TypeOK', UNCHANGED <<obj, applied, disk>>, Register!AllOps' \subseteq Register!AllOps
    PROVE  Register!RegisterInv'
  <1>1. Register!DiskIsCurrent' /\ Register!RegisterIsWinner'
    BY DEF Register!RegisterInv, Register!DiskIsCurrent, Register!RegisterIsWinner, Register!candidate_wins
  <1>2. Register!OwnWritesObserved' /\ Register!UniqueStamps'
    BY DEF Register!RegisterInv, Register!OwnWritesObserved, Register!UniqueStamps
  <1> QED
    BY <1>1, <1>2 DEF Register!RegisterInv

\* Every step keeps the invariant when a crash loses no write.
LEMMA RegisterInvStep ==
    ASSUME Register!RegisterInv, ~RegisterWriteBehind, Register!Next \/ UNCHANGED <<replicaVars, clock>>
    PROVE  Register!RegisterInv'
  <1>1. Register!TypeOK
    BY DEF Register!RegisterInv
  <1>2. ASSUME NEW n \in Nodes, NEW op \in unsent[n], Register!Send(n, op), UNCHANGED clock
        PROVE  Register!RegisterInv'
    <2>1. /\ unsent' = [unsent EXCEPT ![n] = @ \ {op}]
          /\ sent' = sent \cup {op}
          /\ UNCHANGED <<obj, applied, disk, calls>>
      BY <1>2 DEF Register!Send
    <2>2. Register!TypeOK'
      BY <1>1, <1>2, <2>1 DEF Register!TypeOK, Register!ReplicaTypeOK
    <2>3. Register!AllOps' \subseteq Register!AllOps
      <3> SUFFICES ASSUME NEW o \in Register!AllOps' PROVE o \in Register!AllOps
        OBVIOUS
      <3>1. \A m \in Nodes : unsent'[m] \subseteq unsent[m]
        BY <1>1, <2>1 DEF Register!TypeOK, Register!ReplicaTypeOK
      <3>2. \/ o \in sent'
            \/ \E m \in Nodes : o \in applied'[m] \/ o \in unsent'[m] \/ o \in disk'[m].applied
        BY DEF Register!AllOps
      <3> QED
        BY <3>1, <3>2, <2>1, <1>2, RegisterAllOpsMembers
    <2> QED
      BY <2>1, <2>2, <2>3, RegisterQuietStep
  <1>3. ASSUME NEW n \in Nodes, Register!Flush(n), UNCHANGED clock
        PROVE  Register!RegisterInv'
    <2>1. UNCHANGED <<obj, applied, disk, unsent, sent, calls>>
      BY <1>1, <1>3 DEF Register!Flush, Register!RegisterInv, Register!DiskIsCurrent, Register!TypeOK, Register!ReplicaTypeOK
    <2>2. Register!TypeOK'
      BY <1>1, <1>3, <2>1 DEF Register!TypeOK, Register!ReplicaTypeOK
    <2>3. Register!AllOps' \subseteq Register!AllOps
      BY <2>1 DEF Register!AllOps
    <2> QED
      BY <2>1, <2>2, <2>3, RegisterQuietStep
  <1>4. ASSUME NEW n \in Nodes, Register!Restart(n)
        PROVE  Register!RegisterInv'
    <2>1. /\ unsent' = [unsent EXCEPT ![n] = {}]
          /\ UNCHANGED <<obj, applied, disk, sent, calls>>
      BY <1>1, <1>4 DEF Register!Restart, Register!Crash, Register!RegisterInv, Register!DiskIsCurrent, Register!TypeOK, Register!ReplicaTypeOK
    <2>2. Register!TypeOK'
      <3>1. clock' \in [Nodes -> Nat]
        BY <1>1, <1>4 DEF Register!Restart, Register!TypeOK
      <3> QED
        BY <1>1, <2>1, <3>1 DEF Register!TypeOK, Register!ReplicaTypeOK
    <2>3. Register!AllOps' \subseteq Register!AllOps
      <3> SUFFICES ASSUME NEW o \in Register!AllOps' PROVE o \in Register!AllOps
        OBVIOUS
      <3>1. \A m \in Nodes : unsent'[m] \subseteq unsent[m]
        BY <1>1, <2>1 DEF Register!TypeOK, Register!ReplicaTypeOK
      <3>2. \/ o \in sent'
            \/ \E m \in Nodes : o \in applied'[m] \/ o \in unsent'[m] \/ o \in disk'[m].applied
        BY DEF Register!AllOps
      <3> QED
        BY <3>1, <3>2, <2>1, RegisterAllOpsMembers
    <2> QED
      BY <2>1, <2>2, <2>3, RegisterQuietStep
  <1>5. CASE UNCHANGED <<replicaVars, clock>>
    <2>1. UNCHANGED <<obj, applied, disk, unsent, sent, calls, clock>>
      BY <1>5 DEF replicaVars
    <2> QED
      BY <1>1, <2>1, RegisterQuietStep DEF Register!TypeOK, Register!ReplicaTypeOK, Register!AllOps
  <1> QED
    BY <1>2, <1>3, <1>4, <1>5, RegisterSetStep, RegisterRemoteStep DEF Register!Next

\* The winner is unique, so equal histories have equal registers.
LEMMA RegisterInvConverges == Register!RegisterInv => SameOpsSameObject
  <1> SUFFICES ASSUME Register!RegisterInv, NEW n \in Nodes, NEW m \in Nodes, applied[n] = applied[m]
               PROVE  obj[n] = obj[m]
    BY DEF SameOpsSameObject
  <1>1. CASE applied[n] = {}
    BY <1>1 DEF Register!RegisterInv, Register!RegisterIsWinner
  <1>2. CASE applied[n] # {}
    <2>1. obj[n] \in applied[n] /\ obj[m] \in applied[n]
      BY <1>2 DEF Register!RegisterInv, Register!RegisterIsWinner
    <2>2. obj[n] \in Register!Register /\ obj[m] \in Register!Register
      BY <2>1 DEF Register!RegisterInv, Register!TypeOK, Register!ReplicaTypeOK
    <2>3. /\ obj[m] = obj[n] \/ Register!candidate_wins(obj[n], obj[m])
          /\ obj[n] = obj[m] \/ Register!candidate_wins(obj[m], obj[n])
      BY <2>1 DEF Register!RegisterInv, Register!RegisterIsWinner
    <2> QED
      BY <2>2, <2>3, RegisterWinsIsOrder
  <1> QED
    BY <1>1, <1>2
-----------------------------------------------------------------------------
(* LwwMap *)

\* entry_wins is a strict total order on entries: the value decides where
\* timestamp and writer do not.
LEMMA MapWinsIsOrder ==
    ASSUME NEW a \in Map!Entry, NEW b \in Map!Entry, NEW c \in Map!Entry
    PROVE  /\ Map!entry_wins(a, b) => ~Map!entry_wins(b, a)
           /\ Map!entry_wins(a, b) /\ Map!entry_wins(b, c) => Map!entry_wins(a, c)
           /\ Map!entry_wins(a, b) \/ Map!entry_wins(b, a) \/ a = b
  <1>1. \A e \in Map!Entry : /\ e.timestamp_ms \in Int
                          /\ e.writer \in Int
                          /\ e.value \in Int
    <2> SUFFICES ASSUME NEW e \in Map!Entry
                 PROVE  e.timestamp_ms \in Int /\ e.writer \in Int /\ e.value \in Int
      OBVIOUS
    <2>1. e.timestamp_ms \in Nat /\ e.writer \in Nat
      BY ReplicaAssumption DEF Map!Entry
    <2>2. e.value \in Nat \/ e.value = -1
      BY LwwAssumption DEF Map!Entry, Map!Tombstone
    <2> QED
      BY <2>1, <2>2
  <1>2. a.timestamp_ms = b.timestamp_ms /\ a.writer = b.writer /\ a.value = b.value => a = b
    BY DEF Map!Entry
  <1>3. ASSUME NEW x \in Int, NEW y \in Int, NEW z \in Int
        PROVE  /\ Map!value_wins(x, y) => ~Map!value_wins(y, x)
               /\ Map!value_wins(x, y) /\ Map!value_wins(y, z) => Map!value_wins(x, z)
               /\ Map!value_wins(x, y) \/ Map!value_wins(y, x) \/ x = y
    BY DEF Map!value_wins, Map!Tombstone
  <1>4. Map!entry_wins(a, b) => ~Map!entry_wins(b, a)
    BY <1>1, <1>3 DEF Map!entry_wins
  <1>5. Map!entry_wins(a, b) /\ Map!entry_wins(b, c) => Map!entry_wins(a, c)
    BY <1>1, <1>3 DEF Map!entry_wins
  <1>6. Map!entry_wins(a, b) \/ Map!entry_wins(b, a) \/ a = b
    BY <1>1, <1>2, <1>3 DEF Map!entry_wins
  <1> QED
    BY <1>4, <1>5, <1>6

\* A map that holds the winners of ops and takes op holds the winners of both.
LEMMA MapApplyKeepsWinners ==
    ASSUME NEW map \in Map!Map, NEW ops \in SUBSET Map!Op, NEW op \in Map!Op, Map!HoldsWinners(map, ops)
    PROVE  /\ Map!apply_entry(map, op) \in Map!Map
           /\ Map!HoldsWinners(Map!apply_entry(map, op), ops \cup {op})
  <1> DEFINE new == Map!apply_entry(map, op)
             g == op.field
  <1>1. op.field \in Fields /\ op.entry \in Map!Entry /\ op = [field |-> op.field, entry |-> op.entry]
    BY DEF Map!Op
  <1>2. \A o \in ops : o.entry \in Map!Entry /\ o.field \in Fields /\ o = [field |-> o.field, entry |-> o.entry]
    BY DEF Map!Op
  <1>3. \A f \in Fields : map[f] \in Map!Entry \cup {Map!NoEntry}
    BY DEF Map!Map
  <1>4. Map!NoEntry \notin Map!Entry
    BY DEF Map!NoEntry, Map!NoTime, Map!Entry
  <1>5. /\ new \in Map!Map
        /\ \A f \in Fields : f # g => new[f] = map[f]
        /\ new[g] = IF map[g] = Map!NoEntry \/ Map!entry_wins(op.entry, map[g]) THEN op.entry ELSE map[g]
    BY <1>1 DEF Map!apply_entry, Map!Map
  <1> HIDE DEF new
  <1> SUFFICES ASSUME NEW f \in Fields
               PROVE  /\ (\E o \in ops \cup {op} : o.field = f)
                            => [field |-> f, entry |-> new[f]] \in ops \cup {op}
                      /\ (\A o \in ops \cup {op} : o.field # f) => new[f] = Map!NoEntry
                      /\ \A o \in ops \cup {op} : o.field = f => o.entry = new[f] \/ Map!entry_wins(new[f], o.entry)
    BY <1>5 DEF Map!HoldsWinners, new
  <1>6. /\ (\E o \in ops : o.field = f) => [field |-> f, entry |-> map[f]] \in ops
        /\ (\A o \in ops : o.field # f) => map[f] = Map!NoEntry
        /\ \A o \in ops : o.field = f => o.entry = map[f] \/ Map!entry_wins(map[f], o.entry)
    BY DEF Map!HoldsWinners
  <1>7. CASE f # g
    BY <1>5, <1>6, <1>7
  <1>8. CASE f = g /\ map[f] = Map!NoEntry
    <2>1. \A o \in ops : o.field # f
      <3> SUFFICES ASSUME NEW o \in ops, o.field = f PROVE FALSE
        OBVIOUS
      <3>1. [field |-> f, entry |-> map[f]] \in Map!Op
        BY <1>6
      <3> QED
        BY <3>1, <1>4, <1>8 DEF Map!Op
    <2>2. new[f] = op.entry
      BY <1>5, <1>8
    <2> QED
      BY <1>1, <1>8, <2>1, <2>2
  <1>9. CASE f = g /\ map[f] # Map!NoEntry
    <2>1. map[f] \in Map!Entry /\ [field |-> f, entry |-> map[f]] \in ops
      BY <1>3, <1>6, <1>9
    <2>2. CASE Map!entry_wins(op.entry, map[f])
      <3>1. new[f] = op.entry
        BY <1>5, <1>9, <2>2
      <3>2. \A o \in ops : o.field = f => Map!entry_wins(op.entry, o.entry)
        BY <1>1, <1>2, <1>6, <2>1, <2>2, MapWinsIsOrder
      <3> QED
        BY <1>1, <1>9, <3>1, <3>2
    <2>3. CASE ~Map!entry_wins(op.entry, map[f])
      <3>1. new[f] = map[f]
        BY <1>5, <1>9, <2>3
      <3>2. op.entry = map[f] \/ Map!entry_wins(map[f], op.entry)
        BY <1>1, <2>1, <2>3, MapWinsIsOrder
      <3> QED
        BY <1>6, <1>9, <2>1, <3>1, <3>2
    <2> QED
      BY <2>2, <2>3
  <1> QED
    BY <1>7, <1>8, <1>9

\* The winners of a set of operations are unique.
LEMMA MapWinnersAreUnique ==
    ASSUME NEW a \in Map!Map, NEW b \in Map!Map, NEW ops \in SUBSET Map!Op,
           Map!HoldsWinners(a, ops), Map!HoldsWinners(b, ops)
    PROVE  a = b
  <1> SUFFICES ASSUME NEW f \in Fields PROVE a[f] = b[f]
    BY DEF Map!Map
  <1>1. CASE \A op \in ops : op.field # f
    BY <1>1 DEF Map!HoldsWinners
  <1>2. CASE \E op \in ops : op.field = f
    <2> DEFINE x == [field |-> f, entry |-> a[f]]
               y == [field |-> f, entry |-> b[f]]
    <2>1. x \in ops /\ y \in ops
      BY <1>2 DEF Map!HoldsWinners
    <2>2. a[f] \in Map!Entry /\ b[f] \in Map!Entry
      BY <2>1 DEF Map!Op
    <2>3. /\ y.entry = a[f] \/ Map!entry_wins(a[f], y.entry)
          /\ x.entry = b[f] \/ Map!entry_wins(b[f], x.entry)
      BY <2>1 DEF Map!HoldsWinners
    <2> QED
      BY <2>2, <2>3, MapWinsIsOrder
  <1> QED
    BY <1>1, <1>2

\* The initial state.
LEMMA MapInvInit == Map!Init => Map!WinnersInv
  <1> SUFFICES ASSUME Map!Init PROVE Map!WinnersInv
    OBVIOUS
  <1>1. Map!TypeOK
    BY DEF Map!Init, Map!ReplicaInit, Map!TypeOK, Map!ReplicaTypeOK, Map!Map
  <1>2. \A n \in Nodes : Map!HoldsWinners(obj[n], applied[n]) /\ Map!HoldsWinners(disk[n].obj, disk[n].applied)
    BY DEF Map!Init, Map!ReplicaInit, Map!HoldsWinners
  <1> QED
    BY <1>1, <1>2 DEF Map!WinnersInv

\* An operation applied at one node keeps the winners, whether the write
\* reaches the disk at once or not.
LEMMA MapPublishStep ==
    ASSUME Map!WinnersInv, NEW n \in Nodes, NEW op \in Map!Op,
           Map!PersistAndPublish(n, op, Map!apply_entry(obj[n], op)),
           unsent' \in [Nodes -> SUBSET Map!Op], sent' \in SUBSET Map!Op, calls' \in Nat
    PROVE  Map!WinnersInv'
  <1> DEFINE new == Map!apply_entry(obj[n], op)
             ops == applied[n] \cup {op}
  <1>1. /\ obj \in [Nodes -> Map!Map]
        /\ applied \in [Nodes -> SUBSET Map!Op]
        /\ disk \in [Nodes -> [obj : Map!Map, applied : SUBSET Map!Op]]
    BY DEF Map!WinnersInv, Map!TypeOK, Map!ReplicaTypeOK
  <1>2. new \in Map!Map /\ Map!HoldsWinners(new, ops) /\ ops \in SUBSET Map!Op
    BY <1>1, MapApplyKeepsWinners DEF Map!WinnersInv
  <1>3. /\ obj' = [obj EXCEPT ![n] = new]
        /\ applied' = [applied EXCEPT ![n] = ops]
        /\ disk' = disk \/ disk' = [disk EXCEPT ![n] = [obj |-> new, applied |-> ops]]
    BY <1>1 DEF Map!PersistAndPublish
  <1> HIDE DEF new, ops
  <1>4. /\ obj' \in [Nodes -> Map!Map]
        /\ applied' \in [Nodes -> SUBSET Map!Op]
    BY <1>1, <1>2, <1>3
  <1>5. disk' \in [Nodes -> [obj : Map!Map, applied : SUBSET Map!Op]]
    BY <1>1, <1>2, <1>3
  <1>6. Map!TypeOK'
    BY <1>4, <1>5 DEF Map!TypeOK, Map!ReplicaTypeOK
  <1>7. ASSUME NEW m \in Nodes
        PROVE  /\ Map!HoldsWinners(obj'[m], applied'[m])
               /\ Map!HoldsWinners(disk'[m].obj, disk'[m].applied)
    <2>1. Map!HoldsWinners(obj[m], applied[m]) /\ Map!HoldsWinners(disk[m].obj, disk[m].applied)
      BY DEF Map!WinnersInv
    <2>2. \/ obj'[m] = obj[m] /\ applied'[m] = applied[m]
          \/ obj'[m] = new /\ applied'[m] = ops
      BY <1>1, <1>3
    <2>3. \/ disk'[m] = disk[m]
          \/ disk'[m].obj = new /\ disk'[m].applied = ops
      BY <1>1, <1>3
    <2> QED
      BY <1>2, <2>1, <2>2, <2>3
  <1> QED
    BY <1>6, <1>7 DEF Map!WinnersInv, Map!HoldsWinners

\* A local write has its type.
LEMMA MapStampType ==
    ASSUME Map!TypeOK, NEW n \in Nodes, NEW f \in Fields, NEW now \in Nat
    PROVE  Map!Stamp(obj[n][f].timestamp_ms, now) \in Nat
  <1>1. obj[n][f] \in Map!Entry \cup {Map!NoEntry}
    BY DEF Map!TypeOK, Map!ReplicaTypeOK, Map!Map
  <1>2. obj[n][f].timestamp_ms \in Nat \/ obj[n][f].timestamp_ms = -1
    BY <1>1 DEF Map!Entry, Map!NoEntry, Map!NoTime
  <1> QED
    BY <1>2 DEF Map!Stamp

\* A host call keeps the winners.
LEMMA MapWriteStep ==
    ASSUME Map!WinnersInv, NEW n \in Nodes, NEW f \in Fields, NEW v \in Values \cup {Map!Tombstone},
           NEW now \in 0..MaxTime, Map!HostWrite(n, f, v, now)
    PROVE  Map!WinnersInv'
  <1> DEFINE stamp == Map!Stamp(obj[n][f].timestamp_ms, now)
             op == [field |-> f, entry |-> [value |-> v, timestamp_ms |-> stamp, writer |-> n]]
  <1>1. Map!TypeOK /\ now \in Nat
    BY LwwAssumption DEF Map!WinnersInv
  <1>2. op \in Map!Op
    BY <1>1, MapStampType DEF Map!Op, Map!Entry
  <1>3. Map!HostUpdate(n, op, Map!apply_entry(obj[n], op))
    BY DEF Map!HostWrite
  <1> HIDE DEF op
  <1>4. /\ Map!PersistAndPublish(n, op, Map!apply_entry(obj[n], op))
        /\ unsent' = [unsent EXCEPT ![n] = @ \cup {op}]
        /\ sent' = sent
        /\ calls' = calls + 1
    BY <1>3 DEF Map!HostUpdate, Map!Called
  <1>5. unsent' \in [Nodes -> SUBSET Map!Op] /\ sent' \in SUBSET Map!Op /\ calls' \in Nat
    BY <1>1, <1>2, <1>4 DEF Map!TypeOK, Map!ReplicaTypeOK
  <1> QED
    BY <1>2, <1>4, <1>5, MapPublishStep

\* Every step keeps the winners.
LEMMA MapInvStep ==
    ASSUME Map!WinnersInv, Map!Next \/ UNCHANGED replicaVars
    PROVE  Map!WinnersInv'
  <1>1. Map!TypeOK
    BY DEF Map!WinnersInv
  <1>2. ASSUME NEW n \in Nodes, NEW f \in Fields, NEW now \in 0..MaxTime, NEW v \in Values,
               Map!LwwMapSet(n, f, v, now)
        PROVE  Map!WinnersInv'
    BY <1>2, MapWriteStep DEF Map!LwwMapSet
  <1>3. ASSUME NEW n \in Nodes, NEW f \in Fields, NEW now \in 0..MaxTime, Map!LwwMapRemove(n, f, now)
        PROVE  Map!WinnersInv'
    BY <1>3, MapWriteStep DEF Map!LwwMapRemove
  <1>4. ASSUME NEW n \in Nodes, NEW op \in sent, Map!ApplyRemoteLwwMap(n, op)
        PROVE  Map!WinnersInv'
    <2>1. /\ Map!PersistAndPublish(n, op, Map!apply_entry(obj[n], op))
          /\ UNCHANGED <<unsent, sent, calls>>
      BY <1>4 DEF Map!ApplyRemoteLwwMap, Map!RemoteUpdate
    <2>2. op \in Map!Op /\ unsent' \in [Nodes -> SUBSET Map!Op] /\ sent' \in SUBSET Map!Op /\ calls' \in Nat
      BY <1>1, <2>1 DEF Map!TypeOK, Map!ReplicaTypeOK
    <2> QED
      BY <2>1, <2>2, MapPublishStep
  <1>5. ASSUME NEW n \in Nodes, NEW op \in unsent[n], Map!Send(n, op)
        PROVE  Map!WinnersInv'
    <2>1. /\ unsent' = [unsent EXCEPT ![n] = @ \ {op}]
          /\ sent' = sent \cup {op}
          /\ UNCHANGED <<obj, applied, disk, calls>>
      BY <1>5 DEF Map!Send
    <2>2. Map!TypeOK'
      BY <1>1, <1>5, <2>1 DEF Map!TypeOK, Map!ReplicaTypeOK
    <2> QED
      BY <2>1, <2>2 DEF Map!WinnersInv, Map!HoldsWinners
  <1>6. ASSUME NEW n \in Nodes, Map!Flush(n)
        PROVE  Map!WinnersInv'
    <2>1. /\ disk' = [disk EXCEPT ![n] = [obj |-> obj[n], applied |-> applied[n]]]
          /\ UNCHANGED <<obj, applied, unsent, sent, calls>>
      BY <1>6 DEF Map!Flush
    <2>2. Map!TypeOK'
      BY <1>1, <2>1 DEF Map!TypeOK, Map!ReplicaTypeOK
    <2>3. \A m \in Nodes : \/ disk'[m] = disk[m]
                           \/ disk'[m].obj = obj[m] /\ disk'[m].applied = applied[m]
      BY <1>1, <2>1 DEF Map!TypeOK, Map!ReplicaTypeOK
    <2> QED
      BY <2>1, <2>2, <2>3 DEF Map!WinnersInv, Map!HoldsWinners
  <1>7. ASSUME NEW n \in Nodes, Map!Crash(n)
        PROVE  Map!WinnersInv'
    <2>1. /\ obj' = [obj EXCEPT ![n] = disk[n].obj]
          /\ applied' = [applied EXCEPT ![n] = disk[n].applied]
          /\ unsent' = [unsent EXCEPT ![n] = {}]
          /\ UNCHANGED <<disk, sent, calls>>
      BY <1>7 DEF Map!Crash
    <2>2. Map!TypeOK'
      BY <1>1, <2>1 DEF Map!TypeOK, Map!ReplicaTypeOK
    <2>3. \A m \in Nodes : \/ obj'[m] = obj[m] /\ applied'[m] = applied[m]
                           \/ obj'[m] = disk[m].obj /\ applied'[m] = disk[m].applied
      BY <1>1, <2>1 DEF Map!TypeOK, Map!ReplicaTypeOK
    <2> QED
      BY <2>1, <2>2, <2>3 DEF Map!WinnersInv, Map!HoldsWinners
  <1>8. CASE UNCHANGED replicaVars
    <2>1. UNCHANGED <<obj, applied, disk, unsent, sent, calls>>
      BY <1>8 DEF replicaVars
    <2> QED
      BY <1>1, <2>1 DEF Map!WinnersInv, Map!HoldsWinners, Map!TypeOK, Map!ReplicaTypeOK
  <1> QED
    BY <1>2, <1>3, <1>4, <1>5, <1>6, <1>7, <1>8 DEF Map!Next

\* Equal histories have equal maps.
LEMMA MapInvConverges == Map!WinnersInv => SameOpsSameObject
  <1> SUFFICES ASSUME Map!WinnersInv, NEW n \in Nodes, NEW m \in Nodes, applied[n] = applied[m]
               PROVE  obj[n] = obj[m]
    BY DEF SameOpsSameObject
  <1>1. obj[n] \in Map!Map /\ obj[m] \in Map!Map /\ applied[n] \in SUBSET Map!Op
    BY DEF Map!WinnersInv, Map!TypeOK, Map!ReplicaTypeOK
  <1>2. Map!HoldsWinners(obj[n], applied[n]) /\ Map!HoldsWinners(obj[m], applied[n])
    BY DEF Map!WinnersInv
  <1> QED
    BY <1>1, <1>2, MapWinnersAreUnique

-----------------------------------------------------------------------------
(* OrSet *)

\* The two parts of the invariant that speak of all operations.
SetOpsWellFormed == \A op \in Set!AllOps : Set!WellFormed(op)

SetAddsDiffer ==
    \A a, b \in Set!AllOps : a.kind = "add" /\ b.kind = "add" /\ a.tags \cap b.tags # {} => a = b

\* The part that speaks of the objects.
SetObjectsAreTables ==
    \A n \in Nodes : /\ obj[n] = Set!Tables(applied[n])
                     /\ disk[n].obj = Set!Tables(disk[n].applied)

\* The parts are the whole.
LEMMA SetInvParts == Set!TablesInv <=> Set!TypeOK /\ SetObjectsAreTables /\ SetOpsWellFormed /\ SetAddsDiffer
  BY DEF Set!TablesInv, SetObjectsAreTables, SetOpsWellFormed, SetAddsDiffer

\* Where the operations are.
LEMMA SetAllOpsMembers ==
    ASSUME NEW op
    PROVE  op \in Set!AllOps <=>
              \/ op \in sent
              \/ \E n \in Nodes : op \in applied[n] \/ op \in unsent[n] \/ op \in disk[n].applied
  BY DEF Set!AllOps

\* What the tables hold.
LEMMA SetTablesMembers ==
    ASSUME NEW ops \in SUBSET Set!Op, NEW e \in Elements, NEW t
    PROVE  /\ t \in Set!Tables(ops).adds[e] <=>
                  \E a \in ops : a.kind = "add" /\ a.element = e /\ t \in a.tags
           /\ t \in Set!Tables(ops).removes[e] <=>
                  \E r \in ops : r.kind = "remove" /\ r.element = e /\ t \in r.tags
  BY DEF Set!Tables

\* Tables have their type.
LEMMA SetTablesType ==
    ASSUME NEW ops \in SUBSET Set!Op
    PROVE  Set!Tables(ops) \in Set!ORSet
  <1>1. \A e \in Elements : /\ Set!Tables(ops).adds[e] \subseteq Set!Tags
                            /\ Set!Tables(ops).removes[e] \subseteq Set!Tags
    BY SetTablesMembers DEF Set!Op
  <1>2. Set!Tables(ops) = [adds |-> [e \in Elements |-> Set!Tables(ops).adds[e]],
                       removes |-> [e \in Elements |-> Set!Tables(ops).removes[e]]]
    BY DEF Set!Tables
  <1> HIDE DEF Set!Tables
  <1> QED
    BY <1>1, <1>2 DEF Set!ORSet

\* To apply an operation to the tables is to add it to the history.
LEMMA SetApplyIsUnion ==
    ASSUME NEW ops \in SUBSET Set!Op, NEW op \in Set!Op
    PROVE  Set!Apply(Set!Tables(ops), op) = Set!Tables(ops \cup {op})
  <1> DEFINE old == Set!Tables(ops)
             new == Set!Tables(ops \cup {op})
  <1>1. old \in Set!ORSet /\ new \in Set!ORSet
    BY SetTablesType
  <1>2. op.element \in Elements /\ op.kind \in {"add", "remove"}
    BY DEF Set!Op
  <1>3. ASSUME NEW e \in Elements
        PROVE  /\ new.adds[e] = IF op.kind = "add" /\ e = op.element
                                THEN old.adds[e] \cup op.tags ELSE old.adds[e]
               /\ new.removes[e] = IF op.kind = "remove" /\ e = op.element
                                   THEN old.removes[e] \cup op.tags ELSE old.removes[e]
    <2> HIDE DEF old, new
    <2>1. \A t : /\ t \in old.adds[e] <=> \E a \in ops : a.kind = "add" /\ a.element = e /\ t \in a.tags
                 /\ t \in old.removes[e] <=> \E a \in ops : a.kind = "remove" /\ a.element = e /\ t \in a.tags
      BY <1>3, SetTablesMembers DEF old
    <2>2. \A t : /\ t \in new.adds[e] <=>
                      \E a \in ops \cup {op} : a.kind = "add" /\ a.element = e /\ t \in a.tags
                 /\ t \in new.removes[e] <=>
                      \E a \in ops \cup {op} : a.kind = "remove" /\ a.element = e /\ t \in a.tags
      <3>1. ops \cup {op} \in SUBSET Set!Op
        OBVIOUS
      <3> QED
        BY <1>3, <3>1, SetTablesMembers DEF new
    <2>3. \A t : t \in new.adds[e] <=>
                    t \in old.adds[e] \/ (op.kind = "add" /\ op.element = e /\ t \in op.tags)
      BY <2>1, <2>2
    <2>4. \A t : t \in new.removes[e] <=>
                    t \in old.removes[e] \/ (op.kind = "remove" /\ op.element = e /\ t \in op.tags)
      BY <2>1, <2>2
    <2> QED
      BY <2>3, <2>4
  <1> HIDE DEF old, new
  <1>4. /\ new = [adds |-> new.adds, removes |-> new.removes]
        /\ old = [adds |-> old.adds, removes |-> old.removes]
        /\ DOMAIN new.adds = Elements /\ DOMAIN new.removes = Elements
        /\ new.adds = [e \in Elements |-> new.adds[e]] /\ new.removes = [e \in Elements |-> new.removes[e]]
        /\ old.adds = [e \in Elements |-> old.adds[e]] /\ old.removes = [e \in Elements |-> old.removes[e]]
    BY <1>1 DEF Set!ORSet
  <1>5. CASE op.kind = "add"
    <2>1. new.removes = old.removes
      BY <1>3, <1>4, <1>5
    <2>2. new.adds = [old.adds EXCEPT ![op.element] = @ \cup op.tags]
      BY <1>2, <1>3, <1>4, <1>5
    <2> QED
      BY <1>4, <1>5, <2>1, <2>2 DEF Set!Apply, Set!apply_add, old, new
  <1>6. CASE op.kind = "remove"
    <2>1. new.adds = old.adds
      BY <1>3, <1>4, <1>6
    <2>2. new.removes = [old.removes EXCEPT ![op.element] = @ \cup op.tags]
      BY <1>2, <1>3, <1>4, <1>6
    <2> QED
      BY <1>4, <1>6, <2>1, <2>2 DEF Set!Apply, Set!apply_remove, old, new
  <1> QED
    BY <1>2, <1>5, <1>6

\* The initial state.
LEMMA SetInvInit == Set!Init => Set!TablesInv
  <1> SUFFICES ASSUME Set!Init PROVE Set!TablesInv
    OBVIOUS
  <1>1. Set!EmptySet \in Set!ORSet /\ Set!EmptySet = Set!Tables({})
    BY DEF Set!EmptySet, Set!ORSet, Set!Tables
  <1>2. Set!TypeOK /\ SetObjectsAreTables
    BY <1>1 DEF Set!Init, Set!ReplicaInit, Set!TypeOK, Set!ReplicaTypeOK, SetObjectsAreTables
  <1>3. \A op : op \notin Set!AllOps
    BY SetAllOpsMembers DEF Set!Init, Set!ReplicaInit
  <1> QED
    BY <1>2, <1>3, SetInvParts DEF SetOpsWellFormed, SetAddsDiffer

\* An operation applied at one node keeps the tables, whether the write
\* reaches the disk at once or not.
LEMMA SetPublishStep ==
    ASSUME Set!TypeOK, SetObjectsAreTables, NEW n \in Nodes, NEW op \in Set!Op,
           Set!PersistAndPublish(n, op, Set!Apply(obj[n], op))
    PROVE  /\ obj' \in [Nodes -> Set!ORSet]
           /\ applied' \in [Nodes -> SUBSET Set!Op]
           /\ disk' \in [Nodes -> [obj : Set!ORSet, applied : SUBSET Set!Op]]
           /\ SetObjectsAreTables'
           /\ \A m \in Nodes : /\ applied'[m] \subseteq applied[m] \cup applied[n] \cup {op}
                               /\ disk'[m].applied \subseteq disk[m].applied \cup applied[n] \cup {op}
  <1> DEFINE ops == applied[n] \cup {op}
             new == Set!Tables(ops)
  <1>1. /\ obj \in [Nodes -> Set!ORSet]
        /\ applied \in [Nodes -> SUBSET Set!Op]
        /\ disk \in [Nodes -> [obj : Set!ORSet, applied : SUBSET Set!Op]]
    BY DEF Set!TypeOK, Set!ReplicaTypeOK
  <1>2. Set!Apply(obj[n], op) = new /\ new \in Set!ORSet /\ ops \in SUBSET Set!Op
    BY <1>1, SetApplyIsUnion, SetTablesType DEF SetObjectsAreTables
  <1>3. /\ obj' = [obj EXCEPT ![n] = new]
        /\ applied' = [applied EXCEPT ![n] = ops]
        /\ disk' = disk \/ disk' = [disk EXCEPT ![n] = [obj |-> new, applied |-> ops]]
    BY <1>1, <1>2 DEF Set!PersistAndPublish
  <1>4. ops = applied[n] \cup {op}
    OBVIOUS
  <1>5. new = Set!Tables(ops)
    OBVIOUS
  <1> HIDE DEF new, ops
  <1>6. /\ obj' \in [Nodes -> Set!ORSet]
        /\ applied' \in [Nodes -> SUBSET Set!Op]
        /\ disk' \in [Nodes -> [obj : Set!ORSet, applied : SUBSET Set!Op]]
    BY <1>1, <1>2, <1>3
  <1>7. ASSUME NEW m \in Nodes
        PROVE  /\ \/ obj'[m] = obj[m] /\ applied'[m] = applied[m]
                  \/ obj'[m] = new /\ applied'[m] = ops
               /\ \/ disk'[m] = disk[m]
                  \/ disk'[m].obj = new /\ disk'[m].applied = ops
    BY <1>1, <1>3
  <1>8. SetObjectsAreTables'
    <2> SUFFICES ASSUME NEW m \in Nodes
                 PROVE  obj'[m] = Set!Tables(applied'[m]) /\ disk'[m].obj = Set!Tables(disk'[m].applied)
      BY DEF SetObjectsAreTables, Set!Tables
    <2> QED
      BY <1>5, <1>7 DEF SetObjectsAreTables
  <1> QED
    BY <1>4, <1>6, <1>7, <1>8

\* A step that adds no operation keeps what is said of operations.
LEMMA SetNoNewOp ==
    ASSUME SetOpsWellFormed, SetAddsDiffer, Set!AllOps' \subseteq Set!AllOps, calls' = calls
    PROVE  SetOpsWellFormed' /\ SetAddsDiffer'
  <1>1. SetAddsDiffer'
    BY DEF SetAddsDiffer
  <1>2. ASSUME NEW op \in Set!AllOps' PROVE Set!WellFormed(op)'
    BY <1>2 DEF SetOpsWellFormed, Set!WellFormed
  <1> QED
    BY <1>1, <1>2 DEF SetOpsWellFormed

\* A host call adds one operation, which is well-formed: its ids are drawn, a
\* new add has a new tag and a remove carries what its node has observed.
LEMMA SetNewOp ==
    ASSUME Set!TablesInv, NEW n \in Nodes, NEW op \in Set!Op,
           Set!AllOps' \subseteq Set!AllOps \cup {op}, calls' = calls + 1,
           \/ op.kind = "add" /\ op.tags = {calls} /\ op.observed = {}
           \/ /\ op.kind = "remove"
              /\ op.tags = obj[n].adds[op.element]
              /\ op.observed = Set!AddTags(applied[n])
    PROVE  SetOpsWellFormed' /\ SetAddsDiffer'
  <1>1. /\ applied[n] \in SUBSET Set!Op /\ applied[n] \subseteq Set!AllOps
        /\ Set!AllOps \subseteq Set!Op /\ calls \in Nat
        /\ op.element \in Elements
    BY SetAllOpsMembers DEF Set!TablesInv, Set!TypeOK, Set!ReplicaTypeOK, Set!Op, Set!AllOps
  <1>2. \A o \in Set!AllOps : \A t \in o.tags \cup o.observed : t \in Nat /\ t < calls
    BY <1>1 DEF Set!TablesInv, Set!WellFormed, Set!Op, Set!Tags
  <1>3. CASE op.kind = "add" /\ op.tags = {calls} /\ op.observed = {}
    <2>1. \A o \in Set!AllOps : op.tags \cap o.tags = {} /\ op.tags \cap o.observed = {}
      BY <1>1, <1>2, <1>3
    <2>2. SetAddsDiffer'
      BY <2>1 DEF SetAddsDiffer, Set!TablesInv
    <2>3. ASSUME NEW o \in Set!AllOps' PROVE Set!WellFormed(o)'
      <3>1. CASE o = op
        BY <1>1, <1>3, <3>1 DEF Set!WellFormed
      <3>2. CASE o \in Set!AllOps
        <4>1. Set!WellFormed(o)
          BY <3>2 DEF Set!TablesInv
        <4>2. \A t \in o.tags \cup o.observed : t < calls + 1
          BY <1>1, <1>2, <3>2
        <4> QED
          BY <2>1, <3>2, <4>1, <4>2 DEF Set!WellFormed
      <3> QED
        BY <3>1, <3>2
    <2> QED
      BY <2>2, <2>3 DEF SetOpsWellFormed
  <1>4. CASE /\ op.kind = "remove"
             /\ op.tags = obj[n].adds[op.element]
             /\ op.observed = Set!AddTags(applied[n])
    <2>1. SetAddsDiffer'
      BY <1>4 DEF SetAddsDiffer, Set!TablesInv
    <2>2. \A t : t \in op.tags <=>
                    \E a \in applied[n] : a.kind = "add" /\ a.element = op.element /\ t \in a.tags
      BY <1>1, <1>4, SetTablesMembers DEF Set!TablesInv
    <2>3. \A t : t \in op.observed <=> \E a \in applied[n] : a.kind = "add" /\ t \in a.tags
      BY <1>4 DEF Set!AddTags
    <2>4. \A t \in op.tags \cup op.observed : t < calls + 1
      BY <1>1, <1>2, <2>2, <2>3
    <2>5. ASSUME NEW a \in Set!AllOps, a.kind = "add"
          PROVE  a.tags \cap op.tags # {} <=>
                    a.element = op.element /\ a.tags \cap op.observed # {}
      <3>1. ASSUME NEW b \in applied[n], b.kind = "add", a.tags \cap b.tags # {} PROVE a = b
        BY <1>1, <2>5, <3>1 DEF Set!TablesInv
      <3> QED
        BY <2>2, <2>3, <2>5, <3>1
    <2>6. ASSUME NEW o \in Set!AllOps' PROVE Set!WellFormed(o)'
      <3>1. \A a \in Set!AllOps' : a.kind = "add" => a \in Set!AllOps
        BY <1>4
      <3>2. CASE o = op
        BY <1>4, <2>4, <2>5, <3>1, <3>2 DEF Set!WellFormed
      <3>3. CASE o \in Set!AllOps
        <4>1. Set!WellFormed(o)
          BY <3>3 DEF Set!TablesInv
        <4>2. \A t \in o.tags \cup o.observed : t < calls + 1
          BY <1>1, <1>2, <3>3
        <4> QED
          BY <3>1, <3>3, <4>1, <4>2 DEF Set!WellFormed
      <3> QED
        BY <3>2, <3>3
    <2> QED
      BY <2>1, <2>6 DEF SetOpsWellFormed
  <1> QED
    BY <1>3, <1>4

\* A host call keeps the invariant.
LEMMA SetHostStep ==
    ASSUME Set!TablesInv, NEW n \in Nodes, NEW op \in Set!Op, Set!HostUpdate(n, op, Set!Apply(obj[n], op)),
           \/ op.kind = "add" /\ op.tags = {calls} /\ op.observed = {}
           \/ /\ op.kind = "remove"
              /\ op.tags = obj[n].adds[op.element]
              /\ op.observed = Set!AddTags(applied[n])
    PROVE  Set!TablesInv'
  <1>1. /\ Set!PersistAndPublish(n, op, Set!Apply(obj[n], op))
        /\ unsent' = [unsent EXCEPT ![n] = @ \cup {op}]
        /\ sent' = sent
        /\ calls' = calls + 1
    BY DEF Set!HostUpdate, Set!Called
  <1>2. Set!TypeOK /\ SetObjectsAreTables
    BY SetInvParts
  <1>3. /\ obj' \in [Nodes -> Set!ORSet]
        /\ applied' \in [Nodes -> SUBSET Set!Op]
        /\ disk' \in [Nodes -> [obj : Set!ORSet, applied : SUBSET Set!Op]]
        /\ SetObjectsAreTables'
        /\ \A m \in Nodes : /\ applied'[m] \subseteq applied[m] \cup applied[n] \cup {op}
                            /\ disk'[m].applied \subseteq disk[m].applied \cup applied[n] \cup {op}
    BY <1>1, <1>2, SetPublishStep
  <1>4. Set!TypeOK'
    BY <1>1, <1>2, <1>3 DEF Set!TypeOK, Set!ReplicaTypeOK
  <1>5. Set!AllOps' \subseteq Set!AllOps \cup {op}
    <2> SUFFICES ASSUME NEW o \in Set!AllOps' PROVE o \in Set!AllOps \/ o = op
      OBVIOUS
    <2>1. \A m \in Nodes : unsent'[m] \subseteq unsent[m] \cup {op}
      BY <1>1, <1>2 DEF Set!TypeOK, Set!ReplicaTypeOK
    <2>2. \/ o \in sent'
          \/ \E m \in Nodes : o \in applied'[m] \/ o \in unsent'[m] \/ o \in disk'[m].applied
      BY DEF Set!AllOps
    <2> QED
      BY <1>1, <1>3, <2>1, <2>2, SetAllOpsMembers
  <1>6. SetOpsWellFormed' /\ SetAddsDiffer'
    BY <1>1, <1>5, SetNewOp
  <1> QED
    BY <1>3, <1>4, <1>6, SetInvParts DEF Set!TablesInv, SetObjectsAreTables, SetOpsWellFormed, SetAddsDiffer

\* A step that leaves objects and histories as they were, or replaces them by
\* one another, and adds no operation keeps the invariant.
LEMMA SetQuietStep ==
    ASSUME Set!TablesInv, Set!TypeOK', calls' = calls, Set!AllOps' \subseteq Set!AllOps,
           \A m \in Nodes :
              /\ \/ obj'[m] = obj[m] /\ applied'[m] = applied[m]
                 \/ obj'[m] = disk[m].obj /\ applied'[m] = disk[m].applied
              /\ \/ disk'[m] = disk[m]
                 \/ disk'[m].obj = obj[m] /\ disk'[m].applied = applied[m]
    PROVE  Set!TablesInv'
  <1>1. SetObjectsAreTables /\ SetOpsWellFormed /\ SetAddsDiffer
    BY SetInvParts
  <1>2. SetObjectsAreTables'
    <2> SUFFICES ASSUME NEW m \in Nodes
                 PROVE  obj'[m] = Set!Tables(applied'[m]) /\ disk'[m].obj = Set!Tables(disk'[m].applied)
      BY DEF SetObjectsAreTables, Set!Tables
    <2> QED
      BY <1>1 DEF SetObjectsAreTables
  <1>3. SetOpsWellFormed' /\ SetAddsDiffer'
    BY <1>1, SetNoNewOp
  <1> QED
    BY <1>2, <1>3 DEF Set!TablesInv, SetObjectsAreTables, SetOpsWellFormed, SetAddsDiffer

\* Every step keeps the invariant.
LEMMA SetInvStep ==
    ASSUME Set!TablesInv, Set!Next \/ UNCHANGED replicaVars
    PROVE  Set!TablesInv'
  <1>1. Set!TypeOK /\ SetObjectsAreTables /\ SetOpsWellFormed /\ SetAddsDiffer
    BY SetInvParts
  <1>2. ASSUME NEW n \in Nodes, NEW e \in Elements, Set!OrSetAdd(n, e)
        PROVE  Set!TablesInv'
    <2> DEFINE op == [kind |-> "add", element |-> e, tags |-> {calls}, observed |-> {}]
    <2>1. op \in Set!Op
      BY <1>1 DEF Set!Op, Set!Tags, Set!TypeOK, Set!ReplicaTypeOK
    <2>2. Set!HostUpdate(n, op, Set!Apply(obj[n], op))
      BY <1>2 DEF Set!OrSetAdd
    <2>3. op.kind = "add" /\ op.tags = {calls} /\ op.observed = {}
      OBVIOUS
    <2> HIDE DEF op
    <2> QED
      BY <2>1, <2>2, <2>3, SetHostStep
  <1>3. ASSUME NEW n \in Nodes, NEW e \in Elements, Set!OrSetRemove(n, e)
        PROVE  Set!TablesInv'
    <2> DEFINE op == [kind |-> "remove", element |-> e, tags |-> obj[n].adds[e],
                      observed |-> Set!AddTags(applied[n])]
    <2>1. op \in Set!Op
      BY <1>1 DEF Set!Op, Set!AddTags, Set!TypeOK, Set!ReplicaTypeOK, Set!ORSet
    <2>2. Set!HostUpdate(n, op, Set!Apply(obj[n], op))
      BY <1>3 DEF Set!OrSetRemove
    <2>3. /\ op.kind = "remove"
          /\ op.tags = obj[n].adds[op.element]
          /\ op.observed = Set!AddTags(applied[n])
      OBVIOUS
    <2> HIDE DEF op
    <2> QED
      BY <2>1, <2>2, <2>3, SetHostStep
  <1>4. ASSUME NEW n \in Nodes, NEW op \in sent, Set!ApplyRemoteOrSet(n, op)
        PROVE  Set!TablesInv'
    <2>1. /\ Set!PersistAndPublish(n, op, Set!Apply(obj[n], op))
          /\ UNCHANGED <<unsent, sent, calls>>
      BY <1>4 DEF Set!ApplyRemoteOrSet, Set!RemoteUpdate
    <2>2. op \in Set!Op
      BY <1>1 DEF Set!TypeOK, Set!ReplicaTypeOK
    <2>3. /\ obj' \in [Nodes -> Set!ORSet]
          /\ applied' \in [Nodes -> SUBSET Set!Op]
          /\ disk' \in [Nodes -> [obj : Set!ORSet, applied : SUBSET Set!Op]]
          /\ SetObjectsAreTables'
          /\ \A m \in Nodes : /\ applied'[m] \subseteq applied[m] \cup applied[n] \cup {op}
                              /\ disk'[m].applied \subseteq disk[m].applied \cup applied[n] \cup {op}
      BY <1>1, <2>1, <2>2, SetPublishStep
    <2>4. Set!TypeOK'
      BY <1>1, <2>1, <2>3 DEF Set!TypeOK, Set!ReplicaTypeOK
    <2>5. Set!AllOps' \subseteq Set!AllOps
      <3> SUFFICES ASSUME NEW o \in Set!AllOps' PROVE o \in Set!AllOps
        OBVIOUS
      <3>1. \/ o \in sent'
            \/ \E m \in Nodes : o \in applied'[m] \/ o \in unsent'[m] \/ o \in disk'[m].applied
        BY DEF Set!AllOps
      <3> QED
        BY <2>1, <2>3, <3>1, SetAllOpsMembers
    <2>6. SetOpsWellFormed' /\ SetAddsDiffer'
      BY <1>1, <2>1, <2>5, SetNoNewOp
    <2> QED
      BY <2>3, <2>4, <2>6 DEF Set!TablesInv, SetObjectsAreTables, SetOpsWellFormed, SetAddsDiffer
  <1>5. ASSUME NEW n \in Nodes, NEW op \in unsent[n], Set!Send(n, op)
        PROVE  Set!TablesInv'
    <2>1. /\ unsent' = [unsent EXCEPT ![n] = @ \ {op}]
          /\ sent' = sent \cup {op}
          /\ UNCHANGED <<obj, applied, disk, calls>>
      BY <1>5 DEF Set!Send
    <2>2. Set!TypeOK'
      BY <1>1, <1>5, <2>1 DEF Set!TypeOK, Set!ReplicaTypeOK
    <2>3. Set!AllOps' \subseteq Set!AllOps
      <3> SUFFICES ASSUME NEW o \in Set!AllOps' PROVE o \in Set!AllOps
        OBVIOUS
      <3>1. \A m \in Nodes : unsent'[m] \subseteq unsent[m]
        BY <1>1, <2>1 DEF Set!TypeOK, Set!ReplicaTypeOK
      <3>2. \/ o \in sent'
            \/ \E m \in Nodes : o \in applied'[m] \/ o \in unsent'[m] \/ o \in disk'[m].applied
        BY DEF Set!AllOps
      <3> QED
        BY <1>5, <2>1, <3>1, <3>2, SetAllOpsMembers
    <2> QED
      BY <2>1, <2>2, <2>3, SetQuietStep
  <1>6. ASSUME NEW n \in Nodes, Set!Flush(n)
        PROVE  Set!TablesInv'
    <2>1. /\ disk' = [disk EXCEPT ![n] = [obj |-> obj[n], applied |-> applied[n]]]
          /\ UNCHANGED <<obj, applied, unsent, sent, calls>>
      BY <1>6 DEF Set!Flush
    <2>2. Set!TypeOK'
      BY <1>1, <2>1 DEF Set!TypeOK, Set!ReplicaTypeOK
    <2>3. \A m \in Nodes : \/ disk'[m] = disk[m]
                           \/ disk'[m].obj = obj[m] /\ disk'[m].applied = applied[m]
      BY <1>1, <2>1 DEF Set!TypeOK, Set!ReplicaTypeOK
    <2>4. Set!AllOps' \subseteq Set!AllOps
      <3> SUFFICES ASSUME NEW o \in Set!AllOps' PROVE o \in Set!AllOps
        OBVIOUS
      <3>1. \/ o \in sent'
            \/ \E m \in Nodes : o \in applied'[m] \/ o \in unsent'[m] \/ o \in disk'[m].applied
        BY DEF Set!AllOps
      <3> QED
        BY <2>1, <2>3, <3>1, SetAllOpsMembers
    <2> QED
      BY <2>1, <2>2, <2>3, <2>4, SetQuietStep
  <1>7. ASSUME NEW n \in Nodes, Set!Crash(n)
        PROVE  Set!TablesInv'
    <2>1. /\ obj' = [obj EXCEPT ![n] = disk[n].obj]
          /\ applied' = [applied EXCEPT ![n] = disk[n].applied]
          /\ unsent' = [unsent EXCEPT ![n] = {}]
          /\ UNCHANGED <<disk, sent, calls>>
      BY <1>7 DEF Set!Crash
    <2>2. Set!TypeOK'
      BY <1>1, <2>1 DEF Set!TypeOK, Set!ReplicaTypeOK
    <2>3. \A m \in Nodes : /\ \/ obj'[m] = obj[m] /\ applied'[m] = applied[m]
                              \/ obj'[m] = disk[m].obj /\ applied'[m] = disk[m].applied
                           /\ unsent'[m] \subseteq unsent[m]
      BY <1>1, <2>1 DEF Set!TypeOK, Set!ReplicaTypeOK
    <2>4. Set!AllOps' \subseteq Set!AllOps
      <3> SUFFICES ASSUME NEW o \in Set!AllOps' PROVE o \in Set!AllOps
        OBVIOUS
      <3>1. \/ o \in sent'
            \/ \E m \in Nodes : o \in applied'[m] \/ o \in unsent'[m] \/ o \in disk'[m].applied
        BY DEF Set!AllOps
      <3> QED
        BY <2>1, <2>3, <3>1, SetAllOpsMembers
    <2> QED
      BY <2>1, <2>2, <2>3, <2>4, SetQuietStep
  <1>8. CASE UNCHANGED replicaVars
    <2>1. UNCHANGED <<obj, applied, disk, unsent, sent, calls>>
      BY <1>8 DEF replicaVars
    <2>2. Set!TypeOK'
      BY <1>1, <2>1 DEF Set!TypeOK, Set!ReplicaTypeOK
    <2>3. Set!AllOps' \subseteq Set!AllOps
      BY <2>1 DEF Set!AllOps
    <2> QED
      BY <2>1, <2>2, <2>3, SetQuietStep
  <1> QED
    BY <1>2, <1>3, <1>4, <1>5, <1>6, <1>7, <1>8 DEF Set!Next

\* From the tables to the rule: an add and a remove of one element meet in the
\* tables exactly when the remover had observed the add.
LEMMA SetInvGivesRule == Set!TablesInv => Set!ContainsObservedRemove
  <1> SUFFICES ASSUME Set!TablesInv, NEW n \in Nodes, NEW e \in Elements
               PROVE  Set!contains(obj[n], e) <=> Set!Visible(applied[n], e)
    BY DEF Set!ContainsObservedRemove
  <1> DEFINE ops == applied[n]
  <1>1. ops \in SUBSET Set!Op /\ ops \subseteq Set!AllOps /\ obj[n] = Set!Tables(ops)
    BY SetAllOpsMembers DEF Set!TablesInv, Set!TypeOK, Set!ReplicaTypeOK
  <1>2. \A a \in ops : a.kind = "add" => \E t : a.tags = {t}
    BY <1>1 DEF Set!TablesInv, Set!WellFormed
  <1>3. \A a, r \in ops :
           a.kind = "add" /\ a.element = e /\ r.kind = "remove" /\ r.element = e
           => (a.tags \cap r.tags # {} <=> a.tags \cap r.observed # {})
    BY <1>1 DEF Set!TablesInv, Set!WellFormed
  <1>4. Set!contains(obj[n], e) <=>
           \E t : /\ \E a \in ops : a.kind = "add" /\ a.element = e /\ t \in a.tags
                  /\ ~ \E r \in ops : r.kind = "remove" /\ r.element = e /\ t \in r.tags
    BY <1>1, SetTablesMembers DEF Set!contains
  <1> HIDE DEF ops
  <1>5. ASSUME NEW a \in ops, a.kind = "add", a.element = e
        PROVE  (\E t \in a.tags : ~ \E r \in ops : r.kind = "remove" /\ r.element = e /\ t \in r.tags)
               <=> \A r \in ops : r.kind = "remove" /\ r.element = e => a.tags \cap r.observed = {}
    <2>1. PICK t : a.tags = {t}
      BY <1>2, <1>5
    <2>2. \A r \in ops : r.kind = "remove" /\ r.element = e => (t \in r.tags <=> a.tags \cap r.observed # {})
      BY <1>3, <1>5, <2>1
    <2> QED
      BY <2>1, <2>2
  <1>6. Set!Visible(ops, e) <=>
           \E a \in ops : /\ a.kind = "add" /\ a.element = e
                          /\ \A r \in ops : r.kind = "remove" /\ r.element = e
                                            => a.tags \cap r.observed = {}
    BY DEF Set!Visible
  <1> QED
    BY <1>4, <1>5, <1>6 DEF ops

-----------------------------------------------------------------------------
(* Operations. *)

\* Where the operations are.
LEMMA AllOpsMembers ==
    ASSUME NEW op
    PROVE  op \in AllOps <=>
              \/ op \in sent
              \/ \E n \in Nodes : op \in applied[n] \/ op \in unsent[n] \/ op \in disk[n].applied
  BY DEF AllOps

-----------------------------------------------------------------------------
(* Rga: what a replica holds, not the order that it shows. *)

\* What the operations ops leave in an array.
Arrived(ops) ==
    [elements   |-> {op.element : op \in {a \in ops : a.kind = "insert"}},
     tombstones |-> {op.id : op \in {d \in ops : d.kind = "delete"}}]

SequenceTypes ==
    /\ drawn \subseteq Ids
    /\ applied \in [Nodes -> SUBSET Sequence!Op]
    /\ unsent \in [Nodes -> SUBSET Sequence!Op]
    /\ sent \in SUBSET Sequence!Op
    /\ \A n \in Nodes : disk[n].applied \in SUBSET Sequence!Op

\* In memory and on disk, an array is a function of the operations applied.
SequenceObjects ==
    /\ obj = [n \in Nodes |-> Arrived(applied[n])]
    /\ disk = [n \in Nodes |-> [obj |-> Arrived(disk[n].applied), applied |-> disk[n].applied]]

\* An id that is drawn once names one insertion, whoever holds it.
IdsDiffer ==
    /\ \A op \in AllOps : op.kind = "insert" => op.element.id \in drawn
    /\ \A a, b \in AllOps :
          a.kind = "insert" /\ b.kind = "insert" /\ a.element.id = b.element.id => a = b

ArrivedInv == SequenceTypes /\ SequenceObjects /\ IdsDiffer

\* An insertion of an id that is present is the one that is present.
LEMMA ArrivedOneMore ==
    ASSUME NEW ops \in SUBSET Sequence!Op, NEW op \in Sequence!Op,
           \A a \in ops : a.kind = "insert" /\ op.kind = "insert" /\ a.element.id = op.element.id => a = op
    PROVE  Sequence!Apply(Arrived(ops), op) = Arrived(ops \cup {op})
  <1>1. CASE op.kind = "insert"
    <2>1. Arrived(ops \cup {op}).tombstones = Arrived(ops).tombstones
      BY <1>1 DEF Arrived
    <2>2. Arrived(ops \cup {op}).elements = Arrived(ops).elements \cup {op.element}
      BY <1>1 DEF Arrived
    <2>3. op.element.id \in Sequence!IdsOf(Arrived(ops)) => op.element \in Arrived(ops).elements
      BY <1>1 DEF Arrived, Sequence!IdsOf
    <2>4. \A s : Arrived(s) = [elements |-> Arrived(s).elements, tombstones |-> Arrived(s).tombstones]
      BY DEF Arrived
    <2> HIDE DEF Arrived
    <2>5. Sequence!Apply(Arrived(ops), op) =
            IF op.element.id \in Sequence!IdsOf(Arrived(ops)) THEN Arrived(ops)
            ELSE [Arrived(ops) EXCEPT !.elements = @ \cup {op.element}]
      BY <1>1 DEF Sequence!Apply, Sequence!insert
    <2>6. Arrived(ops \cup {op}) =
            [elements |-> Arrived(ops).elements \cup {op.element}, tombstones |-> Arrived(ops).tombstones]
      BY <2>1, <2>2, <2>4
    <2>7. CASE op.element.id \in Sequence!IdsOf(Arrived(ops))
      <3>1. Arrived(ops).elements \cup {op.element} = Arrived(ops).elements
        BY <2>3, <2>7
      <3> QED BY <2>4, <2>5, <2>6, <2>7, <3>1
    <2>8. CASE op.element.id \notin Sequence!IdsOf(Arrived(ops))
      BY <2>4, <2>5, <2>6, <2>8
    <2> QED BY <2>7, <2>8
  <1>2. CASE op.kind # "insert"
    <2>1. op.kind = "delete"
      BY <1>2 DEF Sequence!Op
    <2>2. Sequence!Apply(Arrived(ops), op) = [Arrived(ops) EXCEPT !.tombstones = @ \cup {op.id}]
      BY <1>2 DEF Sequence!Apply, Sequence!delete
    <2>3. Arrived(ops \cup {op}).elements = Arrived(ops).elements
      BY <1>2 DEF Arrived
    <2>4. Arrived(ops \cup {op}).tombstones = Arrived(ops).tombstones \cup {op.id}
      BY <2>1 DEF Arrived
    <2>5. \A s : Arrived(s) = [elements |-> Arrived(s).elements, tombstones |-> Arrived(s).tombstones]
      BY DEF Arrived
    <2> HIDE DEF Arrived
    <2> QED BY <2>2, <2>3, <2>4, <2>5
  <1> QED BY <1>1, <1>2

LEMMA ArrivedInit ==
    ASSUME Sequence!Init
    PROVE  ArrivedInv
  <1>1. Arrived({}) = Sequence!EmptyRga
    BY DEF Arrived, Sequence!EmptyRga
  <1>2. SequenceTypes
    BY DEF Sequence!Init, Sequence!ReplicaInit, SequenceTypes
  <1>3. SequenceObjects
    BY <1>1 DEF Sequence!Init, Sequence!ReplicaInit, SequenceObjects
  <1>4. \A op : op \notin AllOps
    BY AllOpsMembers DEF Sequence!Init, Sequence!ReplicaInit
  <1> QED BY <1>2, <1>3, <1>4 DEF ArrivedInv, IdsDiffer

\* An operation applied at one node, which names no other insertion's id.
LEMMA ArrivedPublish ==
    ASSUME ArrivedInv, NEW n \in Nodes, NEW op \in Sequence!Op,
           Sequence!PersistAndPublish(n, op, Sequence!Apply(obj[n], op)),
           \A a \in AllOps : a.kind = "insert" /\ op.kind = "insert" /\ a.element.id = op.element.id => a = op,
           op.kind = "insert" => op.element.id \in drawn', drawn \subseteq drawn', drawn' \subseteq Ids,
           unsent' \in [Nodes -> SUBSET Sequence!Op], sent' \in SUBSET Sequence!Op,
           \A m \in Nodes : unsent'[m] \subseteq unsent[m] \cup {op}, sent' \subseteq sent
    PROVE  ArrivedInv'
  <1> DEFINE ops == applied[n] \cup {op}
  <1>1. applied[n] \subseteq AllOps /\ applied[n] \in SUBSET Sequence!Op
    BY AllOpsMembers DEF ArrivedInv, SequenceTypes
  <1>2. Sequence!Apply(obj[n], op) = Arrived(ops)
    BY <1>1, ArrivedOneMore DEF ArrivedInv, SequenceObjects
  <1>3. /\ obj' = [obj EXCEPT ![n] = Arrived(ops)]
        /\ applied' = [applied EXCEPT ![n] = ops]
        /\ disk' = [disk EXCEPT ![n] = [obj |-> Arrived(ops), applied |-> ops]]
    BY <1>2 DEF Sequence!PersistAndPublish, ArrivedInv, SequenceTypes
  <1>4. ops \in SUBSET Sequence!Op
    BY <1>1
  <1> HIDE DEF ops
  <1>5. /\ applied \in [Nodes -> SUBSET Sequence!Op]
        /\ obj = [m \in Nodes |-> Arrived(applied[m])]
        /\ disk = [m \in Nodes |-> [obj |-> Arrived(disk[m].applied), applied |-> disk[m].applied]]
        /\ \A m \in Nodes : disk[m].applied \in SUBSET Sequence!Op
    BY DEF ArrivedInv, SequenceTypes, SequenceObjects
  <1> HIDE DEF Arrived
  <1>6. \A m \in Nodes : \/ applied'[m] = applied[m] /\ disk'[m] = disk[m] /\ obj'[m] = obj[m]
                         \/ applied'[m] = ops /\ disk'[m].applied = ops /\ obj'[m] = Arrived(ops)
                            /\ disk'[m] = [obj |-> Arrived(ops), applied |-> ops]
    BY <1>3, <1>5
  <1>7. SequenceTypes'
    BY <1>3, <1>4, <1>5, <1>6 DEF SequenceTypes
  <1>8. SequenceObjects'
    <2>1. obj' = [m \in Nodes |-> obj'[m]] /\ disk' = [m \in Nodes |-> disk'[m]]
      BY <1>3, <1>5
    <2>2. \A m \in Nodes : /\ obj'[m] = Arrived(applied'[m])
                           /\ disk'[m] = [obj |-> Arrived(disk'[m].applied), applied |-> disk'[m].applied]
      BY <1>5, <1>6
    <2>3. obj' = [m \in Nodes |-> Arrived(applied'[m])]
      BY <2>1, <2>2
    <2>4. disk' = [m \in Nodes |-> [obj |-> Arrived(disk'[m].applied), applied |-> disk'[m].applied]]
      BY <2>1, <2>2
    <2> QED BY <2>3, <2>4 DEF SequenceObjects, Arrived
  <1>9. \A o \in AllOps' : o \in AllOps \/ o = op
    <2> SUFFICES ASSUME NEW o \in AllOps' PROVE o \in AllOps \/ o = op
      OBVIOUS
    <2>1. \/ o \in sent'
          \/ \E m \in Nodes : o \in applied'[m] \/ o \in unsent'[m] \/ o \in disk'[m].applied
      BY DEF AllOps
    <2>2. \A m \in Nodes : applied[m] \subseteq AllOps /\ unsent[m] \subseteq AllOps /\ disk[m].applied \subseteq AllOps
      BY AllOpsMembers
    <2>3. sent \subseteq AllOps
      BY AllOpsMembers
    <2>4. \A m \in Nodes : applied'[m] \subseteq AllOps \cup {op} /\ disk'[m].applied \subseteq AllOps \cup {op}
      BY <1>6, <2>2 DEF ops
    <2> QED BY <2>1, <2>2, <2>3, <2>4
  <1>10. IdsDiffer'
    BY <1>9 DEF ArrivedInv, IdsDiffer
  <1> QED BY <1>7, <1>8, <1>10 DEF ArrivedInv

\* Steps that neither apply nor make an operation.
LEMMA ArrivedQuiet ==
    ASSUME ArrivedInv, drawn' = drawn, SequenceTypes', SequenceObjects', AllOps' \subseteq AllOps
    PROVE  ArrivedInv'
  BY DEF ArrivedInv, IdsDiffer

LEMMA ArrivedStep ==
    ASSUME ArrivedInv, Sequence!Next \/ UNCHANGED <<replicaVars, drawn>>
    PROVE  ArrivedInv'
  <1>1. /\ applied \in [Nodes -> SUBSET Sequence!Op] /\ unsent \in [Nodes -> SUBSET Sequence!Op]
        /\ sent \in SUBSET Sequence!Op /\ drawn \subseteq Ids
        /\ \A m \in Nodes : disk[m].applied \in SUBSET Sequence!Op
    BY DEF ArrivedInv, SequenceTypes
  <1>2. /\ obj = [m \in Nodes |-> Arrived(applied[m])]
        /\ disk = [m \in Nodes |-> [obj |-> Arrived(disk[m].applied), applied |-> disk[m].applied]]
    BY DEF ArrivedInv, SequenceObjects
  <1>3. ASSUME NEW n \in Nodes, NEW id \in Ids, NEW parent \in Ids \cup {Sequence!None}, Sequence!Inserted(id, parent),
               Sequence!PersistAndPublish(n, Sequence!InsertOp(id, parent), Sequence!Apply(obj[n], Sequence!InsertOp(id, parent))),
               unsent' \in [Nodes -> SUBSET Sequence!Op], sent' = sent,
               \A m \in Nodes : unsent'[m] \subseteq unsent[m] \cup {Sequence!InsertOp(id, parent)}
        PROVE  ArrivedInv'
    <2> DEFINE op == Sequence!InsertOp(id, parent)
    <2>1. op \in Sequence!Op /\ op.kind = "insert" /\ op.element.id = id
      BY DEF Sequence!InsertOp, Sequence!Op, Sequence!Element
    <2>2. id \notin drawn /\ drawn' = drawn \cup {id}
      BY <1>3 DEF Sequence!Inserted
    <2> HIDE DEF op
    <2>3. \A a \in AllOps : a.kind = "insert" /\ op.kind = "insert" /\ a.element.id = op.element.id => a = op
      BY <2>1, <2>2 DEF ArrivedInv, IdsDiffer
    <2>4. Sequence!PersistAndPublish(n, op, Sequence!Apply(obj[n], op)) /\ \A m \in Nodes : unsent'[m] \subseteq unsent[m] \cup {op}
      BY <1>3 DEF op
    <2> QED BY <1>1, <1>3, <2>1, <2>2, <2>3, <2>4, ArrivedPublish
  <1>4. ASSUME NEW n \in Nodes, NEW id \in Ids, NEW parent \in Ids \cup {Sequence!None}, Sequence!RgaInsert(n, id, parent)
        PROVE  ArrivedInv'
    <2> DEFINE op == Sequence!InsertOp(id, parent)
    <2>1. op \in Sequence!Op
      BY DEF Sequence!InsertOp, Sequence!Op, Sequence!Element
    <2>2. Sequence!Inserted(id, parent) /\ Sequence!HostUpdate(n, op, Sequence!Apply(obj[n], op))
      BY <1>4 DEF Sequence!RgaInsert
    <2> HIDE DEF op
    <2>3. /\ Sequence!PersistAndPublish(n, op, Sequence!Apply(obj[n], op)) /\ sent' = sent
          /\ unsent' = [unsent EXCEPT ![n] = @ \cup {op}]
      BY <2>2 DEF Sequence!HostUpdate
    <2>4. unsent' \in [Nodes -> SUBSET Sequence!Op] /\ \A m \in Nodes : unsent'[m] \subseteq unsent[m] \cup {op}
      BY <1>1, <2>1, <2>3
    <2> QED BY <1>3, <2>2, <2>3, <2>4 DEF op
  <1>5. ASSUME NEW n \in Nodes, NEW id \in Ids, NEW parent \in Ids \cup {Sequence!None}, Sequence!RgaInsertFails(n, id, parent)
        PROVE  ArrivedInv'
    BY <1>1, <1>3, <1>5 DEF Sequence!RgaInsertFails
  <1>6. ASSUME NEW n \in Nodes, NEW id \in drawn, Sequence!RgaDelete(n, id)
        PROVE  ArrivedInv'
    <2> DEFINE op == [kind |-> "delete", id |-> id]
    <2>1. op \in Sequence!Op /\ op.kind = "delete"
      BY <1>1, <1>6 DEF Sequence!Op
    <2>2. Sequence!HostUpdate(n, op, Sequence!Apply(obj[n], op)) /\ drawn' = drawn
      BY <1>6 DEF Sequence!RgaDelete
    <2> HIDE DEF op
    <2>3. /\ Sequence!PersistAndPublish(n, op, Sequence!Apply(obj[n], op)) /\ sent' = sent
          /\ unsent' = [unsent EXCEPT ![n] = @ \cup {op}]
      BY <2>2 DEF Sequence!HostUpdate
    <2>4. unsent' \in [Nodes -> SUBSET Sequence!Op] /\ \A m \in Nodes : unsent'[m] \subseteq unsent[m] \cup {op}
      BY <1>1, <2>1, <2>3
    <2> QED BY <1>1, <2>1, <2>2, <2>3, <2>4, ArrivedPublish
  <1>7. ASSUME NEW n \in Nodes, NEW op \in sent, Sequence!ApplyRemoteRga(n, op)
        PROVE  ArrivedInv'
    <2>1. /\ Sequence!PersistAndPublish(n, op, Sequence!Apply(obj[n], op)) /\ drawn' = drawn
          /\ unsent' = unsent /\ sent' = sent
      BY <1>7 DEF Sequence!ApplyRemoteRga, Sequence!RemoteUpdate
    <2>2. op \in Sequence!Op /\ op \in AllOps
      BY <1>1, AllOpsMembers
    <2>3. /\ \A a \in AllOps : a.kind = "insert" /\ op.kind = "insert" /\ a.element.id = op.element.id => a = op
          /\ op.kind = "insert" => op.element.id \in drawn'
      BY <2>1, <2>2 DEF ArrivedInv, IdsDiffer
    <2> QED BY <1>1, <2>1, <2>2, <2>3, ArrivedPublish
  <1>8. ASSUME NEW n \in Nodes, NEW op \in unsent[n], Sequence!Send(n, op), drawn' = drawn
        PROVE  ArrivedInv'
    <2>1. /\ unsent' = [unsent EXCEPT ![n] = @ \ {op}] /\ sent' = sent \cup {op}
          /\ obj' = obj /\ applied' = applied /\ disk' = disk
      BY <1>8 DEF Sequence!Send
    <2>2. SequenceTypes'
      BY <1>1, <1>8, <2>1 DEF SequenceTypes
    <2>3. SequenceObjects'
      BY <2>1 DEF ArrivedInv, SequenceObjects, Arrived
    <2>4. AllOps' \subseteq AllOps
      <3> SUFFICES ASSUME NEW o \in AllOps' PROVE o \in AllOps
        OBVIOUS
      <3>1. \A m \in Nodes : unsent'[m] \subseteq unsent[m]
        BY <1>1, <2>1
      <3>2. \/ o \in sent'
            \/ \E m \in Nodes : o \in applied'[m] \/ o \in unsent'[m] \/ o \in disk'[m].applied
        BY DEF AllOps
      <3> QED BY <1>8, <2>1, <3>1, <3>2, AllOpsMembers
    <2> QED BY <1>8, <2>2, <2>3, <2>4, ArrivedQuiet
  <1>9. ASSUME NEW n \in Nodes, Sequence!Flush(n), drawn' = drawn
        PROVE  ArrivedInv'
    <2>1. /\ disk' = [disk EXCEPT ![n] = [obj |-> obj[n], applied |-> applied[n]]]
          /\ obj' = obj /\ applied' = applied /\ unsent' = unsent /\ sent' = sent
      BY <1>9 DEF Sequence!Flush
    <2> HIDE DEF Arrived
    <2>2. \A m \in Nodes : \/ disk'[m] = disk[m]
                           \/ disk'[m] = [obj |-> obj[m], applied |-> applied[m]]
      BY <1>2, <2>1
    <2>3. disk' = [m \in Nodes |-> disk'[m]]
      BY <1>2, <2>1
    <2>4. SequenceTypes'
      BY <1>1, <1>9, <2>1, <2>2 DEF SequenceTypes
    <2>5. SequenceObjects'
      <3>1. \A m \in Nodes : disk'[m] = [obj |-> Arrived(disk'[m].applied), applied |-> disk'[m].applied]
        <4> SUFFICES ASSUME NEW m \in Nodes
                     PROVE  disk'[m] = [obj |-> Arrived(disk'[m].applied), applied |-> disk'[m].applied]
          OBVIOUS
        <4>1. obj[m] = Arrived(applied[m])
          BY <1>2
        <4>2. disk[m] = [obj |-> Arrived(disk[m].applied), applied |-> disk[m].applied]
          BY <1>2
        <4>3. CASE disk'[m] = disk[m]
          BY <4>2, <4>3
        <4>4. CASE disk'[m] = [obj |-> obj[m], applied |-> applied[m]]
          BY <4>1, <4>4
        <4> QED BY <2>2, <4>3, <4>4
      <3>2. disk' = [m \in Nodes |-> [obj |-> Arrived(disk'[m].applied), applied |-> disk'[m].applied]]
        BY <2>3, <3>1
      <3> QED BY <1>2, <2>1, <3>2 DEF SequenceObjects, Arrived
    <2>6. AllOps' \subseteq AllOps
      <3> SUFFICES ASSUME NEW o \in AllOps' PROVE o \in AllOps
        OBVIOUS
      <3>1. \/ o \in sent'
            \/ \E m \in Nodes : o \in applied'[m] \/ o \in unsent'[m] \/ o \in disk'[m].applied
        BY DEF AllOps
      <3> QED BY <2>1, <2>2, <3>1, AllOpsMembers
    <2> QED BY <1>9, <2>4, <2>5, <2>6, ArrivedQuiet
  <1>10. ASSUME NEW n \in Nodes, Sequence!Crash(n), drawn' = drawn
        PROVE  ArrivedInv'
    <2>1. /\ obj' = [obj EXCEPT ![n] = disk[n].obj] /\ applied' = [applied EXCEPT ![n] = disk[n].applied]
          /\ unsent' = [unsent EXCEPT ![n] = {}] /\ disk' = disk /\ sent' = sent
      BY <1>10 DEF Sequence!Crash
    <2> HIDE DEF Arrived
    <2>2. \A m \in Nodes : /\ \/ obj'[m] = obj[m] /\ applied'[m] = applied[m]
                              \/ obj'[m] = Arrived(disk[m].applied) /\ applied'[m] = disk[m].applied
                           /\ unsent'[m] \subseteq unsent[m]
      BY <1>1, <1>2, <2>1
    <2>3. obj' = [m \in Nodes |-> obj'[m]]
      BY <1>2, <2>1
    <2>4. SequenceTypes'
      BY <1>1, <1>10, <2>1, <2>2 DEF SequenceTypes
    <2>5. SequenceObjects'
      <3>1. \A m \in Nodes : obj'[m] = Arrived(applied'[m])
        BY <1>2, <2>2
      <3>2. obj' = [m \in Nodes |-> Arrived(applied'[m])]
        BY <2>3, <3>1
      <3> QED BY <1>2, <2>1, <3>2 DEF SequenceObjects, Arrived
    <2>6. AllOps' \subseteq AllOps
      <3> SUFFICES ASSUME NEW o \in AllOps' PROVE o \in AllOps
        OBVIOUS
      <3>1. \/ o \in sent'
            \/ \E m \in Nodes : o \in applied'[m] \/ o \in unsent'[m] \/ o \in disk'[m].applied
        BY DEF AllOps
      <3> QED BY <2>1, <2>2, <3>1, AllOpsMembers
    <2> QED BY <1>10, <2>4, <2>5, <2>6, ArrivedQuiet
  <1>11. CASE UNCHANGED <<replicaVars, drawn>>
    <2>1. obj' = obj /\ applied' = applied /\ disk' = disk /\ unsent' = unsent /\ sent' = sent /\ drawn' = drawn
      BY <1>11 DEF replicaVars
    <2>2. AllOps' = AllOps
      BY <2>1 DEF AllOps
    <2>3. SequenceTypes' /\ SequenceObjects'
      BY <2>1 DEF ArrivedInv, SequenceTypes, SequenceObjects, Arrived
    <2> QED BY <2>1, <2>2, <2>3, ArrivedQuiet
  <1>12. CASE Sequence!Next
    BY <1>4, <1>5, <1>6, <1>7, <1>8, <1>9, <1>10, <1>12 DEF Sequence!Next
  <1> QED BY <1>11, <1>12

-----------------------------------------------------------------------------
(* Sums over finite sets, which SumFunction folds up in an order of its own. *)

Pick(s) == CHOOSE x \in s : TRUE

SumsUp(w, S, g) == g = [s \in SUBSET S |-> IF s = {} THEN 0 ELSE w[Pick(s)] + g[s \ {Pick(s)}]]

LEMMA SumIsChosen ==
    ASSUME NEW w
    PROVE  Counter!SumFunction(w) = (CHOOSE g : SumsUp(w, DOMAIN w, g))[DOMAIN w]
  BY DEF Counter!SumFunction, Counter!SumFunctionOnSet, Counter!FoldFunctionOnSet, Counter!MapThenFoldSet, SumsUp, Pick

LEMMA LeastOf ==
    ASSUME NEW T, T \subseteq Nat, T # {}
    PROVE  \E x \in T : \A y \in T : x <= y
  <1>1. PICK x \in T : \A y \in T : ~(<<y, x>> \in OpToRel(<, Nat))
    BY NatLessThanWellFounded, WFMin, Zenon
  <1>2. ASSUME NEW y \in T PROVE x <= y
    <2>1. <<y, x>> \notin {ss \in Nat \X Nat : ss[1] < ss[2]}
      BY <1>1, Zenon DEF OpToRel
    <2> QED BY <2>1
  <1> QED BY <1>2

\* Of some subsets of a finite set, one has the fewest elements.
LEMMA Fewest ==
    ASSUME NEW S, IsFiniteSet(S), NEW B, B \subseteq SUBSET S, B # {}
    PROVE  \E s \in B : \A t \in B : Cardinality(s) <= Cardinality(t)
  <1> DEFINE sizes == {Cardinality(s) : s \in B}
  <1>1. \A s \in B : Cardinality(s) \in Nat
    BY FS_Subset, FS_CardinalityType
  <1>2. sizes \subseteq Nat /\ sizes # {}
    BY <1>1
  <1>3. PICK x \in sizes : \A y \in sizes : x <= y
    <2> HIDE DEF sizes
    <2> QED BY <1>2, LeastOf
  <1> QED BY <1>3

\* A subset without its picked element is smaller.
LEMMA Smaller ==
    ASSUME NEW S, IsFiniteSet(S), NEW s \in SUBSET S
    PROVE  /\ IsFiniteSet(s) /\ Cardinality(s) \in Nat
           /\ s = {} <=> Cardinality(s) = 0
           /\ s # {} => Pick(s) \in s
           /\ \A x \in s : Cardinality(s \ {x}) = Cardinality(s) - 1
  <1>1. IsFiniteSet(s)
    BY FS_Subset
  <1>2. Cardinality(s) \in Nat
    BY <1>1, FS_CardinalityType
  <1>3. s = {} <=> Cardinality(s) = 0
    BY <1>1, FS_EmptySet
  <1>4. \A x \in s : Cardinality(s \ {x}) = Cardinality(s) - 1
    BY <1>1, FS_RemoveElement
  <1>5. s # {} => Pick(s) \in s
    BY DEF Pick
  <1> QED BY <1>1, <1>2, <1>3, <1>4, <1>5

Level(S, n) == {s \in SUBSET S : Cardinality(s) <= n}

SumsUpTo(w, S, n, g) == g = [s \in Level(S, n) |-> IF s = {} THEN 0 ELSE w[Pick(s)] + g[s \ {Pick(s)}]]

LEMMA SumsFurther ==
    ASSUME NEW S, IsFiniteSet(S), NEW w, NEW n \in Nat, NEW g, SumsUpTo(w, S, n, g)
    PROVE  \E h : SumsUpTo(w, S, n + 1, h)
  <1> DEFINE h == [s \in Level(S, n + 1) |-> IF s = {} THEN 0 ELSE w[Pick(s)] + g[s \ {Pick(s)}]]
  <1>1. Level(S, n) \subseteq Level(S, n + 1)
    BY Smaller DEF Level
  <1>2. \A s \in Level(S, n) : h[s] = g[s]
    BY <1>1 DEF SumsUpTo
  <1>3. \A s \in Level(S, n + 1) : s # {} => s \ {Pick(s)} \in Level(S, n)
    BY Smaller DEF Level
  <1>4. \A s \in Level(S, n + 1) : h[s] = IF s = {} THEN 0 ELSE w[Pick(s)] + h[s \ {Pick(s)}]
    BY <1>2, <1>3
  <1>5. h = [s \in Level(S, n + 1) |-> h[s]]
    OBVIOUS
  <1> HIDE DEF h
  <1>6. h = [s \in Level(S, n + 1) |-> IF s = {} THEN 0 ELSE w[Pick(s)] + h[s \ {Pick(s)}]]
    BY <1>4, <1>5
  <1> QED BY <1>6 DEF SumsUpTo

LEMMA SumExists ==
    ASSUME NEW S, IsFiniteSet(S), NEW w
    PROVE  \E g : SumsUp(w, S, g)
  <1> DEFINE bad == {n \in Nat : ~\E g : SumsUpTo(w, S, n, g)}
  <1>1. \E g : SumsUpTo(w, S, 0, g)
    <2> DEFINE g == [s \in Level(S, 0) |-> 0]
    <2>1. \A s \in Level(S, 0) : s = {}
      BY Smaller DEF Level
    <2>2. g = [s \in Level(S, 0) |-> IF s = {} THEN 0 ELSE w[Pick(s)] + g[s \ {Pick(s)}]]
      BY <2>1
    <2> HIDE DEF g
    <2> QED BY <2>2 DEF SumsUpTo
  <1>2. bad = {}
    <2> SUFFICES ASSUME bad # {} PROVE FALSE
      OBVIOUS
    <2>1. PICK n \in bad : \A m \in bad : n <= m
      <3>1. bad \subseteq Nat
        OBVIOUS
      <3> HIDE DEF bad
      <3> QED BY <3>1, LeastOf
    <2>2. n \in Nat /\ n # 0
      BY <1>1
    <2>3. n - 1 \in Nat /\ n - 1 \notin bad
      BY <2>1, <2>2
    <2>4. PICK g : SumsUpTo(w, S, n - 1, g)
      BY <2>3
    <2>5. \E h : SumsUpTo(w, S, (n - 1) + 1, h)
      BY <2>3, <2>4, SumsFurther
    <2>6. (n - 1) + 1 = n
      BY <2>2
    <2> QED BY <2>1, <2>5, <2>6
  <1>3. Cardinality(S) \in Nat /\ Level(S, Cardinality(S)) = SUBSET S
    BY FS_Subset, FS_CardinalityType DEF Level
  <1>4. PICK g : SumsUpTo(w, S, Cardinality(S), g)
    BY <1>2, <1>3
  <1> QED BY <1>3, <1>4 DEF SumsUpTo, SumsUp

\* What the fold computes, as a function of the subsets.
LEMMA SumGiven ==
    ASSUME NEW w, IsFiniteSet(DOMAIN w)
    PROVE  \E g : SumsUp(w, DOMAIN w, g) /\ Counter!SumFunction(w) = g[DOMAIN w]
  <1>1. \E g : SumsUp(w, DOMAIN w, g)
    BY SumExists
  <1>2. SumsUp(w, DOMAIN w, CHOOSE g : SumsUp(w, DOMAIN w, g))
    BY <1>1
  <1> QED BY <1>2, SumIsChosen

LEMMA SumAt ==
    ASSUME NEW S, IsFiniteSet(S), NEW w, NEW g, SumsUp(w, S, g), NEW s \in SUBSET S
    PROVE  g[s] = IF s = {} THEN 0 ELSE w[Pick(s)] + g[s \ {Pick(s)}]
  BY DEF SumsUp

LEMMA SumIsNat ==
    ASSUME NEW S, IsFiniteSet(S), NEW w \in [S -> Nat], NEW g, SumsUp(w, S, g)
    PROVE  \A s \in SUBSET S : g[s] \in Nat
  <1> DEFINE bad == {s \in SUBSET S : g[s] \notin Nat}
  <1> SUFFICES ASSUME bad # {} PROVE FALSE
    OBVIOUS
  <1>1. PICK s \in bad : \A t \in bad : Cardinality(s) <= Cardinality(t)
    <2>1. bad \subseteq SUBSET S
      OBVIOUS
    <2> HIDE DEF bad
    <2> QED BY <2>1, Fewest
  <1>2. s \in SUBSET S /\ g[s] = IF s = {} THEN 0 ELSE w[Pick(s)] + g[s \ {Pick(s)}]
    BY SumAt
  <1>3. s # {}
    BY <1>1, <1>2
  <1>4. Pick(s) \in s /\ Cardinality(s \ {Pick(s)}) = Cardinality(s) - 1 /\ Cardinality(s) \in Nat
    BY <1>2, <1>3, Smaller
  <1>5. s \ {Pick(s)} \notin bad
    <2> HIDE DEF bad
    <2> QED BY <1>1, <1>4
  <1>6. g[s \ {Pick(s)}] \in Nat /\ w[Pick(s)] \in Nat
    BY <1>2, <1>4, <1>5
  <1> QED BY <1>1, <1>2, <1>3, <1>6

\* Whichever element is left out, the rest adds up to the same.
LEMMA SumWithout ==
    ASSUME NEW S, IsFiniteSet(S), NEW w \in [S -> Nat], NEW g, SumsUp(w, S, g)
    PROVE  \A s \in SUBSET S : \A x \in s : g[s] = g[s \ {x}] + w[x]
  <1> DEFINE bad == {s \in SUBSET S : \E x \in s : g[s] # g[s \ {x}] + w[x]}
  <1> SUFFICES ASSUME bad # {} PROVE FALSE
    OBVIOUS
  <1>1. PICK s \in bad : \A t \in bad : Cardinality(s) <= Cardinality(t)
    <2>1. bad \subseteq SUBSET S
      OBVIOUS
    <2> HIDE DEF bad
    <2> QED BY <2>1, Fewest
  <1>2. s \in SUBSET S
    OBVIOUS
  <1>3. PICK x \in s : g[s] # g[s \ {x}] + w[x]
    BY <1>1
  <1> DEFINE c == Pick(s)
  <1>4. c \in s /\ g[s] = w[c] + g[s \ {c}]
    BY <1>2, <1>3, Smaller, SumAt
  <1> HIDE DEF c
  <1>5. /\ \A t \in SUBSET S : g[t] \in Nat
        /\ \A y \in S : w[y] \in Nat
    BY SumIsNat
  <1>6. x # c
    <2>1. g[s \ {c}] \in Nat /\ w[c] \in Nat
      BY <1>2, <1>4, <1>5
    <2> HIDE DEF bad
    <2>2. w[c] + g[s \ {c}] = g[s \ {c}] + w[c]
      BY <2>1
    <2> QED BY <1>3, <1>4, <2>2
  <1>7. \A y \in s : Cardinality(s \ {y}) < Cardinality(s) /\ Cardinality(s \ {y}) \in Nat /\ Cardinality(s) \in Nat
    BY <1>2, Smaller
  <1>8. s \ {x} \notin bad /\ s \ {c} \notin bad
    <2> HIDE DEF bad
    <2> QED BY <1>1, <1>3, <1>4, <1>7
  <1>9. g[s \ {x}] = g[(s \ {x}) \ {c}] + w[c] /\ g[s \ {c}] = g[(s \ {c}) \ {x}] + w[x]
    <2>1. s \ {x} \in SUBSET S /\ s \ {c} \in SUBSET S /\ c \in s \ {x} /\ x \in s \ {c}
      BY <1>2, <1>3, <1>4, <1>6
    <2> QED BY <1>8, <2>1
  <1>10. (s \ {x}) \ {c} = (s \ {c}) \ {x}
    OBVIOUS
  <1>11. g[(s \ {c}) \ {x}] \in Nat /\ w[c] \in Nat /\ w[x] \in Nat
    BY <1>2, <1>3, <1>4, <1>5
  <1> HIDE DEF bad
  <1> DEFINE rest == g[(s \ {c}) \ {x}]
             one == w[c]
             two == w[x]
  <1>12. g[s \ {x}] = rest + one /\ g[s \ {c}] = rest + two /\ rest \in Nat /\ one \in Nat /\ two \in Nat
    BY <1>9, <1>10, <1>11
  <1>13. g[s] = one + g[s \ {c}] /\ g[s] # g[s \ {x}] + two
    BY <1>3, <1>4
  <1> HIDE DEF rest, one, two
  <1> QED BY <1>12, <1>13

\* The sum over a smaller domain.
LEMMA SumsAgree ==
    ASSUME NEW S, IsFiniteSet(S), NEW w, NEW g, SumsUp(w, S, g),
           NEW D \in SUBSET S, NEW v, \A d \in D : v[d] = w[d], NEW h, SumsUp(v, D, h)
    PROVE  \A s \in SUBSET D : h[s] = g[s]
  <1> DEFINE bad == {s \in SUBSET D : h[s] # g[s]}
  <1> SUFFICES ASSUME bad # {} PROVE FALSE
    OBVIOUS
  <1>0. IsFiniteSet(D)
    BY FS_Subset
  <1>1. PICK s \in bad : \A t \in bad : Cardinality(s) <= Cardinality(t)
    <2>1. bad \subseteq SUBSET D
      OBVIOUS
    <2> HIDE DEF bad
    <2> QED BY <1>0, <2>1, Fewest
  <1>2. s \in SUBSET D /\ s \in SUBSET S
    OBVIOUS
  <1>3. /\ h[s] = IF s = {} THEN 0 ELSE v[Pick(s)] + h[s \ {Pick(s)}]
        /\ g[s] = IF s = {} THEN 0 ELSE w[Pick(s)] + g[s \ {Pick(s)}]
    BY <1>0, <1>2, SumAt
  <1>4. s # {}
    BY <1>1, <1>3
  <1>5. Pick(s) \in s /\ Cardinality(s \ {Pick(s)}) = Cardinality(s) - 1 /\ Cardinality(s) \in Nat
    BY <1>0, <1>2, <1>4, Smaller
  <1>6. s \ {Pick(s)} \notin bad
    <2> HIDE DEF bad
    <2> QED BY <1>1, <1>5
  <1>7. h[s \ {Pick(s)}] = g[s \ {Pick(s)}] /\ v[Pick(s)] = w[Pick(s)]
    BY <1>2, <1>5, <1>6
  <1> QED BY <1>1, <1>3, <1>4, <1>7

LEMMA SumType ==
    ASSUME NEW D, IsFiniteSet(D), NEW w \in [D -> Nat]
    PROVE  Counter!SumFunction(w) \in Nat
  <1>1. PICK g : SumsUp(w, D, g) /\ Counter!SumFunction(w) = g[D]
    BY SumGiven
  <1> QED BY <1>1, SumIsNat

LEMMA SumOfNone ==
    ASSUME NEW w, DOMAIN w = {}
    PROVE  Counter!SumFunction(w) = 0
  <1>1. PICK g : SumsUp(w, {}, g) /\ Counter!SumFunction(w) = g[{}]
    BY SumGiven, FS_EmptySet
  <1> QED BY <1>1, SumAt, FS_EmptySet

\* One more summand.
LEMMA SumOneMore ==
    ASSUME NEW D, IsFiniteSet(D), NEW x, x \notin D, NEW w \in [D \cup {x} -> Nat], NEW v \in [D -> Nat],
           \A d \in D : v[d] = w[d]
    PROVE  Counter!SumFunction(w) = Counter!SumFunction(v) + w[x]
  <1> DEFINE S == D \cup {x}
  <1>1. IsFiniteSet(S) /\ D \in SUBSET S /\ S \ {x} = D /\ S \in SUBSET S /\ x \in S
    BY FS_AddElement
  <1>2. DOMAIN w = S /\ w \in [S -> Nat]
    OBVIOUS
  <1> HIDE DEF S
  <1>3. PICK g : SumsUp(w, S, g) /\ Counter!SumFunction(w) = g[S]
    BY <1>1, <1>2, SumGiven
  <1>4. PICK h : SumsUp(v, D, h) /\ Counter!SumFunction(v) = h[D]
    BY SumGiven
  <1>5. h[D] = g[D]
    BY <1>1, <1>3, <1>4, SumsAgree
  <1>6. g[S] = g[D] + w[x]
    BY <1>1, <1>2, <1>3, SumWithout
  <1> QED BY <1>3, <1>4, <1>5, <1>6

-----------------------------------------------------------------------------
(* Counters. *)

Saturated(total) == IF total > Counter!MaxSlot THEN Counter!MaxSlot ELSE total

\* What the operations ops leave in a counter.
Counted(ops) == [sign \in Counter!Signs |-> [m \in Nodes |-> Saturated(Counter!Total(ops, m, sign))]]

Of(ops, m, sign) == {op \in ops : op.origin = m /\ op.sign = sign}

CounterTypes ==
    /\ applied \in [Nodes -> SUBSET Counter!Op]
    /\ unsent \in [Nodes -> SUBSET Counter!Op]
    /\ sent \in SUBSET Counter!Op
    /\ \A n \in Nodes : disk[n].applied \in SUBSET Counter!Op
    /\ calls \in Nat

HistoriesAreFinite == \A n \in Nodes : IsFiniteSet(applied[n]) /\ IsFiniteSet(disk[n].applied)

CounterObjects ==
    /\ obj = [n \in Nodes |-> Counted(applied[n])]
    /\ disk = [n \in Nodes |-> [obj |-> Counted(disk[n].applied), applied |-> disk[n].applied]]

CountedInv == CounterTypes /\ HistoriesAreFinite /\ CounterObjects /\ \A op \in AllOps : op.id < calls

LEMMA MaxSlotType == Counter!MaxSlot \in Nat
  BY CrdtsAssumption DEF Counter!MaxSlot

LEMMA DeltaType ==
    ASSUME NEW op \in Counter!Op
    PROVE  op.delta \in Nat /\ op.origin \in Nodes /\ op.sign \in Counter!Signs /\ op.id \in Nat
  BY CrdtsAssumption DEF Counter!Op

LEMMA TotalIsSum ==
    ASSUME NEW ops, NEW m, NEW sign
    PROVE  Counter!Total(ops, m, sign) = Counter!SumFunction([op \in Of(ops, m, sign) |-> op.delta])
  BY DEF Counter!Total, Of

LEMMA TotalType ==
    ASSUME NEW ops \in SUBSET Counter!Op, IsFiniteSet(ops), NEW m, NEW sign
    PROVE  Counter!Total(ops, m, sign) \in Nat
  <1>1. IsFiniteSet(Of(ops, m, sign))
    BY FS_Subset DEF Of
  <1>2. [op \in Of(ops, m, sign) |-> op.delta] \in [Of(ops, m, sign) -> Nat]
    BY DeltaType DEF Of
  <1> QED BY <1>1, <1>2, SumType, TotalIsSum

LEMMA TotalOneMore ==
    ASSUME NEW ops \in SUBSET Counter!Op, IsFiniteSet(ops), NEW op \in Counter!Op, op \notin ops, NEW m, NEW sign
    PROVE  Counter!Total(ops \cup {op}, m, sign) =
             IF op.origin = m /\ op.sign = sign THEN Counter!Total(ops, m, sign) + op.delta
             ELSE Counter!Total(ops, m, sign)
  <1> DEFINE D == Of(ops, m, sign)
             v == [o \in D |-> o.delta]
             w == [o \in Of(ops \cup {op}, m, sign) |-> o.delta]
  <1>1. IsFiniteSet(D) /\ op \notin D
    BY FS_Subset DEF Of
  <1>2. CASE op.origin = m /\ op.sign = sign
    <2>1. Of(ops \cup {op}, m, sign) = D \cup {op}
      BY <1>2 DEF Of
    <2>2. v \in [D -> Nat] /\ w \in [D \cup {op} -> Nat] /\ w[op] = op.delta /\ \A d \in D : v[d] = w[d]
      BY <2>1, DeltaType DEF Of
    <2> HIDE DEF D, v, w
    <2>3. Counter!SumFunction(w) = Counter!SumFunction(v) + w[op]
      BY <1>1, <2>2, SumOneMore
    <2> QED BY <1>2, <2>2, <2>3, TotalIsSum DEF D, v, w
  <1>3. CASE ~(op.origin = m /\ op.sign = sign)
    <2>1. Of(ops \cup {op}, m, sign) = D
      BY <1>3 DEF Of
    <2> QED BY <1>3, <2>1, TotalIsSum
  <1> QED BY <1>2, <1>3

\* An increment of a saturated sum is the saturated sum with the increment.
LEMMA CountedOneMore ==
    ASSUME NEW ops \in SUBSET Counter!Op, IsFiniteSet(ops), NEW op \in Counter!Op, op \notin ops
    PROVE  Counter!increment(Counted(ops), op) = Counted(ops \cup {op})
  <1> DEFINE slot(m, sign) == Saturated(Counter!Total(ops, m, sign))
             more(m, sign) == Saturated(Counter!Total(ops \cup {op}, m, sign))
  <1>1. op.delta \in Nat /\ op.origin \in Nodes /\ op.sign \in Counter!Signs
    BY DeltaType
  <1>2. \A m \in Nodes, sign \in Counter!Signs :
            more(m, sign) = IF m = op.origin /\ sign = op.sign
                            THEN Counter!saturating_add(slot(m, sign), op.delta) ELSE slot(m, sign)
    <2> SUFFICES ASSUME NEW m \in Nodes, NEW sign \in Counter!Signs
                 PROVE  more(m, sign) = IF m = op.origin /\ sign = op.sign
                                        THEN Counter!saturating_add(slot(m, sign), op.delta) ELSE slot(m, sign)
      OBVIOUS
    <2>1. Counter!Total(ops, m, sign) \in Nat
      BY TotalType
    <2>2. Counter!Total(ops \cup {op}, m, sign) =
             IF op.origin = m /\ op.sign = sign THEN Counter!Total(ops, m, sign) + op.delta
             ELSE Counter!Total(ops, m, sign)
      BY TotalOneMore
    <2> DEFINE t == Counter!Total(ops, m, sign)
               d == op.delta
    <2> HIDE DEF t, d
    <2>3. t \in Nat /\ d \in Nat
      BY <1>1, <2>1 DEF t, d
    <2>4. Saturated(t + d) = Counter!saturating_add(Saturated(t), d)
      BY <2>3, MaxSlotType DEF Saturated, Counter!saturating_add
    <2> QED BY <2>2, <2>4 DEF t, d
  <1> HIDE DEF slot, more
  <1>3. Counted(ops) = [sign \in Counter!Signs |-> [m \in Nodes |-> slot(m, sign)]]
    BY DEF Counted, slot
  <1>4. Counted(ops \cup {op}) = [sign \in Counter!Signs |-> [m \in Nodes |-> more(m, sign)]]
    BY DEF Counted, more
  <1> DEFINE c == Counted(ops)
             new == [c EXCEPT ![op.sign][op.origin] = Counter!saturating_add(c[op.sign][op.origin], op.delta)]
  <1>5. Counter!increment(c, op) = new
    BY DEF Counter!increment
  <1> HIDE DEF c
  <1>6. new = [sign \in Counter!Signs |-> [m \in Nodes |-> IF m = op.origin /\ sign = op.sign
                            THEN Counter!saturating_add(slot(m, sign), op.delta) ELSE slot(m, sign)]]
    <2>1. c = [sign \in Counter!Signs |-> [m \in Nodes |-> slot(m, sign)]]
      BY <1>3 DEF c
    <2>2. c[op.sign][op.origin] = slot(op.origin, op.sign)
      BY <1>1, <2>1
    <2>3. \A sign \in Counter!Signs :
             new[sign] = [m \in Nodes |-> IF m = op.origin /\ sign = op.sign
                            THEN Counter!saturating_add(slot(m, sign), op.delta) ELSE slot(m, sign)]
      BY <1>1, <2>1, <2>2
    <2>4. new = [sign \in Counter!Signs |-> new[sign]]
      BY <2>1
    <2> HIDE DEF new
    <2> QED BY <2>3, <2>4
  <1> HIDE DEF new
  <1>7. new = [sign \in Counter!Signs |-> [m \in Nodes |-> more(m, sign)]]
    BY <1>2, <1>6
  <1> QED BY <1>4, <1>5, <1>7 DEF c

LEMMA CountedNone == Counted({}) = Counter!Zero
  <1>1. \A m, sign : Counter!Total({}, m, sign) = 0
    <2> SUFFICES ASSUME NEW m, NEW sign PROVE Counter!Total({}, m, sign) = 0
      OBVIOUS
    <2>1. DOMAIN [op \in Of({}, m, sign) |-> op.delta] = {}
      BY DEF Of
    <2> QED BY <2>1, SumOfNone, TotalIsSum
  <1>2. Saturated(0) = 0
    BY MaxSlotType DEF Saturated
  <1> QED BY <1>1, <1>2 DEF Counted, Counter!Zero

LEMMA CountedOpsType ==
    ASSUME CountedInv
    PROVE  \A op \in AllOps : op \in Counter!Op /\ op.id \in Nat
  <1>1. \A op \in AllOps : op \in Counter!Op
    BY AllOpsMembers DEF CountedInv, CounterTypes
  <1> QED BY <1>1, DeltaType

LEMMA CountedInit ==
    ASSUME Counter!Init
    PROVE  CountedInv
  <1>1. CounterTypes
    BY DEF Counter!Init, Counter!ReplicaInit, CounterTypes
  <1>2. CounterObjects
    BY CountedNone DEF Counter!Init, Counter!ReplicaInit, CounterObjects
  <1>3. \A op : op \notin AllOps
    BY AllOpsMembers DEF Counter!Init, Counter!ReplicaInit
  <1>4. HistoriesAreFinite
    BY FS_EmptySet DEF Counter!Init, Counter!ReplicaInit, HistoriesAreFinite
  <1> QED BY <1>1, <1>2, <1>3, <1>4 DEF CountedInv

\* An operation counted for the first time at one node, whether the write
\* reaches the disk at once or not.
LEMMA CountedPublish ==
    ASSUME CountedInv, NEW n \in Nodes, NEW op \in Counter!Op, op \notin applied[n],
           Counter!PersistAndPublish(n, op, Counter!increment(obj[n], op)),
           calls' \in Nat, calls <= calls', op.id < calls',
           unsent' \in [Nodes -> SUBSET Counter!Op], sent' \in SUBSET Counter!Op,
           \A m \in Nodes : unsent'[m] \subseteq unsent[m] \cup {op}, sent' \subseteq sent
    PROVE  CountedInv'
  <1> DEFINE ops == applied[n] \cup {op}
  <1>1. applied[n] \in SUBSET Counter!Op /\ IsFiniteSet(applied[n])
    BY DEF CountedInv, CounterTypes, HistoriesAreFinite
  <1>2. Counter!increment(obj[n], op) = Counted(ops)
    BY <1>1, CountedOneMore DEF CountedInv, CounterObjects
  <1>3. /\ obj' = [obj EXCEPT ![n] = Counted(ops)]
        /\ applied' = [applied EXCEPT ![n] = ops]
        /\ disk' = disk \/ disk' = [disk EXCEPT ![n] = [obj |-> Counted(ops), applied |-> ops]]
    <2> DEFINE new == Counted(ops)
    <2>1. Counter!PersistAndPublish(n, op, new)
      BY <1>2
    <2>2. disk = [m \in Nodes |-> disk[m]] /\ applied \in [Nodes -> SUBSET Counter!Op]
      BY DEF CountedInv, CounterTypes, CounterObjects
    <2> HIDE DEF new
    <2>3. obj' = [obj EXCEPT ![n] = new] /\ applied' = [applied EXCEPT ![n] = ops]
      BY <2>1, <2>2 DEF Counter!PersistAndPublish
    <2>4. ASSUME WriteBehind PROVE disk' = disk
      <3>1. disk' = [disk EXCEPT ![n] = disk[n]]
        BY <2>1, <2>4 DEF Counter!PersistAndPublish
      <3> QED BY <2>2, <3>1
    <2>5. ASSUME ~WriteBehind PROVE disk' = [disk EXCEPT ![n] = [obj |-> new, applied |-> ops]]
      BY <2>1, <2>5 DEF Counter!PersistAndPublish
    <2> QED BY <2>3, <2>4, <2>5 DEF new
  <1>4. ops \in SUBSET Counter!Op /\ IsFiniteSet(ops)
    BY <1>1, FS_AddElement
  <1> HIDE DEF ops, Counted
  <1>5. /\ applied \in [Nodes -> SUBSET Counter!Op]
        /\ obj = [m \in Nodes |-> Counted(applied[m])]
        /\ disk = [m \in Nodes |-> [obj |-> Counted(disk[m].applied), applied |-> disk[m].applied]]
        /\ \A m \in Nodes : disk[m].applied \in SUBSET Counter!Op
        /\ \A m \in Nodes : IsFiniteSet(applied[m]) /\ IsFiniteSet(disk[m].applied)
    BY DEF CountedInv, CounterTypes, CounterObjects, HistoriesAreFinite
  <1>6. \A m \in Nodes : \/ applied'[m] = applied[m] /\ obj'[m] = obj[m]
                         \/ applied'[m] = ops /\ obj'[m] = Counted(ops)
    BY <1>3, <1>5
  <1>7. \A m \in Nodes : \/ disk'[m] = disk[m]
                         \/ disk'[m] = [obj |-> Counted(ops), applied |-> ops]
    BY <1>3, <1>5
  <1>8. CounterTypes'
    BY <1>3, <1>4, <1>5, <1>6, <1>7 DEF CounterTypes
  <1>9. HistoriesAreFinite'
    <2>1. ASSUME NEW m \in Nodes PROVE IsFiniteSet(applied'[m]) /\ IsFiniteSet(disk'[m].applied)
      <3>1. applied'[m] = applied[m] \/ applied'[m] = ops
        BY <1>6
      <3>2. disk'[m].applied = disk[m].applied \/ disk'[m].applied = ops
        BY <1>7
      <3> QED BY <1>4, <1>5, <3>1, <3>2
    <2> QED BY <2>1 DEF HistoriesAreFinite
  <1>10. CounterObjects'
    <2>1. obj' = [m \in Nodes |-> obj'[m]] /\ disk' = [m \in Nodes |-> disk'[m]]
      BY <1>3, <1>5
    <2>2. ASSUME NEW m \in Nodes
          PROVE  /\ obj'[m] = Counted(applied'[m])
                 /\ disk'[m] = [obj |-> Counted(disk'[m].applied), applied |-> disk'[m].applied]
      <3>1. obj[m] = Counted(applied[m])
        BY <1>5
      <3>2. disk[m] = [obj |-> Counted(disk[m].applied), applied |-> disk[m].applied]
        BY <1>5
      <3>3. obj'[m] = Counted(applied'[m])
        BY <1>6, <3>1
      <3>4. CASE disk'[m] = disk[m]
        BY <3>2, <3>3, <3>4
      <3>5. CASE disk'[m] = [obj |-> Counted(ops), applied |-> ops]
        BY <3>3, <3>5
      <3> QED BY <1>7, <3>4, <3>5
    <2>3. obj' = [m \in Nodes |-> Counted(applied'[m])]
      BY <2>1, <2>2
    <2>4. disk' = [m \in Nodes |-> [obj |-> Counted(disk'[m].applied), applied |-> disk'[m].applied]]
      BY <2>1, <2>2
    <2> QED BY <2>3, <2>4 DEF CounterObjects
  <1>11. \A o \in AllOps' : o \in AllOps \/ o = op
    <2> SUFFICES ASSUME NEW o \in AllOps' PROVE o \in AllOps \/ o = op
      OBVIOUS
    <2>1. \/ o \in sent'
          \/ \E m \in Nodes : o \in applied'[m] \/ o \in unsent'[m] \/ o \in disk'[m].applied
      BY DEF AllOps
    <2>2. \A m \in Nodes : applied[m] \subseteq AllOps /\ unsent[m] \subseteq AllOps /\ disk[m].applied \subseteq AllOps
      BY AllOpsMembers
    <2>3. sent \subseteq AllOps
      BY AllOpsMembers
    <2>4. \A m \in Nodes : applied'[m] \subseteq AllOps \cup {op} /\ disk'[m].applied \subseteq AllOps \cup {op}
      BY <1>6, <1>7, <2>2 DEF ops
    <2> QED BY <2>1, <2>2, <2>3, <2>4
  <1>12. \A o \in AllOps' : o.id < calls'
    <2>1. \A o \in AllOps : o.id \in Nat /\ o.id < calls /\ calls \in Nat
      BY CountedOpsType DEF CountedInv, CounterTypes
    <2> QED BY <1>11, <2>1
  <1> QED BY <1>8, <1>9, <1>10, <1>12 DEF CountedInv

\* Steps that neither count nor make an operation.
LEMMA CountedQuiet ==
    ASSUME CountedInv, calls' = calls, CounterTypes', HistoriesAreFinite', CounterObjects', AllOps' \subseteq AllOps
    PROVE  CountedInv'
  BY DEF CountedInv

LEMMA CountedStep ==
    ASSUME CountedInv, Counter!Next \/ UNCHANGED replicaVars
    PROVE  CountedInv'
  <1>1. /\ applied \in [Nodes -> SUBSET Counter!Op] /\ unsent \in [Nodes -> SUBSET Counter!Op]
        /\ sent \in SUBSET Counter!Op /\ calls \in Nat
        /\ \A m \in Nodes : disk[m].applied \in SUBSET Counter!Op
        /\ \A m \in Nodes : IsFiniteSet(applied[m]) /\ IsFiniteSet(disk[m].applied)
    BY DEF CountedInv, CounterTypes, HistoriesAreFinite
  <1>2. /\ obj = [m \in Nodes |-> Counted(applied[m])]
        /\ disk = [m \in Nodes |-> [obj |-> Counted(disk[m].applied), applied |-> disk[m].applied]]
    BY DEF CountedInv, CounterObjects
  <1>3. ASSUME NEW n \in Nodes, NEW sign \in Counter!Signs, NEW delta \in Deltas, Counter!CounterChange(n, sign, delta)
        PROVE  CountedInv'
    <2> DEFINE op == [id |-> calls, origin |-> n, sign |-> sign, delta |-> delta]
    <2>1. op \in Counter!Op /\ op.id = calls
      BY <1>1 DEF Counter!Op
    <2>2. Counter!HostUpdate(n, op, Counter!increment(obj[n], op))
      BY <1>3 DEF Counter!CounterChange
    <2> HIDE DEF op
    <2>3. /\ Counter!PersistAndPublish(n, op, Counter!increment(obj[n], op)) /\ sent' = sent
          /\ unsent' = [unsent EXCEPT ![n] = @ \cup {op}] /\ calls' = calls + 1
      BY <2>2 DEF Counter!HostUpdate, Counter!Called
    <2>4. unsent' \in [Nodes -> SUBSET Counter!Op] /\ \A m \in Nodes : unsent'[m] \subseteq unsent[m] \cup {op}
      BY <1>1, <2>1, <2>3
    <2>5. calls' \in Nat /\ calls <= calls' /\ op.id < calls'
      BY <1>1, <2>1, <2>3
    <2>6. op \notin applied[n]
      <3>1. op \notin AllOps
        BY <1>1, <2>1 DEF CountedInv
      <3> QED BY <3>1, AllOpsMembers
    <2> QED BY <1>1, <2>1, <2>3, <2>4, <2>5, <2>6, CountedPublish
  <1>4. ASSUME NEW n \in Nodes, NEW op \in sent, Counter!ApplyRemoteCounter(n, op)
        PROVE  CountedInv'
    <2>1. /\ Counter!PersistAndPublish(n, op, Counter!increment(obj[n], op)) /\ op \notin applied[n]
          /\ unsent' = unsent /\ sent' = sent /\ calls' = calls
      BY <1>4 DEF Counter!ApplyRemoteCounter, Counter!RemoteUpdate
    <2>2. op \in Counter!Op /\ op \in AllOps
      BY <1>1, AllOpsMembers
    <2>3. op.id < calls' /\ calls' \in Nat /\ calls <= calls'
      BY <1>1, <2>1, <2>2 DEF CountedInv
    <2> QED BY <1>1, <2>1, <2>2, <2>3, CountedPublish
  <1>5. ASSUME NEW n \in Nodes, NEW op \in unsent[n], Counter!Send(n, op)
        PROVE  CountedInv'
    <2>1. /\ unsent' = [unsent EXCEPT ![n] = @ \ {op}] /\ sent' = sent \cup {op}
          /\ obj' = obj /\ applied' = applied /\ disk' = disk /\ calls' = calls
      BY <1>5 DEF Counter!Send
    <2>2. CounterTypes'
      BY <1>1, <1>5, <2>1 DEF CounterTypes
    <2>3. CounterObjects'
      BY <2>1 DEF CountedInv, CounterObjects
    <2>4. AllOps' \subseteq AllOps
      <3> SUFFICES ASSUME NEW o \in AllOps' PROVE o \in AllOps
        OBVIOUS
      <3>1. \A m \in Nodes : unsent'[m] \subseteq unsent[m]
        BY <1>1, <2>1
      <3>2. \/ o \in sent'
            \/ \E m \in Nodes : o \in applied'[m] \/ o \in unsent'[m] \/ o \in disk'[m].applied
        BY DEF AllOps
      <3> QED BY <1>5, <2>1, <3>1, <3>2, AllOpsMembers
    <2>5. HistoriesAreFinite'
      BY <1>1, <2>1 DEF HistoriesAreFinite
    <2> QED BY <2>1, <2>2, <2>3, <2>4, <2>5, CountedQuiet
  <1>6. ASSUME NEW n \in Nodes, Counter!Flush(n)
        PROVE  CountedInv'
    <2>1. /\ disk' = [disk EXCEPT ![n] = [obj |-> obj[n], applied |-> applied[n]]]
          /\ obj' = obj /\ applied' = applied /\ unsent' = unsent /\ sent' = sent /\ calls' = calls
      BY <1>6 DEF Counter!Flush
    <2> HIDE DEF Counted
    <2>2. \A m \in Nodes : \/ disk'[m] = disk[m]
                           \/ disk'[m] = [obj |-> obj[m], applied |-> applied[m]]
      BY <1>2, <2>1
    <2>3. disk' = [m \in Nodes |-> disk'[m]]
      BY <1>2, <2>1
    <2>4. CounterTypes'
      BY <1>1, <1>6, <2>1, <2>2 DEF CounterTypes
    <2>5. CounterObjects'
      <3>1. \A m \in Nodes : disk'[m] = [obj |-> Counted(disk'[m].applied), applied |-> disk'[m].applied]
        <4> SUFFICES ASSUME NEW m \in Nodes
                     PROVE  disk'[m] = [obj |-> Counted(disk'[m].applied), applied |-> disk'[m].applied]
          OBVIOUS
        <4>1. obj[m] = Counted(applied[m])
          BY <1>2
        <4>2. disk[m] = [obj |-> Counted(disk[m].applied), applied |-> disk[m].applied]
          BY <1>2
        <4>3. CASE disk'[m] = disk[m]
          BY <4>2, <4>3
        <4>4. CASE disk'[m] = [obj |-> obj[m], applied |-> applied[m]]
          BY <4>1, <4>4
        <4> QED BY <2>2, <4>3, <4>4
      <3>2. disk' = [m \in Nodes |-> [obj |-> Counted(disk'[m].applied), applied |-> disk'[m].applied]]
        BY <2>3, <3>1
      <3> QED BY <1>2, <2>1, <3>2 DEF CounterObjects
    <2>6. AllOps' \subseteq AllOps
      <3> SUFFICES ASSUME NEW o \in AllOps' PROVE o \in AllOps
        OBVIOUS
      <3>1. \/ o \in sent'
            \/ \E m \in Nodes : o \in applied'[m] \/ o \in unsent'[m] \/ o \in disk'[m].applied
        BY DEF AllOps
      <3> QED BY <2>1, <2>2, <3>1, AllOpsMembers
    <2>7. HistoriesAreFinite'
      BY <1>1, <2>1, <2>2 DEF HistoriesAreFinite
    <2> QED BY <2>1, <2>4, <2>5, <2>6, <2>7, CountedQuiet
  <1>7. ASSUME NEW n \in Nodes, Counter!Crash(n)
        PROVE  CountedInv'
    <2>1. /\ obj' = [obj EXCEPT ![n] = disk[n].obj] /\ applied' = [applied EXCEPT ![n] = disk[n].applied]
          /\ unsent' = [unsent EXCEPT ![n] = {}] /\ disk' = disk /\ sent' = sent /\ calls' = calls
      BY <1>7 DEF Counter!Crash
    <2> HIDE DEF Counted
    <2>2. \A m \in Nodes : /\ \/ obj'[m] = obj[m] /\ applied'[m] = applied[m]
                              \/ obj'[m] = Counted(disk[m].applied) /\ applied'[m] = disk[m].applied
                           /\ unsent'[m] \subseteq unsent[m]
      BY <1>1, <1>2, <2>1
    <2>3. obj' = [m \in Nodes |-> obj'[m]]
      BY <1>2, <2>1
    <2>4. CounterTypes'
      BY <1>1, <1>7, <2>1, <2>2 DEF CounterTypes
    <2>5. CounterObjects'
      <3>1. \A m \in Nodes : obj'[m] = Counted(applied'[m])
        BY <1>2, <2>2
      <3>2. obj' = [m \in Nodes |-> Counted(applied'[m])]
        BY <2>3, <3>1
      <3> QED BY <1>2, <2>1, <3>2 DEF CounterObjects
    <2>6. AllOps' \subseteq AllOps
      <3> SUFFICES ASSUME NEW o \in AllOps' PROVE o \in AllOps
        OBVIOUS
      <3>1. \/ o \in sent'
            \/ \E m \in Nodes : o \in applied'[m] \/ o \in unsent'[m] \/ o \in disk'[m].applied
        BY DEF AllOps
      <3> QED BY <2>1, <2>2, <3>1, AllOpsMembers
    <2>7. HistoriesAreFinite'
      BY <1>1, <2>1, <2>2 DEF HistoriesAreFinite
    <2> QED BY <2>1, <2>4, <2>5, <2>6, <2>7, CountedQuiet
  <1>8. CASE UNCHANGED replicaVars
    <2>1. obj' = obj /\ applied' = applied /\ disk' = disk /\ unsent' = unsent /\ sent' = sent /\ calls' = calls
      BY <1>8 DEF replicaVars
    <2>2. AllOps' = AllOps
      BY <2>1 DEF AllOps
    <2>3. CounterTypes' /\ HistoriesAreFinite'
      BY <2>1 DEF CountedInv, CounterTypes, HistoriesAreFinite
    <2>4. CounterObjects'
      BY <1>2, <2>1 DEF CounterObjects
    <2> QED BY <2>1, <2>2, <2>3, <2>4, CountedQuiet
  <1>9. CASE Counter!Next
    BY <1>3, <1>4, <1>5, <1>6, <1>7, <1>9 DEF Counter!Next
  <1> QED BY <1>8, <1>9

-----------------------------------------------------------------------------
(* All types. *)

\* A behaviour follows a key of one type.
LEMMA KindInit ==
    ASSUME Init
    PROVE  /\ kind = "LwwRegister" => Register!Init
           /\ kind = "LwwMap" => Map!Init
           /\ kind = "ORSet" => Set!Init
           /\ kind = "PNCounter" => Counter!Init
           /\ kind = "Rga" => Sequence!Init
  BY DEF Init

LEMMA KindStep ==
    ASSUME [Next]_vars
    PROVE  /\ kind' = kind
           /\ kind = "LwwRegister" => Register!Next \/ UNCHANGED <<replicaVars, clock>>
           /\ kind = "LwwMap" => Map!Next \/ UNCHANGED replicaVars
           /\ kind = "ORSet" => Set!Next \/ UNCHANGED replicaVars
           /\ kind = "PNCounter" => Counter!Next \/ UNCHANGED replicaVars
           /\ kind = "Rga" => Sequence!Next \/ UNCHANGED <<replicaVars, drawn>>
  BY DEF Next, vars

LEMMA LwwInit ==
    ASSUME Init
    PROVE  LwwInv
  BY KindInit, RegisterInvInit, MapInvInit DEF LwwInv

LEMMA LwwStep ==
    ASSUME LwwInv, ~RegisterWriteBehind, [Next]_vars
    PROVE  LwwInv'
  <1>1. CASE kind = "LwwRegister"
    <2>1. Register!RegisterInv'
      BY <1>1, KindStep, RegisterInvStep DEF LwwInv
    <2> QED BY <1>1, <2>1, KindStep DEF LwwInv
  <1>2. CASE kind = "LwwMap"
    <2>1. Map!WinnersInv'
      BY <1>2, KindStep, MapInvStep DEF LwwInv
    <2> QED BY <1>2, <2>1, KindStep DEF LwwInv
  <1>3. CASE kind # "LwwRegister" /\ kind # "LwwMap"
    BY <1>3, KindStep DEF LwwInv
  <1> QED BY <1>1, <1>2, <1>3

\* Where a crash loses no write of a register, the register holds the one write
\* that beats all it has applied, no two writes share a stamp, and every field
\* of a map, in memory and on disk, holds the entry that beats all others
\* applied to it (candidate_wins, entry_wins and the stamps of crdt_lww_set).
THEOREM EveryReplicaHoldsTheWinner ==
    ASSUME ~RegisterWriteBehind
    PROVE  Spec => []LwwInv
  <1>1. Init => LwwInv
    BY LwwInit
  <1>2. LwwInv /\ [Next]_vars => LwwInv'
    BY LwwStep
  <1> QED
    BY <1>1, <1>2, PTL DEF Spec

\* A set's tables are a function of the operations applied, whatever a crash
\* loses, and an element is in it exactly if some add of it was not observed by
\* any remove of it (ORSet's apply_add, apply_remove and contains).
THEOREM EverySetFollowsTheRule == Spec => []SetInv
  <1>1. Init => SetInv
    BY KindInit, SetInvInit, SetInvGivesRule DEF SetInv
  <1>2. ASSUME SetInv, [Next]_vars PROVE SetInv'
    <2>1. CASE kind = "ORSet"
      <3>1. Set!TablesInv'
        BY <1>2, <2>1, KindStep, SetInvStep DEF SetInv
      <3>2. Set!ContainsObservedRemove'
        BY <3>1, SetInvGivesRule, PTL
      <3> QED BY <3>1, <3>2 DEF SetInv
    <2>2. CASE kind # "ORSet"
      BY <1>2, <2>2, KindStep DEF SetInv
    <2> QED BY <2>1, <2>2
  <1>3. SetInv /\ [Next]_vars => SetInv'
    BY <1>2
  <1> QED
    BY <1>1, <1>3, PTL DEF Spec

\* A guest's step on a register leaves its own write in it.
LEMMA RegisterShowsWrites ==
    ASSUME Register!RegisterInv, Register!Next \/ UNCHANGED <<replicaVars, clock>>
    PROVE  Register!ReadsItsWrite
  <1> SUFFICES ASSUME NEW n \in Nodes, NEW op \in unsent'[n] \ unsent[n] PROVE obj'[n] = op
    BY DEF Register!ReadsItsWrite
  <1>1. Register!TypeOK
    BY DEF Register!RegisterInv
  <1>2. /\ obj \in [Nodes -> Register!Register \cup {Register!NoRegister}]
        /\ unsent \in [Nodes -> SUBSET Register!Register]
    BY <1>1 DEF Register!TypeOK, Register!ReplicaTypeOK
  <1>3. ASSUME NEW m \in Nodes, NEW v \in Values, NEW now \in 0..(MaxTime + 2), Register!LwwSet(m, v, now)
        PROVE  obj'[n] = op
    <2> DEFINE c == [value |-> v, timestamp_ms |-> Register!Stamp(obj[m].timestamp_ms, now), writer |-> m]
    <2>1. now \in Nat
      BY LwwAssumption
    <2>2. c.timestamp_ms > obj[m].timestamp_ms
      BY <1>1, <2>1, RegisterStampFacts
    <2>3. Register!Assign(obj[m], c) = c
      BY <2>2 DEF Register!Assign, Register!candidate_wins
    <2>4. Register!HostUpdate(m, c, c)
      BY <1>3, <2>3 DEF Register!LwwSet
    <2> HIDE DEF c
    <2>5. obj' = [obj EXCEPT ![m] = c] /\ unsent' = [unsent EXCEPT ![m] = @ \cup {c}]
      BY <2>4 DEF Register!HostUpdate, Register!PersistAndPublish
    <2> QED BY <1>2, <2>5
  <1>4. ASSUME NEW m \in Nodes, NEW o \in sent, Register!apply_remote_lww_register_set(m, o) PROVE FALSE
    BY <1>4 DEF Register!apply_remote_lww_register_set, Register!RemoteUpdate
  <1>5. ASSUME NEW m \in Nodes, NEW o \in unsent[m], Register!Send(m, o) PROVE FALSE
    BY <1>2, <1>5 DEF Register!Send
  <1>6. ASSUME NEW m \in Nodes, Register!Flush(m) PROVE FALSE
    BY <1>6 DEF Register!Flush
  <1>7. ASSUME NEW m \in Nodes, Register!Restart(m) PROVE FALSE
    BY <1>2, <1>7 DEF Register!Restart, Register!Crash
  <1>8. CASE UNCHANGED <<replicaVars, clock>>
    BY <1>8 DEF replicaVars
  <1>9. CASE Register!Next
    BY <1>3, <1>4, <1>5, <1>6, <1>7, <1>9 DEF Register!Next
  <1> QED BY <1>8, <1>9

\* A guest's step on a map leaves its own entry in the field.
LEMMA MapShowsWrites ==
    ASSUME Map!WinnersInv, Map!Next \/ UNCHANGED replicaVars
    PROVE  Map!ReadsItsWrite
  <1> SUFFICES ASSUME NEW n \in Nodes, NEW op \in unsent'[n] \ unsent[n] PROVE obj'[n][op.field] = op.entry
    BY DEF Map!ReadsItsWrite
  <1>1. Map!TypeOK
    BY DEF Map!WinnersInv
  <1>2. obj \in [Nodes -> Map!Map] /\ unsent \in [Nodes -> SUBSET Map!Op]
    BY <1>1 DEF Map!TypeOK, Map!ReplicaTypeOK
  <1>3. ASSUME NEW m \in Nodes, NEW f \in Fields, NEW v, NEW now \in 0..MaxTime, Map!HostWrite(m, f, v, now)
        PROVE  obj'[n][op.field] = op.entry
    <2> DEFINE e == [value |-> v, timestamp_ms |-> Map!Stamp(obj[m][f].timestamp_ms, now), writer |-> m]
               c == [field |-> f, entry |-> e]
    <2>1. now \in Nat
      BY LwwAssumption
    <2>2. e.timestamp_ms > obj[m][f].timestamp_ms
      <3>1. obj[m][f] \in Map!Entry \cup {Map!NoEntry}
        BY <1>2 DEF Map!Map
      <3>2. obj[m][f].timestamp_ms \in Int
        BY <3>1 DEF Map!Entry, Map!NoEntry, Map!NoTime
      <3> QED BY <2>1, <3>2 DEF Map!Stamp
    <2>3. Map!apply_entry(obj[m], c) = [obj[m] EXCEPT ![f] = e]
      BY <2>2 DEF Map!apply_entry, Map!entry_wins
    <2>4. Map!HostUpdate(m, c, [obj[m] EXCEPT ![f] = e])
      BY <1>3, <2>3 DEF Map!HostWrite
    <2> HIDE DEF e
    <2>5. /\ obj' = [obj EXCEPT ![m] = [obj[m] EXCEPT ![f] = e]]
          /\ unsent' = [unsent EXCEPT ![m] = @ \cup {c}]
      BY <2>4 DEF Map!HostUpdate, Map!PersistAndPublish
    <2>6. n = m /\ op = c
      BY <1>2, <2>5
    <2>7. obj'[n] = [obj[m] EXCEPT ![f] = e] /\ obj[m] \in Map!Map
      BY <1>2, <2>5, <2>6
    <2> QED BY <2>6, <2>7 DEF Map!Map
  <1>4. ASSUME NEW m \in Nodes, NEW o \in sent, Map!ApplyRemoteLwwMap(m, o) PROVE FALSE
    BY <1>4 DEF Map!ApplyRemoteLwwMap, Map!RemoteUpdate
  <1>5. ASSUME NEW m \in Nodes, NEW o \in unsent[m], Map!Send(m, o) PROVE FALSE
    BY <1>2, <1>5 DEF Map!Send
  <1>6. ASSUME NEW m \in Nodes, Map!Flush(m) PROVE FALSE
    BY <1>6 DEF Map!Flush
  <1>7. ASSUME NEW m \in Nodes, Map!Crash(m) PROVE FALSE
    BY <1>2, <1>7 DEF Map!Crash
  <1>8. CASE UNCHANGED replicaVars
    BY <1>8 DEF replicaVars
  <1>9. CASE Map!Next
    BY <1>3, <1>4, <1>5, <1>6, <1>7, <1>9 DEF Map!Next, Map!LwwMapSet, Map!LwwMapRemove
  <1> QED BY <1>8, <1>9

\* A step in which a guest writes or removes leaves its write in the register or
\* the field, against peers whose clocks are ahead and its own stepping back
\* (the stamp of crdt_lww_set, crdt_lww_map_set and crdt_lww_map_remove).
THEOREM EveryGuestReadsItsWrite ==
    ASSUME ~RegisterWriteBehind
    PROVE  Spec => WriteIsVisible
  <1>1. Spec => []LwwInv
    BY EveryReplicaHoldsTheWinner
  <1>2. LwwInv /\ [Next]_vars => [/\ kind = "LwwRegister" => Register!ReadsItsWrite
                                  /\ kind = "LwwMap" => Map!ReadsItsWrite]_vars
    BY KindStep, RegisterShowsWrites, MapShowsWrites DEF LwwInv
  <1> QED
    BY <1>1, <1>2, PTL DEF Spec, WriteIsVisible

\* Below the width nothing wraps around.
LEMMA NoWrap ==
    ASSUME NEW p \in Nat, NEW q \in Nat, p < q
    PROVE  p % q = p
  OBVIOUS

\* The number of a range that is nearest to d.
LEMMA NearestIsClamped ==
    ASSUME NEW h \in Nat \ {0}, NEW d \in Int
    PROVE  (IF d < -h THEN -h ELSE IF d > h - 1 THEN h - 1 ELSE d) =
             CHOOSE v \in -h..(h - 1) : \A u \in -h..(h - 1) : Counter!AbsDiff(v, d) <= Counter!AbsDiff(u, d)
  <1> DEFINE range == -h..(h - 1)
             near(v) == \A u \in range : Counter!AbsDiff(v, d) <= Counter!AbsDiff(u, d)
             c == IF d < -h THEN -h ELSE IF d > h - 1 THEN h - 1 ELSE d
  <1>1. c \in range /\ near(c)
    BY DEF Counter!AbsDiff
  <1>2. \A v \in range : near(v) => v = c
    <2> SUFFICES ASSUME NEW v \in range, near(v) PROVE v = c
      OBVIOUS
    <2>1. Counter!AbsDiff(v, d) <= Counter!AbsDiff(c, d)
      <3> HIDE DEF c, range
      <3> QED BY <1>1
    <2> QED BY <2>1 DEF Counter!AbsDiff
  <1> HIDE DEF c, near, range
  <1>3. c = CHOOSE v \in range : near(v)
    BY <1>1, <1>2
  <1> QED BY <1>3 DEF c, near, range

LEMMA CountedGivesValue ==
    ASSUME CountedInv
    PROVE  Counter!SlotIsSaturatedSum /\ Counter!ValueIsClampedDifference
  <1>1. Counter!SlotIsSaturatedSum
    BY DEF CountedInv, CounterObjects, Counted, Saturated, Counter!SlotIsSaturatedSum
  <1> DEFINE h == 2^(Width - 1)
             q == 2^Width
  <1>2. h \in Nat \ {0} /\ q \in Nat \ {0}
    BY CrdtsAssumption
  <1>3. ASSUME NEW n \in Nodes, NEW sign \in Counter!Signs PROVE Counter!SumFunction(obj[n][sign]) \in Nat
    <2>1. obj[n][sign] = [m \in Nodes |-> Saturated(Counter!Total(applied[n], m, sign))]
      BY DEF CountedInv, CounterObjects, Counted
    <2>2. applied[n] \in SUBSET Counter!Op /\ IsFiniteSet(applied[n])
      BY DEF CountedInv, CounterTypes, HistoriesAreFinite
    <2>3. \A m \in Nodes : Saturated(Counter!Total(applied[n], m, sign)) \in Nat
      BY <2>2, TotalType, MaxSlotType DEF Saturated
    <2>4. obj[n][sign] \in [Nodes -> Nat]
      BY <2>1, <2>3
    <2> QED BY <2>4, SumType, CrdtsAssumption
  <1> SUFFICES ASSUME NEW n \in Nodes,
                      Counter!SumFunction(obj[n]["positive"]) <= Counter!MaxSlot,
                      Counter!SumFunction(obj[n]["negative"]) <= Counter!MaxSlot
               PROVE  Counter!pncounter_value(obj[n]) =
                        CHOOSE v \in -h..(h - 1) : \A u \in -h..(h - 1) :
                            Counter!AbsDiff(v, Counter!SumFunction(obj[n]["positive"]) - Counter!SumFunction(obj[n]["negative"]))
                              <= Counter!AbsDiff(u, Counter!SumFunction(obj[n]["positive"]) - Counter!SumFunction(obj[n]["negative"]))
    BY <1>1 DEF Counter!ValueIsClampedDifference
  <1> DEFINE plus == Counter!SumFunction(obj[n]["positive"])
             minus == Counter!SumFunction(obj[n]["negative"])
  <1>4. plus \in Nat /\ minus \in Nat
    BY <1>3 DEF Counter!Signs
  <1>5. plus <= q - 1 /\ minus <= q - 1
    BY DEF Counter!MaxSlot
  <1>6. Counter!pncounter_value(obj[n]) = Counter!clamp((plus % q) - (minus % q))
    BY DEF Counter!pncounter_value, Counter!gcounter_value
  <1>7. \A d : Counter!clamp(d) = IF d < -h THEN -h ELSE IF d > h - 1 THEN h - 1 ELSE d
    BY DEF Counter!clamp
  <1> HIDE DEF plus, minus, h, q
  <1>8. plus % q = plus /\ minus % q = minus
    BY <1>2, <1>4, <1>5, NoWrap
  <1>9. plus - minus \in Int
    BY <1>4
  <1>10. Counter!pncounter_value(obj[n]) =
            CHOOSE v \in -h..(h - 1) : \A u \in -h..(h - 1) :
                Counter!AbsDiff(v, plus - minus) <= Counter!AbsDiff(u, plus - minus)
    BY <1>2, <1>6, <1>7, <1>8, <1>9, NearestIsClamped
  <1> QED BY <1>10 DEF plus, minus

\* A slot of a counter holds the saturated sum of its node's increments, in any
\* order of deliveries and whatever a crash loses, and the value of a PNCounter
\* is the difference nearest to the true one (GCounter::increment, PNCounter::value),
\* for any finite set of nodes and any width.
THEOREM EveryCounterIsExact == Spec => []CounterInv
  <1> DEFINE Inv == kind = "PNCounter" => CountedInv
  <1>1. Init => Inv
    BY KindInit, CountedInit
  <1>2. ASSUME Inv, [Next]_vars PROVE Inv'
    BY <1>2, KindStep, CountedStep
  <1>3. Inv => CounterInv
    BY CountedGivesValue DEF CounterInv
  <1>4. Inv /\ [Next]_vars => Inv'
    BY <1>2
  <1> HIDE DEF Inv
  <1> QED
    BY <1>1, <1>3, <1>4, PTL DEF Spec

\* Replicas that have applied the same operations hold the same object, for each
\* of the types, any number of nodes, any clocks, any order and repetition of
\* deliveries and any crashes, of which those of registers lose no write.
THEOREM EveryTypeConverges ==
    ASSUME ~RegisterWriteBehind
    PROVE  Spec => []SameOpsSameObject
  <1> DEFINE Inv == /\ kind \in Kinds
                    /\ kind = "PNCounter" => CountedInv
                    /\ kind = "Rga" => ArrivedInv
  <1>1. Spec => []LwwInv /\ []SetInv
    BY EveryReplicaHoldsTheWinner, EverySetFollowsTheRule, PTL
  <1>2. Init => Inv
    BY KindInit, CountedInit, ArrivedInit DEF Init
  <1>3. ASSUME Inv, [Next]_vars PROVE Inv'
    BY <1>3, KindStep, CountedStep, ArrivedStep
  <1>4. Inv /\ [Next]_vars => Inv'
    BY <1>3
  <1>5. Inv /\ LwwInv /\ SetInv => SameOpsSameObject
    <2> SUFFICES ASSUME Inv, LwwInv, SetInv PROVE SameOpsSameObject
      OBVIOUS
    <2>1. CASE kind = "LwwRegister"
      BY <2>1, RegisterInvConverges DEF LwwInv
    <2>2. CASE kind = "LwwMap"
      BY <2>2, MapInvConverges DEF LwwInv
    <2>3. CASE kind = "ORSet"
      BY <2>3 DEF SetInv, Set!TablesInv, SameOpsSameObject
    <2>4. CASE kind = "PNCounter"
      BY <2>4 DEF CountedInv, CounterObjects, SameOpsSameObject
    <2>5. CASE kind = "Rga"
      BY <2>5 DEF ArrivedInv, SequenceObjects, SameOpsSameObject
    <2>6. kind \in {"LwwRegister", "LwwMap", "ORSet", "PNCounter", "Rga"}
      BY CrdtsAssumption
    <2> QED BY <2>1, <2>2, <2>3, <2>4, <2>5, <2>6
  <1> HIDE DEF Inv
  <1> QED
    BY <1>1, <1>2, <1>4, <1>5, PTL DEF Spec
=============================================================================
