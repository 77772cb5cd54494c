-------------------------------- MODULE Node --------------------------------
(***************************************************************************)
(* The parts of one node around the replication: the process's life, the   *)
(* schema migration, the reconnect loop, the management API, the walks     *)
(* over keys, the guests' calls, the settings of the command line, the     *)
(* frames of a connection and the hand-written encodings.  They meet in    *)
(* the store, of which each uses keys of its own, and in the order of      *)
(* start and shutdown; a behaviour is one of a single part.                *)
(***************************************************************************)
EXTENDS Integers, Sequences, FiniteSets

CONSTANTS
    Kinds,                                                       \* the parts that behaviours start from
    MaxCrashes, MaxWrites, MaxCap,                               \* shared bounds
    Tables, Registry, Rows, Options,                             \* Migration
    Offers, MaxPeers, MaxOthers, InitialDelay, MaxDelay,         \* Reconnect
    RetryAfters, DeadAfter, EventCapacity,
    Keys, EmptyKey, Reserved, SizeOf, PageLimits, ScanLimit,     \* Walk
    MaxBody, FirstCap,
    MaxValueLen, SmallCap, LargeCap, IdSize, RowSize, MaxRows,   \* GuestCalls
    MaxChanges, QueueLimit,
    Requests, Modules, Permits, MaxFlushFailures, MaxRequests,   \* Management
    NoRequest, NoModule,
    Providers, Ops, BatchMax,                                    \* Lifecycle
    SettingGroups, MaxSettings, DefaultCandidates,               \* Config
    MaxBootstrapCandidates,
    Payload, Checked, Senders, MaxMessageSize, SocketBuffer,     \* Frames
    MaxCells, MaxField, MaxItems                                 \* Encodings

ASSUME ApiAssumption ==
    /\ IsFiniteSet(Requests)
    /\ NoRequest \notin Requests
    /\ Permits \in Nat

VARIABLES
    kind,                                                        \* the part of this behaviour
    recoverable, crashes,                                        \* of Migration and Management
    changed,                                                     \* of Reconnect and Walk
    disk, session, options, outcome, writes,                     \* of Migration
    offered, peers, health, linked, others, notices, pass,       \* of Reconnect
    timer, silence,
    collection, client, stable, ever,                            \* of Walk
    entry, sizes, rows, sequence, sent, queued, call, tries,     \* of GuestCalls
    changes,
    request, permits, registry, lock, server, acked, begun,      \* of Management
    failures,
    command, at, error, discovery_error, provider, listening,    \* of Lifecycle
    tasks, signalled, ready, serving, op, flushed,
    settings, effective,                                         \* of Config
    prefers, sender, writer_lock, open, stream, order, reader,   \* of Frames
    layout, buffer, origin, parsed                               \* of Encodings

Schema == INSTANCE Migration WITH Keys <- Rows, MaxWrites <- 1
Peers == INSTANCE Reconnect
Pages == INSTANCE Walk
Guest == INSTANCE GuestCalls
Api == INSTANCE Management
Process == INSTANCE Lifecycle WITH QueueLimit <- QueueLimit + 1
Settings == INSTANCE Config
Wire == INSTANCE Frames WITH lock <- writer_lock
Codec == INSTANCE Encodings

\* Discovery publishes every address once; the delays are durations.
ASSUME PeersAssumption ==
    /\ \A list \in Offers :
          /\ list \in Seq(Peers!Addresses)
          /\ \A i, j \in DOMAIN list : list[i] = list[j] => i = j
    /\ {InitialDelay, MaxDelay} \union RetryAfters \subseteq Nat

\* The SDK's buffers double from the first ones to exactly the largest, which
\* holds every value that the host accepts.
ASSUME BuffersAssumption ==
    /\ {MaxCap, MaxRows, RowSize, IdSize, MaxChanges} \subseteq Nat
    /\ MaxValueLen \in 0 .. MaxCap
    /\ \E ladder \in SUBSET (1 .. MaxCap) :
          /\ {SmallCap, LargeCap} \subseteq ladder
          /\ \A cap \in ladder : cap = MaxCap \/ 2 * cap \in ladder

\* The registry has one step from every version of a table to the next, keys are
\* positive numbers, and a batch may take at least one record.
ASSUME SchemaAssumption ==
    /\ Tables \in Seq(Schema!AllTables)
    /\ \A t \in Schema!AllTables :
          /\ Registry[t] \in Seq([from : Nat, to : Nat, rewrite : BOOLEAN])
          /\ Schema!validate_migration_path(t)
    /\ IsFiniteSet(Rows) /\ Rows \subseteq Nat \ {0}
    /\ Options \subseteq [max_records : Nat \ {0}, max_bytes : Nat]

\* Keys are numbered in the order of the store from the empty one, and every
\* page may hold an item, those of the SDK more than one.
ASSUME WalkAssumption ==
    /\ IsFiniteSet(Keys) /\ Keys \subseteq Nat \ {0} /\ Reserved \subseteq Keys
    /\ \A k \in Keys : EmptyKey <= k
    /\ SizeOf \in [Keys -> Nat]
    /\ {MaxBody, EmptyKey, ScanLimit, FirstCap} \subseteq Nat /\ ScanLimit > 1
    /\ PageLimits \subseteq Nat \ {0}

\* A mode is one of the modes and other values are numbers, and a flag that is a
\* path is not empty: the parser of the command line refuses it.
ASSUME SettingsAssumption ==
    /\ \A choice \in SettingGroups : \A s \in choice :
          /\ s.layer \in {"cli", "env", "file"}
          /\ IF s.field = "mode" THEN s.value \in Settings!Modes ELSE s.value \in Nat
          /\ s.layer = "cli" /\ s.field = "ca" => s.value # 0
    /\ DefaultCandidates \in Nat

\* Length and format byte of a JSON frame are control characters, which a JSON
\* text has none of; every message has a cell that decoding checks.
ASSUME FramesAssumption ==
    /\ \A m, n \in DOMAIN Checked : \A i \in 1 .. Len(Payload.Json[m]) :
          Payload.Json[m][i] \notin {1, 2, 1 + Len(Payload.Json[n])}
    /\ \A m \in DOMAIN Checked : Checked[m] \in 1 .. Len(Payload.Bincode[m])

ofMigration == <<disk, session, options, outcome, writes>>
ofReconnect == <<offered, peers, health, linked, others, notices, pass, timer, silence>>
ofWalk == <<collection, client, stable, ever>>
ofGuest == <<entry, sizes, rows, sequence, sent, queued, call, tries, changes>>
ofApi == <<request, permits, registry, lock, server, acked, begun, failures>>
ofProcess == <<command, at, error, discovery_error, provider, listening, tasks, signalled, ready, serving, op, flushed>>
ofConfig == <<settings, effective>>
ofFrames == <<prefers, sender, writer_lock, open, stream, order, reader>>
ofEncodings == <<layout, buffer, origin, parsed>>
ofRest == <<ofConfig, ofFrames, ofEncodings>>
ofNode == <<recoverable, crashes, changed, ofMigration, ofReconnect, ofWalk, ofGuest, ofApi, ofProcess>>
allVars == <<kind, ofNode, ofRest>>

\* The variables of a part that takes no step, at rest.
NoMigration == disk = 0 /\ session = "closed" /\ options = 0 /\ outcome = "none" /\ writes = 0
NoReconnect ==
    /\ offered = <<>> /\ peers = <<>> /\ health = <<>> /\ linked = {} /\ others = 0 /\ notices = <<>>
    /\ pass = Peers!Asleep /\ timer = 0 /\ silence = 0
NoWalk == collection = {} /\ client = 0 /\ stable = {} /\ ever = {}
NoGuest ==
    /\ entry = 0 /\ sizes = 0 /\ rows = 0 /\ sequence = {} /\ sent = {} /\ queued = 0
    /\ call = 0 /\ tries = 0 /\ changes = 0
NoApi ==
    /\ request = 0 /\ permits = 0 /\ registry = 0 /\ lock = 0 /\ server = "closed"
    /\ acked = 0 /\ begun = 0 /\ failures = 0
NoProcess ==
    /\ command = "none" /\ at = "none" /\ error = FALSE /\ discovery_error = FALSE /\ provider = 0
    /\ listening = FALSE /\ tasks = {} /\ signalled = FALSE /\ ready = FALSE /\ serving = {}
    /\ op = 0 /\ flushed = {}
NoConfig == settings = {} /\ effective = 0
NoFrames ==
    /\ prefers = 0 /\ sender = 0 /\ writer_lock = 0 /\ open = FALSE /\ stream = <<>> /\ order = <<>>
    /\ reader = 0
NoEncodings == layout = "none" /\ buffer = <<>> /\ origin = {} /\ parsed = <<>>

Init ==
    /\ kind \in Kinds
    /\ IF kind = "migration" THEN Schema!MigrationInit ELSE NoMigration
    /\ IF kind = "reconnect" THEN Peers!ReconnectInit ELSE NoReconnect
    /\ IF kind = "walk" THEN Pages!WalkInit ELSE NoWalk
    /\ IF kind = "guest" THEN Guest!GuestInit ELSE NoGuest
    /\ IF kind = "api" THEN Api!ManagementInit ELSE NoApi
    /\ IF kind = "process" THEN Process!LifecycleInit ELSE NoProcess
    /\ IF kind = "config" THEN Settings!ConfigInit ELSE NoConfig
    /\ IF kind = "frames" THEN Wire!FramesInit ELSE NoFrames
    /\ IF kind = "codec" THEN Codec!EncodingsInit ELSE NoEncodings
    /\ kind \notin {"migration", "api"} => recoverable = {} /\ crashes = 0
    /\ kind \notin {"reconnect", "walk"} => changed = 0

Next ==
    /\ UNCHANGED kind
    /\ \/ /\ kind = "migration" /\ Schema!MigrationNext
          /\ UNCHANGED <<changed, ofReconnect, ofWalk, ofGuest, ofApi, ofProcess, ofRest>>
       \/ /\ kind = "reconnect" /\ Peers!ReconnectNext
          /\ UNCHANGED <<recoverable, crashes, ofMigration, ofWalk, ofGuest, ofApi, ofProcess, ofRest>>
       \/ /\ kind = "walk" /\ Pages!WalkNext
          /\ UNCHANGED <<recoverable, crashes, ofMigration, ofReconnect, ofGuest, ofApi, ofProcess, ofRest>>
       \/ /\ kind = "guest" /\ Guest!GuestNext
          /\ UNCHANGED <<recoverable, crashes, changed, ofMigration, ofReconnect, ofWalk, ofApi, ofProcess, ofRest>>
       \/ /\ kind = "api" /\ Api!ManagementNext
          /\ UNCHANGED <<changed, ofMigration, ofReconnect, ofWalk, ofGuest, ofProcess, ofRest>>
       \/ /\ kind = "process" /\ Process!LifecycleNext
          /\ UNCHANGED <<recoverable, crashes, changed, ofMigration, ofReconnect, ofWalk, ofGuest, ofApi, ofRest>>
       \/ /\ kind = "config" /\ Settings!ConfigNext
          /\ UNCHANGED <<ofNode, ofFrames, ofEncodings>>
       \/ /\ kind = "frames" /\ Wire!FramesNext
          /\ UNCHANGED <<ofNode, ofConfig, ofEncodings>>
       \/ /\ kind = "codec" /\ Codec!EncodingsNext
          /\ UNCHANGED <<ofNode, ofConfig, ofFrames>>

reconnectVars == Peers!reconnectVars
lifecycleVars == Process!lifecycleVars

\* The reconnect loop is a task that the executor runs, its dials end by their
\* timeout, time passes however often candidates change, and the event loop
\* takes its events.  In the process real_main goes on and its timers fire;
\* nothing is assumed of the tasks and of the guests.
Fairness ==
    /\ WF_reconnectVars(kind = "reconnect" /\ Peers!LoopStep)
    /\ SF_reconnectVars(kind = "reconnect" /\ pass = Peers!Asleep /\ (Peers!Tick \/ Peers!WakeUp))
    /\ WF_reconnectVars(kind = "reconnect" /\ Peers!HandleNotice)
    /\ WF_lifecycleVars(kind = "process" /\ Process!Main)
    /\ WF_lifecycleVars(kind = "process" /\ Process!Expire)

Spec == Init /\ [][Next]_allVars /\ Fairness

-----------------------------------------------------------------------------
(* The properties of the single parts, each explained in its module.       *)

\* Migration: records are rewritten once and a session can always be resumed (MigrationInv there).
MigrationInv == kind = "migration" => Schema!MigrationInv

\* Migration: every batch brings the session nearer to its end (EveryBatchAdvances there).
EveryBatchAdvances == Schema!EveryBatchAdvances

\* Reconnect: a candidate is dialled again and again while a slot is free (CandidateIsDialled there).
CandidateIsDialled == Peers!CandidateIsDialled

\* Reconnect: no dial before its backoff is over, health of the candidates only (ReconnectInv there).
ReconnectInv == kind = "reconnect" => Peers!ReconnectInv

\* Walk: pages miss nothing that stayed and show nothing twice (WalkIsSound there).
WalkIsSound == kind = "walk" => Pages!WalkIsSound

\* GuestCalls: a call has its effect once and returns whole values (CallsAreFaithful there).
CallsAreFaithful == kind = "guest" => Guest!CallsAreFaithful

\* Management: modules are whole, answers durable, a closed server quiet (ApiInv there).
ApiInv == kind = "api" => Api!ApiInv

\* Lifecycle: rollback, readiness, drain and exit keep their promises (ProcessInv there).
ProcessInv == kind = "process" => Process!ProcessInv

\* Lifecycle: every shutdown ends (ShutdownEnds there).
ShutdownEnds == Process!ShutdownEnds

\* Config: the layers combine to one consistent configuration (SettingsAgree there).
SettingsAgree == kind = "config" => Settings!SettingsAgree

\* Frames: the peer reads whole messages in the order of their frames (FramesArrive there).
FramesArrive == kind = "frames" => Wire!FramesArrive

\* Encodings: the two sides of a layout agree (EncodingsAgree there).
EncodingsAgree == kind = "codec" => Codec!EncodingsAgree
=============================================================================
