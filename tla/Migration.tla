----------------------------- MODULE Migration -----------------------------
(***************************************************************************)
(* The schema of the sync tables and its offline migration: a session      *)
(* holds the store's write lease and migrates in batches, each one atomic  *)
(* write of records and checkpoint, until every table carries the header   *)
(* of its current version.  The process may crash between batches and lose *)
(* what was not flushed; a node serves only a store whose headers are      *)
(* current.  A record is whether it parses, and how often it was rewritten.*)
(***************************************************************************)
EXTENDS StoreScan, SequencesExt

CONSTANTS
    Tables,       \* sequence of the tables, in the order of StoreTable::ALL
    Registry,     \* per table its steps: [from, to, rewrite]
    Keys,         \* numbers: the keys a table may hold
    Options,      \* the batch limits a run may be given: [max_records, max_bytes]
    MaxCrashes,   \* bound
    MaxWrites     \* bound: writes of a serving node

VARIABLES
    disk,         \* [header, checkpoint, rows], each per table
    recoverable,  \* the states that a crash may fall back to
    session,      \* "closed", "lease" or "serving"
    options,      \* batch limits of the session
    outcome,      \* how the last session ended or was refused
    crashes, writes

migrationVars == <<disk, recoverable, session, options, outcome, crashes, writes>>

AllTables == ToSet(Tables)
current_version(t) == Len(Registry[t])
NoCheckpoint == [from |-> 0, to |-> 0, last |-> 0]

\* A record in version v has been through the rewriting steps up to v.
FormAt(t, v) == Cardinality({i \in DOMAIN Registry[t] : Registry[t][i].to <= v /\ Registry[t][i].rewrite})

Row(parses, form) == [parses |-> parses, form |-> form]
RowBytes(row) == 2 + row.form

-----------------------------------------------------------------------------
(* The registry of steps.                                                  *)

validate_migration_path(t) ==
    \A i \in DOMAIN Registry[t] : Registry[t][i].from = i - 1 /\ Registry[t][i].to = i

\* to is 0 if there is no step from this version.
next_migration_step(t, from) ==
    LET found == {i \in DOMAIN Registry[t] :
                     Registry[t][i].from = from /\ Registry[t][i].to = from + 1
                     /\ from + 1 <= current_version(t)}
    IN IF found = {} THEN [from |-> 0, to |-> 0, rewrite |-> FALSE] ELSE Registry[t][Min(found)]

HasStep(t, from) == next_migration_step(t, from).to > 0

\* Whether the checkpoint belongs to the step that is due.
CheckpointFits(d, t) ==
    LET c == d.checkpoint[t] step == next_migration_step(t, d.header[t])
    IN c = NoCheckpoint \/ (c.from = step.from /\ c.to = step.to)

\* What all checkpoints must satisfy before a batch: "ok" or the error.
preflight_checkpoints(d) ==
    LET at == {t \in AllTables : d.checkpoint[t] # NoCheckpoint}
    IN IF \E t \in at : d.header[t] = current_version(t) THEN "StaleCheckpoint"
       ELSE IF \E t \in at : ~HasStep(t, d.header[t]) THEN "UnsupportedPath"
       ELSE IF \E t \in at : ~CheckpointFits(d, t) THEN "InvalidCheckpoint"
       ELSE "ok"

-----------------------------------------------------------------------------
(* One batch of one table: the new state of the store, or the error.       *)

Failed(d, error) == [disk |-> d, progress |-> error]

\* What a batch reads, and what it writes, count against the limit together.
BatchBytes(d, t, page) ==
    Total([k \in page |-> 2 * RowBytes(d.rows[t][k]) + 1], page)

\* Faulty variant: a step that only checks records keeps no cursor.
checkpoint_after_rewrite(step, page) ==
    [from |-> step.from, to |-> step.to, last |-> IF step.rewrite THEN Max(page) ELSE 0]

\* The checkpoint that is written with a batch.
checkpoint_after(step, page) == [from |-> step.from, to |-> step.to, last |-> Max(page)]

\* The records of a page that migrate_legacy_record refuses.
RejectedRecords(d, t, page) == {k \in page : ~d.rows[t][k].parses}

\* The record that a rewriting step makes of another.
Rewritten(row) == [row EXCEPT !.form = @ + 1]

\* Each record is migrated, or the whole batch is given up.
collect_record_migration(d, t, page, step, max_bytes) ==
    IF RejectedRecords(d, t, page) # {} THEN Failed(d, "InvalidRecord")
    ELSE IF step.rewrite /\ BatchBytes(d, t, page) > max_bytes THEN Failed(d, "BatchMemoryLimitExceeded")
    ELSE [disk |-> [d EXCEPT
              !.rows[t] = [k \in DOMAIN @ |->
                              IF step.rewrite /\ k \in page THEN Rewritten(@[k]) ELSE @[k]],
              !.checkpoint[t] = checkpoint_after(step, page)],
          progress |-> "BatchValidated"]

\* Faulty variant: the checkpoint survives its table.
CompleteTable_keep_checkpoint(d, t, step) ==
    [disk |-> [d EXCEPT !.header[t] = step.to], progress |-> "TableCompleted"]

\* An empty page completes the table: header and checkpoint change together.
CompleteTable(d, t, step) ==
    [disk |-> [d EXCEPT !.header[t] = step.to, !.checkpoint[t] = NoCheckpoint],
     progress |-> "TableCompleted"]

migrate_table_batch(d, t, o) ==
    LET step == next_migration_step(t, d.header[t])
        scan == scan_prefix_page_after_bounded([k \in DOMAIN d.rows[t] |-> RowBytes(d.rows[t][k])],
                    d.checkpoint[t].last, o.max_records, o.max_bytes)
    IN IF ~HasStep(t, d.header[t]) THEN Failed(d, "UnsupportedPath")
       ELSE IF ~CheckpointFits(d, t) THEN Failed(d, "InvalidCheckpoint")
       ELSE IF scan.oversized THEN Failed(d, "ScanBatchByteLimitExceeded")
       ELSE IF scan.rows = {} THEN CompleteTable(d, t, step)
       ELSE collect_record_migration(d, t, scan.rows, step, o.max_bytes)

\* The first table that is not current takes a batch; none left is Complete.
migrate_sync_schema_batch(d, o) ==
    LET behind == {i \in DOMAIN Tables : d.header[Tables[i]] # current_version(Tables[i])}
    IN IF preflight_checkpoints(d) # "ok" THEN Failed(d, preflight_checkpoints(d))
       ELSE IF behind = {} THEN [disk |-> d, progress |-> "Complete"]
       ELSE migrate_table_batch(d, Tables[Min(behind)], o)

-----------------------------------------------------------------------------
Write(d) == disk' = d /\ recoverable' = recoverable \union {d}

Flush(d) == disk' = d /\ recoverable' = {d}

MigrationInit ==
    \E version \in [AllTables -> Nat \intersect 0 .. Max({current_version(t) : t \in AllTables})] :
    \E broken \in SUBSET (AllTables \X Keys), held \in [AllTables -> SUBSET Keys] :
       /\ \A t \in AllTables : version[t] <= current_version(t)
       /\ Cardinality(broken) <= 1
       /\ \A tk \in broken : tk[2] \in held[tk[1]] /\ version[tk[1]] = 0
       /\ disk = [header |-> version,
                  checkpoint |-> [t \in AllTables |-> NoCheckpoint],
                  rows |-> [t \in AllTables |->
                               [k \in held[t] |-> Row(<<t, k>> \notin broken, FormAt(t, version[t]))]]]
       /\ recoverable = {disk}
       /\ session = "closed"
       /\ options = [max_records |-> 0, max_bytes |-> 0]
       /\ outcome = "none"
       /\ crashes = 0 /\ writes = 0

\* SyncSchemaMigration::new takes the lease, once the registry is in order.
OpenSession ==
    /\ session = "closed"
    /\ outcome # "Complete"
    /\ \E o \in Options :
          /\ session' = IF \A t \in AllTables : validate_migration_path(t) THEN "lease" ELSE "closed"
          /\ outcome' = IF \A t \in AllTables : validate_migration_path(t) THEN "none" ELSE "InvalidRegistry"
          /\ options' = o
    /\ UNCHANGED <<disk, recoverable, crashes, writes>>

\* A step of the session; the end, or an error, releases the lease.
StepSession ==
    /\ session = "lease"
    /\ \E result \in {migrate_sync_schema_batch(disk, options)} :
          /\ IF result.progress = "Complete" THEN Flush(result.disk)
             ELSE Write(result.disk)
          /\ IF result.progress \in {"BatchValidated", "TableCompleted"}
             THEN UNCHANGED <<session, outcome>>
             ELSE session' = "closed" /\ outcome' = result.progress
    /\ UNCHANGED <<options, crashes, writes>>

\* ensure_sync_schema, as the sync manager is built on the store.
Missing(d) == {t \in AllTables : d.header[t] = 0}

ensure_sync_schema(d) ==
    IF \E t \in AllTables \ Missing(d) : d.header[t] # current_version(t) THEN "OlderVersion"
    ELSE IF \E t \in Missing(d) : DOMAIN d.rows[t] # {} THEN "LegacyTable"
    ELSE "ok"

StartServing ==
    LET verdict == ensure_sync_schema(disk) IN
    /\ session = "closed"
    /\ IF verdict = "ok"
       THEN /\ Write([disk EXCEPT !.header = [t \in AllTables |-> current_version(t)]])
            /\ session' = "serving"
            /\ outcome' = "none"
       ELSE /\ session' = "closed"
            /\ outcome' = verdict
            /\ UNCHANGED <<disk, recoverable>>
    /\ UNCHANGED <<options, crashes, writes>>

\* A serving node writes records of the current version; Store::set waits
\* while a migration holds the lease.
ServeWrite ==
    /\ session = "serving"
    /\ writes < MaxWrites
    /\ \E t \in AllTables, k \in Keys :
          Write([disk EXCEPT !.rows[t] =
                    [j \in DOMAIN @ \union {k} |->
                        IF j = k THEN Row(TRUE, FormAt(t, current_version(t))) ELSE @[j]]])
    /\ writes' = writes + 1
    /\ UNCHANGED <<session, options, outcome, crashes>>

StopServing ==
    /\ session = "serving"
    /\ Flush(disk)
    /\ session' = "closed"
    /\ UNCHANGED <<options, outcome, crashes, writes>>

\* The store's own periodic flush.
BackgroundFlush ==
    /\ recoverable # {disk}
    /\ Flush(disk)
    /\ UNCHANGED <<session, options, outcome, crashes, writes>>

\* Batches are atomic and recovered in order: a crash falls back to the
\* state after one of them.
Crash ==
    /\ crashes < MaxCrashes
    /\ session # "closed"
    /\ \E d \in recoverable : Flush(d)
    /\ session' = "closed"
    /\ outcome' = "none"
    /\ crashes' = crashes + 1
    /\ UNCHANGED <<options, writes>>

MigrationNext ==
    \/ OpenSession \/ StepSession \/ StartServing \/ ServeWrite \/ StopServing
    \/ BackgroundFlush \/ Crash

-----------------------------------------------------------------------------
(* Every record is rewritten exactly once for each version: up to the      *)
(* checkpoint it has the form of the version that is being reached, behind *)
(* it the form of the header's version, whatever was lost in a crash       *)
(* between two batches (migrate_table_batch, migration.rs:406).            *)
RewrittenOnce ==
    \A d \in recoverable, t \in AllTables : \A k \in DOMAIN d.rows[t] :
       d.rows[t][k].form = FormAt(t, IF k <= d.checkpoint[t].last
                                     THEN d.checkpoint[t].to ELSE d.header[t])

(* A table under a header has no record that fails to parse: none of them  *)
(* slips past the pages of the migration (migration.rs:448) or past the    *)
(* check for unversioned data (ensure_sync_schema, schema.rs:230).         *)
VersionedTableParses ==
    \A d \in recoverable, t \in AllTables : d.header[t] > 0 =>
       \A k \in DOMAIN d.rows[t] : d.rows[t][k].parses

(* A crash never leaves a store that later sessions refuse: sessions fail  *)
(* at records and limits, never at the checkpoints that they wrote         *)
(* themselves (preflight_checkpoints, migration.rs:674).                   *)
OwnCheckpointsAreAccepted ==
    outcome \notin {"StaleCheckpoint", "InvalidCheckpoint", "UnsupportedPath", "InvalidRegistry"}

(* A session ends: every batch brings it nearer to Complete, so that the   *)
(* loop of migrate_sync_schema (migration.rs:341) stops.  The distance is  *)
(* the records ahead of the cursor, for each version still to be reached.  *)
Ahead(d, t) == {k \in DOMAIN d.rows[t] : k > d.checkpoint[t].last}
Distance(d) ==
    (UNION {{t} \X (d.header[t] + 1 .. current_version(t)) \X (DOMAIN d.rows[t] \union {0}) : t \in AllTables})
       \ (UNION {{<<t, d.header[t] + 1, k>> : k \in DOMAIN d.rows[t] \ Ahead(d, t)} : t \in AllTables})
EveryBatchAdvances ==
    [][StepSession /\ session' = "lease" => Distance(disk') # Distance(disk) /\ Distance(disk') \subseteq Distance(disk)]_migrationVars

(* A migration that crashes anywhere and is resumed, with other limits,    *)
(* rewrites every record once and is never refused by its own checkpoints  *)
(* (migrate_sync_schema_batch).                                            *)
MigrationInv ==
    /\ RewrittenOnce
    /\ VersionedTableParses
    /\ OwnCheckpointsAreAccepted
=============================================================================
