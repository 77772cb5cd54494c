----------------------------- MODULE Lifecycle -----------------------------
(***************************************************************************)
(* A node process from its start to its exit: the order in which nx run    *)
(* and nx serve start the services, what a failure on the way undoes, and  *)
(* the shutdown under its timeout.  Guests change state through host calls *)
(* that reserve a place in the broadcast queue first.                      *)
(***************************************************************************)
EXTENDS Integers, FiniteSets

CONSTANTS
    Providers,    \* the discovery providers
    Ops,          \* the operations that guests may cause
    QueueLimit,   \* queued_ops_limit
    BatchMax      \* BROADCAST_BATCH_MAX

VARIABLES
    command,    \* "run" or "serve"
    at,         \* where real_main is
    error,      \* whether the start, the guest or the shutdown failed
    discovery_error,  \* of SyncManager::shutdown
    provider,   \* per provider: "idle", "watching", "announced", "stopped", "stuck"
    listening,  \* the node's listener
    tasks,      \* the manager's tasks that run
    signalled,  \* the manager's shutdown signal
    ready,      \* RuntimeMetrics::ready
    serving,    \* the HTTP servers that are up
    op,         \* per operation: "none", "reserved", "queued", "batched", "logged", "refused", "dropped"
    flushed     \* operations whose effects the explicit flush covers

lifecycleVars ==
    <<command, at, error, discovery_error, provider, listening, tasks, signalled, ready, serving, op, flushed>>

AllTasks == {"event", "broadcast", "reconnect", "anti_entropy"}
Applied == {o \in Ops : op[o] \in {"queued", "batched", "logged", "refused", "dropped"}}
Taken == Cardinality({o \in Ops : op[o] \in {"reserved", "queued"}})

\* The stages that shutdown_with_timeout can cut: each waits for something.
Cuttable == {"await broadcast", "await reconnect", "await anti-entropy", "stop discovery", "stop node",
             "await event", "stop observability"}
Stopping == Cuttable \union {"stop api", "begin shutdown", "flush"}

LifecycleInit ==
    /\ command \in {"run", "serve"}
    /\ at = "start observability"
    /\ error = FALSE /\ discovery_error = FALSE
    /\ provider = [p \in Providers |-> "idle"]
    /\ listening = FALSE
    /\ tasks = {}
    /\ signalled = FALSE
    /\ ready = FALSE
    /\ serving = {}
    /\ op = [o \in Ops |-> "none"]
    /\ flushed = {}

-----------------------------------------------------------------------------
(* real_main's order.                                                      *)

Goto(next) == at' = next

\* A failed start goes on with the shutdown.
Fail ==
    /\ error' = TRUE
    /\ at' = "stop api"

start_observability ==
    /\ at = "start observability"
    /\ \/ serving' = serving \union {"observability"} /\ Goto("start discovery") /\ UNCHANGED error
       \/ Fail /\ UNCHANGED serving
    /\ UNCHANGED <<command, discovery_error, provider, listening, tasks, signalled, ready, op, flushed>>

\* A provider that does not end within its timeout is left behind.
shutdown_providers == provider' \in [Providers -> {"stopped", "stuck"}]

\* DiscoveryCoordinator::start: a provider without a watch takes all down.
StartDiscovery ==
    /\ at = "start discovery"
    /\ \/ provider' = [p \in Providers |-> "watching"] /\ Goto("bind") /\ UNCHANGED error
       \/ shutdown_providers /\ Fail
       \/ UNCHANGED provider /\ Fail   \* the configuration is refused first
    /\ UNCHANGED <<command, discovery_error, listening, tasks, signalled, ready, serving, op, flushed>>

\* node.shutdown and rollback_discovery.
rollback == shutdown_providers /\ listening' = FALSE

Bind ==
    /\ at = "bind"
    /\ \/ listening' = TRUE /\ Goto("announce") /\ UNCHANGED <<error, provider>>
       \/ rollback /\ Fail
    /\ UNCHANGED <<command, discovery_error, tasks, signalled, ready, serving, op, flushed>>

\* The local endpoint, the bootstrap endpoint and the providers in turn; what
\* was announced before a failure is withdrawn.
Announce ==
    /\ at = "announce"
    /\ \/ \E p \in Providers :
             /\ provider[p] = "watching"
             /\ provider' = [provider EXCEPT ![p] = "announced"]
             /\ UNCHANGED <<at, error, listening>>
       \/ /\ \A p \in Providers : provider[p] = "announced"
          /\ Goto("spawn") /\ UNCHANGED <<error, provider, listening>>
       \/ rollback /\ Fail
    /\ UNCHANGED <<command, discovery_error, tasks, signalled, ready, serving, op, flushed>>

\* SyncManager::start ends, Runtime::start_sync sets ready.
SpawnTasks ==
    /\ at = "spawn"
    /\ tasks' = AllTasks
    /\ ready' = TRUE
    /\ Goto(IF command = "run" THEN "guest" ELSE "start api")
    /\ UNCHANGED <<command, discovery_error, error, provider, listening, signalled, serving, op, flushed>>

StartApi ==
    /\ at = "start api"
    /\ \/ serving' = serving \union {"api"} /\ Goto("wait for signal") /\ UNCHANGED error
       \/ Fail /\ UNCHANGED serving
    /\ UNCHANGED <<command, discovery_error, provider, listening, tasks, signalled, ready, op, flushed>>

\* nx run: the guest ends, or fails and the shutdown follows.
GuestEnds ==
    /\ at = "guest"
    /\ \A o \in Ops : op[o] # "reserved"
    /\ (Goto("wait for signal") /\ UNCHANGED error) \/ Fail
    /\ UNCHANGED <<command, discovery_error, provider, listening, tasks, signalled, ready, serving, op, flushed>>

Signal ==
    /\ at = "wait for signal"
    /\ Goto("stop api")
    /\ UNCHANGED <<command, discovery_error, error, provider, listening, tasks, signalled, ready, serving, op, flushed>>

-----------------------------------------------------------------------------
(* Guests, in a run or in a request of the API.                            *)

GuestRuns == at = "guest" \/ "api" \in serving

Reserve(o) ==
    /\ GuestRuns
    /\ op[o] = "none" /\ Taken < QueueLimit
    /\ at = "guest" => \A u \in Ops : op[u] # "reserved"   \* nx run has one guest
    /\ op' = [op EXCEPT ![o] = "reserved"]
    /\ UNCHANGED <<command, discovery_error, at, error, provider, listening, tasks, signalled, ready, serving, flushed>>

\* The change is persisted and its operation sent without an await between; a
\* queue without its receiver swallows it.
Apply(o) ==
    /\ GuestRuns
    /\ op[o] = "reserved"
    /\ op' = [op EXCEPT ![o] = IF "broadcast" \in tasks THEN "queued" ELSE "dropped"]
    /\ UNCHANGED <<command, discovery_error, at, error, provider, listening, tasks, signalled, ready, serving, flushed>>

\* The invocation is dropped while it waits for the lock, or the lock's owner
\* fails to persist.
Release(o) ==
    /\ op[o] = "reserved"
    /\ op' = [op EXCEPT ![o] = "none"]
    /\ UNCHANGED <<command, discovery_error, at, error, provider, listening, tasks, signalled, ready, serving, flushed>>

-----------------------------------------------------------------------------
(* The broadcast loop.                                                     *)

Queued == {o \in Ops : op[o] = "queued"}
Batched == {o \in Ops : op[o] = "batched"}

\* recv, the wait for more, try_recv up to the batch's size.
TakeBatch ==
    /\ "broadcast" \in tasks /\ Queued # {} /\ Batched = {}
    /\ \E batch \in SUBSET Queued :
          /\ batch # {} /\ Cardinality(batch) <= BatchMax
          /\ op' = [o \in Ops |-> IF o \in batch THEN "batched" ELSE op[o]]
    /\ UNCHANGED <<command, discovery_error, at, error, provider, listening, tasks, signalled, ready, serving, flushed>>

\* remember_ops, then the peers; a batch whose records the store refuses is
\* given up with a warning, and the loop or the drain goes on.
LogBatch ==
    /\ Batched # {}
    /\ \E result \in {"logged", "refused"} : op' = [o \in Ops |-> IF o \in Batched THEN result ELSE op[o]]
    /\ UNCHANGED <<command, discovery_error, at, error, provider, listening, tasks, signalled, ready, serving, flushed>>

\* Faulty variant: the drain takes one batch.
DrainDone_one_batch == Batched = {}

\* drain_broadcast_queue: batches until try_recv finds nothing; a place that is
\* only reserved is nothing.
DrainDone == Queued = {} /\ Batched = {}

BroadcastEnds ==
    /\ signalled /\ "broadcast" \in tasks
    /\ DrainDone
    /\ tasks' = tasks \ {"broadcast"}
    /\ op' = [o \in Ops |-> IF op[o] = "queued" THEN "dropped" ELSE op[o]]
    /\ UNCHANGED <<command, discovery_error, at, error, provider, listening, signalled, ready, serving, flushed>>

\* The other loops end at the signal, the event loop only if it is not stuck;
\* the two that sleep also end when a deadline cannot be represented.
TaskEnds(t) ==
    /\ t \in tasks \ {"broadcast"}
    /\ signalled \/ t \in {"reconnect", "anti_entropy"}
    /\ tasks' = tasks \ {t}
    /\ UNCHANGED <<command, discovery_error, at, error, provider, listening, signalled, ready, serving, op, flushed>>

-----------------------------------------------------------------------------
(* The shutdown.                                                           *)

\* ManagementServer::shutdown: the requests end in time, or they are aborted and
\* with them the guests they run.
StopApi ==
    /\ at = "stop api"
    /\ IF \A o \in Ops : op[o] # "reserved"
       THEN UNCHANGED <<op, error>>
       ELSE /\ op' = [o \in Ops |-> IF op[o] = "reserved" THEN "none" ELSE op[o]]
            /\ error' = TRUE
    /\ serving' = serving \ {"api"}
    /\ Goto("begin shutdown")
    /\ UNCHANGED <<command, discovery_error, provider, listening, tasks, signalled, ready, flushed>>

\* shutdown_inner and SyncManager::shutdown up to the first task.
BeginShutdown ==
    /\ at = "begin shutdown"
    /\ ready' = FALSE
    /\ signalled' = TRUE
    /\ Goto("await broadcast")
    /\ UNCHANGED <<command, discovery_error, error, provider, listening, tasks, serving, op, flushed>>

Await(stage, task, next) ==
    /\ at = stage
    /\ task \notin tasks
    /\ Goto(next)
    /\ UNCHANGED <<command, discovery_error, error, provider, listening, tasks, signalled, ready, serving, op, flushed>>

AwaitTasks ==
    \/ Await("await broadcast", "broadcast", "await reconnect")
    \/ Await("await reconnect", "reconnect", "await anti-entropy")
    \/ Await("await anti-entropy", "anti_entropy", "stop discovery")

\* coordinator.shutdown, if there is a coordinator; its error is kept for the
\* end of SyncManager::shutdown.
StopDiscovery ==
    /\ at = "stop discovery"
    /\ IF \E p \in Providers : provider[p] = "announced"
       THEN shutdown_providers /\ discovery_error' = \E p \in Providers : provider'[p] = "stuck"
       ELSE UNCHANGED <<provider, discovery_error>>
    /\ error' = (error \/ discovery_error')
    /\ Goto("stop node")
    /\ UNCHANGED <<command, listening, tasks, signalled, ready, serving, op, flushed>>

StopNode ==
    /\ at = "stop node"
    /\ listening' = FALSE
    /\ Goto("await event")
    /\ UNCHANGED <<command, discovery_error, error, provider, tasks, signalled, ready, serving, op, flushed>>

\* The discovery error ends shutdown_inner before the flush.
AwaitEvent ==
    /\ at = "await event"
    /\ "event" \notin tasks
    /\ Goto(IF discovery_error THEN "exit" ELSE "flush")
    /\ UNCHANGED <<command, discovery_error, error, provider, listening, tasks, signalled, ready, serving, op, flushed>>

Flush ==
    /\ at = "flush"
    /\ \/ flushed' = Applied /\ Goto("stop observability") /\ UNCHANGED error
       \/ error' = TRUE /\ Goto("exit") /\ UNCHANGED flushed
    /\ UNCHANGED <<command, discovery_error, provider, listening, tasks, signalled, ready, serving, op>>

StopObservability ==
    /\ at = "stop observability"
    /\ serving' = serving \ {"observability"}
    /\ Goto("exit")
    /\ UNCHANGED <<command, discovery_error, error, provider, listening, tasks, signalled, ready, op, flushed>>

\* Faulty variant: the shutdown has no timeout.
Expire_never == FALSE /\ UNCHANGED lifecycleVars

\* shutdown_with_timeout cuts the sequence wherever it waits, and leaves as it
\* is what had not been stopped.
Expire ==
    /\ at \in Cuttable
    /\ error' = TRUE
    /\ Goto("timed out")
    /\ UNCHANGED <<command, discovery_error, provider, listening, tasks, signalled, ready, serving, op, flushed>>

Main ==
    \/ start_observability \/ StartDiscovery \/ Bind \/ Announce \/ SpawnTasks \/ StartApi \/ GuestEnds
    \/ StopApi \/ BeginShutdown \/ AwaitTasks \/ StopDiscovery \/ StopNode \/ AwaitEvent
    \/ Flush \/ StopObservability

LifecycleNext ==
    \/ Main \/ Signal \/ Expire
    \/ TakeBatch \/ LogBatch \/ BroadcastEnds
    \/ \E o \in Ops : Reserve(o) \/ Apply(o) \/ Release(o)
    \/ \E t \in AllTasks : TaskEnds(t)

-----------------------------------------------------------------------------
(* A start that fails undoes all of it: no listener is left, no task runs, *)
(* and every provider, also one that had announced the node, has been shut *)
(* down or has not ended in time (SyncManager::start, manager.rs:413-452). *)
FailedStartIsUndone ==
    tasks = {} /\ at \in {"stop api", "begin shutdown"} /\ error =>
        ~listening /\ \A p \in Providers : provider[p] \in {"idle", "stopped", "stuck"}

(* When the broadcast task has ended, every operation that a host call     *)
(* applied is in the log or was in a batch that the store refused: the API *)
(* drains its guests before the runtime stops, and the drain ends only     *)
(* with the queue empty, also behind a refused batch, so that none that    *)
(* holds a reserved place comes too late (replication.rs:446).             *)
DrainIsComplete ==
    signalled /\ "broadcast" \notin tasks => \A o \in Applied : op[o] \in {"logged", "refused"}

(* A process that reports success has stopped everything, withdrawn its    *)
(* announcements and flushed what guests applied, in whatever order tasks  *)
(* and providers end (Runtime::shutdown_inner, runtime.rs:284).            *)
CleanExit ==
    at = "exit" /\ ~error =>
        /\ tasks = {} /\ ~listening /\ serving = {} /\ ~ready
        /\ \A p \in Providers : provider[p] = "stopped"
        /\ flushed = Applied

(* One step of the shutdown may fail, and those behind it still run: at    *)
(* its end, unless the timeout cut it, no task, listener or API is left    *)
(* and every provider was asked to withdraw, although a request had to be  *)
(* aborted, a provider did not return or the store refused the flush       *)
(* (SyncManager::shutdown, manager.rs:642).                                *)
ShutdownIsWhole ==
    at = "exit" =>
        /\ tasks = {} /\ ~listening /\ ~ready /\ "api" \notin serving
        /\ \A p \in Providers : provider[p] \in {"idle", "stopped", "stuck"}

(* A node that says it is ready listens and takes events and operations;   *)
(* only the two loops that sleep may have ended (runtime.rs:257).          *)
ReadyIsUp == ready => listening /\ {"event", "broadcast"} \subseteq tasks /\ ~signalled

(* A shutdown ends, also when a task is stuck or a provider does not       *)
(* return: the timeout bounds the whole of it (runtime.rs:278).            *)
ShutdownEnds == at \in Stopping ~> at \in {"exit", "timed out"}

(* Start, readiness, drain and exit of the process keep their promises in  *)
(* whatever order its tasks end or fail (SyncManager, Runtime, real_main). *)
ProcessInv ==
    /\ FailedStartIsUndone
    /\ DrainIsComplete
    /\ CleanExit
    /\ ShutdownIsWhole
    /\ ReadyIsUp
=============================================================================
