----------------------------- MODULE Management -----------------------------
(***************************************************************************)
(* The management API: requests pass authentication, the concurrency       *)
(* limit, the request timeout and the body limit on their way to the       *)
(* module registry and to runs of modules; the registry keeps a module's   *)
(* bytes and its metadata under two keys; the server drains its requests   *)
(* when it shuts down.  A crash may lose what has not been flushed.        *)
(***************************************************************************)
EXTENDS Integers, FiniteSets

CONSTANTS
    Requests,         \* connections with one request each at a time
    Modules,          \* module ids; the digest of the bytes
    Permits,          \* concurrent_request_limit
    MaxCrashes, MaxFlushFailures, MaxRequests,  \* bounds
    NoRequest, NoModule

VARIABLES
    request,      \* per connection: [phase, op, module]
    permits,      \* permits of the semaphore that are free
    registry,     \* the store as it is read: [data, meta], two sets of modules
    recoverable,  \* what a crash may leave of it
    lock,         \* the connection that holds mutation_lock
    server,       \* "open", "draining", "aborted", "closed"
    acked,        \* history: per module, what the last answer promised
    begun, crashes, failures  \* counters of the bounds

managementVars ==
    <<request, permits, registry, recoverable, lock, server, acked, begun, crashes, failures>>

Operations == {"register", "delete", "run"}
Unused == [phase |-> "idle", op |-> "none", module |-> NoModule]
Active == {r \in Requests : request[r].phase # "idle"}

ManagementInit ==
    /\ request = [r \in Requests |-> Unused]
    /\ permits = Permits
    /\ registry = [data |-> {}, meta |-> {}]
    /\ recoverable = {registry}
    /\ lock = NoRequest
    /\ server = "open"
    /\ acked = [m \in Modules |-> "nothing"]
    /\ begun = 0 /\ crashes = 0 /\ failures = 0

-----------------------------------------------------------------------------
Moves(r, phase) == request' = [request EXCEPT ![r].phase = phase]

\* The response returns the permit.
Responds(r) ==
    /\ request' = [request EXCEPT ![r] = Unused]
    /\ permits' = permits + 1

Unregistered == UNCHANGED <<registry, recoverable, lock, acked>>
Uncounted == UNCHANGED <<begun, crashes, failures>>

\* require_bearer and enforce_concurrency_limit: refusals take no permit and
\* leave no trace.
enforce_concurrency_limit(r, op, m) ==
    /\ server = "open"
    /\ request[r].phase = "idle"
    /\ begun < MaxRequests
    /\ permits > 0
    /\ permits' = permits - 1
    /\ begun' = begun + 1
    /\ request' = [request EXCEPT ![r] =
                     [phase |-> IF op = "register" THEN "body" ELSE op, op |-> op, module |-> m]]
    /\ Unregistered
    /\ UNCHANGED <<server, crashes, failures>>

\* The body is too large, the wrong type, empty or no module: no change.
Refuse(r) ==
    /\ request[r].phase = "body"
    /\ Responds(r)
    /\ Unregistered /\ Uncounted /\ UNCHANGED server

\* enforce_request_timeout, a client that leaves: the handler is dropped where
\* it waits, for the body or for the guest.
Drop(r) ==
    /\ request[r].phase \in {"body", "running"}
    /\ Responds(r)
    /\ Unregistered /\ Uncounted /\ UNCHANGED server

ReadBody(r) ==
    /\ request[r].phase = "body"
    /\ Moves(r, "register")
    /\ Unregistered /\ Uncounted /\ UNCHANGED <<permits, server>>

-----------------------------------------------------------------------------
(* The registry; its calls wait for nothing but the lock.                  *)

Stored(s, m) == [data |-> s.data \union {m}, meta |-> s.meta \union {m}]
Removed(s, m) == [data |-> s.data \ {m}, meta |-> s.meta \ {m}]

\* One batch: a crash leaves all of it or nothing.
apply_batch(state, r) ==
    /\ registry' = state
    /\ recoverable' = recoverable \union {state}
    /\ lock' = r

\* Known bytes are answered at once; others are stored under both keys.
register(r) ==
    LET m == request[r].module
    IN /\ request[r].phase = "register" /\ lock = NoRequest
       /\ IF m \in registry.data
          THEN /\ Responds(r)
               /\ UNCHANGED <<registry, recoverable, lock, acked>>
          ELSE /\ apply_batch(Stored(registry, m), r)
               /\ acked' = [acked EXCEPT ![m] = "nothing"]
               /\ Moves(r, "flush") /\ UNCHANGED permits
       /\ Uncounted /\ UNCHANGED server

delete(r) ==
    LET m == request[r].module
    IN /\ request[r].phase = "delete" /\ lock = NoRequest
       /\ apply_batch(Removed(registry, m), r)
       /\ acked' = [acked EXCEPT ![m] = "nothing"]
       /\ Moves(r, "flush")
       /\ Uncounted /\ UNCHANGED <<permits, server>>

Promise(r) == acked' = [acked EXCEPT ![request[r].module] = request[r].op]

\* Faulty variant: the answer does not wait for the flush.
flush_later(r) ==
    /\ request[r].phase = "flush"
    /\ Promise(r)
    /\ Responds(r)
    /\ lock' = NoRequest
    /\ Uncounted /\ UNCHANGED <<registry, recoverable, server>>

flush(r) ==
    /\ request[r].phase = "flush"
    /\ \/ /\ recoverable' = {registry}
          /\ Promise(r)
          /\ UNCHANGED failures
       \/ /\ failures < MaxFlushFailures
          /\ failures' = failures + 1
          /\ UNCHANGED <<recoverable, acked>>
    /\ Responds(r)
    /\ lock' = NoRequest
    /\ UNCHANGED <<registry, server, begun, crashes>>

\* The bytes are read once; the guest runs with them also if the module is
\* deleted meanwhile.
run_module(r) ==
    /\ request[r].phase = "run"
    /\ IF request[r].module \in registry.data THEN Moves(r, "running") /\ UNCHANGED permits
       ELSE Responds(r)
    /\ Unregistered /\ Uncounted /\ UNCHANGED server

RunEnds(r) ==
    /\ request[r].phase = "running"
    /\ Responds(r)
    /\ Unregistered /\ Uncounted /\ UNCHANGED server

-----------------------------------------------------------------------------
(* run_server after its loop.                                              *)

BeginDrain ==
    /\ server = "open"
    /\ server' = "draining"
    /\ UNCHANGED <<request, permits>> /\ Unregistered /\ Uncounted

\* The drain timeout aborts the connections, each at its next await.
AbortAll ==
    /\ server = "draining" /\ Active # {}
    /\ server' = "aborted"
    /\ UNCHANGED <<request, permits>> /\ Unregistered /\ Uncounted

\* An aborted connection ends where its handler waits; a registry call in
\* progress runs to its end and the connection ends then.
Abort(r) ==
    /\ server = "aborted"
    /\ request[r].phase \in {"body", "running", "run"}
    /\ Responds(r)
    /\ Unregistered /\ Uncounted /\ UNCHANGED server

\* join_next until no connection is left, also after abort_all.
Close ==
    /\ server \in {"draining", "aborted"}
    /\ Active = {}
    /\ server' = "closed"
    /\ UNCHANGED <<request, permits>> /\ Unregistered /\ Uncounted

\* The process ends anywhere, and the next one opens what is on the disk.
Crash ==
    /\ crashes < MaxCrashes
    /\ crashes' = crashes + 1
    /\ \E state \in recoverable : registry' = state /\ recoverable' = {state}
    /\ request' = [r \in Requests |-> Unused]
    /\ permits' = Permits
    /\ lock' = NoRequest
    /\ server' = "open"
    /\ UNCHANGED <<acked, begun, failures>>

RequestStep(r) ==
    \/ Refuse(r) \/ Drop(r) \/ ReadBody(r) \/ register(r) \/ delete(r) \/ flush(r)
    \/ run_module(r) \/ RunEnds(r) \/ Abort(r)

ManagementNext ==
    \/ \E r \in Requests : RequestStep(r)
    \/ \E r \in Requests, op \in Operations, m \in Modules : enforce_concurrency_limit(r, op, m)
    \/ BeginDrain \/ AbortAll \/ Close \/ Crash

-----------------------------------------------------------------------------
(* A module's bytes and its metadata come and go together, also through a  *)
(* crash: no listed module is without bytes and no bytes are unlisted      *)
(* (ModuleRegistry::register, control.rs:301).                             *)
BytesWithMetadata ==
    \A state \in recoverable \union {registry} : state.data = state.meta

(* What the API answered 201 or 204 for survives a crash at any time,      *)
(* until a later request changes it (control.rs:305, :388).                *)
AnsweredIsDurable ==
    \A m \in Modules :
       /\ acked[m] = "register" => \A state \in recoverable : m \in state.data
       /\ acked[m] = "delete" => \A state \in recoverable : m \notin state.data

(* A server that has shut down runs no handler and no guest: the aborted   *)
(* ones have ended too, no lock is held and every permit is back           *)
(* (run_server, lib.rs:265).                                               *)
ClosedIsQuiet ==
    /\ permits + Cardinality(Active) = Permits
    /\ server = "closed" => Active = {} /\ lock = NoRequest /\ permits = Permits

(* Modules stay whole, answers are kept and nothing runs on, through       *)
(* timeouts, aborts and crashes (ModuleRegistry, run_server).              *)
ApiInv ==
    /\ BytesWithMetadata
    /\ AnsweredIsDurable
    /\ ClosedIsQuiet
=============================================================================
