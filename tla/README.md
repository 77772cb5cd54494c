# A TLA+ development for numax

numax runs WASM guests that share state through CRDTs. A guest calls the host API, the host
changes a CRDT, persists it in a sled store and hands the operation to the sync manager, which
broadcasts it to the peers and applies what the peers send. This directory holds TLA+ models of
that machinery, the TLC configurations that check them on small instances and TLAPS proofs of
the theorems that hold for every instance. `PROJECT.json` maps every definition to the source
lines it models and lists runs, faulty variants, hazards and theorems.

## 1. Inventory of the system

| Component | State | Operations | Talks to | Hard behaviour | What makes it correct |
|---|---|---|---|---|---|
| CRDT host calls (`nx-core/host_api/crdt.rs`) | CRDT registries behind one lock per type | increment, set, add, remove, insert, delete, reads | store, broadcast queue | lock released before the operation is queued; persist can fail; queue can be full | the operation a peer gets has the effect the guest saw; nothing is published that is not persisted |
| CRDT types (`nx-sync/crdt`) | counters per node, timestamped entries, tags, linked elements | local change, remote apply, merge | host calls, remote apply | concurrent operations in any order, ties, saturation | replicas that applied the same operations are equal |
| Replication (`sync_manager/replication.rs`, `apply.rs`, `storage.rs`) | seen list, operation log, sequence numbers, durable copies of them | broadcast batch, record, push, pull, answer, apply, hydrate | store, node, event queue | duplicated, relayed, echoed and lost messages, evictions, crashes, failed and unflushed writes | every operation is applied once per node and reaches every node |
| Node process (`manager.rs`, `runtime.rs`, `nx-cli/main.rs`) | task handles, shutdown flag, readiness, running servers | start with rollback, run a guest, serve, shut down under a timeout | every task, discovery, node, store | a step of start fails; host calls race shutdown; a task or provider never ends | no task outlives a clean exit; what was accepted is logged and flushed; every shutdown ends |
| Peer health and reconnect (`peer.rs`, `replication.rs`) | health state, failure count, backoff deadline, candidates of the loop | pass, dial, record success or failure, reconcile | node events, candidates | candidates that change during a sleep; full slots; the rate limit of a peer | every candidate is tried again, none before its backoff is over |
| Connections (`nx-net/node.rs`) | connection map with generations, pending attempts, task registry | listen, connect, handshake, broadcast, send, read loop, shutdown | event queue, TLS | simultaneous connects, replaced connections, timeouts, slot limit | one connection per peer; only the current generation is removed; slots are never exceeded or leaked |
| Wire messages (`nx-net/message.rs`, `node.rs`) | writer lock, stream, read buffer | negotiate a format, encode, write, read, decode | connections | a write that a timeout cuts off, then another writer | whole messages in order, or the connection ends |
| Discovery candidates (`candidates.rs`) | contributions per source, order, expiry, local endpoints | snapshot, add, remove, unavailable, expire | providers, reconnect loop | leases, refused commands, lost events, new subscriptions | the published list is the merge of what is live |
| Discovery providers (`discovery/*`) | generations of a worker, view, subscribers | subscribe, poll, refresh, announce, restart, stop | coordinator, network | lagging subscribers, failing workers, a cleanup that does not confirm, own services under new names | subscribers are current or told; a view is whole and unexpired; one generation at a time |
| Bootstrap exchange (`nx-net/bootstrap.rs`) | bounded candidate cache with leases | record, withdraw, answer, expire | connections | bound reached, expiry, requests that arrive late | the bound holds, expired entries are not served |
| Schema and migration (`schema.rs`, `migration.rs`) | schema headers, checkpoint, records | check at start, open a session, migrate a batch, complete, resume | store | crash between batches, resumption with other limits | every record is migrated exactly once; a header only over records that parse |
| Store (`nx-store/store.rs`) | sled tree, write lock | get, set, batch, scans, lease, flush | everyone | writes are not flushed; keys change between pages | batches are atomic; a page is a whole part of the order |
| Guest calls (`host_api`, `nx-sdk`) | guest buffers, values | read, list, insert, walk over keys | store, CRDTs | a value grows between two tries; a try that fails after its effect | a call has its effect once; what was accepted can be read |
| Management API and module registry (`nx-api`, `control.rs`) | permits, requests, module bytes and metadata, mutation lock | register, delete, run, list, drain, abort | store, runtime | timeouts and aborts between two writes; crash before the flush | an answered change is durable; nothing runs behind a closed server |
| Settings (`nx-cli/config.rs`) | flags, variables, file | read, merge, check | runtime | fields of different layers that contradict each other | nothing is ignored silently; what is accepted is consistent |
| TLS, WASM engine, metrics, logging, rendering | certificates, compiled modules, counters | conversions and reporting | everyone | little of their own | not modelled (section 9) |

The behaviours that tests hardly reach are listed under `hazards`: crashes between persisting an
operation, recording it and pushing it; duplicates from relays and pulls; eviction of an id a
peer still offers; two event loops that wait for each other, or one that waits for itself; failed
writes in the middle; a connection that is removed by two tasks, replaced, or saved during shutdown;
a provider restarted while its cleanup goes on; a migration resumed with other limits; a shutdown whose
tasks do not end.

## 2. Plan

Order of the modules, the most important behaviour first:

1. `Replication`: delivery of operations between nodes, with crashes and faults, and `OpDelivery`, the
   abstract specification it implements (done; proved in `ReplicationProofs`).
2. The CRDT types on a common skeleton `CrdtReplica`, composed in `Crdts` (done; proved in
   `CrdtsProofs`, except the order of the sequence).
3. `Connections`: generations, permits, node events and shutdown of one node, with the event
   loop that handles the events (done; proved in `ConnectionsProofs`).
4. The providers of candidates on a common skeleton `DynamicProvider`, with the seeds'
   `BootstrapServer` and the coordinator `Candidates`, composed in `Discovery` (done; proved in
   `DiscoveryProofs` for what the providers share, the peer file, DNS-SRV and mDNS, in
   `BootstrapProofs` for the bootstrap provider and its seeds, in `CandidatesProofs` for the coordinator).
5. What surrounds the replication in one process, composed in `Node`: `Migration` over `StoreScan`,
   `Reconnect`, `Walk`, `GuestCalls`, `Management`, `Lifecycle`, `Config`, `Frames`, `Encodings` (done;
   the first seven proved in `NodeProofs` and `NodePartsProofs`).

What is left is out of the prover's reach (section 8): the order of the sequence type, frames and
encodings, and liveness.

A composition picks one part at the start of a behaviour where parts share no state that both change:
one run then asks about all of them, and each part keeps its own bounds.

## 3. Replication

`Replication.tla` models every node's host calls, broadcast loop, anti-entropy loop, event loop
and restart.

State. `state[n][o]` counts how often the delta of operation `o` is in the registries of `n`: a
count, because an increment applied twice is wrong and applied once is right, and every other
CRDT is less sensitive. `seen`, `opLog`, `nextSeen`, `nextLog` are SeenOps.order, the operation log and
their sequence counters. `store` is the sled store as the process reads it, three tables written
in atomic batches; `disk` is what a crash leaves. `calls`, `queue`, `batch`, `phase` follow
an operation from the host call that holds a queue permit, through the queue, into the batch of
the broadcast loop. `chan[n][m]` is what `n` has written to `m` and `m`'s event loop has not handled.
`forgotten` is a history variable: the ids a node evicted.

The promise. `OpDelivery.tla` says the same without queues, logs, stores and connections: `Create` makes
an operation at one node, `Deliver` lets a node apply created operations it has never applied or has
forgotten, and forget some that it applied. `Replication` implements it (`DeliversAsPromised`) with
`issued` as the created operations, `state` as the counts and the evicted ids as the forgotten ones: a
host call is a `Create`, an applied batch a `Deliver` of its new ids, recording a batch a `Deliver` that only
forgets, and pushing, pulling, losing a connection and restarting change nothing. That a restart is
no step at all is the point: it needs the persisted state, tables and sequence numbers to agree.

| Action | Code |
|---|---|
| `HostCall`, `HostSend` | a CRDT host call: reserve a queue permit, change, persist and publish under the lock; `op_permit.send` after it |
| `RecvFirst`, `RememberOps`, `RememberOpsFails`, `BroadcastOps` | `broadcast_batch`: first operation, coalescing, `remember_ops`, push to the reachable peers; a failed record drops the batch |
| `AntiEntropyPull`, `AnswerPull`, `AnswerTimesOut` | the anti-entropy tick, the answer from the log, the socket timeout of two blocked event loops |
| `ApplyRemoteOps`, `ApplyRemoteOpsFails` | `apply_remote_ops`: skip seen ids, apply on copies, one store batch, publish; a failed batch changes nothing |
| `Disconnect` | a lost connection with everything in flight |
| `Flush`, `Crash` | sled's flush; a process that stops anywhere and hydrates from what is on disk |

### Runs

| Run | Instance | Shows |
|---|---|---|
| `core` | 2 nodes, 3 operations, seen limit 2, log limit 1, 2 faults | duplicates are applied only after an eviction; the inductive invariant; the log is the recent part of the seen list; the refinement of `OpDelivery` |
| `relay` | 3 nodes, 2 operations, seen limit 2 | type correctness; no double application, no operation exposed before it is recorded, none taken back, with relays and a crash |
| `restart` | 2 nodes, 3 operations, seen limit 2, log limit 1, unflushed writes, 1 fault | the store hydrates to what memory holds, through evictions and batches longer than the log |
| `live` | 2 nodes, 1 operation, 3 faults, fairness | what some log retains reaches every node; while no fault happens, so does every accepted host call |
| `unflushed` | 2 nodes, 1 operation, unflushed writes, 1 crash | a violation: see below |

The bounds. Two nodes have every echo and duplicate; the third is needed for a relay. Three
operations exceed the seen limit of two, so evictions happen; a log limit of one makes a batch of two
overflow it in one step. `ChanCap` 2 lets a push overtake nothing and follow a pull; 1 makes two
blocked event loops meet. `MaxFaults` bounds crashes, lost connections and failed writes together;
`MaxApplied` 2 is one more than the properties allow. `CHECK_DEADLOCK FALSE` appears where
`MaxApplied` can stop a node that would apply a forgotten operation again.

Fairness. The loops are tokio tasks that run while their queue holds something, the anti-entropy
interval ticks for ever and a host call that has persisted sends without waiting: weak fairness.
A pull and an answer wait for room on a socket that others fill too, so they get strong fairness.
Host calls, faults and flushes get none. `live` bounds the number of faults, that is, assumes they
end.

The finding. The documentation says that the seen set prevents applying a delta more than once
and that recent duplicates are prevented across restart. The seen record is written without a
flush and the operation is pushed at once: sled may have flushed the CRDT state and not yet the
seen record when the process dies, the peer then returns the operation, and the delta is applied
a second time although its id was never evicted (`unflushed`).

### Proofs

`ReplicationProofs.tla` proves, for every set of nodes, every finite set of operations, all
limits and any number of faults:

- `TypeCorrect`: `Spec => []TypeOK`;
- `DeliveryInvariant`: `Spec => []DeliveryInv`, when a crash loses no write (`~WriteBehind`);
- `RecordFirst`, `AtMostOnceUnlessForgotten`: the two parts a reader wants;
- `NoAppliedOpIsLost`: no step, a crash included, takes back an applied operation;
- `ImplementsOpDelivery`: `Spec => DeliversAsPromised`, when a crash loses no write;
- `RestartGivesBackMemory`, `LogStaysInSeen`: `Spec => []RestartRecoversMemory` and
  `Spec => []LogIsRecentPartOfSeen`, whether or not a crash loses writes, when `OpLogLimit <= SeenLimit`;
- `AtMostOnceWithRoom`: `Spec => []AppliedAtMostOnce`, when a crash loses no write, `OpLogLimit <= SeenLimit`
  and the seen list has room for all operations.

At-most-once is not inductive alone. A node applies what its seen list does not hold, so what is
applied must be in the list or evicted whenever a peer can send it (`RecordedBeforeExposed`). A host
call applies before it records, so until then the operation must be private: in no log, no message,
no other node's state (`PendingIsPrivate`). A new operation must be new (`OnlyIssuedOps`). After
a crash the list comes from the table, so the table must hold what memory skips
(`SeenTableIsRead`). Together these are `DeliveryInv`, checked by TLC in `core` and then proved, one step per action.
With write-behind the invariant is false: that is the finding.

The refinement needs one more invariant, `SeenIsApplied`: a node has applied every id it skips, so what it
evicts is something `OpDelivery` may forget. The initial states map to initial states and each
action to a `Create`, a `Deliver` or a stutter.

Recovery has an invariant of its own, `RecoveryInv`. The tables are functions from ids to sequence numbers;
`Mirrors` says that the ids of a list stand in the table in the order of their numbers, all below the next
one, without repeats, and `Recovers` that both tables mirror their lists and that the log is the end of the
seen list. It is stated of the store with the lists in memory and, because a crash reads it, of
the disk with some lists. `OpLogLimit <= SeenLimit` is needed (the defaults of `sync_config.rs` are 10,000 and
100,000): with a shorter seen list an evicted operation that comes back would be in the log twice in memory
and once in the table. `AtMostOnceWithRoom` combines the two: a list without repeats is no longer than
the set of operations, so with room for all nothing is ever evicted (`NothingForgotten`).

## 4. CRDT types

`CrdtReplica.tla` holds what the host calls and the remote appliers of all types share. It follows
one key: `obj[n]` is the object in the registry of `n`, `disk[n]` what a crash leaves of it,
`unsent[n]` the operations that a host call has persisted and not handed on, `sent` the operations
that peers may deliver, at any time, in any order and any number of times. `applied[n]` is a history
variable: the operations whose effect the object holds. `calls` counts host calls; where an operation
id serves as tag or identity, the count is that id.

| Definition | Code |
|---|---|
| `PersistAndPublish` | `persist_*_state`, then the registry, under the registry's lock |
| `HostUpdate`, `Send` | a changing host call; `op_permit.send` and the broadcast |
| `RemoteUpdate` | an applier of `apply_remote_op` |
| `Flush`, `Crash` | sled's flush; the process stops and `hydrate_durable_*_state` reads the disk |

The modules of the types add the object, its local changes and its remote application:

| Module | Type | Abstraction |
|---|---|---|
| `LwwRegister` | `LwwRegister` | values and node ids are integers, in the order of their strings; a host call reads any time from its clock |
| `LwwMap` | `LwwMap` | as above; a tombstone is a value |
| `OrSet` | `ORSet` | tags are the ids of the adds; a remove also carries, as history, what its node had observed |
| `Counters` | `GCounter`, `PNCounter` | slots have `Width` bits instead of 64; a GCounter is the positive half. Deltas are not idempotent: here, and only here, an operation is delivered once, which `Replication` establishes |
| `Rga` | `Rga` | ids are integers drawn in any order; payloads are left out |

`LwwStamp` is the rule by which both last-writer-wins types stamp a write. `Crdts` puts the types
behind one specification: registries share nothing, so a behaviour picks a type at the start and
follows one key of it.

### Runs

| Run | Instance | Shows |
|---|---|---|
| `crdts` | 2 nodes, 3 host calls (4 on a sequence) | the properties below |
| `lww_unflushed` | registers whose unflushed writes a crash may lose | a violation: see below |

| Property | Says |
|---|---|
| `SameOpsSameObject` | replicas that applied the same operations are equal, for every type |
| `WriteIsVisible` | a guest reads back what it wrote or removed, against peers whose clocks are ahead and its own stepping back |
| `LwwInv` (`RegisterInv`, `WinnersInv`) | a register and each field of a map hold the write that beats all others |
| `SetInv` (`ContainsObservedRemove`, `TablesInv`) | an element is in the set if some add of it was observed by none of its removes; tables are a function of the operations |
| `CounterInv` (`SlotIsSaturatedSum`, `ValueIsClampedDifference`) | a slot is the saturated sum of what was applied, in every order; the visible value is the clamped difference of the halves, as long as each half fits the width |
| `SequenceInv` (`OrderIsComplete`, `AgreedOrder`) | a sequence shows every element once, orphans included; two replicas never show two elements in opposite orders once their ancestors have arrived at both |

The bounds. Two nodes have every order of arrival, concurrent calls, echoes and repeated deliveries.
Three host calls give a write, a concurrent write and a write that has seen both; a fourth on a
sequence adds the delete of a parent in a tree of three elements. Times 0 and 1 for a map and 0 to 3 for a register make
ties and stamps ahead of the clock. Two values are what a tie needs. Slots of two bits with deltas 1
and 3 fill up in two calls. A crash loses unflushed writes of maps, sets and counters
(`WriteBehind`); it loses nothing of registers, whose invariant is false otherwise (`lww_unflushed`),
nor of sequences, to keep four calls within reach: a failed insert leaves the same orphans there.

The finding. `candidate_wins` compares timestamp and writer. A node stamps one above what it
remembers, and a crash can make it forget a write that was already sent: it then stamps another
value alike, and peers keep whichever came first, for ever (`lww_unflushed`, with clocks that only
move forward). The documentation calls the comparison deterministic. A remark: `GCounter::value` sums
the slots without saturation, so beyond the width the sum wraps around before `PNCounter::value` clamps
the difference; `ValueIsClampedDifference` excludes that case.

### Proofs

`CrdtsProofs` proves `LwwInv`, `WriteIsVisible`, `SetInv`, `CounterInv` and `SameOpsSameObject` as
theorems of `Crdts`' specification, for every finite set of nodes, all values, fields, elements, ids,
times, widths and numbers of calls. `CrdtsAssumption` says that powers of two are natural numbers, which
the provers do not know; deltas are natural numbers. Where registers take part, a crash must lose none of
their writes (`~RegisterWriteBehind`): the run `lww_unflushed` shows that it is false otherwise. Each type
has its invariant:

- Registers (`RegisterInv`). That the register holds a winning write is not enough: two writes with one
  stamp would both win. So the invariant also says that a node's register is at least as new as any of
  its writes, hence that no two writes share a stamp. A crash must not set the register back: the disk
  is current.
- Maps (`WinnersInv`), whatever a crash loses. Entries are totally ordered, the value being the last
  criterion, so the winner is unique and no invariant about stamps is needed.
- Sets (`TablesInv`), whatever a crash loses. The tables are unions over the applied operations; the rule
  follows because a tag belongs to one add and a remove carries exactly the observed tags of its element.
- Counters (`CountedInv`), whatever a crash loses. In memory and on disk a counter is the saturated sum of
  the finite set of operations applied, and no operation has an id that is still to be drawn, so that a
  host call's is new. That a sum does not depend on the order in which `SumFunction` folds it up is
  proved by taking a smallest set for which it fails (`SumWithout`); that the fold is defined at all,
  likewise (`SumExists`). The clamped difference is the one number of the range nearest to the true one.
- Sequences (`ArrivedInv`). An array is a function of the operations applied because an id that is drawn
  once names one insertion: an id that is present is present with its own element. The order that the
  array is shown in (`SequenceInv`) is model-checked only.

## 5. Connections

`Connections.tla` models one node of `nx-net` with every task that touches its connections, and the
part of the sync manager's event loop that keeps `active_connections`.

State. `conn` has one entry per connection attempt, whose index is its generation
(ConnectionInstance compares pointers): address, phase, and whether the generation was cancelled.
`peers` is the connection map, `slots` the semaphore behind `max_peers`; a permit is held by a handshake
and then by the entry in the map. `callers`, `attempts`, `attemptSlots` are the calls of
`connect_to_peer` that have not returned and the two guards they hold. `writing[w]` and `failed[w]` follow a
task that writes to a snapshot of the connections; the event loop, which answers pulls, is one of
them. `queue` is the bounded event queue, `known` is `active_connections`.

| Action | Code |
|---|---|
| `DialCheck`, `DialAcquire`, `DialFails`, `DialSave`, `DialCancelled` | `connect_to_peer`: the first checks; guards and permit; a failed transport or handshake; save and register under the lock of the map, or take back; the caller drops the call |
| `Accept`, `HandshakeEnds`, `IncomingSave` | `start_listener`, `handle_incoming` up to the entry in the map |
| `Announce`, `Read`, `ReadEnds`, `Report` | the task of a connection: PeerConnected, `read_loop`, cleanup, PeerDisconnected |
| `Snapshot`, `WriteSucceeds`, `WriteFails`, `WriterReports` | `broadcast_message`, `send_message_to_addr`, `mark_peer_failed` |
| `HandleNodeEvent` | one event of the loop in `manager.rs` |
| `ShutdownStarts`, `ShutdownEnds` | `Node::shutdown` |

What a handshake exchanges only decides whether it succeeds. Answering hello and saving the
connection are one step, since nothing the answer does is shared; so are the end of a read loop and the cleanup
that follows it. The event handlers are split: operations and pulls are `Replication`'s,
`active_connections` is here, peer health is in `Reconnect`.

### Runs

| Run | Instance | Shows |
|---|---|---|
| `connections` | 1 endpoint, 2 addresses of incoming peers, 2 permits, 3 attempts, queue of 1 | the properties below |
| `connections_stale` | 1 endpoint dialed twice, queue of 2 | a violation: see below |
| `event_loop_stuck` | 1 incoming peer, queue of 1, fairness | a violation: see below |

| Property | Says |
|---|---|
| `PermitsConserved` (`SlotsConserved`, `GuardsMatchCallers`, `HandshakeIsAdmitted`) | permits and guards survive every failure, replacement, double removal, cancellation and shutdown; who got a permit is not refused by the later checks of the map's size |
| `MapIsOwned` | every entry of the map has a task of its own generation; a generation that lost its entry is cancelled |
| `EndsAreReported` (`ReportedOnce`, `EndedIsForgotten`) | an end is reported by the task that removed the entry, and only once; `active_connections` keeps no ended connection for ever |
| `ClosedIsEmpty` | after shutdown no entry and no task is left, though a dial may still be under way |

The bounds. Three attempts are more than the permits and allow a connection, its successor and a third
that competes; a queue of one is full after one event, so every wait for room happens. One writer
besides the event loop races with it and with the readers.

Two findings. `connections_stale`: a connection is removed under the lock of the map and reported
after it, and the event names an address, not a generation. If the endpoint is dialed again in
between, the report may follow the announcement of the successor and takes the successor out of
`active_connections`, where it stays missing. `event_loop_stuck`: the event loop answers pulls itself; when
such a write fails, `send_message_to_addr` waits for room in the event queue, and nobody but the event
loop makes room. If the queue is full, the loop waits for itself until shutdown. Fairness there is
weak fairness of the tasks that exist: tokio schedules them, and a socket timeout ends each write. The liveness
runs of `Replication` have no bounded event queue: they assume that the loop goes on.

### Proofs

`ConnectionsProofs.tla` proves `ConnectionsTypeOK`, `PermitsComeBack`, `EntriesAreOwned`,
`ShutdownLeavesNothing` and `EndsReachTheEventLoop`, the five invariants of the run, for all addresses, attempts,
permits, writers and queue bounds. They rest on one inductive invariant, `ConnInv`. Ownership (`OwnedInv`: an
entry, its task's phase and its cancellation agree; a closed node has neither) is inductive with the
types. The count of permits needs it: a permit comes back exactly when an entry is removed, and only the owner
or the one that replaces it removes an entry. That a handshake with a permit is never refused by the
size of the map follows from the count: the permits held are the handshakes and the entries. The
reports need ownership, too: who removed the entry is the only one that will report.

## 6. Discovery

`DynamicProvider.tla` holds what the providers of candidates share. `gens` says what has become of each
generation of the supervised worker, `stopped` is the stop request, `state` the view with its revision
and observation times, `subs` the subscriptions of the coordinator's watch tasks, each with its bounded
event channel and what the client holds. Revisions are compared with their neighbours only, so they
are counted modulo more than a subscriber can lag. The providers add the worker (`worker`) and what it
talks to (`world`).

| Module | Code | State and steps |
|---|---|---|
| `Selection` | `retain` and the sets of what was seen, everywhere in these files | operators: the elements at some positions of a sequence, every element once |
| `DynamicProvider` | `discovery/dynamic.rs`, `discovery.rs` | start, join, cleanup and end of a generation; subscribe, receive, overflow, resubscribe; stop |
| `FileWatch` | `discovery/file_watch.rs` | an edit at any time; a poll that reads in one step and publishes in the next; a start that reads before it holds the lock |
| `DnsSrv` | `discovery/dns_srv.rs` | queries answered from the resolver's cache or anew, failing, expiring while under way |
| `Mdns` | `discovery/mdns.rs` | announcements as a transaction (register the new key, withdraw the old); services resolved, removed, renamed by a conflict; the cleanup with lost acknowledgements |
| `BootstrapServer` | `nx-net/bootstrap.rs` | the seed's cache: prune, renew, add within capacity, withdraw, answer |
| `BootstrapGossip` | `discovery/bootstrap_gossip.rs` | passes over due seeds, retries, leases of views, withdrawal at the end; requests that are given up and arrive late |
| `Candidates` | `sync_manager/candidates.rs` | watch tasks, command queue, registry, leases, the published list |

`Discovery` composes them: a behaviour is one of a single provider or of the coordinator, which
abstracts a provider to its view and its errors. The expectations of the coordinator on a view
(whole, unexpired, or an error) are the properties of the providers.

### Run

`discovery` checks these invariants in one instance; in brackets the parts that each conjoins.

| Property | Says |
|---|---|
| `SubscribersAreServed` (`SubscriberIsCurrent`, `NobodyWaitsInVain`) | a subscriber that has taken its events holds the view or is told of a loss; nobody listens to an ended generation for ever |
| `GenerationsAreSeparate` (`OneGeneration`, `EndedViewIsEmpty`) | no generation starts before the cleanup of the former is confirmed; without a generation nobody is listed |
| `ViewIsValid` (`FollowsTheFile`, `ViewIsUnexpired`) | the view is one whole valid version the file has had, though it is edited between read and publication; no peer outlives its DNS lifetime, however long a query takes or fails |
| `ServiceInv` (`OwnServiceNotListed`, `StaysAnnounced`, `ConfirmedCleanupRetires`, `InstancesAreBounded`) | mDNS: the node does not find itself under an old or a new name, stays announced through replacements, failures and restarts, leaves nothing behind, keeps a bounded number of services |
| `AnnouncementInv` (`SuggestionIsRecent`, `WithdrawnAfterCleanup`) | bootstrap: what is suggested was announced within the two leases it passes through; after the cleanup only a seed that could not be told, or was reached late, offers the node |
| `CandidatesInv` (`ListIsComplete`, `LocalIsNoCandidate`, `LeaseIsHonoured`, `FollowsTheSource`, `WholeViewsOnly`) | the coordinator: the published list is the merge, without own endpoints; nothing extends a lease; a source without leases contributes its view; a refused view leaves no trace |

The bounds. Two generations give a restart while the first is cleaned up, two subscribers one that lags.
An event channel of one overflows at the second event. The clock goes up to 4 for DNS and a single seed,
to 2 elsewhere, which reaches the end of every lease and interval of the part. Two file edits put a second edit
between a read and its publication. `max_candidates` 2 is exceeded by views of three endpoints and by
two sources together; the mDNS history of 3 keys is filled by two replacements and a conflict.
`bootstrap-seeds` has two seeds and shorter leases, `bootstrap` one seed, more events and longer ones.
Providers whose worker has many states have one subscriber or none: what subscribers see is checked
with `file` and `dns-srv`. Deadlock is not checked: a stopped provider has no step.

### Proofs

`DiscoveryProofs` proves `SubscribersAreServed`, `GenerationsAreSeparate`, `ViewIsValid` and
`ServiceInv`, `BootstrapProofs` `AnnouncementInv`, and `CandidatesProofs` `CandidatesInv`, for every value
of the constants that satisfies `DiscoveryAssumption` and `DynamicProviderAssumption`: capacities are
positive, times and lifetimes are natural numbers, endpoints that may be announced are not the sign for
none, a resolved service has a sequence of endpoints, there is at least one seed, the other nodes are
neither this node nor seeds, the sources form a sequence with the observing ones among them, and a
view is a sequence of known spellings.

The first step is `ProvidersShareTheirSteps`: whatever a worker does, on generations, view and
subscribers it takes one of the steps of the skeleton (`ProviderStep`). `ProviderInv` is proved from
those steps alone. It says that all generations but the last are done and cleaned up, that the view is
available only while the last one runs or was just joined, and that it is empty after that; of every
subscriber, that the last event in its queue (or, with an empty queue, what it holds) is the view, or
nothing if its channel was closed. Queues are why `SubscriberIsCurrent` is not inductive by itself: it
speaks of empty queues only.

The peer file needs that what was read, by the worker or by a client that starts it, parses some
version the file has had (`FileInv`); DNS-SRV needs that, while peers are listed and no query is under
way, the next query is due no later than they expire (`DnsInv`). For mDNS, `LanInv` says that the
network knows services of the last generation only, each under a key that the worker still owns, the
latest key among them while something is announced; that the keys being withdrawn are older than the latest; that
nothing of ours is listed between transactions; and that each service is listed once and all
together keep at most `max_candidates` endpoints. The last part counts pairs of a service and a
position, so that storing a service is a bijection onto what was there and the positions added.

For the bootstrap provider, suggestions pass through two caches, and the invariant follows them through
both. What a seed caches of another node expires at the latest one lease after that node last announced
itself; what a view of the worker names was announced within both leases before the view expires; every
peer listed is named by such a view, or is a seed. For the withdrawal, a seed that holds an announcement
of this node is one the worker has recorded as announced to, or one that is recorded as missed, so that a
cleanup which visits all seeds it announced to leaves only the missed ones. These are for one generation
of the provider, as `Discovery` instantiates it, and any number of seeds, nodes and events.

The coordinator's properties speak of moments at which nothing is under way; `CoordinatorInv` says what
holds in between. The registry is sound: what a source contributes is in its list, own endpoints are
contributed by nobody, and the order names exactly what is contributed, each once. For every source there
is a path of name sets through the queue, one step for each command, from what the source contributes
to what it shows, the command in its task's hand being the last step; applying a command takes the
first step off, sending one adds a step, and a source with nothing under way has a path of equal sets,
which is `FollowsTheSource`. Views of an observing source are observed no earlier than the ones it has
shown before, so that a lease taken from any of them begins no later than the current view. And what
an observing source contributes equals one of its views at every later time too, each endpoint for as
long as its newest observation lasts: this is what ticks and expiries preserve, and
`WholeViewsOnly` is the case of the present.

`retain` and the sets of seen elements are `Selection`'s operators: the n-th smallest position of a
set, which is a fact about cardinalities and not a recursion over the sequence, so that the provers
reach it.

## 7. Node

`Node` composes the parts around the replication. They share the store, where each has keys of its own,
and the order of start and shutdown, which is `Lifecycle`'s.

| Module | Code | State and steps |
|---|---|---|
| `StoreScan` | `nx-store/store.rs` | the paged scans as operators on ordered keys |
| `Migration` | `sync_manager/migration.rs`, `schema.rs`, `store.rs` | headers, checkpoint and records on disk and the states a crash may fall back to; open a session, a batch, check at start, serve, flush, crash |
| `Reconnect` | `sync_manager/replication.rs`, `peer.rs` | the loop's list with backoffs, the pass under way, the sleep, the health records, connection events; time as remaining ticks |
| `Walk` | `control.rs`, `nx-api/routes.rs`, `host_api/db.rs`, `nx-sdk/db.rs` | pages of keys, modules and peers by cursor and by offset, cut to the response limit, while keys come and go |
| `GuestCalls` | `host_api/*`, `nx-sdk` | calls repeated with twice the buffer; an insertion with its permit, its id and its operation |
| `Management` | `nx-api`, `control.rs` | admission, time limit, body, registry calls under the mutation lock, flush, runs, drain, abort, crash |
| `Lifecycle` | `nx-cli/main.rs`, `runtime.rs`, `manager.rs` | `real_main` stage by stage, rollback, guests' operations, the tasks, the shutdown with its timeout |
| `Config` | `nx-cli/config.rs` | settings of three layers, the checks of each and of the result |
| `Frames` | `nx-net/message.rs`, `node.rs` | writers under a lock with timeouts, a socket of bounded room, the read loop |
| `Encodings` | `nx-sdk`, `host_api`, `migration.rs`, `message.rs` | layouts written on one side and parsed on the other, over encoded and over arbitrary cells |

### Run

`node` checks these properties in one instance; in brackets the parts that each conjoins.

| Part | Properties | Say |
|---|---|---|
| Migration | `MigrationInv` (`RewrittenOnce`, `VersionedTableParses`, `OwnCheckpointsAreAccepted`), `EveryBatchAdvances` | every record is rewritten once per version through crashes that lose batches and resumptions with other limits; a header only over records that parse; no session refuses what an earlier one left; every batch comes nearer to the end |
| Reconnect | `CandidateIsDialled`, `ReconnectInv` (`BackoffIsHonoured`, `HealthCoversCandidates`) | a candidate is dialled again and again while a slot is free, never before its backoff is over; no health record of a peer that is no candidate |
| Walk | `WalkIsSound` (`WalkIsComplete`, `WalkIsExact`, `OnlyOversizedItemsFail`) | a walk misses nothing that stayed, returns nothing twice or reserved, and fails only at an item that alone is too large |
| GuestCalls | `CallsAreFaithful` (`InsertedOnce`, `ReadIsWhole`, `AcceptedIsReadable`) | one element and one operation per insertion, whole versions, nothing accepted that cannot be read |
| Management | `ApiInv` (`BytesWithMetadata`, `AnsweredIsDurable`, `ClosedIsQuiet`) | a module is whole after any crash, an answer is durable, a closed server is quiet |
| Lifecycle | `ProcessInv` (`FailedStartIsUndone`, `ReadyIsUp`, `DrainIsComplete`, `ShutdownIsWhole`, `CleanExit`), `ShutdownEnds` | rollback is complete; ready means up; the drain takes all that guests applied, and only a batch that the store refuses stays out of the log; a step of the shutdown that fails keeps none behind it from running; success means stopped and flushed; every shutdown ends |
| Config | `SettingsAgree` (`NothingIsIgnored`, `SyncIsNotDropped`, `AcceptedIsConsistent`, `OneTlsPolicy`) | layers combine to one consistent configuration or are refused; what asks for synchronization gets it; with certificates, a CA and a list that a layer names are in force |
| Frames | `FramesArrive` (`ReadAsSent`, `OnlyCutsBreakFrames`, `FormatIsShared`) | whole messages in order up to the first frame that was cut off; in JSON nothing behind it, in Bincode a value may hold the bytes of the next frame, only if a writer followed the cut |
| Encodings | `EncodingsAgree` (`EncodedIsDecoded`, `DecodedIsEncoded`) | the two sides agree, and no two buffers mean the same |

The bounds. Three records in batches of one and two, with a byte limit that a rewritten batch exceeds,
and one crash: every batch boundary is crossed and resumed with other limits. The registry of two
tables has a step that checks records and steps that rewrite them. One slot, two candidates and one
other connection let every candidate find the slots full. Six keys, two of them reserved and one empty,
with two changes, put a deletion of the cursor and an insertion behind and before it. Buffers of 1 to 4
take two doublings to the largest value. Three requests compete for two permits and one lock. Three
operations fill a queue of two and need more than one batch of the drain. Settings come in four groups
(modes, capacities, TLS, synchronization) of which up to five (`MaxSettings`) are set at once: a
contradiction needs a mode, a field of another mode and the same two in another layer, and the full TLS
policy an address, certificate, key, CA and list. Four messages and two writers put a complete frame
behind a cut one; one of the messages ends in a value of a cell that decoding does not check
(`Checked`), and one carries the cell of a format byte, so that a mixture that decodes is reached and
other messages are read behind it. A length is one cell. Six cells hold every layout with two fields of
one byte and every count up to two. Deadlock is not checked: a finished walk, call, migration or process
has no step.

Fairness. The reconnect loop is a task that the executor runs and whose dials end by their timeout:
weak fairness of its steps. During a sleep the clock goes on however often candidates change, and
each change restarts only the sleep, not the backoffs: strong fairness of ticks and wake-up while it
sleeps. The event loop takes its events: weak fairness. `real_main` goes on where its condition holds,
and the timer of `shutdown_with_timeout` fires: weak fairness of both. Nothing is assumed of guests,
tasks, providers or peers, so a stuck task and a provider that never returns are among the behaviours
in which `ShutdownEnds` holds.

### Proofs

`NodeProofs.tla` and `NodePartsProofs.tla` prove invariants of seven parts as theorems of `Node`'s
specification, for all values of the constants that satisfy the assumptions in `Node.tla`:

- `ApiKeepsItsPromises` (`ApiInv`). `ApiInd` ties what a request holds to its stage: one that waits
  for the flush holds the mutation lock and has its change in the registry, free permits and active
  requests add up to the permits, and every recoverable state has a module's bytes with its metadata. `ApiAssumption`: requests are
  finitely many.
- `ProcessKeepsItsPromises` (`ProcessInv`). `ProcessInd` says per stage of `real_main` what is up
  (`StartFits`), what the shutdown has already taken down (`StopFits`) and what an exit implies (`ExitFits`);
  a shutdown that the timeout cuts ends in a stage of its own, of which only the error is claimed. For
  the drain it says that nothing is queued, batched or dropped once the broadcast task has ended, and that
  no guest holds a place by then.
- `BackoffsAreHonoured` (`ReconnectInv`). A backoff is kept three times: in the list, in the pass under way
  and in the sleep computed from it. `ReconnectInd` says that none of them promises less than the time
  that is left (`WaitsCover`, `PassCovers`, `DialFits`). `PeersAssumption`: a list of candidates names every
  address once, which the merge of `candidates.rs` makes so.
- `RepeatedCallsAreFaithful` (`CallsAreFaithful`). `GuestInd`: a call under way has read a version that existed, and
  has inserted only if its result fitted (`CallFits`); what was accepted fits the largest buffer
  (`AcceptedIsReadable`). `BuffersAssumption`: doubling the first buffers reaches the largest exactly, as 64 and
  256 bytes reach the 1 MiB of the SDK, which is the host's largest value.
- `MigrationSurvivesCrashes` (`MigrationInv`) and `SessionsAdvance` (`EveryBatchAdvances`). `MigrationInd` says that
  every recoverable state is between two batches: `TableFits` gives each record's form by its side of the
  cursor, and a checkpoint always belongs to the step that is due. Behind it stand lemmas about the
  bounded scan (`ScanFacts`: a page has no hole, and an empty page without an error means that nothing is
  ahead), which need a batch of at least one record. `SchemaAssumption`: the registry has no gaps, which
  `validate_migration_path` checks before a session opens, and limits are the `NonZero` types of
  `MigrationOptions`.
- `WalksAreSound` (`WalkIsSound`). `WalkInd`: a walk by cursor has read, in order, exactly what lies up to its cursor
  of the keys that stayed (`CursorFits`), although the cursor's own key may be gone; one by offset has read
  the first part of the enumeration while nothing changed (`OffsetFits`). The lemmas are about what a page is:
  `Ordered` enumerates a set (`OrderedFacts`), every scan returns a beginning of what is ahead, with a row
  too many where there is more (`ControlPageFacts`), and a page cut to the response limit is again one
  that names its last item as its cursor (`ShortenedFacts`, `BoundedPageFacts`). `WalkAssumption`: pages of
  the SDK have more than one key (`DEFAULT_SCAN_LIMIT`); without it the walk would be wrong, as the
  observation on the empty key below says.
- `SettingsCombine` (`SettingsAgree`). `ConfigInd` says that an outcome is the one of the settings as they are and that
  a layer gives a field one value. The lemmas say what a merge returns (`FirstFacts`: the value of the
  highest layer that has one; `FirstIsGiven`: a field that is not the result is overridden by a higher layer).
  `SettingsAssumption`: modes are modes, other values are numbers, and a path among the flags is not empty.

Observations, of which no run asks, because no text of the repository is at stake or the reading of it
is open:

- A discovery error of `SyncManager::shutdown` ends the shutdown before the store's explicit flush
  (`runtime.rs:289`), and a drain of the API that uses up the timeout leaves none for it; the process
  then reports an error, and `CleanExit` is about success only.
- A registration whose flush failed is answered with an error; the same bytes again are then known and
  answered `created: false` without a flush. `AnsweredIsDurable` speaks of 201 and 204.
- The cache of compiled modules evicts nothing.
- The manual `reconnect_configured_peers` (`manager.rs:554`), which `wait_before_run` calls
  (`runtime.rs:426`), dials every candidate at once, whatever backoffs the reconnect loop keeps, and may
  insert the health record of a candidate just removed; the next reconciliation drops it.
  `BackoffIsHonoured` is about the loop.
- A batch whose records the store refuses is given up with a warning and a count of `sync_errors`
  (`replication.rs:421-435`): the guests' changes are applied, and its operations are neither logged nor
  sent. A process can report success after that; `DrainIsComplete` names the exception, and
  `Replication` has the same failure.
- A frame that a timeout cuts inside the last value of its last operation, as that of `RgaInsert`
  (`op.rs:83-88`), and that another writer follows, has the declared length again and decodes: the
  binary deserializer checks that all bytes are used (`message.rs:628-657`). The peer then applies an
  operation with bytes of the next frame in its value. JSON is safe from it: the length bytes
  of a frame are control characters, which no JSON text contains.
- A migration step that deletes records (none is registered) could leave an empty table with a checkpoint.
- As a guest's cursor the empty key reads as no cursor: a walk in pages of one key would begin anew
  behind it.
- A sender does not know the `max_message_size` of its peer; the peer ends the connection.
- A CA and an allow-list without certificate and key resolve to no TLS at all (`config.rs:1721-1724`), and as
  flags they alone do not ask for synchronization (`config.rs:266-273`). `cli.md` says of `--tls-ca` that it
  "Enables mTLS", but introduces it as an addition to certificate and key, so that no run asks.
- An empty `--allowed-peers` is a value: it overrides a list of a lower layer, and allows every peer of the CA.
- `insecure` is true if any layer says so, and `--verbose` ranks below the file's `log_level`: two
  exceptions from flags before variables before file before defaults.

## 8. Only model-checked

Liveness (`live`, `CandidateIsDialled`, `ShutdownEnds`) is out of the prover's reach. Of the invariants,
these stay with TLC:

- `SequenceInv` of `Crdts`: the visible order is a recursive function over a tree whose children are
  sorted, and what it computes would need induction over that tree. That replicas with the same operations hold the same
  sequence is proved (`EveryTypeConverges`), and so is that a guest reads its write.
- `EncodingsAgree` of `Node`: the parsers count items of their input, which is induction over data.
- `FramesArrive` of `Node`: where the reader stands in a stream of frames, whole and cut, is a fact about
  concatenations of any number of them, which is induction over data.

## 9. Not modelled

TLS and certificates, the WASM engine, metrics and their endpoint's contents, logging and rendering,
the inspection commands of the command line, hashes, clocks and random bytes of the host API: pure
conversions, third-party code or reporting, without state of their own that another part relies on. JSON,
wincode and HTTP are libraries: `Encodings` takes the order of variants from the declarations and leaves
the fields and the preallocation limits (`message.rs:641-651`) to them. The state merges of the CRDT types
have no caller in the runtime, except the register's, which is modelled. Dropping a node that was not shut down is not modelled.

Smaller steps that the models leave out: the moment between `connected_tx.send` and the release of a
connection's guards (`node.rs:684`, `742`), which `Connections.Announce` takes in one step; a failure of the
batch in a registration (`control.rs:319`, `389`), which changes nothing; and a failure to write to the
guest's memory behind the insertion of an RGA element, which the SDK's buffer cannot cause.
