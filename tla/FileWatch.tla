----------------------------- MODULE FileWatch -----------------------------
(***************************************************************************)
(* The provider that polls a peer file.  A version of the file is a        *)
(* sequence of lines; comments and blanks are left out.  Unreadable, too   *)
(* large and not UTF-8 are the version "unreadable"; a missing file is the *)
(* empty sequence.                                                         *)
(***************************************************************************)
EXTENDS DynamicProvider

CONSTANTS
    FileVersions,  \* sequences of lines that the file may hold
    BadLine,       \* a line that is no endpoint
    MaxEdits       \* bound: changes of the file

Refused == <<BadLine>>

\* parse_peer_file: an invalid line or one endpoint too many refuses the whole
\* version; duplicates are dropped.
parse_peer_file(lines) ==
    IF Contains(lines, BadLine) \/ Len(Distinct(lines)) > MaxCandidates THEN Refused
    ELSE Distinct(lines)

read_peer_file(lines) == parse_peer_file(lines)

NoWorker == [phase |-> "none", read |-> <<>>]

validate_config == EventCapacity > 0 /\ MaxCandidates > 0

\* held: the versions the file has had; a ghost of FollowsTheFile.
Init ==
    /\ validate_config
    /\ ProviderInit
    /\ worker = NoWorker
    /\ \E version \in FileVersions : world = [file |-> version, edits |-> 0, held |-> {version}]

Edit(version) ==
    /\ world.edits < MaxEdits
    /\ world' = [file |-> version, edits |-> world.edits + 1, held |-> world.held \cup {version}]
    /\ UNCHANGED <<providerVars, worker, now>>

\* ensure_started reads the file before it takes the lock again.
ReadInitial(c) ==
    /\ subs[c].phase = "idle"
    /\ MayStart
    /\ read_peer_file(world.file) # Refused
    /\ subs' = [subs EXCEPT ![c] = [Idle EXCEPT !.phase = "read", !.read = read_peer_file(world.file)]]
    /\ UNCHANGED <<gens, stopped, state, worker, world, now>>

\* Under the lock again: stopped meanwhile, started by somebody else, or this
\* caller publishes what it has read and starts the worker.
StartWithRead(c) ==
    LET initial == [i \in DOMAIN subs[c].read |-> [peer |-> subs[c].read[i], at |-> now]]
        seen == IF state.peers = initial THEN state ELSE Published(initial)
    IN  /\ subs[c].phase = "read"
        /\ IF MayStart
           THEN /\ spawn(seen)
                /\ worker' = [NoWorker EXCEPT !.phase = "waiting"]
                /\ subs' = [(IF state.peers = initial THEN subs ELSE Broadcast(seen))
                              EXCEPT ![c] = [Idle EXCEPT !.phase = "started"]]
           ELSE /\ subs' = [subs EXCEPT ![c] = IF stopped \/ running = "fatal" THEN Failed
                                               ELSE IF running = "yes" THEN [Idle EXCEPT !.phase = "started"]
                                               ELSE Idle]
                /\ UNCHANGED <<gens, state, worker>>
        /\ UNCHANGED <<stopped, world, now>>

\* The poll deadline is over and the file is read.
PollRead ==
    /\ Alive
    /\ worker.phase = "waiting"
    /\ worker' = [phase |-> "read", read |-> read_peer_file(world.file)]
    /\ UNCHANGED <<providerVars, world, now>>

\* What was read is observed, unless it is refused; then the worker sleeps.
PollObserve ==
    /\ Alive
    /\ worker.phase = "read"
    /\ IF worker.read = Refused THEN UNCHANGED <<state, subs>> ELSE observe(worker.read)
    /\ worker' = [NoWorker EXCEPT !.phase = "waiting"]
    /\ now' \in {t \in {now, now + 1} : t <= MaxTime}
    /\ UNCHANGED <<gens, stopped, world>>

\* The worker sees the stop between two polls or while it reads, or panics; a
\* deadline that cannot be represented, of the first poll or of the one after a
\* publication, ends the provider for good.
WorkerEnds ==
    /\ \E result \in {r \in {"ok", "fatal", "panic"} : (r = "ok" => stopped) /\ (r = "fatal" => worker.phase = "waiting")} :
          WorkerReturns(result)
    /\ worker' = NoWorker
    /\ UNCHANGED world

Next ==
    \/ ProviderNext
    \/ RequestShutdown /\ UNCHANGED world
    \/ \E g \in DOMAIN gens : Complete(g, TRUE) /\ UNCHANGED <<worker, world>>
    \/ \E version \in FileVersions : Edit(version)
    \/ \E c \in Clients : ReadInitial(c) \/ StartWithRead(c)
    \/ PollRead
    \/ PollObserve
    \/ WorkerEnds

\* While a worker lives the view is one whole valid version the file has had:
\* a refused version neither empties nor truncates it.
FollowsTheFile ==
    Alive => \E version \in world.held : names(state.peers) = parse_peer_file(version)
=============================================================================
