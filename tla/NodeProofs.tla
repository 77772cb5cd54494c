----------------------------- MODULE NodeProofs -----------------------------
(***************************************************************************)
(* Proofs about the parts of a node, each for every value of the constants *)
(* of its module.  A behaviour of Node is one of a single part.            *)
(***************************************************************************)
EXTENDS Node, FiniteSetTheorems, TLAPS

-----------------------------------------------------------------------------
(* The management API. *)

ApiPhases == {"idle", "body", "register", "delete", "run", "running", "flush"}

ApiType ==
    /\ request \in [Requests -> [phase : ApiPhases, op : Api!Operations \cup {"none"},
                                 module : Modules \cup {NoModule}]]
    /\ permits \in Int
    /\ acked \in [Modules -> {"nothing", "register", "delete"}]

\* A request is where its operation can be; the one that waits for the flush
\* holds mutation_lock and has its change in the registry.
RequestFits(r) ==
    /\ request[r].phase # "idle" => request[r].module \in Modules
    /\ request[r].phase \in {"body", "register"} => request[r].op = "register"
    /\ request[r].phase = "delete" => request[r].op = "delete"
    /\ request[r].phase = "flush" =>
          /\ lock = r
          /\ \/ request[r].op = "register" /\ request[r].module \in registry.data
             \/ request[r].op = "delete" /\ request[r].module \notin registry.data

LockFits == lock # NoRequest => lock \in Requests /\ request[lock].phase = "flush"

PermitsFit == permits + Cardinality(Api!Active) = Permits

ApiInd ==
    /\ ApiType
    /\ \A r \in Requests : RequestFits(r)
    /\ LockFits
    /\ PermitsFit
    /\ registry \in recoverable
    /\ server = "closed" => Api!Active = {}
    /\ Api!BytesWithMetadata
    /\ Api!AnsweredIsDurable

\* The request of r changes to q and nobody else's does.
Becomes(r, q) ==
    /\ request' \in [Requests -> [phase : ApiPhases, op : Api!Operations \cup {"none"},
                                  module : Modules \cup {NoModule}]]
    /\ request'[r] = q
    /\ \A s \in Requests : s # r => request'[s] = request[s]

\* The module's own notion of size is the standard one.
LEMMA ApiSize ==
    ASSUME NEW S
    PROVE  Api!Cardinality(S) = Cardinality(S)
  BY DEF Api!Cardinality, Cardinality

LEMMA ActiveIsFinite ==
    IsFiniteSet(Api!Active) /\ Cardinality(Api!Active) \in Nat
  <1>1. Api!Active \subseteq Requests
    BY DEF Api!Active
  <1> QED
    BY <1>1, ApiAssumption, FS_Subset, FS_CardinalityType

\* A response frees the connection and returns the permit.
LEMMA RespondsFacts ==
    ASSUME ApiType, PermitsFit, NEW r \in Requests, request[r].phase # "idle", Api!Responds(r)
    PROVE  /\ Becomes(r, Api!Unused) /\ request'[r].phase = "idle"
           /\ permits' \in Int /\ PermitsFit' /\ Api!Active' = Api!Active \ {r}
  <1>1. Api!Unused \in [phase : ApiPhases, op : Api!Operations \cup {"none"},
                        module : Modules \cup {NoModule}]
        /\ Api!Unused.phase = "idle"
    BY DEF Api!Unused, ApiPhases
  <1>2. request' = [request EXCEPT ![r] = Api!Unused] /\ permits' = permits + 1
    BY DEF Api!Responds
  <1>3. Becomes(r, Api!Unused) /\ request'[r].phase = "idle"
    BY <1>1, <1>2 DEF ApiType, Becomes
  <1>4. Api!Active' = Api!Active \ {r} /\ r \in Api!Active
    BY <1>3 DEF Api!Active, Becomes
  <1>5. Cardinality(Api!Active') = Cardinality(Api!Active) - 1
    BY <1>4, ActiveIsFinite, FS_RemoveElement
  <1> QED
    BY <1>2, <1>3, <1>4, <1>5, ActiveIsFinite, ApiAssumption DEF PermitsFit, ApiType

\* A handler goes on.
LEMMA MovesFacts ==
    ASSUME ApiType, PermitsFit, NEW r \in Requests, request[r].phase # "idle",
           NEW ph \in ApiPhases \ {"idle"}, Api!Moves(r, ph), UNCHANGED permits
    PROVE  /\ request'[r].phase = ph /\ request'[r].op = request[r].op
           /\ request'[r].module = request[r].module
           /\ Becomes(r, [request[r] EXCEPT !.phase = ph])
           /\ PermitsFit' /\ Api!Active' = Api!Active
  <1>1. request' = [request EXCEPT ![r].phase = ph]
    BY DEF Api!Moves
  <1>2. /\ request'[r].phase = ph /\ request'[r].op = request[r].op
        /\ request'[r].module = request[r].module
        /\ Becomes(r, [request[r] EXCEPT !.phase = ph])
    BY <1>1 DEF ApiType, Becomes
  <1>3. Api!Active' = Api!Active
    BY <1>2 DEF Api!Active, Becomes
  <1> QED
    BY <1>2, <1>3 DEF PermitsFit

\* A request ends and the registry is as it was.
LEMMA ApiEnds ==
    ASSUME ApiInd, NEW r \in Requests, request[r].phase \notin {"idle", "flush"}, Api!Responds(r),
           UNCHANGED <<registry, recoverable, lock, acked, server>>
    PROVE  ApiInd'
  <1>1. /\ Becomes(r, Api!Unused) /\ request'[r].phase = "idle"
        /\ permits' \in Int /\ PermitsFit' /\ Api!Active' = Api!Active \ {r}
    BY RespondsFacts DEF ApiInd
  <1>2. ApiType'
    BY <1>1 DEF ApiInd, ApiType, Becomes
  <1>3. ASSUME NEW s \in Requests PROVE RequestFits(s)'
    BY <1>1 DEF ApiInd, RequestFits, Becomes
  <1>4. LockFits'
    BY <1>1 DEF ApiInd, LockFits, Becomes
  <1>5. Api!BytesWithMetadata' /\ Api!AnsweredIsDurable'
    BY DEF ApiInd, Api!BytesWithMetadata, Api!AnsweredIsDurable
  <1>6. (server = "closed" => Api!Active = {})' /\ (registry \in recoverable)'
    BY <1>1 DEF ApiInd
  <1> QED
    BY <1>1, <1>2, <1>3, <1>4, <1>5, <1>6 DEF ApiInd

\* A request goes on to a phase without the lock.
LEMMA ApiGoes ==
    ASSUME ApiInd, NEW r \in Requests, NEW ph,
           \/ request[r].phase = "body" /\ ph = "register"
           \/ request[r].phase = "run" /\ ph = "running",
           Api!Moves(r, ph), UNCHANGED <<permits, registry, recoverable, lock, acked, server>>
    PROVE  ApiInd'
  <1>1. ph \in ApiPhases \ {"idle"}
    BY DEF ApiPhases
  <1>2. /\ request'[r].phase = ph /\ request'[r].op = request[r].op
        /\ request'[r].module = request[r].module
        /\ Becomes(r, [request[r] EXCEPT !.phase = ph])
        /\ PermitsFit' /\ Api!Active' = Api!Active
    BY <1>1, MovesFacts DEF ApiInd
  <1>3. ApiType'
    BY <1>2 DEF ApiInd, ApiType, Becomes
  <1>4. ASSUME NEW s \in Requests PROVE RequestFits(s)'
    BY <1>2 DEF ApiInd, RequestFits, Becomes
  <1>5. LockFits'
    BY <1>2 DEF ApiInd, LockFits, Becomes
  <1>6. Api!BytesWithMetadata' /\ Api!AnsweredIsDurable'
    BY DEF ApiInd, Api!BytesWithMetadata, Api!AnsweredIsDurable
  <1>7. (server = "closed" => Api!Active = {})' /\ (registry \in recoverable)'
    BY <1>2 DEF ApiInd
  <1> QED
    BY <1>2, <1>3, <1>4, <1>5, <1>6, <1>7 DEF ApiInd

\* One batch changes the registry: of the modules only m, which nothing was
\* promised of any more.
LEMMA ApiWrites ==
    ASSUME ApiInd, NEW r \in Requests, NEW state, lock = NoRequest,
           \/ /\ request[r].phase = "register"
              /\ state = Api!Stored(registry, request[r].module)
           \/ /\ request[r].phase = "delete"
              /\ state = Api!Removed(registry, request[r].module),
           Api!apply_batch(state, r),
           acked' = [acked EXCEPT ![request[r].module] = "nothing"],
           Api!Moves(r, "flush"), UNCHANGED <<permits, server>>
    PROVE  ApiInd'
  <1> DEFINE m == request[r].module
  <1>1. m \in Modules /\ request[r].phase # "idle"
    BY DEF ApiInd, RequestFits
  <1>2. /\ request'[r].phase = "flush" /\ request'[r].op = request[r].op
        /\ request'[r].module = m
        /\ Becomes(r, [request[r] EXCEPT !.phase = "flush"])
        /\ PermitsFit' /\ Api!Active' = Api!Active
    <2>1. "flush" \in ApiPhases \ {"idle"}
      BY DEF ApiPhases
    <2> QED
      BY <1>1, <2>1, MovesFacts DEF ApiInd
  <1>3. registry' = state /\ recoverable' = recoverable \cup {state} /\ lock' = r
    BY DEF Api!apply_batch
  <1>4. /\ acked' \in [Modules -> {"nothing", "register", "delete"}]
        /\ acked'[m] = "nothing" /\ \A n \in Modules : n # m => acked'[n] = acked[n]
    BY <1>1 DEF ApiInd, ApiType
  <1>5. /\ state.data = state.meta
        /\ \A n : n # m => (n \in state.data <=> n \in registry.data)
        /\ \/ request[r].op = "register" /\ m \in state.data
           \/ request[r].op = "delete" /\ m \notin state.data
    <2>1. registry.data = registry.meta
      BY DEF ApiInd, Api!BytesWithMetadata
    <2>2. CASE request[r].phase = "register" /\ state = Api!Stored(registry, m)
      <3>1. request[r].op = "register"
        BY <2>2 DEF ApiInd, RequestFits
      <3>2. state.data = registry.data \cup {m} /\ state.meta = registry.meta \cup {m}
        BY <2>2 DEF Api!Stored
      <3> QED
        BY <2>1, <3>1, <3>2
    <2>3. CASE request[r].phase = "delete" /\ state = Api!Removed(registry, m)
      <3>1. request[r].op = "delete"
        BY <2>3 DEF ApiInd, RequestFits
      <3>2. state.data = registry.data \ {m} /\ state.meta = registry.meta \ {m}
        BY <2>3 DEF Api!Removed
      <3> QED
        BY <2>1, <3>1, <3>2
    <2> QED
      BY <2>2, <2>3
  <1> HIDE DEF m
  <1>6. ApiType'
    BY <1>2, <1>4 DEF ApiInd, ApiType, Becomes
  <1>7. ASSUME NEW s \in Requests PROVE RequestFits(s)'
    <2>1. CASE s = r
      BY <1>1, <1>2, <1>3, <1>5, <2>1 DEF RequestFits
    <2>2. CASE s # r
      <3>1. request[s].phase # "flush"
        BY ApiAssumption DEF ApiInd, RequestFits
      <3> QED
        BY <1>2, <2>2, <3>1 DEF ApiInd, RequestFits, Becomes
    <2> QED
      BY <2>1, <2>2
  <1>8. LockFits'
    BY <1>2, <1>3 DEF LockFits
  <1>9. Api!BytesWithMetadata'
    BY <1>3, <1>5 DEF ApiInd, Api!BytesWithMetadata
  <1>10. Api!AnsweredIsDurable'
    BY <1>3, <1>4, <1>5 DEF ApiInd, Api!AnsweredIsDurable
  <1>11. (server = "closed" => Api!Active = {})' /\ (registry \in recoverable)'
    BY <1>2, <1>3 DEF ApiInd
  <1> QED
    BY <1>2, <1>6, <1>7, <1>8, <1>9, <1>10, <1>11 DEF ApiInd

\* The answer after the flush.
LEMMA ApiFlushes ==
    ASSUME ApiInd, NEW r \in Requests, Api!flush(r)
    PROVE  ApiInd'
  <1>1. request[r].phase = "flush" /\ Api!Responds(r) /\ lock' = NoRequest /\ UNCHANGED <<registry, server>>
    BY DEF Api!flush
  <1>2. /\ lock = r /\ request[r].module \in Modules
        /\ \/ request[r].op = "register" /\ request[r].module \in registry.data
           \/ request[r].op = "delete" /\ request[r].module \notin registry.data
    BY <1>1 DEF ApiInd, RequestFits
  <1>3. /\ Becomes(r, Api!Unused) /\ request'[r].phase = "idle"
        /\ permits' \in Int /\ PermitsFit' /\ Api!Active' = Api!Active \ {r}
    BY <1>1, RespondsFacts DEF ApiInd
  <1>4. \/ recoverable' = {registry} /\ acked' = [acked EXCEPT ![request[r].module] = request[r].op]
        \/ UNCHANGED <<recoverable, acked>>
    BY DEF Api!flush, Api!Promise
  <1>5. ApiType'
    <2>1. acked' \in [Modules -> {"nothing", "register", "delete"}]
      BY <1>2, <1>4 DEF ApiInd, ApiType
    <2> QED
      BY <1>3, <2>1 DEF ApiType, Becomes
  <1>6. ASSUME NEW s \in Requests PROVE RequestFits(s)'
    <2>1. CASE s = r
      BY <1>3, <2>1 DEF RequestFits
    <2>2. CASE s # r
      <3>1. request[s].phase # "flush"
        BY <1>2, <2>2 DEF ApiInd, RequestFits
      <3> QED
        BY <1>3, <2>2, <3>1 DEF ApiInd, RequestFits, Becomes
    <2> QED
      BY <2>1, <2>2
  <1>7. LockFits'
    BY <1>1 DEF LockFits
  <1>8. Api!BytesWithMetadata' /\ (registry \in recoverable)'
    BY <1>1, <1>4 DEF ApiInd, Api!BytesWithMetadata
  <1>9. Api!AnsweredIsDurable'
    <2>1. CASE UNCHANGED <<recoverable, acked>>
      BY <2>1 DEF ApiInd, Api!AnsweredIsDurable
    <2>2. CASE recoverable' = {registry} /\ acked' = [acked EXCEPT ![request[r].module] = request[r].op]
      <3>1. /\ acked'[request[r].module] = request[r].op
            /\ \A n \in Modules : n # request[r].module => acked'[n] = acked[n]
        BY <1>2, <2>2 DEF ApiInd, ApiType
      <3>2. registry \in recoverable
        BY DEF ApiInd
      <3>3. ASSUME NEW n \in Modules
            PROVE  /\ acked'[n] = "register" => n \in registry.data
                   /\ acked'[n] = "delete" => n \notin registry.data
        BY <1>2, <3>1, <3>2 DEF ApiInd, Api!AnsweredIsDurable
      <3> QED
        BY <2>2, <3>3 DEF Api!AnsweredIsDurable
    <2> QED
      BY <1>4, <2>1, <2>2
  <1>10. (server = "closed" => Api!Active = {})'
    BY <1>1, <1>3 DEF ApiInd
  <1> QED
    BY <1>3, <1>5, <1>6, <1>7, <1>8, <1>9, <1>10 DEF ApiInd

\* A request that passes the middleware.
LEMMA ApiBegins ==
    ASSUME ApiInd, NEW r \in Requests, NEW o \in Api!Operations, NEW m \in Modules,
           Api!enforce_concurrency_limit(r, o, m)
    PROVE  ApiInd'
  <1> DEFINE ph == IF o = "register" THEN "body" ELSE o
             q  == [phase |-> ph, op |-> o, module |-> m]
  <1>1. /\ server = "open" /\ request[r].phase = "idle" /\ permits' = permits - 1
        /\ request' = [request EXCEPT ![r] = q]
        /\ UNCHANGED <<registry, recoverable, lock, acked, server>>
    BY DEF Api!enforce_concurrency_limit, Api!Unregistered
  <1>2. /\ ph \in ApiPhases \ {"idle", "register", "flush", "running"}
        /\ ph = "body" => o = "register"
        /\ ph = "delete" => o = "delete"
    BY DEF Api!Operations, ApiPhases
  <1>3. Becomes(r, q) /\ request'[r].phase = ph /\ request'[r].op = o /\ request'[r].module = m
    BY <1>1, <1>2 DEF ApiInd, ApiType, Becomes
  <1> HIDE DEF ph, q
  <1>4. Api!Active' = Api!Active \cup {r} /\ r \notin Api!Active
    BY <1>1, <1>2, <1>3 DEF Api!Active, Becomes
  <1>5. Cardinality(Api!Active') = Cardinality(Api!Active) + 1
    BY <1>4, ActiveIsFinite, FS_AddElement
  <1>6. ApiType' /\ PermitsFit'
    <2>1. ApiType'
      BY <1>1, <1>3 DEF ApiInd, ApiType, Becomes
    <2>2. permits \in Int
      BY DEF ApiInd, ApiType
    <2> QED
      BY <1>1, <1>5, <2>1, <2>2, ActiveIsFinite, ApiAssumption DEF ApiInd, PermitsFit
  <1>7. ASSUME NEW s \in Requests PROVE RequestFits(s)'
    <2>1. CASE s = r
      BY <1>2, <1>3, <2>1 DEF RequestFits
    <2>2. CASE s # r
      BY <1>1, <1>3, <2>2 DEF ApiInd, RequestFits, Becomes
    <2> QED
      BY <2>1, <2>2
  <1>8. LockFits'
    BY <1>1, <1>3 DEF ApiInd, LockFits, Becomes
  <1>9. Api!BytesWithMetadata' /\ Api!AnsweredIsDurable' /\ (registry \in recoverable)'
    BY <1>1 DEF ApiInd, Api!BytesWithMetadata, Api!AnsweredIsDurable
  <1> QED
    BY <1>1, <1>6, <1>7, <1>8, <1>9 DEF ApiInd

\* The steps of the server leave requests and registry alone.
LEMMA ApiServer ==
    ASSUME ApiInd, UNCHANGED <<request, permits, registry, recoverable, lock, acked>>,
           server' = "closed" => server = "closed" \/ Api!Active = {}
    PROVE  ApiInd'
  <1>1. Api!Active' = Api!Active
    BY DEF Api!Active
  <1>2. ApiType' /\ LockFits' /\ PermitsFit'
    BY <1>1 DEF ApiInd, ApiType, LockFits, PermitsFit
  <1>3. ASSUME NEW s \in Requests PROVE RequestFits(s)'
    BY DEF ApiInd, RequestFits
  <1>4. Api!BytesWithMetadata' /\ Api!AnsweredIsDurable' /\ (registry \in recoverable)'
    BY DEF ApiInd, Api!BytesWithMetadata, Api!AnsweredIsDurable
  <1> QED
    BY <1>1, <1>2, <1>3, <1>4 DEF ApiInd

\* No request is under way.
LEMMA ApiIdle ==
    ASSUME request = [r \in Requests |-> Api!Unused], permits = Permits, lock = NoRequest
    PROVE  /\ request \in [Requests -> [phase : ApiPhases, op : Api!Operations \cup {"none"},
                                        module : Modules \cup {NoModule}]]
           /\ permits \in Int /\ PermitsFit /\ LockFits /\ Api!Active = {}
           /\ \A r \in Requests : RequestFits(r)
  <1>1. Api!Unused \in [phase : ApiPhases, op : Api!Operations \cup {"none"},
                        module : Modules \cup {NoModule}]
        /\ Api!Unused.phase = "idle"
    BY DEF Api!Unused, ApiPhases
  <1>2. Api!Active = {}
    BY <1>1 DEF Api!Active
  <1>3. PermitsFit /\ permits \in Int
    BY <1>2, FS_EmptySet, ApiAssumption DEF PermitsFit
  <1> QED
    BY <1>1, <1>2, <1>3 DEF LockFits, RequestFits

LEMMA ApiStarts == Api!ManagementInit => ApiInd
  <1> SUFFICES ASSUME Api!ManagementInit PROVE ApiInd
    OBVIOUS
  <1>1. /\ request = [r \in Requests |-> Api!Unused] /\ permits = Permits /\ lock = NoRequest
        /\ registry = [data |-> {}, meta |-> {}] /\ recoverable = {registry}
        /\ acked = [m \in Modules |-> "nothing"]
    BY DEF Api!ManagementInit
  <1>2. Api!BytesWithMetadata /\ Api!AnsweredIsDurable
    BY <1>1 DEF Api!BytesWithMetadata, Api!AnsweredIsDurable
  <1> QED
    BY <1>1, <1>2, ApiIdle DEF ApiInd, ApiType

\* A crash leaves one of the states that were recoverable.
LEMMA ApiCrashes ==
    ASSUME ApiInd, Api!Crash
    PROVE  ApiInd'
  <1>1. PICK state \in recoverable : registry' = state /\ recoverable' = {state}
    BY DEF Api!Crash
  <1>2. /\ request' = [r \in Requests |-> Api!Unused] /\ permits' = Permits /\ lock' = NoRequest
        /\ server' = "open" /\ UNCHANGED acked
    BY DEF Api!Crash
  <1>3. (/\ request = [r \in Requests |-> Api!Unused] /\ permits = Permits /\ lock = NoRequest)'
    BY <1>2 DEF Api!Unused
  <1>4. (/\ request \in [Requests -> [phase : ApiPhases, op : Api!Operations \cup {"none"},
                                      module : Modules \cup {NoModule}]]
         /\ permits \in Int /\ PermitsFit /\ LockFits /\ Api!Active = {}
         /\ \A r \in Requests : RequestFits(r))'
    BY <1>3, ApiIdle, PTL
  <1>5. Api!BytesWithMetadata' /\ Api!AnsweredIsDurable' /\ (registry \in recoverable)'
    BY <1>1, <1>2 DEF ApiInd, Api!BytesWithMetadata, Api!AnsweredIsDurable
  <1>6. ApiType'
    BY <1>2, <1>4 DEF ApiInd, ApiType
  <1> QED
    BY <1>4, <1>5, <1>6 DEF ApiInd

LEMMA ApiStep ==
    ASSUME ApiInd, Api!ManagementNext
    PROVE  ApiInd'
  <1>1. ASSUME NEW r \in Requests, Api!Refuse(r) \/ Api!Drop(r) \/ Api!RunEnds(r) \/ Api!Abort(r)
        PROVE  ApiInd'
    <2>1. /\ request[r].phase \notin {"idle", "flush"} /\ Api!Responds(r)
          /\ UNCHANGED <<registry, recoverable, lock, acked, server>>
      BY <1>1 DEF Api!Refuse, Api!Drop, Api!RunEnds, Api!Abort, Api!Unregistered
    <2> QED
      BY <2>1, ApiEnds
  <1>2. ASSUME NEW r \in Requests, Api!ReadBody(r) PROVE ApiInd'
    BY <1>2, ApiGoes DEF Api!ReadBody, Api!Unregistered
  <1>3. ASSUME NEW r \in Requests, Api!register(r) PROVE ApiInd'
    <2>1. CASE Api!Responds(r) /\ UNCHANGED <<registry, recoverable, lock, acked>>
      BY <1>3, <2>1, ApiEnds DEF Api!register
    <2>2. CASE /\ Api!apply_batch(Api!Stored(registry, request[r].module), r)
               /\ acked' = [acked EXCEPT ![request[r].module] = "nothing"]
               /\ Api!Moves(r, "flush") /\ UNCHANGED permits
      BY <1>3, <2>2, ApiWrites DEF Api!register
    <2> QED
      BY <1>3, <2>1, <2>2 DEF Api!register
  <1>4. ASSUME NEW r \in Requests, Api!delete(r) PROVE ApiInd'
    BY <1>4, ApiWrites DEF Api!delete
  <1>5. ASSUME NEW r \in Requests, Api!flush(r) PROVE ApiInd'
    BY <1>5, ApiFlushes
  <1>6. ASSUME NEW r \in Requests, Api!run_module(r) PROVE ApiInd'
    <2>1. request[r].phase = "run" /\ UNCHANGED <<registry, recoverable, lock, acked, server>>
      BY <1>6 DEF Api!run_module, Api!Unregistered
    <2>2. CASE Api!Moves(r, "running") /\ UNCHANGED permits
      BY <2>1, <2>2, ApiGoes
    <2>3. CASE Api!Responds(r)
      BY <2>1, <2>3, ApiEnds
    <2> QED
      BY <1>6, <2>2, <2>3 DEF Api!run_module
  <1>7. CASE Api!BeginDrain \/ Api!AbortAll \/ Api!Close
    <2>1. /\ UNCHANGED <<request, permits, registry, recoverable, lock, acked>>
          /\ server' = "closed" => server = "closed" \/ Api!Active = {}
      BY <1>7 DEF Api!BeginDrain, Api!AbortAll, Api!Close, Api!Unregistered
    <2> QED
      BY <2>1, ApiServer
  <1>8. CASE Api!Crash
    BY <1>8, ApiCrashes
  <1> QED
    BY <1>1, <1>2, <1>3, <1>4, <1>5, <1>6, <1>7, <1>8, ApiBegins
       DEF Api!ManagementNext, Api!RequestStep

\* What the API answered for survives every crash, modules are whole, and a
\* closed server has ended its requests, for any number of connections,
\* modules, permits and failed flushes (ModuleRegistry, run_server).
THEOREM ApiKeepsItsPromises == Spec => []ApiInv
  <1> DEFINE Inv == kind = "api" => ApiInd
  <1>1. Init => Inv
    BY ApiStarts DEF Init
  <1>2. Inv /\ [Next]_allVars => Inv'
    <2> SUFFICES ASSUME Inv, [Next]_allVars, kind = "api" PROVE ApiInd' /\ kind' = kind
      BY DEF Next, allVars
    <2>1. kind' = kind
      BY DEF Next, allVars
    <2>2. CASE Next
      BY <2>2, ApiStep DEF Next
    <2>3. CASE UNCHANGED allVars
      BY <2>3, ApiServer DEF allVars, ofNode, ofApi
    <2> QED
      BY <2>1, <2>2, <2>3
  <1>3. Inv => ApiInv
    <2> SUFFICES ASSUME ApiInd PROVE Api!ApiInv
      BY DEF ApiInv
    <2>1. server = "closed" => Api!Active = {} /\ lock = NoRequest /\ permits = Permits
      <3> SUFFICES ASSUME server = "closed" PROVE lock = NoRequest /\ permits = Permits
        BY DEF ApiInd
      <3>1. Api!Active = {} /\ Cardinality(Api!Active) = 0
        BY FS_EmptySet DEF ApiInd
      <3>2. lock = NoRequest
        BY <3>1 DEF ApiInd, LockFits, Api!Active
      <3>3. permits = Permits
        BY <3>1, ApiAssumption DEF ApiInd, PermitsFit, ApiType
      <3> QED
        BY <3>2, <3>3
    <2> QED
      BY <2>1, ApiSize DEF ApiInd, PermitsFit, Api!ApiInv, Api!ClosedIsQuiet
  <1> QED
    BY <1>1, <1>2, <1>3, PTL DEF Spec

-----------------------------------------------------------------------------
(* The life of the process. *)

Early == {"start observability", "start discovery", "bind", "announce", "spawn"}
Up == {"guest", "start api", "wait for signal"}
Ending == {"stop api", "begin shutdown"}
AfterSignal ==
    {"await broadcast", "await reconnect", "await anti-entropy", "stop discovery", "stop node",
     "await event", "flush", "stop observability", "exit", "timed out"}
Withdrawn == {"stop node", "await event", "flush", "stop observability", "exit"}

ProcessType ==
    /\ at \in Early \cup Up \cup Ending \cup AfterSignal
    /\ error \in BOOLEAN /\ discovery_error \in BOOLEAN /\ listening \in BOOLEAN
    /\ signalled \in BOOLEAN /\ ready \in BOOLEAN
    /\ provider \in [Providers -> {"idle", "watching", "announced", "stopped", "stuck"}]
    /\ tasks \subseteq Process!AllTasks
    /\ serving \subseteq {"observability", "api"}
    /\ op \in [Ops -> {"none", "reserved", "queued", "batched", "logged", "refused"}]

\* All services of the node are up, or a failed start has undone them.
Started ==
    /\ {"event", "broadcast"} \subseteq tasks /\ listening /\ ready
    /\ \A p \in Providers : provider[p] = "announced"

Undone ==
    /\ tasks = {} /\ ~listening /\ ~ready /\ error /\ "api" \notin serving
    /\ \A p \in Providers : provider[p] \in {"idle", "stopped", "stuck"}
    /\ \A o \in Ops : op[o] = "none"

StartFits ==
    /\ at \in Early => /\ tasks = {} /\ ~ready /\ ~error /\ "api" \notin serving
                       /\ \A o \in Ops : op[o] = "none"
    /\ at \in {"start observability", "start discovery"} =>
          ~listening /\ \A p \in Providers : provider[p] = "idle"
    /\ at = "bind" => ~listening
    /\ at \in {"announce", "spawn"} => listening
    /\ at = "spawn" => \A p \in Providers : provider[p] = "announced"
    /\ at \in Up => Started /\ ~error
    /\ at \in Ending => Started \/ Undone
    /\ "api" \in serving => at \in {"wait for signal", "stop api"}

StopFits ==
    /\ signalled <=> at \in AfterSignal
    /\ discovery_error => error /\ at \in AfterSignal
    /\ at \in AfterSignal => ~ready
    /\ at \in AfterSignal \cup {"begin shutdown"} => \A o \in Ops : op[o] # "reserved"
    /\ "broadcast" \notin tasks => \A o \in Ops : op[o] \in {"none", "logged", "refused"}

\* What each stage of a shutdown that was not cut has behind it, whatever
\* failed, and what it has if nothing failed.
ExitFits ==
    /\ at \in AfterSignal \ {"timed out"} =>
       /\ at \notin Withdrawn =>
             \/ \A p \in Providers : provider[p] = "announced"
             \/ error /\ \A p \in Providers : provider[p] \in {"idle", "stopped", "stuck"}
       /\ at \in Withdrawn => \A p \in Providers : provider[p] \in {"idle", "stopped", "stuck"}
       /\ at # "await broadcast" => "broadcast" \notin tasks
       /\ at \notin {"await broadcast", "await reconnect"} => "reconnect" \notin tasks
       /\ at \in Withdrawn \cup {"stop discovery"} => "anti_entropy" \notin tasks
       /\ at \in Withdrawn \ {"stop node"} => ~listening
       /\ at \in {"flush", "stop observability", "exit"} => "event" \notin tasks
    /\ ~error =>
       /\ at \in Withdrawn => \A p \in Providers : provider[p] = "stopped"
       /\ at \in {"stop observability", "exit"} => flushed = Process!Applied
       /\ at = "exit" => serving = {}

ProcessInd == ProcessType /\ StartFits /\ StopFits /\ ExitFits

LEMMA ProcessStarts == Process!LifecycleInit => ProcessInd
  BY DEF Process!LifecycleInit, ProcessInd, ProcessType, StartFits, StopFits, ExitFits, Early, Up,
         Ending, AfterSignal, Withdrawn, Started, Undone, Process!AllTasks

\* The observability server starts, or the start fails.
LEMMA ObservabilityStarts ==
    ASSUME ProcessInd, Process!start_observability
    PROVE  ProcessInd'
  <1>1. /\ at = "start observability"
        /\ \/ at' = "start discovery" /\ UNCHANGED error
           \/ at' = "stop api" /\ error' = TRUE
        /\ serving \subseteq serving' /\ serving' \subseteq serving \cup {"observability"}
        /\ UNCHANGED <<discovery_error, provider, listening, tasks, signalled, ready, op, flushed>>
    BY DEF Process!start_observability, Process!Fail, Process!Goto
  <1>6. at' = "stop api" => Undone'
    BY <1>1 DEF ProcessInd, StartFits, Early, Undone
  <1>2. ProcessType'
    BY <1>1 DEF ProcessInd, ProcessType, Early, Up, Ending, AfterSignal
  <1>3. StartFits'
    <2>1. at' \in Early =>
             /\ tasks' = {} /\ ~ready' /\ ~error' /\ "api" \notin serving'
             /\ \A o \in Ops : op'[o] = "none"
      BY <1>1 DEF ProcessInd, StartFits, Early
    <2>2. /\ at' \in {"start observability", "start discovery"} =>
                ~listening' /\ \A p \in Providers : provider'[p] = "idle"
          /\ at' = "bind" => ~listening'
          /\ at' \in {"announce", "spawn"} => listening'
          /\ at' = "spawn" => \A p \in Providers : provider'[p] = "announced"
      BY <1>1 DEF ProcessInd, StartFits
    <2>3. at' \notin Up
      BY <1>1 DEF Up
    <2>4. at' \in Ending => Started' \/ Undone'
      BY <1>1, <1>6 DEF Ending
    <2>5. "api" \notin serving'
      BY <1>1 DEF ProcessInd, StartFits, Early
    <2> QED
      BY <2>1, <2>2, <2>3, <2>4, <2>5 DEF StartFits
  <1>4. StopFits'
    BY <1>1 DEF ProcessInd, ProcessType, StartFits, StopFits, Early, Up, Ending, AfterSignal,
                Started, Undone, Process!AllTasks
  <1>5. ExitFits'
    BY <1>1 DEF ProcessInd, ProcessType, StartFits, StopFits, ExitFits, Early, Up, Ending,
                AfterSignal, Withdrawn, Started, Undone
  <1> QED
    BY <1>2, <1>3, <1>4, <1>5 DEF ProcessInd

\* The providers start, or all of them are shut down.
LEMMA DiscoveryStarts ==
    ASSUME ProcessInd, Process!StartDiscovery
    PROVE  ProcessInd'
  <1>1. /\ at = "start discovery"
        /\ \/ at' = "bind" /\ UNCHANGED error
           \/ at' = "stop api" /\ error' = TRUE
        /\ provider' \in [Providers -> {"idle", "watching", "announced", "stopped", "stuck"}]
        /\ at' = "stop api" => \A p \in Providers : provider'[p] \in {"idle", "stopped", "stuck"}
        /\ UNCHANGED <<discovery_error, listening, tasks, signalled, ready, serving, op, flushed>>
    BY DEF Process!StartDiscovery, Process!shutdown_providers, Process!Fail, Process!Goto, ProcessInd,
           ProcessType, StartFits
  <1>6. at' = "stop api" => Undone'
    BY <1>1 DEF ProcessInd, StartFits, Early, Undone
  <1>2. ProcessType'
    BY <1>1 DEF ProcessInd, ProcessType, Early, Up, Ending, AfterSignal
  <1>3. StartFits'
    <2>1. at' \in Early =>
             /\ tasks' = {} /\ ~ready' /\ ~error' /\ "api" \notin serving'
             /\ \A o \in Ops : op'[o] = "none"
      BY <1>1 DEF ProcessInd, StartFits, Early
    <2>2. /\ at' \in {"start observability", "start discovery"} =>
                ~listening' /\ \A p \in Providers : provider'[p] = "idle"
          /\ at' = "bind" => ~listening'
          /\ at' \in {"announce", "spawn"} => listening'
          /\ at' = "spawn" => \A p \in Providers : provider'[p] = "announced"
      BY <1>1 DEF ProcessInd, StartFits
    <2>3. at' \notin Up
      BY <1>1 DEF Up
    <2>4. at' \in Ending => Started' \/ Undone'
      BY <1>1, <1>6 DEF Ending
    <2>5. "api" \notin serving'
      BY <1>1 DEF ProcessInd, StartFits, Early
    <2> QED
      BY <2>1, <2>2, <2>3, <2>4, <2>5 DEF StartFits
  <1>4. StopFits'
    BY <1>1 DEF ProcessInd, ProcessType, StartFits, StopFits, Early, Up, Ending, AfterSignal,
                Started, Undone, Process!AllTasks
  <1>5. ExitFits'
    BY <1>1 DEF ProcessInd, ProcessType, StartFits, StopFits, ExitFits, Early, Up, Ending,
                AfterSignal, Withdrawn, Started, Undone
  <1> QED
    BY <1>2, <1>3, <1>4, <1>5 DEF ProcessInd

\* The listener starts, or discovery is rolled back.
LEMMA ListenerStarts ==
    ASSUME ProcessInd, Process!Bind
    PROVE  ProcessInd'
  <1>1. /\ at = "bind"
        /\ \/ at' = "announce" /\ listening' = TRUE /\ UNCHANGED error
           \/ at' = "stop api" /\ listening' = FALSE /\ error' = TRUE
        /\ provider' \in [Providers -> {"idle", "watching", "announced", "stopped", "stuck"}]
        /\ at' = "stop api" => \A p \in Providers : provider'[p] \in {"idle", "stopped", "stuck"}
        /\ UNCHANGED <<discovery_error, tasks, signalled, ready, serving, op, flushed>>
    BY DEF Process!Bind, Process!rollback, Process!shutdown_providers, Process!Fail, Process!Goto,
           ProcessInd, ProcessType
  <1>6. at' = "stop api" => Undone'
    BY <1>1 DEF ProcessInd, StartFits, Early, Undone
  <1>2. ProcessType'
    BY <1>1 DEF ProcessInd, ProcessType, Early, Up, Ending, AfterSignal
  <1>3. StartFits'
    <2>1. at' \in Early =>
             /\ tasks' = {} /\ ~ready' /\ ~error' /\ "api" \notin serving'
             /\ \A o \in Ops : op'[o] = "none"
      BY <1>1 DEF ProcessInd, StartFits, Early
    <2>2. /\ at' \in {"start observability", "start discovery"} =>
                ~listening' /\ \A p \in Providers : provider'[p] = "idle"
          /\ at' = "bind" => ~listening'
          /\ at' \in {"announce", "spawn"} => listening'
          /\ at' = "spawn" => \A p \in Providers : provider'[p] = "announced"
      BY <1>1 DEF ProcessInd, StartFits
    <2>3. at' \notin Up
      BY <1>1 DEF Up
    <2>4. at' \in Ending => Started' \/ Undone'
      BY <1>1, <1>6 DEF Ending
    <2>5. "api" \notin serving'
      BY <1>1 DEF ProcessInd, StartFits, Early
    <2> QED
      BY <2>1, <2>2, <2>3, <2>4, <2>5 DEF StartFits
  <1>4. StopFits'
    BY <1>1 DEF ProcessInd, ProcessType, StartFits, StopFits, Early, Up, Ending, AfterSignal,
                Started, Undone, Process!AllTasks
  <1>5. ExitFits'
    BY <1>1 DEF ProcessInd, ProcessType, StartFits, StopFits, ExitFits, Early, Up, Ending,
                AfterSignal, Withdrawn, Started, Undone
  <1> QED
    BY <1>2, <1>3, <1>4, <1>5 DEF ProcessInd

\* A provider announces the node, all have done so, or the start is rolled back.
LEMMA NodeIsAnnounced ==
    ASSUME ProcessInd, Process!Announce
    PROVE  ProcessInd'
  <1>1. /\ at = "announce"
        /\ \/ at' = "announce" /\ UNCHANGED <<error, listening>>
           \/ at' = "spawn" /\ UNCHANGED <<error, listening>>
           \/ at' = "stop api" /\ listening' = FALSE /\ error' = TRUE
        /\ provider' \in [Providers -> {"idle", "watching", "announced", "stopped", "stuck"}]
        /\ at' = "spawn" => \A p \in Providers : provider'[p] = "announced"
        /\ at' = "stop api" => \A p \in Providers : provider'[p] \in {"idle", "stopped", "stuck"}
        /\ UNCHANGED <<discovery_error, tasks, signalled, ready, serving, op, flushed>>
    BY DEF Process!Announce, Process!rollback, Process!shutdown_providers, Process!Fail, Process!Goto,
           ProcessInd, ProcessType
  <1>6. at' = "stop api" => Undone'
    BY <1>1 DEF ProcessInd, StartFits, Early, Undone
  <1>2. ProcessType'
    BY <1>1 DEF ProcessInd, ProcessType, Early, Up, Ending, AfterSignal
  <1>3. StartFits'
    <2>1. at' \in Early =>
             /\ tasks' = {} /\ ~ready' /\ ~error' /\ "api" \notin serving'
             /\ \A o \in Ops : op'[o] = "none"
      BY <1>1 DEF ProcessInd, StartFits, Early
    <2>2. /\ at' \in {"start observability", "start discovery"} =>
                ~listening' /\ \A p \in Providers : provider'[p] = "idle"
          /\ at' = "bind" => ~listening'
          /\ at' = "spawn" => \A p \in Providers : provider'[p] = "announced"
      BY <1>1
    <2>6. at' \in {"announce", "spawn"} => listening'
      <3>1. listening
        BY <1>1 DEF ProcessInd, StartFits
      <3> QED
        BY <1>1, <3>1
    <2>3. at' \notin Up
      BY <1>1 DEF Up
    <2>4. at' \in Ending => Started' \/ Undone'
      BY <1>1, <1>6 DEF Ending
    <2>5. "api" \notin serving'
      BY <1>1 DEF ProcessInd, StartFits, Early
    <2> QED
      BY <2>1, <2>2, <2>3, <2>4, <2>5, <2>6 DEF StartFits
  <1>4. StopFits'
    BY <1>1 DEF ProcessInd, ProcessType, StartFits, StopFits, Early, Up, Ending, AfterSignal,
                Started, Undone, Process!AllTasks
  <1>5. ExitFits'
    BY <1>1 DEF ProcessInd, ProcessType, StartFits, StopFits, ExitFits, Early, Up, Ending,
                AfterSignal, Withdrawn, Started, Undone
  <1> QED
    BY <1>2, <1>3, <1>4, <1>5 DEF ProcessInd

\* The tasks start and the node is ready.
LEMMA TasksStart ==
    ASSUME ProcessInd, Process!SpawnTasks
    PROVE  ProcessInd'
  <1>1. /\ at = "spawn"
        /\ at' \in {"guest", "start api"}
        /\ tasks' = Process!AllTasks /\ ready' = TRUE
        /\ UNCHANGED <<discovery_error, error, provider, listening, signalled, serving, op, flushed>>
    BY DEF Process!SpawnTasks, Process!Goto
  <1>6. at' \in Up /\ Started'
    BY <1>1 DEF ProcessInd, StartFits, Up, Started, Process!AllTasks
  <1>2. ProcessType'
    BY <1>1 DEF ProcessInd, ProcessType, Early, Up, Ending, AfterSignal
  <1>3. StartFits'
    BY <1>1, <1>6 DEF ProcessInd, StartFits, Early, Up, Ending
  <1>4. StopFits'
    BY <1>1 DEF ProcessInd, ProcessType, StartFits, StopFits, Early, Up, Ending, AfterSignal,
                Started, Undone, Process!AllTasks
  <1>5. ExitFits'
    BY <1>1 DEF ProcessInd, ProcessType, StartFits, StopFits, ExitFits, Early, Up, Ending,
                AfterSignal, Withdrawn, Started, Undone
  <1> QED
    BY <1>2, <1>3, <1>4, <1>5 DEF ProcessInd

\* The management API starts, or the shutdown begins.
LEMMA ApiStartsUp ==
    ASSUME ProcessInd, Process!StartApi
    PROVE  ProcessInd'
  <1>1. /\ at = "start api"
        /\ \/ at' = "wait for signal" /\ UNCHANGED error
           \/ at' = "stop api" /\ error' = TRUE /\ UNCHANGED serving
        /\ serving \subseteq serving' /\ serving' \subseteq serving \cup {"api"}
        /\ UNCHANGED <<discovery_error, provider, listening, tasks, signalled, ready, op, flushed>>
    BY DEF Process!StartApi, Process!Fail, Process!Goto
  <1>6. Started'
    BY <1>1 DEF ProcessInd, StartFits, Up, Started
  <1>2. ProcessType'
    BY <1>1 DEF ProcessInd, ProcessType, Early, Up, Ending, AfterSignal
  <1>3. StartFits'
    <2>1. at' \in Up => Started' /\ ~error'
      BY <1>1, <1>6 DEF ProcessInd, StartFits, Up
    <2>2. at' \in Ending => Started' \/ Undone'
      BY <1>6
    <2>3. "api" \in serving' => at' \in {"wait for signal", "stop api"}
      BY <1>1
    <2>4. at' \notin Early
      BY <1>1 DEF Early
    <2> QED
      BY <2>1, <2>2, <2>3, <2>4 DEF StartFits, Early
  <1>4. StopFits'
    BY <1>1 DEF ProcessInd, ProcessType, StartFits, StopFits, Early, Up, Ending, AfterSignal,
                Started, Undone, Process!AllTasks
  <1>5. ExitFits'
    BY <1>1 DEF ProcessInd, ProcessType, StartFits, StopFits, ExitFits, Early, Up, Ending,
                AfterSignal, Withdrawn, Started, Undone
  <1> QED
    BY <1>2, <1>3, <1>4, <1>5 DEF ProcessInd

\* The guest of nx run ends or fails.
LEMMA GuestIsOver ==
    ASSUME ProcessInd, Process!GuestEnds
    PROVE  ProcessInd'
  <1>1. /\ at = "guest"
        /\ \/ at' = "wait for signal" /\ UNCHANGED error
           \/ at' = "stop api" /\ error' = TRUE
        /\ UNCHANGED <<discovery_error, provider, listening, tasks, signalled, ready, serving, op, flushed>>
    BY DEF Process!GuestEnds, Process!Fail, Process!Goto
  <1>6. Started'
    BY <1>1 DEF ProcessInd, StartFits, Up, Started
  <1>2. ProcessType'
    BY <1>1 DEF ProcessInd, ProcessType, Early, Up, Ending, AfterSignal
  <1>3. StartFits'
    <2>1. at' \in Up => Started' /\ ~error'
      BY <1>1, <1>6 DEF ProcessInd, StartFits, Up
    <2>2. at' \in Ending => Started' \/ Undone'
      BY <1>6
    <2>3. "api" \in serving' => at' \in {"wait for signal", "stop api"}
      BY <1>1
    <2>4. at' \notin Early
      BY <1>1 DEF Early
    <2> QED
      BY <2>1, <2>2, <2>3, <2>4 DEF StartFits, Early
  <1>4. StopFits'
    BY <1>1 DEF ProcessInd, ProcessType, StartFits, StopFits, Early, Up, Ending, AfterSignal,
                Started, Undone, Process!AllTasks
  <1>5. ExitFits'
    BY <1>1 DEF ProcessInd, ProcessType, StartFits, StopFits, ExitFits, Early, Up, Ending,
                AfterSignal, Withdrawn, Started, Undone
  <1> QED
    BY <1>2, <1>3, <1>4, <1>5 DEF ProcessInd

\* The signal begins the shutdown.
LEMMA SignalComes ==
    ASSUME ProcessInd, Process!Signal
    PROVE  ProcessInd'
  <1>1. /\ at = "wait for signal" /\ at' = "stop api"
        /\ UNCHANGED <<discovery_error, error, provider, listening, tasks, signalled, ready, serving, op, flushed>>
    BY DEF Process!Signal, Process!Goto
  <1>2. ProcessType'
    BY <1>1 DEF ProcessInd, ProcessType, Early, Up, Ending, AfterSignal
  <1>3. StartFits'
    BY <1>1 DEF ProcessInd, ProcessType, StartFits, Early, Up, Ending, AfterSignal, Started, Undone
  <1>4. StopFits'
    BY <1>1 DEF ProcessInd, ProcessType, StartFits, StopFits, Early, Up, Ending, AfterSignal,
                Started, Undone, Process!AllTasks
  <1>5. ExitFits'
    BY <1>1 DEF ProcessInd, ProcessType, StartFits, StopFits, ExitFits, Early, Up, Ending,
                AfterSignal, Withdrawn, Started, Undone
  <1> QED
    BY <1>2, <1>3, <1>4, <1>5 DEF ProcessInd

\* The requests have ended or are aborted; their reservations go.
LEMMA ApiStops ==
    ASSUME ProcessInd, Process!StopApi
    PROVE  ProcessInd'
  <1>1. /\ at = "stop api" /\ at' = "begin shutdown"
        /\ \/ UNCHANGED error
           \/ error' = TRUE
        /\ op' \in [Ops -> {"none", "queued", "batched", "logged", "refused"}]
        /\ \A o \in Ops : op'[o] = IF op[o] = "reserved" THEN "none" ELSE op[o]
        /\ serving' = serving \ {"api"}
        /\ UNCHANGED <<discovery_error, provider, listening, tasks, signalled, ready, flushed>>
    BY DEF Process!StopApi, Process!Goto, ProcessInd, ProcessType
  <1>6. Started' \/ Undone'
    <2>1. CASE Started
      BY <1>1, <2>1 DEF Started
    <2>2. CASE Undone
      BY <1>1, <2>2 DEF Undone
    <2> QED
      BY <1>1, <2>1, <2>2 DEF ProcessInd, StartFits, Ending
  <1>2. ProcessType'
    BY <1>1 DEF ProcessInd, ProcessType, Early, Up, Ending, AfterSignal
  <1>3. StartFits'
    BY <1>1, <1>6 DEF ProcessInd, StartFits, Early, Up, Ending, AfterSignal
  <1>4. StopFits'
    BY <1>1 DEF ProcessInd, ProcessType, StartFits, StopFits, Early, Up, Ending, AfterSignal,
                Started, Undone, Process!AllTasks
  <1>5. ExitFits'
    BY <1>1 DEF ProcessInd, ProcessType, StartFits, StopFits, ExitFits, Early, Up, Ending,
                AfterSignal, Withdrawn, Started, Undone
  <1> QED
    BY <1>2, <1>3, <1>4, <1>5 DEF ProcessInd

\* The manager's tasks are told to end.
LEMMA ShutdownBegins ==
    ASSUME ProcessInd, Process!BeginShutdown
    PROVE  ProcessInd'
  <1>1. /\ at = "begin shutdown" /\ at' = "await broadcast"
        /\ ready' = FALSE /\ signalled' = TRUE
        /\ UNCHANGED <<discovery_error, error, provider, listening, tasks, serving, op, flushed>>
    BY DEF Process!BeginShutdown, Process!Goto
  <1>2. ProcessType'
    BY <1>1 DEF ProcessInd, ProcessType, Early, Up, Ending, AfterSignal
  <1>3. StartFits'
    BY <1>1 DEF ProcessInd, ProcessType, StartFits, Early, Up, Ending, AfterSignal, Started, Undone
  <1>4. StopFits'
    BY <1>1 DEF ProcessInd, ProcessType, StartFits, StopFits, Early, Up, Ending, AfterSignal,
                Started, Undone, Process!AllTasks
  <1>5. ExitFits'
    BY <1>1 DEF ProcessInd, ProcessType, StartFits, StopFits, ExitFits, Early, Up, Ending,
                AfterSignal, Withdrawn, Started, Undone
  <1> QED
    BY <1>2, <1>3, <1>4, <1>5 DEF ProcessInd

\* A task has ended.
LEMMA TasksAreAwaited ==
    ASSUME ProcessInd, Process!AwaitTasks
    PROVE  ProcessInd'
  <1>1. /\ \/ at = "await broadcast" /\ "broadcast" \notin tasks /\ at' = "await reconnect"
           \/ at = "await reconnect" /\ "reconnect" \notin tasks /\ at' = "await anti-entropy"
           \/ at = "await anti-entropy" /\ "anti_entropy" \notin tasks /\ at' = "stop discovery"
        /\ UNCHANGED <<discovery_error, error, provider, listening, tasks, signalled, ready, serving, op, flushed>>
    BY DEF Process!AwaitTasks, Process!Await, Process!Goto
  <1>2. ProcessType'
    BY <1>1 DEF ProcessInd, ProcessType, Early, Up, Ending, AfterSignal
  <1>3. StartFits'
    BY <1>1 DEF ProcessInd, ProcessType, StartFits, Early, Up, Ending, AfterSignal, Started, Undone
  <1>4. StopFits'
    BY <1>1 DEF ProcessInd, ProcessType, StartFits, StopFits, Early, Up, Ending, AfterSignal,
                Started, Undone, Process!AllTasks
  <1>5. ExitFits'
    BY <1>1 DEF ProcessInd, ProcessType, StartFits, StopFits, ExitFits, Early, Up, Ending,
                AfterSignal, Withdrawn, Started, Undone
  <1> QED
    BY <1>2, <1>3, <1>4, <1>5 DEF ProcessInd

\* The providers end or are left behind.
LEMMA DiscoveryStops ==
    ASSUME ProcessInd, Process!StopDiscovery
    PROVE  ProcessInd'
  <1>1. /\ at = "stop discovery" /\ at' = "stop node"
        /\ error' \in BOOLEAN /\ discovery_error' \in BOOLEAN
        /\ discovery_error' => error'
        /\ ~error' => ~error
        /\ provider' \in [Providers -> {"idle", "watching", "announced", "stopped", "stuck"}]
        /\ \A p \in Providers : provider'[p] \in {"idle", "stopped", "stuck"}
        /\ ~error' => \A p \in Providers : provider'[p] = "stopped"
        /\ UNCHANGED <<listening, tasks, signalled, ready, serving, op, flushed>>
    <2>1. CASE /\ \E p \in Providers : provider[p] = "announced"
               /\ Process!shutdown_providers
               /\ discovery_error' = \E p \in Providers : provider'[p] = "stuck"
      BY <2>1 DEF Process!StopDiscovery, Process!shutdown_providers, Process!Goto, ProcessInd, ProcessType
    <2>2. CASE /\ ~ \E p \in Providers : provider[p] = "announced"
               /\ UNCHANGED <<provider, discovery_error>>
      BY <2>2 DEF Process!StopDiscovery, Process!Goto, ProcessInd, ProcessType, ExitFits, Withdrawn, AfterSignal
    <2> QED
      BY <2>1, <2>2 DEF Process!StopDiscovery
  <1>2. ProcessType'
    BY <1>1 DEF ProcessInd, ProcessType, Early, Up, Ending, AfterSignal
  <1>3. StartFits'
    BY <1>1 DEF ProcessInd, ProcessType, StartFits, Early, Up, Ending, AfterSignal, Started, Undone
  <1>4. StopFits'
    BY <1>1 DEF ProcessInd, ProcessType, StartFits, StopFits, Early, Up, Ending, AfterSignal,
                Started, Undone, Process!AllTasks
  <1>5. ExitFits'
    BY <1>1 DEF ProcessInd, ProcessType, StartFits, StopFits, ExitFits, Early, Up, Ending,
                AfterSignal, Withdrawn, Started, Undone
  <1> QED
    BY <1>2, <1>3, <1>4, <1>5 DEF ProcessInd

\* The listener and the connections end.
LEMMA ListenerStops ==
    ASSUME ProcessInd, Process!StopNode
    PROVE  ProcessInd'
  <1>1. /\ at = "stop node" /\ at' = "await event"
        /\ listening' = FALSE
        /\ UNCHANGED <<discovery_error, error, provider, tasks, signalled, ready, serving, op, flushed>>
    BY DEF Process!StopNode, Process!Goto
  <1>2. ProcessType'
    BY <1>1 DEF ProcessInd, ProcessType, Early, Up, Ending, AfterSignal
  <1>3. StartFits'
    BY <1>1 DEF ProcessInd, ProcessType, StartFits, Early, Up, Ending, AfterSignal, Started, Undone
  <1>4. StopFits'
    BY <1>1 DEF ProcessInd, ProcessType, StartFits, StopFits, Early, Up, Ending, AfterSignal,
                Started, Undone, Process!AllTasks
  <1>5. ExitFits'
    BY <1>1 DEF ProcessInd, ProcessType, StartFits, StopFits, ExitFits, Early, Up, Ending,
                AfterSignal, Withdrawn, Started, Undone
  <1> QED
    BY <1>2, <1>3, <1>4, <1>5 DEF ProcessInd

\* The event loop has ended; a discovery error ends the shutdown.
LEMMA EventLoopIsAwaited ==
    ASSUME ProcessInd, Process!AwaitEvent
    PROVE  ProcessInd'
  <1>1. /\ at = "await event" /\ "event" \notin tasks
        /\ \/ discovery_error /\ at' = "exit"
           \/ ~discovery_error /\ at' = "flush"
        /\ UNCHANGED <<discovery_error, error, provider, listening, tasks, signalled, ready, serving, op, flushed>>
    BY DEF Process!AwaitEvent, Process!Goto
  <1>2. ProcessType'
    BY <1>1 DEF ProcessInd, ProcessType, Early, Up, Ending, AfterSignal
  <1>3. StartFits'
    BY <1>1 DEF ProcessInd, ProcessType, StartFits, Early, Up, Ending, AfterSignal, Started, Undone
  <1>4. StopFits'
    BY <1>1 DEF ProcessInd, ProcessType, StartFits, StopFits, Early, Up, Ending, AfterSignal,
                Started, Undone, Process!AllTasks
  <1>5. ExitFits'
    BY <1>1 DEF ProcessInd, ProcessType, StartFits, StopFits, ExitFits, Early, Up, Ending,
                AfterSignal, Withdrawn, Started, Undone
  <1> QED
    BY <1>2, <1>3, <1>4, <1>5 DEF ProcessInd

\* The flush covers all that was applied, or fails.
LEMMA StoreIsFlushed ==
    ASSUME ProcessInd, Process!Flush
    PROVE  ProcessInd'
  <1>1. /\ at = "flush"
        /\ \/ at' = "stop observability" /\ flushed' = Process!Applied /\ UNCHANGED error
           \/ at' = "exit" /\ error' = TRUE
        /\ Process!Applied' = Process!Applied
        /\ UNCHANGED <<discovery_error, provider, listening, tasks, signalled, ready, serving, op>>
    BY DEF Process!Flush, Process!Goto, Process!Applied
  <1>2. ProcessType'
    BY <1>1 DEF ProcessInd, ProcessType, Early, Up, Ending, AfterSignal
  <1>3. StartFits'
    BY <1>1 DEF ProcessInd, ProcessType, StartFits, Early, Up, Ending, AfterSignal, Started, Undone
  <1>4. StopFits'
    BY <1>1 DEF ProcessInd, ProcessType, StartFits, StopFits, Early, Up, Ending, AfterSignal,
                Started, Undone, Process!AllTasks
  <1>5. ExitFits'
    BY <1>1 DEF ProcessInd, ProcessType, StartFits, StopFits, ExitFits, Early, Up, Ending,
                AfterSignal, Withdrawn, Started, Undone
  <1> QED
    BY <1>2, <1>3, <1>4, <1>5 DEF ProcessInd

\* The last server ends.
LEMMA ObservabilityStops ==
    ASSUME ProcessInd, Process!StopObservability
    PROVE  ProcessInd'
  <1>1. /\ at = "stop observability" /\ at' = "exit"
        /\ serving' = serving \ {"observability"}
        /\ Process!Applied' = Process!Applied
        /\ UNCHANGED <<discovery_error, error, provider, listening, tasks, signalled, ready, op, flushed>>
    BY DEF Process!StopObservability, Process!Goto, Process!Applied
  <1>2. ProcessType'
    BY <1>1 DEF ProcessInd, ProcessType, Early, Up, Ending, AfterSignal
  <1>3. StartFits'
    BY <1>1 DEF ProcessInd, ProcessType, StartFits, Early, Up, Ending, AfterSignal, Started, Undone
  <1>4. StopFits'
    BY <1>1 DEF ProcessInd, ProcessType, StartFits, StopFits, Early, Up, Ending, AfterSignal,
                Started, Undone, Process!AllTasks
  <1>5. ExitFits'
    BY <1>1 DEF ProcessInd, ProcessType, StartFits, StopFits, ExitFits, Early, Up, Ending,
                AfterSignal, Withdrawn, Started, Undone
  <1> QED
    BY <1>2, <1>3, <1>4, <1>5 DEF ProcessInd

\* The timeout ends the shutdown with an error.
LEMMA ShutdownIsCut ==
    ASSUME ProcessInd, Process!Expire
    PROVE  ProcessInd'
  <1>1. /\ at \in AfterSignal /\ at' = "timed out" /\ error' = TRUE
        /\ UNCHANGED <<discovery_error, provider, listening, tasks, signalled, ready, serving, op, flushed>>
    BY DEF Process!Expire, Process!Goto, Process!Cuttable, AfterSignal
  <1>2. ProcessType'
    BY <1>1 DEF ProcessInd, ProcessType, Early, Up, Ending, AfterSignal
  <1>3. StartFits'
    BY <1>1 DEF ProcessInd, ProcessType, StartFits, Early, Up, Ending, AfterSignal, Started, Undone
  <1>4. StopFits'
    BY <1>1 DEF ProcessInd, ProcessType, StartFits, StopFits, Early, Up, Ending, AfterSignal,
                Started, Undone, Process!AllTasks
  <1>5. ExitFits'
    BY <1>1 DEF ProcessInd, ProcessType, StartFits, StopFits, ExitFits, Early, Up, Ending,
                AfterSignal, Withdrawn, Started, Undone
  <1> QED
    BY <1>2, <1>3, <1>4, <1>5 DEF ProcessInd

\* A guest that runs finds the broadcast task of a started node.
LEMMA GuestsFindTheQueue ==
    ASSUME ProcessInd, Process!GuestRuns
    PROVE  /\ Started
           /\ at \in {"guest", "wait for signal", "stop api"}
  <1>1. CASE at = "guest"
    BY <1>1 DEF ProcessInd, StartFits, Up
  <1>2. CASE "api" \in serving
    <2>1. at \in {"wait for signal", "stop api"}
      BY <1>2 DEF ProcessInd, StartFits
    <2>2. ~Undone
      BY <1>2 DEF Undone
    <2> QED
      BY <2>1, <2>2 DEF ProcessInd, StartFits, Up, Ending
  <1> QED
    BY <1>1, <1>2 DEF Process!GuestRuns

\* What the operations may do in each stage.
LEMMA OperationsMove ==
    ASSUME ProcessInd,
           op' \in [Ops -> {"none", "reserved", "queued", "batched", "logged", "refused"}],
           at \in Early => \A o \in Ops : op'[o] = "none",
           Undone => \A o \in Ops : op'[o] = "none",
           at \in AfterSignal \cup {"begin shutdown"} => \A o \in Ops : op'[o] # "reserved",
           "broadcast" \notin tasks => \A o \in Ops : op'[o] \in {"none", "logged", "refused"},
           at \in AfterSignal => Process!Applied' = Process!Applied,
           UNCHANGED <<at, error, discovery_error, provider, listening, tasks, signalled, ready, serving, flushed>>
    PROVE  ProcessInd'
  <1>1. ProcessType'
    BY DEF ProcessInd, ProcessType
  <1>2. (Started => Started') /\ (Undone => Undone')
    BY DEF Started, Undone
  <1>3. StartFits'
    BY <1>2 DEF ProcessInd, StartFits
  <1>4. StopFits'
    BY DEF ProcessInd, StopFits
  <1>5. ExitFits'
    <2>1. at \in {"stop observability", "exit"} => at \in AfterSignal
      BY DEF AfterSignal
    <2> QED
      BY <2>1 DEF ProcessInd, ExitFits
  <1> QED
    BY <1>1, <1>3, <1>4, <1>5 DEF ProcessInd

\* A guest reserves a place, applies its change or gives the place back.
LEMMA GuestsChange ==
    ASSUME ProcessInd, NEW o \in Ops,
           Process!Reserve(o) \/ Process!Apply(o) \/ Process!Release(o)
    PROVE  ProcessInd'
  <1>0. op \in [Ops -> {"none", "reserved", "queued", "batched", "logged", "refused"}]
    BY DEF ProcessInd, ProcessType
  <1>1. CASE Process!Reserve(o) \/ Process!Apply(o)
    <2>1. Started /\ at \in {"guest", "wait for signal", "stop api"}
      BY <1>1, GuestsFindTheQueue DEF Process!Reserve, Process!Apply
    <2>2. "broadcast" \in tasks /\ ~Undone
      BY <2>1 DEF Started, Undone, Process!AllTasks
    <2>3. \E s \in {"reserved", "queued"} : op' = [op EXCEPT ![o] = s]
      BY <1>1, <2>2 DEF Process!Reserve, Process!Apply
    <2>4. at \notin Early /\ at \notin AfterSignal \cup {"begin shutdown"}
      BY <2>1 DEF Early, AfterSignal
    <2>5. UNCHANGED <<at, error, discovery_error, provider, listening, tasks, signalled, ready, serving, flushed>>
      BY <1>1 DEF Process!Reserve, Process!Apply
    <2>6. op' \in [Ops -> {"none", "reserved", "queued", "batched", "logged", "refused"}]
      BY <1>0, <2>3
    <2> QED
      BY <2>2, <2>4, <2>5, <2>6, OperationsMove
  <1>2. CASE Process!Release(o)
    <2>1. op[o] = "reserved" /\ op' = [op EXCEPT ![o] = "none"]
      BY <1>2 DEF Process!Release
    <2>2. UNCHANGED <<at, error, discovery_error, provider, listening, tasks, signalled, ready, serving, flushed>>
      BY <1>2 DEF Process!Release
    <2>3. at \notin Early /\ ~Undone
      BY <2>1 DEF ProcessInd, StartFits, Undone
    <2>4. at \notin AfterSignal \cup {"begin shutdown"} /\ "broadcast" \in tasks
      BY <2>1 DEF ProcessInd, StopFits
    <2>5. op' \in [Ops -> {"none", "reserved", "queued", "batched", "logged", "refused"}]
      BY <1>0, <2>1
    <2> QED
      BY <2>2, <2>3, <2>4, <2>5, OperationsMove
  <1> QED
    BY <1>1, <1>2

\* The broadcast task takes a batch from the queue or logs it.
LEMMA BatchesMove ==
    ASSUME ProcessInd, Process!TakeBatch \/ Process!LogBatch
    PROVE  ProcessInd'
  <1>0. op \in [Ops -> {"none", "reserved", "queued", "batched", "logged", "refused"}]
    BY DEF ProcessInd, ProcessType
  <1>1. PICK S \in SUBSET Ops, s \in {"batched", "logged", "refused"} :
           /\ S # {}
           /\ \A o \in S : op[o] \in {"queued", "batched"}
           /\ op' = [o \in Ops |-> IF o \in S THEN s ELSE op[o]]
    <2>1. CASE Process!TakeBatch
      BY <2>1 DEF Process!TakeBatch, Process!Queued
    <2>2. CASE Process!LogBatch
      BY <2>2 DEF Process!LogBatch, Process!Batched
    <2> QED
      BY <2>1, <2>2
  <1>2. UNCHANGED <<at, error, discovery_error, provider, listening, tasks, signalled, ready, serving, flushed>>
    BY DEF Process!TakeBatch, Process!LogBatch
  <1>3. at \notin Early /\ ~Undone
    BY <1>1 DEF ProcessInd, StartFits, Undone
  <1>4. "broadcast" \in tasks
    BY <1>1 DEF ProcessInd, StopFits
  <1>5. op' \in [Ops -> {"none", "reserved", "queued", "batched", "logged", "refused"}]
    BY <1>0, <1>1
  <1>6. at \in AfterSignal \cup {"begin shutdown"} => \A o \in Ops : op'[o] # "reserved"
    BY <1>1 DEF ProcessInd, StopFits
  <1>7. Process!Applied' = Process!Applied
    BY <1>1 DEF Process!Applied
  <1> QED
    BY <1>2, <1>3, <1>4, <1>5, <1>6, <1>7, OperationsMove

\* The broadcast task ends at the signal with its queue drained.
LEMMA BroadcastIsOver ==
    ASSUME ProcessInd, Process!BroadcastEnds
    PROVE  /\ at \in AfterSignal
           /\ tasks' = tasks \ {"broadcast"} /\ op' = op
           /\ \A o \in Ops : op[o] \in {"none", "logged", "refused"}
  <1>0. at \in AfterSignal /\ op \in [Ops -> {"none", "reserved", "queued", "batched", "logged", "refused"}]
    BY DEF ProcessInd, ProcessType, StopFits, Process!BroadcastEnds
  <1>1. \A o \in Ops : op[o] \in {"none", "logged", "refused"}
    BY <1>0 DEF ProcessInd, StopFits, Process!BroadcastEnds, Process!DrainDone, Process!Queued, Process!Batched
  <1>2. op' = [o \in Ops |-> op[o]]
    BY <1>1 DEF Process!BroadcastEnds
  <1> QED
    BY <1>0, <1>1, <1>2 DEF Process!BroadcastEnds

\* A task ends at the signal, or one that sleeps at a deadline it cannot keep.
LEMMA TasksEnd ==
    ASSUME ProcessInd,
           Process!BroadcastEnds \/ \E t \in Process!AllTasks : Process!TaskEnds(t)
    PROVE  ProcessInd'
  <1>1. /\ tasks' \subseteq tasks /\ op' = op
        /\ "broadcast" \notin tasks' => \A o \in Ops : op[o] \in {"none", "logged", "refused"}
        /\ at \in AfterSignal \/ (tasks # {} /\ tasks \cap {"event", "broadcast"} \subseteq tasks')
    <2>1. CASE Process!BroadcastEnds
      BY <2>1, BroadcastIsOver
    <2>2. CASE \E t \in Process!AllTasks : Process!TaskEnds(t)
      <3>0. PICK t \in Process!AllTasks : Process!TaskEnds(t)
        BY <2>2
      <3>1. tasks' = tasks \ {t} /\ t \in tasks /\ t # "broadcast" /\ op' = op
        BY <3>0 DEF Process!TaskEnds
      <3>2. signalled \/ t \in {"reconnect", "anti_entropy"}
        BY <3>0 DEF Process!TaskEnds
      <3> QED
        BY <3>1, <3>2 DEF ProcessInd, StopFits
    <2> QED
      BY <2>1, <2>2
  <1>2. UNCHANGED <<at, error, discovery_error, provider, listening, signalled, ready, serving, flushed>>
    BY DEF Process!BroadcastEnds, Process!TaskEnds
  <1>3. ProcessType'
    BY <1>1, <1>2 DEF ProcessInd, ProcessType
  <1>4. StartFits'
    <2>1. CASE at \in AfterSignal
      BY <1>1, <1>2, <2>1 DEF ProcessInd, StartFits, Early, Up, Ending, AfterSignal
    <2>2. CASE at \notin AfterSignal
      <3>1. at \notin Early /\ ~Undone
        BY <1>1, <2>2 DEF ProcessInd, StartFits, Undone
      <3>2. Started => Started'
        BY <1>1, <1>2, <2>2 DEF Started
      <3> QED
        BY <1>1, <1>2, <3>1, <3>2 DEF ProcessInd, StartFits, Early
    <2> QED
      BY <2>1, <2>2
  <1>5. StopFits'
    BY <1>1, <1>2 DEF ProcessInd, StopFits
  <1>6. Process!Applied' = Process!Applied
    BY <1>1 DEF Process!Applied
  <1>7. ExitFits'
    BY <1>1, <1>2, <1>6 DEF ProcessInd, ExitFits
  <1> QED
    BY <1>3, <1>4, <1>5, <1>7 DEF ProcessInd

LEMMA ProcessStep ==
    ASSUME ProcessInd, Process!LifecycleNext
    PROVE  ProcessInd'
  <1>1. CASE Process!Main
    BY <1>1, ObservabilityStarts, DiscoveryStarts, ListenerStarts, NodeIsAnnounced, TasksStart,
       ApiStartsUp, GuestIsOver, ApiStops, ShutdownBegins, TasksAreAwaited, DiscoveryStops,
       ListenerStops, EventLoopIsAwaited, StoreIsFlushed, ObservabilityStops
       DEF Process!Main
  <1>2. CASE Process!Signal \/ Process!Expire
    BY <1>2, SignalComes, ShutdownIsCut
  <1> QED
    BY <1>1, <1>2, GuestsChange, BatchesMove, TasksEnd DEF Process!LifecycleNext

\* A step that leaves the process alone.
LEMMA ProcessIdle ==
    ASSUME ProcessInd, UNCHANGED ofProcess
    PROVE  ProcessInd'
  BY DEF ofProcess, ProcessInd, ProcessType, StartFits, StopFits, ExitFits, Started, Undone,
         Process!Applied

\* A failed start is undone; when the broadcast task has ended, what guests
\* applied is logged or was refused by the store; a shutdown that is not cut
\* leaves nothing running whichever of its steps failed, and one that reports
\* success has withdrawn and flushed everything; and a ready node is up, for any
\* providers, operations, queue and batch sizes (SyncManager::start and
\* shutdown, broadcast_batch, Runtime::shutdown_inner).
THEOREM ProcessKeepsItsPromises == Spec => []ProcessInv
  <1> DEFINE Inv == kind = "process" => ProcessInd
  <1>1. Init => Inv
    BY ProcessStarts DEF Init
  <1>2. Inv /\ [Next]_allVars => Inv'
    <2> SUFFICES ASSUME Inv, [Next]_allVars, kind = "process" PROVE ProcessInd' /\ kind' = kind
      BY DEF Next, allVars
    <2>1. kind' = kind
      BY DEF Next, allVars
    <2>2. CASE Next
      BY <2>2, ProcessStep DEF Next
    <2>3. CASE UNCHANGED allVars
      BY <2>3, ProcessIdle DEF allVars, ofNode, ofProcess
    <2> QED
      BY <2>1, <2>2, <2>3
  <1>3. Inv => ProcessInv
    <2> SUFFICES ASSUME ProcessInd PROVE Process!ProcessInv
      BY DEF ProcessInv
    <2>1. Process!FailedStartIsUndone
      BY DEF ProcessInd, StartFits, Ending, Started, Undone, Process!AllTasks,
             Process!FailedStartIsUndone
    <2>2. Process!DrainIsComplete
      BY DEF ProcessInd, StopFits, Process!Applied, Process!DrainIsComplete
    <2>3. at = "exit" => tasks = {} /\ ~listening /\ ~ready
      <3> SUFFICES ASSUME at = "exit" PROVE tasks = {} /\ ~listening /\ ~ready
        OBVIOUS
      <3>1. \A t \in {"event", "broadcast", "reconnect", "anti_entropy"} : t \notin tasks
        BY DEF ProcessInd, ExitFits, AfterSignal, Withdrawn
      <3> QED
        BY <3>1 DEF ProcessInd, ProcessType, StopFits, ExitFits, AfterSignal, Withdrawn, Process!AllTasks
    <2>4. Process!ShutdownIsWhole
      BY <2>3 DEF ProcessInd, StartFits, ExitFits, AfterSignal, Withdrawn, Process!ShutdownIsWhole
    <2>5. Process!CleanExit
      <3> SUFFICES ASSUME at = "exit", ~error
                   PROVE  /\ tasks = {} /\ ~listening /\ serving = {} /\ ~ready
                          /\ \A p \in Providers : provider[p] = "stopped"
                          /\ flushed = Process!Applied
        BY DEF Process!CleanExit
      <3> QED
        BY <2>3 DEF ProcessInd, ExitFits, Withdrawn
    <2>6. Process!ReadyIsUp
      BY DEF ProcessInd, ProcessType, StartFits, StopFits, Early, Up, Ending, AfterSignal, Started,
             Undone, Process!ReadyIsUp
    <2> QED
      BY <2>1, <2>2, <2>4, <2>5, <2>6 DEF Process!ProcessInv
  <1> QED
    BY <1>1, <1>2, <1>3, PTL DEF Spec

-----------------------------------------------------------------------------
(* The configuration.                                                      *)

\* A merged value is that of the highest layer which has one.
LEMMA FirstFacts ==
    ASSUME NEW given, NEW field, NEW default
    PROVE  LET v == Settings!First(given, field, default)
               has(layer) == Settings!Has(given, layer, field)
               value(layer) == Settings!Value(given, layer, field)
           IN /\ has("cli") => v = value("cli")
              /\ ~has("cli") /\ has("env") => v = value("env")
              /\ ~has("cli") /\ ~has("env") /\ has("file") => v = value("file")
              /\ ~has("cli") /\ ~has("env") /\ ~has("file") => v = default
  <1> DEFINE v == Settings!First(given, field, default)
             has(layer) == Settings!Has(given, layer, field)
             value(layer) == Settings!Value(given, layer, field)
             S == {i \in 1 .. 3 : has(Settings!Layers[i])}
  <1>1. v = IF S = {} THEN default ELSE value(Settings!Layers[Settings!Min(S)])
    BY Zenon DEF Settings!First
  <1>2. /\ Settings!Layers[1] = "cli" /\ Settings!Layers[2] = "env" /\ Settings!Layers[3] = "file"
    BY DEF Settings!Layers
  <1> HIDE DEF has, value, v
  <1>3. /\ S \subseteq 1 .. 3
        /\ 1 \in S <=> has("cli")
        /\ 2 \in S <=> has("env")
        /\ 3 \in S <=> has("file")
    BY <1>2
  <1> HIDE DEF S
  <1>4. Settings!Min(S) = CHOOSE x \in S : \A y \in S : x <= y
    BY Zenon DEF Settings!Min
  <1>5. ASSUME NEW n \in S, \A y \in S : n <= y PROVE Settings!Min(S) = n
    <2> DEFINE m == Settings!Min(S)
    <2>1. m \in S /\ \A y \in S : m <= y
      BY <1>4, <1>5, Zenon
    <2> HIDE DEF m
    <2>2. m = n
      BY <1>3, <1>5, <2>1
    <2> QED
      BY <2>2 DEF m
  <1>6. CASE has("cli")
    BY <1>1, <1>2, <1>3, <1>5, <1>6 DEF v, has, value
  <1>7. CASE ~has("cli") /\ has("env")
    <2>1. \A y \in S : 2 <= y
      BY <1>3, <1>7
    <2> QED
      BY <1>1, <1>2, <1>3, <1>5, <1>7, <2>1 DEF v, has, value
  <1>8. CASE ~has("cli") /\ ~has("env") /\ has("file")
    <2>1. \A y \in S : 3 <= y
      BY <1>3, <1>8
    <2> QED
      BY <1>1, <1>2, <1>3, <1>5, <1>8, <2>1 DEF v, has, value
  <1>9. CASE ~has("cli") /\ ~has("env") /\ ~has("file")
    <2>1. S = {}
      BY <1>3, <1>9
    <2> QED
      BY <1>1, <1>9, <2>1 DEF v, has, value
  <1> QED
    BY <1>6, <1>7, <1>8, <1>9 DEF v, has, value

\* What is set has its place, a value of its kind, and is set once.
SettingsFit ==
    /\ \A s \in settings :
          /\ s.layer \in {"cli", "env", "file"}
          /\ IF s.field = "mode" THEN s.value \in Settings!Modes ELSE s.value \in Nat
          /\ s.layer = "cli" /\ s.field = "ca" => s.value # 0
          /\ Settings!Settable(s)
    /\ \A s, t \in settings : s.layer = t.layer /\ s.field = t.field => s = t

\* An outcome is that of the settings as they are.
ConfigInd ==
    /\ SettingsFit
    /\ effective.status \in {"pending", "refused", "accepted"}
    /\ effective.status = "accepted" =>
          /\ Settings!validate_run_file_config
          /\ Settings!EnvReadable
          /\ Settings!resolve_with_env(Settings!from_env)
          /\ Settings!validate_sync_only(Settings!from_env)
          /\ effective = Settings!runtime_config_from_effective(Settings!from_env)

\* A layer gives a field one value.
LEMMA ValueFacts ==
    ASSUME SettingsFit, NEW given \in SUBSET settings, NEW s \in given
    PROVE  /\ Settings!Has(given, s.layer, s.field)
           /\ Settings!Value(given, s.layer, s.field) = s.value
  <1>1. \A t \in given : t.layer = s.layer /\ t.field = s.field => t = s
    BY DEF SettingsFit
  <1>2. Settings!Has(given, s.layer, s.field)
    BY Zenon DEF Settings!Has
  <1>3. (CHOOSE t \in given : t.layer = s.layer /\ t.field = s.field) = s
    BY <1>1
  <1> QED
    BY <1>2, <1>3, Zenon DEF Settings!Value

LEMMA HasFacts ==
    ASSUME SettingsFit, NEW given \in SUBSET settings, NEW layer, NEW field, Settings!Has(given, layer, field)
    PROVE  \E s \in given : s.layer = layer /\ s.field = field /\ Settings!Value(given, layer, field) = s.value
  <1>1. PICK s \in given : s.layer = layer /\ s.field = field
    BY Zenon DEF Settings!Has
  <1> QED
    BY <1>1, ValueFacts

\* A merged value is that of a setting or the default.
LEMMA FirstIsGiven ==
    ASSUME SettingsFit, NEW given \in SUBSET settings, NEW field, NEW default
    PROVE  LET v == Settings!First(given, field, default)
           IN /\ Settings!IsSet(given, field) => \E s \in given : s.field = field /\ v = s.value
              /\ ~Settings!IsSet(given, field) => v = default
              /\ \A s \in given : s.field = field =>
                    \/ v = s.value
                    \/ \E t \in given : /\ t.field = field /\ v = t.value
                                        /\ \/ t.layer = "cli" /\ s.layer \in {"env", "file"}
                                           \/ t.layer = "env" /\ s.layer = "file"
  <1> DEFINE v == Settings!First(given, field, default)
             has(layer) == Settings!Has(given, layer, field)
             value(layer) == Settings!Value(given, layer, field)
  <1>1. /\ has("cli") => v = value("cli")
        /\ ~has("cli") /\ has("env") => v = value("env")
        /\ ~has("cli") /\ ~has("env") /\ has("file") => v = value("file")
        /\ ~has("cli") /\ ~has("env") /\ ~has("file") => v = default
    BY FirstFacts
  <1>2. Settings!IsSet(given, field) <=> has("cli") \/ has("env") \/ has("file")
    BY DEF Settings!IsSet
  <1>3. \A layer : has(layer) => \E s \in given : s.layer = layer /\ s.field = field /\ value(layer) = s.value
    BY HasFacts
  <1>4. \A s \in given : s.field = field => has(s.layer) /\ value(s.layer) = s.value /\ s.layer \in {"cli", "env", "file"}
    BY ValueFacts DEF SettingsFit
  <1> HIDE DEF v, has, value
  <1>5. (has("cli") \/ has("env") \/ has("file")) => \E s \in given : s.field = field /\ v = s.value
    BY <1>1, <1>3
  <1>6. ASSUME NEW s \in given, s.field = field
        PROVE  \/ v = s.value
               \/ \E t \in given : /\ t.field = field /\ v = t.value
                                   /\ \/ t.layer = "cli" /\ s.layer \in {"env", "file"}
                                      \/ t.layer = "env" /\ s.layer = "file"
    <2>1. CASE s.layer = "cli"
      BY <1>1, <1>4, <1>6, <2>1
    <2>2. CASE s.layer = "env"
      BY <1>1, <1>3, <1>4, <1>6, <2>2
    <2>3. CASE s.layer = "file"
      BY <1>1, <1>3, <1>4, <1>6, <2>3
    <2> QED
      BY <1>4, <1>6, <2>1, <2>2, <2>3
  <1> QED
    BY <1>1, <1>2, <1>5, <1>6 DEF v

\* What is merged: the settings without the blank paths of variables.
LEMMA MergedFacts ==
    ASSUME SettingsFit
    PROVE  /\ Settings!from_env \in SUBSET settings
           /\ \A s \in settings : s.layer # "env" => s \in Settings!from_env
           /\ \A s \in Settings!from_env : s.layer = "env" /\ s.field = "ca" => s.value # 0
           /\ \A s \in settings :
                 /\ s.layer \in {"cli", "env", "file"}
                 /\ s.field \in Settings!Limits => s.layer = "file"
                 /\ s.field = "sync_only" => s.layer = "cli"
                 /\ IF s.field = "mode" THEN s.value \in Settings!Modes ELSE s.value \in Nat
  <1>1. /\ Settings!from_env \in SUBSET settings
        /\ \A s \in settings : s.layer # "env" => s \in Settings!from_env
        /\ \A s \in Settings!from_env : s.layer = "env" /\ s.field = "ca" => s.value # 0
    BY DEF Settings!from_env
  <1>2. ASSUME NEW s \in settings, s.field \in Settings!Limits PROVE s.layer = "file"
    <2>1. Settings!Settable(s) /\ s.layer \in {"cli", "env", "file"}
      BY DEF SettingsFit
    <2>2. s.field \notin Settings!CliFields /\ s.field \notin Settings!EnvFields
      BY <1>2 DEF Settings!Limits, Settings!CliFields, Settings!EnvFields, Settings!Network, Settings!Tls,
                  Settings!Required, Settings!FieldsOf, Settings!Modes
    <2> QED
      BY <2>1, <2>2 DEF Settings!Settable
  <1>3. ASSUME NEW s \in settings, s.field = "sync_only" PROVE s.layer = "cli"
    <2>1. Settings!Settable(s) /\ s.layer \in {"cli", "env", "file"}
      BY DEF SettingsFit
    <2>2. s.field \notin Settings!FileFields /\ s.field \notin Settings!EnvFields
      BY <1>3 DEF Settings!Limits, Settings!FileFields, Settings!EnvFields, Settings!Network, Settings!Tls,
                  Settings!FieldsOf, Settings!Modes
    <2> QED
      BY <2>1, <2>2 DEF Settings!Settable
  <1> QED
    BY <1>1, <1>2, <1>3 DEF SettingsFit

\* Nothing is ignored (NothingIsIgnored).
LEMMA NoneIgnored ==
    ASSUME ConfigInd
    PROVE  Settings!NothingIsIgnored
  <1> DEFINE given == Settings!from_env
             mode == Settings!Mode(given)
  <1> SUFFICES ASSUME effective.status = "accepted", NEW s \in given, NEW m \in Settings!Modes,
                      s.field \in Settings!FieldsOf[m]
               PROVE  \/ \E t \in given : /\ Settings!Rank(t.layer) < Settings!Rank(s.layer)
                                          /\ t.field = s.field \/ (t.field = "mode" /\ t.value # m)
                      \/ effective.mode = m /\ effective.fields[s.field] = s.value
    BY DEF Settings!NothingIsIgnored
  <1>1. /\ SettingsFit /\ given \in SUBSET settings /\ s.layer \in {"cli", "env", "file"}
        /\ Settings!validate_discovery_mode_fields(given)
        /\ effective = Settings!runtime_config_from_effective(given)
    BY MergedFacts DEF ConfigInd, Settings!resolve_with_env, Settings!resolve_discovery_config
  <1>2. /\ effective.mode = mode
        /\ effective.fields = [f \in Settings!FieldsOf[mode] |-> Settings!DiscoveryField(given, f)]
    BY <1>1 DEF Settings!runtime_config_from_effective
  <1>3. Settings!Rank("cli") = 1 /\ Settings!Rank("env") = 2 /\ Settings!Rank("file") = 3
    BY DEF Settings!Rank, Settings!Layers
  <1> HIDE DEF given, mode
  <1>4. CASE mode = m
    <2>1. effective.fields[s.field] = Settings!First(given, s.field, Settings!DefaultValue(s.field))
      BY <1>2, <1>4 DEF Settings!DiscoveryField
    <2>2. \/ effective.fields[s.field] = s.value
          \/ \E t \in given : /\ t.field = s.field
                              /\ \/ t.layer = "cli" /\ s.layer \in {"env", "file"}
                                 \/ t.layer = "env" /\ s.layer = "file"
      BY <1>1, <2>1, FirstIsGiven
    <2> QED
      BY <1>2, <1>3, <1>4, <2>2
  <1>5. CASE mode # m
    <2> DEFINE has(layer) == Settings!Has(given, layer, "mode")
    <2>1. /\ s.layer # "cli"
          /\ s.layer = "env" => has("cli")
          /\ s.layer = "file" => has("cli") \/ has("env")
      BY <1>1, <1>5 DEF Settings!validate_discovery_mode_fields, mode
    <2>2. /\ has("cli") => mode = Settings!Value(given, "cli", "mode")
          /\ ~has("cli") /\ has("env") => mode = Settings!Value(given, "env", "mode")
      BY FirstFacts DEF Settings!Mode, mode
    <2>3. \A layer : has(layer) =>
             \E t \in given : t.layer = layer /\ t.field = "mode" /\ Settings!Value(given, layer, "mode") = t.value
      BY <1>1, HasFacts
    <2> HIDE DEF has
    <2>4. CASE has("cli")
      <3>1. PICK t \in given : t.layer = "cli" /\ t.field = "mode" /\ t.value = mode
        BY <2>2, <2>3, <2>4
      <3>2. Settings!Rank(t.layer) < Settings!Rank(s.layer)
        BY <1>1, <1>3, <2>1, <3>1
      <3> QED
        BY <1>5, <3>1, <3>2
    <2>5. CASE ~has("cli")
      <3>1. PICK t \in given : t.layer = "env" /\ t.field = "mode" /\ t.value = mode
        BY <1>1, <2>1, <2>2, <2>3, <2>5
      <3>2. Settings!Rank(t.layer) < Settings!Rank(s.layer)
        BY <1>1, <1>3, <2>1, <2>5, <3>1
      <3> QED
        BY <1>5, <3>1, <3>2
    <2> QED
      BY <2>4, <2>5
  <1> QED
    BY <1>4, <1>5

\* What an accepted configuration is made of.
LEMMA AcceptedFacts ==
    ASSUME ConfigInd, effective.status = "accepted"
    PROVE  LET given == Settings!from_env
           IN /\ SettingsFit /\ given \in SUBSET settings
              /\ Settings!resolve_discovery_config(given)
              /\ Settings!validate_tls_flags(given)
              /\ Settings!Capacity(given).ok
              /\ Settings!build_sync_config(given)
              /\ Settings!validate_sync_only(given)
              /\ Settings!validate_run_file_config
              /\ effective.mode = Settings!Mode(given)
              /\ effective.max_candidates = Settings!Capacity(given).max
              /\ effective.fields = [f \in Settings!FieldsOf[Settings!Mode(given)] |-> Settings!DiscoveryField(given, f)]
              /\ effective.peers = Settings!Peers(given)
              /\ effective.sync = Settings!Synchronizes(given)
              /\ effective.listen = Settings!IsSet(given, "listen")
              /\ effective.tls = Settings!build_tls_config(given)
              /\ effective.delays = <<Settings!apply_limit_config(given, "reconnect_initial_delay"),
                                      Settings!apply_limit_config(given, "reconnect_max_delay")>>
  <1> DEFINE given == Settings!from_env
  <1>1. /\ SettingsFit /\ given \in SUBSET settings
        /\ Settings!resolve_with_env(given) /\ Settings!validate_sync_only(given) /\ Settings!validate_run_file_config
        /\ effective = Settings!runtime_config_from_effective(given)
    BY MergedFacts DEF ConfigInd
  <1> HIDE DEF given
  <1>2. /\ effective.mode = Settings!Mode(given)
        /\ effective.max_candidates = Settings!Capacity(given).max
        /\ effective.fields = [f \in Settings!FieldsOf[Settings!Mode(given)] |-> Settings!DiscoveryField(given, f)]
        /\ effective.peers = Settings!Peers(given)
        /\ effective.sync = Settings!Synchronizes(given)
        /\ effective.listen = Settings!IsSet(given, "listen")
        /\ effective.tls = Settings!build_tls_config(given)
        /\ effective.delays = <<Settings!apply_limit_config(given, "reconnect_initial_delay"),
                                Settings!apply_limit_config(given, "reconnect_max_delay")>>
    BY <1>1 DEF Settings!runtime_config_from_effective
  <1> QED
    BY <1>1, <1>2 DEF Settings!resolve_with_env, given

\* A setting that was merged is set.
LEMMA GivenIsSet ==
    ASSUME SettingsFit, NEW given \in SUBSET settings, NEW s \in given
    PROVE  Settings!IsSet(given, s.field)
  <1>1. s.layer \in {"cli", "env", "file"} /\ Settings!Has(given, s.layer, s.field)
    BY ValueFacts DEF SettingsFit
  <1> QED
    BY <1>1, Zenon DEF Settings!IsSet

\* A merged number is one.
LEMMA FirstIsNat ==
    ASSUME SettingsFit, NEW given \in SUBSET settings, NEW field, field # "mode", NEW default \in Nat
    PROVE  Settings!First(given, field, default) \in Nat
  <1>1. \A s \in given : s.field = field => s.value \in Nat
    BY DEF SettingsFit
  <1>2. /\ Settings!IsSet(given, field) => \E s \in given : s.field = field /\ Settings!First(given, field, default) = s.value
        /\ ~Settings!IsSet(given, field) => Settings!First(given, field, default) = default
    BY FirstIsGiven
  <1> QED
    BY <1>1, <1>2

\* What a configuration without synchronization may still say.
LEMMA QuietSettings ==
    ASSUME SettingsFit, NEW given \in SUBSET settings, ~Settings!Synchronizes(given),
           Settings!validate_tls_flags(given), Settings!validate_sync_only(given),
           NEW s \in given, s.field \in Settings!Network \cup Settings!Tls \cup Settings!Limits \cup {"sync_only"}
    PROVE  Settings!AsksForNothing(s)
  <1>1. /\ ~Settings!IsSet(given, "listen") /\ ~(Settings!Peers(given) > 0)
        /\ ~\E t \in given : t.layer = "file" /\ t.field \in Settings!Limits \cup Settings!Tls \cup Settings!Network
        /\ ~Settings!has_sync_inputs(given)
        /\ Settings!build_tls_config(given).kind = "none"
        /\ ~Settings!IsSet(given, "serialization_format")
    BY DEF Settings!Synchronizes, Settings!force_sync
  <1>2. /\ s.layer \in {"cli", "env", "file"} /\ s.value \in Nat
        /\ s.field \in Settings!Limits => s.layer = "file"
        /\ s.field = "sync_only" => s.layer = "cli"
    BY MergedFacts DEF Settings!Network, Settings!Tls, Settings!Limits
  <1>3. s.field # "sync_only"
    <2> SUFFICES ASSUME s.field = "sync_only" PROVE FALSE
      OBVIOUS
    <2>1. Settings!Has(given, "cli", "sync_only")
      BY <1>2 DEF Settings!Has
    <2> QED
      BY <2>1 DEF Settings!validate_sync_only
  <1>4. s.layer # "file"
    BY <1>1, <1>3
  <1>5. s.field \in Settings!Network \cup Settings!Tls
    BY <1>2, <1>3, <1>4
  <1>6. CASE s.layer = "env"
    <2>1. s.field = "insecure" /\ s.value = 0
      BY <1>1, <1>5, <1>6 DEF Settings!has_sync_inputs
    <2> QED
      BY <1>4, <2>1 DEF Settings!AsksForNothing
  <1>7. CASE s.layer = "cli"
    <2>1. Settings!IsSet(given, s.field)
      BY GivenIsSet
    <2>2. s.field \notin {"listen", "serialization_format"}
      BY <1>1, <2>1
    <2>3. s.field \notin {"cert", "key"}
      <3>1. /\ ~Settings!tls_insecure(given)
            /\ ~(Settings!IsSet(given, "cert") /\ Settings!IsSet(given, "key"))
        BY <1>1 DEF Settings!build_tls_config
      <3>2. Settings!IsSet(given, "cert") = Settings!IsSet(given, "key")
        BY DEF Settings!validate_tls_flags
      <3> QED
        BY <2>1, <3>1, <3>2
    <2>4. s.field = "insecure" => s.value # 1
      <3>1. ~Settings!tls_insecure(given)
        BY <1>1 DEF Settings!build_tls_config
      <3> QED
        BY <3>1 DEF Settings!tls_insecure
    <2>5. s.field = "peers" => s.value = 0
      <3> SUFFICES ASSUME s.field = "peers" PROVE s.value = 0
        OBVIOUS
      <3>1. Settings!Has(given, "cli", "peers") /\ Settings!Value(given, "cli", "peers") = s.value
        BY <1>7, ValueFacts
      <3>2. Settings!Peers(given) = s.value
        BY <3>1, FirstFacts DEF Settings!Peers
      <3> QED
        BY <1>1, <1>2, <3>2
    <2>6. s.field \in {"peers", "ca", "allowed_peers", "insecure"}
      BY <1>5, <2>2, <2>3 DEF Settings!Network, Settings!Tls
    <2> QED
      BY <1>7, <2>4, <2>5, <2>6 DEF Settings!AsksForNothing
  <1> QED
    BY <1>2, <1>4, <1>6, <1>7

\* Synchronization is not dropped (SyncIsNotDropped).
LEMMA SyncKept ==
    ASSUME ConfigInd
    PROVE  Settings!SyncIsNotDropped
  <1> DEFINE given == Settings!from_env
             named == Settings!Network \cup Settings!Tls \cup Settings!Limits \cup {"sync_only"}
  <1> SUFFICES ASSUME effective.status = "accepted"
               PROVE  /\ effective.sync => effective.listen
                      /\ ~effective.sync => /\ effective.mode = "static" /\ effective.peers = 0 /\ effective.tls.kind = "none"
                                            /\ \A s \in given : s.field \in named => Settings!AsksForNothing(s)
    BY DEF Settings!SyncIsNotDropped
  <1>1. /\ SettingsFit /\ given \in SUBSET settings
        /\ Settings!build_sync_config(given) /\ Settings!validate_sync_only(given) /\ Settings!validate_tls_flags(given)
        /\ effective.mode = Settings!Mode(given) /\ effective.peers = Settings!Peers(given)
        /\ effective.sync = Settings!Synchronizes(given)
        /\ effective.listen = Settings!IsSet(given, "listen")
        /\ effective.tls = Settings!build_tls_config(given)
    BY AcceptedFacts
  <1> HIDE DEF given
  <1>3. Settings!Peers(given) \in Nat
    BY <1>1, FirstIsNat DEF Settings!Peers
  <1>4. ASSUME ~Settings!Synchronizes(given)
        PROVE  /\ Settings!Mode(given) = "static" /\ Settings!Peers(given) = 0
               /\ Settings!build_tls_config(given).kind = "none"
               /\ \A s \in given : s.field \in named => Settings!AsksForNothing(s)
    <2>1. /\ ~(Settings!Peers(given) > 0)
          /\ Settings!Mode(given) = "static" /\ Settings!build_tls_config(given).kind = "none"
      BY <1>4 DEF Settings!Synchronizes, Settings!force_sync
    <2>2. \A s \in given : s.field \in named => Settings!AsksForNothing(s)
      BY <1>1, <1>4, QuietSettings
    <2> HIDE DEF named
    <2> QED
      BY <1>3, <2>1, <2>2
  <1> HIDE DEF named
  <1> QED
    BY <1>1, <1>4 DEF Settings!build_sync_config

\* The delays of the reconnect loop come from the file, which was checked on its own.
LEMMA DelaysInOrder ==
    ASSUME ConfigInd, effective.status = "accepted"
    PROVE  effective.delays[1] <= effective.delays[2]
  <1> DEFINE given == Settings!from_env
             file == {s \in settings : s.layer = "file"}
             low == "reconnect_initial_delay"
             high == "reconnect_max_delay"
  <1>1. /\ SettingsFit /\ given \in SUBSET settings /\ Settings!validate_run_file_config
        /\ effective.delays = <<Settings!First(given, low, 1), Settings!First(given, high, 2)>>
    BY AcceptedFacts DEF Settings!apply_limit_config, Settings!DefaultValue
  <1>2. /\ Settings!IsSet(file, low) = Settings!IsSet(file, high)
        /\ Settings!IsSet(file, high) => Settings!Value(file, "file", low) <= Settings!Value(file, "file", high)
    BY <1>1 DEF Settings!validate_run_file_config
  <1>3. \A s \in settings : s.field \in {low, high} => s.layer = "file" /\ s \in file /\ s \in given
    BY <1>1, MergedFacts DEF Settings!Limits
  <1>4. file \in SUBSET settings
    OBVIOUS
  <1> HIDE DEF given, file
  <1>5. ASSUME NEW f \in {low, high}, NEW d
        PROVE  /\ Settings!IsSet(file, f) => Settings!First(given, f, d) = Settings!Value(file, "file", f)
               /\ ~Settings!IsSet(file, f) => Settings!First(given, f, d) = d
    <2>1. ASSUME Settings!IsSet(file, f) PROVE Settings!First(given, f, d) = Settings!Value(file, "file", f)
      <3>1. PICK s \in file : s.field = f
        BY <2>1 DEF Settings!IsSet, Settings!Has
      <3>2. s \in settings /\ s.layer = "file" /\ s \in given
        BY <1>3, <1>4, <3>1
      <3>3. Settings!Value(file, "file", f) = s.value
        BY <1>1, <1>4, <3>1, <3>2, ValueFacts
      <3>4. \/ Settings!First(given, f, d) = s.value
            \/ \E t \in given : t.field = f /\ t.layer # "file"
        BY <1>1, <3>1, <3>2, FirstIsGiven
      <3> QED
        BY <1>1, <1>3, <3>3, <3>4
    <2>2. ASSUME ~Settings!IsSet(file, f) PROVE Settings!First(given, f, d) = d
      <3>1. ~Settings!IsSet(given, f)
        <4> SUFFICES ASSUME Settings!IsSet(given, f) PROVE FALSE
          OBVIOUS
        <4>1. PICK s \in given : s.field = f
          BY DEF Settings!IsSet, Settings!Has
        <4>2. s \in file
          BY <1>1, <1>3, <4>1
        <4> QED
          BY <1>1, <1>4, <2>2, <4>1, <4>2, GivenIsSet
      <3> QED
        BY <1>1, <3>1, FirstIsGiven
    <2> QED
      BY <2>1, <2>2
  <1>6. /\ effective.delays[1] = Settings!First(given, low, 1)
        /\ effective.delays[2] = Settings!First(given, high, 2)
    BY <1>1
  <1>7. CASE Settings!IsSet(file, high)
    BY <1>2, <1>5, <1>6, <1>7
  <1>8. CASE ~Settings!IsSet(file, high)
    BY <1>2, <1>5, <1>6, <1>8
  <1> QED
    BY <1>7, <1>8

\* What is resolved depends on the settings alone.
LEMMA Rigid ==
    ASSUME settings' = settings
    PROVE  /\ (Settings!from_env)' = Settings!from_env
           /\ Settings!resolve_with_env(Settings!from_env)' = Settings!resolve_with_env(Settings!from_env)
           /\ Settings!validate_sync_only(Settings!from_env)' = Settings!validate_sync_only(Settings!from_env)
           /\ Settings!runtime_config_from_effective(Settings!from_env)' =
                 Settings!runtime_config_from_effective(Settings!from_env)
           /\ (Settings!EnvReadable)' = Settings!EnvReadable
           /\ (Settings!validate_run_file_config)' = Settings!validate_run_file_config
  <1> DEFINE given == Settings!from_env
             file == {s \in settings : s.layer = "file"}
  <1>1. given' = given /\ file' = file
    BY DEF Settings!from_env
  <1> HIDE DEF given, file
  <1>2. /\ Settings!resolve_with_env(given)' = Settings!resolve_with_env(given')
        /\ Settings!validate_sync_only(given)' = Settings!validate_sync_only(given')
        /\ Settings!runtime_config_from_effective(given)' = Settings!runtime_config_from_effective(given')
        /\ Settings!resolve_discovery_config(file)' = Settings!resolve_discovery_config(file')
        /\ Settings!validate_tls_flags(file)' = Settings!validate_tls_flags(file')
        /\ Settings!tls_insecure(file)' = Settings!tls_insecure(file')
        /\ \A f : Settings!IsSet(file, f)' = Settings!IsSet(file', f)
        /\ \A f : Settings!Value(file, "file", f)' = Settings!Value(file', "file", f)
    BY DEF Settings!validate_sync_only, Settings!runtime_config_from_effective, Settings!apply_limit_config,
           Settings!resolve_with_env, Settings!resolve_discovery_config, Settings!validate_tls_flags, Settings!Capacity,
           Settings!build_sync_config, Settings!validate_discovery_mode_fields, Settings!DiscoveryField, Settings!MaxCandidates,
           Settings!validate_discovery_candidate_capacity, Settings!Mode, Settings!First, Settings!IsSet, Settings!Has,
           Settings!Value, Settings!Required, Settings!FieldsOf, Settings!Modes, Settings!Layers, Settings!DefaultValue,
           Settings!has_allowed_peers, Settings!file_allowed_peers_as_csv, Settings!tls_insecure, Settings!Synchronizes,
           Settings!Peers, Settings!force_sync, Settings!has_sync_inputs, Settings!build_tls_config, Settings!allowed_peers,
           Settings!Network, Settings!Tls, Settings!Limits, Settings!Min, Settings!Max
  <1>3. (Settings!EnvReadable)' = Settings!EnvReadable
    BY <1>1 DEF Settings!EnvReadable, given
  <1>4. (Settings!validate_run_file_config)' = Settings!validate_run_file_config
    <2>1. /\ Settings!validate_run_file_config =
                /\ \A s \in file : s.field \in {"listen", "cert", "key", "ca"} \union Settings!Limits => s.value # 0
                /\ Settings!validate_tls_flags(file)
                /\ Settings!tls_insecure(file) => ~Settings!IsSet(file, "allowed_peers")
                /\ Settings!IsSet(file, "reconnect_initial_delay") = Settings!IsSet(file, "reconnect_max_delay")
                /\ Settings!IsSet(file, "reconnect_max_delay") =>
                      Settings!Value(file, "file", "reconnect_initial_delay") <=
                         Settings!Value(file, "file", "reconnect_max_delay")
                /\ Settings!resolve_discovery_config(file)
      BY DEF Settings!validate_run_file_config, file
    <2>2. /\ (Settings!validate_run_file_config)' =
                /\ \A s \in file' : s.field \in {"listen", "cert", "key", "ca"} \union Settings!Limits => s.value # 0
                /\ Settings!validate_tls_flags(file)'
                /\ Settings!tls_insecure(file)' => ~Settings!IsSet(file, "allowed_peers")'
                /\ Settings!IsSet(file, "reconnect_initial_delay")' = Settings!IsSet(file, "reconnect_max_delay")'
                /\ Settings!IsSet(file, "reconnect_max_delay")' =>
                      Settings!Value(file, "file", "reconnect_initial_delay")' <=
                         Settings!Value(file, "file", "reconnect_max_delay")'
                /\ Settings!resolve_discovery_config(file)'
      BY DEF Settings!validate_run_file_config, file, Settings!Limits
    <2> QED
      BY <1>1, <1>2, <2>1, <2>2
  <1> QED
    BY <1>1, <1>2, <1>3, <1>4 DEF given

\* What is accepted is consistent (AcceptedIsConsistent).
LEMMA AcceptedConsistent ==
    ASSUME ConfigInd
    PROVE  Settings!AcceptedIsConsistent
  <1> DEFINE given == Settings!from_env
             mode == Settings!Mode(given)
             a == Settings!MaxCandidates(given)
             b == Settings!Peers(given)
             max == Settings!Max({a, b})
  <1> SUFFICES ASSUME effective.status = "accepted"
               PROVE  /\ effective.peers <= effective.max_candidates
                      /\ effective.delays[1] <= effective.delays[2]
                      /\ effective.mode = "bootstrap" =>
                            /\ effective.max_candidates <= MaxBootstrapCandidates
                            /\ effective.fields["retry_initial"] <= effective.fields["retry_max"]
    BY DEF Settings!AcceptedIsConsistent
  <1>1. /\ SettingsFit /\ given \in SUBSET settings
        /\ Settings!resolve_discovery_config(given)
        /\ Settings!Capacity(given).ok
        /\ effective.mode = mode
        /\ effective.max_candidates = Settings!Capacity(given).max
        /\ effective.fields = [f \in Settings!FieldsOf[mode] |-> Settings!DiscoveryField(given, f)]
        /\ effective.peers = b
    BY AcceptedFacts
  <1>2. /\ Settings!Capacity(given).max = max
        /\ mode = "bootstrap" => max <= MaxBootstrapCandidates
    BY <1>1 DEF Settings!Capacity, Settings!validate_discovery_candidate_capacity
  <1>3. a \in Nat /\ b \in Nat
    BY <1>1, FirstIsNat, SettingsAssumption DEF Settings!MaxCandidates, Settings!Peers
  <1>4. b <= max
    <2> HIDE DEF a, b
    <2>1. \E x \in {a, b} : \A y \in {a, b} : x >= y
      BY <1>3
    <2>2. max \in {a, b} /\ \A y \in {a, b} : max >= y
      BY <2>1 DEF Settings!Max
    <2> HIDE DEF max
    <2> QED
      BY <1>3, <2>2
  <1>5. ASSUME mode = "bootstrap" PROVE effective.fields["retry_initial"] <= effective.fields["retry_max"]
    <2>1. {"retry_initial", "retry_max"} \subseteq Settings!FieldsOf["bootstrap"]
      BY DEF Settings!FieldsOf
    <2>2. Settings!DiscoveryField(given, "retry_initial") <= Settings!DiscoveryField(given, "retry_max")
      BY <1>1, <1>5 DEF Settings!resolve_discovery_config
    <2> HIDE DEF given, mode
    <2> QED
      BY <1>1, <1>5, <2>1, <2>2
  <1> QED
    BY <1>1, <1>2, <1>4, <1>5, DelaysInOrder

\* The layers agree on TLS (OneTlsPolicy).
LEMMA TlsAgrees ==
    ASSUME ConfigInd
    PROVE  Settings!OneTlsPolicy
  <1> DEFINE given == Settings!from_env
             listed == Settings!file_allowed_peers_as_csv(given)
  <1> SUFFICES ASSUME effective.status = "accepted"
               PROVE  /\ \A s \in given : s.field \in {"cert", "key"} => effective.tls.kind # "none"
                      /\ effective.tls.kind = "insecure" =>
                            ~\E s \in given : s.field = "ca" \/ (s.field = "allowed_peers" /\ s.value # 0)
                      /\ effective.tls.kind = "certificates" =>
                            /\ \A s \in given : s.field = "ca" => effective.tls.ca # 0
                            /\ \A s \in given :
                                  /\ s.field = "allowed_peers"
                                  /\ \A t \in given : t.field = "allowed_peers" => t.value # 0
                                  => effective.tls.allowed_peers # 0
                      /\ effective.tls.allowed_peers # 0 => effective.tls.ca # 0
    BY DEF Settings!OneTlsPolicy
  <1>1. /\ SettingsFit /\ given \in SUBSET settings
        /\ Settings!validate_tls_flags(given) /\ Settings!validate_run_file_config
        /\ effective.tls = Settings!build_tls_config(given)
    BY AcceptedFacts
  <1>2. \A s \in given : s.field = "ca" => s.value # 0
    <2> SUFFICES ASSUME NEW s \in given, s.field = "ca" PROVE s.value # 0
      OBVIOUS
    <2>1. s \in settings /\ s.layer \in {"cli", "env", "file"}
      BY <1>1 DEF SettingsFit
    <2>2. CASE s.layer = "cli"
      BY <1>1, <2>1, <2>2 DEF SettingsFit
    <2>3. CASE s.layer = "env"
      BY <1>1, <2>3, MergedFacts
    <2>4. CASE s.layer = "file"
      BY <1>1, <2>1, <2>4 DEF Settings!validate_run_file_config
    <2> QED
      BY <2>1, <2>2, <2>3, <2>4
  <1> HIDE DEF given
  <1>3. /\ listed \in SUBSET given
        /\ \A s \in given : s.field = "allowed_peers" /\ s.value # 0 => s \in listed
    BY DEF Settings!file_allowed_peers_as_csv
  <1>4. ASSUME Settings!tls_insecure(given), NEW s \in given,
               s.field = "ca" \/ (s.field = "allowed_peers" /\ s.value # 0)
        PROVE  FALSE
    <2>1. ~Settings!IsSet(given, "ca") /\ ~Settings!IsSet(listed, "allowed_peers")
      BY <1>1, <1>4 DEF Settings!validate_tls_flags, Settings!has_allowed_peers
    <2>2. CASE s.field = "ca"
      BY <1>1, <2>1, <2>2, GivenIsSet
    <2>3. CASE s.field = "allowed_peers" /\ s.value # 0
      <3>1. s \in listed /\ listed \in SUBSET settings
        BY <1>1, <1>3, <2>3
      <3> HIDE DEF listed
      <3> QED
        BY <1>1, <2>1, <2>3, <3>1, GivenIsSet
    <2> QED
      BY <1>4, <2>2, <2>3
  <1>5. effective.tls.kind = "insecure" => Settings!tls_insecure(given)
    BY <1>1 DEF Settings!build_tls_config
  <1>6. ASSUME effective.tls.allowed_peers # 0 PROVE effective.tls.ca # 0
    <2>1. /\ ~Settings!tls_insecure(given)
          /\ effective.tls.ca = Settings!First(given, "ca", 0)
          /\ Settings!First(listed, "allowed_peers", 0) # 0
      BY <1>1, <1>6 DEF Settings!build_tls_config, Settings!allowed_peers
    <2>2. Settings!IsSet(listed, "allowed_peers")
      <3>1. listed \in SUBSET settings
        BY <1>1, <1>3
      <3> HIDE DEF listed
      <3> QED
        BY <1>1, <2>1, <3>1, FirstIsGiven
    <2>3. Settings!IsSet(given, "ca")
      BY <1>1, <2>1, <2>2 DEF Settings!validate_tls_flags, Settings!has_allowed_peers
    <2>4. \E s \in given : s.field = "ca" /\ Settings!First(given, "ca", 0) = s.value
      BY <1>1, <2>3, FirstIsGiven
    <2> QED
      BY <1>2, <2>1, <2>4
  <1>7. ASSUME NEW s \in given, s.field \in {"cert", "key"} PROVE effective.tls.kind # "none"
    <2>1. Settings!IsSet(given, "cert") /\ Settings!IsSet(given, "key")
      <3>1. Settings!IsSet(given, s.field)
        BY <1>1, GivenIsSet
      <3>2. Settings!IsSet(given, "cert") = Settings!IsSet(given, "key")
        BY <1>1 DEF Settings!validate_tls_flags
      <3>3. CASE s.field = "cert"
        BY <3>1, <3>2, <3>3
      <3>4. CASE s.field = "key"
        BY <3>1, <3>2, <3>4
      <3> QED
        BY <1>7, <3>3, <3>4
    <2> QED
      BY <1>1, <2>1 DEF Settings!build_tls_config
  <1>8. ASSUME effective.tls.kind = "certificates"
        PROVE  /\ effective.tls.ca = Settings!First(given, "ca", 0)
               /\ effective.tls.allowed_peers = Settings!First(listed, "allowed_peers", 0)
    BY <1>1, <1>8 DEF Settings!build_tls_config, Settings!allowed_peers
  <1>9. ASSUME effective.tls.kind = "certificates", NEW s \in given, s.field = "ca" PROVE effective.tls.ca # 0
    <2>1. Settings!IsSet(given, "ca")
      BY <1>1, <1>9, GivenIsSet
    <2>2. \E t \in given : t.field = "ca" /\ Settings!First(given, "ca", 0) = t.value
      BY <1>1, <2>1, FirstIsGiven
    <2> QED
      BY <1>2, <1>8, <1>9, <2>2
  <1>10. ASSUME effective.tls.kind = "certificates", NEW s \in given, s.field = "allowed_peers",
                \A t \in given : t.field = "allowed_peers" => t.value # 0
         PROVE  effective.tls.allowed_peers # 0
    <2>1. s \in listed /\ listed \in SUBSET settings /\ listed \in SUBSET given
      BY <1>1, <1>3, <1>10
    <2>2. effective.tls.allowed_peers = Settings!First(listed, "allowed_peers", 0)
      BY <1>8, <1>10
    <2> HIDE DEF listed
    <2>3. Settings!IsSet(listed, "allowed_peers")
      BY <1>1, <1>10, <2>1, GivenIsSet
    <2>4. \E t \in listed : t.field = "allowed_peers" /\ Settings!First(listed, "allowed_peers", 0) = t.value
      BY <1>1, <2>1, <2>3, FirstIsGiven
    <2> QED
      BY <1>10, <2>1, <2>2, <2>4
  <1> HIDE DEF listed
  <1> QED
    BY <1>4, <1>5, <1>6, <1>7, <1>9, <1>10

\* Settings are added, then resolved once.
LEMMA ConfigStep ==
    ASSUME ConfigInd, Settings!ConfigNext
    PROVE  ConfigInd'
  <1>1. ASSUME NEW choice \in SettingGroups, NEW s \in choice, Settings!Settable(s), Settings!Set(s)
        PROVE  ConfigInd'
    <2>1. /\ effective.status = "pending" /\ effective' = effective
          /\ settings' = settings \union {s}
          /\ ~\E t \in settings : t.layer = s.layer /\ t.field = s.field
      BY <1>1 DEF Settings!Set, Settings!Has
    <2>2. SettingsFit'
      <3>1. /\ s.layer \in {"cli", "env", "file"}
            /\ IF s.field = "mode" THEN s.value \in Settings!Modes ELSE s.value \in Nat
            /\ s.layer = "cli" /\ s.field = "ca" => s.value # 0
        BY SettingsAssumption
      <3>2. SettingsFit
        BY DEF ConfigInd
      <3>3. \A t \in settings' : Settings!Settable(t)
        BY <1>1, <2>1, <3>2 DEF SettingsFit
      <3>4. \A t \in settings' :
              /\ t.layer \in {"cli", "env", "file"}
              /\ IF t.field = "mode" THEN t.value \in Settings!Modes ELSE t.value \in Nat
              /\ t.layer = "cli" /\ t.field = "ca" => t.value # 0
        BY <2>1, <3>1, <3>2 DEF SettingsFit
      <3>5. \A t, u \in settings' : t.layer = u.layer /\ t.field = u.field => t = u
        BY <2>1, <3>2 DEF SettingsFit
      <3> QED
        BY <3>3, <3>4, <3>5 DEF SettingsFit
    <2> QED
      BY <2>1, <2>2 DEF ConfigInd
  <1>2. ASSUME Settings!resolve_node_args PROVE ConfigInd'
    <2> DEFINE ok == /\ Settings!validate_run_file_config /\ Settings!EnvReadable
                     /\ Settings!resolve_with_env(Settings!from_env) /\ Settings!validate_sync_only(Settings!from_env)
               result == Settings!runtime_config_from_effective(Settings!from_env)
    <2>1. settings' = settings /\ SettingsFit
      BY <1>2 DEF Settings!resolve_node_args, ConfigInd
    <2>2. effective' = IF ok THEN result ELSE [Settings!Pending EXCEPT !.status = "refused"]
      BY <1>2 DEF Settings!resolve_node_args
    <2>3. result.status = "accepted" /\ [Settings!Pending EXCEPT !.status = "refused"].status = "refused"
      BY DEF Settings!runtime_config_from_effective, Settings!Pending
    <2>4. SettingsFit'
      BY <2>1 DEF SettingsFit, Settings!Settable, Settings!Modes, Settings!FieldsOf, Settings!CliFields,
                  Settings!EnvFields, Settings!FileFields, Settings!Network, Settings!Tls, Settings!Limits,
                  Settings!Required
    <2>5. CASE ok
      <3>1. effective' = result
        BY <2>2, <2>5
      <3> QED
        BY <2>1, <2>3, <2>4, <2>5, <3>1, Rigid DEF ConfigInd
    <2>6. CASE ~ok
      <3>1. effective'.status = "refused"
        BY <2>2, <2>3, <2>6
      <3> QED
        BY <2>4, <3>1 DEF ConfigInd
    <2> QED
      BY <2>5, <2>6
  <1> QED
    BY <1>1, <1>2 DEF Settings!ConfigNext

LEMMA ConfigIdle ==
    ASSUME ConfigInd, settings' = settings, effective' = effective
    PROVE  ConfigInd'
  <1>1. SettingsFit'
    BY DEF ConfigInd, SettingsFit, Settings!Settable, Settings!Modes, Settings!FieldsOf, Settings!CliFields,
           Settings!EnvFields, Settings!FileFields, Settings!Network, Settings!Tls, Settings!Limits,
           Settings!Required
  <1> QED
    BY <1>1, Rigid DEF ConfigInd

(* Whatever flags, variables and the file say, what is accepted leaves no  *)
(* setting of discovery out that no higher layer overrides, drops no       *)
(* synchronization, has room for its peers and its delays in order, and    *)
(* has one policy of TLS (resolve_node_args, main.rs:384, and             *)
(* resolve_with_env, config.rs:176), for any number of settings and values. *)
THEOREM SettingsCombine == Spec => []SettingsAgree
  <1> DEFINE Inv == kind = "config" => ConfigInd
  <1>1. Init => Inv
    <2> SUFFICES ASSUME Settings!ConfigInit PROVE ConfigInd
      BY DEF Init
    <2> QED
      BY DEF Settings!ConfigInit, Settings!Pending, ConfigInd, SettingsFit
  <1>2. Inv /\ [Next]_allVars => Inv'
    <2> SUFFICES ASSUME Inv, [Next]_allVars, kind' = "config" PROVE ConfigInd'
      OBVIOUS
    <2>1. CASE Next
      <3>1. kind = "config" /\ Settings!ConfigNext
        BY <2>1 DEF Next
      <3> QED
        BY <3>1, ConfigStep
    <2>2. CASE UNCHANGED allVars
      <3>1. kind' = kind /\ settings' = settings /\ effective' = effective
        BY <2>2 DEF allVars, ofRest, ofConfig
      <3>2. ConfigInd
        BY <3>1
      <3> QED
        BY <3>1, <3>2, ConfigIdle
    <2> QED
      BY <2>1, <2>2
  <1>3. Inv => SettingsAgree
    BY NoneIgnored, SyncKept, AcceptedConsistent, TlsAgrees DEF SettingsAgree, Settings!SettingsAgree
  <1> QED
    BY <1>1, <1>2, <1>3, PTL DEF Spec
=============================================================================
