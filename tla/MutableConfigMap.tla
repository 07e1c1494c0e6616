-------------------------- MODULE MutableConfigMap --------------------------
(***************************************************************************)
(* The "mutable" ConfigMap of a workflow run, the only object that the     *)
(* operator and the metadata API both write.                               *)
(*                                                                         *)
(*   - A step publishes an output through the metadata API, which runs     *)
(*     MutateConfigMap (pkg/manager/configmap): Get, change one key in the *)
(*     local copy, Update the whole object, and start over when the API    *)
(*     server answers Conflict or NotFound.                                *)
(*   - The operator copies the state of the WorkflowRun (answers given by  *)
(*     users) into the same object on every reconciliation: it loads the   *)
(*     object from its informer cache, changes the copy with a             *)
(*     LocalConfigMap, and creates or updates the object                   *)
(*     (ApplyWorkflowRunDeps).  Any error puts the run back on the queue.  *)
(*                                                                         *)
(* The API server accepts an Update only from the current resourceVersion; *)
(* an Update that changes nothing leaves the resourceVersion alone.  Both  *)
(* writers replace the whole object, so this version check is all that     *)
(* keeps one from undoing the other.                                       *)
(***************************************************************************)
EXTENDS Naturals

CONSTANTS
    Client,         \* concurrent requests to the metadata API
    Output,         \* output keys (one per step and output name)
    Value,          \* encoded output values
    None,           \* a key that is not in the map's Data
    Absent,         \* an object that does not exist
    MaxRequests,    \* bound: requests sent by one client
    MaxState,       \* bound: changes users make to the state of the run
    MaxDeletes,     \* bound: deletions of the object by others
    MaxFailures     \* bound: failed calls, crashes and restarts

\* A stored object.  `state` is the version of the run's state it holds,
\* 0 when the run had none; `uid` names this incarnation of the object.
Object == [uid : Nat, rv : Nat, outputs : [Output -> Value \cup {None}], state : Nat]

ASSUME SentinelAssumption == Absent \notin Object /\ None \notin Value

ASSUME MapAssumption == Absent \notin [Output -> Value \cup {None}]

ASSUME BoundAssumption ==
    MaxRequests \in Nat /\ MaxState \in Nat /\ MaxDeletes \in Nat /\ MaxFailures \in Nat

VARIABLES
    store,      \* the object in the API server, or Absent
    rev,        \* the last resourceVersion given out
    client,     \* per client: its request and the local variables of MutateConfigMap
    issued,     \* per client: requests sent so far
    runState,   \* version of the WorkflowRun's state in the API server
    runCache,   \* the same, in the operator's informer cache
    mapCache,   \* the object, in the operator's informer cache
    op,         \* the operator's reconciliation: pc and local variables
    queued,     \* the run is on the operator's work queue
    deletes, failures

clientVars == <<client, issued>>
opVars == <<runCache, mapCache, op, queued>>
vars == <<store, rev, client, issued, runState, runCache, mapCache, op, queued,
          deletes, failures>>

-----------------------------------------------------------------------------
(* The API server. *)

\* An Update from this copy passes the precondition: the object exists
\* (otherwise NotFound) and has the copy's resourceVersion (otherwise Conflict).
Current(obj) == store # Absent /\ obj # Absent /\ obj.rv = store.rv

\* Store a copy: a new resourceVersion, unless nothing changed.
Put(obj) ==
    IF obj = store
    THEN UNCHANGED <<store, rev>>
    ELSE /\ rev' = rev + 1
         /\ store' = [obj EXCEPT !.rv = rev + 1]

-----------------------------------------------------------------------------
(* The metadata API: PutOutput, GetOutput, KVConfigMap, MutateConfigMap. *)

Busy(c) == client[c].pc \in {"read", "get", "write", "applied"}

\* A request arrives.  Once authenticated it gets a manager over the map.
Request(c, verb, name, value) ==
    /\ ~ Busy(c)
    /\ issued[c] < MaxRequests
    /\ issued' = [issued EXCEPT ![c] = @ + 1]
    /\ client' = [client EXCEPT ![c] =
            [verb |-> verb, name |-> name, obj |-> Absent,
             value |-> IF verb = "PUT" THEN value ELSE None,
             pc |-> IF verb = "PUT" THEN "get" ELSE "read"]]
    /\ UNCHANGED <<store, rev, runState, opVars, deletes, failures>>

\* KVConfigMap.Get: a missing object and a missing key are both ErrNotFound.
GetOutput(c) ==
    /\ client[c].pc = "read"
    /\ client' = [client EXCEPT ![c] = [@ EXCEPT !.pc = "ok",
            !.value = IF store = Absent THEN None ELSE store.outputs[client[c].name]]]
    /\ UNCHANGED <<store, rev, issued, runState, opVars, deletes, failures>>

\* MutateConfigMap: obj, err := cm.Get(ctx), where NotFound gives an empty object.
MutateGet(c) ==
    /\ client[c].pc = "get"
    /\ client' = [client EXCEPT ![c] = [@ EXCEPT !.pc = "write", !.obj = store]]
    /\ UNCHANGED <<store, rev, issued, runState, opVars, deletes, failures>>

\* A new Data with this key alone.
MutatedFreshData(c) == [client[c].obj EXCEPT !.outputs = [n \in {client[c].name} |-> client[c].value]]

\* fn(obj): KVConfigMap.Set sets one key of the copy.
Mutated(c) == [client[c].obj EXCEPT !.outputs[client[c].name] = client[c].value]

\* An Update without a resourceVersion, which the API server never refuses.
MutateUpdateUnconditional(c) ==
    /\ client[c].pc = "write"
    /\ store # Absent /\ client[c].obj # Absent
    /\ Put(Mutated(c))
    /\ client' = [client EXCEPT ![c] = [@ EXCEPT !.pc = "applied", !.obj = Absent]]
    /\ UNCHANGED <<issued, runState, opVars, deletes, failures>>

\* CreateOrUpdate of a copy that has a UID is an Update.
MutateUpdate(c) ==
    /\ client[c].pc = "write"
    /\ Current(client[c].obj)
    /\ Put(Mutated(c))
    /\ client' = [client EXCEPT ![c] = [@ EXCEPT !.pc = "applied", !.obj = Absent]]
    /\ UNCHANGED <<issued, runState, opVars, deletes, failures>>

\* A loop that tries the same copy again, without a new Get.
MutateRetrySameCopy(c) ==
    /\ client[c].pc = "write"
    /\ client[c].obj # Absent
    /\ ~ Current(client[c].obj)
    /\ UNCHANGED vars

\* Conflict or NotFound: "Updated/deleted from under us. Try again."
MutateRetry(c) ==
    /\ client[c].pc = "write"
    /\ client[c].obj # Absent
    /\ ~ Current(client[c].obj)
    /\ client' = [client EXCEPT ![c] = [@ EXCEPT !.pc = "get", !.obj = Absent]]
    /\ UNCHANGED <<store, rev, issued, runState, opVars, deletes, failures>>

\* CreateOrUpdate of an object without a UID is a Create, which the role of
\* the metadata API does not allow (get and update only): an error.
MutateCreate(c) ==
    /\ client[c].pc = "write"
    /\ client[c].obj = Absent
    /\ client' = [client EXCEPT ![c].pc = "error"]
    /\ UNCHANGED <<store, rev, issued, runState, opVars, deletes, failures>>

\* The Update's answer arrives: 201 Created.
PutReply(c) ==
    /\ client[c].pc = "applied"
    /\ client' = [client EXCEPT ![c].pc = "ok"]
    /\ UNCHANGED <<store, rev, issued, runState, opVars, deletes, failures>>

\* A call fails or times out, or the process stops: the request fails,
\* whether or not its Update had been applied.
RequestFails(c) ==
    /\ Busy(c)
    /\ failures < MaxFailures
    /\ failures' = failures + 1
    /\ client' = [client EXCEPT ![c] = [@ EXCEPT !.pc = "error", !.obj = Absent]]
    /\ UNCHANGED <<store, rev, issued, runState, opVars, deletes>>

-----------------------------------------------------------------------------
(* The operator: ApplyWorkflowRunDeps, as far as the mutable map goes. *)

NoReconcile == [pc |-> "idle", state |-> 0, obj |-> Absent]

\* Reconcile: the run is loaded from the cache.
LoadRun ==
    /\ op.pc = "idle"
    /\ queued
    /\ queued' = FALSE
    /\ op' = [op EXCEPT !.pc = "load", !.state = runCache]
    /\ UNCHANGED <<store, rev, clientVars, runState, runCache, mapCache, deletes, failures>>

\* Changing the cached object itself instead of a copy.
LoadMapInPlace ==
    /\ op.pc = "load"
    /\ mapCache' = IF mapCache = Absent THEN Absent ELSE [mapCache EXCEPT !.state = op.state]
    /\ op' = [op EXCEPT !.pc = "persist", !.obj = mapCache']
    /\ UNCHANGED <<store, rev, clientVars, runState, runCache, queued, deletes, failures>>

\* deps.Load: the map is loaded from the cache, possibly an old version.
LoadMap ==
    /\ op.pc = "load"
    /\ op' = [op EXCEPT !.pc = "persist", !.obj = mapCache]
    /\ UNCHANGED <<store, rev, clientVars, runState, runCache, mapCache, queued,
                   deletes, failures>>

\* Building the Data anew, as for the immutable map.
ConfiguredAnew(obj, state) ==
    [obj EXCEPT !.state = state, !.outputs = [n \in Output |-> None]]

\* ConfigureMutableConfigMapForWorkflowRun on the loaded copy.
Configured(obj, state) == [obj EXCEPT !.state = state]

Finished(again) ==
    /\ op' = NoReconcile
    /\ queued' = again
    /\ UNCHANGED <<clientVars, runState, runCache, mapCache, deletes>>

\* Persist, no object loaded: Create.
PersistCreate ==
    /\ op.pc = "persist"
    /\ op.obj = Absent
    /\ store = Absent
    /\ rev' = rev + 1
    /\ store' = [uid |-> rev + 1, rv |-> rev + 1, state |-> op.state,
                 outputs |-> [n \in Output |-> None]]
    /\ Finished(queued)
    /\ UNCHANGED failures

\* Persist, object loaded: Update.
PersistUpdate ==
    /\ op.pc = "persist"
    /\ Current(op.obj)
    /\ Put(Configured(op.obj, op.state))
    /\ Finished(queued)
    /\ UNCHANGED failures

\* Dropping the run on a conflict.
PersistRejectedDropped ==
    /\ op.pc = "persist"
    /\ IF op.obj = Absent THEN store # Absent ELSE ~ Current(op.obj)
    /\ Finished(queued)
    /\ UNCHANGED <<store, rev, failures>>

\* AlreadyExists, Conflict or NotFound: the error puts the run back on the queue.
PersistRejected ==
    /\ op.pc = "persist"
    /\ IF op.obj = Absent THEN store # Absent ELSE ~ Current(op.obj)
    /\ Finished(TRUE)
    /\ UNCHANGED <<store, rev, failures>>

\* A call of the reconciliation fails: an error, hence another attempt.
ReconcileFails ==
    /\ op.pc # "idle"
    /\ failures < MaxFailures
    /\ failures' = failures + 1
    /\ Finished(TRUE)
    /\ UNCHANGED <<store, rev>>

\* The operator restarts: its informers list everything again and enqueue it.
OperatorRestart ==
    /\ failures < MaxFailures
    /\ failures' = failures + 1
    /\ op' = NoReconcile
    /\ runCache' = runState
    /\ mapCache' = store
    /\ queued' = TRUE
    /\ UNCHANGED <<store, rev, clientVars, runState, deletes>>

\* A watch event of the run updates the cache, then enqueues the run.
RunEvent ==
    /\ runCache # runState
    /\ runCache' = runState
    /\ queued' = TRUE
    /\ UNCHANGED <<store, rev, clientVars, runState, mapCache, op, deletes, failures>>

\* ConfigMaps are cached on first use but the controller does not watch them.
MapEvent ==
    /\ mapCache # store
    /\ mapCache' = store
    /\ UNCHANGED <<store, rev, clientVars, runState, runCache, op, queued, deletes, failures>>

-----------------------------------------------------------------------------
(* The environment. *)

\* A user answers a question or cancels: the state of the run changes.
ChangeState ==
    /\ runState < MaxState
    /\ runState' = runState + 1
    /\ UNCHANGED <<store, rev, clientVars, opVars, deletes, failures>>

\* Someone deletes the object.
DeleteMap ==
    /\ store # Absent
    /\ deletes < MaxDeletes
    /\ deletes' = deletes + 1
    /\ store' = Absent
    /\ UNCHANGED <<rev, clientVars, runState, opVars, failures>>

-----------------------------------------------------------------------------
Init ==
    /\ store = Absent
    /\ rev = 0
    /\ client \in [Client -> {[verb |-> "GET", name |-> n, value |-> None,
                               pc |-> "idle", obj |-> Absent] : n \in Output}]
    /\ issued = [c \in Client |-> 0]
    /\ runState = 0
    /\ runCache = 0
    /\ mapCache = Absent
    /\ op = NoReconcile
    /\ queued = TRUE
    /\ deletes = 0
    /\ failures = 0

ClientStep(c) ==
    \/ GetOutput(c)
    \/ MutateGet(c)
    \/ MutateUpdate(c)
    \/ MutateRetry(c)
    \/ MutateCreate(c)
    \/ PutReply(c)

OperatorStep ==
    LoadRun \/ LoadMap \/ PersistCreate \/ PersistUpdate \/ PersistRejected

Next ==
    \/ \E c \in Client :
          \/ \E verb \in {"GET", "PUT"}, name \in Output, value \in Value :
                Request(c, verb, name, value)
          \/ ClientStep(c)
          \/ RequestFails(c)
    \/ OperatorStep
    \/ ReconcileFails
    \/ OperatorRestart
    \/ RunEvent
    \/ MapEvent
    \/ ChangeState
    \/ DeleteMap

\* Requests are goroutines, the controller has a worker per queued key, and
\* watches deliver: each keeps moving.  Nobody has to send a request, change
\* the state of the run, delete anything or fail.
Fairness ==
    /\ \A c \in Client : WF_vars(ClientStep(c))
    /\ WF_vars(OperatorStep)
    /\ WF_vars(RunEvent)
    /\ WF_vars(MapEvent)

Spec == Init /\ [][Next]_vars

FairSpec == Spec /\ Fairness

-----------------------------------------------------------------------------
(* Properties. *)

Copy == Object \cup {Absent}

ClientRecord ==
    [verb : {"GET", "PUT"}, name : Output, value : Value \cup {None}, obj : Copy,
     pc : {"idle", "read", "get", "write", "applied", "ok", "error"}]

\* Types of the state: what the API server stores, the caches, and the local
\* variables of MutateConfigMap and of the reconciliation.
TypeOK ==
    /\ store \in Copy
    /\ rev \in Nat
    /\ client \in [Client -> ClientRecord]
    /\ issued \in [Client -> Nat]
    /\ runState \in Nat
    /\ runCache \in Nat
    /\ mapCache \in Copy
    /\ op \in [pc : {"idle", "load", "persist"}, state : Nat, obj : Copy]
    /\ queued \in BOOLEAN
    /\ deletes \in Nat
    /\ failures \in Nat

\* A copy that the API server would still accept is an exact copy.
Honest(obj) ==
    obj # Absent =>
        /\ obj.rv <= rev
        /\ Current(obj) => obj = store

\* The version check is sound: whatever a request, the operator or its cache
\* holds, either it is out of date and an Update from it will be refused, or it
\* is exactly the stored object.  (MutateConfigMap and CreateOrUpdate replace
\* the whole object and rely on nothing else.)
CopiesAreHonest ==
    /\ store # Absent => store.rv <= rev
    /\ \A c \in Client : Honest(client[c].obj)
    /\ Honest(op.obj)
    /\ Honest(mapCache)

\* The state that a reconciliation is about to write is never older than the
\* state the map already holds, although both are read from caches.
StateInOrder ==
    /\ runCache <= runState
    /\ store # Absent => store.state <= runCache
    /\ op.pc # "idle" =>
          /\ op.state <= runCache
          /\ store # Absent => store.state <= op.state

\* Action property: as long as the map is not deleted and created again, the
\* operator never replaces the state of the run by an older one
\* (ConfigureMutableConfigMapForWorkflowRun on a cached copy).
StateNeverRegresses ==
    [][store # Absent /\ store' # Absent /\ store'.uid = store.uid
        => store'.state >= store.state]_vars

\* The outputs of the run behave as OutputStore says, whatever the
\* interleaving of MutateConfigMap loops and operator writes.
OS == INSTANCE OutputStore WITH
        kv <- IF store = Absent THEN Absent ELSE store.outputs,
        req <- [c \in Client |->
                  [verb |-> client[c].verb, name |-> client[c].name,
                   value |-> client[c].value,
                   status |-> IF client[c].pc \in {"read", "get", "write"} THEN "pending"
                              ELSE client[c].pc]]

\* Refinement: a PUT /outputs/{name} that is answered 201 was applied exactly
\* once, atomically, to the map as it was at that instant; nothing else ever
\* changes an output, and a GET reads one instant of the map.
ImplementsOutputStore == OS!Spec

\* Liveness: MutateConfigMap's unbounded loop ends; every request is answered.
RequestsAnswered == \A c \in Client : Busy(c) ~> ~ Busy(c)

\* Liveness: a change of the run's state reaches the map through conflicts,
\* stale caches and restarts, unless someone deletes the map.
StateDelivered ==
    \A s \in 1 .. MaxState :
        runState = s ~> (deletes > 0 \/ (store # Absent /\ store.state >= s))
=============================================================================
