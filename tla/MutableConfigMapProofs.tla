----------------------- MODULE MutableConfigMapProofs -----------------------
(***************************************************************************)
(* Proofs about MutableConfigMap, for any number of clients, outputs,      *)
(* values and any bounds.                                                  *)
(***************************************************************************)
EXTENDS MutableConfigMap, TLAPS

\* Storing an object gives an object, and leaves a larger revision.
LEMMA PutType ==
    ASSUME store \in Copy, rev \in Nat, NEW obj \in Object, Put(obj)
    PROVE  /\ store' \in Copy
           /\ rev' \in Nat
  BY SentinelAssumption DEF Put, Copy, Object

\* MutateConfigMap's fn yields an object when the copy is one.
LEMMA MutatedType ==
    ASSUME TypeOK, NEW c \in Client, client[c].obj # Absent
    PROVE  Mutated(c) \in Object
  BY SentinelAssumption DEF TypeOK, Mutated, ClientRecord, Copy, Object

\* The steps that only change the local variables of one request keep its type.
LEMMA ClientType ==
    ASSUME TypeOK, NEW c \in Client,
           \/ \E verb \in {"GET", "PUT"}, name \in Output, value \in Value :
                 Request(c, verb, name, value)
           \/ GetOutput(c) \/ MutateGet(c) \/ MutateRetry(c) \/ MutateCreate(c)
           \/ PutReply(c) \/ RequestFails(c)
    PROVE  TypeOK'
  <1> USE DEF TypeOK, Busy, opVars, clientVars
  <1>1. ASSUME NEW verb \in {"GET", "PUT"}, NEW name \in Output, NEW value \in Value,
               Request(c, verb, name, value)
        PROVE  TypeOK'
    <2>1. client' \in [Client -> ClientRecord]
      BY <1>1 DEF Request, ClientRecord, Copy
    <2> QED BY <1>1, <2>1 DEF Request
  <1>2. CASE GetOutput(c)
    <2> DEFINE found == IF store = Absent THEN None ELSE store.outputs[client[c].name]
    <2>1. found \in Value \cup {None}
      BY DEF Copy, Object, ClientRecord
    <2>2. client' = [client EXCEPT ![c] = [@ EXCEPT !.pc = "ok", !.value = found]]
      BY <1>2 DEF GetOutput
    <2> HIDE DEF found
    <2>3. client' \in [Client -> ClientRecord]
      BY <2>1, <2>2 DEF ClientRecord
    <2> QED BY <1>2, <2>3 DEF GetOutput
  <1>3. CASE MutateGet(c)
    <2>1. client' \in [Client -> ClientRecord]
      BY <1>3 DEF MutateGet, ClientRecord
    <2> QED BY <1>3, <2>1 DEF MutateGet
  <1>4. CASE MutateRetry(c)
    <2>1. client' \in [Client -> ClientRecord]
      BY <1>4 DEF MutateRetry, ClientRecord, Copy
    <2> QED BY <1>4, <2>1 DEF MutateRetry
  <1>5. CASE MutateCreate(c)
    <2>1. client' \in [Client -> ClientRecord]
      BY <1>5 DEF MutateCreate, ClientRecord
    <2> QED BY <1>5, <2>1 DEF MutateCreate
  <1>6. CASE PutReply(c)
    <2>1. client' \in [Client -> ClientRecord]
      BY <1>6 DEF PutReply, ClientRecord
    <2> QED BY <1>6, <2>1 DEF PutReply
  <1>7. CASE RequestFails(c)
    <2>1. client' \in [Client -> ClientRecord]
      BY <1>7 DEF RequestFails, ClientRecord, Copy
    <2> QED BY <1>7, <2>1 DEF RequestFails
  <1> QED BY <1>1, <1>2, <1>3, <1>4, <1>5, <1>6, <1>7

\* Type correctness of the map, the requests, the caches and the operator.
THEOREM TypeCorrect == Spec => []TypeOK
  <1>1. Init => TypeOK
    <2> SUFFICES ASSUME Init PROVE TypeOK OBVIOUS
    <2>1. client \in [Client -> ClientRecord]
      BY DEF Init, ClientRecord, Copy
    <2> QED BY <2>1 DEF Init, NoReconcile, TypeOK, Copy
  <1>2. TypeOK /\ [Next]_vars => TypeOK'
    <2> SUFFICES ASSUME TypeOK, [Next]_vars PROVE TypeOK' OBVIOUS
    <2> USE DEF opVars, clientVars
    <2>1. ASSUME NEW c \in Client, MutateUpdate(c) PROVE TypeOK'
      <3>1. client[c].obj # Absent
        BY <2>1 DEF MutateUpdate, Current
      <3>2. Mutated(c) \in Object
        BY <3>1, MutatedType
      <3>3. store' \in Copy /\ rev' \in Nat
        BY <2>1, <3>2, PutType DEF MutateUpdate, TypeOK
      <3>4. client' \in [Client -> ClientRecord]
        BY <2>1 DEF MutateUpdate, TypeOK, ClientRecord, Copy
      <3> QED BY <2>1, <3>3, <3>4 DEF MutateUpdate, TypeOK
    <2>2. CASE LoadRun
      BY <2>2 DEF LoadRun, TypeOK
    <2>3. CASE LoadMap
      BY <2>3 DEF LoadMap, TypeOK
    <2>4. CASE PersistCreate
      <3>1. store' \in Object /\ rev' \in Nat
        BY <2>4 DEF PersistCreate, TypeOK, Object
      <3> QED BY <2>4, <3>1 DEF PersistCreate, Finished, NoReconcile, TypeOK, Copy
    <2>5. CASE PersistUpdate
      <3>1. Configured(op.obj, op.state) \in Object
        BY <2>5, SentinelAssumption DEF PersistUpdate, Current, Configured, TypeOK, Copy, Object
      <3>2. store' \in Copy /\ rev' \in Nat
        BY <2>5, <3>1, PutType DEF PersistUpdate, TypeOK
      <3> QED BY <2>5, <3>2 DEF PersistUpdate, Finished, NoReconcile, TypeOK, Copy
    <2>6. CASE PersistRejected
      BY <2>6 DEF PersistRejected, Finished, NoReconcile, TypeOK, Copy
    <2>7. CASE ReconcileFails
      BY <2>7 DEF ReconcileFails, Finished, NoReconcile, TypeOK, Copy
    <2>8. CASE OperatorRestart
      BY <2>8 DEF OperatorRestart, NoReconcile, TypeOK, Copy
    <2>9. CASE RunEvent
      BY <2>9 DEF RunEvent, TypeOK
    <2>10. CASE MapEvent
      BY <2>10 DEF MapEvent, TypeOK
    <2>11. CASE ChangeState
      BY <2>11 DEF ChangeState, TypeOK
    <2>12. CASE DeleteMap
      BY <2>12 DEF DeleteMap, TypeOK, Copy
    <2>13. CASE UNCHANGED vars
      BY <2>13 DEF vars, TypeOK
    <2> QED
      BY <2>1, <2>2, <2>3, <2>4, <2>5, <2>6, <2>7, <2>8, <2>9, <2>10, <2>11, <2>12, <2>13,
         ClientType DEF Next, ClientStep, OperatorStep
  <1> QED BY <1>1, <1>2, PTL DEF Spec

-----------------------------------------------------------------------------
(***************************************************************************)
(* Soundness of the version check.  The argument has two halves: a step    *)
(* either leaves the store alone, or deletes the object, or stores one with *)
(* a resourceVersion that no copy can have yet; and every copy a step      *)
(* makes is a copy of the store or of another copy.                        *)
(***************************************************************************)

\* Honest, for an explicit stored object and revision.
HonestTo(obj, s, r) ==
    obj # Absent => /\ obj.rv <= r
                    /\ s # Absent /\ obj.rv = s.rv => obj = s

StoreStep ==
    \/ UNCHANGED <<store, rev>>
    \/ store' = Absent /\ rev' = rev
    \/ store' \in Object /\ rev' = rev + 1 /\ store'.rv = rev'

\* Put is a StoreStep.
LEMMA PutStoreStep ==
    ASSUME TypeOK, NEW obj \in Object, Put(obj)
    PROVE  StoreStep
  BY SentinelAssumption DEF TypeOK, Put, StoreStep, Copy, Object

\* No action of the system touches the stored object in any other way.
LEMMA NextStoreStep ==
    ASSUME TypeOK, [Next]_vars
    PROVE  StoreStep
  <1>1. ASSUME NEW c \in Client, MutateUpdate(c) PROVE StoreStep
    <2>1. client[c].obj # Absent
      BY <1>1 DEF MutateUpdate, Current
    <2> QED BY <1>1, <2>1, MutatedType, PutStoreStep DEF MutateUpdate
  <1>2. CASE PersistUpdate
    <2>1. Configured(op.obj, op.state) \in Object
      BY <1>2, SentinelAssumption DEF PersistUpdate, Current, Configured, TypeOK, Copy, Object
    <2> QED BY <1>2, <2>1, PutStoreStep DEF PersistUpdate
  <1>3. CASE PersistCreate
    BY <1>3 DEF PersistCreate, StoreStep, TypeOK, Object
  <1>4. CASE DeleteMap
    BY <1>4 DEF DeleteMap, StoreStep
  <1>5. ASSUME NEW c \in Client,
               \/ \E verb \in {"GET", "PUT"}, name \in Output, value \in Value :
                     Request(c, verb, name, value)
               \/ GetOutput(c) \/ MutateGet(c) \/ MutateRetry(c) \/ MutateCreate(c)
               \/ PutReply(c) \/ RequestFails(c)
        PROVE  StoreStep
    BY <1>5 DEF Request, GetOutput, MutateGet, MutateRetry, MutateCreate, PutReply,
                RequestFails, StoreStep
  <1>6. CASE \/ LoadRun \/ LoadMap \/ PersistRejected \/ ReconcileFails
             \/ OperatorRestart \/ RunEvent \/ MapEvent \/ ChangeState
    BY <1>6 DEF LoadRun, LoadMap, PersistRejected, ReconcileFails, OperatorRestart,
                RunEvent, MapEvent, ChangeState, StoreStep
  <1>7. CASE UNCHANGED vars
    BY <1>7 DEF vars, StoreStep
  <1> QED
    BY <1>1, <1>2, <1>3, <1>4, <1>5, <1>6, <1>7 DEF Next, ClientStep, OperatorStep

\* Where a new copy may come from.
CopyStep(new, old) ==
    \/ new = old
    \/ new = Absent
    \/ new = mapCache
    \/ new = store /\ UNCHANGED <<store, rev>>

\* Every copy held after a step is such a copy.
LEMMA NextCopyStep ==
    ASSUME TypeOK, [Next]_vars
    PROVE  /\ \A c \in Client : CopyStep(client'[c].obj, client[c].obj)
           /\ CopyStep(op'.obj, op.obj)
           /\ CopyStep(mapCache', mapCache)
  <1> USE DEF CopyStep, opVars, clientVars
  <1>1. ASSUME NEW c \in Client,
               \/ \E verb \in {"GET", "PUT"}, name \in Output, value \in Value :
                     Request(c, verb, name, value)
               \/ ClientStep(c) \/ RequestFails(c),
               NEW d \in Client
        PROVE  CopyStep(client'[d].obj, client[d].obj)
    <2>1. CASE \E verb \in {"GET", "PUT"}, name \in Output, value \in Value :
                  Request(c, verb, name, value)
      BY <2>1 DEF TypeOK, ClientRecord, Request
    <2>2. CASE GetOutput(c)
      BY <2>2 DEF TypeOK, ClientRecord, GetOutput
    <2>3. CASE MutateGet(c)
      BY <2>3 DEF TypeOK, ClientRecord, MutateGet
    <2>4. CASE MutateUpdate(c)
      BY <2>4 DEF TypeOK, ClientRecord, MutateUpdate
    <2>5. CASE MutateRetry(c)
      BY <2>5 DEF TypeOK, ClientRecord, MutateRetry
    <2>6. CASE MutateCreate(c)
      BY <2>6 DEF TypeOK, ClientRecord, MutateCreate
    <2>7. CASE PutReply(c)
      BY <2>7 DEF TypeOK, ClientRecord, PutReply
    <2>8. CASE RequestFails(c)
      BY <2>8 DEF TypeOK, ClientRecord, RequestFails
    <2> QED BY <1>1, <2>1, <2>2, <2>3, <2>4, <2>5, <2>6, <2>7, <2>8 DEF ClientStep
  <1>2. ASSUME NEW c \in Client,
               \/ \E verb \in {"GET", "PUT"}, name \in Output, value \in Value :
                     Request(c, verb, name, value)
               \/ ClientStep(c) \/ RequestFails(c)
        PROVE  op' = op /\ mapCache' = mapCache
    BY <1>2 DEF ClientStep, Request, GetOutput, MutateGet, MutateUpdate, MutateRetry,
                MutateCreate, PutReply, RequestFails
  <1>3. CASE OperatorStep \/ ReconcileFails
    <2>1. CASE LoadRun \/ LoadMap
      BY <2>1 DEF LoadRun, LoadMap, TypeOK
    <2>2. CASE PersistCreate \/ PersistUpdate \/ PersistRejected \/ ReconcileFails
      BY <2>2 DEF PersistCreate, PersistUpdate, PersistRejected, ReconcileFails,
                  Finished, NoReconcile
    <2> QED BY <1>3, <2>1, <2>2 DEF OperatorStep
  <1>4. CASE OperatorRestart \/ RunEvent \/ MapEvent
    BY <1>4 DEF OperatorRestart, NoReconcile, RunEvent, MapEvent
  <1>5. CASE ChangeState \/ DeleteMap \/ UNCHANGED vars
    BY <1>5 DEF ChangeState, DeleteMap, vars
  <1> QED BY <1>1, <1>2, <1>3, <1>4, <1>5 DEF Next

\* A copy made by a CopyStep from honest copies is honest after a StoreStep.
LEMMA HonestCopyStep ==
    ASSUME TypeOK, StoreStep, store # Absent => store.rv <= rev,
           HonestTo(mapCache, store, rev),
           NEW old \in Copy, HonestTo(old, store, rev),
           NEW new, CopyStep(new, old)
    PROVE  HonestTo(new, store', rev')
  <1>1. new \in Copy /\ HonestTo(new, store, rev)
    BY DEF CopyStep, HonestTo, TypeOK, Copy
  <1>2. new # Absent => new.rv \in Nat
    BY <1>1, SentinelAssumption DEF Copy, Object
  <1> QED BY <1>1, <1>2, SentinelAssumption DEF StoreStep, HonestTo, TypeOK

\* For every number of clients and every interleaving: whatever copy a request,
\* the operator or its cache holds, either it is exactly the stored object or
\* the API server refuses an Update from it.
THEOREM CopiesHonest == Spec => []CopiesAreHonest
  <1>1. Init => CopiesAreHonest
    BY DEF Init, CopiesAreHonest, Honest, NoReconcile
  <1>2. TypeOK /\ TypeOK' /\ CopiesAreHonest /\ [Next]_vars => CopiesAreHonest'
    <2> SUFFICES ASSUME TypeOK, TypeOK', CopiesAreHonest, [Next]_vars
                 PROVE  CopiesAreHonest'
      OBVIOUS
    <2>1. StoreStep
      BY NextStoreStep
    <2>2. /\ \A c \in Client : CopyStep(client'[c].obj, client[c].obj)
          /\ CopyStep(op'.obj, op.obj)
          /\ CopyStep(mapCache', mapCache)
      BY NextCopyStep
    <2>3. /\ store # Absent => store.rv <= rev
          /\ \A c \in Client : HonestTo(client[c].obj, store, rev)
          /\ HonestTo(op.obj, store, rev)
          /\ HonestTo(mapCache, store, rev)
      BY DEF CopiesAreHonest, Honest, HonestTo, Current
    <2>4. /\ \A c \in Client : client[c].obj \in Copy
          /\ op.obj \in Copy
          /\ mapCache \in Copy
      BY DEF TypeOK, ClientRecord
    <2>5. store' # Absent => store'.rv <= rev'
      BY <2>1, <2>3 DEF StoreStep, TypeOK
    <2>6. \A c \in Client : HonestTo(client'[c].obj, store', rev')
      BY <2>1, <2>2, <2>3, <2>4, HonestCopyStep
    <2>7. HonestTo(op'.obj, store', rev')
      BY <2>1, <2>2, <2>3, <2>4, HonestCopyStep
    <2>8. HonestTo(mapCache', store', rev')
      BY <2>1, <2>2, <2>3, <2>4, HonestCopyStep
    <2> QED BY <2>5, <2>6, <2>7, <2>8 DEF CopiesAreHonest, Honest, HonestTo, Current
  <1> QED BY <1>1, <1>2, TypeCorrect, PTL DEF Spec

-----------------------------------------------------------------------------
(***************************************************************************)
(* The state of the run.  Only the operator writes it, and an accepted     *)
(* write of the metadata API comes from an exact copy.                     *)
(***************************************************************************)

\* An accepted PUT changes one output of the stored object and nothing else.
LEMMA MutateUpdateEffect ==
    ASSUME TypeOK, CopiesAreHonest, NEW c \in Client, MutateUpdate(c)
    PROVE  /\ store \in Object
           /\ store' \in Object
           /\ store'.uid = store.uid
           /\ store'.state = store.state
           /\ store'.outputs = [store.outputs EXCEPT ![client[c].name] = client[c].value]
  <1>1. client[c].obj = store /\ store # Absent
    BY DEF MutateUpdate, CopiesAreHonest, Honest, Current
  <1>2. store \in Object /\ client[c].name \in Output
    BY <1>1 DEF TypeOK, Copy, ClientRecord
  <1>3. Mutated(c) = [store EXCEPT !.outputs = [store.outputs EXCEPT ![client[c].name] = client[c].value]]
    BY <1>1, <1>2 DEF Mutated, Object
  <1>4. Mutated(c) \in Object
    BY <1>1, MutatedType
  <1>5. /\ Mutated(c).uid = store.uid
        /\ Mutated(c).state = store.state
        /\ Mutated(c).outputs = [store.outputs EXCEPT ![client[c].name] = client[c].value]
    BY <1>2, <1>3 DEF Object
  <1>6. CASE Mutated(c) = store
    BY <1>2, <1>5, <1>6 DEF MutateUpdate, Put
  <1>7. CASE Mutated(c) # store
    <2>1. store' = [Mutated(c) EXCEPT !.rv = rev + 1]
      BY <1>7 DEF MutateUpdate, Put
    <2> QED BY <1>2, <1>4, <1>5, <2>1 DEF Object, TypeOK
  <1> QED BY <1>6, <1>7

\* An accepted reconciliation replaces the state of the stored object only.
LEMMA PersistUpdateEffect ==
    ASSUME TypeOK, CopiesAreHonest, PersistUpdate
    PROVE  /\ store \in Object
           /\ store' \in Object
           /\ store'.uid = store.uid
           /\ store'.state = op.state
           /\ store'.outputs = store.outputs
  <1>1. op.obj = store /\ store # Absent
    BY DEF PersistUpdate, CopiesAreHonest, Honest, Current
  <1>2. store \in Object /\ op.state \in Nat
    BY <1>1 DEF TypeOK, Copy
  <1> DEFINE obj == Configured(op.obj, op.state)
  <1>3. /\ obj \in Object
        /\ obj.uid = store.uid
        /\ obj.state = op.state
        /\ obj.outputs = store.outputs
    BY <1>1, <1>2 DEF Configured, Object
  <1>4. Put(obj)
    BY DEF PersistUpdate
  <1> HIDE DEF obj
  <1>5. CASE obj = store
    BY <1>2, <1>3, <1>4, <1>5 DEF Put
  <1>6. CASE obj # store
    <2>1. store' = [obj EXCEPT !.rv = rev + 1]
      BY <1>4, <1>6 DEF Put
    <2> QED BY <1>2, <1>3, <2>1 DEF Object, TypeOK
  <1> QED BY <1>5, <1>6

\* What the steps do that do not write the object.
LEMMA OtherSteps ==
    ASSUME [Next]_vars,
           \A c \in Client : ~ MutateUpdate(c),
           ~ PersistUpdate, ~ PersistCreate, ~ DeleteMap
    PROVE  UNCHANGED <<store, rev>>
  BY DEF Next, ClientStep, OperatorStep, Request, GetOutput, MutateGet, MutateRetry,
         MutateCreate, PutReply, RequestFails, LoadRun, LoadMap, PersistRejected,
         ReconcileFails, OperatorRestart, RunEvent, MapEvent, ChangeState, vars

\* The caches may lag, yet a reconciliation never holds a state older than the
\* one already in the map.
THEOREM StateOrder == Spec => []StateInOrder
  <1>1. Init => StateInOrder
    BY DEF Init, StateInOrder, NoReconcile
  <1>2. TypeOK /\ CopiesAreHonest /\ StateInOrder /\ [Next]_vars => StateInOrder'
    <2> SUFFICES ASSUME TypeOK, CopiesAreHonest, StateInOrder, [Next]_vars
                 PROVE  StateInOrder'
      OBVIOUS
    <2> USE DEF opVars, clientVars
    <2>0. store # Absent => store.state \in Nat
      BY DEF TypeOK, Copy, Object
    <2>1. ASSUME NEW c \in Client, MutateUpdate(c) PROVE StateInOrder'
      <3>1. store # Absent /\ store'.state = store.state
        BY <2>1, MutateUpdateEffect, SentinelAssumption
      <3>2. UNCHANGED <<runState, runCache, op>>
        BY <2>1 DEF MutateUpdate
      <3> QED BY <3>1, <3>2 DEF StateInOrder
    <2>2. CASE PersistUpdate
      <3>1. store'.state = op.state
        BY <2>2, PersistUpdateEffect
      <3> QED BY <2>2, <3>1 DEF PersistUpdate, Finished, NoReconcile, StateInOrder, TypeOK
    <2>3. CASE PersistCreate
      <3>1. store'.state = op.state
        BY <2>3 DEF PersistCreate
      <3> QED BY <2>3, <3>1 DEF PersistCreate, Finished, NoReconcile, StateInOrder, TypeOK
    <2>4. CASE DeleteMap
      BY <2>4 DEF DeleteMap, StateInOrder
    <2>5. CASE LoadRun
      BY <2>5, <2>0 DEF LoadRun, StateInOrder, TypeOK
    <2>6. CASE LoadMap
      BY <2>6 DEF LoadMap, StateInOrder, TypeOK
    <2>7. CASE PersistRejected \/ ReconcileFails
      BY <2>7 DEF PersistRejected, ReconcileFails, Finished, NoReconcile, StateInOrder
    <2>8. CASE OperatorRestart
      BY <2>8, <2>0 DEF OperatorRestart, NoReconcile, StateInOrder, TypeOK
    <2>9. CASE RunEvent
      BY <2>9, <2>0 DEF RunEvent, StateInOrder, TypeOK
    <2>10. CASE MapEvent
      BY <2>10 DEF MapEvent, StateInOrder
    <2>11. CASE ChangeState
      BY <2>11 DEF ChangeState, StateInOrder, TypeOK
    <2>12. ASSUME NEW c \in Client,
                  \/ \E verb \in {"GET", "PUT"}, name \in Output, value \in Value :
                        Request(c, verb, name, value)
                  \/ GetOutput(c) \/ MutateGet(c) \/ MutateRetry(c) \/ MutateCreate(c)
                  \/ PutReply(c) \/ RequestFails(c)
           PROVE  StateInOrder'
      BY <2>12 DEF Request, GetOutput, MutateGet, MutateRetry, MutateCreate, PutReply,
                   RequestFails, StateInOrder
    <2>13. CASE UNCHANGED vars
      BY <2>13 DEF vars, StateInOrder
    <2> QED
      BY <2>1, <2>2, <2>3, <2>4, <2>5, <2>6, <2>7, <2>8, <2>9, <2>10, <2>11, <2>12, <2>13
      DEF Next, ClientStep, OperatorStep
  <1> QED BY <1>1, <1>2, TypeCorrect, CopiesHonest, PTL DEF Spec

\* No step replaces the run's state in the map by an older one.
THEOREM NoStateRegression == Spec => StateNeverRegresses
  <1>1. TypeOK /\ CopiesAreHonest /\ StateInOrder /\ [Next]_vars =>
          [store # Absent /\ store' # Absent /\ store'.uid = store.uid
              => store'.state >= store.state]_vars
    <2> SUFFICES ASSUME TypeOK, CopiesAreHonest, StateInOrder, [Next]_vars,
                        store # Absent, store' # Absent
                 PROVE  store'.state >= store.state
      OBVIOUS
    <2>0. store.state \in Nat
      BY DEF TypeOK, Copy, Object
    <2>1. CASE \E c \in Client : MutateUpdate(c)
      <3>1. store'.state = store.state
        BY <2>1, MutateUpdateEffect
      <3> QED BY <2>0, <3>1
    <2>2. CASE PersistUpdate
      <3>1. store'.state = op.state
        BY <2>2, PersistUpdateEffect
      <3> QED BY <2>0, <2>2, <3>1 DEF PersistUpdate, StateInOrder, TypeOK
    <2>3. CASE PersistCreate \/ DeleteMap
      BY <2>3 DEF PersistCreate, DeleteMap
    <2> QED BY <2>0, <2>1, <2>2, <2>3, OtherSteps
  <1> QED BY <1>1, TypeCorrect, CopiesHonest, StateOrder, PTL DEF Spec, StateNeverRegresses

-----------------------------------------------------------------------------
(***************************************************************************)
(* Refinement: the outputs are an OutputStore.                             *)
(***************************************************************************)

\* The refinement mapping of ImplementsOutputStore, by name.
kvBar == IF store = Absent THEN Absent ELSE store.outputs

reqBar == [c \in Client |->
              [verb |-> client[c].verb, name |-> client[c].name,
               value |-> client[c].value,
               status |-> IF client[c].pc \in {"read", "get", "write"} THEN "pending"
                          ELSE client[c].pc]]

\* The status of a request in OutputStore.
StatusOf(pc) == IF pc \in {"read", "get", "write"} THEN "pending" ELSE pc

\* A step of one request that leaves its verb, name, value and abstract
\* status alone is invisible to OutputStore.
LEMMA ReqBarUnchanged ==
    ASSUME client \in [Client -> ClientRecord], client' \in [Client -> ClientRecord],
           \A c \in Client :
              /\ client'[c].verb = client[c].verb
              /\ client'[c].name = client[c].name
              /\ client'[c].value = client[c].value
              /\ StatusOf(client'[c].pc) = StatusOf(client[c].pc)
    PROVE  reqBar' = reqBar
  BY DEF reqBar, StatusOf

\* A step of one request changes one entry of the abstract requests.
LEMMA ReqBarStep ==
    ASSUME client \in [Client -> ClientRecord], client' \in [Client -> ClientRecord],
           NEW c \in Client, NEW r,
           \A d \in Client : d # c => client'[d] = client[d],
           r = [verb |-> client'[c].verb, name |-> client'[c].name,
                value |-> client'[c].value, status |-> StatusOf(client'[c].pc)]
    PROVE  reqBar' = [reqBar EXCEPT ![c] = r]
  BY DEF reqBar, StatusOf

\* The initial states.
LEMMA InitRefines == Init => OS!Init
  <1> SUFFICES ASSUME Init PROVE OS!Init OBVIOUS
  <1>1. kvBar = Absent
    BY DEF Init, kvBar
  <1>2. reqBar \in [Client -> {r \in OS!Request : r.status = "idle"}]
    <2> SUFFICES ASSUME NEW c \in Client
                 PROVE  reqBar[c] \in OS!Request /\ reqBar[c].status = "idle"
      BY DEF reqBar
    <2> QED BY DEF Init, reqBar, OS!Request, OS!Status
  <1> QED BY <1>1, <1>2 DEF OS!Init, kvBar, reqBar

\* A request that is sent.
LEMMA RequestRefines ==
    ASSUME TypeOK, TypeOK', NEW c \in Client, NEW verb \in {"GET", "PUT"},
           NEW name \in Output, NEW value \in Value, Request(c, verb, name, value)
    PROVE  OS!Next
  <1> DEFINE r == [verb |-> verb, name |-> name, status |-> "pending",
                   value |-> IF verb = "PUT" THEN value ELSE None]
  <1>1. /\ client'[c].verb = verb
        /\ client'[c].name = name
        /\ client'[c].value = IF verb = "PUT" THEN value ELSE None
        /\ StatusOf(client'[c].pc) = "pending"
        /\ \A d \in Client : d # c => client'[d] = client[d]
    BY DEF Request, TypeOK, StatusOf
  <1>2. reqBar' = [reqBar EXCEPT ![c] = r]
    BY <1>1, ReqBarStep DEF TypeOK
  <1>3. r \in OS!Request /\ r.status = "pending" /\ (r.verb = "GET" => r.value = None)
    BY DEF OS!Request, OS!Status
  <1>4. reqBar[c].status \notin {"pending", "applied"}
    BY DEF Request, Busy, reqBar, TypeOK, ClientRecord
  <1>5. kvBar' = kvBar
    BY DEF Request, kvBar
  <1> HIDE DEF r
  <1>6. OS!Invoke(c, r)
    BY <1>2, <1>3, <1>4, <1>5 DEF OS!Invoke, OS!Unfinished, kvBar, reqBar
  <1> QED BY <1>3, <1>6 DEF OS!Next

\* A step of one request that changes its status only.
LEMMA StatusStep ==
    ASSUME client \in [Client -> ClientRecord], client' \in [Client -> ClientRecord],
           NEW c \in Client,
           \A d \in Client : d # c => client'[d] = client[d],
           client'[c].verb = client[c].verb,
           client'[c].name = client[c].name,
           client'[c].value = client[c].value
    PROVE  reqBar' = [reqBar EXCEPT ![c].status = StatusOf(client'[c].pc)]
  <1>1. reqBar' = [reqBar EXCEPT ![c] =
                      [verb |-> client[c].verb, name |-> client[c].name,
                       value |-> client[c].value, status |-> StatusOf(client'[c].pc)]]
    BY ReqBarStep
  <1>2. [reqBar[c] EXCEPT !.status = StatusOf(client'[c].pc)] =
          [verb |-> client[c].verb, name |-> client[c].name,
           value |-> client[c].value, status |-> StatusOf(client'[c].pc)]
    BY DEF reqBar
  <1> QED BY <1>1, <1>2

\* The fields of an abstract request.
LEMMA ReqBarFields ==
    ASSUME NEW c \in Client
    PROVE  /\ reqBar[c].verb = client[c].verb
           /\ reqBar[c].name = client[c].name
           /\ reqBar[c].value = client[c].value
           /\ reqBar[c].status = StatusOf(client[c].pc)
  BY DEF reqBar, StatusOf

\* PUTs run MutateConfigMap and GETs read: which handler a request is in.
VerbMatchesPc ==
    \A c \in Client :
        /\ client[c].pc \in {"get", "write", "applied"} => client[c].verb = "PUT"
        /\ client[c].pc = "read" => client[c].verb = "GET"

\* That is an invariant.
LEMMA VerbInvariant == Spec => []VerbMatchesPc
  <1>1. Init => VerbMatchesPc
    <2> SUFFICES ASSUME Init, NEW c \in Client PROVE client[c].pc = "idle"
      BY DEF VerbMatchesPc
    <2> QED BY DEF Init
  <1>2. TypeOK /\ VerbMatchesPc /\ [Next]_vars => VerbMatchesPc'
    <2> SUFFICES ASSUME TypeOK, VerbMatchesPc, [Next]_vars, NEW d \in Client
                 PROVE  VerbMatchesPc!(d)'
      BY DEF VerbMatchesPc
    <2> USE DEF VerbMatchesPc, opVars, clientVars
    <2>1. ASSUME NEW c \in Client, NEW verb \in {"GET", "PUT"}, NEW name \in Output,
                 NEW value \in Value, Request(c, verb, name, value)
          PROVE  VerbMatchesPc!(d)'
      BY <2>1 DEF Request, TypeOK
    <2>2. ASSUME NEW c \in Client, GetOutput(c) PROVE VerbMatchesPc!(d)'
      BY <2>2 DEF GetOutput, TypeOK, ClientRecord
    <2>3. ASSUME NEW c \in Client, MutateGet(c) PROVE VerbMatchesPc!(d)'
      BY <2>3 DEF MutateGet, TypeOK, ClientRecord
    <2>4. ASSUME NEW c \in Client, MutateUpdate(c) PROVE VerbMatchesPc!(d)'
      BY <2>4 DEF MutateUpdate, TypeOK, ClientRecord
    <2>5. ASSUME NEW c \in Client, MutateRetry(c) PROVE VerbMatchesPc!(d)'
      BY <2>5 DEF MutateRetry, TypeOK, ClientRecord
    <2>6. ASSUME NEW c \in Client, MutateCreate(c) PROVE VerbMatchesPc!(d)'
      BY <2>6 DEF MutateCreate, TypeOK, ClientRecord
    <2>7. ASSUME NEW c \in Client, PutReply(c) PROVE VerbMatchesPc!(d)'
      BY <2>7 DEF PutReply, TypeOK, ClientRecord
    <2>8. ASSUME NEW c \in Client, RequestFails(c) PROVE VerbMatchesPc!(d)'
      BY <2>8 DEF RequestFails, TypeOK, ClientRecord
    <2>9. CASE OperatorStep \/ ReconcileFails
      BY <2>9 DEF OperatorStep, LoadRun, LoadMap, PersistCreate, PersistUpdate,
                  PersistRejected, ReconcileFails, Finished
    <2>10. CASE OperatorRestart \/ RunEvent \/ MapEvent \/ ChangeState \/ DeleteMap
      BY <2>10 DEF OperatorRestart, RunEvent, MapEvent, ChangeState, DeleteMap
    <2>11. CASE UNCHANGED vars
      BY <2>11 DEF vars
    <2> QED
      BY <2>1, <2>2, <2>3, <2>4, <2>5, <2>6, <2>7, <2>8, <2>9, <2>10, <2>11
      DEF Next, ClientStep
  <1> QED BY <1>1, <1>2, TypeCorrect, PTL DEF Spec

\* An accepted Update is the instant of the PUT.
LEMMA MutateUpdateRefines ==
    ASSUME TypeOK, TypeOK', CopiesAreHonest, VerbMatchesPc, NEW c \in Client,
           MutateUpdate(c)
    PROVE  OS!Next
  <1>1. /\ client'[c].verb = client[c].verb
        /\ client'[c].name = client[c].name
        /\ client'[c].value = client[c].value
        /\ StatusOf(client'[c].pc) = "applied"
        /\ \A d \in Client : d # c => client'[d] = client[d]
    BY DEF MutateUpdate, TypeOK, ClientRecord, StatusOf
  <1>2. reqBar' = [reqBar EXCEPT ![c].status = "applied"]
    BY <1>1, StatusStep DEF TypeOK
  <1>3. /\ reqBar[c].verb = "PUT"
        /\ reqBar[c].status = "pending"
        /\ reqBar[c].name = client[c].name
        /\ reqBar[c].value = client[c].value
    BY ReqBarFields DEF MutateUpdate, VerbMatchesPc, StatusOf
  <1>4. /\ kvBar # Absent
        /\ kvBar' = [kvBar EXCEPT ![reqBar[c].name] = reqBar[c].value]
    <2>1. store # Absent /\ store' # Absent
      BY MutateUpdateEffect, SentinelAssumption
    <2>2. kvBar = store.outputs /\ kvBar' = store'.outputs
      BY <2>1 DEF kvBar
    <2>3. store.outputs # Absent
      BY MutateUpdateEffect, MapAssumption DEF Object
    <2> QED BY <1>3, <2>2, <2>3, MutateUpdateEffect
  <1>5. OS!Apply(c)
    BY <1>2, <1>3, <1>4 DEF OS!Apply, kvBar, reqBar
  <1> QED BY <1>5 DEF OS!Next

\* The other steps of a request.
LEMMA ClientRefines ==
    ASSUME TypeOK, TypeOK', VerbMatchesPc, NEW c \in Client,
           \/ GetOutput(c) \/ MutateGet(c) \/ MutateRetry(c) \/ MutateCreate(c)
           \/ PutReply(c) \/ RequestFails(c)
    PROVE  OS!Next \/ UNCHANGED OS!vars
  <1>0. kvBar' = kvBar
    BY DEF GetOutput, MutateGet, MutateRetry, MutateCreate, PutReply, RequestFails, kvBar
  <1>1. CASE GetOutput(c)
    <2> DEFINE found == IF store = Absent THEN None ELSE store.outputs[client[c].name]
    <2>1. /\ client'[c].verb = client[c].verb
          /\ client'[c].name = client[c].name
          /\ client'[c].value = found
          /\ StatusOf(client'[c].pc) = "ok"
          /\ \A d \in Client : d # c => client'[d] = client[d]
      BY <1>1 DEF GetOutput, TypeOK, ClientRecord, StatusOf
    <2>2. found = IF kvBar = Absent THEN None ELSE kvBar[reqBar[c].name]
      BY ReqBarFields, MapAssumption DEF kvBar, TypeOK, Copy, Object
    <2> HIDE DEF found
    <2>3. reqBar' = [reqBar EXCEPT ![c] =
                        [verb |-> client[c].verb, name |-> client[c].name,
                         value |-> found, status |-> "ok"]]
      BY <2>1, ReqBarStep DEF TypeOK
    <2>4. reqBar[c].verb = "GET" /\ reqBar[c].status = "pending"
      BY <1>1, ReqBarFields DEF GetOutput, VerbMatchesPc, StatusOf
    <2>5. reqBar' = [reqBar EXCEPT ![c] =
                        [verb |-> "GET", name |-> reqBar[c].name, status |-> "ok",
                         value |-> found]]
      BY <2>3, <2>4, ReqBarFields
    <2>6. OS!Answer(c)
      BY <1>0, <2>2, <2>4, <2>5 DEF OS!Answer, kvBar, reqBar
    <2> QED BY <2>6 DEF OS!Next
  <1>2. CASE MutateGet(c) \/ MutateRetry(c)
    <2>1. \A d \in Client :
             /\ client'[d].verb = client[d].verb
             /\ client'[d].name = client[d].name
             /\ client'[d].value = client[d].value
             /\ StatusOf(client'[d].pc) = StatusOf(client[d].pc)
      <3>1. CASE MutateGet(c)
        BY <3>1 DEF MutateGet, TypeOK, ClientRecord, StatusOf
      <3>2. CASE MutateRetry(c)
        BY <3>2 DEF MutateRetry, TypeOK, ClientRecord, StatusOf
      <3> QED BY <1>2, <3>1, <3>2
    <2>2. reqBar' = reqBar
      BY <2>1, ReqBarUnchanged DEF TypeOK
    <2> QED BY <1>0, <2>2 DEF OS!vars, kvBar, reqBar
  <1>3. CASE MutateCreate(c) \/ RequestFails(c)
    <2>1. /\ client'[c].verb = client[c].verb
          /\ client'[c].name = client[c].name
          /\ client'[c].value = client[c].value
          /\ StatusOf(client'[c].pc) = "error"
          /\ \A d \in Client : d # c => client'[d] = client[d]
      <3>1. CASE MutateCreate(c)
        BY <3>1 DEF MutateCreate, TypeOK, ClientRecord, StatusOf
      <3>2. CASE RequestFails(c)
        BY <3>2 DEF RequestFails, TypeOK, ClientRecord, StatusOf
      <3> QED BY <1>3, <3>1, <3>2
    <2>2. reqBar' = [reqBar EXCEPT ![c].status = "error"]
      BY <2>1, StatusStep DEF TypeOK
    <2>3. reqBar[c].status \in {"pending", "applied"}
      BY <1>3, ReqBarFields DEF MutateCreate, RequestFails, Busy, StatusOf
    <2>4. OS!Fail(c)
      BY <1>0, <2>2, <2>3 DEF OS!Fail, OS!Unfinished, kvBar, reqBar
    <2> QED BY <2>4 DEF OS!Next
  <1>4. CASE PutReply(c)
    <2>1. /\ client'[c].verb = client[c].verb
          /\ client'[c].name = client[c].name
          /\ client'[c].value = client[c].value
          /\ StatusOf(client'[c].pc) = "ok"
          /\ \A d \in Client : d # c => client'[d] = client[d]
      BY <1>4 DEF PutReply, TypeOK, ClientRecord, StatusOf
    <2>2. reqBar' = [reqBar EXCEPT ![c].status = "ok"]
      BY <2>1, StatusStep DEF TypeOK
    <2>3. reqBar[c].status = "applied"
      BY <1>4, ReqBarFields DEF PutReply, StatusOf
    <2>4. OS!Acknowledge(c)
      BY <1>0, <2>2, <2>3 DEF OS!Acknowledge, kvBar, reqBar
    <2> QED BY <2>4 DEF OS!Next
  <1> QED BY <1>1, <1>2, <1>3, <1>4

\* The operator and the environment create and delete the map, and otherwise
\* leave every output alone.
LEMMA OtherRefines ==
    ASSUME TypeOK, CopiesAreHonest,
           \/ OperatorStep \/ ReconcileFails \/ OperatorRestart \/ RunEvent
           \/ MapEvent \/ ChangeState \/ DeleteMap \/ UNCHANGED vars
    PROVE  OS!Next \/ UNCHANGED OS!vars
  <1> USE DEF opVars, clientVars
  <1>0. reqBar' = reqBar
    BY DEF OperatorStep, LoadRun, LoadMap, PersistCreate, PersistUpdate, PersistRejected,
           ReconcileFails, Finished, OperatorRestart, RunEvent, MapEvent, ChangeState,
           DeleteMap, vars, reqBar
  <1>1. CASE PersistCreate
    <2>1. /\ store = Absent
          /\ store' # Absent
          /\ store'.outputs = [n \in Output |-> None]
      <3>1. store' \in Object
        BY <1>1 DEF PersistCreate, TypeOK, Object
      <3> QED BY <1>1, <3>1, SentinelAssumption DEF PersistCreate
    <2>2. kvBar = Absent /\ kvBar' = [n \in Output |-> None]
      BY <2>1 DEF kvBar
    <2>3. OS!Create
      BY <1>0, <2>2 DEF OS!Create, kvBar, reqBar
    <2> QED BY <2>3 DEF OS!Next
  <1>2. CASE DeleteMap
    <2>1. kvBar # Absent /\ kvBar' = Absent
      BY <1>2, MapAssumption DEF DeleteMap, kvBar, TypeOK, Copy, Object
    <2>2. OS!Delete
      BY <1>0, <2>1 DEF OS!Delete, kvBar, reqBar
    <2> QED BY <2>2 DEF OS!Next
  <1>3. CASE PersistUpdate
    <2>1. kvBar' = kvBar
      BY <1>3, PersistUpdateEffect, SentinelAssumption DEF kvBar
    <2> QED BY <1>0, <2>1 DEF OS!vars, kvBar, reqBar
  <1>4. CASE \/ LoadRun \/ LoadMap \/ PersistRejected \/ ReconcileFails
             \/ OperatorRestart \/ RunEvent \/ MapEvent \/ ChangeState \/ UNCHANGED vars
    <2>1. kvBar' = kvBar
      BY <1>4 DEF LoadRun, LoadMap, PersistRejected, ReconcileFails, OperatorRestart,
                  RunEvent, MapEvent, ChangeState, vars, kvBar
    <2> QED BY <1>0, <2>1 DEF OS!vars, kvBar, reqBar
  <1> QED BY <1>1, <1>2, <1>3, <1>4 DEF OperatorStep

\* The read/modify/write loop of MutateConfigMap over one shared ConfigMap
\* implements atomic, at-most-once, acknowledged writes of single outputs.
THEOREM Refinement == Spec => ImplementsOutputStore
  <1>1. Init => OS!Init
    BY InitRefines
  <1>2. TypeOK /\ TypeOK' /\ CopiesAreHonest /\ VerbMatchesPc /\ [Next]_vars
           => [OS!Next]_(OS!vars)
    <2> SUFFICES ASSUME TypeOK, TypeOK', CopiesAreHonest, VerbMatchesPc, [Next]_vars
                 PROVE  OS!Next \/ UNCHANGED OS!vars
      OBVIOUS
    <2> QED
      BY RequestRefines, MutateUpdateRefines, ClientRefines, OtherRefines
      DEF Next, ClientStep
  <1> QED
    BY <1>1, <1>2, TypeCorrect, CopiesHonest, VerbInvariant, PTL
    DEF Spec, ImplementsOutputStore, OS!Spec

-----------------------------------------------------------------------------
(***************************************************************************)
(* The state of the run is not forgotten.                                  *)
(***************************************************************************)

\* The operator is still to see the present state of the run, or to load it.
StateUnseen == queued \/ runCache # runState

\* The map has the present state of the run, or the operator has not seen it, or
\* is about to write it; and a reconciliation from an older state is followed by
\* another.  So when the operator rests and its cache is up to date, the state is
\* in the map, unless someone deletes the map, which nobody creates again then.
\* (What is to happen then does, in fair behaviours: StateDelivered.)
StateRemembered ==
    /\ deletes = 0 \/ store # Absent =>
          \/ store # Absent /\ store.state = runState
          \/ StateUnseen
          \/ op.pc # "idle" /\ op.state = runState
    /\ op.pc # "idle" /\ op.state # runState => StateUnseen

\* No conflict with the writes of the steps, no stale cache, error or restart
\* makes the operator forget a state (PersistRejected, RunEvent, LoadRun).
THEOREM StateNotForgotten == Spec => []StateRemembered
  <1>1. Init => StateRemembered
    BY DEF Init, StateRemembered, StateUnseen, NoReconcile
  <1>2. TypeOK /\ CopiesAreHonest /\ StateInOrder /\ StateRemembered /\ [Next]_vars
        => StateRemembered'
    <2> SUFFICES ASSUME TypeOK, CopiesAreHonest, StateInOrder, StateRemembered, [Next]_vars
                 PROVE  StateRemembered'
      OBVIOUS
    <2> USE DEF opVars, clientVars, StateRemembered, StateUnseen
    <2>1. ASSUME NEW c \in Client, MutateUpdate(c) PROVE StateRemembered'
      <3>1. store # Absent /\ store' # Absent /\ store'.state = store.state
        BY <2>1, MutateUpdateEffect, SentinelAssumption
      <3> QED BY <2>1, <3>1 DEF MutateUpdate
    <2>2. CASE PersistUpdate
      <3>1. store'.state = op.state /\ store' # Absent
        BY <2>2, PersistUpdateEffect, SentinelAssumption
      <3> QED BY <2>2, <3>1 DEF PersistUpdate, Finished, NoReconcile
    <2>3. CASE PersistCreate
      <3>1. store'.state = op.state /\ store' # Absent
        <4>1. store' \in Object
          BY <2>3 DEF PersistCreate, TypeOK, Object
        <4> QED BY <2>3, <4>1, SentinelAssumption DEF PersistCreate
      <3> QED BY <2>3, <3>1 DEF PersistCreate, Finished, NoReconcile
    <2>4. CASE DeleteMap
      BY <2>4 DEF DeleteMap, TypeOK
    <2>5. CASE LoadRun
      BY <2>5 DEF LoadRun, TypeOK
    <2>6. CASE LoadMap
      BY <2>6 DEF LoadMap, TypeOK
    <2>7. CASE PersistRejected \/ ReconcileFails \/ OperatorRestart \/ RunEvent
      BY <2>7 DEF PersistRejected, ReconcileFails, OperatorRestart, RunEvent, Finished
    <2>8. CASE ChangeState
      BY <2>8 DEF ChangeState, StateInOrder, TypeOK
    <2>9. ASSUME NEW c \in Client,
                 \/ \E verb \in {"GET", "PUT"}, name \in Output, value \in Value :
                       Request(c, verb, name, value)
                 \/ GetOutput(c) \/ MutateGet(c) \/ MutateRetry(c) \/ MutateCreate(c)
                 \/ PutReply(c) \/ RequestFails(c)
          PROVE  StateRemembered'
      BY <2>9 DEF Request, GetOutput, MutateGet, MutateRetry, MutateCreate, PutReply,
                  RequestFails
    <2>10. CASE MapEvent \/ UNCHANGED vars
      BY <2>10 DEF MapEvent, vars
    <2> QED
      BY <2>1, <2>2, <2>3, <2>4, <2>5, <2>6, <2>7, <2>8, <2>9, <2>10
      DEF Next, ClientStep, OperatorStep
  <1> QED BY <1>1, <1>2, TypeCorrect, CopiesHonest, StateOrder, PTL DEF Spec
=============================================================================
