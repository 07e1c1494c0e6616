------------------------- MODULE WebhookTriggerProofs -------------------------
(***************************************************************************)
(* Theorems about WebhookTrigger, for every set of tenants, of event sinks *)
(* and of occupied namespaces, and every bound.                            *)
(***************************************************************************)
EXTENDS WebhookTrigger, TLAPS

\* A namespace that a status or a reconciliation names, if any.
MaybeTenant == Tenants \cup {""}

\* The objects, where they are there.
StatusType    == [ns : MaybeTenant, ready : {"Unknown", "True", "False"}]
TriggerObject == [uid : Nat \ {0}, ref : Tenants, label : MaybeTenant, finalizer : BOOLEAN,
                  deleting : BOOLEAN, status : StatusType]
MapObject     == [uid : Nat \ {0}, of : Nat]
ServiceObject == [owners : SUBSET Nat, of : Nat, sink : Sinks, ready : BOOLEAN]
TenantObject  == [state : {"absent", "pending", "settled", "broken"}, sink : Sinks]
MaybeMap      == MapObject \cup {None}

\* A reconciliation in progress: what it has read and where it is.
Phase  == {"finalize", "finalizer", "label", "stale", "delete", "finalized", "owner", "deps",
           "service", "status"}
OpType == [pc : Phase, w : TriggerObject, up : BOOLEAN, sink : Sinks, stale : MaybeTenant,
           staleMap : MaybeMap, map : MaybeMap, mutable : BOOLEAN, status : StatusType]

\* Types.
Types ==
    /\ trigger \in TriggerObject \cup {None}
    /\ tenant \in [Tenants -> TenantObject]
    /\ space \in [Tenants -> BOOLEAN]
    /\ owner \in [Tenants -> MaybeMap]
    /\ mutable \in [Tenants -> BOOLEAN]
    /\ service \in [Tenants -> ServiceObject \cup {None}]
    /\ cache \in [trigger : TriggerObject \cup {None}, owner : [Tenants -> MaybeMap]]
    /\ queued \in BOOLEAN
    /\ op \in OpType \cup {Idle}
    /\ made \in [trigger : Nat, map : Nat \ {0}]
    /\ changes \in 0..MaxChanges /\ failures \in 0..MaxFailures
    /\ taken \subseteq Tenants

\* Nothing is left in a namespace that is gone, and maps have the UIDs given.
SpacesOK ==
    \A t \in Tenants :
        /\ ~space[t] => owner[t] = None /\ ~mutable[t] /\ service[t] = None
        /\ owner[t] # None => owner[t].uid \in 1..made.map

\* The UID k is not later than those of the trigger tr, of its copy ca in the
\* cache, of the one that o reconciles, and than the n that were given.
Low(k, tr, ca, o, n) ==
    /\ k <= n
    /\ tr # None => k <= tr.uid
    /\ ca # None => k <= ca.uid
    /\ o # Idle => k <= o.w.uid

\* The trigger is seen with some delay, but never with a UID later than its own.
UidInv ==
    /\ trigger # None => trigger.uid <= made.trigger
    /\ cache.trigger # None => Low(cache.trigger.uid, trigger, None, Idle, made.trigger)
    /\ op # Idle => Low(op.w.uid, trigger, cache.trigger, op, made.trigger)

\* No map m is of a trigger later than any that is there or is being worked on.
Known(m, tr, ca, o, n) == m # None => Low(m.of, tr, ca, o, n)

\* The copy c was made when the map was of the trigger it is of now, or of an
\* earlier one.
Older(c, m) == c # None /\ m # None => c.of <= m.of

\* What the reconciler knows of owner maps may be out of date, but only in that
\* a map was deleted since, or has become a later trigger's, unless someone else
\* has taken the map over.
MapInv ==
    /\ \A t \in Tenants :
          /\ Known(owner[t], trigger, cache.trigger, op, made.trigger)
          /\ Known(cache.owner[t], trigger, cache.trigger, op, made.trigger)
          /\ t \in taken \/ Older(cache.owner[t], owner[t])
    /\ op # Idle =>
          /\ Known(op.map, trigger, cache.trigger, op, made.trigger)
          /\ Known(op.staleMap, trigger, cache.trigger, op, made.trigger)
          /\ op.w.ref \in taken \/ Older(op.map, owner[op.w.ref])
          /\ op.stale = "" => op.staleMap = None
          /\ op.stale # "" => op.stale \in taken \/ Older(op.staleMap, owner[op.stale])

-----------------------------------------------------------------------------
(* Types *)

\* What is there differs from what is not.
LEMMA Presence ==
    /\ \A x \in TriggerObject : x # None
    /\ \A x \in MapObject : x # None
    /\ \A x \in ServiceObject : x # None
    /\ \A x \in OpType : x # Idle
    /\ None.uid = 0 /\ Idle.pc = "idle"
  <1>1. None.uid = 0 /\ Idle.pc = "idle"
    BY DEF None, Idle
  <1>2. \A x \in TriggerObject : x # None
    BY <1>1 DEF TriggerObject
  <1>3. \A x \in MapObject : x # None
    BY <1>1 DEF MapObject
  <1>4. \A x \in ServiceObject : x # None
    <2>1. "owners" \notin DOMAIN None
      BY DEF None
    <2>2. \A x \in ServiceObject : "owners" \in DOMAIN x
      BY DEF ServiceObject
    <2> QED BY <2>1, <2>2
  <1>5. \A x \in OpType : x # Idle
    BY <1>1 DEF OpType, Phase
  <1> QED BY <1>1, <1>2, <1>3, <1>4, <1>5

\* A reconciliation that is somewhere is in progress.
LEMMA Working ==
    ASSUME Types, op.pc # "idle"
    PROVE  /\ op \in OpType
           /\ op.w \in TriggerObject /\ op.w.ref \in Tenants /\ op.w.uid \in Nat \ {0}
           /\ op.map \in MaybeMap /\ op.staleMap \in MaybeMap /\ op.stale \in MaybeTenant
  <1>1. op \in OpType
    BY Presence DEF Types
  <1> QED BY <1>1 DEF OpType, TriggerObject

\* A reconciliation that ends.
LEMMA ReturnType ==
    ASSUME Types, NEW again \in BOOLEAN, Return(again)
    PROVE  op' \in OpType \cup {Idle} /\ op' = Idle /\ queued' \in BOOLEAN
  BY DEF Return, Types

\* An update of the trigger is stored and remembered, or ends the reconciliation.
LEMMA UpdateType ==
    ASSUME Types, op \in OpType, NEW new \in TriggerObject, NEW pc \in Phase, Update(new, pc)
    PROVE  /\ queued' \in BOOLEAN
           /\ \/ op' = Idle /\ trigger' = trigger
              \/ /\ trigger = op.w /\ trigger' = new
                 /\ op' \in OpType /\ op'.w = new /\ op'.stale = op.stale
                 /\ op'.staleMap = op.staleMap /\ op'.map = op.map
  <1>1. CASE trigger = op.w
    <2>1. trigger' = new /\ op' = [op EXCEPT !.w = new, !.pc = pc] /\ queued' = queued
      BY <1>1 DEF Update
    <2>2. op' \in OpType /\ op'.w = new /\ op'.stale = op.stale
          /\ op'.staleMap = op.staleMap /\ op'.map = op.map
      BY <2>1 DEF OpType
    <2> QED BY <1>1, <2>1, <2>2 DEF Types
  <1>2. CASE trigger # op.w
    BY <1>2, ReturnType DEF Update
  <1> QED BY <1>1, <1>2

\* The finalizer is set.
LEMMA AddFinalizerStep ==
    ASSUME Types, AddFinalizer
    PROVE  /\ queued' \in BOOLEAN /\ op \in OpType
           /\ \/ op' = Idle /\ trigger' = trigger
              \/ /\ trigger = op.w /\ trigger' \in TriggerObject /\ trigger'.uid = trigger.uid
                 /\ op' \in OpType /\ op'.w.uid = op.w.uid /\ op'.w.ref = op.w.ref
                 /\ op'.stale = op.stale /\ op'.staleMap = op.staleMap /\ op'.map = op.map
  <1>1. op \in OpType /\ op.w \in TriggerObject
    BY Working DEF AddFinalizer
  <1> DEFINE new == [op.w EXCEPT !.finalizer = TRUE]
  <1>2. new \in TriggerObject /\ new.uid = op.w.uid /\ new.ref = op.w.ref
    BY <1>1 DEF TriggerObject
  <1>3. Update(new, Prepared(new))
    BY DEF AddFinalizer
  <1> HIDE DEF new
  <1>4. Prepared(new) \in Phase
    BY DEF Prepared, Phase
  <1> QED BY <1>1, <1>2, <1>3, <1>4, UpdateType

\* The label is set.
LEMMA LabelTenantStep ==
    ASSUME Types, LabelTenant
    PROVE  /\ queued' \in BOOLEAN /\ op \in OpType
           /\ \/ op' = Idle /\ trigger' = trigger
              \/ /\ trigger = op.w /\ trigger' \in TriggerObject /\ trigger'.uid = trigger.uid
                 /\ op' \in OpType /\ op'.w.uid = op.w.uid /\ op'.w.ref = op.w.ref
                 /\ op'.stale = op.stale /\ op'.staleMap = op.staleMap /\ op'.map = op.map
  <1>1. op \in OpType /\ op.w \in TriggerObject /\ op.w.ref \in Tenants
    BY Working DEF LabelTenant
  <1> DEFINE new == [op.w EXCEPT !.label = op.w.ref]
  <1>2. new \in TriggerObject /\ new.uid = op.w.uid /\ new.ref = op.w.ref
    BY <1>1 DEF TriggerObject, MaybeTenant
  <1>3. Update(new, "stale")
    BY DEF LabelTenant
  <1> HIDE DEF new
  <1>4. "stale" \in Phase
    BY DEF Phase
  <1> QED BY <1>1, <1>2, <1>3, <1>4, UpdateType

\* A reconciliation that begins has copies of the trigger and of owner maps from
\* the cache.
LEMMA LoadStep ==
    ASSUME Types, Load
    PROVE  \/ op' = Idle
           \/ /\ op' \in OpType /\ cache.trigger # None /\ op'.w = cache.trigger
              /\ op'.map \in {None, cache.owner[op'.w.ref]}
              /\ op'.stale = "" => op'.staleMap = None
              /\ op'.stale # "" => op'.staleMap = cache.owner[op'.stale]
  <1> DEFINE w == cache.trigger
             stale == StaleNamespace(w)
             up == tenant[w.ref].state = "settled"
             pc == IF w.deleting THEN "finalize" ELSE Prepared(w)
             staleMap == IF stale = "" THEN None ELSE cache.owner[stale]
             map == IF up THEN cache.owner[w.ref] ELSE None
             new == [pc |-> pc, w |-> w, up |-> up, sink |-> tenant[w.ref].sink,
                     stale |-> stale, staleMap |-> staleMap, map |-> map,
                     mutable |-> mutable[w.ref], status |-> w.status]
  <1>1. CASE w = None
    BY <1>1 DEF Load
  <1>2. CASE w # None
    <2>1. op' = new
      BY <1>2 DEF Load
    <2>2. w \in TriggerObject
      BY <1>2 DEF Types
    <2>3. w.ref \in Tenants /\ w.status \in StatusType /\ w.status.ns \in MaybeTenant
      BY <2>2 DEF TriggerObject, StatusType
    <2>4. stale \in MaybeTenant
      BY <2>3 DEF StaleNamespace, MaybeTenant
    <2>5. up \in BOOLEAN
      OBVIOUS
    <2>6. tenant[w.ref].sink \in Sinks /\ mutable[w.ref] \in BOOLEAN
      BY <2>3 DEF Types, TenantObject
    <2>7. pc \in Phase
      BY DEF Prepared, Phase
    <2>8. \A t \in Tenants : cache.owner[t] \in MaybeMap
      BY DEF Types
    <2>9. staleMap \in MaybeMap /\ map \in MaybeMap
      BY <2>3, <2>4, <2>8 DEF MaybeTenant, MaybeMap
    <2>10. map \in {None, cache.owner[w.ref]} /\ (stale = "" => staleMap = None)
           /\ (stale # "" => staleMap = cache.owner[stale])
      OBVIOUS
    <2>11. new.w = w /\ new.map = map /\ new.stale = stale /\ new.staleMap = staleMap
      OBVIOUS
    <2> HIDE DEF stale, up, pc, staleMap, map
    <2>12. new \in OpType
      BY <2>2, <2>3, <2>4, <2>5, <2>6, <2>7, <2>9 DEF OpType
    <2> HIDE DEF new
    <2> QED BY <1>2, <2>1, <2>10, <2>11, <2>12
  <1> QED BY <1>1, <1>2

\* Only the map that is taken for stale goes, and only if its copy says that it
\* is the trigger's.
LEMMA WithoutStaleMaps ==
    ASSUME Types, op \in OpType
    PROVE  /\ WithoutStale \in [Tenants -> MaybeMap]
           /\ \A t \in Tenants :
                 \/ WithoutStale[t] = owner[t]
                 \/ /\ WithoutStale[t] = None /\ t = op.stale
                    /\ IsDependencyOf(op.staleMap, op.w)
  BY DEF WithoutStale, Types, MaybeMap

\* DeleteStale deletes at most that map, and goes on or ends.
LEMMA DeleteStaleStep ==
    ASSUME Types, DeleteStale
    PROVE  /\ op \in OpType /\ owner' = WithoutStale /\ queued' \in BOOLEAN
           /\ \/ op' = Idle
              \/ /\ op' \in OpType /\ op'.w = op.w /\ op'.stale = op.stale
                 /\ op'.staleMap = op.staleMap /\ op'.map = op.map
  <1>1. op \in OpType /\ owner' = WithoutStale
    BY Working DEF DeleteStale
  <1>2. ASSUME NEW pc \in Phase, op' = [op EXCEPT !.pc = pc]
        PROVE  /\ op' \in OpType /\ op'.w = op.w /\ op'.stale = op.stale
               /\ op'.staleMap = op.staleMap /\ op'.map = op.map
    BY <1>1, <1>2 DEF OpType
  <1>3. CASE op.pc = "finalize" /\ op' = [op EXCEPT !.pc = "delete"] /\ queued' = queued
    BY <1>1, <1>2, <1>3 DEF Phase, Types
  <1>4. CASE op.pc = "stale" /\ op.up /\ op' = [op EXCEPT !.pc = "owner"] /\ queued' = queued
    BY <1>1, <1>2, <1>4 DEF Phase, Types
  <1>5. CASE Return(TRUE)
    BY <1>1, <1>5, ReturnType
  <1> QED BY <1>3, <1>4, <1>5 DEF DeleteStale

\* Delete deletes at most the map in the namespace of the tenant, if its copy
\* says that it is the trigger's.
LEMMA DeleteStep ==
    ASSUME Types, Delete
    PROVE  /\ op \in OpType /\ owner' \in [Tenants -> MaybeMap]
           /\ \A t \in Tenants :
                 \/ owner'[t] = owner[t]
                 \/ owner'[t] = None /\ t = op.w.ref /\ IsDependencyOf(op.map, op.w)
           /\ op' \in OpType /\ op'.w = op.w /\ op'.stale = op.stale
           /\ op'.staleMap = op.staleMap /\ op'.map = op.map
  <1>1. op \in OpType
    BY Working DEF Delete
  <1>2. op' \in OpType /\ op'.w = op.w /\ op'.stale = op.stale
        /\ op'.staleMap = op.staleMap /\ op'.map = op.map
    BY <1>1 DEF Delete, OpType, Phase
  <1>3. CASE IsDependencyOf(op.map, op.w)
    BY <1>1, <1>2, <1>3 DEF Delete, Types, MaybeMap
  <1>4. CASE ~IsDependencyOf(op.map, op.w)
    BY <1>1, <1>2, <1>4 DEF Delete, Types
  <1> QED BY <1>3, <1>4

\* The map that the trigger gets is its own, and is a new one or the one that
\* was there.
LEMMA ConfiguredMap ==
    ASSUME Types, op \in OpType
    PROVE  LET map == ConfigureWebhookTriggerDeps(op.map)
           IN  /\ map \in MapObject /\ map.of = op.w.uid
               /\ map.uid = IF op.map = None THEN made.map + 1 ELSE op.map.uid
  <1>1. op.w.uid \in Nat /\ op.map \in MaybeMap /\ made.map + 1 \in Nat \ {0}
    BY DEF OpType, TriggerObject, Types
  <1>2. CASE op.map = None
    <2>1. ConfigureWebhookTriggerDeps(op.map) = [uid |-> made.map + 1, of |-> op.w.uid]
      BY <1>2 DEF ConfigureWebhookTriggerDeps
    <2> QED BY <1>1, <1>2, <2>1 DEF MapObject
  <1>3. CASE op.map # None
    <2>1. ConfigureWebhookTriggerDeps(op.map) = [op.map EXCEPT !.of = op.w.uid]
      BY <1>3 DEF ConfigureWebhookTriggerDeps
    <2>2. op.map \in MapObject
      BY <1>1, <1>3 DEF MaybeMap
    <2> QED BY <1>1, <1>3, <2>1, <2>2 DEF MapObject
  <1> QED BY <1>2, <1>3

\* PersistOwner deletes at most the stale map, and gives the namespace of the
\* tenant a map of the trigger's.
LEMMA PersistOwnerStep ==
    ASSUME Types, PersistOwner
    PROVE  /\ op \in OpType /\ queued' \in BOOLEAN
           /\ made' \in [trigger : Nat, map : Nat \ {0}]
           /\ made'.trigger = made.trigger /\ made'.map >= made.map
           /\ \/ op' = Idle /\ owner' = WithoutStale
              \/ /\ op' \in OpType /\ op'.w = op.w /\ op'.stale = op.stale
                 /\ op'.staleMap = op.staleMap
                 /\ op'.map \in MapObject /\ op'.map.of = op.w.uid
                 /\ op'.map.uid \in {made'.map, owner[op.w.ref].uid}
                 /\ owner[op.w.ref] = None => op'.map.uid = made'.map
                 /\ space[op.w.ref] /\ owner' = [WithoutStale EXCEPT ![op.w.ref] = op'.map]
  <1> DEFINE t   == op.w.ref
             map == ConfigureWebhookTriggerDeps(op.map)
  <1>1. op \in OpType
    BY Working DEF PersistOwner
  <1>2. CASE ~(space[t] /\ owner[t] = op.map)
    <2>1. owner' = WithoutStale /\ Return(TRUE) /\ made' = made
      BY <1>2 DEF PersistOwner
    <2>2. op' = Idle /\ queued' \in BOOLEAN
      BY <2>1, ReturnType
    <2>3. made' \in [trigger : Nat, map : Nat \ {0}] /\ made'.map >= made.map
      BY <2>1 DEF Types
    <2> QED BY <1>1, <2>1, <2>2, <2>3
  <1>3. CASE space[t] /\ owner[t] = op.map
    <2>1. /\ owner' = [WithoutStale EXCEPT ![t] = map]
          /\ op' = [op EXCEPT !.map = map, !.pc = "deps"]
          /\ made' = [made EXCEPT !.map = IF op.map = None THEN @ + 1 ELSE @]
          /\ queued' = queued
      BY <1>3 DEF PersistOwner
    <2>2. map \in MapObject /\ map.of = op.w.uid
          /\ map.uid = IF op.map = None THEN made.map + 1 ELSE op.map.uid
      BY <1>1, ConfiguredMap
    <2> HIDE DEF map
    <2>3. op' \in OpType /\ op'.w = op.w /\ op'.stale = op.stale
          /\ op'.staleMap = op.staleMap /\ op'.map = map
      BY <1>1, <2>1, <2>2 DEF OpType, Phase, MaybeMap
    <2>4. made.map \in Nat \ {0} /\ made.map + 1 \in Nat \ {0} /\ made.trigger \in Nat
      BY DEF Types
    <2>5. /\ made' \in [trigger : Nat, map : Nat \ {0}] /\ made'.trigger = made.trigger
          /\ made'.map = IF op.map = None THEN made.map + 1 ELSE made.map
      BY <2>1, <2>4 DEF Types
    <2>6. made'.map >= made.map
      BY <2>4, <2>5
    <2>7. op'.map.uid \in {made'.map, owner[t].uid} /\ (owner[t] = None => op'.map.uid = made'.map)
      BY <1>3, <2>2, <2>3, <2>5
    <2> QED BY <1>1, <1>3, <2>1, <2>2, <2>3, <2>5, <2>6, <2>7 DEF Types
  <1> QED BY <1>2, <1>3

\* The service of the trigger.
LEMMA ServiceType ==
    ASSUME Types, op \in OpType, NEW old \in ServiceObject \cup {None}
    PROVE  /\ ConfigureKnativeService(old) \in ServiceObject
           /\ ConfigureWebhookTrigger(ConfigureKnativeService(old)) \in StatusType
           /\ ConfigureWebhookTrigger(None) \in StatusType
  <1>1. op.map.uid \in Nat /\ op.w.uid \in Nat /\ op.sink \in Sinks /\ op.w.ref \in Tenants
    BY Presence DEF OpType, TriggerObject, MaybeMap, MapObject
  <1>2. Own(old) \in SUBSET Nat
    BY <1>1 DEF Own, ServiceObject
  <1>3. AnnotateTriggerToken(old, op.sink) \in Sinks
    BY <1>1 DEF AnnotateTriggerToken, ServiceObject
  <1> DEFINE ready == old # None /\ old.ready
  <1>4. ready \in BOOLEAN
    BY DEF ServiceObject
  <1>5. ConfigureKnativeService(old) = [owners |-> Own(old), of |-> op.w.uid,
             sink |-> AnnotateTriggerToken(old, op.sink), ready |-> ready]
    BY DEF ConfigureKnativeService
  <1> HIDE DEF ready
  <1>6. ConfigureKnativeService(old) \in ServiceObject
    BY <1>1, <1>2, <1>3, <1>4, <1>5 DEF ServiceObject
  <1>7. \A result : ConfigureWebhookTrigger(result) \in StatusType
    BY <1>1 DEF ConfigureWebhookTrigger, StatusType, MaybeTenant
  <1> QED BY <1>6, <1>7

\* The bounds, and the counters that stay below them.
LEMMA Bounds ==
    /\ MaxTriggers \in Nat /\ MaxChanges \in Nat /\ MaxFailures \in Nat
    /\ \A x \in 0..MaxChanges : x < MaxChanges => x + 1 \in 0..MaxChanges
    /\ \A x \in 0..MaxFailures : x < MaxFailures => x + 1 \in 0..MaxFailures
  <1>1. MaxTriggers \in Nat /\ MaxChanges \in Nat /\ MaxFailures \in Nat
    BY TriggerAssumption
  <1> QED BY <1>1

\* Types, and that nothing is left in a namespace that is gone.
THEOREM TypesCorrect == Spec => [](Types /\ SpacesOK)
  <1>1. Init => Types /\ SpacesOK
    <2> SUFFICES ASSUME Init PROVE Types /\ SpacesOK
      OBVIOUS
    <2>1. Foreign \in MapObject /\ Foreign.uid = 1
      BY DEF Foreign, MapObject
    <2>2. owner \in [Tenants -> MaybeMap]
      BY <2>1 DEF Init, MaybeMap
    <2>3. \A t \in Tenants : owner[t] # None => owner[t].uid = 1
      BY <2>1 DEF Init
    <2>4. made \in [trigger : Nat, map : Nat \ {0}] /\ made.map = 1
      BY DEF Init
    <2>5. tenant \in [Tenants -> TenantObject]
      <3>1. (CHOOSE s \in Sinks : TRUE) \in Sinks
        BY TriggerAssumption
      <3> QED BY <3>1 DEF Init, TenantObject
    <2>6. cache \in [trigger : TriggerObject \cup {None}, owner : [Tenants -> MaybeMap]]
      BY <2>2 DEF Init
    <2>7. /\ space \in [Tenants -> BOOLEAN] /\ mutable \in [Tenants -> BOOLEAN]
          /\ service \in [Tenants -> ServiceObject \cup {None}]
          /\ \A t \in Tenants : space[t]
      BY DEF Init
    <2>8. changes \in 0..MaxChanges /\ failures \in 0..MaxFailures /\ taken = {}
      BY Bounds DEF Init
    <2>9. trigger = None /\ queued = FALSE /\ op = Idle
      BY DEF Init
    <2>10. Types
      BY <2>2, <2>4, <2>5, <2>6, <2>7, <2>8, <2>9 DEF Types
    <2>11. SpacesOK
      <3>1. \A t \in Tenants : owner[t] # None => owner[t].uid \in 1..made.map
        BY <2>3, <2>4
      <3> QED BY <2>7, <3>1 DEF SpacesOK
    <2> QED BY <2>10, <2>11
  <1>2. Types /\ SpacesOK /\ [Next]_vars => Types' /\ SpacesOK'
    <2> SUFFICES ASSUME Types, SpacesOK, [Next]_vars PROVE Types' /\ SpacesOK'
      OBVIOUS
    <2> USE DEF world, objects, count
    <2>0. changes \in 0..MaxChanges /\ failures \in 0..MaxFailures
      BY DEF Types
    <2>1. CASE TriggerEvent
      BY <2>1 DEF TriggerEvent, Types, SpacesOK
    <2>2. ASSUME NEW t \in Tenants, OwnerEvent(t) PROVE Types' /\ SpacesOK'
      <3>1. cache' = [cache EXCEPT !.owner = [cache.owner EXCEPT ![t] = owner[t]]]
        BY <2>2 DEF OwnerEvent
      <3>2. [cache.owner EXCEPT ![t] = owner[t]] \in [Tenants -> MaybeMap]
        BY DEF Types
      <3>3. cache' \in [trigger : TriggerObject \cup {None}, owner : [Tenants -> MaybeMap]]
        BY <3>1, <3>2 DEF Types
      <3> QED BY <2>2, <3>3 DEF OwnerEvent, Types, SpacesOK
    <2>3. ASSUME NEW t \in Tenants, CreateTrigger(t) PROVE Types' /\ SpacesOK'
      <3>1. made.trigger + 1 \in Nat \ {0} /\ made.trigger \in Nat /\ made.map \in Nat \ {0}
        BY DEF Types
      <3>2. NewTrigger(made.trigger + 1, t) \in TriggerObject
        BY <3>1 DEF NewTrigger, TriggerObject, StatusType, MaybeTenant
      <3>3. made' \in [trigger : Nat, map : Nat \ {0}] /\ made'.map = made.map
        BY <2>3, <3>1 DEF CreateTrigger, Types
      <3> QED BY <2>3, <3>2, <3>3 DEF CreateTrigger, Types, SpacesOK
    <2>4. ASSUME NEW t \in Tenants, ChangeTenantRef(t) PROVE Types' /\ SpacesOK'
      <3>1. trigger \in TriggerObject /\ trigger' = [trigger EXCEPT !.ref = t]
        BY <2>4 DEF ChangeTenantRef, Types
      <3>2. trigger' \in TriggerObject
        BY <3>1 DEF TriggerObject
      <3>3. changes' \in 0..MaxChanges
        BY <2>0, <2>4, Bounds DEF ChangeTenantRef, Change
      <3> QED BY <2>4, <3>2, <3>3 DEF ChangeTenantRef, Types, SpacesOK
    <2>5. CASE DeleteTrigger
      <3>1. trigger \in TriggerObject
        BY <2>5 DEF DeleteTrigger, Types
      <3>2. trigger' \in TriggerObject \cup {None}
        BY <2>5, <3>1 DEF DeleteTrigger, TriggerObject
      <3> QED BY <2>5, <3>2 DEF DeleteTrigger, Types, SpacesOK
    <2>6. ASSUME NEW t \in Tenants, NEW new \in [state : {"absent", "pending"}, sink : Sinks],
                 ChangeTenant(t, new)
          PROVE  Types' /\ SpacesOK'
      <3>1. tenant' \in [Tenants -> TenantObject]
        BY <2>6 DEF ChangeTenant, Types, TenantObject
      <3>2. changes' \in 0..MaxChanges /\ queued' \in BOOLEAN
        BY <2>0, <2>6, Bounds DEF ChangeTenant, Change, TenantEvent
      <3> QED BY <2>6, <3>1, <3>2 DEF ChangeTenant, Types, SpacesOK
    <2>7. ASSUME NEW t \in Tenants, Settle(t) PROVE Types' /\ SpacesOK'
      <3>1. tenant' = [tenant EXCEPT ![t] = [tenant[t] EXCEPT !.state = "settled"]]
        BY <2>7 DEF Settle
      <3>2. [tenant[t] EXCEPT !.state = "settled"] \in TenantObject
        BY DEF Types, TenantObject
      <3>3. tenant' \in [Tenants -> TenantObject] /\ queued' \in BOOLEAN
        BY <2>7, <3>1, <3>2 DEF Settle, TenantEvent, Types
      <3>4. space' \in [Tenants -> BOOLEAN] /\ \A u \in Tenants : space[u] => space'[u]
        BY <2>7 DEF Settle, Types
      <3> QED BY <2>7, <3>3, <3>4 DEF Settle, Types, SpacesOK
    <2>8. ASSUME NEW t \in Tenants, BreakSecret(t) \/ RepairSecret(t) PROVE Types' /\ SpacesOK'
      <3>1. \E st \in {"broken", "settled"} :
               tenant' = [tenant EXCEPT ![t] = [tenant[t] EXCEPT !.state = st]]
        BY <2>8 DEF BreakSecret, RepairSecret
      <3>2. \A st \in {"broken", "settled"} : [tenant[t] EXCEPT !.state = st] \in TenantObject
        BY DEF Types, TenantObject
      <3>3. tenant' \in [Tenants -> TenantObject]
        BY <3>1, <3>2 DEF Types
      <3>4. changes' \in 0..MaxChanges
        BY <2>0, <2>8, Bounds DEF BreakSecret, RepairSecret, Change
      <3> QED BY <2>8, <3>3, <3>4 DEF BreakSecret, RepairSecret, Types, SpacesOK
    <2>9. ASSUME NEW t \in Tenants, NamespaceGone(t) PROVE Types' /\ SpacesOK'
      <3>1. /\ owner' \in [Tenants -> MaybeMap]
            /\ \A u \in Tenants : owner'[u] = IF u = t THEN None ELSE owner[u]
        BY <2>9 DEF NamespaceGone, Types, MaybeMap
      <3>2. /\ service' \in [Tenants -> ServiceObject \cup {None}]
            /\ \A u \in Tenants : service'[u] = IF u = t THEN None ELSE service[u]
        BY <2>9 DEF NamespaceGone, Types
      <3>3. /\ space' \in [Tenants -> BOOLEAN] /\ mutable' \in [Tenants -> BOOLEAN]
            /\ \A u \in Tenants : u # t => space'[u] = space[u] /\ mutable'[u] = mutable[u]
            /\ ~mutable'[t]
        BY <2>9 DEF NamespaceGone, Types
      <3>4. queued' \in BOOLEAN
        BY <2>9 DEF NamespaceGone, ServiceEvent, Types
      <3>5. SpacesOK'
        BY <2>9, <3>1, <3>2, <3>3 DEF NamespaceGone, SpacesOK
      <3> QED BY <2>9, <3>1, <3>2, <3>3, <3>4, <3>5 DEF NamespaceGone, Types
    <2>25. ASSUME NEW t \in Tenants, TakeOver(t) PROVE Types' /\ SpacesOK'
      <3> DEFINE m == [uid |-> IF owner[t] = None THEN made.map + 1 ELSE owner[t].uid, of |-> 0]
                 n == IF owner[t] = None THEN made.map + 1 ELSE made.map
      <3>1. /\ owner' = [owner EXCEPT ![t] = m] /\ made' = [made EXCEPT !.map = n]
            /\ taken' = taken \cup {t} /\ space[t]
            /\ UNCHANGED <<trigger, tenant, space, mutable, service, cache, queued, op, failures>>
        BY <2>25 DEF TakeOver
      <3>2. made.map \in Nat \ {0} /\ made.map + 1 \in Nat \ {0}
        BY DEF Types
      <3>3. n \in Nat \ {0} /\ n >= made.map
        BY <3>2
      <3>4. m.uid \in 1..n
        BY <3>2 DEF SpacesOK
      <3>5. m \in MapObject
        BY <3>3, <3>4 DEF MapObject
      <3> HIDE DEF m, n
      <3>6. made' \in [trigger : Nat, map : Nat \ {0}] /\ made'.map = n
        BY <3>1, <3>3 DEF Types
      <3>7. /\ owner' \in [Tenants -> MaybeMap]
            /\ \A u \in Tenants : owner'[u] = IF u = t THEN m ELSE owner[u]
        BY <3>1, <3>5 DEF Types, MaybeMap
      <3>8. \A u \in Tenants : owner'[u] # None => owner'[u].uid \in 1..made'.map
        BY <3>2, <3>3, <3>4, <3>6, <3>7 DEF SpacesOK
      <3>9. SpacesOK'
        BY <3>1, <3>7, <3>8 DEF SpacesOK
      <3>10. changes' \in 0..MaxChanges
        BY <2>0, <2>25, Bounds DEF TakeOver, Change
      <3> QED BY <3>1, <3>6, <3>7, <3>9, <3>10 DEF Types
    <2>10. ASSUME NEW t \in Tenants, ServiceReady(t) \/ ServiceFails(t) \/ CollectService(t)
           PROVE  Types' /\ SpacesOK'
      <3>1. service[t] \in ServiceObject
        BY <2>10 DEF ServiceReady, ServiceFails, CollectService, Types
      <3>2. \A r \in BOOLEAN : [service[t] EXCEPT !.ready = r] \in ServiceObject
        BY <3>1 DEF ServiceObject
      <3>3. \E new \in ServiceObject \cup {None} : service' = [service EXCEPT ![t] = new]
        BY <2>10, <3>2 DEF ServiceReady, ServiceFails, CollectService
      <3>4. service' \in [Tenants -> ServiceObject \cup {None}]
            /\ \A u \in Tenants : u # t => service'[u] = service[u]
        BY <3>3 DEF Types
      <3>5. space[t]
        BY <3>1, Presence DEF SpacesOK
      <3>6. failures' \in 0..MaxFailures /\ queued' = TRUE
        BY <2>0, <2>10, Bounds DEF ServiceReady, ServiceFails, CollectService, ServiceEvent
      <3>7. /\ UNCHANGED <<trigger, tenant, space, taken, owner, mutable, cache, op, made, changes>>
        BY <2>10 DEF ServiceReady, ServiceFails, CollectService
      <3>8. SpacesOK'
        BY <3>4, <3>5, <3>7 DEF SpacesOK
      <3> QED BY <3>4, <3>6, <3>7, <3>8 DEF Types
    <2>11. CASE LoadFails
      <3>1. op' = Idle /\ queued' \in BOOLEAN
        BY <2>11, ReturnType DEF LoadFails
      <3> QED BY <2>11, <3>1 DEF LoadFails, Types, SpacesOK
    <2>12. CASE Load
      <3>1. op' \in OpType \cup {Idle}
        BY <2>12, LoadStep
      <3> QED BY <2>12, <3>1 DEF Load, Types, SpacesOK
    <2>13. CASE DeleteStale
      <3>1. owner' = WithoutStale /\ op' \in OpType \cup {Idle} /\ queued' \in BOOLEAN
            /\ op \in OpType
        BY <2>13, DeleteStaleStep
      <3>2. owner' \in [Tenants -> MaybeMap] /\ \A t \in Tenants : owner'[t] \in {owner[t], None}
        BY <3>1, WithoutStaleMaps
      <3>3. UNCHANGED <<trigger, tenant, space, taken, mutable, service, cache, made, changes, failures>>
        BY <2>13 DEF DeleteStale
      <3>4. SpacesOK'
        BY <3>2, <3>3 DEF SpacesOK
      <3> QED BY <3>1, <3>2, <3>3, <3>4 DEF Types
    <2>14. CASE Delete
      <3>1. owner' \in [Tenants -> MaybeMap] /\ op' \in OpType
            /\ \A t \in Tenants : owner'[t] \in {owner[t], None}
        BY <2>14, DeleteStep
      <3>2. UNCHANGED <<trigger, tenant, space, taken, mutable, service, cache, queued, made, changes,
                        failures>>
        BY <2>14 DEF Delete
      <3>3. SpacesOK'
        BY <3>1, <3>2 DEF SpacesOK
      <3> QED BY <3>1, <3>2, <3>3 DEF Types
    <2>15. CASE RemoveFinalizer
      <3>1. op' = Idle /\ queued' \in BOOLEAN
        BY <2>15, ReturnType DEF RemoveFinalizer
      <3> QED BY <2>15, <3>1 DEF RemoveFinalizer, Types, SpacesOK
    <2>16. CASE AddFinalizer \/ LabelTenant
      <3>1. op' \in OpType \cup {Idle} /\ trigger' \in TriggerObject \cup {None} /\ queued' \in BOOLEAN
        BY <2>16, AddFinalizerStep, LabelTenantStep DEF Types
      <3> QED BY <2>16, <3>1 DEF AddFinalizer, LabelTenant, Types, SpacesOK
    <2>17. CASE PersistOwner
      <3>1. UNCHANGED <<trigger, tenant, space, taken, mutable, service, cache, changes, failures>>
        BY <2>17 DEF PersistOwner
      <3>2. /\ op' \in OpType \cup {Idle} /\ queued' \in BOOLEAN
            /\ made' \in [trigger : Nat, map : Nat \ {0}] /\ made'.map >= made.map
            /\ op \in OpType
        BY <2>17, PersistOwnerStep
      <3>3. WithoutStale \in [Tenants -> MaybeMap]
            /\ \A t \in Tenants : WithoutStale[t] \in {owner[t], None}
        BY <3>2, WithoutStaleMaps
      <3>4. made.map \in Nat /\ made'.map \in Nat
        BY <3>2 DEF Types
      <3>5. \A t \in Tenants : WithoutStale[t] # None => WithoutStale[t].uid \in 1..made'.map
        BY <3>2, <3>3, <3>4 DEF SpacesOK
      <3>6. CASE owner' = WithoutStale
        BY <3>1, <3>2, <3>3, <3>5, <3>6 DEF Types, SpacesOK
      <3>7. ASSUME NEW m \in MapObject, owner' = [WithoutStale EXCEPT ![op.w.ref] = m],
                   m.uid \in {made'.map, owner[op.w.ref].uid},
                   owner[op.w.ref] = None => m.uid = made'.map, space[op.w.ref]
            PROVE  Types' /\ SpacesOK'
        <4>1. owner' \in [Tenants -> MaybeMap]
          BY <3>3, <3>7 DEF MaybeMap
        <4>2. op.w.ref \in Tenants
          BY <3>2 DEF OpType, TriggerObject
        <4>3. m.uid \in 1..made'.map
          BY <3>2, <3>4, <3>7, <4>2 DEF SpacesOK, MapObject
        <4>4. \A t \in Tenants : owner'[t] = IF t = op.w.ref THEN m ELSE WithoutStale[t]
          BY <3>3, <3>7
        <4>5. SpacesOK'
          BY <3>1, <3>3, <3>5, <3>7, <4>3, <4>4 DEF SpacesOK
        <4> QED BY <3>1, <3>2, <4>1, <4>5 DEF Types
      <3> QED BY <2>17, <3>6, <3>7, PersistOwnerStep
    <2>18. CASE PersistDeps
      <3>1. op \in OpType /\ op.w.ref \in Tenants
        BY <2>18, Working DEF PersistDeps
      <3>2. CASE space[op.w.ref] /\ mutable[op.w.ref] = op.mutable
        <4>1. mutable' = [mutable EXCEPT ![op.w.ref] = TRUE] /\ op' = [op EXCEPT !.pc = "service"]
              /\ queued' = queued
          BY <2>18, <3>2 DEF PersistDeps
        <4>2. op' \in OpType
          BY <3>1, <4>1 DEF OpType, Phase
        <4>3. mutable' \in [Tenants -> BOOLEAN]
              /\ \A t \in Tenants : t # op.w.ref => mutable'[t] = mutable[t]
          BY <4>1 DEF Types
        <4> QED BY <2>18, <3>2, <4>1, <4>2, <4>3 DEF PersistDeps, Types, SpacesOK
      <3>3. CASE ~(space[op.w.ref] /\ mutable[op.w.ref] = op.mutable)
        <4>1. op' = Idle /\ queued' \in BOOLEAN /\ mutable' = mutable
          BY <2>18, <3>3, ReturnType DEF PersistDeps
        <4> QED BY <2>18, <4>1 DEF PersistDeps, Types, SpacesOK
      <3> QED BY <3>2, <3>3
    <2>19. CASE ApplyKnativeService
      <3> DEFINE t == op.w.ref
                 new == ConfigureKnativeService(service[t])
      <3>1. op \in OpType /\ t \in Tenants
        BY <2>19, Working DEF ApplyKnativeService
      <3>2. new \in ServiceObject /\ ConfigureWebhookTrigger(new) \in StatusType
        BY <3>1, ServiceType DEF Types
      <3>3. /\ service' = [service EXCEPT ![t] = new] /\ space[t]
            /\ op' = [op EXCEPT !.pc = "status", !.status = ConfigureWebhookTrigger(new)]
            /\ queued' = (queued \/ new # service[t])
        BY <2>19 DEF ApplyKnativeService
      <3> HIDE DEF new
      <3>4. op' \in OpType /\ queued' \in BOOLEAN
        BY <3>1, <3>2, <3>3 DEF OpType, Phase
      <3>5. service' \in [Tenants -> ServiceObject \cup {None}]
            /\ \A u \in Tenants : u # t => service'[u] = service[u]
        BY <3>2, <3>3 DEF Types
      <3> QED BY <2>19, <3>3, <3>4, <3>5 DEF ApplyKnativeService, Types, SpacesOK
    <2>20. CASE ApplyKnativeServiceFails
      <3>1. op \in OpType /\ op.w.ref \in Tenants
        BY <2>20, Working DEF ApplyKnativeServiceFails
      <3>2. ConfigureWebhookTrigger(None) \in StatusType
        BY <3>1, ServiceType
      <3>3. op' \in OpType
        BY <2>20, <3>1, <3>2 DEF ApplyKnativeServiceFails, OpType, Phase
      <3>4. failures' \in 0..MaxFailures
        BY <2>0, <2>20, Bounds DEF ApplyKnativeServiceFails
      <3> QED BY <2>20, <3>3, <3>4 DEF ApplyKnativeServiceFails, Types, SpacesOK
    <2>21. CASE PersistStatus
      <3>1. op \in OpType /\ op.w \in TriggerObject /\ op.status \in StatusType
        BY <2>21, Working DEF PersistStatus, OpType
      <3>2. [op.w EXCEPT !.status = op.status] \in TriggerObject
        BY <3>1 DEF TriggerObject
      <3>3. op' = Idle /\ queued' \in BOOLEAN
        BY <2>21, ReturnType DEF PersistStatus
      <3> QED BY <2>21, <3>2, <3>3 DEF PersistStatus, Types, SpacesOK
    <2>22. CASE Fail
      <3>1. op' = Idle /\ queued' \in BOOLEAN
        BY <2>22, ReturnType DEF Fail
      <3>2. failures' \in 0..MaxFailures
        BY <2>0, <2>22, Bounds DEF Fail
      <3> QED BY <2>22, <3>1, <3>2 DEF Fail, Types, SpacesOK
    <2>23. CASE OperatorRestart
      <3>1. failures' \in 0..MaxFailures
        BY <2>0, <2>23, Bounds DEF OperatorRestart
      <3>2. cache' \in [trigger : TriggerObject \cup {None}, owner : [Tenants -> MaybeMap]]
        BY <2>23 DEF OperatorRestart, Types
      <3> QED BY <2>23, <3>1, <3>2 DEF OperatorRestart, Types, SpacesOK
    <2>24. CASE UNCHANGED vars
      BY <2>24 DEF vars, Types, SpacesOK
    <2> QED BY <2>1, <2>2, <2>3, <2>4, <2>5, <2>6, <2>7, <2>8, <2>9, <2>10, <2>11, <2>12, <2>13,
               <2>14, <2>15, <2>16, <2>17, <2>18, <2>19, <2>20, <2>21, <2>22, <2>23, <2>24, <2>25
            DEF Next, Reconcile
  <1> QED BY <1>1, <1>2, PTL DEF Spec

-----------------------------------------------------------------------------
(* What a step can do to the trigger, the reconciliation and the maps *)

\* The actions that do not touch the trigger, the cache, the reconciliation or
\* owner maps.
LEMMA Quiet ==
    ASSUME NEW t \in Tenants, NEW new,
           \/ ChangeTenant(t, new) \/ Settle(t) \/ BreakSecret(t) \/ RepairSecret(t)
           \/ ServiceReady(t) \/ ServiceFails(t) \/ CollectService(t)
    PROVE  UNCHANGED <<trigger, cache, op, owner, made, taken>>
  BY DEF ChangeTenant, Settle, BreakSecret, RepairSecret, ServiceReady, ServiceFails,
         CollectService, objects, world, count

\* What someone else does to an owner map.
LEMMA TakeOverStep ==
    ASSUME Types, NEW u \in Tenants, TakeOver(u)
    PROVE  /\ UNCHANGED <<trigger, tenant, space, mutable, service, cache, queued, op>>
           /\ made'.trigger = made.trigger
           /\ \A t \in Tenants :
                 IF t = u THEN /\ owner'[t] \in MapObject /\ owner'[t].of = 0 /\ t \in taken'
                               /\ owner[t] # None => owner'[t].uid = owner[t].uid
                          ELSE owner'[t] = owner[t]
  <1> DEFINE m == [uid |-> IF owner[u] = None THEN made.map + 1 ELSE owner[u].uid, of |-> 0]
             n == IF owner[u] = None THEN made.map + 1 ELSE made.map
  <1>1. /\ owner' = [owner EXCEPT ![u] = m] /\ made' = [made EXCEPT !.map = n]
        /\ taken' = taken \cup {u}
        /\ UNCHANGED <<trigger, tenant, space, mutable, service, cache, queued, op>>
    BY DEF TakeOver
  <1>2. m \in MapObject /\ m.of = 0 /\ (owner[u] # None => m.uid = owner[u].uid)
    BY DEF Types, MaybeMap, MapObject
  <1> HIDE DEF m, n
  <1>3. made'.trigger = made.trigger
    BY <1>1 DEF Types
  <1> QED BY <1>1, <1>2, <1>3 DEF Types

\* Once taken over, always taken over.
LEMMA TakenGrows ==
    ASSUME [Next]_vars
    PROVE  taken \subseteq taken'
  <1> USE DEF world, objects, count
  <1>1. CASE \E t \in Tenants : TakeOver(t)
    BY <1>1 DEF TakeOver
  <1>2. CASE \/ TriggerEvent \/ Reconcile \/ Fail \/ OperatorRestart \/ DeleteTrigger \/ UNCHANGED vars
             \/ \E t \in Tenants : \/ OwnerEvent(t) \/ NamespaceGone(t) \/ CreateTrigger(t)
                                   \/ ChangeTenantRef(t)
    BY <1>2 DEF TriggerEvent, Reconcile, Load, LoadFails, DeleteStale, Delete, RemoveFinalizer,
       AddFinalizer, LabelTenant, PersistOwner, PersistDeps, ApplyKnativeService,
       ApplyKnativeServiceFails, PersistStatus, Fail, OperatorRestart, DeleteTrigger, OwnerEvent,
       NamespaceGone, CreateTrigger, ChangeTenantRef, vars
  <1> QED BY <1>1, <1>2, Quiet DEF Next

\* The trigger is kept, goes, changes under its UID or is created with a new one.
LEMMA TriggerSteps ==
    ASSUME Types, [Next]_vars
    PROVE  /\ made.trigger \in Nat
           /\ \/ /\ made'.trigger = made.trigger
                 /\ \/ trigger' \in {trigger, None}
                    \/ trigger # None /\ trigger'.uid = trigger.uid
              \/ /\ trigger'.uid = made.trigger + 1 /\ made'.trigger = made.trigger + 1
                 /\ UNCHANGED <<cache, op, owner>>
  <1> USE DEF world, objects, count
  <1>0. made.trigger \in Nat /\ made \in [trigger : Nat, map : Nat \ {0}]
    BY DEF Types
  <1>1. ASSUME NEW t \in Tenants, CreateTrigger(t)
        PROVE  /\ trigger'.uid = made.trigger + 1 /\ made'.trigger = made.trigger + 1
               /\ UNCHANGED <<cache, op, owner>>
    BY <1>0, <1>1 DEF CreateTrigger, NewTrigger
  <1>2. ASSUME NEW t \in Tenants, ChangeTenantRef(t)
        PROVE  trigger # None /\ trigger'.uid = trigger.uid /\ made' = made
    <2>1. trigger \in TriggerObject
      BY <1>2 DEF ChangeTenantRef, Types
    <2> QED BY <1>2, <2>1 DEF ChangeTenantRef, TriggerObject
  <1>3. CASE DeleteTrigger
    <2>1. trigger \in TriggerObject /\ trigger # None /\ made' = made
      BY <1>3 DEF DeleteTrigger, Types
    <2>2. [trigger EXCEPT !.deleting = TRUE].uid = trigger.uid
      BY <2>1 DEF TriggerObject
    <2> QED BY <1>0, <1>3, <2>1, <2>2 DEF DeleteTrigger
  <1>4. CASE RemoveFinalizer
    BY <1>0, <1>4 DEF RemoveFinalizer
  <1>5. CASE AddFinalizer \/ LabelTenant
    <2>1. made' = made
      BY <1>5 DEF AddFinalizer, LabelTenant
    <2>2. \/ trigger' = trigger
          \/ trigger = op.w /\ op \in OpType /\ trigger'.uid = trigger.uid
      BY <1>5, AddFinalizerStep, LabelTenantStep
    <2>3. trigger = op.w /\ op \in OpType => trigger # None
      BY Presence DEF OpType
    <2> QED BY <1>0, <2>1, <2>2, <2>3
  <1>6. CASE PersistStatus
    <2>1. op.w \in TriggerObject
      BY <1>6, Working DEF PersistStatus
    <2>2. [op.w EXCEPT !.status = op.status].uid = op.w.uid /\ op.w # None
      BY <2>1, Presence DEF TriggerObject
    <2> QED BY <1>0, <1>6, <2>2 DEF PersistStatus
  <1>7. CASE PersistOwner
    BY <1>0, <1>7, PersistOwnerStep DEF PersistOwner
  <1>8. CASE UNCHANGED <<trigger, made>>
    BY <1>0, <1>8
  <1>9. CASE \/ TriggerEvent \/ LoadFails \/ Load \/ DeleteStale \/ Delete \/ PersistDeps
             \/ ApplyKnativeService \/ ApplyKnativeServiceFails \/ Fail \/ OperatorRestart
             \/ \E t \in Tenants : OwnerEvent(t) \/ NamespaceGone(t)
             \/ UNCHANGED vars
    BY <1>8, <1>9 DEF TriggerEvent, LoadFails, Load, DeleteStale, Delete, PersistDeps,
       ApplyKnativeService, ApplyKnativeServiceFails, Fail, OperatorRestart, OwnerEvent,
       NamespaceGone, vars
  <1>10. CASE \E t \in Tenants : TakeOver(t)
    BY <1>0, <1>10, TakeOverStep
  <1> QED BY <1>0, <1>1, <1>2, <1>3, <1>4, <1>5, <1>6, <1>7, <1>8, <1>9, <1>10, Quiet
          DEF Next, Reconcile

\* A reconciliation ends, begins, or goes on with the trigger and the copies of
\* maps that it has, except that it has written a map of its own.
LEMMA OpSteps ==
    ASSUME Types, [Next]_vars
    PROVE  \/ op' = op
           \/ op' = Idle
           \/ /\ op \in OpType /\ op' \in OpType
              /\ op'.w.uid = op.w.uid /\ op'.w.ref = op.w.ref
              /\ op'.stale = op.stale /\ op'.staleMap = op.staleMap
              /\ op'.map = op.map \/ (op'.map.of = op.w.uid /\ owner'[op.w.ref] = op'.map)
           \/ Load
  <1> USE DEF world, objects, count
  <1>1. CASE AddFinalizer \/ LabelTenant
    BY <1>1, AddFinalizerStep, LabelTenantStep
  <1>2. CASE DeleteStale
    BY <1>2, DeleteStaleStep
  <1>3. CASE Delete
    BY <1>3, DeleteStep
  <1>4. CASE PersistOwner
    <2>1. CASE op' = Idle
      BY <2>1
    <2>2. CASE op' # Idle
      <3>1. /\ op \in OpType /\ op' \in OpType /\ op'.w = op.w /\ op'.stale = op.stale
            /\ op'.staleMap = op.staleMap /\ op'.map.of = op.w.uid
            /\ owner' = [WithoutStale EXCEPT ![op.w.ref] = op'.map]
        BY <1>4, <2>2, PersistOwnerStep
      <3>2. owner'[op.w.ref] = op'.map
        BY <3>1, WithoutStaleMaps DEF OpType, TriggerObject
      <3> QED BY <3>1, <3>2
    <2> QED BY <2>1, <2>2
  <1>5. ASSUME op \in OpType, NEW pc \in Phase, op' = [op EXCEPT !.pc = pc]
        PROVE  /\ op' \in OpType /\ op'.w = op.w /\ op'.stale = op.stale
               /\ op'.staleMap = op.staleMap /\ op'.map = op.map
    BY <1>5 DEF OpType
  <1>6. CASE PersistDeps
    <2>1. op \in OpType /\ (op' = Idle \/ op' = [op EXCEPT !.pc = "service"])
      BY <1>6, Working DEF PersistDeps, Return
    <2> QED BY <1>5, <2>1 DEF Phase
  <1>7. CASE ApplyKnativeService \/ ApplyKnativeServiceFails
    <2>1. op \in OpType /\ op.w.ref \in Tenants
      BY <1>7, Working DEF ApplyKnativeService, ApplyKnativeServiceFails
    <2>2. \A old \in ServiceObject \cup {None} :
             /\ ConfigureWebhookTrigger(ConfigureKnativeService(old)) \in StatusType
             /\ ConfigureWebhookTrigger(None) \in StatusType
      BY <2>1, ServiceType
    <2>3. service[op.w.ref] \in ServiceObject \cup {None}
      BY <2>1 DEF Types
    <2>4. \E st \in StatusType : op' = [op EXCEPT !.pc = "status", !.status = st]
      BY <1>7, <2>2, <2>3 DEF ApplyKnativeService, ApplyKnativeServiceFails
    <2>5. /\ op' \in OpType /\ op'.w = op.w /\ op'.stale = op.stale
          /\ op'.staleMap = op.staleMap /\ op'.map = op.map
      BY <2>1, <2>4 DEF OpType, Phase
    <2> QED BY <2>1, <2>5
  <1>8. CASE LoadFails \/ RemoveFinalizer \/ PersistStatus \/ Fail \/ OperatorRestart
    BY <1>8 DEF LoadFails, RemoveFinalizer, PersistStatus, Fail, OperatorRestart, Return
  <1>9. CASE \/ TriggerEvent \/ DeleteTrigger
             \/ \E t \in Tenants : \/ OwnerEvent(t) \/ NamespaceGone(t)
                                   \/ CreateTrigger(t) \/ ChangeTenantRef(t)
             \/ UNCHANGED vars
    BY <1>9 DEF TriggerEvent, DeleteTrigger, OwnerEvent, NamespaceGone, CreateTrigger,
       ChangeTenantRef, vars
  <1>10. CASE \E t \in Tenants : TakeOver(t)
    BY <1>10, TakeOverStep
  <1> QED BY <1>1, <1>2, <1>3, <1>4, <1>6, <1>7, <1>8, <1>9, <1>10, Quiet DEF Next, Reconcile

\* The cache is kept, or gets objects as they are.
LEMMA CacheSteps ==
    ASSUME Types, [Next]_vars
    PROVE  \/ cache' = cache
           \/ /\ cache'.trigger \in {cache.trigger, trigger}
              /\ \A t \in Tenants : cache'.owner[t] \in {cache.owner[t], owner[t]}
              /\ UNCHANGED <<trigger, owner, made>> /\ op' \in {op, Idle}
  <1> USE DEF world, objects, count
  <1>1. CASE TriggerEvent \/ OperatorRestart
    BY <1>1 DEF TriggerEvent, OperatorRestart, Types
  <1>2. ASSUME NEW t \in Tenants, OwnerEvent(t)
        PROVE  /\ cache'.trigger = cache.trigger
               /\ \A u \in Tenants : cache'.owner[u] \in {cache.owner[u], owner[u]}
               /\ UNCHANGED <<trigger, owner, made, op>>
    <2>1. cache' = [cache EXCEPT !.owner = [cache.owner EXCEPT ![t] = owner[t]]]
      BY <1>2 DEF OwnerEvent
    <2>2. cache'.trigger = cache.trigger /\ cache'.owner = [cache.owner EXCEPT ![t] = owner[t]]
      BY <2>1 DEF Types
    <2>3. \A u \in Tenants : cache'.owner[u] \in {cache.owner[u], owner[u]}
      BY <2>2 DEF Types
    <2> QED BY <1>2, <2>2, <2>3 DEF OwnerEvent
  <1>3. CASE \/ Reconcile \/ Fail \/ DeleteTrigger \/ UNCHANGED vars
             \/ \E t \in Tenants : NamespaceGone(t) \/ CreateTrigger(t) \/ ChangeTenantRef(t)
    BY <1>3 DEF Reconcile, Load, LoadFails, DeleteStale, Delete, RemoveFinalizer, AddFinalizer,
       LabelTenant, PersistOwner, PersistDeps, ApplyKnativeService, ApplyKnativeServiceFails,
       PersistStatus, Fail, DeleteTrigger, NamespaceGone, CreateTrigger, ChangeTenantRef, vars
  <1>4. CASE \E t \in Tenants : TakeOver(t)
    BY <1>4, TakeOverStep
  <1> QED BY <1>1, <1>2, <1>3, <1>4, Quiet DEF Next

\* A map is kept, goes with its namespace, is deleted because its copy says that
\* it is the trigger's, becomes the trigger's, or is taken over.
LEMMA OwnerSteps ==
    ASSUME Types, [Next]_vars, NEW t \in Tenants
    PROVE  \/ owner'[t] = owner[t]
           \/ owner'[t] = None /\ ~space'[t]
           \/ /\ owner'[t] = None /\ op \in OpType
              /\ \/ t = op.stale /\ IsDependencyOf(op.staleMap, op.w)
                 \/ t = op.w.ref /\ IsDependencyOf(op.map, op.w)
           \/ owner'[t] # None /\ owner'[t].of = op.w.uid /\ op \in OpType /\ op' # Idle
           \/ owner'[t] # None /\ owner'[t].of = 0 /\ t \in taken'
  <1> USE DEF world, objects, count
  <1>1. ASSUME NEW u \in Tenants, NamespaceGone(u)
        PROVE  owner'[t] = owner[t] \/ (owner'[t] = None /\ ~space'[t])
    BY <1>1 DEF NamespaceGone, Types
  <1>2. CASE DeleteStale
    BY <1>2, DeleteStaleStep, WithoutStaleMaps
  <1>3. CASE Delete
    BY <1>3, DeleteStep
  <1>4. CASE PersistOwner
    <2>1. op \in OpType
      BY <1>4, PersistOwnerStep
    <2>2. /\ WithoutStale \in [Tenants -> MaybeMap]
          /\ \/ WithoutStale[t] = owner[t]
             \/ /\ WithoutStale[t] = None /\ t = op.stale
                /\ IsDependencyOf(op.staleMap, op.w)
      BY <2>1, WithoutStaleMaps
    <2>3. CASE op' = Idle
      BY <1>4, <2>1, <2>2, <2>3, PersistOwnerStep, Presence
    <2>4. CASE op' # Idle
      <3>1. /\ op' \in OpType /\ op'.map \in MapObject /\ op'.map.of = op.w.uid
            /\ owner' = [WithoutStale EXCEPT ![op.w.ref] = op'.map]
        BY <1>4, <2>4, PersistOwnerStep
      <3>2. owner'[t] = IF t = op.w.ref THEN op'.map ELSE WithoutStale[t]
        BY <2>2, <3>1
      <3> QED BY <2>1, <2>2, <2>4, <3>1, <3>2, Presence
    <2> QED BY <2>3, <2>4
  <1>5. CASE \/ Load \/ LoadFails \/ RemoveFinalizer \/ AddFinalizer \/ LabelTenant \/ PersistDeps
             \/ ApplyKnativeService \/ ApplyKnativeServiceFails \/ PersistStatus
             \/ TriggerEvent \/ Fail \/ OperatorRestart \/ DeleteTrigger \/ UNCHANGED vars
             \/ \E u \in Tenants : OwnerEvent(u) \/ CreateTrigger(u) \/ ChangeTenantRef(u)
    BY <1>5 DEF Load, LoadFails, RemoveFinalizer, AddFinalizer, LabelTenant, PersistDeps,
       ApplyKnativeService, ApplyKnativeServiceFails, PersistStatus, TriggerEvent, Fail,
       OperatorRestart, DeleteTrigger, OwnerEvent, CreateTrigger, ChangeTenantRef, vars
  <1>6. ASSUME NEW u \in Tenants, TakeOver(u)
        PROVE  owner'[t] = owner[t] \/ (owner'[t] # None /\ owner'[t].of = 0 /\ t \in taken')
    BY <1>6, TakeOverStep, Presence
  <1> QED BY <1>1, <1>2, <1>3, <1>4, <1>5, <1>6, Quiet DEF Next, Reconcile

-----------------------------------------------------------------------------
(* Copies of owner maps *)

\* What is not later than any trigger that is there stays so: triggers are seen
\* in the order in which they were created.
LEMMA LowKept ==
    ASSUME Types, [Next]_vars, NEW k \in Nat, Low(k, trigger, cache.trigger, op, made.trigger)
    PROVE  Low(k, trigger', cache'.trigger, op', made'.trigger)
  <1>1. k <= made'.trigger
    BY TriggerSteps DEF Low
  <1>2. trigger' # None => k <= trigger'.uid
    BY TriggerSteps DEF Low
  <1>3. cache'.trigger # None => k <= cache'.trigger.uid
    BY CacheSteps DEF Low
  <1>4. op' # Idle => k <= op'.w.uid
    <2>1. CASE Load
      BY <2>1, LoadStep DEF Low
    <2>2. CASE op' = Idle \/ op' = op
      BY <2>2 DEF Low
    <2>3. CASE op \in OpType /\ op'.w.uid = op.w.uid
      BY <2>3, Presence DEF Low
    <2> QED BY <2>1, <2>2, <2>3, OpSteps
  <1> QED BY <1>1, <1>2, <1>3, <1>4 DEF Low

\* So does a copy of a map.
LEMMA KnownKept ==
    ASSUME Types, [Next]_vars, NEW c \in MaybeMap,
           Known(c, trigger, cache.trigger, op, made.trigger)
    PROVE  Known(c, trigger', cache'.trigger, op', made'.trigger)
  <1>1. c # None => c.of \in Nat
    BY DEF MaybeMap, MapObject
  <1> QED BY <1>1, LowKept DEF Known

\* A copy of a map does not get ahead of the map, unless that is taken over.
LEMMA OlderKept ==
    ASSUME Types, [Next]_vars, NEW t \in Tenants, NEW c \in MaybeMap,
           Known(c, trigger, cache.trigger, op, made.trigger),
           t \in taken \/ Older(c, owner[t])
    PROVE  t \in taken' \/ Older(c, owner'[t])
  <1>0. CASE t \in taken \/ t \in taken'
    BY <1>0, TakenGrows
  <1>1. CASE t \notin taken /\ owner'[t] \in {owner[t], None}
    BY <1>1 DEF Older
  <1>2. CASE owner'[t].of = op.w.uid /\ op \in OpType
    BY <1>2, Presence DEF Older, Known, Low
  <1> QED BY <1>0, <1>1, <1>2, OwnerSteps

\* The order of triggers is kept.
LEMMA UidStep ==
    ASSUME Types, UidInv, [Next]_vars
    PROVE  UidInv'
  <1>1. trigger' # None => trigger'.uid <= made'.trigger
    <2>1. trigger # None => trigger.uid \in Nat
      BY DEF Types, TriggerObject
    <2> QED BY <2>1, TriggerSteps DEF UidInv
  <1>2. cache'.trigger # None => Low(cache'.trigger.uid, trigger', None, Idle, made'.trigger)
    <2> SUFFICES ASSUME cache'.trigger # None
                 PROVE  /\ cache'.trigger.uid <= made'.trigger
                        /\ trigger' # None => cache'.trigger.uid <= trigger'.uid
      BY DEF Low
    <2>0. \A x \in TriggerObject : x.uid \in Nat
      BY DEF TriggerObject
    <2>1. CASE cache' = cache
      <3>1. cache.trigger.uid \in Nat
        BY <2>0, <2>1 DEF Types
      <3> QED BY <2>1, <3>1, TriggerSteps DEF UidInv, Low
    <2>2. CASE cache'.trigger \in {cache.trigger, trigger} /\ UNCHANGED <<trigger, made>>
      <3>1. trigger # None => trigger.uid \in Nat
        BY <2>0 DEF Types
      <3> QED BY <2>2, <3>1 DEF UidInv, Low
    <2> QED BY <2>1, <2>2, CacheSteps
  <1>3. op' # Idle => Low(op'.w.uid, trigger', cache'.trigger, op', made'.trigger)
    <2>1. CASE op # Idle /\ op'.w.uid = op.w.uid
      <3>1. op.w.uid \in Nat
        BY <2>1 DEF Types, OpType, TriggerObject
      <3> QED BY <2>1, <3>1, LowKept DEF UidInv
    <2>2. CASE Load
      <3> SUFFICES ASSUME op' # Idle
                   PROVE  Low(op'.w.uid, trigger', cache'.trigger, op', made'.trigger)
        OBVIOUS
      <3>1. op'.w = cache.trigger /\ cache.trigger # None
        BY <2>2, LoadStep
      <3>2. UNCHANGED <<trigger, cache, made>>
        BY <2>2 DEF Load, count
      <3>3. cache.trigger.uid \in Nat
        BY <3>1 DEF Types, TriggerObject
      <3> QED BY <3>1, <3>2, <3>3 DEF UidInv, Low
    <2>3. CASE op' = Idle
      BY <2>3
    <2> QED BY <2>1, <2>2, <2>3, OpSteps, Presence
  <1> QED BY <1>1, <1>2, <1>3 DEF UidInv

\* What the reconciler knows of owner maps stays true in the sense of MapInv.
LEMMA MapStep ==
    ASSUME Types, Types', UidInv, MapInv, [Next]_vars
    PROVE  MapInv'
  <1>0. \A u \in Tenants : owner[u] \in MaybeMap /\ cache.owner[u] \in MaybeMap
    BY DEF Types
  <1>1. op \in OpType => Low(op.w.uid, trigger', cache'.trigger, op', made'.trigger)
    <2>1. op \in OpType => op.w.uid \in Nat
      BY DEF OpType, TriggerObject
    <2> QED BY <2>1, LowKept, Presence DEF UidInv
  <1>4. Low(0, trigger', cache'.trigger, op', made'.trigger)
    BY DEF Types, Low, TriggerObject, OpType
  <1>2. ASSUME NEW t \in Tenants
        PROVE  /\ Known(owner'[t], trigger', cache'.trigger, op', made'.trigger)
               /\ Known(cache'.owner[t], trigger', cache'.trigger, op', made'.trigger)
               /\ t \in taken' \/ Older(cache'.owner[t], owner'[t])
    <2>1. /\ Known(owner[t], trigger', cache'.trigger, op', made'.trigger)
          /\ Known(cache.owner[t], trigger', cache'.trigger, op', made'.trigger)
      BY <1>0, KnownKept DEF MapInv
    <2>2. Known(owner'[t], trigger', cache'.trigger, op', made'.trigger)
      BY <1>1, <1>4, <2>1, OwnerSteps DEF Known
    <2>3. Known(cache'.owner[t], trigger', cache'.trigger, op', made'.trigger)
      BY <2>1, CacheSteps
    <2>4. t \in taken' \/ Older(cache.owner[t], owner'[t])
      BY <1>0, OlderKept DEF MapInv
    <2>5. Older(owner[t], owner[t])
      BY <1>0 DEF Older, MaybeMap, MapObject
    <2>6. t \in taken' \/ Older(cache'.owner[t], owner'[t])
      BY <2>4, <2>5, CacheSteps
    <2> QED BY <2>2, <2>3, <2>6
  <1>3. ASSUME op' # Idle
        PROVE  /\ Known(op'.map, trigger', cache'.trigger, op', made'.trigger)
               /\ Known(op'.staleMap, trigger', cache'.trigger, op', made'.trigger)
               /\ op'.w.ref \in taken' \/ Older(op'.map, owner'[op'.w.ref])
               /\ op'.stale = "" => op'.staleMap = None
               /\ op'.stale # "" => op'.stale \in taken' \/ Older(op'.staleMap, owner'[op'.stale])
    <2>0. op' \in OpType /\ op'.w.ref \in Tenants /\ op'.stale \in MaybeTenant
          /\ op'.map \in MaybeMap
      BY <1>3 DEF Types, OpType, TriggerObject
    <2>1. CASE Load
      <3>1. /\ op'.map \in {None, cache.owner[op'.w.ref]}
            /\ op'.stale = "" => op'.staleMap = None
            /\ op'.stale # "" => op'.staleMap = cache.owner[op'.stale]
        BY <1>3, <2>1, LoadStep
      <3>2. cache' = cache
        BY <2>1 DEF Load
      <3>3. Known(None, trigger', cache'.trigger, op', made'.trigger)
            /\ \A m : Older(None, m)
        BY DEF Known, Older
      <3>4. op'.stale # "" => op'.stale \in Tenants
        BY <2>0 DEF MaybeTenant
      <3> QED BY <1>2, <2>0, <3>1, <3>2, <3>3, <3>4
    <2>2. ASSUME op \in OpType, op'.w.ref = op.w.ref, op'.stale = op.stale,
                 op'.staleMap = op.staleMap,
                 op'.map = op.map \/ (op'.map.of = op.w.uid /\ owner'[op.w.ref] = op'.map)
          PROVE  /\ Known(op'.map, trigger', cache'.trigger, op', made'.trigger)
                 /\ Known(op'.staleMap, trigger', cache'.trigger, op', made'.trigger)
                 /\ op'.w.ref \in taken' \/ Older(op'.map, owner'[op'.w.ref])
                 /\ op'.stale = "" => op'.staleMap = None
                 /\ op'.stale # "" => op'.stale \in taken' \/ Older(op'.staleMap, owner'[op'.stale])
      <3>1. op # Idle /\ op.map \in MaybeMap /\ op.staleMap \in MaybeMap
        BY <2>2, Presence DEF OpType
      <3>2. /\ Known(op.map, trigger', cache'.trigger, op', made'.trigger)
            /\ Known(op.staleMap, trigger', cache'.trigger, op', made'.trigger)
        BY <3>1, KnownKept DEF MapInv
      <3>3. op.w.ref \in taken' \/ Older(op.map, owner'[op.w.ref])
        BY <2>0, <2>2, <3>1, OlderKept DEF MapInv
      <3>4. op.stale # "" => op.stale \in Tenants
        BY <2>0, <2>2 DEF MaybeTenant
      <3>5. op.stale # "" => op.stale \in taken' \/ Older(op.staleMap, owner'[op.stale])
        BY <3>1, <3>4, OlderKept DEF MapInv
      <3>6. Known(op'.map, trigger', cache'.trigger, op', made'.trigger)
        BY <1>1, <2>2, <3>2 DEF Known
      <3>7. Older(op'.map, op'.map)
        BY <2>0 DEF Older, MaybeMap, MapObject
      <3>8. op'.w.ref \in taken' \/ Older(op'.map, owner'[op'.w.ref])
        BY <2>2, <3>3, <3>7
      <3> QED BY <2>2, <3>1, <3>2, <3>5, <3>6, <3>8 DEF MapInv
    <2>3. CASE op' = op
      BY <1>3, <2>0, <2>2, <2>3
    <2> QED BY <1>3, <2>1, <2>2, <2>3, OpSteps
  <1> QED BY <1>2, <1>3 DEF MapInv

-----------------------------------------------------------------------------
(* The theorems *)

\* Copies of owner maps, in the cache and in a reconciliation, are true or out
\* of date in one way only, unless someone has taken the map over: the map was
\* deleted or has become a later trigger's.  Triggers are seen in the order of their creation (Load, PersistOwner).
THEOREM CopiesCorrect == Spec => [](Types /\ SpacesOK /\ UidInv /\ MapInv)
  <1>1. Init => UidInv /\ MapInv
    <2> SUFFICES ASSUME Init PROVE UidInv /\ MapInv
      OBVIOUS
    <2>1. trigger = None /\ cache.trigger = None /\ op = Idle /\ made.trigger = 0
          /\ cache.owner = owner
      BY DEF Init
    <2>2. Foreign.of = 0
      BY DEF Foreign
    <2>3. \A t \in Tenants : owner[t] # None => owner[t].of = 0
      BY <2>2 DEF Init
    <2> QED BY <2>1, <2>3 DEF UidInv, MapInv, Known, Older, Low
  <1>2. Types /\ Types' /\ UidInv /\ MapInv /\ [Next]_vars => UidInv' /\ MapInv'
    BY UidStep, MapStep
  <1> QED BY <1>1, <1>2, TypesCorrect, PTL DEF Spec

\* Type correctness; nothing is left in a namespace that is gone, and maps are of
\* triggers that there were.
THEOREM TypeCorrect == Spec => []TypeOK
  <1>1. Types /\ SpacesOK /\ UidInv /\ MapInv => TypeOK
    <2> SUFFICES ASSUME Types, SpacesOK, UidInv, MapInv PROVE TypeOK
      OBVIOUS
    <2>1. trigger # None => trigger.ref \in Tenants /\ trigger.uid \in 1..made.trigger
      BY DEF Types, TriggerObject, UidInv
    <2>2. ASSUME NEW t \in Tenants
          PROVE  /\ tenant[t].state \in {"absent", "pending", "settled", "broken"}
                 /\ tenant[t].sink \in Sinks
      BY DEF Types, TenantObject
    <2>3. ASSUME NEW t \in Tenants, owner[t] # None PROVE owner[t].of \in 0..made.trigger
      <3>1. owner[t].of \in Nat /\ made.trigger \in Nat
        BY <2>3 DEF Types, MaybeMap, MapObject
      <3>2. owner[t].of <= made.trigger
        BY <2>3 DEF MapInv, Known, Low
      <3> QED BY <3>1, <3>2
    <2> QED BY <2>1, <2>2, <2>3 DEF TypeOK, Types, SpacesOK
  <1> QED BY <1>1, CopiesCorrect, PTL

\* Maps that are not the trigger's are not deleted by the reconciler, although it
\* deletes by name, on the strength of a copy from a cache (IsDependencyOf),
\* unless someone else took the name over after the copy was made.
THEOREM OthersKept == Spec => OthersMapsKept
  <1> DEFINE Kept == \A t \in Tenants :
                        owner[t] # None /\ space'[t] /\ owner'[t] = None =>
                            /\ op # Idle
                            /\ \/ owner[t].of = op.w.uid
                               \/ t \in taken /\ DeletesByOldCopy(t)
  <1>1. ASSUME Types, UidInv, MapInv, [Next]_vars, NEW t \in Tenants,
               owner[t] # None, space'[t], owner'[t] = None
        PROVE  op # Idle /\ (owner[t].of = op.w.uid \/ (t \in taken /\ DeletesByOldCopy(t)))
    <2>1. /\ op \in OpType
          /\ \/ t = op.stale /\ IsDependencyOf(op.staleMap, op.w)
             \/ t = op.w.ref /\ IsDependencyOf(op.map, op.w)
      BY <1>1, OwnerSteps
    <2>2. op # Idle
      BY <2>1, Presence
    <2>3. op.stale = t => op.stale # ""
      BY TriggerAssumption
    <2>7. CASE t \in taken
      BY <2>1, <2>2, <2>7 DEF IsDependencyOf, DeletesByOldCopy
    <2>4. t \notin taken => op.w.uid <= owner[t].of
      BY <1>1, <2>1, <2>2, <2>3 DEF MapInv, Older, IsDependencyOf
    <2>5. owner[t].of <= op.w.uid
      BY <1>1, <2>2 DEF MapInv, Known, Low
    <2>6. owner[t].of \in Nat /\ op.w.uid \in Nat
      BY <1>1, <2>1 DEF Types, MaybeMap, MapObject, OpType, TriggerObject
    <2> QED BY <2>2, <2>4, <2>5, <2>6, <2>7
  <1>2. Types /\ UidInv /\ MapInv /\ [Next]_vars => [Kept]_vars
    BY <1>1
  <1> QED BY <1>2, CopiesCorrect, PTL DEF Spec, OthersMapsKept

-----------------------------------------------------------------------------
(* No trigger is forgotten *)

\* The service s serves the trigger with this UID, for this event sink, and is
\* owned by the map m.
ServesAs(s, uid, sink, m) ==
    /\ s # None /\ s.ready /\ s.of = uid /\ s.sink = sink
    /\ m # None /\ m.uid \in s.owners

\* A tenant, given as te, that is not changing: what belongs to it was there when
\* it was loaded last, even if its Secret cannot be loaded now.
Up(te) == te.state \in {"settled", "broken"}

\* The events of the tenant that the trigger in the cache refers to enqueue it.
Watched == cache.trigger # None /\ cache.trigger.label = cache.trigger.ref

\* Where a reconciliation o has got to, and what it has therefore done already.
Phases(o) ==
    /\ o.pc \in {"finalizer", "label", "stale", "owner", "deps", "service", "status"}
          => ~o.w.deleting
    /\ o.pc \in {"label", "stale", "owner", "deps", "service", "status"} => o.w.finalizer
    /\ o.pc \in {"stale", "owner", "deps", "service", "status"} => o.w.label = o.w.ref
    /\ o.pc \in {"owner", "deps", "service", "status"} => o.up
    /\ o.pc = "status" /\ o.status.ready = "True" => o.status.ns = o.w.ref

\* The trigger that o reconciles is the one in the cache.
Agrees(o, c) ==
    c # None /\ o.w.uid = c.uid /\ o.w.ref = c.ref /\ o.w.deleting = c.deleting

\* What o has read of its tenant te still holds, and so does what it has done to
\* the owner map ow and to the service se.
Current(o, te, ow, se) ==
    /\ o.up => Up(te)
    /\ o.sink = te.sink
    /\ o.pc \in {"deps", "service", "status"} => ow # None /\ ow.uid = o.map.uid
    /\ o.pc = "status" /\ o.status.ready = "True" => ServesAs(se, o.w.uid, o.sink, ow)

\* Nothing is left to do for the trigger tr as its copy c in the cache shows it,
\* whose tenant, owner map and service are te, ow and se.
Complete(tr, c, te, ow, se) ==
    /\ ~c.deleting /\ tr.finalizer /\ tr.label = c.ref
    /\ tr.status = [ns |-> c.ref, ready |-> "True"]
    /\ c.label = c.ref /\ Up(te) => ServesAs(se, c.uid, te.sink, ow)

\* While the trigger is not in the queue, the reconciliation in progress works on
\* what is there; when there is none, nothing is left to do.
WakeInv ==
    /\ Phases(op)
    /\ op # Idle /\ ~queued => Agrees(op, cache.trigger)
    /\ op # Idle /\ ~queued /\ Watched =>
          Current(op, tenant[op.w.ref], owner[op.w.ref], service[op.w.ref])
    /\ op = Idle /\ ~queued /\ cache.trigger # None /\ trigger # None
       /\ trigger.uid = cache.trigger.uid =>
          LET t == cache.trigger.ref
          IN  Complete(trigger, cache.trigger, tenant[t], owner[t], service[t])

\* A trigger that is not in the queue, is not being reconciled and is in the
\* cache as it is has nothing to wait for: it is not deleted, and it is served
\* if its tenant is settled.  This is what TriggerServed and TriggerDeleted rely
\* on: events, requeues and errors enqueue it whenever there is work.
TriggerRemembered ==
    op = Idle /\ ~queued /\ cache.trigger = trigger /\ trigger # None =>
        ~trigger.deleting /\ (Settled => Served)

\* A reconciliation that begins has what is there of the trigger's tenant.
LEMMA LoadCurrent ==
    ASSUME Types, Load, op' # Idle
    PROVE  /\ op' \in OpType /\ op'.w = cache.trigger /\ cache.trigger # None
           /\ cache.trigger.ref \in Tenants
           /\ op'.up => tenant[cache.trigger.ref].state = "settled"
           /\ op'.sink = tenant[cache.trigger.ref].sink
           /\ op'.pc \in {"finalize", "finalizer", "label", "stale"}
           /\ Phases(op')
  <1>1. op' \in OpType /\ op'.w = cache.trigger /\ cache.trigger # None
    BY LoadStep
  <1> DEFINE w == cache.trigger
             up == tenant[w.ref].state = "settled"
  <1>2. w \in TriggerObject /\ w.ref \in Tenants
    BY <1>1 DEF Types, TriggerObject
  <1>3. /\ op'.up = up /\ op'.sink = tenant[w.ref].sink
        /\ op'.pc = IF w.deleting THEN "finalize" ELSE Prepared(w)
    <2> DEFINE pc == IF w.deleting THEN "finalize" ELSE Prepared(w)
               stale == StaleNamespace(w)
               staleMap == IF stale = "" THEN None ELSE cache.owner[stale]
               map == IF up THEN cache.owner[w.ref] ELSE None
    <2>1. op' = [pc |-> pc, w |-> w, up |-> up, sink |-> tenant[w.ref].sink,
                 stale |-> stale, staleMap |-> staleMap, map |-> map,
                 mutable |-> mutable[w.ref], status |-> w.status]
      BY <1>1 DEF Load
    <2> HIDE DEF pc, stale, staleMap, map, up
    <2>2. op'.up = up /\ op'.sink = tenant[w.ref].sink /\ op'.pc = pc
      BY <2>1
    <2> QED BY <2>2 DEF pc
  <1>4. op'.pc \in {"finalize", "finalizer", "label", "stale"}
    BY <1>3 DEF Prepared
  <1>5. /\ op'.pc # "finalize" => ~w.deleting
        /\ op'.pc \in {"label", "stale"} => w.finalizer
        /\ op'.pc = "stale" => w.label = w.ref
    BY <1>3 DEF Prepared
  <1>6. Phases(op')
    BY <1>1, <1>4, <1>5 DEF Phases
  <1> QED BY <1>1, <1>2, <1>3, <1>4, <1>6

\* An update of the trigger that goes on.
LEMMA UpdateGoesOn ==
    ASSUME op \in OpType, NEW new \in TriggerObject, NEW pc \in Phase, Update(new, pc), op' # Idle
    PROVE  /\ queued' = queued /\ op' \in OpType /\ op'.w = new /\ op'.pc = pc
           /\ op'.up = op.up /\ op'.sink = op.sink
  <1>1. op' = [op EXCEPT !.w = new, !.pc = pc] /\ queued' = queued
    BY DEF Update, Return
  <1> QED BY <1>1 DEF OpType

\* What a reconciliation in progress has become if it goes on with the same
\* trigger and what it has read of the tenant.
GoesOn ==
    /\ op \in OpType /\ op' \in OpType
    /\ op'.w.uid = op.w.uid /\ op'.w.ref = op.w.ref /\ op'.w.deleting = op.w.deleting
    /\ op'.up = op.up /\ op'.sink = op.sink
    /\ UNCHANGED <<cache, tenant>>
    /\ ~queued' => ~queued
    /\ Phases(op')

\* The trigger gets its finalizer and its label.
LEMMA PrepareGoesOn ==
    ASSUME Types, Phases(op), op' # Idle, AddFinalizer \/ LabelTenant
    PROVE  GoesOn /\ op'.pc \in {"label", "stale"}
  <1>0. op \in OpType /\ op.w \in TriggerObject /\ op.w.ref \in Tenants
    BY Working DEF AddFinalizer, LabelTenant
  <1>1. UNCHANGED <<cache, tenant>>
    BY DEF AddFinalizer, LabelTenant, world
  <1>2. CASE AddFinalizer
    <2> DEFINE new == [op.w EXCEPT !.finalizer = TRUE]
    <2>1. /\ new \in TriggerObject /\ new.uid = op.w.uid /\ new.ref = op.w.ref
          /\ new.deleting = op.w.deleting /\ new.finalizer
      BY <1>0 DEF TriggerObject
    <2>2. Update(new, Prepared(new)) /\ op.pc = "finalizer"
      BY <1>2 DEF AddFinalizer
    <2> HIDE DEF new
    <2>3. Prepared(new) \in {"label", "stale"} /\ (Prepared(new) = "stale" => new.label = new.ref)
      BY <2>1 DEF Prepared
    <2>4. Prepared(new) \in Phase
      BY <2>3 DEF Phase
    <2>5. /\ queued' = queued /\ op' \in OpType /\ op'.w = new /\ op'.pc = Prepared(new)
          /\ op'.up = op.up /\ op'.sink = op.sink
      BY <1>0, <2>1, <2>2, <2>4, UpdateGoesOn
    <2>6. ~op.w.deleting
      BY <2>2 DEF Phases
    <2>7. Phases(op')
      BY <2>1, <2>3, <2>5, <2>6 DEF Phases
    <2> QED BY <1>0, <1>1, <2>1, <2>3, <2>5, <2>7 DEF GoesOn
  <1>3. CASE LabelTenant
    <2> DEFINE new == [op.w EXCEPT !.label = op.w.ref]
    <2>1. /\ new \in TriggerObject /\ new.uid = op.w.uid /\ new.ref = op.w.ref
          /\ new.deleting = op.w.deleting /\ new.finalizer = op.w.finalizer
          /\ new.label = op.w.ref
      BY <1>0 DEF TriggerObject, MaybeTenant
    <2>2. Update(new, "stale") /\ op.pc = "label"
      BY <1>3 DEF LabelTenant
    <2> HIDE DEF new
    <2>3. /\ queued' = queued /\ op' \in OpType /\ op'.w = new /\ op'.pc = "stale"
          /\ op'.up = op.up /\ op'.sink = op.sink
      BY <1>0, <2>1, <2>2, UpdateGoesOn DEF Phase
    <2>4. ~op.w.deleting /\ op.w.finalizer
      BY <2>2 DEF Phases
    <2>5. Phases(op')
      BY <2>1, <2>3, <2>4 DEF Phases
    <2> QED BY <1>0, <1>1, <2>1, <2>3, <2>5 DEF GoesOn
  <1> QED BY <1>2, <1>3

\* Stale objects are deleted, or those of a trigger that is deleted.
LEMMA DeleteGoesOn ==
    ASSUME Types, Phases(op), op' # Idle, DeleteStale \/ Delete
    PROVE  GoesOn /\ op'.pc \in {"delete", "finalized", "owner"}
  <1>0. op \in OpType
    BY Working DEF DeleteStale, Delete
  <1>1. UNCHANGED <<cache, tenant>>
    BY DEF DeleteStale, Delete, world
  <1>2. PICK pc \in {"delete", "finalized", "owner"} :
           /\ op' = [op EXCEPT !.pc = pc] /\ queued' = queued
           /\ pc = "owner" => op.pc = "stale" /\ op.up
    BY DEF DeleteStale, Delete, Return
  <1>3. /\ op' \in OpType /\ op'.w = op.w /\ op'.pc = pc /\ op'.up = op.up /\ op'.sink = op.sink
    BY <1>0, <1>2 DEF OpType, Phase
  <1>4. Phases(op')
    BY <1>2, <1>3 DEF Phases
  <1> QED BY <1>0, <1>1, <1>2, <1>3, <1>4 DEF GoesOn

\* The owner map is written and remembered.
LEMMA OwnerGoesOn ==
    ASSUME Types, Phases(op), op' # Idle, PersistOwner
    PROVE  /\ GoesOn /\ op'.pc = "deps"
           /\ owner'[op.w.ref] = op'.map /\ op'.map # None
  <1>0. op \in OpType /\ op.w.ref \in Tenants /\ op.pc = "owner"
    BY Working DEF PersistOwner
  <1>1. UNCHANGED <<cache, tenant>>
    BY DEF PersistOwner, world
  <1>2. /\ op' \in OpType /\ op'.map \in MapObject
        /\ owner' = [WithoutStale EXCEPT ![op.w.ref] = op'.map]
    BY PersistOwnerStep
  <1>3. owner'[op.w.ref] = op'.map /\ op'.map # None
    BY <1>0, <1>2, WithoutStaleMaps, Presence
  <1> DEFINE map == ConfigureWebhookTriggerDeps(op.map)
  <1>4. op' = [op EXCEPT !.map = map, !.pc = "deps"] /\ queued' = queued
    BY DEF PersistOwner, Return
  <1> HIDE DEF map
  <1>5. /\ op'.w = op.w /\ op'.pc = "deps" /\ op'.up = op.up /\ op'.sink = op.sink
    BY <1>0, <1>4 DEF OpType
  <1>6. Phases(op')
    BY <1>0, <1>5 DEF Phases
  <1> QED BY <1>0, <1>1, <1>2, <1>3, <1>4, <1>5, <1>6 DEF GoesOn

\* So is the rest of what the metadata API needs.
LEMMA DepsGoesOn ==
    ASSUME Types, Phases(op), op' # Idle, PersistDeps
    PROVE  /\ GoesOn /\ op.pc = "deps" /\ op'.pc = "service"
           /\ op'.map = op.map /\ owner' = owner
  <1>0. op \in OpType /\ op.pc = "deps"
    BY Working DEF PersistDeps
  <1>1. UNCHANGED <<cache, tenant, owner>>
    BY DEF PersistDeps, world
  <1>2. op' = [op EXCEPT !.pc = "service"] /\ queued' = queued
    BY DEF PersistDeps, Return
  <1>3. /\ op' \in OpType /\ op'.w = op.w /\ op'.pc = "service" /\ op'.up = op.up
        /\ op'.sink = op.sink /\ op'.map = op.map
    BY <1>0, <1>2 DEF OpType, Phase
  <1>4. Phases(op')
    BY <1>0, <1>3 DEF Phases
  <1> QED BY <1>0, <1>1, <1>2, <1>3, <1>4 DEF GoesOn

\* The service is as it should be if the status is to say that it is ready.
LEMMA ServiceGoesOn ==
    ASSUME Types, Phases(op), ApplyKnativeService \/ ApplyKnativeServiceFails
    PROVE  /\ GoesOn /\ op.pc = "service" /\ op'.pc = "status"
           /\ op'.map = op.map /\ owner' = owner
           /\ op'.status.ready = "True" =>
                 \A m : m # None /\ m.uid = op.map.uid =>
                           ServesAs(service'[op.w.ref], op.w.uid, op.sink, m)
  <1>0. op \in OpType /\ op.w.ref \in Tenants /\ op.pc = "service"
    BY Working DEF ApplyKnativeService, ApplyKnativeServiceFails
  <1>1. UNCHANGED <<cache, tenant, owner>>
    BY DEF ApplyKnativeService, ApplyKnativeServiceFails, world, objects
  <1>2. ~queued' => ~queued
    BY DEF ApplyKnativeService, ApplyKnativeServiceFails
  <1>3. ASSUME NEW st \in StatusType, op' = [op EXCEPT !.pc = "status", !.status = st],
               st.ready = "True" => st.ns = op.w.ref
        PROVE  /\ GoesOn /\ op'.pc = "status" /\ op'.map = op.map /\ op'.status = st
    <2>1. /\ op' \in OpType /\ op'.w = op.w /\ op'.pc = "status" /\ op'.up = op.up
          /\ op'.sink = op.sink /\ op'.map = op.map /\ op'.status = st
      BY <1>0, <1>3 DEF OpType, Phase
    <2>2. Phases(op')
      BY <1>0, <1>3, <2>1 DEF Phases
    <2> QED BY <1>0, <1>1, <1>2, <2>1, <2>2 DEF GoesOn
  <1>4. CASE ApplyKnativeServiceFails
    <2> DEFINE st == ConfigureWebhookTrigger(None)
    <2>1. st \in StatusType /\ st.ready = "False"
      BY DEF ConfigureWebhookTrigger, StatusType, MaybeTenant
    <2>2. op' = [op EXCEPT !.pc = "status", !.status = st]
      BY <1>4 DEF ApplyKnativeServiceFails
    <2> HIDE DEF st
    <2>3. GoesOn /\ op'.pc = "status" /\ op'.map = op.map /\ op'.status = st
      BY <1>3, <2>1, <2>2
    <2> QED BY <1>0, <1>1, <2>1, <2>3
  <1>5. CASE ApplyKnativeService
    <2> DEFINE old == service[op.w.ref]
               new == ConfigureKnativeService(old)
               st  == ConfigureWebhookTrigger(new)
    <2>1. old \in ServiceObject \cup {None}
      BY <1>0 DEF Types
    <2>2. /\ service' = [service EXCEPT ![op.w.ref] = new]
          /\ op' = [op EXCEPT !.pc = "status", !.status = st]
      BY <1>5 DEF ApplyKnativeService
    <2>3. new \in ServiceObject /\ st \in StatusType
      BY <1>0, <2>1, ServiceType
    <2>4. new # None /\ new.of = op.w.uid
      BY <2>3, Presence DEF ConfigureKnativeService
    <2>5. new.sink = op.sink
      BY DEF ConfigureKnativeService, AnnotateTriggerToken
    <2>6. op.map.uid \in new.owners
      BY DEF ConfigureKnativeService, Own
    <2> HIDE DEF new
    <2>7. st.ready = "True" => st.ns = op.w.ref /\ new.ready
      BY <2>4 DEF ConfigureWebhookTrigger
    <2>8. service'[op.w.ref] = new
      BY <1>0, <2>2 DEF Types
    <2> HIDE DEF st
    <2>9. GoesOn /\ op'.pc = "status" /\ op'.map = op.map /\ op'.status = st
      BY <1>3, <2>2, <2>3, <2>7
    <2> QED BY <1>0, <1>1, <2>4, <2>5, <2>6, <2>7, <2>8, <2>9 DEF ServesAs
  <1> QED BY <1>4, <1>5

\* What others do while the trigger is not in the queue and does not get there:
\* the copy in the cache and the reconciliation stay, the trigger keeps what the
\* reconciler has written to it, and the tenant that is watched, its owner map,
\* by its UID, and its service stay as they are, unless the tenant is changing
\* already.
LEMMA OthersSteps ==
    ASSUME Types, [Next]_vars, ~Reconcile, ~queued'
    PROVE  /\ ~queued /\ op' = op /\ cache'.trigger = cache.trigger
           /\ \/ trigger' = None \/ trigger'.uid = made.trigger + 1
              \/ /\ trigger # None /\ trigger'.uid = trigger.uid
                 /\ trigger'.label = trigger.label /\ trigger'.status = trigger.status
                 /\ trigger'.finalizer = trigger.finalizer
           /\ Watched /\ cache.trigger.ref \in Tenants =>
                 LET t == cache.trigger.ref
                 IN  /\ tenant'[t].sink = tenant[t].sink /\ (Up(tenant'[t]) <=> Up(tenant[t]))
                     /\ Up(tenant[t]) => service'[t] = service[t]
                     /\ Up(tenant[t]) /\ owner[t] # None =>
                           owner'[t] # None /\ owner'[t].uid = owner[t].uid
  <1> USE DEF world, objects, count
  <1>0. ~TriggerEvent /\ ~Fail /\ ~OperatorRestart
        /\ \A t \in Tenants : ~ServiceReady(t) /\ ~ServiceFails(t) /\ ~CollectService(t)
    BY DEF TriggerEvent, Fail, OperatorRestart, Return, ServiceReady, ServiceFails,
       CollectService, ServiceEvent
  <1>1. CASE UNCHANGED <<trigger, tenant, owner, service, op, queued, cache>>
    BY <1>1
  <1>2. ASSUME NEW t \in Tenants, OwnerEvent(t)
        PROVE  /\ cache'.trigger = cache.trigger
               /\ UNCHANGED <<trigger, tenant, owner, service, op, queued>>
    <2>1. cache' = [cache EXCEPT !.owner = [cache.owner EXCEPT ![t] = owner[t]]]
      BY <1>2 DEF OwnerEvent
    <2>2. cache'.trigger = cache.trigger
      BY <2>1 DEF Types
    <2> QED BY <1>2, <2>2 DEF OwnerEvent
  <1>3. ASSUME NEW t \in Tenants, CreateTrigger(t)
        PROVE  /\ trigger'.uid = made.trigger + 1
               /\ UNCHANGED <<tenant, owner, service, op, queued, cache>>
    BY <1>3 DEF CreateTrigger, NewTrigger
  <1>4. ASSUME NEW t \in Tenants, ChangeTenantRef(t)
        PROVE  /\ trigger # None /\ trigger'.uid = trigger.uid
               /\ trigger'.label = trigger.label /\ trigger'.status = trigger.status
               /\ trigger'.finalizer = trigger.finalizer
               /\ UNCHANGED <<tenant, owner, service, op, queued, cache>>
    <2>1. trigger \in TriggerObject /\ trigger' = [trigger EXCEPT !.ref = t]
      BY <1>4 DEF ChangeTenantRef, Types
    <2>2. /\ trigger'.uid = trigger.uid /\ trigger'.label = trigger.label
          /\ trigger'.status = trigger.status /\ trigger'.finalizer = trigger.finalizer
      BY <2>1 DEF TriggerObject
    <2> QED BY <1>4, <2>2 DEF ChangeTenantRef
  <1>5. CASE DeleteTrigger
    <2>1. trigger \in TriggerObject /\ trigger # None
      BY <1>5 DEF DeleteTrigger, Types
    <2> DEFINE new == [trigger EXCEPT !.deleting = TRUE]
    <2>2. /\ new.uid = trigger.uid /\ new.label = trigger.label
          /\ new.status = trigger.status /\ new.finalizer = trigger.finalizer
      BY <2>1 DEF TriggerObject
    <2>3. /\ trigger' \in {new, None}
          /\ UNCHANGED <<tenant, owner, service, op, queued, cache>>
      BY <1>5 DEF DeleteTrigger
    <2> HIDE DEF new
    <2> QED BY <2>1, <2>2, <2>3
  <1>6. ASSUME NEW t \in Tenants,
               \/ \E new \in [state : {"absent", "pending"}, sink : Sinks] : ChangeTenant(t, new)
               \/ Settle(t)
        PROVE  /\ UNCHANGED <<trigger, owner, service, op, cache>> /\ ~queued
               /\ \A u \in Tenants \ {t} : tenant'[u] = tenant[u]
               /\ Watched => cache.trigger.ref # t
    <2>1. queued' = (queued \/ (cache.trigger # None /\ cache.trigger.label = t))
      BY <1>6 DEF ChangeTenant, Settle, TenantEvent
    <2>2. ~queued /\ (Watched => cache.trigger.ref # t)
      BY <2>1, Zenon DEF Watched
    <2>3. UNCHANGED <<trigger, owner, service, op, cache>>
      BY <1>6 DEF ChangeTenant, Settle
    <2>4. \A u \in Tenants \ {t} : tenant'[u] = tenant[u]
      BY <1>6 DEF ChangeTenant, Settle, Types
    <2> QED BY <2>2, <2>3, <2>4
  <1>7. ASSUME NEW t \in Tenants, BreakSecret(t) \/ RepairSecret(t)
        PROVE  /\ UNCHANGED <<trigger, owner, service, op, queued, cache>>
               /\ \A u \in Tenants :
                     tenant'[u].sink = tenant[u].sink /\ (Up(tenant'[u]) <=> Up(tenant[u]))
    <2>1. UNCHANGED <<trigger, owner, service, op, queued, cache>>
      BY <1>7 DEF BreakSecret, RepairSecret
    <2>2. Up(tenant[t]) /\ tenant[t] \in TenantObject
      BY <1>7 DEF BreakSecret, RepairSecret, Up, Types
    <2>3. PICK st \in {"settled", "broken"} :
             tenant' = [tenant EXCEPT ![t] = [tenant[t] EXCEPT !.state = st]]
      BY <1>7 DEF BreakSecret, RepairSecret
    <2>4. tenant'[t].state = st /\ tenant'[t].sink = tenant[t].sink
      BY <2>2, <2>3 DEF Types, TenantObject
    <2>5. \A u \in Tenants \ {t} : tenant'[u] = tenant[u]
      BY <2>3 DEF Types
    <2> QED BY <2>1, <2>2, <2>3, <2>4, <2>5 DEF Up
  <1>8. ASSUME NEW t \in Tenants, NamespaceGone(t)
        PROVE  /\ UNCHANGED <<trigger, tenant, op, cache>> /\ ~queued
               /\ ~Up(tenant[t])
               /\ \A u \in Tenants \ {t} : owner'[u] = owner[u] /\ service'[u] = service[u]
    <2>1. UNCHANGED <<trigger, tenant, op, cache>> /\ ~queued
      BY <1>8 DEF NamespaceGone, ServiceEvent
    <2>2. ~Up(tenant[t])
      BY <1>8 DEF NamespaceGone, Up
    <2>3. \A u \in Tenants \ {t} : owner'[u] = owner[u] /\ service'[u] = service[u]
      BY <1>8 DEF NamespaceGone, Types
    <2> QED BY <2>1, <2>2, <2>3
  <1>9. CASE \E t \in Tenants : OwnerEvent(t)
    BY <1>2, <1>9
  <1>10. CASE \E t \in Tenants : CreateTrigger(t)
    BY <1>3, <1>10
  <1>11. CASE \E t \in Tenants : ChangeTenantRef(t)
    BY <1>4, <1>11
  <1>12. CASE \E t \in Tenants :
                 \/ \E new \in [state : {"absent", "pending"}, sink : Sinks] : ChangeTenant(t, new)
                 \/ Settle(t)
    BY <1>6, <1>12
  <1>13. CASE \E t \in Tenants : BreakSecret(t) \/ RepairSecret(t)
    BY <1>7, <1>13
  <1>14. CASE \E t \in Tenants : NamespaceGone(t)
    BY <1>8, <1>14
  <1>15. CASE UNCHANGED vars
    BY <1>1, <1>15 DEF vars
  <1>16. CASE \E t \in Tenants : TakeOver(t)
    BY <1>16, TakeOverStep, Presence
  <1> QED BY <1>0, <1>5, <1>9, <1>10, <1>11, <1>12, <1>13, <1>14, <1>15, <1>16 DEF Next

\* Where a reconciliation has got to is what it has done.
LEMMA PhasesKept ==
    ASSUME Types, Phases(op), [Next]_vars
    PROVE  Phases(op')
  <1> USE DEF world, objects, count
  <1>1. CASE op' = Idle
    BY <1>1, Presence DEF Phases
  <1>2. CASE op' = op
    BY <1>2
  <1>3. CASE op' # Idle /\ Load
    BY <1>3, LoadCurrent
  <1>4. CASE op' # Idle /\ (AddFinalizer \/ LabelTenant)
    BY <1>4, PrepareGoesOn DEF GoesOn
  <1>5. CASE op' # Idle /\ (DeleteStale \/ Delete)
    BY <1>5, DeleteGoesOn DEF GoesOn
  <1>6. CASE op' # Idle /\ PersistOwner
    BY <1>6, OwnerGoesOn DEF GoesOn
  <1>7. CASE op' # Idle /\ PersistDeps
    BY <1>7, DepsGoesOn DEF GoesOn
  <1>8. CASE ApplyKnativeService \/ ApplyKnativeServiceFails
    BY <1>8, ServiceGoesOn DEF GoesOn
  <1>9. CASE LoadFails \/ RemoveFinalizer \/ PersistStatus \/ Fail \/ OperatorRestart
    BY <1>1, <1>9 DEF LoadFails, RemoveFinalizer, PersistStatus, Fail, OperatorRestart, Return
  <1>10. CASE \/ TriggerEvent \/ DeleteTrigger
              \/ \E t \in Tenants : \/ OwnerEvent(t) \/ NamespaceGone(t)
                                    \/ CreateTrigger(t) \/ ChangeTenantRef(t)
              \/ UNCHANGED vars
    BY <1>2, <1>10 DEF TriggerEvent, DeleteTrigger, OwnerEvent, NamespaceGone, CreateTrigger,
       ChangeTenantRef, vars
  <1>11. CASE \E t \in Tenants : TakeOver(t)
    BY <1>2, <1>11, TakeOverStep
  <1> QED BY <1>1, <1>2, <1>3, <1>4, <1>5, <1>6, <1>7, <1>8, <1>9, <1>10, <1>11, Quiet
          DEF Next, Reconcile

\* A reconciliation that ends without enqueueing the trigger has found no
\* trigger, has let it go, or has written that it is ready.
LEMMA EndSteps ==
    ASSUME Types, Reconcile, op' = Idle, ~queued'
    PROVE  /\ UNCHANGED <<cache, tenant, owner, service>>
           /\ \/ cache.trigger = None
              \/ trigger' = None
              \/ /\ op.pc = "status" /\ op.status.ready = "True" /\ ~queued /\ op \in OpType
                 /\ trigger' = [op.w EXCEPT !.status = op.status]
  <1> USE DEF world, objects, count
  <1>1. ~Return(TRUE)
    BY Zenon DEF Return
  <1>2. CASE Load
    <2>1. UNCHANGED <<cache, tenant, owner, service>>
      BY <1>2 DEF Load
    <2>2. cache.trigger = None
      <3> DEFINE w == cache.trigger
                 stale == StaleNamespace(w)
                 up == tenant[w.ref].state = "settled"
                 pc == IF w.deleting THEN "finalize" ELSE Prepared(w)
                 staleMap == IF stale = "" THEN None ELSE cache.owner[stale]
                 map == IF up THEN cache.owner[w.ref] ELSE None
      <3> SUFFICES ASSUME w # None PROVE FALSE
        OBVIOUS
      <3>1. op' = [pc |-> pc, w |-> w, up |-> up, sink |-> tenant[w.ref].sink,
                   stale |-> stale, staleMap |-> staleMap, map |-> map,
                   mutable |-> mutable[w.ref], status |-> w.status]
        BY <1>2 DEF Load
      <3>2. pc # "idle"
        BY DEF Prepared
      <3> HIDE DEF pc, stale, staleMap, map, up
      <3>3. op'.pc = pc
        BY <3>1
      <3> QED BY <3>2, <3>3, Presence
    <2> QED BY <2>1, <2>2
  <1>3. CASE RemoveFinalizer
    <2>1. trigger = op.w
      BY <1>3, Zenon DEF RemoveFinalizer, Return
    <2> QED BY <1>3, <2>1 DEF RemoveFinalizer
  <1>4. CASE PersistStatus
    <2>1. queued' = (queued \/ (trigger # op.w \/ op.status.ready # "True"))
      BY <1>4, Zenon DEF PersistStatus, Return
    <2>2. ~queued /\ trigger = op.w /\ op.status.ready = "True"
      BY <2>1, Zenon
    <2>3. op \in OpType /\ op.pc = "status"
      BY <1>4, Working DEF PersistStatus
    <2>4. trigger' = [op.w EXCEPT !.status = op.status]
      BY <1>4, <2>2 DEF PersistStatus
    <2> QED BY <1>4, <2>2, <2>3, <2>4 DEF PersistStatus
  <1>5. ~LoadFails
    BY <1>1 DEF LoadFails
  <1>6. op \in OpType /\ (\E pc \in Phase : op' = [op EXCEPT !.pc = pc]) => op' # Idle
    BY Presence DEF OpType
  <1>7. ~DeleteStale
    BY <1>1, <1>6, Working DEF DeleteStale, Phase
  <1>8. ~Delete
    BY <1>6, Working DEF Delete, Phase
  <1>9. ~AddFinalizer /\ ~LabelTenant
    <2>1. ASSUME NEW new \in TriggerObject, NEW pc \in Phase, op \in OpType, Update(new, pc)
          PROVE  FALSE
      <3>1. op' = [op EXCEPT !.w = new, !.pc = pc]
        BY <1>1, <2>1 DEF Update
      <3>2. op' \in OpType
        BY <2>1, <3>1 DEF OpType
      <3> QED BY <3>2, Presence
    <2>2. \A new : Prepared(new) \in Phase
      BY DEF Prepared, Phase
    <2>3. ~AddFinalizer
      <3> SUFFICES ASSUME AddFinalizer PROVE FALSE
        OBVIOUS
      <3> DEFINE new == [op.w EXCEPT !.finalizer = TRUE]
      <3>1. op \in OpType /\ new \in TriggerObject
        BY Working DEF AddFinalizer, TriggerObject
      <3>2. Update(new, Prepared(new))
        BY DEF AddFinalizer
      <3> HIDE DEF new
      <3> QED BY <2>1, <2>2, <3>1, <3>2
    <2>4. ~LabelTenant
      <3> SUFFICES ASSUME LabelTenant PROVE FALSE
        OBVIOUS
      <3> DEFINE new == [op.w EXCEPT !.label = op.w.ref]
      <3>1. op \in OpType /\ new \in TriggerObject
        BY Working DEF LabelTenant, TriggerObject, MaybeTenant
      <3>2. Update(new, "stale")
        BY DEF LabelTenant
      <3> HIDE DEF new
      <3> QED BY <2>1, <3>1, <3>2 DEF Phase
    <2> QED BY <2>3, <2>4
  <1>10. ~PersistOwner
    <2> SUFFICES ASSUME PersistOwner PROVE FALSE
      OBVIOUS
    <2> DEFINE map == ConfigureWebhookTriggerDeps(op.map)
    <2>1. op' = [op EXCEPT !.map = map, !.pc = "deps"]
      BY <1>1 DEF PersistOwner
    <2> HIDE DEF map
    <2>2. op'.pc = "deps"
      BY <2>1, Working DEF PersistOwner, OpType
    <2> QED BY <2>2, Presence
  <1>11. ~PersistDeps
    BY <1>1, <1>6, Working DEF PersistDeps, Phase
  <1>12. ~ApplyKnativeService /\ ~ApplyKnativeServiceFails
    <2> SUFFICES ASSUME ApplyKnativeService \/ ApplyKnativeServiceFails PROVE FALSE
      OBVIOUS
    <2>1. op \in OpType
      BY Working DEF ApplyKnativeService, ApplyKnativeServiceFails
    <2>2. \E st : op' = [op EXCEPT !.pc = "status", !.status = st]
      BY DEF ApplyKnativeService, ApplyKnativeServiceFails
    <2>3. op'.pc = "status"
      BY <2>1, <2>2 DEF OpType
    <2> QED BY <2>3, Presence
  <1> QED BY <1>2, <1>3, <1>4, <1>5, <1>7, <1>8, <1>9, <1>10, <1>11, <1>12 DEF Reconcile

\* A reconciliation that goes on has changed only what it has read itself.
LEMMA CurrentKept ==
    ASSUME Types, Phases(op), Reconcile, ~Load, op' # Idle
    PROVE  /\ GoesOn
           /\ \A te, se : Current(op, te, owner[op.w.ref], se) =>
                 Current(op', te, owner'[op.w.ref], service'[op.w.ref])
  <1>1. CASE AddFinalizer \/ LabelTenant
    <2>1. GoesOn /\ op'.pc \in {"label", "stale"}
      BY <1>1, PrepareGoesOn
    <2> QED BY <2>1 DEF GoesOn, Current
  <1>2. CASE DeleteStale \/ Delete
    <2>1. GoesOn /\ op'.pc \in {"delete", "finalized", "owner"}
      BY <1>2, DeleteGoesOn
    <2> QED BY <2>1 DEF GoesOn, Current
  <1>3. CASE PersistOwner
    <2>1. GoesOn /\ op'.pc = "deps" /\ owner'[op.w.ref] = op'.map /\ op'.map # None
      BY <1>3, OwnerGoesOn
    <2> QED BY <2>1 DEF GoesOn, Current
  <1>4. CASE PersistDeps
    <2>1. GoesOn /\ op.pc = "deps" /\ op'.pc = "service" /\ op'.map = op.map /\ owner' = owner
      BY <1>4, DepsGoesOn
    <2> QED BY <2>1 DEF GoesOn, Current
  <1>5. CASE ApplyKnativeService \/ ApplyKnativeServiceFails
    <2>1. /\ GoesOn /\ op.pc = "service" /\ op'.pc = "status"
          /\ op'.map = op.map /\ owner' = owner
          /\ op'.status.ready = "True" =>
                \A m : m # None /\ m.uid = op.map.uid =>
                          ServesAs(service'[op.w.ref], op.w.uid, op.sink, m)
      BY <1>5, ServiceGoesOn
    <2> QED BY <2>1 DEF GoesOn, Current
  <1>6. ~LoadFails /\ ~RemoveFinalizer /\ ~PersistStatus
    BY DEF LoadFails, RemoveFinalizer, PersistStatus, Return
  <1> QED BY <1>1, <1>2, <1>3, <1>4, <1>5, <1>6 DEF Reconcile

\* WakeInv is inductive.
LEMMA WakeStep ==
    ASSUME Types, UidInv, WakeInv, [Next]_vars
    PROVE  WakeInv'
  <1>1. Phases(op')
    BY PhasesKept DEF WakeInv
  <1>2. CASE queued'
    BY <1>1, <1>2 DEF WakeInv
  <1>3. CASE ~queued' /\ ~Reconcile
    <2> DEFINE c == cache.trigger
               t == cache.trigger.ref
    <2>1. /\ ~queued /\ op' = op /\ cache'.trigger = c
          /\ \/ trigger' = None \/ trigger'.uid = made.trigger + 1
             \/ /\ trigger # None /\ trigger'.uid = trigger.uid
                /\ trigger'.label = trigger.label /\ trigger'.status = trigger.status
                /\ trigger'.finalizer = trigger.finalizer
      BY <1>3, OthersSteps
    <2>2. Watched /\ t \in Tenants =>
             /\ tenant'[t].sink = tenant[t].sink /\ (Up(tenant'[t]) <=> Up(tenant[t]))
             /\ Up(tenant[t]) => service'[t] = service[t]
             /\ Up(tenant[t]) /\ owner[t] # None =>
                   owner'[t] # None /\ owner'[t].uid = owner[t].uid
      BY <1>3, OthersSteps
    <2>3. c # None => t \in Tenants /\ c.uid <= made.trigger /\ c.uid \in Nat
      BY DEF Types, TriggerObject, UidInv, Low
    <2>4. op' # Idle => Agrees(op', cache'.trigger)
      BY <2>1 DEF WakeInv
    <2>5. ASSUME op' # Idle, Watched'
          PROVE  Current(op', tenant'[op'.w.ref], owner'[op'.w.ref], service'[op'.w.ref])
      <3>1. Watched /\ c # None
        BY <2>1, <2>5 DEF Watched
      <3>2. Current(op, tenant[op.w.ref], owner[op.w.ref], service[op.w.ref]) /\ op.w.ref = t
        BY <2>1, <2>5, <3>1 DEF WakeInv, Agrees
      <3>3. op.pc \in {"deps", "service", "status"} => Up(tenant[t])
        BY <3>2 DEF WakeInv, Phases, Current
      <3> QED BY <2>1, <2>2, <2>3, <3>1, <3>2, <3>3 DEF Current, ServesAs
    <2>6. ASSUME op' = Idle, cache'.trigger # None, trigger' # None,
                 trigger'.uid = cache'.trigger.uid
          PROVE  Complete(trigger', c, tenant'[t], owner'[t], service'[t])
      <3>1. c # None /\ t \in Tenants /\ c.uid # made.trigger + 1
        BY <2>1, <2>3, <2>6 DEF Types
      <3>2. /\ trigger # None /\ trigger'.uid = trigger.uid
            /\ trigger'.label = trigger.label /\ trigger'.status = trigger.status
            /\ trigger'.finalizer = trigger.finalizer
        BY <2>1, <2>6, <3>1
      <3>3. Complete(trigger, c, tenant[t], owner[t], service[t])
        BY <2>1, <2>6, <3>2 DEF WakeInv
      <3>4. c.label = t => Watched
        BY <3>1 DEF Watched
      <3> QED BY <2>2, <3>1, <3>2, <3>3, <3>4 DEF Complete, ServesAs
    <2> QED BY <1>1, <2>1, <2>4, <2>5, <2>6 DEF WakeInv
  <1>4. CASE ~queued' /\ Load /\ op' # Idle
    <2> DEFINE t == cache.trigger.ref
    <2>1. /\ op' \in OpType /\ op'.w = cache.trigger /\ cache.trigger # None
          /\ op'.up => tenant[t].state = "settled"
          /\ op'.sink = tenant[t].sink
          /\ op'.pc \in {"finalize", "finalizer", "label", "stale"}
      BY <1>4, LoadCurrent
    <2>2. UNCHANGED <<cache, tenant>>
      BY <1>4 DEF Load, world
    <2>3. Agrees(op', cache'.trigger)
      BY <2>1, <2>2 DEF Agrees
    <2>4. \A ow, se : Current(op', tenant'[op'.w.ref], ow, se)
      BY <2>1, <2>2 DEF Current, Up
    <2> QED BY <1>1, <1>4, <2>3, <2>4 DEF WakeInv
  <1>5. CASE ~queued' /\ Reconcile /\ ~Load /\ op' # Idle
    <2>1. /\ GoesOn
          /\ \A te, se : Current(op, te, owner[op.w.ref], se) =>
                Current(op', te, owner'[op.w.ref], service'[op.w.ref])
      BY <1>5, CurrentKept DEF WakeInv
    <2>2. /\ op # Idle /\ ~queued /\ UNCHANGED <<cache, tenant>>
          /\ op'.w.uid = op.w.uid /\ op'.w.ref = op.w.ref /\ op'.w.deleting = op.w.deleting
      BY <1>5, <2>1, Presence DEF GoesOn
    <2>3. Agrees(op', cache'.trigger)
      BY <2>2 DEF WakeInv, Agrees
    <2>4. Watched' => Watched
      BY <2>2 DEF Watched
    <2>5. Watched' => Current(op', tenant'[op'.w.ref], owner'[op'.w.ref], service'[op'.w.ref])
      BY <2>1, <2>2, <2>4 DEF WakeInv
    <2> QED BY <1>1, <1>5, <2>3, <2>5 DEF WakeInv
  <1>6. CASE ~queued' /\ Reconcile /\ op' = Idle
    <2> DEFINE c == cache.trigger
               t == cache.trigger.ref
    <2>1. /\ UNCHANGED <<cache, tenant, owner, service>>
          /\ \/ cache.trigger = None
             \/ trigger' = None
             \/ /\ op.pc = "status" /\ op.status.ready = "True" /\ ~queued /\ op \in OpType
                /\ trigger' = [op.w EXCEPT !.status = op.status]
      BY <1>6, EndSteps
    <2>2. ASSUME c # None, trigger' # None
          PROVE  Complete(trigger', c, tenant[t], owner[t], service[t])
      <3>1. /\ op.pc = "status" /\ op.status.ready = "True" /\ ~queued /\ op \in OpType
            /\ trigger' = [op.w EXCEPT !.status = op.status] /\ op # Idle
        BY <2>1, <2>2, Presence
      <3>2. /\ ~op.w.deleting /\ op.w.finalizer /\ op.w.label = op.w.ref /\ op.up
            /\ op.status.ns = op.w.ref
        BY <3>1 DEF WakeInv, Phases
      <3>3. op.w.ref = t /\ op.w.uid = c.uid /\ ~c.deleting
        BY <3>1, <3>2 DEF WakeInv, Agrees
      <3>4. op.status = [ns |-> t, ready |-> "True"]
        BY <3>1, <3>2, <3>3 DEF OpType, StatusType
      <3>5. trigger'.finalizer /\ trigger'.label = t /\ trigger'.status = op.status
        BY <3>1, <3>2, <3>3 DEF OpType, TriggerObject
      <3>6. c.label = t => Current(op, tenant[t], owner[t], service[t])
        BY <2>2, <3>1, <3>3 DEF WakeInv, Watched
      <3>7. c.label = t => ServesAs(service[t], c.uid, tenant[t].sink, owner[t])
        BY <3>1, <3>3, <3>6 DEF Current
      <3> QED BY <3>3, <3>4, <3>5, <3>7 DEF Complete
    <2> QED BY <1>1, <1>6, <2>1, <2>2 DEF WakeInv
  <1> QED BY <1>2, <1>3, <1>4, <1>5, <1>6

\* No trigger is forgotten: whenever the reconciler is at rest, with the trigger
\* in its cache as it is and not in the queue, there is nothing left to do for it
\* (Reconcile, EnqueueRequestForReferencesByNameLabel, PersistStatus).
THEOREM TriggerNotForgotten == Spec => []TriggerRemembered
  <1>1. Init => WakeInv
    <2> SUFFICES ASSUME Init PROVE WakeInv
      OBVIOUS
    <2>1. op = Idle /\ trigger = None
      BY DEF Init
    <2>2. Phases(Idle)
      BY Presence DEF Phases
    <2> QED BY <2>1, <2>2 DEF WakeInv
  <1>2. Types /\ UidInv /\ WakeInv /\ [Next]_vars => WakeInv'
    BY WakeStep
  <1>3. WakeInv => TriggerRemembered
    <2> SUFFICES ASSUME WakeInv, op = Idle, ~queued, cache.trigger = trigger, trigger # None
                 PROVE  ~trigger.deleting /\ (Settled => Served)
      BY DEF TriggerRemembered
    <2> DEFINE t == trigger.ref
    <2>1. Complete(trigger, trigger, tenant[t], owner[t], service[t])
      BY DEF WakeInv
    <2>2. Settled => ServesAs(service[t], trigger.uid, tenant[t].sink, owner[t])
      BY <2>1 DEF Complete, Settled, Up
    <2> QED BY <2>1, <2>2 DEF Complete, Served, ServesAs
  <1> QED BY <1>1, <1>2, <1>3, CopiesCorrect, PTL DEF Spec
=============================================================================
