---------------------------- MODULE WebhookTrigger ----------------------------
(***************************************************************************)
(* The reconciler of webhook triggers (pkg/reconciler/trigger, pkg/obj).   *)
(* A trigger refers to a tenant.  For it the operator keeps, in the        *)
(* namespace of the tenant, an owner ConfigMap, what the metadata API      *)
(* needs and a Knative service, all but one owned by the owner map, so     *)
(* that deleting the map deletes the rest.  The user may refer the trigger *)
(* to another tenant or delete it, tenants come, go and change, and the    *)
(* owner maps left in namespaces that are no longer used must be deleted.  *)
(*                                                                         *)
(* Triggers and owner maps are read from caches that lag behind.  Tenants  *)
(* and services are read as they are and their events come at once: a      *)
(* service that is out of date in its cache is refused when it is written, *)
(* which is one of the errors that Fail stands for, and an old tenant is   *)
(* one that was read before it changed.  An update is accepted if the      *)
(* object is the one that was read, which stands for resource versions.    *)
(***************************************************************************)
EXTENDS Integers

CONSTANTS
    Tenants,        \* tenants, each with a namespace of its own
    Occupied,       \* those whose namespace has a map of someone else's of the
                    \* name of the trigger's owner map
    Sinks,          \* configurations of a tenant's event sink
    MaxTriggers,    \* bound on creations of the trigger
    MaxChanges,     \* bound on changes by users
    MaxFailures     \* bound on failures

ASSUME TriggerAssumption ==
    /\ MaxTriggers \in Nat /\ MaxChanges \in Nat /\ MaxFailures \in Nat
    /\ Occupied \subseteq Tenants
    /\ "" \notin Tenants /\ Sinks # {}

VARIABLES
    trigger,    \* the WebhookTrigger
    tenant,     \* the tenants: their state and sink
    space,      \* whether their namespaces are there
    owner,      \* the owner ConfigMap in each namespace
    mutable,    \* whether the mutable ConfigMap is there
    service,    \* the Knative service in each namespace
    cache,      \* the trigger and the owner maps as the informers show them
    queued,     \* the trigger is in the work queue
    op,         \* the reconciliation in progress
    made,       \* counters of triggers and owner maps
    changes, failures,
    taken       \* history: the namespaces in which someone took the owner map over

objects == <<owner, mutable, service>>
world   == <<tenant, space, taken>>
count   == <<made, changes, failures>>
vars    == <<trigger, world, objects, cache, queued, op, count>>

None == [uid |-> 0]
Idle == [pc |-> "idle"]

\* The status of a trigger names the namespace of its service, and its condition.
NewTrigger(uid, t) ==
    [uid |-> uid, ref |-> t, label |-> "", finalizer |-> FALSE, deleting |-> FALSE,
     status |-> [ns |-> "", ready |-> "Unknown"]]

\* An owner map of someone else's, of the same name.
Foreign == [uid |-> 1, of |-> 0]

Init ==
    /\ trigger = None
    /\ tenant = [t \in Tenants |-> [state |-> "settled", sink |-> CHOOSE s \in Sinks : TRUE]]
    /\ space = [t \in Tenants |-> TRUE]
    /\ owner = [t \in Tenants |-> IF t \in Occupied THEN Foreign ELSE None]
    /\ service = [t \in Tenants |-> None]
    /\ mutable = [t \in Tenants |-> FALSE]
    /\ cache = [trigger |-> None, owner |-> owner]
    /\ queued = FALSE
    /\ op = Idle
    /\ made = [trigger |-> 0, map |-> 1]
    /\ changes = 0 /\ failures = 0
    /\ taken = {}

-----------------------------------------------------------------------------
(* Events *)

TriggerEvent ==
    /\ cache.trigger # trigger
    /\ cache' = [cache EXCEPT !.trigger = trigger]
    /\ queued' = TRUE
    /\ UNCHANGED <<trigger, world, objects, op, count>>

OwnerEvent(t) ==
    /\ cache.owner[t] # owner[t]
    /\ cache' = [cache EXCEPT !.owner[t] = owner[t]]
    /\ UNCHANGED <<trigger, world, objects, queued, op, count>>

\* Mutant: tenants are not watched.
TenantEventUnwatched(t) == UNCHANGED queued

\* EnqueueRequestForReferencesByNameLabel: an event of a tenant enqueues the
\* triggers that have its name as a label in the cache.
TenantEvent(t) ==
    queued' = (queued \/ (cache.trigger # None /\ cache.trigger.label = t))

\* EnqueueRequestForAnnotatedDependent: an event of a service enqueues the
\* trigger that its annotation names.
ServiceEvent == queued' = TRUE

-----------------------------------------------------------------------------
(* Users, the tenant's reconciler, Knative, Kubernetes *)

CreateTrigger(t) ==
    /\ trigger = None /\ made.trigger < MaxTriggers
    /\ trigger' = NewTrigger(made.trigger + 1, t)
    /\ made' = [made EXCEPT !.trigger = @ + 1]
    /\ UNCHANGED <<world, objects, cache, queued, op, changes, failures>>

Change == changes < MaxChanges /\ changes' = changes + 1

ChangeTenantRef(t) ==
    /\ Change
    /\ trigger # None /\ trigger.ref # t
    /\ trigger' = [trigger EXCEPT !.ref = t]
    /\ UNCHANGED <<world, objects, cache, queued, op, made, failures>>

\* Without a finalizer the trigger is gone at once.
DeleteTrigger ==
    /\ trigger # None /\ ~trigger.deleting
    /\ trigger' = IF trigger.finalizer THEN [trigger EXCEPT !.deleting = TRUE] ELSE None
    /\ UNCHANGED <<world, objects, cache, queued, op, count>>

\* A tenant is created, is changed so that it is not settled for a while, gets
\* another event sink, or is deleted.
ChangeTenant(t, new) ==
    /\ Change
    /\ new # tenant[t]
    /\ new.state = "pending" \/ (new.state = "absent" /\ new.sink = tenant[t].sink)
    /\ tenant' = [tenant EXCEPT ![t] = new]
    /\ TenantEvent(t)
    /\ UNCHANGED <<trigger, space, taken, objects, cache, op, made, failures>>

\* TenantDeps.Load finds everything.
Settle(t) ==
    /\ tenant[t].state = "pending"
    /\ tenant' = [tenant EXCEPT ![t].state = "settled"]
    /\ space' = [space EXCEPT ![t] = TRUE]
    /\ TenantEvent(t)
    /\ UNCHANGED <<trigger, taken, objects, cache, op, count>>

\* The Secret of the tenant's event sink becomes one that cannot be loaded, which
\* is an error of TenantDeps.Load, and is replaced again.  It is not watched.
BreakSecret(t) ==
    /\ Change
    /\ tenant[t].state = "settled"
    /\ tenant' = [tenant EXCEPT ![t].state = "broken"]
    /\ UNCHANGED <<trigger, space, taken, objects, cache, queued, op, made, failures>>

RepairSecret(t) ==
    /\ tenant[t].state = "broken"
    /\ tenant' = [tenant EXCEPT ![t].state = "settled"]
    /\ UNCHANGED <<trigger, space, taken, objects, cache, queued, op, count>>

NamespaceGone(t) ==
    /\ space[t] /\ tenant[t].state = "absent"
    /\ space' = [space EXCEPT ![t] = FALSE]
    /\ owner' = [owner EXCEPT ![t] = None]
    /\ mutable' = [mutable EXCEPT ![t] = FALSE]
    /\ service' = [service EXCEPT ![t] = None]
    /\ IF service[t] # None THEN ServiceEvent ELSE UNCHANGED queued
    /\ UNCHANGED <<trigger, tenant, taken, cache, op, count>>

\* Someone else takes the owner map over: makes a map of its name, or annotates
\* the one that is there as a dependency of something of theirs.
TakeOver(t) ==
    /\ Change
    /\ space[t] /\ (owner[t] # None => owner[t].of # 0)
    /\ owner' = [owner EXCEPT ![t] =
                    [uid |-> IF @ = None THEN made.map + 1 ELSE @.uid, of |-> 0]]
    /\ made' = [made EXCEPT !.map = IF owner[t] = None THEN @ + 1 ELSE @]
    /\ taken' = taken \cup {t}
    /\ UNCHANGED <<trigger, tenant, space, mutable, service, cache, queued, op, failures>>

ServiceReady(t) ==
    /\ service[t] # None /\ ~service[t].ready
    /\ service' = [service EXCEPT ![t].ready = TRUE]
    /\ ServiceEvent
    /\ UNCHANGED <<trigger, world, owner, mutable, cache, op, count>>

ServiceFails(t) ==
    /\ service[t] # None /\ service[t].ready
    /\ failures < MaxFailures /\ failures' = failures + 1
    /\ service' = [service EXCEPT ![t].ready = FALSE]
    /\ ServiceEvent
    /\ UNCHANGED <<trigger, world, owner, mutable, cache, op, made, changes>>

\* The garbage collector removes what has owners none of which exists.
CollectService(t) ==
    /\ service[t] # None /\ service[t].owners # {} /\ owner[t].uid \notin service[t].owners
    /\ service' = [service EXCEPT ![t] = None]
    /\ ServiceEvent
    /\ UNCHANGED <<trigger, world, owner, mutable, cache, op, count>>

-----------------------------------------------------------------------------
(* The reconciliation *)

\* Mutant: any map that was loaded.
IsDependencyOfAny(map, w) == map # None

\* IsDependencyOf, of a map that was loaded.
IsDependencyOf(map, w) == map # None /\ map.of = w.uid

\* An error, or a trigger that is not ready, is put back into the queue.
Return(again) ==
    /\ op' = Idle
    /\ queued' = (queued \/ again)

\* CreateOrUpdate of the trigger.
Update(new, pc) ==
    IF trigger = op.w
    THEN /\ trigger' = new
         /\ op' = [op EXCEPT !.w = new, !.pc = pc]
         /\ UNCHANGED queued
    ELSE Return(TRUE) /\ UNCHANGED trigger

\* What comes before stale objects are deleted: the finalizer, then the label.
Prepared(w) ==
    IF ~w.finalizer THEN "finalizer" ELSE IF w.label # w.ref THEN "label" ELSE "stale"

\* WebhookTriggerDeps.Load: the namespace whose owner map is out of date.  There
\* is none while the tenant is not settled.
StaleNamespace(w) ==
    IF \/ tenant[w.ref].state = "absent"
       \/ tenant[w.ref].state = "settled" /\ w.status.ns # w.ref
    THEN w.status.ns ELSE ""

\* TenantDeps.Load fails, before a trigger that is deleted is finalized.
LoadFails ==
    /\ op = Idle /\ queued
    /\ cache.trigger # None /\ tenant[cache.trigger.ref].state = "broken"
    /\ Return(TRUE)
    /\ UNCHANGED <<trigger, world, objects, cache, count>>

Load ==
    /\ op = Idle /\ queued
    /\ cache.trigger # None => tenant[cache.trigger.ref].state # "broken"
    /\ LET w     == cache.trigger
           stale == StaleNamespace(w)
           up    == tenant[w.ref].state = "settled"
       IN  IF w = None THEN op' = Idle
           ELSE    op' = [pc |-> IF w.deleting THEN "finalize" ELSE Prepared(w),
                          w |-> w, up |-> up, sink |-> tenant[w.ref].sink,
                          stale |-> stale,
                          staleMap |-> IF stale = "" THEN None ELSE cache.owner[stale],
                          map |-> IF up THEN cache.owner[w.ref] ELSE None,
                          mutable |-> mutable[w.ref], status |-> w.status]
    /\ queued' = FALSE
    /\ UNCHANGED <<trigger, world, objects, cache, count>>

\* What DeleteStale leaves.  A map is deleted by its name.
WithoutStale ==
    IF IsDependencyOf(op.staleMap, op.w) THEN [owner EXCEPT ![op.stale] = None] ELSE owner

\* Mutant: a trigger is finalized only when its tenant is settled.
DeleteStaleUpstream ==
    /\ op.pc \in {"finalize", "stale"}
    /\ owner' = WithoutStale
    /\ IF op.up
       THEN /\ op' = [op EXCEPT !.pc = IF @ = "stale" THEN "owner" ELSE "delete"]
            /\ UNCHANGED queued
       ELSE Return(TRUE)
    /\ UNCHANGED <<trigger, world, mutable, service, cache, count>>

DeleteStale ==
    /\ op.pc \in {"finalize", "stale"}
    /\ owner' = WithoutStale
    /\ \/ op.pc = "finalize" /\ op' = [op EXCEPT !.pc = "delete"] /\ UNCHANGED queued
       \/ op.pc = "stale" /\ op.up /\ op' = [op EXCEPT !.pc = "owner"] /\ UNCHANGED queued
       \/ op.pc = "stale" /\ ~op.up /\ Return(TRUE)
    /\ UNCHANGED <<trigger, world, mutable, service, cache, count>>

\* WebhookTriggerDeps.Delete, called by Finalize.
Delete ==
    /\ op.pc = "delete"
    /\ owner' = IF IsDependencyOf(op.map, op.w) THEN [owner EXCEPT ![op.w.ref] = None] ELSE owner
    /\ op' = [op EXCEPT !.pc = "finalized"]
    /\ UNCHANGED <<trigger, world, mutable, service, cache, queued, count>>

\* The trigger is gone once it has no finalizer.
RemoveFinalizer ==
    /\ op.pc = "finalized"
    /\ trigger' = IF trigger = op.w THEN None ELSE trigger
    /\ Return(trigger # op.w)
    /\ UNCHANGED <<world, objects, cache, count>>

AddFinalizer ==
    /\ op.pc = "finalizer"
    /\ LET new == [op.w EXCEPT !.finalizer = TRUE] IN Update(new, Prepared(new))
    /\ UNCHANGED <<world, objects, cache, count>>

LabelTenant ==
    /\ op.pc = "label"
    /\ Update([op.w EXCEPT !.label = op.w.ref], "stale")
    /\ UNCHANGED <<world, objects, cache, count>>

\* ConfigureWebhookTriggerDeps: a map becomes a dependency of the trigger, whose
\* ever it was.
ConfigureWebhookTriggerDeps(map) ==
    IF map = None THEN [uid |-> made.map + 1, of |-> op.w.uid]
    ELSE [map EXCEPT !.of = op.w.uid]

\* WebhookTriggerDeps.Persist: DeleteStale once more, then the owner map.
PersistOwner ==
    /\ op.pc = "owner"
    /\ LET t   == op.w.ref
           map == ConfigureWebhookTriggerDeps(op.map)
       IN  IF space[t] /\ owner[t] = op.map
           THEN /\ owner' = [WithoutStale EXCEPT ![t] = map]
                /\ op' = [op EXCEPT !.map = map, !.pc = "deps"]
                /\ made' = [made EXCEPT !.map = IF op.map = None THEN @ + 1 ELSE @]
                /\ UNCHANGED queued
           ELSE owner' = WithoutStale /\ Return(TRUE) /\ UNCHANGED made
    /\ UNCHANGED <<trigger, world, mutable, service, cache, changes, failures>>

\* Own: the owner map is added to the owners.
Own(o) ==
    IF o = None THEN {op.map.uid} ELSE o.owners \cup {op.map.uid}

\* The rest of WebhookTriggerDeps.Persist.  What the owner map owns, and what
\* therefore goes as the service goes, is not shown; the mutable ConfigMap has
\* no owner.
PersistDeps ==
    /\ op.pc = "deps"
    /\ LET t == op.w.ref
       IN  IF space[t] /\ mutable[t] = op.mutable
           THEN /\ mutable' = [mutable EXCEPT ![t] = TRUE]
                /\ op' = [op EXCEPT !.pc = "service"]
                /\ UNCHANGED queued
           ELSE Return(TRUE) /\ UNCHANGED mutable
    /\ UNCHANGED <<trigger, world, owner, service, cache, count>>

\* AnnotateTriggerToken: a token is issued anew when what it was issued for has
\* changed, and kept otherwise.
AnnotateTriggerToken(old, sink) == IF old = None \/ old.sink # sink THEN sink ELSE old.sink

\* Mutant: the service has no owner.
ConfigureKnativeServiceUnowned(old) ==
    [owners |-> {}, of |-> op.w.uid, sink |-> AnnotateTriggerToken(old, op.sink),
     ready |-> old # None /\ old.ready]

\* ConfigureKnativeService
ConfigureKnativeService(old) ==
    [owners |-> Own(old), of |-> op.w.uid, sink |-> AnnotateTriggerToken(old, op.sink),
     ready |-> old # None /\ old.ready]

\* ConfigureWebhookTrigger: the status for a service, or for the error that came
\* instead of it, with which the status forgets the namespace.
ConfigureWebhookTrigger(result) ==
    IF result = None THEN [ns |-> "", ready |-> "False"]
    ELSE [ns |-> op.w.ref, ready |-> IF result.ready THEN "True" ELSE "Unknown"]

ApplyKnativeService ==
    /\ op.pc = "service" /\ space[op.w.ref]
    /\ LET t   == op.w.ref
           new == ConfigureKnativeService(service[t])
       IN  /\ service' = [service EXCEPT ![t] = new]
           /\ queued' = (queued \/ new # service[t])
           /\ op' = [op EXCEPT !.pc = "status", !.status = ConfigureWebhookTrigger(new)]
    /\ UNCHANGED <<trigger, world, owner, mutable, cache, count>>

\* An error becomes part of the status.
ApplyKnativeServiceFails ==
    /\ op.pc = "service"
    /\ \/ ~space[op.w.ref] /\ UNCHANGED failures
       \/ failures < MaxFailures /\ failures' = failures + 1
    /\ op' = [op EXCEPT !.pc = "status", !.status = ConfigureWebhookTrigger(None)]
    /\ UNCHANGED <<trigger, world, objects, cache, queued, made, changes>>

\* PersistStatus; a trigger that is not ready is looked
\* at again.
PersistStatus ==
    /\ op.pc = "status"
    /\ trigger' = IF trigger = op.w THEN [op.w EXCEPT !.status = op.status] ELSE trigger
    /\ Return(trigger # op.w \/ op.status.ready # "True")
    /\ UNCHANGED <<world, objects, cache, count>>

\* A call fails, or finds that what was read from a cache is out of date.
Fail ==
    /\ op # Idle
    /\ failures < MaxFailures /\ failures' = failures + 1
    /\ Return(TRUE)
    /\ UNCHANGED <<trigger, world, objects, cache, made, changes>>

\* The operator starts anew: all caches are filled, all triggers are enqueued.
OperatorRestart ==
    /\ failures < MaxFailures /\ failures' = failures + 1
    /\ cache' = [trigger |-> trigger, owner |-> owner]
    /\ op' = Idle /\ queued' = TRUE
    /\ UNCHANGED <<trigger, world, objects, made, changes>>

-----------------------------------------------------------------------------
Reconcile ==
    \/ Load \/ LoadFails \/ DeleteStale \/ Delete \/ RemoveFinalizer \/ AddFinalizer \/ LabelTenant
    \/ PersistOwner \/ PersistDeps \/ ApplyKnativeService \/ ApplyKnativeServiceFails
    \/ PersistStatus

Next ==
    \/ TriggerEvent \/ Reconcile \/ Fail \/ OperatorRestart \/ DeleteTrigger
    \/ \E t \in Tenants :
          \/ OwnerEvent(t) \/ CreateTrigger(t) \/ ChangeTenantRef(t)
          \/ \E new \in [state : {"absent", "pending"}, sink : Sinks] : ChangeTenant(t, new)
          \/ Settle(t) \/ BreakSecret(t) \/ RepairSecret(t) \/ NamespaceGone(t) \/ TakeOver(t)
          \/ ServiceReady(t) \/ ServiceFails(t) \/ CollectService(t)

Spec == Init /\ [][Next]_vars

\* Watches deliver, the queue is served, Knative gets services ready in the end
\* and the garbage collector works.  Users and tenants need not do anything.
FairSpec ==
    /\ Spec
    /\ WF_vars(TriggerEvent) /\ WF_vars(Reconcile)
    /\ \A t \in Tenants :
          /\ WF_vars(OwnerEvent(t)) /\ WF_vars(ServiceReady(t))
          /\ WF_vars(CollectService(t))

-----------------------------------------------------------------------------
(* Properties *)

\* Types; nothing is left in a namespace that is gone.
TypeOK ==
    /\ trigger # None => trigger.ref \in Tenants /\ trigger.uid \in 1..made.trigger
    /\ \A t \in Tenants :
          /\ tenant[t].state \in {"absent", "pending", "settled", "broken"} /\ tenant[t].sink \in Sinks
          /\ ~space[t] => owner[t] = None /\ ~mutable[t] /\ service[t] = None
          /\ owner[t] # None => owner[t].uid \in 1..made.map /\ owner[t].of \in 0..made.trigger
    /\ taken \subseteq Tenants
    /\ queued \in BOOLEAN /\ changes \in 0..MaxChanges /\ failures \in 0..MaxFailures

\* The reconciler is about to delete the map of t by its name, from a copy that
\* is not the map that is there.
DeletesByOldCopy(t) ==
    \/ t = op.stale /\ op.staleMap # owner[t]
    \/ t = op.w.ref /\ op.map # owner[t]

\* The reconciler deletes no map that is not of the trigger it reconciles, unless
\* someone took a map of the trigger's over, or made one of its name, after the
\* reconciler had read the old one: it deletes by name what a copy from a cache
\* says is the trigger's, and says neither which map it means nor which version
\* (IsDependencyOf, Delete, DeleteStale).  Nothing else makes it delete a map of
\* someone else's: no lag of the caches, new trigger of the same name or restart.
OthersMapsKept ==
    [][\A t \in Tenants :
          owner[t] # None /\ space'[t] /\ owner'[t] = None =>
              /\ op # Idle
              /\ \/ owner[t].of = op.w.uid
                 \/ t \in taken /\ DeletesByOldCopy(t)]_vars

\* A service whose owner map is gone goes too, unless a new map takes it over
\* (ConfigureKnativeService, "remove stale Knative services because they are
\* owned by the config map").
ServicesCollected ==
    \A t \in Tenants :
        service[t] # None /\ owner[t] = None ~> service[t] = None \/ owner[t] # None

\* A trigger that is deleted goes in the end, also when its tenant is gone or
\* never settles, unless the Secret of the tenant's event sink cannot be loaded
\* (Finalize, TenantDeps.Load).
TriggerDeleted ==
    trigger # None /\ trigger.deleting
        ~> trigger = None \/ tenant[trigger.ref].state = "broken"

\* A trigger whose tenant is settled from some point on is served from then on:
\* its service is in the namespace of the tenant, with a token for the tenant's
\* present event sink, and the status says so; whatever went wrong before
\* (Reconcile, and the watches of controller/trigger).
Settled ==
    trigger # None /\ ~trigger.deleting /\ tenant[trigger.ref].state = "settled"
Served ==
    /\ trigger # None
    /\ trigger.status = [ns |-> trigger.ref, ready |-> "True"]
    /\ LET s == service[trigger.ref]
       IN  s # None /\ s.ready /\ s.of = trigger.uid /\ s.sink = tenant[trigger.ref].sink
           /\ owner[trigger.ref].uid \in s.owners
TriggerServed == <>[]Settled => <>[]Served

\* What the reconciler says of itself: "Delete stale dependencies regardless of
\* upstream status."  If the status goes on naming the namespace of a tenant
\* that the trigger no longer refers to, the owner map in it goes in the end.
StaleMapsDeleted ==
    \A t \in Tenants :
        <>[](trigger # None /\ ~trigger.deleting /\ trigger.ref # t /\ trigger.status.ns = t)
            => <>[]~IsDependencyOf(owner[t], trigger)

=============================================================================
