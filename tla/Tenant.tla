------------------------------- MODULE Tenant -------------------------------
(***************************************************************************)
(* The Tenant reconciler (pkg/reconciler/tenant) and the namespace that it *)
(* creates, moves and deletes for a tenant, and the injection of tools:    *)
(* two volume claims, a volume and a job that fills it.  The event sink of *)
(* a tenant, which its triggers use, may need a token from a Secret.       *)
(*                                                                         *)
(* Nothing but the annotation "dependency of" on a namespace, the field    *)
(* Status.Namespace and a finalizer tie a namespace to its tenant: when    *)
(* the template's name changes, the reconciler finds the old namespace in  *)
(* Status.Namespace, and when the tenant is deleted, the finalizer holds   *)
(* it until its namespaces are deleted.  Namespaces are read from an       *)
(* informer cache and are not watched; only changes of a tenant's          *)
(* generation, errors and a tenant that is not ready enqueue it.           *)
(***************************************************************************)
EXTENDS Naturals

CONSTANTS
    Namespace,      \* names a namespace template may have
    Own,            \* the namespace of the tenant itself: the tenant is not managed
    None,           \* no Status.Namespace yet
    Absent,         \* an object that does not exist
    Kinds,          \* the tenants: whether tools are injected, and the event sink
    MaxChanges,     \* bound: changes of the namespace template, of the Secret and of
                    \* the owner of a namespace
    MaxFailures,    \* bound: failed calls, crashes and restarts
    MaxTogether     \* bound: both together, for a tenant with tools or a sink

ASSUME NameAssumption == Own \notin Namespace /\ None \notin Namespace /\ Own # None

ASSUME BoundAssumption ==
    MaxChanges \in Nat /\ MaxTogether \in Nat /\ MaxFailures \in Nat

\* An event sink has a token of its own, takes it from a Secret or has no URL;
\* one with no token at all is like one whose Secret is never created.
ASSUME KindAssumption ==
    Kinds \subseteq [tools : BOOLEAN, sink : {"none", "token", "secret", "noURL"}]

\* The specification and the status of a tenant, as far as they matter here.
TenantObject ==
    [rv : Nat, generation : Nat, template : Namespace \cup {Own}, tools : BOOLEAN,
     sink : {"none", "token", "secret", "noURL"}, deleting : BOOLEAN, finalizer : BOOLEAN,
     observed : Namespace \cup {Own, None}, ready : BOOLEAN]

\* A namespace, with the annotation that makes it a dependency of the tenant.
NamespaceObject == [uid : Nat, owned : BOOLEAN, terminating : BOOLEAN]

ASSUME AbsentAssumption == Absent \notin TenantObject \cup NamespaceObject

VARIABLES
    tenant,         \* the Tenant in the API server, or Absent
    tenantCache,    \* the same, in the operator's cache
    space,          \* per name: the namespace in the API server, or Absent
    spaceCache,     \* the same, in the operator's cache
    policies,       \* per name: the NetworkPolicy and the LimitRange exist
    claim,          \* per name: the ReadWriteOnce claim for the tools, and what is
                    \* known of the volume that it is bound to
    readOnly,       \* per name: the ReadOnlyMany claim
    volume,         \* the volume for the latter; it is not in a namespace
    job,            \* per name: the job that copies the tools
    jobCache,       \* the same, in the operator's cache
    secret,         \* the Secret of the event sink: absent, of another type,
                    \* without the key, or with the token
    rec,            \* the reconciliation: pc and its copies
    queued,         \* the tenant is on the operator's work queue
    uids,           \* UIDs given to namespaces so far
    changes, failures,
    forgotten,      \* history: see ChangeTemplate and LoadDeps
    taken           \* history: see TakeOver

spaceVars == <<space, policies, uids, secret>>
toolVars == <<claim, readOnly, volume, job>>
caches == <<tenantCache, spaceCache, jobCache>>
history == <<forgotten, taken>>
vars == <<tenant, caches, spaceVars, toolVars, rec, queued, changes, failures, history>>

-----------------------------------------------------------------------------
Managed(t) == t.template # Own

\* deps.Load: "We only clean up the stale namespace if it was managed."
HasStale(t) == t.observed \notin {None, Own, t.template}

Foreign == [uid |-> 0, owned |-> FALSE, terminating |-> FALSE]

\* DeleteIgnoreNotFound, by name.
Delete(n) ==
    /\ space' = IF space[n] = Absent THEN space ELSE [space EXCEPT ![n].terminating = TRUE]
    /\ UNCHANGED <<policies, uids, secret>>

\* The API server accepts an Update of this copy of the tenant.
Current(t) == tenant # Absent /\ tenant.rv = t.rv

Put(t) == IF t = tenant THEN t ELSE [t EXCEPT !.rv = tenant.rv + 1]

Larger(t) == t.tools \/ t.sink # "none"

Together == tenant # Absent /\ Larger(tenant) => changes + failures < MaxTogether

MayFail == failures < MaxFailures /\ Together

Change == changes < MaxChanges /\ Together /\ changes' = changes + 1

-----------------------------------------------------------------------------
(* Reconciler.Reconcile *)

NoReconcile ==
    [pc |-> "idle", tenant |-> Absent, space |-> Absent, stale |-> Absent, error |-> FALSE,
     token |-> FALSE, complete |-> FALSE]

Return(requeue) ==
    /\ rec' = NoReconcile
    /\ queued' = requeue

Goto(pc) == rec' = [rec EXCEPT !.pc = pc] /\ UNCHANGED queued

\* Going on without an object.
LoadTenantUnchecked ==
    /\ rec.pc = "idle"
    /\ queued
    /\ rec' = [rec EXCEPT !.pc = "load", !.tenant = tenantCache]
    /\ queued' = FALSE
    /\ UNCHANGED <<toolVars, tenant, caches, spaceVars, changes, failures, history>>

\* The tenant is loaded from the cache; "CRD deleted from under us?"
LoadTenant ==
    /\ rec.pc = "idle"
    /\ queued
    /\ rec' = IF tenantCache = Absent THEN rec
              ELSE [rec EXCEPT !.pc = "load", !.tenant = tenantCache]
    /\ queued' = FALSE
    /\ UNCHANGED <<toolVars, tenant, caches, spaceVars, changes, failures, history>>

\* The Secret of an event sink, of the type that it must have; a Secret that
\* does not exist is none that is wrong.
SecretLoads(t) == t.sink = "secret" => secret # "other"

\* The token of an event sink.
SinkToken(t) == t.sink = "token" \/ (t.sink = "secret" /\ secret = "token")

\* deps.Load fails on a Secret of another type, before anything else is loaded
\* or a tenant that is deleted is finalized.
LoadDepsFails ==
    /\ rec.pc = "load"
    /\ ~ SecretLoads(rec.tenant)
    /\ Return(TRUE)
    /\ UNCHANGED <<toolVars, tenant, caches, spaceVars, changes, failures, history>>

\* deps.Load, from the cache.  A namespace that this reconciliation ought to
\* delete but that the cache does not show as the tenant's is forgotten.
LoadDeps ==
    /\ rec.pc = "load"
    /\ SecretLoads(rec.tenant)
    /\ LET t == rec.tenant
           loaded(n) == IF n \in Namespace THEN spaceCache[n] ELSE Absent
           toDelete == (IF HasStale(t) THEN {t.observed} ELSE {})
                          \cup (IF t.deleting /\ Managed(t) THEN {t.template} ELSE {})
           unseen == {n \in toDelete : spaceCache[n] = Absent \/ ~ spaceCache[n].owned}
       IN  /\ rec' = [rec EXCEPT
                 !.pc = IF t.deleting \/ t.finalizer THEN "stale" ELSE "addFinalizer",
                 !.space = loaded(t.template), !.token = SinkToken(t),
                 !.stale = IF HasStale(t) THEN loaded(t.observed) ELSE Absent]
           /\ forgotten' = forgotten \cup unseen
    /\ UNCHANGED <<toolVars, tenant, caches, spaceVars, queued, changes, failures, taken>>

\* Creating the namespace first, and the finalizer not at all.
AddFinalizerNever ==
    /\ rec.pc = "addFinalizer"
    /\ Goto("stale")
    /\ UNCHANGED <<toolVars, tenant, caches, spaceVars, changes, failures, history>>

\* Finalize, tenant not being deleted: AddFinalizer, Persist.
AddFinalizer ==
    /\ rec.pc = "addFinalizer"
    /\ Current(rec.tenant)
    /\ tenant' = Put([rec.tenant EXCEPT !.finalizer = TRUE])
    /\ rec' = [rec EXCEPT !.pc = "stale", !.tenant = tenant']
    /\ UNCHANGED <<toolVars, caches, spaceVars, queued, changes, failures, history>>

\* DeleteStale, called by Reconcile and, when finalizing, by deps.Delete.
DeleteStale ==
    /\ rec.pc = "stale"
    /\ IF rec.stale # Absent /\ rec.stale.owned
       THEN Delete(rec.tenant.observed)
       ELSE UNCHANGED spaceVars
    /\ Goto(IF rec.tenant.deleting THEN "delete" ELSE "persist")
    /\ UNCHANGED <<toolVars, tenant, caches, changes, failures, history>>

\* Deleting whatever has the name.
DeleteNamespaceAny ==
    /\ rec.pc = "delete"
    /\ IF Managed(rec.tenant) /\ rec.space # Absent
       THEN Delete(rec.tenant.template)
       ELSE UNCHANGED spaceVars
    /\ Goto("removeFinalizer")
    /\ UNCHANGED <<toolVars, tenant, caches, changes, failures, history>>

\* The rest of deps.Delete: the namespace must exist and be the tenant's own.
DeleteNamespace ==
    /\ rec.pc = "delete"
    /\ IF Managed(rec.tenant) /\ rec.space # Absent /\ rec.space.owned
       THEN Delete(rec.tenant.template)
       ELSE UNCHANGED spaceVars
    /\ Goto("removeFinalizer")
    /\ UNCHANGED <<toolVars, tenant, caches, changes, failures, history>>

\* Finalize, tenant being deleted: RemoveFinalizer, Persist.  The API server
\* then removes the tenant.
RemoveFinalizer ==
    /\ rec.pc = "removeFinalizer"
    /\ Current(rec.tenant)
    /\ tenant' = Absent
    /\ Return(queued)
    /\ UNCHANGED <<toolVars, caches, spaceVars, changes, failures, history>>

\* deps.Persist, the namespace.  Its error is kept for the status.
PersistNamespace ==
    /\ rec.pc = "persist"
    /\ LET n == rec.tenant.template
       IN  \/ /\ ~ Managed(rec.tenant)
              /\ Goto("status")
              /\ UNCHANGED spaceVars
           \/ /\ Managed(rec.tenant)
              /\ space[n] = rec.space
              /\ IF rec.space = Absent
                 THEN /\ uids' = uids + 1
                      /\ space' = [space EXCEPT ![n] =
                                     [uid |-> uids + 1, owned |-> TRUE, terminating |-> FALSE]]
                 ELSE /\ space' = [space EXCEPT ![n].owned = TRUE]
                      /\ UNCHANGED uids
              /\ Goto("policies")
              /\ UNCHANGED <<policies, secret>>
           \/ /\ Managed(rec.tenant)
              /\ space[n] # rec.space       \* AlreadyExists, NotFound or Conflict
              /\ rec' = [rec EXCEPT !.pc = "status", !.error = TRUE]
              /\ UNCHANGED <<spaceVars, queued>>
    /\ UNCHANGED <<toolVars, tenant, caches, changes, failures, history>>

\* deps.Persist, NetworkPolicy and LimitRange: they can be updated, but not
\* created, in a namespace that is being terminated.
PersistPolicies ==
    /\ rec.pc = "policies"
    /\ LET n == rec.tenant.template
           ok == space[n] # Absent /\ (policies[n] \/ ~ space[n].terminating)
       IN  /\ policies' = IF ok THEN [policies EXCEPT ![n] = TRUE] ELSE policies
           /\ rec' = [rec EXCEPT !.pc = "status", !.error = ~ ok]
    /\ UNCHANGED <<toolVars, tenant, caches, space, uids, secret, queued, changes, failures, history>>

\* The conditions in the status: the namespace has an error or none; an event
\* sink, if there is one, has a URL and a token; the tools are there when the job
\* is complete, and a job that has failed only leaves it open.
NamespaceReady(error) == IF error THEN "False" ELSE "True"
EventSinkReady(t, token) ==
    IF t.sink = "none" \/ (t.sink # "noURL" /\ token) THEN "True" ELSE "False"
ToolInjectionReady(t, complete) == IF t.tools /\ ~ complete THEN "Unknown" ELSE "True"

AggregateStatusConditions(conds) ==
    CASE "False" \in conds -> "False"
      [] "False" \notin conds /\ "Unknown" \in conds -> "Unknown"
      [] OTHER -> "True"

\* (Nothing reads ObservedGeneration.)
ConfigureTenant(t, complete) ==
    [t EXCEPT !.observed = t.template,
              !.ready = AggregateStatusConditions(
                            {NamespaceReady(rec.error), EventSinkReady(t, rec.token),
                             ToolInjectionReady(t, complete)}) = "True"]

\* Not coming back to a tenant that is not ready.
PersistStatusNoRequeue ==
    /\ rec.pc = "status"
    /\ Current(rec.tenant)
    /\ tenant' = Put(ConfigureTenant(rec.tenant, FALSE))
    /\ Return(queued)
    /\ UNCHANGED <<caches, spaceVars, toolVars, changes, failures, history>>

\* PersistStatus, before the tools are looked at; without tools, Requeue unless
\* ready.
PersistStatus ==
    /\ rec.pc = "status"
    /\ Current(rec.tenant)
    /\ tenant' = Put(ConfigureTenant(rec.tenant, FALSE))
    /\ IF rec.tenant.tools
       THEN rec' = [rec EXCEPT !.pc = "claim", !.tenant = tenant'] /\ UNCHANGED queued
       ELSE Return(queued \/ ~ tenant'.ready)
    /\ UNCHANGED <<caches, spaceVars, toolVars, changes, failures, history>>

-----------------------------------------------------------------------------
(* The tools *)

\* An object can be applied in this namespace: it can be updated, but not
\* created, while the namespace is terminated.  Without a template there is no
\* name, which is an error.
Appliable(n, object) ==
    /\ n \in Namespace
    /\ space[n] # Absent
    /\ object[n] = "none" => ~ space[n].terminating

\* ApplyPersistentVolumeClaim: a claim that is there stays as it is.
Applied(object, n) == [object EXCEPT ![n] = IF @ = "none" THEN "pending" ELSE @]

\* The ReadWriteOnce claim must be bound.
BoundClaim == {"bound", "disk", "other"}

ApplyClaim ==
    /\ rec.pc = "claim"
    /\ LET n == rec.tenant.template
       IN  IF Appliable(n, claim)
           THEN /\ claim' = Applied(claim, n)
                /\ IF claim[n] \in BoundClaim THEN Goto("volume") ELSE Return(TRUE)
           ELSE Return(TRUE) /\ UNCHANGED claim
    /\ UNCHANGED <<tenant, caches, spaceVars, readOnly, volume, job, changes, failures, history>>

\* ApplyPersistentVolume: a volume of that name stays as it is.
NewVolume == IF volume = Absent THEN "free" ELSE volume

\* The volume of the claim: one that is not found is an error, and one that is
\* neither a disk nor a path of the host is waited for.  The claim may be gone by
\* now and its volume with it or not.
ApplyVolume ==
    /\ rec.pc = "volume"
    /\ \/ /\ claim[rec.tenant.template] \in {"disk", "none"}
          /\ volume' = NewVolume
          /\ Goto("readOnly")
       \/ /\ claim[rec.tenant.template] # "disk"
          /\ Return(TRUE)
          /\ UNCHANGED volume
    /\ UNCHANGED <<tenant, caches, spaceVars, claim, readOnly, job, changes, failures, history>>

\* The ReadOnlyMany claim must have a volume.
ApplyReadOnlyClaim ==
    /\ rec.pc = "readOnly"
    /\ LET n == rec.tenant.template
       IN  IF Appliable(n, readOnly)
           THEN /\ readOnly' = Applied(readOnly, n)
                /\ IF readOnly[n] = "bound" THEN Goto("job") ELSE Return(TRUE)
           ELSE Return(TRUE) /\ UNCHANGED readOnly
    /\ UNCHANGED <<tenant, caches, spaceVars, claim, volume, job, changes, failures, history>>

\* ApplyJob: the job is created, or its pod template is updated.
AppliedJob(n) == [job EXCEPT ![n] = IF @ = "none" THEN "running" ELSE @]

\* Taking a job that has not failed for one that is complete.
ApplyJobUnfailed ==
    /\ rec.pc = "job"
    /\ LET n == rec.tenant.template
       IN  IF Appliable(n, job) /\ jobCache[n] = job[n]
           THEN /\ job' = AppliedJob(n)
                /\ rec' = [rec EXCEPT !.pc = "tools", !.complete = job[n] # "failed"]
                /\ UNCHANGED queued
           ELSE Return(TRUE) /\ UNCHANGED job
    /\ UNCHANGED <<tenant, caches, spaceVars, claim, readOnly, volume, changes, failures, history>>

\* Whether ApplyJob creates a job that exists.  The reconciler goes on after
\* AlreadyExists, although it has no job then, and the operator panics.
Panics(n) == n \in Namespace /\ job[n] # "none" /\ jobCache[n] = "none"

\* ApplyJob: an update of a job that has changed meanwhile is refused.  The
\* reconciler comes back until the job is complete or has failed.
ApplyJob ==
    /\ rec.pc = "job"
    /\ LET n == rec.tenant.template
       IN  /\ ~ Panics(n)
           /\ IF Appliable(n, job) /\ jobCache[n] = job[n]
              THEN /\ job' = AppliedJob(n)
                   /\ IF job[n] \in {"complete", "failed"}
                      THEN /\ rec' = [rec EXCEPT !.pc = "tools", !.complete = job[n] = "complete"]
                           /\ UNCHANGED queued
                      ELSE Return(TRUE)
              ELSE Return(TRUE) /\ UNCHANGED job
    /\ UNCHANGED <<tenant, caches, spaceVars, claim, readOnly, volume, changes, failures, history>>

\* Kubernetes starts the operator again.
Panic ==
    /\ rec.pc = "job"
    /\ Panics(rec.tenant.template)
    /\ tenantCache' = tenant
    /\ spaceCache' = space
    /\ jobCache' = job
    /\ Return(TRUE)
    /\ UNCHANGED <<tenant, spaceVars, toolVars, changes, failures, history>>

\* PersistStatus with the conditions of the job, then Requeue unless ready.
PersistToolStatus ==
    /\ rec.pc = "tools"
    /\ Current(rec.tenant)
    /\ tenant' = Put(ConfigureTenant(rec.tenant, rec.complete))
    /\ Return(queued \/ ~ tenant'.ready)
    /\ UNCHANGED <<caches, spaceVars, toolVars, changes, failures, history>>

\* An Update of the tenant meets a Conflict or NotFound: an error.
Rejected ==
    /\ rec.pc \in {"addFinalizer", "removeFinalizer", "status", "tools"}
    /\ ~ Current(rec.tenant)
    /\ Return(TRUE)
    /\ UNCHANGED <<toolVars, tenant, caches, spaceVars, changes, failures, history>>

\* A call fails.  An error of deps.Persist goes into the status, any other
\* ends the reconciliation.
Fail ==
    /\ rec.pc # "idle"
    /\ MayFail
    /\ failures' = failures + 1
    /\ IF rec.pc \in {"persist", "policies"}
       THEN rec' = [rec EXCEPT !.pc = "status", !.error = TRUE] /\ UNCHANGED queued
       ELSE Return(TRUE)
    /\ UNCHANGED <<toolVars, tenant, caches, spaceVars, changes, history>>

OperatorRestart ==
    /\ MayFail
    /\ failures' = failures + 1
    /\ tenantCache' = tenant
    /\ spaceCache' = space
    /\ jobCache' = job
    /\ Return(TRUE)
    /\ UNCHANGED <<toolVars, tenant, spaceVars, changes, history>>

\* A predicate that compares templates.
TenantEventSpecOnly ==
    /\ tenantCache # tenant
    /\ tenantCache' = tenant
    /\ queued' = (queued \/ tenant = Absent \/ tenantCache.template # tenant.template)
    /\ UNCHANGED <<toolVars, tenant, spaceVars, spaceCache, jobCache, rec, changes, failures, history>>

\* For(Tenant) with a GenerationChangedPredicate: updates of the status or the
\* finalizer only reach the cache.
TenantEvent ==
    /\ tenantCache # tenant
    /\ tenantCache' = tenant
    /\ queued' = (queued \/ tenant = Absent \/ tenantCache.generation # tenant.generation)
    /\ UNCHANGED <<toolVars, tenant, spaceVars, spaceCache, jobCache, rec, changes, failures, history>>

NamespaceEvent(n) ==
    /\ spaceCache[n] # space[n]
    /\ spaceCache' = [spaceCache EXCEPT ![n] = space[n]]
    /\ UNCHANGED <<toolVars, tenant, spaceVars, tenantCache, jobCache, rec, queued, changes, failures, history>>

JobEvent(n) ==
    /\ jobCache[n] # job[n]
    /\ jobCache' = [jobCache EXCEPT ![n] = job[n]]
    /\ UNCHANGED <<tenant, spaceVars, toolVars, tenantCache, spaceCache, rec, queued, changes, failures, history>>

-----------------------------------------------------------------------------
(* Users and Kubernetes. *)

\* A user changes the name in the namespace template.  If Status.Namespace
\* does not hold the old name yet, nothing does any more: it is forgotten.
ChangeTemplate(n) ==
    /\ tenant # Absent
    /\ ~ tenant.deleting
    /\ n # tenant.template
    /\ Change
    /\ tenant' = [tenant EXCEPT !.template = n, !.generation = @ + 1, !.rv = @ + 1]
    /\ forgotten' = forgotten \cup (IF tenant.template = tenant.observed THEN {}
                                    ELSE {tenant.template})
    /\ UNCHANGED <<toolVars, caches, spaceVars, rec, queued, failures, taken>>

\* A user creates, changes or deletes the Secret, which the operator does not
\* watch.
ChangeSecret(new) ==
    /\ tenant # Absent /\ tenant.sink = "secret"
    /\ new # secret
    /\ Change
    /\ secret' = new
    /\ UNCHANGED <<toolVars, tenant, caches, space, policies, uids, rec, queued, failures, history>>

\* Someone else, such as another tenant, makes the namespace a dependency of its
\* own (SetDependencyOf writes over the annotation), or creates one where there
\* is none.
TakeOver(n) ==
    /\ space[n] # Absent => space[n].owned
    /\ Change
    /\ IF space[n] = Absent
       THEN /\ uids' = uids + 1
            /\ space' = [space EXCEPT ![n] =
                           [uid |-> uids + 1, owned |-> FALSE, terminating |-> FALSE]]
       ELSE /\ space' = [space EXCEPT ![n].owned = FALSE]
            /\ UNCHANGED uids
    /\ taken' = taken \cup {n}
    /\ UNCHANGED <<toolVars, tenant, caches, policies, secret, rec, queued, failures, forgotten>>

\* A user deletes the tenant: it is gone unless a finalizer holds it.
DeleteTenant ==
    /\ tenant # Absent
    /\ ~ tenant.deleting
    /\ tenant' = IF tenant.finalizer
                 THEN [tenant EXCEPT !.deleting = TRUE, !.generation = @ + 1, !.rv = @ + 1]
                 ELSE Absent
    /\ UNCHANGED <<toolVars, caches, spaceVars, rec, queued, changes, failures, history>>

\* The contents of a terminating namespace go first, then the namespace.  A
\* volume is kept, for the claim that it was bound to and no other.
Empty(n) ==
    ~ policies[n] /\ claim[n] = "none" /\ readOnly[n] = "none" /\ job[n] = "none"

NamespaceEmptied(n) ==
    /\ space[n] # Absent
    /\ space[n].terminating
    /\ ~ Empty(n)
    /\ policies' = [policies EXCEPT ![n] = FALSE]
    /\ claim' = [claim EXCEPT ![n] = "none"]
    /\ readOnly' = [readOnly EXCEPT ![n] = "none"]
    /\ volume' = IF readOnly[n] = "bound" THEN "released" ELSE volume
    /\ job' = [job EXCEPT ![n] = "none"]
    /\ UNCHANGED <<tenant, caches, space, uids, secret, rec, queued, changes, failures, history>>

NamespaceGone(n) ==
    /\ space[n] # Absent
    /\ space[n].terminating
    /\ Empty(n)
    /\ space' = [space EXCEPT ![n] = Absent]
    /\ UNCHANGED <<tenant, caches, policies, uids, secret, toolVars, rec, queued, changes, failures, history>>

BindClaim(n) ==
    /\ claim[n] = "pending"
    /\ claim' = [claim EXCEPT ![n] = "bound"]
    /\ UNCHANGED <<tenant, caches, spaceVars, readOnly, volume, job, rec, queued, changes, failures, history>>

\* The operator's cache shows the volume of the claim.
VolumeEvent(n) ==
    /\ claim[n] = "bound"
    /\ \E kind \in {"disk", "other"} : claim' = [claim EXCEPT ![n] = kind]
    /\ UNCHANGED <<tenant, caches, spaceVars, readOnly, volume, job, rec, queued, changes, failures, history>>

BindReadOnlyClaim(n) ==
    /\ readOnly[n] = "pending" /\ volume = "free"
    /\ readOnly' = [readOnly EXCEPT ![n] = "bound"]
    /\ volume' = "bound"
    /\ UNCHANGED <<tenant, caches, spaceVars, claim, job, rec, queued, changes, failures, history>>

JobEnds(n) ==
    /\ job[n] = "running"
    /\ \E end \in {"complete", "failed"} : job' = [job EXCEPT ![n] = end]
    /\ UNCHANGED <<tenant, caches, spaceVars, claim, readOnly, volume, rec, queued, changes, failures, history>>

-----------------------------------------------------------------------------
Secrets == {"absent", "other", "noKey", "token"}

\* A new tenant; any namespace may exist already and belong to someone else.
Init ==
    /\ \E n \in Namespace \cup {Own}, k \in Kinds :
          tenant = [rv |-> 1, generation |-> 1, template |-> n, tools |-> k.tools,
                    sink |-> k.sink, deleting |-> FALSE, finalizer |-> FALSE,
                    observed |-> None, ready |-> FALSE]
    /\ secret \in IF tenant.sink = "secret" THEN Secrets ELSE {"absent"}
    /\ tenantCache = tenant
    /\ space \in [Namespace -> {Absent, Foreign}]
    /\ spaceCache = space
    /\ policies = [n \in Namespace |-> FALSE]
    /\ claim = [n \in Namespace |-> "none"]
    /\ readOnly = [n \in Namespace |-> "none"]
    /\ volume = Absent
    /\ job = [n \in Namespace |-> "none"]
    /\ jobCache = job
    /\ rec = NoReconcile
    /\ queued = TRUE
    /\ uids = 0
    /\ changes = 0
    /\ failures = 0
    /\ forgotten = {}
    /\ taken = {}

ReconcileStep ==
    \/ LoadTenant
    \/ LoadDeps
    \/ LoadDepsFails
    \/ AddFinalizer
    \/ DeleteStale
    \/ DeleteNamespace
    \/ RemoveFinalizer
    \/ PersistNamespace
    \/ PersistPolicies
    \/ PersistStatus
    \/ ApplyClaim
    \/ ApplyVolume
    \/ ApplyReadOnlyClaim
    \/ ApplyJob
    \/ Panic
    \/ PersistToolStatus
    \/ Rejected

NamespaceStep(n) == NamespaceEmptied(n) \/ NamespaceGone(n)

Next ==
    \/ ReconcileStep
    \/ Fail
    \/ OperatorRestart
    \/ TenantEvent
    \/ \E n \in Namespace :
          \/ NamespaceEvent(n) \/ JobEvent(n) \/ NamespaceStep(n)
          \/ BindClaim(n) \/ VolumeEvent(n) \/ BindReadOnlyClaim(n) \/ JobEnds(n)
          \/ TakeOver(n)
    \/ \E n \in Namespace \cup {Own} : ChangeTemplate(n)
    \/ \E new \in Secrets : ChangeSecret(new)
    \/ DeleteTenant

\* A queued tenant is reconciled and a reconciliation goes on to its end,
\* watches deliver, terminating namespaces go away, claims are bound if they
\* can be, and jobs end.
Fairness ==
    /\ WF_vars(ReconcileStep)
    /\ WF_vars(TenantEvent)
    /\ \A n \in Namespace :
          /\ WF_vars(NamespaceEvent(n)) /\ WF_vars(JobEvent(n)) /\ WF_vars(NamespaceStep(n))
          /\ WF_vars(BindClaim(n)) /\ WF_vars(VolumeEvent(n))
          /\ WF_vars(BindReadOnlyClaim(n)) /\ WF_vars(JobEnds(n))

Spec == Init /\ [][Next]_vars

FairSpec == Spec /\ Fairness

-----------------------------------------------------------------------------
(* Properties. *)

RecType ==
    [pc : {"idle", "load", "addFinalizer", "stale", "delete", "removeFinalizer",
           "persist", "policies", "status", "claim", "volume", "readOnly", "job", "tools"},
     tenant : TenantObject \cup {Absent},
     space : NamespaceObject \cup {Absent},
     stale : NamespaceObject \cup {Absent},
     error : BOOLEAN, token : BOOLEAN, complete : BOOLEAN]

\* Types of the objects, their cached copies and the reconciliation's copies.
TypeOK ==
    /\ tenant \in TenantObject \cup {Absent}
    /\ tenantCache \in TenantObject \cup {Absent}
    /\ space \in [Namespace -> NamespaceObject \cup {Absent}]
    /\ spaceCache \in [Namespace -> NamespaceObject \cup {Absent}]
    /\ policies \in [Namespace -> BOOLEAN]
    /\ claim \in [Namespace -> {"none", "pending"} \cup BoundClaim]
    /\ readOnly \in [Namespace -> {"none", "pending", "bound"}]
    /\ volume \in {Absent, "free", "bound", "released"}
    /\ job \in [Namespace -> {"none", "running", "complete", "failed"}]
    /\ jobCache \in [Namespace -> {"none", "running", "complete", "failed"}]
    /\ rec \in RecType
    /\ rec.pc # "idle" => rec.tenant # Absent
    /\ secret \in Secrets
    /\ queued \in BOOLEAN
    /\ uids \in Nat
    /\ changes \in Nat
    /\ failures \in Nat
    /\ forgotten \subseteq Namespace \cup {Own}
    /\ taken \subseteq Namespace

\* The tenant owns this namespace and it is not on its way out.
Held(n) == space[n] # Absent /\ space[n].owned /\ ~ space[n].terminating

Tracked(n) == tenant # Absent /\ tenant.finalizer /\ n \in {tenant.template, tenant.observed}

\* Every namespace of the tenant will be found again: the tenant exists, has
\* its finalizer, and its template or its status names the namespace.  There
\* are two ways to lose one, and no third, such as a crash between two steps:
\* the template changes before the status has recorded the old name, or the
\* cache does not show the namespace when it is time to delete it.
NamespacesTracked == \A n \in Namespace : Held(n) => Tracked(n) \/ n \in forgotten

\* The operator is about to delete n by a copy of it that is not what n is now.
DeletesByOldCopy(n) ==
    \/ rec.pc = "stale" /\ n = rec.tenant.observed /\ rec.stale # space[n]
    \/ rec.pc = "delete" /\ n = rec.tenant.template /\ rec.space # space[n]

\* Action property: what is deleted was the tenant's own.  A namespace that never
\* was is never deleted, even if the tenant's template or its status names it
\* (IsDependencyOf); one that someone else has taken over is deleted only by a
\* reconciliation whose copy is older than that, as DeleteIgnoreNotFound names
\* the namespace and neither its UID nor its version.  (deps.Persist may still
\* make a namespace the tenant's own: SetDependencyOf adopts one that exists
\* already, and from then on it is deleted like any other.)
OthersNamespacesKept ==
    [][\A n \in Namespace :
          space[n] # Absent /\ ~ space[n].owned /\ ~ space[n].terminating
             => \/ space'[n] # Absent /\ ~ space'[n].terminating
                \/ n \in taken /\ DeletesByOldCopy(n)]_vars

\* Liveness: a deleted tenant goes away; its finalizer does not block it, unless
\* the Secret of its event sink cannot be loaded, without which the operator
\* does not get as far as the finalizer (Finalize, OpaqueSecret.Load).
TenantDeleted ==
    (tenant # Absent /\ tenant.deleting) ~> (tenant = Absent \/ ~ SecretLoads(tenant))

\* What keeps the event sink from being ready.
SinkImpossible ==
    tenant.sink = "noURL" \/ (tenant.sink = "secret" /\ secret # "token")

\* What keeps tools from being injected for ever: the tenant has no namespace of
\* its own, its claim is bound to a volume of another kind than the two that can
\* be shared, the job has failed (nobody replaces it), or the volume belongs to a
\* claim in a namespace that the tenant has left.
ToolsImpossible ==
    tenant.tools /\ (\/ ~ Managed(tenant)
                     \/ claim[tenant.template] = "other"
                     \/ job[tenant.template] = "failed"
                     \/ volume = "released")

\* Liveness: the tenant becomes ready for the namespace it asks for, also when
\* that namespace was still being terminated, with no watch on namespaces,
\* claims, jobs or Secrets, and in spite of the operator's panics; unless its
\* tools cannot be injected or its event sink has no URL or token (Reconcile).
TenantBecomesReady ==
    <>[](tenant = Absent \/ (tenant.ready /\ tenant.observed = tenant.template)
            \/ ToolsImpossible \/ SinkImpossible)

\* Nothing will happen by itself any more.
Settled ==
    /\ rec.pc = "idle"
    /\ ~ queued
    /\ tenantCache = tenant
    /\ \A n \in Namespace : space[n] # Absent => ~ space[n].terminating

\* When everything has settled, a tenant is reported as ready only if the tools
\* have been copied into the namespace that it has, although every
\* reconciliation reports twice, the job is read from a cache and the namespace
\* may have been another one meanwhile (ConfigureTenant).
ReadyMeansTools ==
    Settled /\ tenant # Absent /\ tenant.ready /\ tenant.tools /\ Managed(tenant)
        /\ Held(tenant.template)
        => job[tenant.template] = "complete"

\* "StaleNamespace is the old namespace of a tenant that needs to be cleaned
\* up" (TenantDeps): when everything has settled, the tenant has no namespace
\* but the one that its template asks for, and none when it is gone.
StaleNamespaceCleanedUp ==
    Settled => \A n \in Namespace : Held(n) => tenant # Absent /\ n = tenant.template

\* "TenantNamespaceReady indicates whether the namespace requested by the
\* tenant namespace template is ready to use" (tenant_types.go).
ReadyNamespaceExists ==
    Settled /\ tenant # Absent /\ tenant.ready /\ Managed(tenant)
        => space[tenant.template] # Absent
=============================================================================
