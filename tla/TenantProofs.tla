---------------------------- MODULE TenantProofs ----------------------------
(***************************************************************************)
(* Proofs about Tenant, for any set of names, any kinds of tenants and any *)
(* bounds.                                                                 *)
(***************************************************************************)
EXTENDS Tenant, TLAPS

-----------------------------------------------------------------------------
(* Types *)

\* An Update stores a tenant.
LEMMA PutType ==
    ASSUME tenant \in TenantObject, NEW t \in TenantObject
    PROVE  Put(t) \in TenantObject
  BY DEF Put, TenantObject

\* ConfigureTenant yields a tenant that differs in its status only.
LEMMA ConfigureTenantFields ==
    ASSUME NEW t \in TenantObject, NEW complete \in BOOLEAN
    PROVE  /\ ConfigureTenant(t, complete) \in TenantObject
           /\ ConfigureTenant(t, complete).rv = t.rv
           /\ ConfigureTenant(t, complete).generation = t.generation
           /\ ConfigureTenant(t, complete).template = t.template
           /\ ConfigureTenant(t, complete).tools = t.tools
           /\ ConfigureTenant(t, complete).deleting = t.deleting
           /\ ConfigureTenant(t, complete).finalizer = t.finalizer
           /\ ConfigureTenant(t, complete).observed = t.template
  <1> DEFINE r == AggregateStatusConditions(
                            {NamespaceReady(rec.error), EventSinkReady(t, rec.token),
                             ToolInjectionReady(t, complete)}) = "True"
  <1>1. r \in BOOLEAN
    OBVIOUS
  <1>2. ConfigureTenant(t, complete) = [t EXCEPT !.observed = t.template, !.ready = r]
    BY DEF ConfigureTenant
  <1> HIDE DEF r
  <1> QED BY <1>1, <1>2 DEF TenantObject

\* Deleting a namespace leaves the types of namespaces alone.
LEMMA DeleteType ==
    ASSUME space \in [Namespace -> NamespaceObject \cup {Absent}], NEW n, Delete(n)
    PROVE  space' \in [Namespace -> NamespaceObject \cup {Absent}]
  <1>1. CASE space[n] = Absent
    BY <1>1 DEF Delete
  <1>2. CASE space[n] # Absent
    <2>1. space' = [space EXCEPT ![n].terminating = TRUE]
      BY <1>2 DEF Delete
    <2>2. n \in Namespace => [space[n] EXCEPT !.terminating = TRUE] \in NamespaceObject
      BY <1>2 DEF NamespaceObject
    <2> QED BY <2>1, <2>2
  <1> QED BY <1>1, <1>2

\* A reconciliation that ends has its type.
LEMMA ReturnType ==
    ASSUME NEW again \in BOOLEAN, Return(again)
    PROVE  rec' \in RecType /\ rec'.pc = "idle" /\ queued' \in BOOLEAN
  BY DEF Return, NoReconcile, RecType

\* Type correctness of the tenant, its dependencies and the reconciliation.
THEOREM TypeCorrect == Spec => []TypeOK
  <1>1. Init => TypeOK
    <2> SUFFICES ASSUME Init PROVE TypeOK OBVIOUS
    <2>1. tenant \in TenantObject
      BY KindAssumption DEF Init, TenantObject
    <2>2. space \in [Namespace -> NamespaceObject \cup {Absent}]
      <3>1. Foreign \in NamespaceObject
        BY DEF Foreign, NamespaceObject
      <3> QED BY <3>1 DEF Init
    <2>3. secret \in Secrets
      BY DEF Init, Secrets
    <2>4. rec \in RecType /\ rec.pc = "idle"
      BY DEF Init, NoReconcile, RecType
    <2> QED BY <2>1, <2>2, <2>3, <2>4 DEF Init, TypeOK
  <1>2. TypeOK /\ [Next]_vars => TypeOK'
    <2> SUFFICES ASSUME TypeOK, [Next]_vars PROVE TypeOK' OBVIOUS
    <2> USE DEF spaceVars, toolVars, caches, history
    <2>0. rec \in RecType /\ (rec.pc # "idle" => rec.tenant \in TenantObject)
      BY DEF TypeOK, RecType
    <2>1. CASE LoadTenant
      <3>1. rec' \in RecType /\ (rec'.pc # "idle" => rec'.tenant # Absent)
        BY <2>0, <2>1 DEF LoadTenant, TypeOK, RecType
      <3> QED BY <2>1, <3>1 DEF LoadTenant, TypeOK
    <2>2. CASE LoadDeps
      <3> DEFINE t == rec.tenant
                 loaded(n) == IF n \in Namespace THEN spaceCache[n] ELSE Absent
      <3>1. /\ SinkToken(t) \in BOOLEAN
            /\ loaded(t.template) \in NamespaceObject \cup {Absent}
            /\ loaded(t.observed) \in NamespaceObject \cup {Absent}
        BY DEF TypeOK, SinkToken
      <3>2. rec' \in RecType /\ rec'.tenant = rec.tenant
        <4> HIDE DEF loaded
        <4>1. PICK pc \in {"stale", "addFinalizer"}, stale \in {loaded(t.observed), Absent} :
                 rec' = [rec EXCEPT !.pc = pc, !.space = loaded(t.template),
                                    !.token = SinkToken(t), !.stale = stale]
          BY <2>2 DEF LoadDeps, loaded
        <4> QED BY <2>0, <3>1, <4>1 DEF RecType
      <3>3. forgotten' \subseteq Namespace \cup {Own}
        BY <2>0, <2>2 DEF LoadDeps, TypeOK, HasStale, Managed, TenantObject
      <3> QED BY <2>0, <2>2, <3>2, <3>3, AbsentAssumption DEF LoadDeps, TypeOK
    <2>3. CASE LoadDepsFails
      BY <2>3, ReturnType DEF LoadDepsFails, TypeOK
    <2>4. CASE AddFinalizer
      <3>1. /\ [rec.tenant EXCEPT !.finalizer = TRUE] \in TenantObject
            /\ tenant \in TenantObject
        BY <2>0, <2>4 DEF AddFinalizer, Current, TypeOK, TenantObject
      <3>2. tenant' \in TenantObject
        BY <2>4, <3>1, PutType DEF AddFinalizer
      <3>3. rec' \in RecType /\ rec'.tenant = tenant'
        BY <2>0, <2>4, <3>2 DEF AddFinalizer, RecType
      <3> QED BY <2>4, <3>2, <3>3, AbsentAssumption DEF AddFinalizer, TypeOK
    <2>5. CASE DeleteStale
      <3>1. rec' \in RecType /\ rec'.tenant = rec.tenant /\ queued' = queued
        BY <2>0, <2>5 DEF DeleteStale, Goto, RecType
      <3>2. /\ space' \in [Namespace -> NamespaceObject \cup {Absent}]
            /\ UNCHANGED <<policies, uids, secret>>
        <4>1. CASE UNCHANGED spaceVars
          BY <4>1 DEF TypeOK
        <4>2. ASSUME NEW n, Delete(n)
              PROVE  /\ space' \in [Namespace -> NamespaceObject \cup {Absent}]
                     /\ UNCHANGED <<policies, uids, secret>>
          BY <4>2, DeleteType DEF Delete, TypeOK
        <4> QED BY <2>5, <4>1, <4>2 DEF DeleteStale
      <3> QED BY <2>0, <2>5, <3>1, <3>2, AbsentAssumption DEF DeleteStale, TypeOK
    <2>6. CASE DeleteNamespace
      <3>1. rec' \in RecType /\ rec'.tenant = rec.tenant /\ queued' = queued
        BY <2>0, <2>6 DEF DeleteNamespace, Goto, RecType
      <3>2. /\ space' \in [Namespace -> NamespaceObject \cup {Absent}]
            /\ UNCHANGED <<policies, uids, secret>>
        <4>1. CASE UNCHANGED spaceVars
          BY <4>1 DEF TypeOK
        <4>2. ASSUME NEW n, Delete(n)
              PROVE  /\ space' \in [Namespace -> NamespaceObject \cup {Absent}]
                     /\ UNCHANGED <<policies, uids, secret>>
          BY <4>2, DeleteType DEF Delete, TypeOK
        <4> QED BY <2>6, <4>1, <4>2 DEF DeleteNamespace
      <3> QED BY <2>0, <2>6, <3>1, <3>2, AbsentAssumption DEF DeleteNamespace, TypeOK
    <2>7. CASE RemoveFinalizer
      BY <2>7, ReturnType DEF RemoveFinalizer, TypeOK
    <2>8. CASE PersistNamespace
      <3>1. rec' \in RecType /\ rec'.tenant = rec.tenant /\ queued' = queued
        BY <2>0, <2>8 DEF PersistNamespace, Goto, RecType
      <3>2. /\ space' \in [Namespace -> NamespaceObject \cup {Absent}]
            /\ uids' \in Nat /\ UNCHANGED <<policies, secret>>
        <4>1. CASE UNCHANGED spaceVars
          BY <4>1 DEF TypeOK
        <4>2. ASSUME NEW n, uids' = uids + 1,
                     space' = [space EXCEPT ![n] =
                                 [uid |-> uids + 1, owned |-> TRUE, terminating |-> FALSE]]
              PROVE  /\ space' \in [Namespace -> NamespaceObject \cup {Absent}]
                     /\ uids' \in Nat
          <5>1. [uid |-> uids + 1, owned |-> TRUE, terminating |-> FALSE] \in NamespaceObject
            BY DEF TypeOK, NamespaceObject
          <5>2. space \in [Namespace -> NamespaceObject \cup {Absent}] /\ uids + 1 \in Nat
            BY DEF TypeOK
          <5> QED BY <4>2, <5>1, <5>2
        <4>3. ASSUME NEW n \in Namespace, space[n] # Absent, uids' = uids,
                     space' = [space EXCEPT ![n].owned = TRUE]
              PROVE  /\ space' \in [Namespace -> NamespaceObject \cup {Absent}]
                     /\ uids' \in Nat
          <5>1. [space[n] EXCEPT !.owned = TRUE] \in NamespaceObject
            <6>1. space[n] \in NamespaceObject
              BY <4>3 DEF TypeOK
            <6> QED BY <6>1 DEF NamespaceObject
          <5> QED BY <4>3, <5>1 DEF TypeOK
        <4>4. Managed(rec.tenant) => rec.tenant.template \in Namespace
          BY <2>0, <2>8 DEF PersistNamespace, Managed, TenantObject
        <4> QED BY <2>8, <4>1, <4>2, <4>3, <4>4 DEF PersistNamespace
      <3> QED BY <2>0, <2>8, <3>1, <3>2, AbsentAssumption DEF PersistNamespace, TypeOK
    <2>9. CASE PersistPolicies
      <3>1. rec' \in RecType /\ rec'.tenant = rec.tenant
        BY <2>0, <2>9 DEF PersistPolicies, RecType
      <3>2. policies' \in [Namespace -> BOOLEAN]
        BY <2>9 DEF PersistPolicies, TypeOK
      <3> QED BY <2>0, <2>9, <3>1, <3>2, AbsentAssumption DEF PersistPolicies, TypeOK
    <2>10. CASE PersistStatus
      <3>1. ConfigureTenant(rec.tenant, FALSE) \in TenantObject /\ tenant \in TenantObject
        BY <2>0, <2>10, ConfigureTenantFields DEF PersistStatus, Current, TypeOK
      <3>2. tenant' \in TenantObject
        BY <2>10, <3>1, PutType DEF PersistStatus
      <3>3. rec' \in RecType /\ (rec'.pc # "idle" => rec'.tenant # Absent) /\ queued' \in BOOLEAN
        <4>1. CASE rec.tenant.tools
          <5>1. rec' = [rec EXCEPT !.pc = "claim", !.tenant = tenant'] /\ queued' = queued
            BY <2>10, <4>1 DEF PersistStatus
          <5> QED BY <2>0, <3>2, <5>1, AbsentAssumption DEF RecType, TypeOK
        <4>2. CASE ~ rec.tenant.tools
          <5>1. (queued \/ ~ tenant'.ready) \in BOOLEAN
            OBVIOUS
          <5> QED BY <2>10, <4>2, <5>1, ReturnType DEF PersistStatus
        <4> QED BY <4>1, <4>2
      <3> QED BY <2>10, <3>2, <3>3 DEF PersistStatus, TypeOK
    <2>11. CASE ApplyClaim
      <3>1. claim' \in [Namespace -> {"none", "pending"} \cup BoundClaim]
        <4>1. claim' \in {claim, Applied(claim, rec.tenant.template)}
          BY <2>11 DEF ApplyClaim
        <4> QED BY <4>1 DEF Applied, TypeOK
      <3>2. rec' \in RecType /\ (rec'.pc # "idle" => rec'.tenant # Absent) /\ queued' \in BOOLEAN
        <4>1. CASE Return(TRUE)
          BY <4>1, ReturnType
        <4>2. ASSUME NEW pc \in {"volume", "job"}, Goto(pc)
              PROVE  rec' \in RecType /\ rec'.tenant = rec.tenant /\ queued' \in BOOLEAN
          BY <2>0, <4>2 DEF Goto, RecType, TypeOK
        <4> QED BY <2>0, <2>11, <4>1, <4>2, AbsentAssumption DEF ApplyClaim
      <3> QED BY <2>11, <3>1, <3>2 DEF ApplyClaim, TypeOK
    <2>12. CASE ApplyVolume
      <3>1. volume' \in {Absent, "free", "bound", "released"}
        BY <2>12 DEF ApplyVolume, NewVolume, TypeOK
      <3>2. rec' \in RecType /\ (rec'.pc # "idle" => rec'.tenant # Absent) /\ queued' \in BOOLEAN
        <4>1. CASE Return(TRUE)
          BY <4>1, ReturnType
        <4>2. CASE Goto("readOnly")
          BY <2>0, <2>12, <4>2, AbsentAssumption DEF ApplyVolume, Goto, RecType, TypeOK
        <4> QED BY <2>12, <4>1, <4>2 DEF ApplyVolume
      <3> QED BY <2>12, <3>1, <3>2 DEF ApplyVolume, TypeOK
    <2>13. CASE ApplyReadOnlyClaim
      <3>1. readOnly' \in [Namespace -> {"none", "pending", "bound"}]
        <4>1. readOnly' \in {readOnly, Applied(readOnly, rec.tenant.template)}
          BY <2>13 DEF ApplyReadOnlyClaim
        <4> QED BY <4>1 DEF Applied, TypeOK
      <3>2. rec' \in RecType /\ (rec'.pc # "idle" => rec'.tenant # Absent) /\ queued' \in BOOLEAN
        <4>1. CASE Return(TRUE)
          BY <4>1, ReturnType
        <4>2. ASSUME NEW pc \in {"volume", "job"}, Goto(pc)
              PROVE  rec' \in RecType /\ rec'.tenant = rec.tenant /\ queued' \in BOOLEAN
          BY <2>0, <4>2 DEF Goto, RecType, TypeOK
        <4> QED BY <2>0, <2>13, <4>1, <4>2, AbsentAssumption DEF ApplyReadOnlyClaim
      <3> QED BY <2>13, <3>1, <3>2 DEF ApplyReadOnlyClaim, TypeOK
    <2>14. CASE ApplyJob
      <3>1. job' \in [Namespace -> {"none", "running", "complete", "failed"}]
        <4>1. job' \in {job, AppliedJob(rec.tenant.template)}
          BY <2>14 DEF ApplyJob
        <4> QED BY <4>1 DEF AppliedJob, TypeOK
      <3>2. rec' \in RecType /\ (rec'.pc # "idle" => rec'.tenant # Absent) /\ queued' \in BOOLEAN
        <4>1. CASE Return(TRUE)
          BY <4>1, ReturnType
        <4>2. ASSUME NEW complete \in BOOLEAN, UNCHANGED queued,
                     rec' = [rec EXCEPT !.pc = "tools", !.complete = complete]
              PROVE  rec' \in RecType /\ rec'.tenant = rec.tenant /\ queued' \in BOOLEAN
          BY <2>0, <4>2 DEF RecType, TypeOK
        <4> QED BY <2>0, <2>14, <4>1, <4>2, AbsentAssumption DEF ApplyJob
      <3> QED BY <2>14, <3>1, <3>2 DEF ApplyJob, TypeOK
    <2>15. CASE Panic
      BY <2>15, ReturnType DEF Panic, TypeOK
    <2>16. CASE PersistToolStatus
      <3>1. /\ ConfigureTenant(rec.tenant, rec.complete) \in TenantObject
            /\ tenant \in TenantObject
        BY <2>0, <2>16, ConfigureTenantFields DEF PersistToolStatus, Current, TypeOK, RecType
      <3>2. tenant' \in TenantObject
        BY <2>16, <3>1, PutType DEF PersistToolStatus
      <3>3. (queued \/ ~ tenant'.ready) \in BOOLEAN
        OBVIOUS
      <3> QED BY <2>16, <3>2, <3>3, ReturnType DEF PersistToolStatus, TypeOK
    <2>17. CASE Rejected
      BY <2>17, ReturnType DEF Rejected, TypeOK
    <2>18. CASE Fail
      <3>1. rec' \in RecType /\ (rec'.pc # "idle" => rec'.tenant # Absent) /\ queued' \in BOOLEAN
        BY <2>0, <2>18, ReturnType, AbsentAssumption DEF Fail, RecType, TypeOK
      <3> QED BY <2>18, <3>1 DEF Fail, TypeOK
    <2>19. CASE OperatorRestart
      <3>1. failures' \in Nat
        BY <2>19 DEF OperatorRestart, TypeOK
      <3>2. rec' \in RecType /\ rec'.pc = "idle" /\ queued' \in BOOLEAN
        BY <2>19, ReturnType DEF OperatorRestart
      <3> QED BY <2>19, <3>1, <3>2 DEF OperatorRestart, TypeOK
    <2>20. CASE TenantEvent
      BY <2>20 DEF TenantEvent, TypeOK
    <2>21. ASSUME NEW n \in Namespace, NamespaceEvent(n) PROVE TypeOK'
      BY <2>21 DEF NamespaceEvent, TypeOK
    <2>22. ASSUME NEW n \in Namespace, JobEvent(n) PROVE TypeOK'
      BY <2>22 DEF JobEvent, TypeOK
    <2>23. ASSUME NEW n \in Namespace, NamespaceEmptied(n) PROVE TypeOK'
      BY <2>23 DEF NamespaceEmptied, TypeOK
    <2>24. ASSUME NEW n \in Namespace, NamespaceGone(n) PROVE TypeOK'
      BY <2>24 DEF NamespaceGone, TypeOK
    <2>25. ASSUME NEW n \in Namespace,
                  BindClaim(n) \/ VolumeEvent(n) \/ BindReadOnlyClaim(n) \/ JobEnds(n)
           PROVE  TypeOK'
      BY <2>25 DEF BindClaim, VolumeEvent, BindReadOnlyClaim, JobEnds, TypeOK, BoundClaim
    <2>26. ASSUME NEW n \in Namespace \cup {Own}, ChangeTemplate(n) PROVE TypeOK'
      <3>1. tenant' \in TenantObject
        <4>1. tenant \in TenantObject
          BY <2>26 DEF ChangeTemplate, TypeOK
        <4>2. tenant' = [tenant EXCEPT !.template = n, !.generation = @ + 1, !.rv = @ + 1]
          BY <2>26 DEF ChangeTemplate
        <4>3. tenant.generation + 1 \in Nat /\ tenant.rv + 1 \in Nat
          BY <4>1 DEF TenantObject
        <4> QED BY <4>1, <4>2, <4>3 DEF TenantObject
      <3>2. forgotten' \subseteq Namespace \cup {Own}
        BY <2>26 DEF ChangeTemplate, TypeOK, TenantObject
      <3> QED BY <2>26, <3>1, <3>2 DEF ChangeTemplate, Change, TypeOK
    <2>27. ASSUME NEW new \in Secrets, ChangeSecret(new) PROVE TypeOK'
      BY <2>27 DEF ChangeSecret, Change, TypeOK
    <2>28. CASE DeleteTenant
      <3>1. tenant' \in TenantObject \cup {Absent}
        <4>1. tenant \in TenantObject
          BY <2>28 DEF DeleteTenant, TypeOK
        <4>2. \/ tenant' = Absent
              \/ tenant' = [tenant EXCEPT !.deleting = TRUE, !.generation = @ + 1, !.rv = @ + 1]
          BY <2>28 DEF DeleteTenant
        <4>3. tenant.generation + 1 \in Nat /\ tenant.rv + 1 \in Nat
          BY <4>1 DEF TenantObject
        <4> QED BY <4>1, <4>2, <4>3 DEF TenantObject
      <3> QED BY <2>28, <3>1 DEF DeleteTenant, TypeOK
    <2>29. ASSUME NEW n \in Namespace, TakeOver(n) PROVE TypeOK'
      <3>1. space' \in [Namespace -> NamespaceObject \cup {Absent}] /\ uids' \in Nat
        <4>1. space \in [Namespace -> NamespaceObject \cup {Absent}] /\ uids \in Nat
          BY DEF TypeOK
        <4>2. CASE space[n] = Absent
          <5>1. [uid |-> uids + 1, owned |-> FALSE, terminating |-> FALSE] \in NamespaceObject
            BY <4>1 DEF NamespaceObject
          <5>2. /\ uids' = uids + 1
                /\ space' = [space EXCEPT ![n] =
                              [uid |-> uids + 1, owned |-> FALSE, terminating |-> FALSE]]
            BY <2>29, <4>2 DEF TakeOver
          <5>3. uids + 1 \in Nat
            BY <4>1
          <5> QED BY <4>1, <5>1, <5>2, <5>3
        <4>3. CASE space[n] # Absent
          <5>1. [space[n] EXCEPT !.owned = FALSE] \in NamespaceObject
            BY <4>1, <4>3 DEF NamespaceObject
          <5> QED BY <2>29, <4>1, <4>3, <5>1 DEF TakeOver
        <4> QED BY <4>2, <4>3
      <3> QED BY <2>29, <3>1 DEF TakeOver, Change, TypeOK
    <2>30. CASE UNCHANGED vars
      BY <2>30 DEF vars, TypeOK
    <2> QED
      BY <2>1, <2>2, <2>3, <2>4, <2>5, <2>6, <2>7, <2>8, <2>9, <2>10, <2>11, <2>12, <2>13,
         <2>14, <2>15, <2>16, <2>17, <2>18, <2>19, <2>20, <2>21, <2>22, <2>23, <2>24, <2>25,
         <2>26, <2>27, <2>28, <2>29, <2>30
      DEF Next, ReconcileStep, NamespaceStep
  <1> QED BY <1>1, <1>2, PTL DEF Spec

-----------------------------------------------------------------------------
(***************************************************************************)
(* The tenant and the two copies of it, in the cache and in the            *)
(* reconciliation.  A copy that has the version of the tenant is the       *)
(* tenant; what an older one says about the finalizer, the deletion and    *)
(* the template is still known to the tenant, or was forgotten.            *)
(***************************************************************************)
Honest(c, t, lost) ==
    c # Absent =>
        /\ c.finalizer /\ ~ c.deleting => t # Absent /\ t.finalizer
        /\ t # Absent =>
              /\ c.rv <= t.rv
              /\ c.rv = t.rv => c = t
              /\ c.generation <= t.generation
              /\ c.deleting => t.deleting
              /\ c.template \in {t.template, t.observed} \cup lost

\* The phases of a reconciliation that gives the tenant what it asks for.
Working == {"persist", "policies", "status", "claim", "volume", "readOnly", "job", "tools"}

\* What a reconciliation knows of its own copy in each phase.
Phases ==
    /\ rec.pc = "idle" => rec.tenant = Absent
    /\ rec.pc = "addFinalizer" => ~ rec.tenant.deleting
    /\ rec.pc = "stale" => rec.tenant.deleting \/ rec.tenant.finalizer
    /\ rec.pc \in {"delete", "removeFinalizer"} => rec.tenant.deleting
    /\ rec.pc \in Working => rec.tenant.finalizer /\ ~ rec.tenant.deleting

\* The cache is never behind what the reconciliation has loaded from it.
CacheAhead ==
    rec.tenant # Absent /\ tenantCache # Absent =>
        /\ rec.tenant.deleting => tenantCache.deleting
        /\ Current(rec.tenant) => tenantCache.template = tenant.template

\* Every copy of the tenant is honest, and the phases agree with the copy.
TenantInv ==
    /\ tenantCache = Absent => tenant = Absent
    /\ Honest(tenantCache, tenant, forgotten)
    /\ Honest(rec.tenant, tenant, forgotten)
    /\ Phases
    /\ CacheAhead

\* The tenant is an honest copy of itself.
LEMMA HonestSelf ==
    ASSUME NEW t \in TenantObject \cup {Absent}, NEW lost
    PROVE  Honest(t, t, lost)
  BY DEF Honest, TenantObject

\* Copies stay honest when the tenant gets a new version that keeps the finalizer,
\* the deletion and the names.
LEMMA HonestUpdate ==
    ASSUME NEW c \in TenantObject \cup {Absent}, NEW t \in TenantObject, NEW u \in TenantObject,
           NEW lost, NEW more, lost \subseteq more,
           Honest(c, t, lost),
           u = t \/ u.rv > t.rv,
           u.generation >= t.generation,
           t.deleting => u.deleting,
           t.finalizer => u.finalizer,
           c # Absent /\ c.template \in {t.template, t.observed}
               => c.template \in {u.template, u.observed} \cup more
    PROVE  Honest(c, u, more)
  <1> SUFFICES ASSUME c # Absent PROVE Honest(c, u, more)
    BY DEF Honest
  <1>1. /\ c \in TenantObject /\ c.rv \in Nat /\ t.rv \in Nat /\ u.rv \in Nat
        /\ c.generation \in Nat /\ t.generation \in Nat /\ u.generation \in Nat
    BY DEF TenantObject
  <1>2. t # Absent /\ u # Absent
    BY AbsentAssumption
  <1> QED BY <1>1, <1>2 DEF Honest

\* Forgetting more does no harm.
LEMMA HonestGrow ==
    ASSUME NEW c, NEW t, NEW lost, NEW more, lost \subseteq more, Honest(c, t, lost)
    PROVE  Honest(c, t, more)
  BY DEF Honest

\* What a copy of the present version is.
LEMMA CurrentCopy ==
    ASSUME TenantInv, Current(rec.tenant), rec.tenant # Absent
    PROVE  rec.tenant = tenant
  BY DEF TenantInv, Honest, Current

\* The new version that Put gives to the tenant.
LEMMA PutFields ==
    ASSUME tenant \in TenantObject, NEW t \in TenantObject, t.rv = tenant.rv
    PROVE  /\ Put(t) = tenant \/ Put(t).rv > tenant.rv
           /\ Put(t).generation = t.generation /\ Put(t).template = t.template
           /\ Put(t).observed = t.observed /\ Put(t).deleting = t.deleting
           /\ Put(t).finalizer = t.finalizer /\ Put(t).tools = t.tools
           /\ Put(t).ready = t.ready
  <1>1. CASE t = tenant
    BY <1>1 DEF Put
  <1>2. CASE t # tenant
    <2>1. Put(t) = [t EXCEPT !.rv = tenant.rv + 1] /\ tenant.rv + 1 > tenant.rv
      BY <1>2 DEF Put, TenantObject
    <2> QED BY <2>1 DEF TenantObject
  <1> QED BY <1>1, <1>2

\* A step that leaves the tenant alone, and changes no copy of it or makes it a
\* fresh one or drops it.
LEMMA QuietStep ==
    ASSUME TypeOK, TenantInv, tenant' = tenant, tenantCache' \in {tenantCache, tenant},
           forgotten \subseteq forgotten', rec'.tenant \in {rec.tenant, Absent}, Phases'
    PROVE  TenantInv'
  <1>1. Honest(tenantCache', tenant', forgotten')
    <2>1. CASE tenantCache' = tenantCache
      BY <2>1, HonestGrow DEF TenantInv
    <2>2. CASE tenantCache' = tenant
      BY <2>2, HonestSelf DEF TypeOK
    <2> QED BY <2>1, <2>2
  <1>2. Honest(rec.tenant, tenant', forgotten')
    BY HonestGrow DEF TenantInv
  <1>3. Honest(rec'.tenant, tenant', forgotten')
    <2>1. CASE rec'.tenant = Absent
      BY <2>1 DEF Honest
    <2> QED BY <1>2, <2>1
  <1>4. CacheAhead'
    <2> SUFFICES ASSUME rec'.tenant # Absent, tenantCache' # Absent
                 PROVE  /\ rec'.tenant.deleting => tenantCache'.deleting
                        /\ Current(rec.tenant)' => tenantCache'.template = tenant'.template
      BY DEF CacheAhead
    <2>1. rec'.tenant = rec.tenant
      OBVIOUS
    <2>2. CASE tenantCache' = tenantCache
      BY <2>1, <2>2 DEF TenantInv, CacheAhead, Current
    <2>3. CASE tenantCache' = tenant
      BY <2>1, <2>3 DEF TenantInv, Honest
    <2> QED BY <2>2, <2>3
  <1>5. tenantCache' = Absent => tenant' = Absent
    BY DEF TenantInv
  <1> QED BY <1>1, <1>3, <1>4, <1>5 DEF TenantInv

\* A reconciliation that ends knows nothing.
LEMMA ReturnPhases ==
    ASSUME NEW again, Return(again)
    PROVE  Phases' /\ rec'.tenant = Absent
  BY DEF Return, NoReconcile, Phases, Working

\* What AddFinalizer keeps of its copy of the tenant.
LEMMA AddFinalizerKeeps ==
    ASSUME TypeOK, TenantInv, AddFinalizer
    PROVE  /\ rec'.pc = "stale" /\ rec'.tenant = tenant'
           /\ rec'.space = rec.space /\ rec'.stale = rec.stale
           /\ tenant \in TenantObject /\ tenant' \in TenantObject
           /\ rec.tenant = tenant /\ ~ tenant.deleting
           /\ tenant'.template = tenant.template /\ tenant'.observed = tenant.observed
           /\ tenant'.deleting = tenant.deleting /\ tenant'.finalizer
           /\ tenant'.generation = tenant.generation /\ tenant'.ready = tenant.ready
           /\ tenant'.tools = tenant.tools
           /\ tenant' = tenant \/ tenant'.rv > tenant.rv
  <1> DEFINE t == [tenant EXCEPT !.finalizer = TRUE]
  <1>1. tenant \in TenantObject /\ rec.tenant = tenant /\ ~ tenant.deleting
    <2>1. tenant # Absent /\ rec.tenant # Absent
      BY DEF AddFinalizer, Current, TypeOK
    <2> QED BY <2>1, CurrentCopy DEF AddFinalizer, TypeOK, TenantInv, Phases
  <1>2. /\ t \in TenantObject /\ t.rv = tenant.rv /\ t.generation = tenant.generation
        /\ t.template = tenant.template /\ t.observed = tenant.observed
        /\ t.deleting = tenant.deleting /\ t.finalizer /\ t.ready = tenant.ready
        /\ t.tools = tenant.tools
    BY <1>1 DEF TenantObject
  <1>3. tenant' = Put(t)
    BY <1>1 DEF AddFinalizer
  <1>4. /\ rec'.pc = "stale" /\ rec'.tenant = tenant'
        /\ rec'.space = rec.space /\ rec'.stale = rec.stale
    BY DEF AddFinalizer, TypeOK, RecType
  <1> HIDE DEF t
  <1> QED BY <1>1, <1>2, <1>3, <1>4, PutFields, PutType

\* The tenant gets a new version from a status.
LEMMA StatusStep ==
    ASSUME TypeOK, TypeOK', TenantInv, rec.pc \in Working, Current(rec.tenant),
           NEW complete \in BOOLEAN, tenant' = Put(ConfigureTenant(rec.tenant, complete)),
           tenantCache' = tenantCache, forgotten' = forgotten,
           Phases', rec'.tenant \in {tenant', Absent}
    PROVE  TenantInv'
  <1>1. tenant \in TenantObject /\ rec.tenant = tenant /\ ConfigureTenant(tenant, complete) \in TenantObject
    <2>1. rec.tenant # Absent /\ tenant # Absent
      BY DEF TypeOK, Current, Working
    <2> QED BY <2>1, CurrentCopy, ConfigureTenantFields DEF TypeOK
  <1>2. /\ tenant' \in TenantObject
        /\ tenant' = tenant \/ tenant'.rv > tenant.rv
        /\ tenant'.generation = tenant.generation /\ tenant'.template = tenant.template
        /\ tenant'.deleting = tenant.deleting /\ tenant'.finalizer = tenant.finalizer
    BY <1>1, PutFields, PutType, ConfigureTenantFields
  <1>3. tenantCache # Absent => tenantCache.template = tenant.template
    BY <1>1, AbsentAssumption DEF TenantInv, CacheAhead
  <1>4. Honest(tenantCache', tenant', forgotten')
    <2>1. /\ tenantCache \in TenantObject \cup {Absent}
          /\ Honest(tenantCache, tenant, forgotten)
          /\ forgotten \subseteq forgotten'
      BY DEF TypeOK, TenantInv
    <2>2. tenant'.generation >= tenant.generation
      BY <1>1, <1>2 DEF TenantObject
    <2> QED BY <1>1, <1>2, <1>3, <2>1, <2>2, HonestUpdate
  <1>5. Honest(rec'.tenant, tenant', forgotten')
    BY <1>2, HonestSelf DEF Honest
  <1>6. CacheAhead'
    <2>1. ~ tenant'.deleting
      BY <1>1, <1>2 DEF TenantInv, Phases
    <2> QED BY <1>2, <1>3, <2>1 DEF CacheAhead
  <1>7. tenantCache' # Absent
    BY <1>1, AbsentAssumption DEF TenantInv
  <1> QED BY <1>4, <1>5, <1>6, <1>7 DEF TenantInv

\* The invariant of the copies of the tenant is inductive.
THEOREM CopiesCorrect == Spec => []TenantInv
  <1>1. Init => TenantInv
    <2> SUFFICES ASSUME Init PROVE TenantInv OBVIOUS
    <2>1. tenant \in TenantObject
      BY KindAssumption DEF Init, TenantObject
    <2>2. tenantCache = tenant /\ rec.pc = "idle" /\ rec.tenant = Absent
      BY DEF Init, NoReconcile
    <2> QED BY <2>1, <2>2, HonestSelf DEF TenantInv, Honest, Phases, CacheAhead, Working
  <1>2. TypeOK /\ TypeOK' /\ TenantInv /\ [Next]_vars => TenantInv'
    <2> SUFFICES ASSUME TypeOK, TypeOK', TenantInv, [Next]_vars PROVE TenantInv' OBVIOUS
    <2> USE DEF spaceVars, toolVars, caches, history
    <2>0. /\ rec \in RecType /\ (rec.pc # "idle" => rec.tenant \in TenantObject)
          /\ tenant \in TenantObject \cup {Absent} /\ Phases
      BY DEF TypeOK, RecType, TenantInv
    <2>1. CASE LoadTenant
      <3>1. CASE tenantCache = Absent
        BY <2>1, <3>1, QuietStep DEF LoadTenant, TenantInv, Phases
      <3>2. CASE tenantCache # Absent
        <4>1. rec'.tenant = tenantCache /\ rec'.pc = "load"
          BY <2>0, <2>1, <3>2 DEF LoadTenant, RecType
        <4>2. Phases' /\ CacheAhead'
          BY <2>1, <4>1 DEF LoadTenant, Phases, Working, CacheAhead, Current, TenantInv, Honest
        <4> QED BY <2>1, <4>1, <4>2 DEF LoadTenant, TenantInv
      <3> QED BY <3>1, <3>2
    <2>2. CASE LoadDeps
      <3>1. /\ rec'.tenant = rec.tenant
            /\ rec'.pc = IF rec.tenant.deleting \/ rec.tenant.finalizer THEN "stale" ELSE "addFinalizer"
        BY <2>0, <2>2 DEF LoadDeps, RecType
      <3>2. Phases'
        BY <3>1 DEF Phases, Working
      <3> QED BY <2>2, <3>1, <3>2, QuietStep DEF LoadDeps
    <2>3. CASE LoadDepsFails
      BY <2>3, ReturnPhases, QuietStep DEF LoadDepsFails
    <2>4. CASE AddFinalizer
      <3>1. /\ tenant \in TenantObject /\ tenant' \in TenantObject
            /\ rec.tenant = tenant /\ rec'.tenant = tenant' /\ rec'.pc = "stale"
            /\ tenant'.generation = tenant.generation /\ tenant'.template = tenant.template
            /\ tenant'.observed = tenant.observed
            /\ ~ tenant.deleting /\ ~ tenant'.deleting /\ tenant'.finalizer
            /\ tenant' = tenant \/ tenant'.rv > tenant.rv
        BY <2>4, AddFinalizerKeeps
      <3>2. Honest(tenantCache', tenant', forgotten')
        <4>1. /\ tenantCache \in TenantObject \cup {Absent}
              /\ Honest(tenantCache, tenant, forgotten)
              /\ tenantCache' = tenantCache /\ forgotten' = forgotten
          BY <2>4 DEF AddFinalizer, TypeOK, TenantInv
        <4>2. tenant'.generation >= tenant.generation
          BY <3>1 DEF TenantObject
        <4> QED BY <3>1, <4>1, <4>2, HonestUpdate
      <3>3. Honest(rec'.tenant, tenant', forgotten') /\ Phases'
        BY <3>1, HonestSelf DEF Phases, Working
      <3>4. CacheAhead'
        BY <2>4, <3>1, AbsentAssumption DEF CacheAhead, TenantInv, AddFinalizer
      <3> QED BY <2>4, <3>1, <3>2, <3>3, <3>4, AbsentAssumption DEF TenantInv, AddFinalizer
    <2>5. CASE DeleteStale
      <3>1. /\ rec'.tenant = rec.tenant
            /\ rec'.pc = IF rec.tenant.deleting THEN "delete" ELSE "persist"
        BY <2>0, <2>5 DEF DeleteStale, Goto, RecType
      <3>2. Phases'
        BY <2>0, <2>5, <3>1 DEF DeleteStale, Phases, Working
      <3> QED BY <2>5, <3>1, <3>2, QuietStep DEF DeleteStale
    <2>6. CASE DeleteNamespace
      <3>1. rec'.tenant = rec.tenant /\ rec'.pc = "removeFinalizer"
        BY <2>0, <2>6 DEF DeleteNamespace, Goto, RecType
      <3>2. Phases'
        BY <2>0, <2>6, <3>1 DEF DeleteNamespace, Phases, Working
      <3> QED BY <2>6, <3>1, <3>2, QuietStep DEF DeleteNamespace
    <2>7. CASE RemoveFinalizer
      <3>1. rec.tenant = tenant /\ tenant # Absent /\ tenant.deleting
        <4>1. tenant # Absent /\ rec.tenant # Absent
          BY <2>7 DEF RemoveFinalizer, Current, TypeOK
        <4> QED BY <2>7, <4>1, CurrentCopy DEF RemoveFinalizer, TenantInv, Phases
      <3>2. tenantCache # Absent => tenantCache.deleting
        BY <3>1 DEF TenantInv, CacheAhead
      <3>3. Phases' /\ rec'.tenant = Absent
        BY <2>7, ReturnPhases DEF RemoveFinalizer
      <3> QED BY <2>7, <3>2, <3>3 DEF RemoveFinalizer, TenantInv, Honest, CacheAhead
    <2>8. CASE PersistNamespace
      <3>1. rec'.tenant = rec.tenant /\ rec'.pc \in {"status", "policies"}
        BY <2>0, <2>8 DEF PersistNamespace, Goto, RecType
      <3>2. Phases'
        BY <2>0, <2>8, <3>1 DEF PersistNamespace, Phases, Working
      <3> QED BY <2>8, <3>1, <3>2, QuietStep DEF PersistNamespace
    <2>9. CASE PersistPolicies
      <3>1. rec'.tenant = rec.tenant /\ rec'.pc = "status"
        BY <2>0, <2>9 DEF PersistPolicies, RecType
      <3>2. Phases'
        BY <2>0, <2>9, <3>1 DEF PersistPolicies, Phases, Working
      <3> QED BY <2>9, <3>1, <3>2, QuietStep DEF PersistPolicies
    <2>10. CASE PersistStatus
      <3>1. rec'.tenant \in {tenant', Absent} /\ Phases'
        <4>1. CASE Return(queued \/ ~ tenant'.ready)
          BY <4>1, ReturnPhases
        <4>2. CASE rec' = [rec EXCEPT !.pc = "claim", !.tenant = tenant']
          <5>1. rec'.pc = "claim" /\ rec'.tenant = tenant'
            BY <2>0, <4>2 DEF RecType
          <5>2. tenant'.finalizer /\ ~ tenant'.deleting
            <6>1. tenant \in TenantObject /\ rec.tenant = tenant
              BY <2>0, <2>10, CurrentCopy, AbsentAssumption DEF PersistStatus, Current
            <6>2. tenant.finalizer /\ ~ tenant.deleting
              BY <2>10, <6>1 DEF PersistStatus, TenantInv, Phases, Working
            <6>3. tenant' = Put(ConfigureTenant(tenant, FALSE))
              BY <2>10, <6>1 DEF PersistStatus
            <6>4. /\ ConfigureTenant(tenant, FALSE) \in TenantObject
                  /\ ConfigureTenant(tenant, FALSE).rv = tenant.rv
                  /\ ConfigureTenant(tenant, FALSE).finalizer = tenant.finalizer
                  /\ ConfigureTenant(tenant, FALSE).deleting = tenant.deleting
              BY <6>1, ConfigureTenantFields
            <6> QED BY <6>1, <6>2, <6>3, <6>4, PutFields
          <5> QED BY <5>1, <5>2 DEF Phases, Working
        <4> QED BY <2>10, <4>1, <4>2 DEF PersistStatus
      <3> QED BY <2>10, <3>1, StatusStep DEF PersistStatus, Working
    <2>11. CASE ApplyClaim \/ ApplyVolume \/ ApplyReadOnlyClaim \/ ApplyJob
      <3>1. rec'.tenant \in {rec.tenant, Absent} /\ Phases'
        <4>1. ASSUME Return(TRUE) PROVE rec'.tenant \in {rec.tenant, Absent} /\ Phases'
          BY <4>1, ReturnPhases
        <4>2. ASSUME NEW pc \in Working, Goto(pc)
              PROVE  rec'.tenant = rec.tenant /\ rec'.pc \in Working
          BY <2>0, <4>2 DEF Goto, RecType, Working
        <4>3. ASSUME NEW complete, rec' = [rec EXCEPT !.pc = "tools", !.complete = complete]
              PROVE  rec'.tenant = rec.tenant /\ rec'.pc \in Working
          BY <2>0, <4>3 DEF RecType, Working
        <4>4. ASSUME rec'.tenant = rec.tenant, rec'.pc \in Working
              PROVE  rec'.tenant = rec.tenant /\ Phases'
          BY <2>0, <2>11, <4>4
          DEF Phases, Working, ApplyClaim, ApplyVolume, ApplyReadOnlyClaim, ApplyJob
        <4>5. {"volume", "readOnly", "job"} \subseteq Working
          BY DEF Working
        <4> QED BY <2>11, <4>1, <4>2, <4>3, <4>4, <4>5
                DEF ApplyClaim, ApplyVolume, ApplyReadOnlyClaim, ApplyJob
      <3> QED BY <2>11, <3>1, QuietStep
              DEF ApplyClaim, ApplyVolume, ApplyReadOnlyClaim, ApplyJob
    <2>12. CASE Panic
      BY <2>12, ReturnPhases, QuietStep DEF Panic
    <2>13. CASE PersistToolStatus
      <3>1. rec'.tenant = Absent /\ Phases' /\ rec.complete \in BOOLEAN
        BY <2>0, <2>13, ReturnPhases DEF PersistToolStatus, RecType
      <3> QED BY <2>13, <3>1, StatusStep DEF PersistToolStatus, Working
    <2>14. CASE Rejected
      BY <2>14, ReturnPhases, QuietStep DEF Rejected
    <2>15. CASE Fail
      <3>1. CASE Return(TRUE)
        BY <2>15, <3>1, ReturnPhases, QuietStep DEF Fail
      <3>2. CASE rec.pc \in {"persist", "policies"}
        <4>1. rec'.tenant = rec.tenant /\ rec'.pc = "status"
          BY <2>0, <2>15, <3>2 DEF Fail, RecType
        <4>2. Phases'
          BY <2>0, <3>2, <4>1 DEF Phases, Working
        <4> QED BY <2>15, <4>1, <4>2, QuietStep DEF Fail
      <3> QED BY <2>15, <3>1, <3>2 DEF Fail
    <2>16. CASE OperatorRestart
      BY <2>16, ReturnPhases, QuietStep DEF OperatorRestart
    <2>17. ASSUME tenant' = tenant, tenantCache' \in {tenantCache, tenant},
                  forgotten' = forgotten, rec' = rec
           PROVE  TenantInv'
      BY <2>0, <2>17, QuietStep DEF Phases
    <2>18. CASE TenantEvent
      BY <2>17, <2>18 DEF TenantEvent
    <2>19. ASSUME NEW n \in Namespace,
                  \/ NamespaceEvent(n) \/ JobEvent(n) \/ NamespaceStep(n)
                  \/ BindClaim(n) \/ VolumeEvent(n) \/ BindReadOnlyClaim(n) \/ JobEnds(n)
                  \/ TakeOver(n)
           PROVE  TenantInv'
      BY <2>17, <2>19 DEF NamespaceEvent, JobEvent, NamespaceStep, NamespaceEmptied,
                          NamespaceGone, BindClaim, VolumeEvent, BindReadOnlyClaim, JobEnds,
                          TakeOver
    <2>20. ASSUME NEW new \in Secrets, ChangeSecret(new) PROVE TenantInv'
      BY <2>17, <2>20 DEF ChangeSecret
    <2>21. ASSUME tenant \in TenantObject, tenant' \in TenantObject,
                  tenant'.rv > tenant.rv, tenant'.generation >= tenant.generation,
                  tenant.deleting => tenant'.deleting, tenant'.finalizer = tenant.finalizer,
                  {tenant.template, tenant.observed}
                      \subseteq {tenant'.template, tenant'.observed} \cup forgotten',
                  forgotten \subseteq forgotten', tenantCache' = tenantCache, rec' = rec
           PROVE  TenantInv'
      <3>1. /\ Honest(tenantCache, tenant, forgotten) /\ Honest(rec.tenant, tenant, forgotten)
            /\ tenantCache \in TenantObject \cup {Absent} /\ rec.tenant \in TenantObject \cup {Absent}
        BY <2>0 DEF TenantInv, TypeOK, RecType
      <3>2. Honest(tenantCache', tenant', forgotten') /\ Honest(rec'.tenant, tenant', forgotten')
        <4>1. ASSUME NEW c \in TenantObject \cup {Absent}, Honest(c, tenant, forgotten)
              PROVE  Honest(c, tenant', forgotten')
          BY <2>21, <4>1, HonestUpdate
        <4> QED BY <2>21, <3>1, <4>1
      <3>3. CacheAhead'
        <4>1. rec.tenant # Absent => rec.tenant.rv <= tenant.rv
          BY <2>21, AbsentAssumption DEF TenantInv, Honest
        <4>2. rec.tenant # Absent => tenant'.rv # rec.tenant.rv
          BY <2>21, <3>1, <4>1 DEF TenantObject
        <4> QED BY <2>21, <4>2 DEF CacheAhead, Current, TenantInv
      <3>4. Phases' /\ tenantCache # Absent
        BY <2>0, <2>21, AbsentAssumption DEF Phases, TenantInv
      <3> QED BY <2>21, <3>2, <3>3, <3>4 DEF TenantInv
    <2>22. ASSUME NEW n \in Namespace \cup {Own}, ChangeTemplate(n) PROVE TenantInv'
      <3>1. /\ tenant \in TenantObject
            /\ tenant' = [tenant EXCEPT !.template = n, !.generation = @ + 1, !.rv = @ + 1]
        BY <2>0, <2>22 DEF ChangeTemplate
      <3>2. /\ tenant'.rv = tenant.rv + 1 /\ tenant'.generation = tenant.generation + 1
            /\ tenant'.deleting = tenant.deleting /\ tenant'.finalizer = tenant.finalizer
            /\ tenant'.observed = tenant.observed
        BY <3>1 DEF TenantObject
      <3>3. tenant'.rv > tenant.rv /\ tenant'.generation >= tenant.generation
        BY <3>1, <3>2 DEF TenantObject
      <3>4. tenant' \in TenantObject
        <4>1. tenant.generation + 1 \in Nat /\ tenant.rv + 1 \in Nat
          BY <3>1 DEF TenantObject
        <4> QED BY <3>1, <4>1 DEF TenantObject
      <3>5. forgotten \subseteq forgotten' /\ tenant.template \in {tenant.observed} \cup forgotten'
        BY <2>22 DEF ChangeTemplate
      <3> QED BY <2>21, <2>22, <3>1, <3>2, <3>3, <3>4, <3>5 DEF ChangeTemplate
    <2>23. CASE DeleteTenant
      <3>1. CASE tenant.finalizer
        <4>1. /\ tenant \in TenantObject
              /\ tenant' = [tenant EXCEPT !.deleting = TRUE, !.generation = @ + 1, !.rv = @ + 1]
          BY <2>0, <2>23, <3>1 DEF DeleteTenant
        <4>2. /\ tenant'.rv = tenant.rv + 1 /\ tenant'.generation = tenant.generation + 1
              /\ tenant'.deleting /\ tenant'.finalizer = tenant.finalizer
              /\ tenant'.observed = tenant.observed /\ tenant'.template = tenant.template
          BY <4>1 DEF TenantObject
        <4>3. tenant'.rv > tenant.rv /\ tenant'.generation >= tenant.generation
          BY <4>1, <4>2 DEF TenantObject
        <4>4. tenant' \in TenantObject
          <5>1. tenant.generation + 1 \in Nat /\ tenant.rv + 1 \in Nat
            BY <4>1 DEF TenantObject
          <5> QED BY <4>1, <5>1 DEF TenantObject
        <4> QED BY <2>21, <2>23, <4>1, <4>2, <4>3, <4>4 DEF DeleteTenant
      <3>2. CASE ~ tenant.finalizer
        <4>1. tenant # Absent /\ tenant' = Absent
          BY <2>23, <3>2 DEF DeleteTenant
        <4>2. Honest(tenantCache, tenant', forgotten) /\ Honest(rec.tenant, tenant', forgotten)
          BY <3>2, <4>1 DEF TenantInv, Honest
        <4>3. CacheAhead' /\ Phases'
          BY <2>0, <2>23, <4>1 DEF DeleteTenant, CacheAhead, Current, Phases, TenantInv
        <4> QED BY <2>23, <4>1, <4>2, <4>3 DEF DeleteTenant, TenantInv
      <3> QED BY <3>1, <3>2
    <2>24. CASE UNCHANGED vars
      BY <2>17, <2>24 DEF vars
    <2> QED
      BY <2>1, <2>2, <2>3, <2>4, <2>5, <2>6, <2>7, <2>8, <2>9, <2>10, <2>11, <2>12, <2>13,
         <2>14, <2>15, <2>16, <2>18, <2>19, <2>20, <2>22, <2>23, <2>24
      DEF Next, ReconcileStep
  <1> QED BY <1>1, <1>2, TypeCorrect, PTL DEF Spec

-----------------------------------------------------------------------------
(***************************************************************************)
(* Namespaces.  One that is seen as a dependency of the tenant is one, or  *)
(* is gone, or someone else has taken it over.                             *)
(***************************************************************************)
Mine(n, spaces, others) ==
    n \in Namespace /\ (spaces[n] = Absent \/ spaces[n].owned \/ n \in others)

\* What is about to be deleted as a dependency is or was one, and others terminate
\* only if they were taken over.
SpaceInv ==
    /\ \A n \in Namespace :
          space[n] # Absent /\ ~ space[n].owned /\ space[n].terminating => n \in taken
    /\ \A n \in Namespace : spaceCache[n] # Absent /\ spaceCache[n].owned => Mine(n, space, taken)
    /\ rec.pc \in {"addFinalizer", "stale"} /\ rec.stale # Absent /\ rec.stale.owned
          => Mine(rec.tenant.observed, space, taken)
    /\ rec.pc \in {"addFinalizer", "stale", "delete"} /\ rec.space # Absent /\ rec.space.owned
          => Mine(rec.tenant.template, space, taken)

\* What Delete does to a namespace.
LEMMA DeleteSpace ==
    ASSUME TypeOK, NEW m, Delete(m), NEW n \in Namespace
    PROVE  \/ space'[n] = space[n]
           \/ /\ n = m /\ space[n] # Absent /\ space'[n] # Absent
              /\ space'[n].owned = space[n].owned /\ space'[n].terminating
  <1>1. CASE space[m] = Absent
    BY <1>1 DEF Delete
  <1>2. CASE space[m] # Absent
    <2>1. space' = [space EXCEPT ![m].terminating = TRUE]
          /\ space \in [Namespace -> NamespaceObject \cup {Absent}]
      BY <1>2 DEF Delete, TypeOK
    <2>2. CASE m # n
      BY <2>1, <2>2
    <2>3. CASE m = n
      <3>1. space[n] \in NamespaceObject /\ space'[n] = [space[n] EXCEPT !.terminating = TRUE]
        BY <1>2, <2>1, <2>3
      <3>2. space'[n] \in NamespaceObject
        BY <3>1 DEF NamespaceObject
      <3> QED BY <1>2, <2>3, <3>1, <3>2, AbsentAssumption DEF NamespaceObject
    <2> QED BY <2>2, <2>3
  <1> QED BY <1>1, <1>2

\* What PersistNamespace does to a namespace.
LEMMA PersistSpace ==
    ASSUME TypeOK, PersistNamespace, NEW n \in Namespace
    PROVE  \/ space'[n] = space[n]
           \/ /\ n = rec.tenant.template /\ space'[n] # Absent /\ space'[n].owned
              /\ space[n] = rec.space /\ rec'.pc = "policies"
              /\ space'[n].terminating => space[n] # Absent /\ space[n].terminating
  <1> DEFINE m == rec.tenant.template
  <1> USE DEF spaceVars
  <1>1. space \in [Namespace -> NamespaceObject \cup {Absent}] /\ uids \in Nat /\ rec \in RecType
    BY DEF TypeOK
  <1>2. ASSUME Goto("policies") PROVE rec'.pc = "policies"
    BY <1>1, <1>2 DEF Goto, RecType
  <1>3. CASE UNCHANGED space
    BY <1>3
  <1>4. CASE /\ space[m] = rec.space /\ rec.space = Absent /\ Goto("policies")
             /\ space' = [space EXCEPT ![m] = [uid |-> uids + 1, owned |-> TRUE, terminating |-> FALSE]]
    <2>1. [uid |-> uids + 1, owned |-> TRUE, terminating |-> FALSE] \in NamespaceObject
      BY <1>1 DEF NamespaceObject
    <2> QED BY <1>1, <1>2, <1>4, <2>1, AbsentAssumption
  <1>5. CASE /\ space[m] = rec.space /\ rec.space # Absent /\ Goto("policies")
             /\ space' = [space EXCEPT ![m].owned = TRUE]
    <2>1. CASE m # n
      BY <1>1, <1>5, <2>1
    <2>2. CASE m = n
      <3>1. space[n] \in NamespaceObject /\ space'[n] = [space[n] EXCEPT !.owned = TRUE]
        BY <1>1, <1>5, <2>2
      <3>2. space'[n] \in NamespaceObject
        BY <3>1 DEF NamespaceObject
      <3> QED BY <1>2, <1>5, <2>2, <3>1, <3>2, AbsentAssumption DEF NamespaceObject
    <2> QED BY <2>1, <2>2
  <1> QED BY <1>3, <1>4, <1>5 DEF PersistNamespace

\* What TakeOver does to a namespace.
LEMMA TakeOverSpace ==
    ASSUME TypeOK, NEW m \in Namespace, TakeOver(m), NEW n \in Namespace
    PROVE  \/ space'[n] = space[n]
           \/ /\ m = n /\ n \in taken' /\ space'[n] # Absent /\ ~ space'[n].owned
              /\ space'[n].terminating => space[n] # Absent /\ space[n].owned
  <1>1. space \in [Namespace -> NamespaceObject \cup {Absent}] /\ uids \in Nat
    BY DEF TypeOK
  <1>2. CASE m # n
    BY <1>1, <1>2 DEF TakeOver
  <1>3. CASE m = n /\ space[n] = Absent
    <2>1. space'[n] = [uid |-> uids + 1, owned |-> FALSE, terminating |-> FALSE]
      BY <1>1, <1>3 DEF TakeOver
    <2>2. space'[n] \in NamespaceObject /\ ~ space'[n].owned /\ ~ space'[n].terminating
      BY <1>1, <2>1 DEF NamespaceObject
    <2> QED BY <1>3, <2>2, AbsentAssumption DEF TakeOver
  <1>4. CASE m = n /\ space[n] # Absent
    <2>1. space[n] \in NamespaceObject /\ space[n].owned /\ space'[n] = [space[n] EXCEPT !.owned = FALSE]
      BY <1>1, <1>4 DEF TakeOver
    <2>2. space'[n] \in NamespaceObject /\ ~ space'[n].owned
      BY <2>1 DEF NamespaceObject
    <2> QED BY <1>4, <2>1, <2>2, AbsentAssumption DEF TakeOver
  <1> QED BY <1>2, <1>3, <1>4

\* All that can happen to a namespace.
LEMMA SpaceSteps ==
    ASSUME TypeOK, [Next]_vars, NEW n \in Namespace
    PROVE  \/ space'[n] = space[n]
           \/ /\ \/ DeleteStale /\ n = rec.tenant.observed /\ rec.stale # Absent /\ rec.stale.owned
                 \/ DeleteNamespace /\ n = rec.tenant.template /\ rec.space # Absent /\ rec.space.owned
              /\ space[n] # Absent /\ space'[n] # Absent
              /\ space'[n].owned = space[n].owned /\ space'[n].terminating
           \/ /\ PersistNamespace
              /\ n = rec.tenant.template /\ space'[n] # Absent /\ space'[n].owned
              /\ space[n] = rec.space /\ rec'.pc = "policies"
              /\ space'[n].terminating => space[n] # Absent /\ space[n].terminating
           \/ space[n] # Absent /\ space[n].terminating /\ space'[n] = Absent
           \/ /\ TakeOver(n) /\ n \in taken' /\ space'[n] # Absent /\ ~ space'[n].owned
              /\ space'[n].terminating => space[n] # Absent /\ space[n].owned
  <1> USE DEF spaceVars, toolVars, caches, history
  <1>1. CASE UNCHANGED space
    BY <1>1
  <1>2. CASE DeleteStale
    BY <1>2, DeleteSpace DEF DeleteStale
  <1>3. CASE DeleteNamespace
    BY <1>3, DeleteSpace DEF DeleteNamespace
  <1>4. CASE PersistNamespace
    BY <1>4, PersistSpace
  <1>5. ASSUME NEW m \in Namespace, NamespaceGone(m)
        PROVE  space'[n] = space[n] \/ (space[n] # Absent /\ space[n].terminating /\ space'[n] = Absent)
    BY <1>5 DEF NamespaceGone, TypeOK
  <1>6. ASSUME NEW m \in Namespace,
               \/ NamespaceEvent(m) \/ JobEvent(m) \/ NamespaceEmptied(m)
               \/ BindClaim(m) \/ VolumeEvent(m) \/ BindReadOnlyClaim(m) \/ JobEnds(m)
        PROVE  UNCHANGED space
    BY <1>6 DEF NamespaceEvent, JobEvent, NamespaceEmptied, BindClaim, VolumeEvent,
                BindReadOnlyClaim, JobEnds
  <1>7. ASSUME \/ \E m \in Namespace \cup {Own} : ChangeTemplate(m)
               \/ \E new \in Secrets : ChangeSecret(new)
               \/ DeleteTenant \/ TenantEvent \/ Fail \/ OperatorRestart \/ UNCHANGED vars
        PROVE  UNCHANGED space
    BY <1>7 DEF ChangeTemplate, ChangeSecret, DeleteTenant, TenantEvent, Fail, OperatorRestart, vars
  <1>8. ASSUME \/ LoadTenant \/ LoadDeps \/ LoadDepsFails \/ AddFinalizer \/ RemoveFinalizer
               \/ PersistPolicies \/ PersistStatus
        PROVE  UNCHANGED space
    BY <1>8 DEF LoadTenant, LoadDeps, LoadDepsFails, AddFinalizer, RemoveFinalizer,
                PersistPolicies, PersistStatus
  <1>9. ASSUME \/ ApplyClaim \/ ApplyVolume \/ ApplyReadOnlyClaim \/ ApplyJob \/ Panic
               \/ PersistToolStatus \/ Rejected
        PROVE  UNCHANGED space
    BY <1>9 DEF ApplyClaim, ApplyVolume, ApplyReadOnlyClaim, ApplyJob, Panic,
                PersistToolStatus, Rejected
  <1>10. ASSUME NEW m \in Namespace, TakeOver(m)
         PROVE  \/ space'[n] = space[n]
                \/ /\ m = n /\ n \in taken' /\ space'[n] # Absent /\ ~ space'[n].owned
                   /\ space'[n].terminating => space[n] # Absent /\ space[n].owned
    BY <1>10, TakeOverSpace
  <1> QED BY <1>1, <1>2, <1>3, <1>4, <1>5, <1>6, <1>7, <1>8, <1>9, <1>10
          DEF Next, ReconcileStep, NamespaceStep

\* What was taken over stays recorded.
LEMMA TakenGrows ==
    ASSUME [Next]_vars
    PROVE  taken \subseteq taken'
  <1> USE DEF spaceVars, toolVars, caches, history
  <1>1. CASE \/ LoadTenant \/ LoadDepsFails \/ LoadDeps \/ AddFinalizer \/ DeleteStale
             \/ DeleteNamespace \/ RemoveFinalizer \/ PersistNamespace \/ PersistPolicies
             \/ PersistStatus
    BY <1>1 DEF LoadTenant, LoadDepsFails, LoadDeps, AddFinalizer, DeleteStale, DeleteNamespace,
                RemoveFinalizer, PersistNamespace, PersistPolicies, PersistStatus
  <1>2. CASE \/ ApplyClaim \/ ApplyVolume \/ ApplyReadOnlyClaim \/ ApplyJob \/ Panic
             \/ PersistToolStatus \/ Rejected \/ Fail \/ OperatorRestart \/ TenantEvent
    BY <1>2 DEF ApplyClaim, ApplyVolume, ApplyReadOnlyClaim, ApplyJob, Panic,
                PersistToolStatus, Rejected, Fail, OperatorRestart, TenantEvent
  <1>3. ASSUME NEW m \in Namespace,
               \/ NamespaceEvent(m) \/ JobEvent(m) \/ NamespaceStep(m)
               \/ BindClaim(m) \/ VolumeEvent(m) \/ BindReadOnlyClaim(m) \/ JobEnds(m) \/ TakeOver(m)
        PROVE  taken \subseteq taken'
    BY <1>3 DEF NamespaceEvent, JobEvent, NamespaceStep, NamespaceEmptied, NamespaceGone,
                BindClaim, VolumeEvent, BindReadOnlyClaim, JobEnds, TakeOver
  <1>4. CASE \/ \E m \in Namespace \cup {Own} : ChangeTemplate(m)
             \/ \E new \in Secrets : ChangeSecret(new)
             \/ DeleteTenant \/ UNCHANGED vars
    BY <1>4 DEF ChangeTemplate, ChangeSecret, DeleteTenant, vars
  <1> QED BY <1>1, <1>2, <1>3, <1>4 DEF Next, ReconcileStep

\* A namespace that is the tenant's stays so, goes away or is taken over.
LEMMA MineStays ==
    ASSUME TypeOK, [Next]_vars
    PROVE  \A n : Mine(n, space, taken) => Mine(n, space', taken')
  BY SpaceSteps, TakenGrows DEF Mine

\* The steps that lead to the phases in which namespaces are deleted.
LEMMA DeletingSteps ==
    ASSUME TypeOK, [Next]_vars, rec'.pc \in {"addFinalizer", "stale", "delete", "removeFinalizer"}
    PROVE  rec' = rec \/ LoadDeps \/ AddFinalizer \/ DeleteStale \/ DeleteNamespace
  <1> USE DEF spaceVars, toolVars, caches, history
  <1>0. rec \in RecType
    BY DEF TypeOK
  <1>1. ASSUME NEW again, Return(again) PROVE FALSE
    BY <1>1 DEF Return, NoReconcile
  <1>2. ASSUME NEW pc \in {"status", "policies", "volume", "readOnly", "job"}, Goto(pc) PROVE FALSE
    BY <1>0, <1>2 DEF Goto, RecType
  <1>3. LoadTenant => rec' = rec
    BY <1>0 DEF LoadTenant, RecType
  <1>4. ~ LoadDepsFails /\ ~ RemoveFinalizer /\ ~ Panic /\ ~ PersistToolStatus /\ ~ Rejected
        /\ ~ OperatorRestart
    BY <1>1 DEF LoadDepsFails, RemoveFinalizer, Panic, PersistToolStatus, Rejected, OperatorRestart
  <1>5. ~ PersistNamespace /\ ~ PersistPolicies
    BY <1>0, <1>2 DEF PersistNamespace, PersistPolicies, RecType
  <1>6. ~ PersistStatus /\ ~ Fail
    BY <1>0, <1>1 DEF PersistStatus, Fail, RecType
  <1>7. ~ ApplyClaim /\ ~ ApplyVolume /\ ~ ApplyReadOnlyClaim
    BY <1>1, <1>2 DEF ApplyClaim, ApplyVolume, ApplyReadOnlyClaim
  <1>8. ~ ApplyJob
    BY <1>0, <1>1 DEF ApplyJob, RecType
  <1>9. ASSUME NEW m \in Namespace,
               \/ NamespaceEvent(m) \/ JobEvent(m) \/ NamespaceStep(m)
               \/ BindClaim(m) \/ VolumeEvent(m) \/ BindReadOnlyClaim(m) \/ JobEnds(m) \/ TakeOver(m)
        PROVE  rec' = rec
    BY <1>9 DEF NamespaceEvent, JobEvent, NamespaceStep, NamespaceEmptied, NamespaceGone,
                BindClaim, VolumeEvent, BindReadOnlyClaim, JobEnds, TakeOver
  <1>10. ASSUME \/ \E m \in Namespace \cup {Own} : ChangeTemplate(m)
                \/ \E new \in Secrets : ChangeSecret(new)
                \/ DeleteTenant \/ TenantEvent \/ UNCHANGED vars
         PROVE  rec' = rec
    BY <1>10 DEF ChangeTemplate, ChangeSecret, DeleteTenant, TenantEvent, vars
  <1> QED BY <1>3, <1>4, <1>5, <1>6, <1>7, <1>8, <1>9, <1>10 DEF Next, ReconcileStep


\* The invariant of namespaces and of what is seen of them is inductive.
THEOREM SpacesCorrect == Spec => []SpaceInv
  <1>1. Init => SpaceInv
    <2> SUFFICES ASSUME Init PROVE SpaceInv OBVIOUS
    <2>1. \A n \in Namespace : space[n] # Absent => ~ space[n].owned /\ ~ space[n].terminating
      BY DEF Init, Foreign
    <2>2. spaceCache = space /\ rec.pc = "idle"
      BY DEF Init, NoReconcile
    <2> QED BY <2>1, <2>2 DEF SpaceInv
  <1>2. TypeOK /\ TenantInv /\ SpaceInv /\ [Next]_vars => SpaceInv'
    <2> SUFFICES ASSUME TypeOK, TenantInv, SpaceInv, [Next]_vars PROVE SpaceInv' OBVIOUS
    <2>1. rec \in RecType /\ (rec.pc # "idle" => rec.tenant \in TenantObject)
      BY DEF TypeOK, RecType
    <2>2. ASSUME NEW n \in Namespace, space'[n] # Absent, ~ space'[n].owned, space'[n].terminating
          PROVE  n \in taken'
      <3>1. CASE space'[n] = space[n]
        BY <2>2, <3>1, TakenGrows DEF SpaceInv
      <3>2. CASE \/ DeleteStale /\ n = rec.tenant.observed /\ rec.stale # Absent /\ rec.stale.owned
                 \/ DeleteNamespace /\ n = rec.tenant.template /\ rec.space # Absent /\ rec.space.owned
        <4>1. Mine(n, space, taken)
          BY <3>2 DEF SpaceInv, DeleteStale, DeleteNamespace
        <4> QED BY <2>2, <4>1, MineStays DEF Mine
      <3> QED BY <2>2, <3>1, <3>2, SpaceSteps
    <2>3. ASSUME NEW n \in Namespace, spaceCache'[n] # Absent, spaceCache'[n].owned
          PROVE  Mine(n, space', taken')
      <3>1. CASE spaceCache'[n] = spaceCache[n]
        BY <2>3, <3>1, MineStays DEF SpaceInv
      <3>2. CASE spaceCache'[n] = space[n]
        BY <2>3, <3>2, MineStays DEF Mine
      <3>3. spaceCache'[n] \in {spaceCache[n], space[n]}
        <4> USE DEF spaceVars, toolVars, caches, history
        <4>1. ASSUME \/ LoadTenant \/ LoadDeps \/ LoadDepsFails \/ AddFinalizer \/ DeleteStale
                     \/ DeleteNamespace \/ RemoveFinalizer \/ PersistNamespace
                     \/ PersistPolicies \/ PersistStatus
              PROVE  UNCHANGED spaceCache
          BY <4>1 DEF LoadTenant, LoadDeps, LoadDepsFails, AddFinalizer, DeleteStale,
                      DeleteNamespace, RemoveFinalizer, PersistNamespace, PersistPolicies,
                      PersistStatus
        <4>2. ASSUME \/ ApplyClaim \/ ApplyVolume \/ ApplyReadOnlyClaim \/ ApplyJob
                     \/ PersistToolStatus \/ Rejected
              PROVE  UNCHANGED spaceCache
          BY <4>2 DEF ApplyClaim, ApplyVolume, ApplyReadOnlyClaim, ApplyJob,
                      PersistToolStatus, Rejected
        <4>3. ASSUME \/ \E m \in Namespace \cup {Own} : ChangeTemplate(m)
                     \/ \E new \in Secrets : ChangeSecret(new)
                     \/ DeleteTenant \/ TenantEvent \/ Fail \/ UNCHANGED vars
              PROVE  UNCHANGED spaceCache
          BY <4>3 DEF ChangeTemplate, ChangeSecret, DeleteTenant, TenantEvent, Fail, vars
        <4>4. ASSUME Panic \/ OperatorRestart PROVE spaceCache' = space
          BY <4>4 DEF Panic, OperatorRestart
        <4>5. ASSUME NEW m \in Namespace, NamespaceEvent(m)
              PROVE  spaceCache'[n] \in {spaceCache[n], space[n]}
          BY <4>5 DEF NamespaceEvent, TypeOK
        <4>6. ASSUME NEW m \in Namespace,
                     \/ JobEvent(m) \/ NamespaceStep(m)
                     \/ BindClaim(m) \/ VolumeEvent(m) \/ BindReadOnlyClaim(m) \/ JobEnds(m)
                     \/ TakeOver(m)
              PROVE  UNCHANGED spaceCache
          BY <4>6 DEF JobEvent, NamespaceStep, NamespaceEmptied, NamespaceGone,
                      BindClaim, VolumeEvent, BindReadOnlyClaim, JobEnds, TakeOver
        <4> QED BY <4>1, <4>2, <4>3, <4>4, <4>5, <4>6 DEF Next, ReconcileStep
      <3> QED BY <3>1, <3>2, <3>3
    <2>4. ASSUME LoadDeps, rec'.stale # Absent, rec'.stale.owned
          PROVE  Mine(rec'.tenant.observed, space', taken')
      <3>1. /\ rec'.tenant = rec.tenant
            /\ rec.tenant.observed \in Namespace
            /\ rec'.stale = spaceCache[rec.tenant.observed]
        BY <2>1, <2>4 DEF LoadDeps, HasStale, RecType
      <3>2. Mine(rec.tenant.observed, space, taken)
        BY <2>4, <3>1 DEF SpaceInv
      <3> QED BY <3>1, <3>2, MineStays
    <2>5. ASSUME LoadDeps, rec'.space # Absent, rec'.space.owned
          PROVE  Mine(rec'.tenant.template, space', taken')
      <3>1. /\ rec'.tenant = rec.tenant
            /\ rec.tenant.template \in Namespace
            /\ rec'.space = spaceCache[rec.tenant.template]
        BY <2>1, <2>5 DEF LoadDeps, RecType
      <3>2. Mine(rec.tenant.template, space, taken)
        BY <2>5, <3>1 DEF SpaceInv
      <3> QED BY <3>1, <3>2, MineStays
    <2>6. ASSUME rec'.pc \in {"addFinalizer", "stale"}, rec'.stale # Absent, rec'.stale.owned
          PROVE  Mine(rec'.tenant.observed, space', taken')
      <3>1. CASE rec' = rec
        BY <2>6, <3>1, MineStays DEF SpaceInv
      <3>2. CASE AddFinalizer
        <4>1. Mine(rec.tenant.observed, space, taken) /\ rec'.tenant.observed = rec.tenant.observed
          BY <2>6, <3>2, AddFinalizerKeeps DEF SpaceInv, AddFinalizer
        <4> QED BY <4>1, MineStays
      <3>3. CASE DeleteStale \/ DeleteNamespace
        BY <2>1, <2>6, <3>3 DEF DeleteStale, DeleteNamespace, Goto, RecType
      <3> QED BY <2>4, <2>6, <3>1, <3>2, <3>3, DeletingSteps
    <2>7. ASSUME rec'.pc \in {"addFinalizer", "stale", "delete"}, rec'.space # Absent, rec'.space.owned
          PROVE  Mine(rec'.tenant.template, space', taken')
      <3>1. CASE rec' = rec
        BY <2>7, <3>1, MineStays DEF SpaceInv
      <3>2. CASE AddFinalizer
        <4>1. Mine(rec.tenant.template, space, taken) /\ rec'.tenant.template = rec.tenant.template
          BY <2>7, <3>2, AddFinalizerKeeps DEF SpaceInv, AddFinalizer
        <4> QED BY <4>1, MineStays
      <3>3. CASE DeleteStale
        <4>1. rec'.tenant = rec.tenant /\ rec'.space = rec.space
          BY <2>1, <3>3 DEF DeleteStale, Goto, RecType
        <4>2. Mine(rec.tenant.template, space, taken)
          BY <2>7, <3>3, <4>1 DEF SpaceInv, DeleteStale
        <4> QED BY <4>1, <4>2, MineStays
      <3>4. CASE DeleteNamespace
        BY <2>1, <2>7, <3>4 DEF DeleteNamespace, Goto, RecType
      <3> QED BY <2>5, <2>7, <3>1, <3>2, <3>3, <3>4, DeletingSteps
    <2> QED BY <2>2, <2>3, <2>6, <2>7 DEF SpaceInv
  <1> QED BY <1>1, <1>2, TypeCorrect, CopiesCorrect, PTL DEF Spec

\* What is deleted is or was the tenant's own, however old the caches and copies
\* are that DeleteStale and deps.Delete decide by: a namespace of someone else is
\* deleted only if it was taken over, and by a copy that is older than that.
THEOREM OthersKept == Spec => OthersNamespacesKept
  <1>1. TypeOK /\ SpaceInv /\ [Next]_vars
        => [\A n \in Namespace :
               space[n] # Absent /\ ~ space[n].owned /\ ~ space[n].terminating
                  => \/ space'[n] # Absent /\ ~ space'[n].terminating
                     \/ n \in taken /\ DeletesByOldCopy(n)]_vars
    <2> SUFFICES ASSUME TypeOK, SpaceInv, [Next]_vars, NEW n \in Namespace,
                        space[n] # Absent, ~ space[n].owned, ~ space[n].terminating,
                        ~ (space'[n] # Absent /\ ~ space'[n].terminating)
                 PROVE  n \in taken /\ DeletesByOldCopy(n)
      OBVIOUS
    <2>1. CASE DeleteStale /\ n = rec.tenant.observed /\ rec.stale # Absent /\ rec.stale.owned
      <3>1. rec.pc = "stale"
        BY <2>1 DEF DeleteStale
      <3>2. n \in taken
        BY <2>1, <3>1 DEF SpaceInv, Mine
      <3> QED BY <2>1, <3>1, <3>2 DEF DeletesByOldCopy
    <2>2. CASE DeleteNamespace /\ n = rec.tenant.template /\ rec.space # Absent /\ rec.space.owned
      <3>1. rec.pc = "delete"
        BY <2>2 DEF DeleteNamespace
      <3>2. n \in taken
        BY <2>2, <3>1 DEF SpaceInv, Mine
      <3> QED BY <2>2, <3>1, <3>2 DEF DeletesByOldCopy
    <2> QED BY <2>1, <2>2, SpaceSteps
  <1> QED BY <1>1, TypeCorrect, SpacesCorrect, PTL DEF Spec, OthersNamespacesKept

-----------------------------------------------------------------------------
(***************************************************************************)
(* What is not deleted and would not be found again has been forgotten.    *)
(***************************************************************************)
Kept(n, spaces) == spaces[n] # Absent /\ spaces[n].owned /\ ~ spaces[n].terminating

\* The namespace n is deleted, or its loss has been recorded.
Lost(n, spaces, lost) == n \in lost \/ ~ Kept(n, spaces)

\* A copy that DeleteStale and deps.Delete take no action for.
Unseen(copy) == copy = Absent \/ ~ copy.owned

\* A reconciliation that passes a namespace over has recorded it as forgotten, and
\* once past the deletion the namespace is terminating or was forgotten.
LossInv ==
    /\ rec.pc \in {"addFinalizer", "stale"} /\ HasStale(rec.tenant) /\ Unseen(rec.stale)
          => rec.tenant.observed \in forgotten
    /\ rec.pc \in {"delete", "removeFinalizer"} \cup Working /\ HasStale(rec.tenant)
          => Lost(rec.tenant.observed, space, forgotten)
    /\ rec.pc \in {"stale", "delete"} /\ rec.tenant.deleting /\ Managed(rec.tenant)
                                      /\ Unseen(rec.space)
          => rec.tenant.template \in forgotten
    /\ rec.pc = "removeFinalizer" /\ Managed(rec.tenant)
          => Lost(rec.tenant.template, space, forgotten)

\* A namespace becomes the tenant's own only in PersistNamespace.
LEMMA KeptSteps ==
    ASSUME TypeOK, [Next]_vars
    PROVE  \A n \in Namespace : Kept(n, space') =>
              \/ Kept(n, space)
              \/ PersistNamespace /\ n = rec.tenant.template /\ rec'.pc = "policies"
  BY SpaceSteps DEF Kept

\* What was forgotten stays so.
LEMMA ForgottenGrows ==
    ASSUME [Next]_vars
    PROVE  forgotten \subseteq forgotten'
  <1> USE DEF spaceVars, toolVars, caches, history
  <1>1. CASE \/ LoadTenant \/ LoadDepsFails \/ AddFinalizer \/ DeleteStale \/ DeleteNamespace
             \/ RemoveFinalizer \/ PersistNamespace \/ PersistPolicies \/ PersistStatus
    BY <1>1 DEF LoadTenant, LoadDepsFails, AddFinalizer, DeleteStale, DeleteNamespace,
                RemoveFinalizer, PersistNamespace, PersistPolicies, PersistStatus
  <1>2. CASE \/ ApplyClaim \/ ApplyVolume \/ ApplyReadOnlyClaim \/ ApplyJob \/ Panic
             \/ PersistToolStatus \/ Rejected \/ Fail \/ OperatorRestart \/ TenantEvent
    BY <1>2 DEF ApplyClaim, ApplyVolume, ApplyReadOnlyClaim, ApplyJob, Panic,
                PersistToolStatus, Rejected, Fail, OperatorRestart, TenantEvent
  <1>3. CASE LoadDeps
    BY <1>3 DEF LoadDeps
  <1>4. ASSUME NEW m \in Namespace,
               \/ NamespaceEvent(m) \/ JobEvent(m) \/ NamespaceStep(m)
               \/ BindClaim(m) \/ VolumeEvent(m) \/ BindReadOnlyClaim(m) \/ JobEnds(m) \/ TakeOver(m)
        PROVE  forgotten' = forgotten
    BY <1>4 DEF NamespaceEvent, JobEvent, NamespaceStep, NamespaceEmptied, NamespaceGone,
                BindClaim, VolumeEvent, BindReadOnlyClaim, JobEnds, TakeOver
  <1>5. CASE \/ \E m \in Namespace \cup {Own} : ChangeTemplate(m)
             \/ \E new \in Secrets : ChangeSecret(new)
             \/ DeleteTenant \/ UNCHANGED vars
    BY <1>5 DEF ChangeTemplate, ChangeSecret, DeleteTenant, vars
  <1> QED BY <1>1, <1>2, <1>3, <1>4, <1>5 DEF Next, ReconcileStep

\* The steps that lead to the phases after the deletion of a stale namespace.
LEMMA WorkingSteps ==
    ASSUME TypeOK, [Next]_vars, rec'.pc \in Working
    PROVE  \/ rec'.tenant = rec.tenant /\ rec.pc \in Working
           \/ DeleteStale
           \/ PersistStatus /\ rec'.tenant = tenant' /\ rec'.pc = "claim"
  <1> USE DEF spaceVars, toolVars, caches, history
  <1>0. rec \in RecType
    BY DEF TypeOK
  <1>1. ASSUME NEW again, Return(again) PROVE FALSE
    BY <1>1 DEF Return, NoReconcile, Working
  <1>2. ASSUME NEW pc, Goto(pc) PROVE rec'.pc = pc /\ rec'.tenant = rec.tenant
    BY <1>0, <1>2 DEF Goto, RecType
  <1>3. LoadTenant => rec' = rec
    <2>1. rec' = [rec EXCEPT !.pc = "load", !.tenant = tenantCache] => rec'.pc = "load"
      BY <1>0 DEF RecType
    <2>2. rec'.pc # "load"
      BY DEF Working
    <2> QED BY <2>1, <2>2 DEF LoadTenant
  <1>4. ~ LoadDepsFails /\ ~ RemoveFinalizer /\ ~ Panic /\ ~ PersistToolStatus /\ ~ Rejected
        /\ ~ OperatorRestart
    BY <1>1 DEF LoadDepsFails, RemoveFinalizer, Panic, PersistToolStatus, Rejected, OperatorRestart
  <1>5. ~ LoadDeps /\ ~ AddFinalizer /\ ~ DeleteNamespace
    <2>1. rec'.pc \notin {"stale", "addFinalizer", "removeFinalizer"}
      BY DEF Working
    <2>2. LoadDeps => rec'.pc \in {"stale", "addFinalizer"}
      BY <1>0 DEF LoadDeps, RecType
    <2>3. AddFinalizer => rec'.pc = "stale"
      BY <1>0 DEF AddFinalizer, RecType
    <2> QED BY <1>2, <2>1, <2>2, <2>3 DEF DeleteNamespace
  <1>6. PersistNamespace \/ PersistPolicies => rec'.tenant = rec.tenant /\ rec.pc \in Working
    BY <1>0, <1>2 DEF PersistNamespace, PersistPolicies, RecType, Working
  <1>7. PersistStatus => rec'.tenant = tenant' /\ rec'.pc = "claim"
    BY <1>0, <1>1 DEF PersistStatus, RecType
  <1>8. Fail => rec'.tenant = rec.tenant /\ rec.pc \in Working
    BY <1>0, <1>1 DEF Fail, RecType, Working
  <1>9. ApplyClaim \/ ApplyVolume \/ ApplyReadOnlyClaim => rec'.tenant = rec.tenant /\ rec.pc \in Working
    BY <1>1, <1>2 DEF ApplyClaim, ApplyVolume, ApplyReadOnlyClaim, Working
  <1>10. ApplyJob => rec'.tenant = rec.tenant /\ rec.pc \in Working
    BY <1>0, <1>1 DEF ApplyJob, RecType, Working
  <1>11. ASSUME NEW m \in Namespace,
               \/ NamespaceEvent(m) \/ JobEvent(m) \/ NamespaceStep(m)
               \/ BindClaim(m) \/ VolumeEvent(m) \/ BindReadOnlyClaim(m) \/ JobEnds(m) \/ TakeOver(m)
        PROVE  rec' = rec
    BY <1>11 DEF NamespaceEvent, JobEvent, NamespaceStep, NamespaceEmptied, NamespaceGone,
                BindClaim, VolumeEvent, BindReadOnlyClaim, JobEnds, TakeOver
  <1>12. ASSUME \/ \E m \in Namespace \cup {Own} : ChangeTemplate(m)
                \/ \E new \in Secrets : ChangeSecret(new)
                \/ DeleteTenant \/ TenantEvent \/ UNCHANGED vars
         PROVE  rec' = rec
    BY <1>12 DEF ChangeTemplate, ChangeSecret, DeleteTenant, TenantEvent, vars
  <1> QED BY <1>3, <1>4, <1>5, <1>6, <1>7, <1>8, <1>9, <1>10, <1>11, <1>12 DEF Next, ReconcileStep

\* A status that is stored names the namespace of the template.
LEMMA StatusFields ==
    ASSUME TypeOK, TenantInv, PersistStatus \/ PersistToolStatus
    PROVE  /\ tenant \in TenantObject /\ rec.tenant = tenant
           /\ tenant' \in TenantObject
           /\ tenant'.template = tenant.template /\ tenant'.observed = tenant.template
           /\ tenant'.finalizer = tenant.finalizer /\ tenant'.deleting = tenant.deleting
           /\ tenant'.generation = tenant.generation /\ tenant'.tools = tenant.tools
  <1>1. tenant \in TenantObject /\ rec.tenant = tenant
    <2>1. rec.tenant # Absent /\ tenant # Absent
      BY DEF TypeOK, Current, PersistStatus, PersistToolStatus
    <2> QED BY <2>1, CurrentCopy DEF TypeOK, PersistStatus, PersistToolStatus
  <1>2. PICK complete \in BOOLEAN : tenant' = Put(ConfigureTenant(tenant, complete))
    BY <1>1 DEF PersistStatus, PersistToolStatus, TypeOK, RecType
  <1> QED BY <1>1, <1>2, ConfigureTenantFields, PutFields, PutType

\* The invariant of the namespaces that a reconciliation must not lose is inductive.
THEOREM LossesCorrect == Spec => []LossInv
  <1>1. Init => LossInv
    BY DEF Init, NoReconcile, LossInv, Working
  <1>2. TypeOK /\ TenantInv /\ LossInv /\ [Next]_vars => LossInv'
    <2> SUFFICES ASSUME TypeOK, TenantInv, LossInv, [Next]_vars PROVE LossInv' OBVIOUS
    <2>0. rec \in RecType /\ (rec.pc # "idle" => rec.tenant \in TenantObject)
          /\ forgotten \subseteq forgotten'
      BY ForgottenGrows DEF TypeOK, RecType
    <2>1. ASSUME NEW t \in TenantObject, HasStale(t) PROVE t.observed \in Namespace
      BY <2>1 DEF HasStale, TenantObject
    <2>2. ASSUME NEW t \in TenantObject, Managed(t) PROVE t.template \in Namespace
      BY <2>2 DEF Managed, TenantObject
    <2>3. ASSUME NEW n \in Namespace, Lost(n, space, forgotten),
                 n # rec.tenant.template \/ rec.pc # "persist" \/ rec'.pc # "policies"
          PROVE  Lost(n, space', forgotten')
      BY <2>0, <2>3, KeptSteps DEF Lost, PersistNamespace
    <2>4. CASE LoadDeps
      <3>1. /\ rec'.tenant = rec.tenant /\ rec'.pc \in {"stale", "addFinalizer"}
            /\ rec'.pc = "stale" \/ ~ rec.tenant.deleting
        BY <2>0, <2>4 DEF LoadDeps, RecType
      <3>2. HasStale(rec.tenant) /\ Unseen(rec'.stale) => rec.tenant.observed \in forgotten'
        <4> SUFFICES ASSUME HasStale(rec.tenant), Unseen(rec'.stale)
                     PROVE  rec.tenant.observed \in forgotten'
          OBVIOUS
        <4>1. rec.tenant.observed \in Namespace
          BY <2>0, <2>1, <2>4 DEF LoadDeps
        <4>2. rec'.stale = spaceCache[rec.tenant.observed]
          BY <2>0, <2>4, <4>1 DEF LoadDeps, RecType
        <4> QED BY <2>4, <4>1, <4>2 DEF LoadDeps, Unseen
      <3>3. rec.tenant.deleting /\ Managed(rec.tenant) /\ Unseen(rec'.space)
               => rec.tenant.template \in forgotten'
        <4> SUFFICES ASSUME rec.tenant.deleting, Managed(rec.tenant), Unseen(rec'.space)
                     PROVE  rec.tenant.template \in forgotten'
          OBVIOUS
        <4>1. rec.tenant.template \in Namespace
          BY <2>0, <2>2, <2>4 DEF LoadDeps
        <4>2. rec'.space = spaceCache[rec.tenant.template]
          BY <2>0, <2>4, <4>1 DEF LoadDeps, RecType
        <4> QED BY <2>4, <4>1, <4>2 DEF LoadDeps, Unseen
      <3> QED BY <3>1, <3>2, <3>3 DEF LossInv, Working, HasStale, Managed
    <2>5. CASE AddFinalizer
      <3>1. /\ rec.pc = "addFinalizer" /\ rec'.pc = "stale" /\ rec'.stale = rec.stale
            /\ rec'.tenant.observed = rec.tenant.observed
            /\ rec'.tenant.template = rec.tenant.template
            /\ ~ rec'.tenant.deleting
        BY <2>5, AddFinalizerKeeps DEF AddFinalizer
      <3> QED BY <2>0, <3>1 DEF LossInv, Working, HasStale
    <2>6. CASE DeleteStale
      <3>1. /\ rec.pc = "stale" /\ rec'.tenant = rec.tenant /\ rec'.space = rec.space
            /\ rec'.pc = IF rec.tenant.deleting THEN "delete" ELSE "persist"
            /\ rec.tenant \in TenantObject
        BY <2>0, <2>6 DEF DeleteStale, Goto, RecType
      <3>2. HasStale(rec.tenant) => Lost(rec.tenant.observed, space', forgotten')
        <4> SUFFICES ASSUME HasStale(rec.tenant)
                     PROVE  Lost(rec.tenant.observed, space', forgotten')
          OBVIOUS
        <4>1. rec.tenant.observed \in Namespace
          BY <2>1, <3>1
        <4>2. CASE Unseen(rec.stale)
          BY <2>0, <3>1, <4>2 DEF LossInv, Lost
        <4>3. CASE ~ Unseen(rec.stale)
          <5>1. Delete(rec.tenant.observed)
            BY <2>6, <4>3 DEF DeleteStale, Unseen
          <5> QED BY <4>1, <5>1 DEF Delete, Lost, Kept, TypeOK, NamespaceObject
        <4> QED BY <4>2, <4>3
      <3>3. rec.tenant.deleting /\ Managed(rec.tenant) /\ Unseen(rec.space)
               => rec.tenant.template \in forgotten'
        BY <2>0, <3>1 DEF LossInv
      <3> QED BY <3>1, <3>2, <3>3 DEF LossInv, HasStale, Managed
    <2>7. CASE DeleteNamespace
      <3>1. /\ rec.pc = "delete" /\ rec'.pc = "removeFinalizer" /\ rec'.tenant = rec.tenant
            /\ rec.tenant \in TenantObject /\ rec.tenant.deleting
        BY <2>0, <2>7 DEF DeleteNamespace, Goto, RecType, TenantInv, Phases
      <3>2. HasStale(rec.tenant) => Lost(rec.tenant.observed, space', forgotten')
        BY <2>1, <2>3, <3>1 DEF LossInv
      <3>3. Managed(rec.tenant) => Lost(rec.tenant.template, space', forgotten')
        <4> SUFFICES ASSUME Managed(rec.tenant)
                     PROVE  Lost(rec.tenant.template, space', forgotten')
          OBVIOUS
        <4>1. rec.tenant.template \in Namespace
          BY <2>2, <3>1
        <4>2. CASE Unseen(rec.space)
          BY <2>0, <3>1, <4>2 DEF LossInv, Lost
        <4>3. CASE ~ Unseen(rec.space)
          <5>1. Delete(rec.tenant.template)
            BY <2>7, <4>3 DEF DeleteNamespace, Unseen
          <5> QED BY <4>1, <5>1 DEF Delete, Lost, Kept, TypeOK, NamespaceObject
        <4> QED BY <4>2, <4>3
      <3> QED BY <3>1, <3>2, <3>3 DEF LossInv, Working, HasStale, Managed
    <2>8. CASE rec' = rec
      <3>1. rec.pc \in {"delete", "removeFinalizer"} \cup Working /\ HasStale(rec.tenant)
               => Lost(rec.tenant.observed, space', forgotten')
        BY <2>0, <2>1, <2>3, <2>8 DEF LossInv, Working, HasStale
      <3>2. rec.pc = "removeFinalizer" /\ Managed(rec.tenant)
               => Lost(rec.tenant.template, space', forgotten')
        BY <2>0, <2>2, <2>3, <2>8 DEF LossInv
      <3> QED BY <2>0, <2>8, <3>1, <3>2 DEF LossInv, HasStale, Managed
    <2>9. CASE rec'.pc \in Working /\ ~ DeleteStale
      <3>1. CASE rec'.tenant = rec.tenant /\ rec.pc \in Working
        <4>1. HasStale(rec.tenant) => Lost(rec.tenant.observed, space', forgotten')
          BY <2>0, <2>1, <2>3, <3>1 DEF LossInv, Working, HasStale
        <4> QED BY <2>9, <3>1, <4>1 DEF LossInv, Working, HasStale
      <3>2. CASE PersistStatus /\ rec'.tenant = tenant'
        BY <2>9, <3>2, StatusFields DEF LossInv, Working, HasStale
      <3> QED BY <2>9, <3>1, <3>2, WorkingSteps
    <2>10. CASE rec'.pc \notin {"addFinalizer", "stale", "delete", "removeFinalizer"} \cup Working
      BY <2>10 DEF LossInv
    <2> QED BY <2>4, <2>5, <2>6, <2>7, <2>8, <2>9, <2>10, DeletingSteps
  <1> QED BY <1>1, <1>2, TypeCorrect, CopiesCorrect, PTL DEF Spec

\* All that can happen to the tenant.
LEMMA TenantSteps ==
    ASSUME [Next]_vars
    PROVE  \/ tenant' = tenant
           \/ AddFinalizer \/ RemoveFinalizer \/ PersistStatus \/ PersistToolStatus
           \/ DeleteTenant \/ \E n \in Namespace \cup {Own} : ChangeTemplate(n)
  <1> USE DEF spaceVars, toolVars, caches, history
  <1>1. CASE \/ LoadTenant \/ LoadDepsFails \/ LoadDeps \/ DeleteStale \/ DeleteNamespace
             \/ PersistNamespace \/ PersistPolicies
    BY <1>1 DEF LoadTenant, LoadDepsFails, LoadDeps, DeleteStale, DeleteNamespace,
                PersistNamespace, PersistPolicies
  <1>2. CASE \/ ApplyClaim \/ ApplyVolume \/ ApplyReadOnlyClaim \/ ApplyJob \/ Panic
             \/ Rejected \/ Fail \/ OperatorRestart \/ TenantEvent
    BY <1>2 DEF ApplyClaim, ApplyVolume, ApplyReadOnlyClaim, ApplyJob, Panic,
                Rejected, Fail, OperatorRestart, TenantEvent
  <1>3. ASSUME NEW m \in Namespace,
               \/ NamespaceEvent(m) \/ JobEvent(m) \/ NamespaceStep(m)
               \/ BindClaim(m) \/ VolumeEvent(m) \/ BindReadOnlyClaim(m) \/ JobEnds(m) \/ TakeOver(m)
        PROVE  tenant' = tenant
    BY <1>3 DEF NamespaceEvent, JobEvent, NamespaceStep, NamespaceEmptied, NamespaceGone,
                BindClaim, VolumeEvent, BindReadOnlyClaim, JobEnds, TakeOver
  <1>4. CASE (\E new \in Secrets : ChangeSecret(new)) \/ UNCHANGED vars
    BY <1>4 DEF ChangeSecret, vars
  <1> QED BY <1>1, <1>2, <1>3, <1>4 DEF Next, ReconcileStep

\* Every namespace of the tenant is found again or was lost in one of the two
\* known ways: the finalizer comes before the namespace (AddFinalizer,
\* PersistNamespace), the status gives a name up only after its namespace was
\* deleted (DeleteStale, PersistStatus), and the finalizer goes last.
THEOREM Tracking == Spec => []NamespacesTracked
  <1>1. Init => NamespacesTracked
    BY DEF Init, Foreign, NamespacesTracked, Held
  <1>2. TypeOK /\ TenantInv /\ LossInv /\ NamespacesTracked /\ [Next]_vars => NamespacesTracked'
    <2> SUFFICES ASSUME TypeOK, TenantInv, LossInv, NamespacesTracked, [Next]_vars,
                        NEW n \in Namespace, Kept(n, space')
                 PROVE  Tracked(n)' \/ n \in forgotten'
      BY DEF NamespacesTracked, Held, Kept
    <2>0. n \notin {Own, None} /\ forgotten \subseteq forgotten'
      BY NameAssumption, ForgottenGrows
    <2>1. Tracked(n) \/ n \in forgotten
      <3>1. CASE Kept(n, space)
        BY <3>1 DEF NamespacesTracked, Held, Kept
      <3>2. CASE PersistNamespace /\ n = rec.tenant.template
        <4>1. rec.tenant # Absent /\ rec.tenant.finalizer /\ ~ rec.tenant.deleting
          BY <3>2 DEF PersistNamespace, TypeOK, TenantInv, Phases, Working
        <4>2. /\ tenant # Absent /\ tenant.finalizer
              /\ rec.tenant.template \in {tenant.template, tenant.observed} \cup forgotten
          BY <4>1 DEF TenantInv, Honest
        <4> QED BY <3>2, <4>2 DEF Tracked
      <3> QED BY <3>1, <3>2, KeptSteps
    <2> SUFFICES ASSUME Tracked(n) PROVE Tracked(n)' \/ n \in forgotten'
      BY <2>0, <2>1
    <2>2. /\ tenant # Absent /\ tenant \in TenantObject /\ tenant.finalizer
          /\ n \in {tenant.template, tenant.observed}
      BY DEF Tracked, TypeOK
    <2>3. CASE tenant' = tenant
      BY <2>2, <2>3 DEF Tracked
    <2>4. CASE AddFinalizer
      BY <2>2, <2>4, AddFinalizerKeeps, AbsentAssumption DEF Tracked
    <2>5. ASSUME rec.tenant = tenant, Lost(rec.tenant.observed, space', forgotten')
                    \/ ~ HasStale(rec.tenant)
          PROVE  n = tenant.template \/ n \in forgotten'
      BY <2>0, <2>2, <2>5 DEF Lost, HasStale
    <2>6. CASE RemoveFinalizer
      <3>1. rec.pc = "removeFinalizer" /\ rec.tenant = tenant /\ space' = space
            /\ forgotten' = forgotten
        <4>1. rec.tenant # Absent
          BY <2>6 DEF RemoveFinalizer, TypeOK
        <4> QED BY <2>6, <4>1, CurrentCopy DEF RemoveFinalizer, spaceVars, history
      <3>2. Lost(rec.tenant.observed, space', forgotten') \/ ~ HasStale(rec.tenant)
        BY <3>1 DEF LossInv
      <3>3. n = tenant.template => Lost(n, space', forgotten')
        BY <2>0, <3>1 DEF LossInv, Managed
      <3> QED BY <2>5, <3>1, <3>2, <3>3 DEF Lost
    <2>7. CASE PersistStatus \/ PersistToolStatus
      <3>1. rec.pc \in Working /\ space' = space /\ forgotten' = forgotten
        BY <2>7 DEF PersistStatus, PersistToolStatus, Working, spaceVars, history
      <3>2. /\ rec.tenant = tenant /\ tenant' \in TenantObject
            /\ tenant'.template = tenant.template /\ tenant'.finalizer = tenant.finalizer
        BY <2>7, StatusFields
      <3>3. Lost(rec.tenant.observed, space', forgotten') \/ ~ HasStale(rec.tenant)
        BY <3>1 DEF LossInv
      <3> QED BY <2>2, <2>5, <3>2, <3>3, AbsentAssumption DEF Tracked
    <2>8. CASE DeleteTenant
      <3>1. tenant' = [tenant EXCEPT !.deleting = TRUE, !.generation = @ + 1, !.rv = @ + 1]
        BY <2>2, <2>8 DEF DeleteTenant
      <3>2. /\ tenant'.finalizer /\ tenant'.template = tenant.template
            /\ tenant'.observed = tenant.observed
        BY <2>2, <3>1 DEF TenantObject
      <3>3. tenant' # Absent
        <4>1. tenant.generation + 1 \in Nat /\ tenant.rv + 1 \in Nat
          BY <2>2 DEF TenantObject
        <4>2. tenant' \in TenantObject
          BY <2>2, <3>1, <4>1 DEF TenantObject
        <4> QED BY <4>2, AbsentAssumption
      <3> QED BY <2>2, <3>2, <3>3 DEF Tracked
    <2>9. ASSUME NEW m \in Namespace \cup {Own}, ChangeTemplate(m)
          PROVE  Tracked(n)' \/ n \in forgotten'
      <3>1. tenant' = [tenant EXCEPT !.template = m, !.generation = @ + 1, !.rv = @ + 1]
        BY <2>9 DEF ChangeTemplate
      <3>2. tenant'.finalizer /\ tenant'.observed = tenant.observed
        BY <2>2, <3>1 DEF TenantObject
      <3>3. tenant' # Absent
        <4>1. tenant.generation + 1 \in Nat /\ tenant.rv + 1 \in Nat
          BY <2>2 DEF TenantObject
        <4>2. tenant' \in TenantObject
          BY <2>2, <3>1, <4>1 DEF TenantObject
        <4> QED BY <4>2, AbsentAssumption
      <3>4. n = tenant.observed \/ n \in forgotten'
        BY <2>2, <2>9 DEF ChangeTemplate
      <3> QED BY <3>2, <3>3, <3>4 DEF Tracked
    <2> QED BY <2>3, <2>4, <2>6, <2>7, <2>8, <2>9, TenantSteps
  <1> QED BY <1>1, <1>2, TypeCorrect, CopiesCorrect, LossesCorrect, PTL DEF Spec

-----------------------------------------------------------------------------
(***************************************************************************)
(* The tools.  A tenant that says it is ready for a namespace without them *)
(* is about to be reconciled.                                              *)
(***************************************************************************)
WithoutTools(n, spaces, jobs) == n \in Namespace /\ Kept(n, spaces) /\ jobs[n] # "complete"

\* What a reconciliation saw of the job is still true, and a tenant that is
\* wrongly ready will be looked at again.
ToolInv ==
    /\ rec.pc = "tools" /\ rec.complete => ~ WithoutTools(rec.tenant.template, space, job)
    /\ tenant # Absent /\ tenant.ready /\ tenant.tools
                       /\ WithoutTools(tenant.template, space, job)
          => rec.pc # "idle" \/ queued \/ tenantCache.generation # tenant.generation

\* Tools that are not there are no part of a tenant that is ready.
LEMMA ReadyComplete ==
    ASSUME NEW t \in TenantObject, NEW complete \in BOOLEAN,
           ConfigureTenant(t, complete).ready, t.tools
    PROVE  complete
  <1> DEFINE conds == {NamespaceReady(rec.error), EventSinkReady(t, rec.token),
                       ToolInjectionReady(t, complete)}
             r == AggregateStatusConditions(conds) = "True"
  <1>1. r \in BOOLEAN
    OBVIOUS
  <1>2. ConfigureTenant(t, complete) = [t EXCEPT !.observed = t.template, !.ready = r]
    BY DEF ConfigureTenant
  <1>3. r
    <2> HIDE DEF r
    <2> QED BY <1>1, <1>2 DEF TenantObject
  <1>4. "Unknown" \notin conds
    <2> HIDE DEF conds
    <2> QED BY <1>3 DEF AggregateStatusConditions
  <1> QED BY <1>4 DEF ToolInjectionReady

\* A namespace comes to be without tools only when it becomes the tenant's own:
\* the job that has copied them goes only with the namespace.
LEMMA WithoutSteps ==
    ASSUME TypeOK, [Next]_vars
    PROVE  \A n : WithoutTools(n, space', job') =>
              WithoutTools(n, space, job) \/ (PersistNamespace /\ rec'.pc = "policies")
  <1> USE DEF spaceVars, toolVars, caches, history
  <1> SUFFICES ASSUME NEW n \in Namespace, Kept(n, space'), job'[n] # "complete", job[n] = "complete",
                      Kept(n, space)
               PROVE  FALSE
    BY KeptSteps DEF WithoutTools
  <1>1. job' # job
    OBVIOUS
  <1>2. ~ ApplyJob
    <2>1. ApplyJob => job' \in {job, AppliedJob(rec.tenant.template)}
      BY DEF ApplyJob
    <2>2. AppliedJob(rec.tenant.template)[n] = "complete"
      BY DEF AppliedJob, TypeOK
    <2> QED BY <2>1, <2>2
  <1>3. ASSUME NEW m \in Namespace PROVE ~ JobEnds(m)
    BY DEF JobEnds, TypeOK
  <1>4. ASSUME NEW m \in Namespace PROVE ~ NamespaceEmptied(m)
    BY DEF NamespaceEmptied, TypeOK, Kept
  <1>5. ASSUME NEW m \in Namespace
        PROVE  /\ ~ NamespaceGone(m) /\ ~ BindClaim(m) /\ ~ VolumeEvent(m)
               /\ ~ BindReadOnlyClaim(m) /\ ~ TakeOver(m)
               /\ ~ NamespaceEvent(m) /\ ~ JobEvent(m)
    BY <1>1 DEF NamespaceGone, BindClaim, VolumeEvent, BindReadOnlyClaim, NamespaceEvent, JobEvent,
                   TakeOver
  <1>6. /\ ~ LoadTenant /\ ~ LoadDepsFails /\ ~ LoadDeps /\ ~ AddFinalizer /\ ~ DeleteStale
        /\ ~ DeleteNamespace /\ ~ RemoveFinalizer /\ ~ PersistNamespace /\ ~ PersistPolicies
    BY <1>1 DEF LoadTenant, LoadDepsFails, LoadDeps, AddFinalizer, DeleteStale, DeleteNamespace,
                RemoveFinalizer, PersistNamespace, PersistPolicies
  <1>7. /\ ~ PersistStatus /\ ~ ApplyClaim /\ ~ ApplyVolume /\ ~ ApplyReadOnlyClaim /\ ~ Panic
        /\ ~ PersistToolStatus /\ ~ Rejected /\ ~ Fail /\ ~ OperatorRestart /\ ~ TenantEvent
    BY <1>1 DEF PersistStatus, ApplyClaim, ApplyVolume, ApplyReadOnlyClaim, Panic,
                PersistToolStatus, Rejected, Fail, OperatorRestart, TenantEvent
  <1>8. /\ ~ \E m \in Namespace \cup {Own} : ChangeTemplate(m)
        /\ ~ \E new \in Secrets : ChangeSecret(new)
        /\ ~ DeleteTenant /\ ~ UNCHANGED vars
    BY <1>1 DEF ChangeTemplate, ChangeSecret, DeleteTenant, vars
  <1> QED BY <1>2, <1>3, <1>4, <1>5, <1>6, <1>7, <1>8 DEF Next, ReconcileStep, NamespaceStep

\* A reconciliation that ends without the tenant being queued is one of a tenant
\* that is gone or has a new status.
LEMMA IdleSteps ==
    ASSUME TypeOK, [Next]_vars, rec'.pc = "idle"
    PROVE  \/ queued'
           \/ RemoveFinalizer \/ PersistToolStatus
           \/ PersistStatus /\ ~ rec.tenant.tools
           \/ LoadTenant /\ tenantCache = Absent
           \/ TenantEvent /\ rec' = rec
           \/ rec' = rec /\ queued' = queued /\ tenantCache' = tenantCache
  <1> USE DEF spaceVars, toolVars, caches, history
  <1>0. rec \in RecType
    BY DEF TypeOK
  <1>1. ASSUME Return(TRUE) PROVE queued'
    BY <1>1 DEF Return
  <1>2. ASSUME NEW pc, Goto(pc) PROVE rec'.pc = pc
    BY <1>0, <1>2 DEF Goto, RecType
  <1>3. LoadTenant => tenantCache = Absent
    BY <1>0 DEF LoadTenant, RecType
  <1>4. LoadDepsFails \/ Panic \/ Rejected \/ OperatorRestart => queued'
    BY <1>1 DEF LoadDepsFails, Panic, Rejected, OperatorRestart
  <1>5. ~ LoadDeps /\ ~ AddFinalizer
    BY <1>0 DEF LoadDeps, AddFinalizer, RecType
  <1>6. ~ DeleteStale /\ ~ DeleteNamespace
    BY <1>2 DEF DeleteStale, DeleteNamespace
  <1>7. ~ PersistNamespace /\ ~ PersistPolicies
    BY <1>0, <1>2 DEF PersistNamespace, PersistPolicies, RecType
  <1>8. PersistStatus => ~ rec.tenant.tools
    <2>1. ASSUME NEW t, rec' = [rec EXCEPT !.pc = "claim", !.tenant = t] PROVE FALSE
      BY <1>0, <2>1 DEF RecType
    <2> QED BY <2>1 DEF PersistStatus
  <1>9. ApplyClaim \/ ApplyVolume \/ ApplyReadOnlyClaim => queued'
    BY <1>1, <1>2 DEF ApplyClaim, ApplyVolume, ApplyReadOnlyClaim
  <1>10. ApplyJob \/ Fail => queued'
    <2>1. ASSUME NEW c, rec' = [rec EXCEPT !.pc = "tools", !.complete = c] PROVE FALSE
      BY <1>0, <2>1 DEF RecType
    <2>2. ApplyJob => queued'
      BY <1>1, <2>1 DEF ApplyJob
    <2>3. Fail => queued'
      BY <1>0, <1>1 DEF Fail, RecType
    <2> QED BY <2>2, <2>3
  <1>11. TenantEvent => rec' = rec
    BY DEF TenantEvent
  <1>12. ASSUME NEW m \in Namespace,
               \/ NamespaceEvent(m) \/ JobEvent(m) \/ NamespaceStep(m)
               \/ BindClaim(m) \/ VolumeEvent(m) \/ BindReadOnlyClaim(m) \/ JobEnds(m) \/ TakeOver(m)
        PROVE  rec' = rec /\ queued' = queued /\ tenantCache' = tenantCache
    BY <1>12 DEF NamespaceEvent, JobEvent, NamespaceStep, NamespaceEmptied, NamespaceGone,
                BindClaim, VolumeEvent, BindReadOnlyClaim, JobEnds, TakeOver
  <1>13. ASSUME \/ \E m \in Namespace \cup {Own} : ChangeTemplate(m)
                \/ \E new \in Secrets : ChangeSecret(new)
                \/ DeleteTenant \/ UNCHANGED vars
         PROVE  rec' = rec /\ queued' = queued /\ tenantCache' = tenantCache
    BY <1>13 DEF ChangeTemplate, ChangeSecret, DeleteTenant, vars
  <1> QED BY <1>3, <1>4, <1>5, <1>6, <1>7, <1>8, <1>9, <1>10, <1>11, <1>12, <1>13
          DEF Next, ReconcileStep

\* The invariant of the tools is inductive.
THEOREM ToolsCorrect == Spec => []ToolInv
  <1>1. Init => ToolInv
    BY DEF Init, NoReconcile, ToolInv
  <1>2. TypeOK /\ TenantInv /\ ToolInv /\ [Next]_vars => ToolInv'
    <2> SUFFICES ASSUME TypeOK, TenantInv, ToolInv, [Next]_vars PROVE ToolInv' OBVIOUS
    <2> USE DEF spaceVars, toolVars, caches, history
    <2>0. rec \in RecType /\ (rec.pc # "idle" => rec.tenant \in TenantObject)
      BY DEF TypeOK, RecType
    <2>1. ASSUME rec'.pc = "tools", rec'.complete
          PROVE  ~ WithoutTools(rec'.tenant.template, space', job')
      <3>1. CASE rec' = rec
        BY <2>1, <3>1, WithoutSteps DEF ToolInv
      <3>2. CASE ApplyJob
        <4>1. rec.pc = "job" /\ ~ Return(TRUE)
          BY <2>1, <3>2 DEF ApplyJob, Return, NoReconcile
        <4>2. rec' = [rec EXCEPT !.pc = "tools", !.complete = job[rec.tenant.template] = "complete"]
          BY <3>2, <4>1 DEF ApplyJob
        <4>3. (job[rec.tenant.template] = "complete") \in BOOLEAN
          OBVIOUS
        <4>4. rec'.tenant = rec.tenant /\ job[rec.tenant.template] = "complete"
          BY <2>0, <2>1, <4>2, <4>3 DEF RecType
        <4>5. rec'.pc # "policies"
          BY <2>1
        <4> QED BY <4>4, <4>5, WithoutSteps DEF WithoutTools
      <3>3. ASSUME NEW again, Return(again) PROVE FALSE
        BY <2>1, <3>3 DEF Return, NoReconcile
      <3>4. ASSUME NEW pc, Goto(pc) PROVE pc = "tools"
        BY <2>0, <2>1, <3>4 DEF Goto, RecType
      <3>5. /\ ~ LoadDepsFails /\ ~ RemoveFinalizer /\ ~ Panic /\ ~ PersistToolStatus
            /\ ~ Rejected /\ ~ OperatorRestart
        BY <3>3 DEF LoadDepsFails, RemoveFinalizer, Panic, PersistToolStatus, Rejected, OperatorRestart
      <3>6. ~ DeleteStale /\ ~ DeleteNamespace /\ ~ ApplyClaim /\ ~ ApplyVolume /\ ~ ApplyReadOnlyClaim
        BY <3>3, <3>4 DEF DeleteStale, DeleteNamespace, ApplyClaim, ApplyVolume, ApplyReadOnlyClaim
      <3>7. ~ LoadDeps /\ ~ AddFinalizer /\ ~ PersistPolicies /\ (LoadTenant => rec' = rec)
        <4>1. LoadTenant => rec' = rec
          BY <2>0, <2>1 DEF LoadTenant, RecType
        <4>2. ~ LoadDeps /\ ~ AddFinalizer
          <5>1. rec'.pc \notin {"stale", "addFinalizer"}
            BY <2>1
          <5>2. LoadDeps => rec'.pc \in {"stale", "addFinalizer"}
            BY <2>0 DEF LoadDeps, RecType
          <5>3. AddFinalizer => rec'.pc = "stale"
            BY <2>0 DEF AddFinalizer, RecType
          <5> QED BY <5>1, <5>2, <5>3
        <4>3. ~ PersistPolicies
          BY <2>0, <2>1 DEF PersistPolicies, RecType
        <4> QED BY <4>1, <4>2, <4>3
      <3>8. ~ PersistNamespace /\ ~ PersistStatus /\ ~ Fail
        <4>1. rec' = [rec EXCEPT !.pc = "status", !.error = TRUE] => rec'.pc = "status"
          BY <2>0 DEF RecType
        <4>2. ~ PersistNamespace /\ ~ Fail
          BY <2>1, <3>3, <3>4, <4>1 DEF PersistNamespace, Fail
        <4>3. ~ PersistStatus
          <5>1. ASSUME NEW t, rec' = [rec EXCEPT !.pc = "claim", !.tenant = t] PROVE FALSE
            BY <2>0, <2>1, <5>1 DEF RecType
          <5> QED BY <3>3, <5>1 DEF PersistStatus
        <4> QED BY <4>2, <4>3
      <3>9. ASSUME NEW m \in Namespace,
                   \/ NamespaceEvent(m) \/ JobEvent(m) \/ NamespaceStep(m)
                   \/ BindClaim(m) \/ VolumeEvent(m) \/ BindReadOnlyClaim(m) \/ JobEnds(m) \/ TakeOver(m)
            PROVE  rec' = rec
        BY <3>9 DEF NamespaceEvent, JobEvent, NamespaceStep, NamespaceEmptied, NamespaceGone,
                    BindClaim, VolumeEvent, BindReadOnlyClaim, JobEnds, TakeOver
      <3>10. ASSUME \/ \E m \in Namespace \cup {Own} : ChangeTemplate(m)
                    \/ \E new \in Secrets : ChangeSecret(new)
                    \/ DeleteTenant \/ TenantEvent \/ UNCHANGED vars
             PROVE  rec' = rec
        BY <3>10 DEF ChangeTemplate, ChangeSecret, DeleteTenant, TenantEvent, vars
      <3> QED BY <3>1, <3>2, <3>5, <3>6, <3>7, <3>8, <3>9, <3>10 DEF Next, ReconcileStep
    <2>2. ASSUME tenant' # Absent, tenant'.ready, tenant'.tools,
                 WithoutTools(tenant'.template, space', job'), rec'.pc = "idle", ~ queued'
          PROVE  tenantCache'.generation # tenant'.generation
      <3>1. WithoutTools(tenant'.template, space, job)
        BY <2>2, WithoutSteps
      <3>2. ~ RemoveFinalizer
        BY <2>2 DEF RemoveFinalizer
      <3>3. ~ PersistToolStatus
        <4> SUFFICES ASSUME PersistToolStatus PROVE FALSE OBVIOUS
        <4>1. /\ tenant \in TenantObject /\ rec.tenant = tenant
              /\ tenant'.template = tenant.template /\ tenant'.tools = tenant.tools
          BY StatusFields
        <4>2. /\ tenant' = Put(ConfigureTenant(tenant, rec.complete)) /\ rec.complete \in BOOLEAN
              /\ rec.pc = "tools"
          BY <2>0, <4>1 DEF PersistToolStatus, RecType
        <4>3. ConfigureTenant(tenant, rec.complete).ready
          BY <2>2, <4>1, <4>2, PutFields, ConfigureTenantFields
        <4>4. rec.complete
          BY <2>2, <4>1, <4>2, <4>3, ReadyComplete
        <4> QED BY <3>1, <4>1, <4>2, <4>4 DEF ToolInv
      <3>4. ~ (PersistStatus /\ ~ rec.tenant.tools)
        BY <2>2, StatusFields
      <3>5. ~ (LoadTenant /\ tenantCache = Absent)
        BY <2>2 DEF LoadTenant, TenantInv
      <3>6. ~ TenantEvent
        BY <2>2, <3>1 DEF TenantEvent, ToolInv
      <3>7. rec' = rec /\ queued' = queued /\ tenantCache' = tenantCache
        BY <2>2, <3>2, <3>3, <3>4, <3>5, <3>6, IdleSteps
      <3>8. CASE tenant' = tenant
        BY <2>2, <3>1, <3>7, <3>8 DEF ToolInv
      <3>9. ASSUME tenant \in TenantObject, tenant'.generation = tenant.generation + 1
            PROVE  tenantCache.generation # tenant'.generation
        <4>1. tenantCache \in TenantObject /\ tenantCache.generation <= tenant.generation
          BY <3>9, AbsentAssumption DEF TypeOK, TenantInv, Honest
        <4> QED BY <3>9, <4>1 DEF TenantObject
      <3>10. CASE DeleteTenant
        <4>1. tenant \in TenantObject /\ tenant'.generation = tenant.generation + 1
          BY <2>2, <3>10 DEF DeleteTenant, TypeOK, TenantObject
        <4> QED BY <3>7, <3>9, <4>1
      <3>11. ASSUME NEW m \in Namespace \cup {Own}, ChangeTemplate(m)
             PROVE  tenantCache'.generation # tenant'.generation
        <4>1. tenant \in TenantObject /\ tenant'.generation = tenant.generation + 1
          BY <3>11 DEF ChangeTemplate, TypeOK, TenantObject
        <4> QED BY <3>7, <3>9, <4>1
      <3>12. ~ AddFinalizer /\ ~ PersistStatus
        BY <2>2, <3>7, <3>4 DEF AddFinalizer, PersistStatus
      <3> QED BY <3>2, <3>3, <3>8, <3>10, <3>11, <3>12, TenantSteps
    <2> QED BY <2>1, <2>2 DEF ToolInv
  <1> QED BY <1>1, <1>2, TypeCorrect, CopiesCorrect, PTL DEF Spec

\* When everything has settled, a tenant that is reported as ready has its tools
\* in the namespace that it has.
THEOREM ReadyTools == Spec => []ReadyMeansTools
  <1>1. TypeOK /\ ToolInv => ReadyMeansTools
    BY DEF TypeOK, TenantObject, ToolInv, ReadyMeansTools, Settled, Managed, Held, Kept, WithoutTools
  <1> QED BY <1>1, TypeCorrect, ToolsCorrect, PTL

-----------------------------------------------------------------------------
(***************************************************************************)
(* The tenant is not forgotten.                                            *)
(***************************************************************************)

\* The tenant is what it ought to be: ready for the namespace that its template
\* asks for, and not about to be deleted.
AsAsked(t) == t.ready /\ t.observed = t.template /\ ~ t.deleting

\* A tenant is as asked, or is being reconciled, or will be: its queue entry or
\* the event of its generation is there.  When the operator rests and has seen the
\* tenant, the tenant is as asked.  (What is to happen then does, in fair behaviours:
\* TenantBecomesReady, TenantDeleted.)
TenantRemembered ==
    tenant # Absent =>
        AsAsked(tenant) \/ rec.pc # "idle" \/ queued \/ tenantCache.generation # tenant.generation

\* Although only changes of the specification cause events, and namespaces,
\* claims, jobs and Secrets none, no order of errors, conflicts, panics and changes
\* leaves a tenant that is not ready or not deleted alone
\* (GenerationChangedPredicate, Requeue).
THEOREM TenantNotForgotten == Spec => []TenantRemembered
  <1>1. Init => TenantRemembered
    BY DEF Init, TenantRemembered
  <1>2. TypeOK /\ TenantInv /\ TenantRemembered /\ [Next]_vars => TenantRemembered'
    <2> SUFFICES ASSUME TypeOK, TenantInv, TenantRemembered, [Next]_vars,
                        tenant' # Absent, rec'.pc = "idle", ~ queued',
                        tenantCache'.generation = tenant'.generation
                 PROVE  AsAsked(tenant')
      BY DEF TenantRemembered
    <2>1. CASE PersistToolStatus \/ (PersistStatus /\ ~ rec.tenant.tools)
      <3>0. rec.pc \in Working
        BY <2>1 DEF PersistToolStatus, PersistStatus, Working
      <3>1. tenant'.observed = tenant'.template /\ ~ tenant'.deleting
        BY <2>1, <3>0, StatusFields DEF TenantInv, Phases
      <3>2. tenant'.ready
        BY <2>1 DEF PersistToolStatus, PersistStatus, Return
      <3> QED BY <3>1, <3>2 DEF AsAsked
    <2>2. ~ RemoveFinalizer
      BY DEF RemoveFinalizer
    <2>3. ~ (LoadTenant /\ tenantCache = Absent)
      BY DEF LoadTenant, TenantInv
    <2>4. CASE TenantEvent /\ rec' = rec
      BY <2>4 DEF TenantEvent, TenantRemembered
    <2>5. CASE rec' = rec /\ queued' = queued /\ tenantCache' = tenantCache
      <3>1. CASE tenant' = tenant
        BY <2>5, <3>1 DEF TenantRemembered
      <3>2. ASSUME tenant \in TenantObject, tenant'.generation = tenant.generation + 1
            PROVE  FALSE
        <4>1. tenantCache \in TenantObject /\ tenantCache.generation <= tenant.generation
          BY <3>2, AbsentAssumption DEF TypeOK, TenantInv, Honest
        <4> QED BY <2>5, <3>2, <4>1 DEF TenantObject
      <3>3. ~ DeleteTenant
        BY <3>2 DEF DeleteTenant, TypeOK, TenantObject
      <3>4. ~ \E m \in Namespace \cup {Own} : ChangeTemplate(m)
        BY <3>2 DEF ChangeTemplate, TypeOK, TenantObject
      <3>5. ~ AddFinalizer
        BY <2>5 DEF AddFinalizer
      <3>6. PersistStatus => rec.pc = "status"
        BY DEF PersistStatus
      <3>7. PersistToolStatus => rec.pc = "tools"
        BY DEF PersistToolStatus
      <3> QED BY <2>2, <2>5, <3>1, <3>3, <3>4, <3>5, <3>6, <3>7, TenantSteps
    <2> QED BY <2>1, <2>2, <2>3, <2>4, <2>5, IdleSteps
  <1> QED BY <1>1, <1>2, TypeCorrect, CopiesCorrect, PTL DEF Spec
=============================================================================
