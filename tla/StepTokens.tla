------------------------------ MODULE StepTokens ------------------------------
(***************************************************************************)
(* How the operator gives every step of a run its credentials.  It creates *)
(* a service account for the metadata API, waits for its token, puts that  *)
(* token into a signed token of the step, encrypts it for the namespace    *)
(* and leaves it as an annotation on the step's Task and Condition         *)
(* (pkg/obj, ApplyWorkflowRunDeps and ApplyPipeline).  The run and its     *)
(* namespace may be deleted and created again under the same names; the    *)
(* garbage collector removes what has no owner.                            *)
(*                                                                         *)
(* Everything is read from informer caches and written with the version    *)
(* that was read.  The caches of runs and namespaces are modelled as such. *)
(* An object that is out of date in its cache is refused when it is        *)
(* written, with no other effect than an error, which is one of the errors *)
(* that Fail stands for.                                                   *)
(*                                                                         *)
(* The objects that carry no credentials are left out here; the mutable    *)
(* ConfigMap has a module of its own.                                      *)
(***************************************************************************)
EXTENDS Integers, FiniteSets, Sequences

CONSTANTS
    StepList,       \* the steps of the workflow, in its order
    Conditional,    \* the steps that have a condition
    MaxRuns,        \* bound on creations of the run
    MaxNamespaces,  \* bound on creations of the namespace
    MaxFailures     \* bound on calls that fail for a reason of their own

Steps == {StepList[i] : i \in DOMAIN StepList}

ASSUME StepsAssumption ==
    /\ StepList \in Seq(Steps) /\ Conditional \subseteq Steps
    /\ \A i, j \in DOMAIN StepList : StepList[i] = StepList[j] => i = j
ASSUME BoundsAssumption ==
    /\ MaxRuns \in Nat /\ MaxNamespaces \in Nat /\ MaxFailures \in Nat

\* The Tasks and Conditions of the run, and the objects it needs besides.
Task(s)      == <<"task", s>>
Condition(s) == <<"condition", s>>
Targets      == {Task(s) : s \in Steps} \cup {Condition(s) : s \in Conditional}
SA           == <<"serviceaccount">>
Pipeline     == <<"pipeline">>
Objects      == Targets \cup {SA, Pipeline}

\* NewTasks and NewConditions follow the order of the workflow.
Position(s) == CHOOSE i \in DOMAIN StepList : StepList[i] = s

\* Mutant: the Pipeline first.
PersistRankPipelineFirst(o) == CASE o[1] = "task" -> 1 [] o[1] = "condition" -> 2 [] OTHER -> 0

\* Pipeline.Persist: the Tasks, the Conditions, then the Pipeline.
PersistRank(o) == CASE o[1] = "task" -> 1 [] o[1] = "condition" -> 2 [] OTHER -> 3

PersistedBefore(o, p) ==
    \/ PersistRank(o) < PersistRank(p)
    \/ PersistRank(o) = PersistRank(p) /\ Position(o[2]) < Position(p[2])

VARIABLES
    ns,         \* the UID of the namespace, 0 if there is none
    run,        \* the UID of the run, 0 if there is none
    obj,        \* the objects in the namespace
    cache,      \* the namespace and the run as the operator's informers show them
    queued,     \* the run is in the operator's work queue
    op,         \* the reconciliation in progress
    made,       \* counters of the creations
    failures

tokenVars == <<ns, run, obj, cache, queued, op, made, failures>>

\* An object has the runs that own it.  A service account has the run it was
\* created for, which stands for its UID, and whether its token secret is
\* there; a target has its token.
None    == [owners |-> {}]
NoToken == [context |-> 0]

\* Claims name the namespace, the step, the service account whose own token
\* they contain, and the run they are issued for.  In the program only the name
\* of the run is there; the UID is here to tell runs of the same name apart.
Claims(n, sa, r, s) == [ns |-> n, sa |-> sa, run |-> r, step |-> s]

\* VaultTransitWrapper: what was encrypted in a context is decrypted in no other.
Wrap(context, claims) == [context |-> context, claims |-> claims]

\* The issuer of the reconciler: the claims are signed, then encrypted for the
\* namespace.
Issue(claims) == Wrap(claims.ns, claims)

Idle == [pc |-> "idle"]

TokenInit ==
    /\ ns = 0 /\ run = 0
    /\ obj = [o \in Objects |-> None]
    /\ cache = [ns |-> 0, run |-> 0]
    /\ queued = FALSE
    /\ op = Idle
    /\ made = [ns |-> 0, run |-> 0]
    /\ failures = 0

-----------------------------------------------------------------------------
(* The API server and the caches *)

\* Own: the run becomes an owner, the controller, and others remain owners.
Own(o, r) == [o EXCEPT !.owners = @ \cup {r}]

\* CreateOrUpdate of object o, which the operator holds as copy: it creates what
\* it has not found and updates what it has.  The API server refuses to create
\* what exists and to update what has changed since.
Accepts(o, copy) == ns # 0 /\ obj[o] = copy

RunEvent ==
    /\ cache.run # run
    /\ cache' = [cache EXCEPT !.run = run]
    /\ queued' = TRUE
    /\ UNCHANGED <<ns, run, obj, op, made, failures>>

NamespaceEvent ==
    /\ cache.ns # ns
    /\ cache' = [cache EXCEPT !.ns = ns]
    /\ UNCHANGED <<ns, run, obj, queued, op, made, failures>>

-----------------------------------------------------------------------------
(* The user, Kubernetes *)

CreateNamespace ==
    /\ ns = 0 /\ made.ns < MaxNamespaces
    /\ ns' = made.ns + 1
    /\ made' = [made EXCEPT !.ns = @ + 1]
    /\ UNCHANGED <<run, obj, cache, queued, op, failures>>

\* A namespace goes away after everything in it.
DeleteNamespace ==
    /\ ns # 0 /\ ns < MaxNamespaces
    /\ ns' = 0 /\ run' = 0
    /\ obj' = [o \in Objects |-> None]
    /\ UNCHANGED <<cache, queued, op, made, failures>>

CreateRun ==
    /\ ns # 0 /\ run = 0 /\ made.run < MaxRuns
    /\ run' = made.run + 1
    /\ made' = [made EXCEPT !.run = @ + 1]
    /\ UNCHANGED <<ns, obj, cache, queued, op, failures>>

DeleteRun ==
    /\ run # 0 /\ run < MaxRuns
    /\ run' = 0
    /\ UNCHANGED <<ns, obj, cache, queued, op, made, failures>>

\* The token controller adds a secret to the service account.
AddTokenSecret ==
    /\ obj[SA] # None /\ ~obj[SA].secret
    /\ obj' = [obj EXCEPT ![SA].secret = TRUE]
    /\ UNCHANGED <<ns, run, cache, queued, op, made, failures>>

\* The garbage collector removes an object none of whose owners exists.
Collect(o) ==
    /\ obj[o] # None /\ run \notin obj[o].owners
    /\ obj' = [obj EXCEPT ![o] = None]
    /\ UNCHANGED <<ns, run, cache, queued, op, made, failures>>

-----------------------------------------------------------------------------
(* The reconciliation of the run *)

\* Mutant: the reconciler waits for the next event.
ReturnAlways(err) == op' = Idle /\ UNCHANGED queued

\* An error puts the run back into the queue.
Return(err) ==
    /\ op' = Idle
    /\ queued' = (queued \/ err)

Reconcile ==
    /\ op = Idle /\ queued
    /\ queued' = FALSE
    /\ op' = IF cache.run = 0 THEN Idle ELSE [pc |-> "deps", run |-> cache.run]
    /\ UNCHANGED <<ns, run, obj, cache, made, failures>>

\* What ServiceAccount.Load waits for: no service account, or one with its token.
Loaded == obj[SA] # None => obj[SA].secret

LoadDeps ==
    /\ op.pc = "deps"
    /\ \/ cache.ns = 0 /\ Return(TRUE)
       \/ /\ cache.ns # 0 /\ Loaded
          /\ op' = [pc |-> "sa", run |-> op.run, ns |-> cache.ns, sa |-> obj[SA]]
          /\ UNCHANGED queued
    /\ UNCHANGED <<ns, run, obj, cache, made, failures>>

\* A new service account has no secret yet.
PersistServiceAccount ==
    /\ op.pc = "sa"
    /\ \/ /\ Accepts(SA, op.sa)
          /\ obj' = [obj EXCEPT ![SA] =
                IF op.sa = None THEN [owners |-> {op.run}, created |-> op.run, secret |-> FALSE]
                ELSE Own(op.sa, op.run)]
          /\ op' = [pc |-> "pipeline", run |-> op.run, ns |-> op.ns]
          /\ UNCHANGED queued
       \/ ~Accepts(SA, op.sa) /\ Return(TRUE) /\ UNCHANGED obj
    /\ UNCHANGED <<ns, run, cache, made, failures>>

\* The token did not come within ServiceAccountDefaultTokenSecretLoadTimeout.
LoadTimeout ==
    /\ op.pc \in {"deps", "pipeline"} /\ ~Loaded
    /\ Return(TRUE)
    /\ UNCHANGED <<ns, run, obj, cache, made, failures>>

\* Mutant: every reconciliation issues a new token.
AnnotateStepTokenAnew(copy, sa, s) == Issue(Claims(op.ns, sa, op.run, s))

\* AnnotateStepToken: a target that has a token keeps it.
AnnotateStepToken(copy, sa, s) ==
    IF copy # None THEN copy.token ELSE Issue(Claims(op.ns, sa, op.run, s))

\* An object that was loaded as copy, owned by the run.
Owned(copy) ==
    IF copy = None THEN [owners |-> {op.run}, token |-> NoToken] ELSE Own(copy, op.run)

\* Mutant: all steps share the variable of the loop over them.
ConfiguredTaskLastStep(copy, sa, s) ==
    [Owned(copy) EXCEPT !.token = AnnotateStepToken(copy, sa, StepList[Len(StepList)])]

\* ConfigureTask, ConfigureCondition.
ConfiguredTask(copy, sa, s) ==
    [Owned(copy) EXCEPT !.token = AnnotateStepToken(copy, sa, s)]
ConfiguredCondition(copy, sa, s) ==
    [Owned(copy) EXCEPT !.token = AnnotateStepToken(copy, sa, s)]

\* ConfigurePipeline: it carries no token itself.
ConfiguredPipeline(copies, sa) ==
    [o \in DOMAIN copies |->
        CASE o[1] = "task" -> ConfiguredTask(copies[o], sa, o[2])
          [] o[1] = "condition" -> ConfiguredCondition(copies[o], sa, o[2])
          [] OTHER -> Owned(copies[o])]

\* Pipeline.Load, with its Tasks and Conditions.
LoadedPipeline == [o \in Objects \ {SA} |-> obj[o]]

\* ServiceAccount.Persist ends with a second Load, in which the service account
\* and the secret of its token are required.
RequiredToken == obj[SA] # None /\ obj[SA].secret

LoadPipeline ==
    /\ op.pc = "pipeline" /\ Loaded
    /\ IF ~RequiredToken THEN Return(TRUE)
       ELSE /\ op' = [pc |-> "persist", run |-> op.run, todo |-> Objects \ {SA},
                      copy |-> LoadedPipeline,
                      new |-> ConfiguredPipeline(LoadedPipeline, obj[SA].created)]
            /\ UNCHANGED queued
    /\ UNCHANGED <<ns, run, obj, cache, made, failures>>

Persist ==
    /\ op.pc = "persist"
    /\ \E o \in op.todo :
          /\ \A p \in op.todo \ {o} : PersistedBefore(o, p)
          /\ \/ /\ Accepts(o, op.copy[o])
                /\ obj' = [obj EXCEPT ![o] = op.new[o]]
                /\ IF o = Pipeline THEN Return(FALSE)
                   ELSE op' = [op EXCEPT !.todo = @ \ {o}] /\ UNCHANGED queued
             \/ ~Accepts(o, op.copy[o]) /\ Return(TRUE) /\ UNCHANGED obj
    /\ UNCHANGED <<ns, run, cache, made, failures>>

\* A call of the Kubernetes API or of Vault, which encrypts the tokens, fails,
\* or what was read from a cache turns out to be out of date.
Fail ==
    /\ op # Idle /\ failures < MaxFailures
    /\ failures' = failures + 1
    /\ Return(TRUE)
    /\ UNCHANGED <<ns, run, obj, cache, made>>

-----------------------------------------------------------------------------
ReconcileStep ==
    \/ Reconcile \/ LoadDeps \/ PersistServiceAccount \/ LoadTimeout
    \/ LoadPipeline \/ Persist

TokenSystem ==
    \/ RunEvent \/ NamespaceEvent
    \/ AddTokenSecret \/ \E o \in Objects : Collect(o)
    \/ ReconcileStep

TokenEnvironment ==
    CreateNamespace \/ DeleteNamespace \/ CreateRun \/ DeleteRun \/ Fail

TokenSpec == TokenInit /\ [][TokenSystem \/ TokenEnvironment]_tokenVars

\* Watches deliver, the work queue is served, and Kubernetes adds the secrets of
\* service accounts and collects garbage.  Users need not do anything, and
\* nothing need fail.
TokenFairSpec ==
    /\ TokenSpec
    /\ WF_tokenVars(RunEvent) /\ WF_tokenVars(NamespaceEvent)
    /\ WF_tokenVars(AddTokenSecret)
    /\ \A o \in Objects : WF_tokenVars(Collect(o))
    /\ WF_tokenVars(ReconcileStep)

-----------------------------------------------------------------------------
(* Properties *)

\* The Pipeline of the run is there, so that Tekton may start its steps.
Applied == obj[Pipeline] # None /\ run \in obj[Pipeline].owners

\* A Task or Condition that has a token keeps it as long as it exists, whatever
\* reconciliations from old caches do (AnnotateStepToken).
TokenOnce ==
    [][\A t \in Targets :
          obj[t] # None /\ obj'[t] # None => obj'[t].token = obj[t].token]_tokenVars

\* When Tekton may start the steps, every step has its Task and Condition, and
\* a token of its own that contains the token of the present service account;
\* unless it was inherited from an earlier run of the same name, whose objects
\* had not been collected yet (Own, AnnotateStepToken).
Credentials ==
    Applied =>
        \A t \in Targets :
            /\ obj[t] # None /\ run \in obj[t].owners
            /\ obj[t].token.claims.step = t[2]
            /\ obj[t].token.claims.run = run =>
                  obj[SA] # None /\ obj[t].token.claims.sa = obj[SA].created

\* The abstract view of the operator's work on the tokens.
TokenView(t) ==
    IF obj[t] = None THEN [ns |-> 0]
    ELSE [ns |-> obj[t].token.context, step |-> obj[t].token.claims.step]

Store == INSTANCE TokenStore WITH
    lastns  <- made.ns,
    run     <- run # 0,
    token   <- [t \in Targets |-> TokenView(t)],
    applied <- Applied

\* Whatever the reconciler, the garbage collector and users do to each other,
\* the metadata API and Tekton see what TokenStore promises: the Pipeline is
\* there only when all tokens are, and none goes while the run stays
\* (Pipeline.Persist, Own, AnnotateStepToken).
ImplementsTokenStore == Store!StoreSpec

\* A run that stays gets its Pipeline, with the credentials of all its steps,
\* although each reconciliation may find its caches out of date and end
\* (ApplyWorkflowRunDeps, ApplyPipeline).
RunApplied == run # 0 ~> (run = 0 \/ Applied)

=============================================================================
