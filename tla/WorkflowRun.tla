----------------------------- MODULE WorkflowRun -----------------------------
(***************************************************************************)
(* The WorkflowRun reconciler (pkg/reconciler/workflow) and the two        *)
(* objects it keeps in step: the WorkflowRun that a user creates, cancels  *)
(* or deletes, and the Tekton PipelineRun that executes it.                *)
(*                                                                         *)
(* A reconciliation reads both objects from informer caches, which lag     *)
(* behind the API server; it writes the specification of the PipelineRun   *)
(* (the cancellation) and the status of the WorkflowRun (what Tekton       *)
(* reports, and the keys of the logs it has uploaded).  The API server     *)
(* refuses an Update from an old resourceVersion; any error puts the run   *)
(* back on the queue, and only an error or a watch event does so.          *)
(*                                                                         *)
(* Tekton is modelled from how it is used: it starts the steps whose       *)
(* dependencies have succeeded, checks `when` conditions first, and        *)
(* reports the state of each TaskRun and its own condition.                *)
(***************************************************************************)
EXTENDS WorkflowRunStatus

CONSTANTS
    Step,           \* names of steps
    Workflows,      \* the workflows that a run may have
    Absent,         \* an object that does not exist
    MaxTimeouts,    \* bound: 1 when the PipelineRun may time out, else 0
    MaxFailures,    \* bound: failed calls, crashes and restarts
    MaxCancels,     \* bound: 1 when the user may cancel, else 0
    MaxDeletes,     \* bound: 0 when nobody deletes the run, else how often its
                    \* PipelineRun is collected while it might be created again
    MaxTogether     \* bound: timeouts, cancellations and deletions together

\* The dependencies of a workflow are steps of it and form no cycle.
Acyclic(w) ==
    \A c \in SUBSET w.steps :
        c # {} => \E s \in c : w.dependsOn[s] \cap c = {}

ASSUME WorkflowAssumption ==
    \A w \in Workflows :
        /\ w.steps \subseteq Step
        /\ w.dependsOn \in [w.steps -> SUBSET w.steps]
        /\ w.when \subseteq w.steps
        /\ Acyclic(w)

ASSUME BoundAssumption ==
    /\ MaxTimeouts \in Nat /\ MaxFailures \in Nat /\ MaxCancels \in Nat
    /\ MaxDeletes \in Nat /\ MaxTogether \in Nat

\* The objects of a run of the workflow w.
RunObject(w) ==
    [rv : Nat, cancel : BOOLEAN, deleting : BOOLEAN, status : Status \cup {""},
     steps : [w.steps -> [named : BOOLEAN, status : Status \cup {""}, log : BOOLEAN]],
     conditions : [w.steps -> {"", "in-progress", "success", "failure"}]]

PipelineRunObject(w) ==
    [rv : Nat, cancelled : BOOLEAN, cond : PipelineCondition, tasks : [w.steps -> TaskState]]

ASSUME AbsentAssumption ==
    \A w \in Workflows : Absent \notin RunObject(w) /\ Absent \notin PipelineRunObject(w)

VARIABLES
    wf,         \* the workflow of the run
    run,        \* the WorkflowRun in the API server
    runCache,   \* the same, in the operator's cache
    pr,         \* the PipelineRun in the API server, or Absent
    prCache,    \* the same, in the operator's cache
    prRev,      \* the last resourceVersion given to a PipelineRun
    rec,        \* the reconciliation: pc and its copies of both objects
    queued,     \* the run is on the operator's work queue
    stored,     \* steps whose log is in the storage
    lost,       \* steps for which an upload has failed
    timeouts, failures, collected

objects == <<run, pr, prRev>>
caches == <<runCache, prCache>>
bounds == <<timeouts, failures, collected>>
vars == <<wf, objects, caches, rec, queued, stored, lost, bounds>>

\* How many times users and the clock have interfered with the run.
Together ==
    timeouts + (IF run.cancel THEN 1 ELSE 0) + (IF run.deleting THEN 1 ELSE 0)

-----------------------------------------------------------------------------
(* Objects. *)

\* One entry of Status.Steps: `named` when it has the name of a TaskRun.
Unreported == [named |-> FALSE, status |-> "", log |-> FALSE]

NewRun ==
    [rv |-> 1, cancel |-> FALSE, deleting |-> FALSE, status |-> "",
     steps |-> [s \in wf.steps |-> Unreported],
     conditions |-> [s \in wf.steps |-> ""]]

NewPipelineRun(cancelled) ==
    [rv |-> prRev + 1, cancelled |-> cancelled, cond |-> "none",
     tasks |-> [s \in wf.steps |-> "none"]]

\* Store a WorkflowRun: a new resourceVersion, unless nothing changed.
PutRun(obj) ==
    run' = IF obj = run THEN run ELSE [obj EXCEPT !.rv = run.rv + 1]

PutPipelineRun(obj) ==
    IF obj = pr THEN UNCHANGED <<pr, prRev>>
    ELSE /\ prRev' = prRev + 1
         /\ pr' = [obj EXCEPT !.rv = prRev + 1]

\* The API server accepts a Create when there is no PipelineRun, an Update from
\* its current version.
Applicable(obj) ==
    IF obj = Absent THEN pr = Absent ELSE pr # Absent /\ pr.rv = obj.rv

-----------------------------------------------------------------------------
(* Reconciler.Reconcile *)

NoReconcile == [pc |-> "idle", run |-> Absent, pr |-> Absent]

Return(requeue) ==
    /\ rec' = NoReconcile
    /\ queued' = requeue

\* Leaving a run alone that is already over.
LoadRunUnlessOver ==
    /\ rec.pc = "idle"
    /\ queued
    /\ IF runCache.deleting \/ runCache.status \in {"success", "failure", "timed-out"}
       THEN UNCHANGED rec
       ELSE rec' = [rec EXCEPT !.pc = IF wf.steps = {} THEN "complete" ELSE "load",
                               !.run = runCache]
    /\ queued' = FALSE
    /\ UNCHANGED <<wf, objects, caches, stored, lost, bounds>>

\* The run is loaded from the cache.  Nothing is done for a run that is being
\* deleted or is gone; a workflow without steps is complete at once.
LoadRun ==
    /\ rec.pc = "idle"
    /\ queued
    /\ IF runCache.deleting
       THEN UNCHANGED rec
       ELSE rec' = [rec EXCEPT !.pc = IF wf.steps = {} THEN "complete" ELSE "load",
                               !.run = runCache]
    /\ queued' = FALSE
    /\ UNCHANGED <<wf, objects, caches, stored, lost, bounds>>

\* WorkflowRun.Complete sets the status; it is persisted at once.
Complete ==
    /\ rec.pc = "complete"
    /\ rec' = [rec EXCEPT !.pc = "persist", !.run.status = "success"]
    /\ UNCHANGED <<wf, objects, caches, queued, stored, lost, bounds>>

\* ApplyWorkflowRunDeps and ApplyPipeline have succeeded (see Fail); the
\* PipelineRun is loaded from the cache.
LoadPipelineRun ==
    /\ rec.pc = "load"
    /\ rec' = [rec EXCEPT !.pc = "apply", !.pr = prCache]
    /\ UNCHANGED <<wf, objects, caches, queued, stored, lost, bounds>>

\* Asking for a cancellation only while there is something to cancel.
ConfigurePipelineRunUnlessDone(obj) ==
    [obj EXCEPT !.cancelled = rec.run.cancel /\ obj.cond \notin DonePipeline]

\* ConfigurePipelineRun rebuilds the specification: cancelled or not.
ConfigurePipelineRun(obj) == [obj EXCEPT !.cancelled = rec.run.cancel]

\* Persist: Create when nothing was loaded, Update otherwise.  The answer
\* replaces the reconciliation's copy, status included.
ApplyPipelineRun ==
    /\ rec.pc = "apply"
    /\ Applicable(rec.pr)
    /\ IF rec.pr = Absent
       THEN /\ pr' = NewPipelineRun(rec.run.cancel)
            /\ prRev' = prRev + 1
       ELSE PutPipelineRun(ConfigurePipelineRun(rec.pr))
    /\ rec' = [rec EXCEPT !.pc = "upload", !.pr = pr']
    /\ UNCHANGED <<wf, run, caches, queued, stored, lost, bounds>>

\* Taking AlreadyExists for success, as ApplyJob does, without the object.
ApplyPipelineRunIgnoringExists ==
    /\ rec.pc = "apply"
    /\ ~ Applicable(rec.pr)
    /\ IF rec.pr = Absent
       THEN rec' = [rec EXCEPT !.pc = "upload"] /\ UNCHANGED queued
       ELSE Return(TRUE)
    /\ UNCHANGED <<wf, objects, caches, stored, lost, bounds>>

\* AlreadyExists, NotFound or Conflict.
ApplyPipelineRunRejected ==
    /\ rec.pc = "apply"
    /\ ~ Applicable(rec.pr)
    /\ Return(TRUE)
    /\ UNCHANGED <<wf, objects, caches, stored, lost, bounds>>

\* Uploading as soon as the TaskRun is known.
ToUploadEarly ==
    {s \in wf.steps : /\ ~ rec.run.steps[s].log
                      /\ rec.run.steps[s].named
                      /\ HasStatus(rec.pr.tasks[s])}

\* uploadLogs: steps without a log key, whose TaskRun the *previous* status
\* already named and whose TaskRun is now done.
ToUpload ==
    {s \in wf.steps : /\ ~ rec.run.steps[s].log
                      /\ rec.run.steps[s].named
                      /\ rec.pr.tasks[s] \in FinishedTask \cup {"condfail"}}

\* The new entry of Status.Steps: "Retain any existing log record."
StepSummary(s, uploaded, statuses) ==
    [named |-> HasStatus(rec.pr.tasks[s]),
     status |-> statuses[s],
     log |-> rec.run.steps[s].log \/ s \in uploaded]

\* The new entry of Status.Conditions, if the PipelineRun has one; otherwise
\* the old entry stays.
ConditionSummary(s) ==
    LET task == rec.pr.tasks[s]
    IN  IF s \notin wf.when \/ task = "none" THEN rec.run.conditions[s]
        ELSE CASE task = "checking" -> "in-progress"
               [] task = "condfail" -> "failure"
               [] OTHER -> "success"

\* ConfigureWorkflowRun
ConfigureWorkflowRun(uploaded) ==
    LET statuses == StepStatuses(wf.steps, wf.dependsOn, rec.run.cancel,
                                 rec.pr.cond, rec.pr.tasks)
    IN  [rec.run EXCEPT
            !.status = RunStatus(rec.run.cancel, rec.pr.cond),
            !.steps = [s \in wf.steps |-> StepSummary(s, uploaded, statuses)],
            !.conditions = [s \in wf.steps |-> ConditionSummary(s)]]

\* uploadLogs, then ConfigureWorkflowRun.  A failed upload is only logged; the
\* TaskRun of a failed condition check has no pod, so its upload always fails.
UploadLogs ==
    /\ rec.pc = "upload"
    /\ \E uploaded \in SUBSET {s \in ToUpload : rec.pr.tasks[s] # "condfail"} :
          LET missed == {s \in ToUpload \ uploaded : rec.pr.tasks[s] # "condfail"}
          IN  /\ missed # {} => failures < MaxFailures
              /\ failures' = IF missed = {} THEN failures ELSE failures + 1
              /\ stored' = stored \cup uploaded
              /\ lost' = lost \cup missed
              /\ rec' = [rec EXCEPT !.pc = "persist", !.run = ConfigureWorkflowRun(uploaded)]
    /\ UNCHANGED <<wf, objects, caches, queued, timeouts, collected>>

\* Asking to be called again after every success.
PersistStatusPolling ==
    /\ rec.pc = "persist"
    /\ run.rv = rec.run.rv
    /\ PutRun(rec.run)
    /\ Return(TRUE)
    /\ UNCHANGED <<wf, pr, prRev, caches, stored, lost, bounds>>

\* PersistStatus
PersistStatus ==
    /\ rec.pc = "persist"
    /\ run.rv = rec.run.rv
    /\ PutRun(rec.run)
    /\ Return(queued)
    /\ UNCHANGED <<wf, pr, prRev, caches, stored, lost, bounds>>

\* Conflict, or NotFound when the run is gone.
PersistStatusRejected ==
    /\ rec.pc = "persist"
    /\ run.rv # rec.run.rv
    /\ Return(TRUE)
    /\ UNCHANGED <<wf, objects, caches, stored, lost, bounds>>

\* A call fails: applying the dependencies or the Pipeline, a read or a write.
Fail ==
    /\ rec.pc \notin {"idle", "upload"}
    /\ failures < MaxFailures
    /\ failures' = failures + 1
    /\ Return(TRUE)
    /\ UNCHANGED <<wf, objects, caches, stored, lost, timeouts, collected>>

\* The operator stops and starts again: its informers list everything and
\* every run is enqueued.
OperatorRestart ==
    /\ failures < MaxFailures
    /\ failures' = failures + 1
    /\ Return(TRUE)
    /\ runCache' = run
    /\ prCache' = pr
    /\ UNCHANGED <<wf, objects, stored, lost, timeouts, collected>>

\* Ignoring events that do not change the specification, as the other
\* controllers do: the cancellation is not part of it.
RunEventFiltered ==
    /\ runCache # run
    /\ runCache' = run
    /\ UNCHANGED <<wf, objects, prCache, rec, queued, stored, lost, bounds>>

\* For(WorkflowRun): an event updates the cache and enqueues the run.
RunEvent ==
    /\ runCache # run
    /\ runCache' = run
    /\ queued' = TRUE
    /\ UNCHANGED <<wf, objects, prCache, rec, stored, lost, bounds>>

\* A cached PipelineRun that the controller does not watch.
PipelineRunEventUnwatched ==
    /\ prCache # pr
    /\ prCache' = pr
    /\ UNCHANGED <<wf, objects, runCache, rec, queued, stored, lost, bounds>>

\* Owns(PipelineRun): an event updates the cache and enqueues the owner.
PipelineRunEvent ==
    /\ prCache # pr
    /\ prCache' = pr
    /\ queued' = TRUE
    /\ UNCHANGED <<wf, objects, runCache, rec, stored, lost, bounds>>

-----------------------------------------------------------------------------
(* Users and the garbage collector. *)

\* A user sets the `cancel` state of the run.
Cancel ==
    /\ MaxCancels > 0
    /\ Together < MaxTogether
    /\ ~ run.cancel
    /\ ~ run.deleting
    /\ run' = [run EXCEPT !.cancel = TRUE, !.rv = @ + 1]
    /\ UNCHANGED <<wf, pr, prRev, caches, rec, queued, stored, lost, bounds>>

\* A user deletes the run.  Whether it is gone or has a deletion timestamp
\* makes no difference to the reconciler.
DeleteRun ==
    /\ MaxDeletes > 0
    /\ Together < MaxTogether
    /\ ~ run.deleting
    /\ run' = [run EXCEPT !.deleting = TRUE, !.rv = @ + 1]
    /\ UNCHANGED <<wf, pr, prRev, caches, rec, queued, stored, lost, bounds>>

\* A PipelineRun without an owner.
CollectPipelineRunUnowned == run.deleting /\ pr # Absent /\ UNCHANGED vars

\* The PipelineRun is owned by the run, so it is collected; an operator that
\* has not seen the deletion can create it again.
CollectPipelineRun ==
    /\ run.deleting
    /\ pr # Absent
    /\ collected < MaxDeletes \/ (runCache.deleting /\ rec.pc = "idle")
    /\ pr' = Absent
    /\ collected' = IF collected < MaxDeletes THEN collected + 1 ELSE collected
    /\ UNCHANGED <<wf, run, prRev, caches, rec, queued, stored, lost, timeouts, failures>>

-----------------------------------------------------------------------------
(* Tekton. *)

UpdatePipelineRunStatus(cond, tasks) ==
    /\ PutPipelineRun([pr EXCEPT !.cond = cond, !.tasks = tasks])
    /\ UNCHANGED <<wf, run, caches, rec, queued, stored, lost, failures, collected>>

\* dag.GetSchedulable: what has all its dependencies done is started.
Scheduled(tasks) ==
    [s \in wf.steps |->
        IF tasks[s] = "none" /\ \A d \in wf.dependsOn[s] : tasks[d] = "succeeded"
        THEN IF s \in wf.when THEN "checking" ELSE "created"
        ELSE tasks[s]]

Progress(task) ==
    CASE task = "checking" -> {"condfail", "created"}
      [] task = "created" -> {"running", "failed"}
      [] task = "running" -> {"succeeded", "failed"}
      [] OTHER -> {}

TektonSync(tasks) ==
    LET next == Scheduled(tasks)
    IN  UpdatePipelineRunStatus(PipelineConditionStatus(wf.steps, wf.dependsOn, next), next)

\* The first reconciliation of a PipelineRun.
TektonStart ==
    /\ pr # Absent
    /\ pr.cond = "none"
    /\ ~ pr.cancelled
    /\ TektonSync(pr.tasks)
    /\ UNCHANGED timeouts

\* A TaskRun makes progress.
TektonProgress(s) ==
    /\ pr # Absent
    /\ pr.cond = "unknown"
    /\ \E task \in Progress(pr.tasks[s]) : TektonSync([pr.tasks EXCEPT ![s] = task])
    /\ UNCHANGED timeouts

\* A TaskRun that outlives its PipelineRun: its state is still reported.
TektonLateProgress(s) ==
    /\ pr # Absent
    /\ pr.cond \in DonePipeline
    /\ pr.tasks[s] # "checking"
    /\ \E task \in Progress(pr.tasks[s]) :
          UpdatePipelineRunStatus(pr.cond, [pr.tasks EXCEPT ![s] = task])
    /\ UNCHANGED timeouts

TektonTimeout ==
    /\ pr # Absent
    /\ pr.cond = "unknown"
    /\ timeouts < MaxTimeouts
    /\ Together < MaxTogether
    /\ timeouts' = timeouts + 1
    /\ UpdatePipelineRunStatus("timedout", pr.tasks)

\* Tekton sees the cancellation in the specification.
TektonCancel ==
    /\ pr # Absent
    /\ pr.cancelled
    /\ pr.cond \notin DonePipeline
    /\ UpdatePipelineRunStatus("cancelled", pr.tasks)
    /\ UNCHANGED timeouts

-----------------------------------------------------------------------------
Init ==
    /\ wf \in Workflows
    /\ run = NewRun
    /\ runCache = run
    /\ pr = Absent
    /\ prCache = Absent
    /\ prRev = 0
    /\ rec = NoReconcile
    /\ queued = TRUE
    /\ stored = {}
    /\ lost = {}
    /\ timeouts = 0
    /\ failures = 0
    /\ collected = 0

ReconcileStep ==
    \/ LoadRun
    \/ Complete
    \/ LoadPipelineRun
    \/ ApplyPipelineRun
    \/ ApplyPipelineRunRejected
    \/ UploadLogs
    \/ PersistStatus
    \/ PersistStatusRejected

TektonStep ==
    \/ TektonStart
    \/ TektonCancel
    \/ \E s \in wf.steps : TektonProgress(s) \/ TektonLateProgress(s)

Next ==
    \/ ReconcileStep
    \/ Fail
    \/ OperatorRestart
    \/ RunEvent
    \/ PipelineRunEvent
    \/ Cancel
    \/ DeleteRun
    \/ CollectPipelineRun
    \/ TektonStep
    \/ TektonTimeout

\* A queued run is reconciled and a reconciliation goes on to its end; watches
\* deliver; Tekton starts, cancels and finishes TaskRuns (they have timeouts);
\* the garbage collector works.  Nobody has to cancel, delete or fail.
Fairness ==
    /\ WF_vars(ReconcileStep)
    /\ WF_vars(RunEvent)
    /\ WF_vars(PipelineRunEvent)
    /\ WF_vars(CollectPipelineRun)
    /\ WF_vars(TektonStep)

Spec == Init /\ [][Next]_vars

FairSpec == Spec /\ Fairness

-----------------------------------------------------------------------------
(* Properties. *)

\* Types of both objects, their cached copies and the reconciliation's copies.
TypeOK ==
    /\ wf \in Workflows
    /\ run \in RunObject(wf)
    /\ runCache \in RunObject(wf)
    /\ pr \in PipelineRunObject(wf) \cup {Absent}
    /\ prCache \in PipelineRunObject(wf) \cup {Absent}
    /\ prRev \in Nat
    /\ rec \in [pc : {"idle", "complete", "load", "apply", "upload", "persist"},
                run : RunObject(wf) \cup {Absent}, pr : PipelineRunObject(wf) \cup {Absent}]
    /\ rec.pc # "idle" => rec.run # Absent
    /\ rec.pc = "upload" => rec.pr # Absent
    /\ queued \in BOOLEAN
    /\ stored \subseteq wf.steps
    /\ lost \subseteq wf.steps
    /\ timeouts \in Nat
    /\ failures \in Nat
    /\ collected \in Nat

Over == {"success", "failure", "timed-out", "cancelled"}

\* The status of the run and those of its steps, computed from different parts
\* of the PipelineRun's status, agree: a successful run has only successful and
\* skipped steps (Tekton's isSkipped and the traversal in ConfigureWorkflowRun
\* find the same steps), a failed one has a failed step.
ReportConsistent ==
    /\ run.status = "success" =>
          \A s \in wf.steps : run.steps[s].status \in {"success", "skipped"}
    /\ run.status = "failure" =>
          \E s \in wf.steps : run.steps[s].status = "failure"

\* A log that the status refers to is in the storage, and every log in the
\* storage is that of a TaskRun that had finished: no log is cut short
\* (uploadLogs, uploadLog).
LogsComplete ==
    \A s \in wf.steps :
        /\ run.steps[s].log => s \in stored
        /\ s \in stored /\ ~ run.deleting => pr.tasks[s] \in FinishedTask

\* Nothing is left to do for the operator: no key queued, no reconciliation
\* under way, no event to come.
Settled ==
    /\ rec.pc = "idle"
    /\ ~ queued
    /\ runCache = run
    /\ prCache = pr
    /\ ~ run.deleting

\* Tekton has finished with the PipelineRun and its TaskRuns.
Done ==
    /\ pr # Absent
    /\ pr.cond \in DonePipeline
    /\ \A s \in wf.steps : pr.tasks[s] = "checking" \/ Progress(pr.tasks[s]) = {}

\* "This lets us mark pending steps as skipped if they won't ever be run."
\* (ConfigureWorkflowRun): when the run is over, nothing is under way any more
\* and the operator is idle, no step is reported as pending.
NoStepLeftPending ==
    Settled /\ run.status \in Over /\ Done => \A s \in wf.steps : run.steps[s].status # "pending"

\* No update is missed: once the operator is idle, the status of the run is
\* what the PipelineRun reports, through every conflict, failure and restart.
SettledReport ==
    Settled /\ wf.steps # {} =>
        /\ pr # Absent
        /\ pr.cancelled = run.cancel
        /\ run.status = RunStatus(run.cancel, pr.cond)
        /\ \A s \in wf.steps :
              run.steps[s].status =
                  StepStatuses(wf.steps, wf.dependsOn, run.cancel, pr.cond, pr.tasks)[s]

\* Action property: a run that is over stays over, with the same outcome; only
\* a cancellation can still replace the outcome.  A finished step keeps its.
OutcomeStable ==
    [][/\ run.status \in Over => run'.status \in {run.status, "cancelled"}
       /\ \A s \in wf.steps : run.steps[s].status \in {"success", "failure"}
             => run'.steps[s].status = run.steps[s].status]_vars

\* Action property: ConfigurePipelineRun rebuilds the specification on every
\* reconciliation, from a cached run, yet never withdraws a cancellation.
CancelSticks ==
    [][pr # Absent /\ pr' # Absent /\ pr.cancelled => pr'.cancelled]_vars

\* Liveness: the log of every step that finishes is uploaded and recorded for
\* good, although uploadLogs always comes one reconciliation after the status
\* that names the TaskRun and ConfigureWorkflowRun computes the summaries anew
\* each time, unless the upload failed (there is no second attempt of its own)
\* or the run is deleted.
LogsUploaded ==
    \A s \in Step :
        (s \in wf.steps /\ pr # Absent /\ pr.tasks[s] \in FinishedTask)
            ~> ([](s \in wf.steps /\ run.steps[s].log) \/ s \in lost \/ run.deleting)

\* Liveness: a cancellation reaches the PipelineRun.
CancelDelivered ==
    (run.cancel /\ wf.steps # {}) ~> ((pr # Absent /\ pr.cancelled) \/ run.deleting)

\* Liveness: every run is over at last, and its status says so.
RunEnds == <>(run.status \in Over \/ run.deleting)

\* Liveness: the operator comes to rest; its own status updates, which
\* enqueue the run again, do not keep it going for ever.
OperatorRests == <>[](rec.pc = "idle" /\ ~ queued)

\* Liveness: the PipelineRun of a deleted run goes away and stays away,
\* although a reconciliation from a stale cache can create it again.
DeletedRunCleaned == run.deleting ~> [](pr = Absent)
=============================================================================
