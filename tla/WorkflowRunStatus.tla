-------------------------- MODULE WorkflowRunStatus --------------------------
(***************************************************************************)
(* How the operator turns the status of a Tekton PipelineRun into the      *)
(* status of a WorkflowRun (pkg/obj/workflowrun.go), and the part of       *)
(* Tekton's own status computation it depends on.                          *)
(*                                                                         *)
(* A PipelineRun reports, per step, the state of its TaskRun:              *)
(*   none       no TaskRun and no condition check                          *)
(*   checking   the step's `when` condition is being checked, no TaskRun   *)
(*   condfail   the condition check failed, the TaskRun will not exist     *)
(*   created    the TaskRun has no Succeeded condition yet                 *)
(*   running, succeeded, failed                                            *)
(* and its own Succeeded condition:                                        *)
(*   none, unknown, true, failed, cancelled, timedout                      *)
(***************************************************************************)
EXTENDS Naturals

TaskState == {"none", "checking", "condfail", "created", "running", "succeeded", "failed"}

PipelineCondition == {"none", "unknown", "true", "failed", "cancelled", "timedout"}

Status == {"pending", "in-progress", "success", "failure", "cancelled", "skipped", "timed-out"}

FinishedTask == {"succeeded", "failed"}

DonePipeline == {"true", "failed", "cancelled", "timedout"}

-----------------------------------------------------------------------------
(* workflowRunStatus, applied to a PipelineRun and to a TaskRun. *)

PipelineStatus(cond) ==
    CASE cond = "none" -> "pending"
      [] cond = "unknown" -> "in-progress"
      [] cond = "true" -> "success"
      [] cond = "timedout" -> "timed-out"
      [] OTHER -> "failure"

TaskStatus(task) ==
    CASE task = "created" -> "pending"
      [] task = "running" -> "in-progress"
      [] task = "succeeded" -> "success"
      [] task = "condfail" -> "skipped"
      [] task = "failed" -> "failure"

\* taskRunStepStatusSummary finds something: the TaskRun has a status.
HasStatus(task) == task \notin {"none", "checking"}

\* workflowRunSkipsPendingSteps
SkipsPendingSteps(runStatus) == runStatus \in {"cancelled", "failure", "timed-out"}

\* The run's own status: a cancelled run is cancelled, whatever Tekton says.
RunStatus(cancel, cond) == IF cancel THEN "cancelled" ELSE PipelineStatus(cond)

\* Skipping every step of such a run.
OwnStatusAllSkipped(runStatus, task) ==
    IF ~ HasStatus(task) THEN "pending"
    ELSE IF SkipsPendingSteps(runStatus) THEN "skipped"
    ELSE TaskStatus(task)

\* workflowRunStatusSummaries and the first loop of ConfigureWorkflowRun: the
\* status of one step, before dependencies are looked at.
OwnStatus(runStatus, task) ==
    IF ~ HasStatus(task) THEN "pending"
    ELSE IF task = "created" /\ SkipsPendingSteps(runStatus) THEN "skipped"
    ELSE TaskStatus(task)

\* Propagating from skipped steps only.
MarkSkippedFromSkipped(steps, dependsOn, own) ==
    LET mark[s \in steps] ==
            IF own[s] # "pending" THEN own[s]
            ELSE IF \E d \in dependsOn[s] : own[d] = "skipped" THEN "skipped"
            ELSE "pending"
    IN  mark

\* The traversal in topological order: a pending step that depends on a
\* skipped or failed step is skipped, which in turn skips what depends on it.
MarkSkipped(steps, dependsOn, own) ==
    LET mark[s \in steps] ==
            IF own[s] # "pending" THEN own[s]
            ELSE IF \E d \in dependsOn[s] : mark[d] \in {"skipped", "failure"} THEN "skipped"
            ELSE "pending"
    IN  mark

\* The status ConfigureWorkflowRun gives to every step.
StepStatuses(steps, dependsOn, cancel, cond, tasks) ==
    MarkSkipped(steps, dependsOn,
                [s \in steps |-> OwnStatus(RunStatus(cancel, cond), tasks[s])])

-----------------------------------------------------------------------------
(* Tekton. *)

\* isSkipped: no TaskRun, and this condition or an ancestor's has failed.
IsSkipped(steps, dependsOn, tasks) ==
    LET skip[s \in steps] ==
            \/ tasks[s] = "condfail"
            \/ tasks[s] \in {"none", "checking"} /\ \E d \in dependsOn[s] : skip[d]
    IN  skip

\* GetPipelineConditionStatus, for a PipelineRun that has not timed out and
\* was not cancelled.
PipelineConditionStatus(steps, dependsOn, tasks) ==
    IF \E s \in steps : tasks[s] = "failed" THEN "failed"
    ELSE IF \A s \in steps : tasks[s] = "succeeded" \/ IsSkipped(steps, dependsOn, tasks)[s]
    THEN "true"
    ELSE "unknown"
=============================================================================
