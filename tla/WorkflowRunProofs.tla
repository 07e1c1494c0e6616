-------------------------- MODULE WorkflowRunProofs --------------------------
(***************************************************************************)
(* Theorems about WorkflowRun, for every set of workflows whose            *)
(* dependencies form no cycle, and every bound.                            *)
(***************************************************************************)
EXTENDS WorkflowRun, WorkflowRunStatusProofs

\* A copy c of a run says no more than a later copy d: a cancellation and a
\* deletion are final.
Earlier(c, d) == c.rv <= d.rv /\ (c.cancel => d.cancel) /\ (c.deleting => d.deleting)

\* A reconciliation has what the cache had when it began, the cache what the API
\* server had before.  What has the version of the run is the run, except for
\* the status that the reconciliation is about to write.
RunCopies ==
    /\ Earlier(runCache, run)
    /\ runCache.rv = run.rv => runCache = run
    /\ rec.pc # "idle" =>
          /\ Earlier(rec.run, runCache)
          /\ ~ rec.run.deleting
          /\ rec.run.rv = run.rv => rec.run.cancel = run.cancel /\ ~ run.deleting
          /\ ~ queued => rec.run.rv = runCache.rv

\* The PipelineRun has the latest version; a copy that has its version is the
\* PipelineRun.
PipelineRunCopies ==
    /\ pr # Absent => pr.rv = prRev
    /\ prCache # Absent => prCache.rv <= prRev /\ (pr # Absent /\ prCache.rv = prRev => prCache = pr)
    /\ rec.pr # Absent => rec.pr.rv <= prRev /\ (pr # Absent /\ rec.pr.rv = prRev => rec.pr = pr)

\* A PipelineRun that is cancelled is so because of a cancellation that every
\* reconciliation from then on has seen.
CancelSeen ==
    pr # Absent /\ pr.cancelled => runCache.cancel /\ (rec.pc # "idle" => rec.run.cancel)

\* Tekton's condition of a PipelineRun x is that of its TaskRuns.
ConditionRight(w, x) ==
    /\ x.cond = "true" => \A s \in w.steps :
          x.tasks[s] = "succeeded" \/ IsSkipped(w.steps, w.dependsOn, x.tasks)[s]
    /\ x.cond = "failed" => \E s \in w.steps : x.tasks[s] = "failed"
    /\ x.cond = "cancelled" => x.cancelled

\* What was final in a copy x of the PipelineRun y has not changed.
Final(w, x, y) ==
    /\ x.cond \in DonePipeline => y.cond = x.cond
    /\ \A s \in w.steps : x.tasks[s] \in FinishedTask => y.tasks[s] = x.tasks[s]

\* A reconciliation that has read the PipelineRun.
Working == rec.pc \in {"upload", "persist"} /\ wf.steps # {}

\* A workflow without steps is complete at once, any other one never.
PlaceRight ==
    /\ wf.steps = {} => rec.pc \in {"idle", "complete", "persist"}
    /\ wf.steps # {} => rec.pc # "complete"

\* The PipelineRun's condition is that of its TaskRuns.
TektonRight == pr # Absent => ConditionRight(wf, pr)

\* What was read of the PipelineRun is right and, if final, still true.
ReadRight ==
    Working =>
        /\ rec.pr # Absent /\ rec.pr.cancelled = rec.run.cancel
        /\ ConditionRight(wf, rec.pr)
        /\ ~ run.deleting => pr # Absent /\ Final(wf, rec.pr, pr)

\* What will be written is what was read.
WrittenRight ==
    /\ rec.pc = "persist" /\ wf.steps = {} => rec.run.status = "success"
    /\ rec.pc = "persist" /\ wf.steps # {} =>
          /\ rec.run.status = RunStatus(rec.run.cancel, rec.pr.cond)
          /\ \A s \in wf.steps : rec.run.steps[s].status =
                StepStatuses(wf.steps, wf.dependsOn, rec.run.cancel, rec.pr.cond, rec.pr.tasks)[s]

\* A reconciliation writes what it has read.
Copied == PlaceRight /\ TektonRight /\ ReadRight /\ WrittenRight

\* The invariant that the reports rest on.
Inv == RunCopies /\ PipelineRunCopies /\ CancelSeen /\ Copied

\* The outcomes that a run r reports are those of a PipelineRun x.
Reflects(w, r, x) ==
    /\ r.status \in Over =>
          \/ r.status = "cancelled" /\ r.cancel
          \/ x.cond \in DonePipeline /\ r.status = PipelineStatus(x.cond)
    /\ \A s \in w.steps :
          /\ r.steps[s].status = "success" => x.tasks[s] = "succeeded"
          /\ r.steps[s].status = "failure" => x.tasks[s] = "failed"

\* A run reports nothing.
Silent(w, r) == r.status = "" /\ \A s \in w.steps : r.steps[s].status = ""

\* The run reports what the PipelineRun and the copy of it that will be reported
\* next have as well.
ReportedParts ==
    /\ pr = Absent => Silent(wf, run)
    /\ pr # Absent => Reflects(wf, run, pr)
    /\ Working => Reflects(wf, run, rec.pr)

\* The same for every workflow; one without steps only ever succeeds.
Reported ==
    /\ wf.steps = {} => run.status \in {"", "success"}
    /\ wf.steps # {} /\ ~ run.deleting => ReportedParts

\* A log that any copy of the run refers to is stored.
LogsStored ==
    \A s \in wf.steps :
        /\ run.steps[s].log => s \in stored
        /\ runCache.steps[s].log => s \in stored
        /\ rec.pc # "idle" /\ rec.run.steps[s].log => s \in stored

\* Stored logs are of TaskRuns that have finished.
LogsFinished == ~ run.deleting => \A s \in stored : pr # Absent /\ pr.tasks[s] \in FinishedTask

\* No change is overlooked: what a reconciliation has read of the PipelineRun is
\* what there is, unless an event is on its way or has enqueued the run again.
Current ==
    Working /\ ~ queued /\ ~ run.deleting /\ prCache = pr => rec.pr = pr

-----------------------------------------------------------------------------
(* Types *)

\* What is assumed of workflows and objects, for the workflow of the run.
LEMMA Workflow ==
    ASSUME wf \in Workflows
    PROVE  /\ wf.dependsOn \in [wf.steps -> SUBSET wf.steps]
           /\ NoCycle(wf.steps, wf.dependsOn)
           /\ Absent \notin RunObject(wf) /\ Absent \notin PipelineRunObject(wf)
  BY WorkflowAssumption, AbsentAssumption DEF Acyclic, NoCycle

\* A WorkflowRun that is stored: as it was, or with a new version.
LEMMA PutRunFields ==
    ASSUME NEW w, run \in RunObject(w), NEW obj \in RunObject(w), PutRun(obj)
    PROVE  /\ run' \in RunObject(w)
           /\ \/ run' = run /\ obj = run
              \/ run'.rv = run.rv + 1
           /\ run'.cancel = obj.cancel /\ run'.deleting = obj.deleting
           /\ run'.status = obj.status /\ run'.steps = obj.steps
  <1>1. CASE obj = run
    BY <1>1 DEF PutRun
  <1>2. CASE obj # run
    <2>1. run' = [obj EXCEPT !.rv = run.rv + 1]
      BY <1>2 DEF PutRun
    <2>2. run.rv \in Nat
      BY DEF RunObject
    <2>3. run.rv + 1 \in Nat
      BY <2>2
    <2> QED BY <2>1, <2>3 DEF RunObject
  <1> QED BY <1>1, <1>2

\* A PipelineRun that is stored: as it was, or with a new version.
LEMMA PutPipelineRunFields ==
    ASSUME NEW w, prRev \in Nat, NEW obj \in PipelineRunObject(w), PutPipelineRun(obj)
    PROVE  /\ pr' \in PipelineRunObject(w)
           /\ pr'.cancelled = obj.cancelled /\ pr'.cond = obj.cond /\ pr'.tasks = obj.tasks
           /\ \/ pr' = pr /\ prRev' = prRev /\ obj = pr
              \/ prRev' = prRev + 1 /\ pr'.rv = prRev'
  <1>1. CASE obj = pr
    BY <1>1 DEF PutPipelineRun
  <1>2. CASE obj # pr
    <2>1. pr' = [obj EXCEPT !.rv = prRev + 1] /\ prRev' = prRev + 1
      BY <1>2 DEF PutPipelineRun
    <2>2. prRev + 1 \in Nat
      OBVIOUS
    <2> QED BY <2>1, <2>2 DEF PipelineRunObject
  <1> QED BY <1>1, <1>2

\* The PipelineRun that ApplyPipelineRun leaves: a new one, or the one that was
\* loaded with the cancellation of the run.
LEMMA ApplyFields ==
    ASSUME TypeOK, ApplyPipelineRun
    PROVE  /\ pr' \in PipelineRunObject(wf) /\ pr' # Absent
           /\ pr'.cancelled = rec.run.cancel
           /\ \/ pr' = pr /\ prRev' = prRev
              \/ prRev' = prRev + 1 /\ pr'.rv = prRev'
           /\ \/ /\ rec.pr = Absent /\ pr = Absent /\ pr'.cond = "none"
                 /\ \A s \in wf.steps : pr'.tasks[s] = "none"
              \/ /\ rec.pr # Absent /\ pr # Absent /\ pr.rv = rec.pr.rv
                 /\ pr'.cond = rec.pr.cond /\ pr'.tasks = rec.pr.tasks
           /\ rec' \in [pc : {"upload"}, run : {rec.run}, pr : {pr'}]
  <1>1. wf \in Workflows /\ prRev \in Nat /\ prRev + 1 \in Nat /\ rec.run \in RunObject(wf)
    BY DEF TypeOK, ApplyPipelineRun
  <1>2. rec.run.cancel \in BOOLEAN
    BY <1>1 DEF RunObject
  <1>3. Absent \notin PipelineRunObject(wf)
    BY <1>1, Workflow
  <1>4. rec' \in [pc : {"upload"}, run : {rec.run}, pr : {pr'}]
    BY DEF TypeOK, ApplyPipelineRun
  <1>5. CASE rec.pr = Absent
    <2>1. pr = Absent /\ pr' = NewPipelineRun(rec.run.cancel) /\ prRev' = prRev + 1
      BY <1>5 DEF ApplyPipelineRun, Applicable
    <2>2. /\ pr' \in PipelineRunObject(wf) /\ pr'.cancelled = rec.run.cancel
          /\ pr'.rv = prRev + 1 /\ pr'.cond = "none"
          /\ \A s \in wf.steps : pr'.tasks[s] = "none"
      BY <1>1, <1>2, <2>1
         DEF NewPipelineRun, PipelineRunObject, PipelineCondition, TaskState
    <2> QED BY <1>3, <1>4, <1>5, <2>1, <2>2
  <1>6. CASE rec.pr # Absent
    <2> DEFINE obj == ConfigurePipelineRun(rec.pr)
    <2>1. pr # Absent /\ pr.rv = rec.pr.rv /\ PutPipelineRun(obj)
      BY <1>6 DEF ApplyPipelineRun, Applicable
    <2>2. rec.pr \in PipelineRunObject(wf)
      BY <1>6 DEF TypeOK
    <2>3. obj \in PipelineRunObject(wf) /\ obj.cancelled = rec.run.cancel
          /\ obj.cond = rec.pr.cond /\ obj.tasks = rec.pr.tasks
      BY <1>2, <2>2 DEF ConfigurePipelineRun, PipelineRunObject
    <2> HIDE DEF obj
    <2>4. /\ pr' \in PipelineRunObject(wf)
          /\ pr'.cancelled = obj.cancelled /\ pr'.cond = obj.cond /\ pr'.tasks = obj.tasks
          /\ \/ pr' = pr /\ prRev' = prRev /\ obj = pr
             \/ prRev' = prRev + 1 /\ pr'.rv = prRev'
      BY <1>1, <2>1, <2>3, PutPipelineRunFields
    <2> QED BY <1>3, <1>4, <1>6, <2>1, <2>3, <2>4
  <1> QED BY <1>5, <1>6

\* An entry of the status.
LEMMA SummaryType ==
    \A n \in BOOLEAN, t \in Status, l \in BOOLEAN :
        [named |-> n, status |-> t, log |-> l]
            \in [named : BOOLEAN, status : Status \cup {""}, log : BOOLEAN]
  OBVIOUS

\* The status that ConfigureWorkflowRun writes.
LEMMA ConfigureFields ==
    ASSUME TypeOK, rec.pc = "upload", NEW uploaded \in SUBSET wf.steps
    PROVE  LET new == ConfigureWorkflowRun(uploaded)
           IN  /\ new \in RunObject(wf)
               /\ new.rv = rec.run.rv /\ new.cancel = rec.run.cancel
               /\ new.deleting = rec.run.deleting
               /\ new.status = RunStatus(rec.run.cancel, rec.pr.cond)
               /\ \A s \in wf.steps :
                     /\ new.steps[s].status = StepStatuses(wf.steps, wf.dependsOn,
                           rec.run.cancel, rec.pr.cond, rec.pr.tasks)[s]
                     /\ new.steps[s].log => rec.run.steps[s].log \/ s \in uploaded
  <1> DEFINE new == ConfigureWorkflowRun(uploaded)
             statuses == StepStatuses(wf.steps, wf.dependsOn, rec.run.cancel, rec.pr.cond,
                                      rec.pr.tasks)
             status == RunStatus(rec.run.cancel, rec.pr.cond)
             steps == [s \in wf.steps |-> StepSummary(s, uploaded, statuses)]
             conditions == [s \in wf.steps |-> ConditionSummary(s)]
  <1>1. wf \in Workflows /\ rec.run \in RunObject(wf) /\ rec.pr \in PipelineRunObject(wf)
    BY DEF TypeOK
  <1>2. /\ rec.run.cancel \in BOOLEAN /\ rec.pr.cond \in PipelineCondition
        /\ rec.pr.tasks \in [wf.steps -> TaskState]
        /\ rec.run.steps \in [wf.steps -> [named : BOOLEAN, status : Status \cup {""}, log : BOOLEAN]]
        /\ rec.run.conditions \in [wf.steps -> {"", "in-progress", "success", "failure"}]
    BY <1>1 DEF RunObject, PipelineRunObject
  <1>3. status \in Status
    BY <1>2, RunStatusType
  <1>4. ASSUME NEW s \in wf.steps PROVE statuses[s] \in Status
    <2>1. wf.dependsOn \in [wf.steps -> SUBSET wf.steps]
      BY <1>1, Workflow
    <2>2. rec.pr.tasks \in [wf.steps -> TaskState]
      BY <1>2
    <2> QED BY <2>1, <2>2, StepStatusesType
  <1>5. new = [rec.run EXCEPT !.status = status, !.steps = steps, !.conditions = conditions]
    BY DEF ConfigureWorkflowRun
  <1> HIDE DEF statuses, status
  <1>6. ASSUME NEW s \in wf.steps
        PROVE  /\ steps[s] \in [named : BOOLEAN, status : Status \cup {""}, log : BOOLEAN]
               /\ steps[s].status = statuses[s]
               /\ steps[s].log => rec.run.steps[s].log \/ s \in uploaded
    <2> DEFINE named == HasStatus(rec.pr.tasks[s])
               log == rec.run.steps[s].log \/ s \in uploaded
    <2>1. named \in BOOLEAN
      BY DEF HasStatus
    <2>2. log \in BOOLEAN
      OBVIOUS
    <2>3. steps[s] = [named |-> named, status |-> statuses[s], log |-> log]
      BY DEF StepSummary
    <2>4. statuses[s] \in Status
      BY <1>4
    <2> HIDE DEF named, log, steps, statuses
    <2>5. steps[s].status = statuses[s] /\ steps[s].log = log
      BY <2>3
    <2>6. steps[s] \in [named : BOOLEAN, status : Status \cup {""}, log : BOOLEAN]
      <3>1. [named |-> named, status |-> statuses[s], log |-> log]
               \in [named : BOOLEAN, status : Status \cup {""}, log : BOOLEAN]
        BY <2>1, <2>2, <2>4, SummaryType, Zenon
      <3> QED BY <2>3, <3>1, Zenon
    <2> QED BY <2>5, <2>6 DEF log
  <1>7. ASSUME NEW s \in wf.steps
        PROVE  conditions[s] \in {"", "in-progress", "success", "failure"}
    BY <1>2 DEF ConditionSummary
  <1>8. steps \in [wf.steps -> [named : BOOLEAN, status : Status \cup {""}, log : BOOLEAN]]
        /\ conditions \in [wf.steps -> {"", "in-progress", "success", "failure"}]
    BY <1>6, <1>7
  <1> HIDE DEF new, steps, conditions
  <1>9. /\ new \in RunObject(wf) /\ new.rv = rec.run.rv /\ new.cancel = rec.run.cancel
        /\ new.deleting = rec.run.deleting /\ new.status = status /\ new.steps = steps
    BY <1>1, <1>3, <1>5, <1>8 DEF RunObject
  <1> QED BY <1>6, <1>9 DEF new, statuses, status

-----------------------------------------------------------------------------
(* Tekton *)

\* Any step of Tekton.
Tekton == TektonStep \/ TektonTimeout

\* A status that Tekton writes.
LEMMA UpdateFields ==
    ASSUME TypeOK, pr # Absent, NEW cond \in PipelineCondition,
           NEW tasks \in [wf.steps -> TaskState], UpdatePipelineRunStatus(cond, tasks)
    PROVE  /\ pr' \in PipelineRunObject(wf)
           /\ pr'.cancelled = pr.cancelled /\ pr'.cond = cond /\ pr'.tasks = tasks
           /\ \/ pr' = pr /\ prRev' = prRev
              \/ prRev' = prRev + 1 /\ pr'.rv = prRev'
  <1>1. pr \in PipelineRunObject(wf) /\ prRev \in Nat
    BY DEF TypeOK
  <1> DEFINE obj == [pr EXCEPT !.cond = cond, !.tasks = tasks]
  <1>2. obj \in PipelineRunObject(wf) /\ obj.cancelled = pr.cancelled /\ obj.cond = cond
        /\ obj.tasks = tasks
    BY <1>1 DEF PipelineRunObject
  <1>3. PutPipelineRun(obj)
    BY DEF UpdatePipelineRunStatus
  <1> HIDE DEF obj
  <1> QED BY <1>1, <1>2, <1>3, PutPipelineRunFields

\* Progress of a TaskRun: never of one that has finished.
LEMMA ProgressType ==
    ASSUME NEW task \in TaskState
    PROVE  /\ Progress(task) \subseteq TaskState
           /\ task \in FinishedTask \cup {"none", "condfail"} => Progress(task) = {}
  BY DEF Progress, TaskState, FinishedTask

\* Scheduling touches what has not been started only.
LEMMA ScheduledType ==
    ASSUME NEW tasks \in [wf.steps -> TaskState]
    PROVE  /\ Scheduled(tasks) \in [wf.steps -> TaskState]
           /\ \A s \in wf.steps : tasks[s] # "none" => Scheduled(tasks)[s] = tasks[s]
  BY DEF Scheduled, TaskState

\* The condition that Tekton computes is right.
LEMMA SyncRight ==
    ASSUME NEW w, NEW x, NEW tasks, x.tasks = tasks,
           x.cond = PipelineConditionStatus(w.steps, w.dependsOn, tasks)
    PROVE  x.cond \in {"failed", "true", "unknown"} /\ ConditionRight(w, x)
  BY DEF PipelineConditionStatus, ConditionRight

\* A reconciliation of Tekton's, after which the TaskRuns are in the states
\* that are given or started.
LEMMA SyncFields ==
    ASSUME TypeOK, pr # Absent, pr.cond \notin DonePipeline,
           NEW tasks \in [wf.steps -> TaskState], TektonSync(tasks),
           \A s \in wf.steps : pr.tasks[s] \in FinishedTask => tasks[s] = pr.tasks[s]
    PROVE  /\ pr' \in PipelineRunObject(wf) /\ pr'.cancelled = pr.cancelled
           /\ Final(wf, pr, pr') /\ ConditionRight(wf, pr')
           /\ \/ pr' = pr /\ prRev' = prRev
              \/ prRev' = prRev + 1 /\ pr'.rv = prRev'
  <1> DEFINE next == Scheduled(tasks)
             cond == PipelineConditionStatus(wf.steps, wf.dependsOn, next)
  <1>1. next \in [wf.steps -> TaskState]
        /\ \A s \in wf.steps : tasks[s] # "none" => next[s] = tasks[s]
    BY ScheduledType
  <1>2. UpdatePipelineRunStatus(cond, next)
    BY DEF TektonSync
  <1> HIDE DEF next
  <1>3. cond \in PipelineCondition
    BY DEF PipelineConditionStatus, PipelineCondition
  <1> HIDE DEF cond
  <1>4. /\ pr' \in PipelineRunObject(wf)
        /\ pr'.cancelled = pr.cancelled /\ pr'.cond = cond /\ pr'.tasks = next
        /\ \/ pr' = pr /\ prRev' = prRev
           \/ prRev' = prRev + 1 /\ pr'.rv = prRev'
    BY <1>1, <1>2, <1>3, UpdateFields
  <1>5. Final(wf, pr, pr')
    BY <1>1, <1>4 DEF Final, FinishedTask
  <1>6. ConditionRight(wf, pr')
    BY <1>4, SyncRight DEF cond
  <1> QED BY <1>4, <1>5, <1>6

\* Whatever Tekton does, what is final stays, and its condition stays right.
LEMMA TektonFields ==
    ASSUME TypeOK, Tekton
    PROVE  /\ pr # Absent /\ pr' \in PipelineRunObject(wf) /\ pr'.cancelled = pr.cancelled
           /\ Final(wf, pr, pr') /\ (ConditionRight(wf, pr) => ConditionRight(wf, pr'))
           /\ \/ pr' = pr /\ prRev' = prRev
              \/ prRev' = prRev + 1 /\ pr'.rv = prRev'
  <1>0. pr # Absent
    BY DEF Tekton, TektonStep, TektonStart, TektonCancel, TektonTimeout, TektonProgress,
           TektonLateProgress
  <1>1. pr \in PipelineRunObject(wf) /\ pr.tasks \in [wf.steps -> TaskState]
        /\ pr.cond \in PipelineCondition /\ wf \in Workflows
    BY <1>0 DEF TypeOK, PipelineRunObject
  <1>2. CASE TektonStart
    <2>1. pr.cond \notin DonePipeline /\ TektonSync(pr.tasks)
      BY <1>2 DEF TektonStart, DonePipeline
    <2> QED BY <1>0, <1>1, <2>1, SyncFields
  <1>3. ASSUME NEW s \in wf.steps, TektonProgress(s)
        PROVE  /\ pr' \in PipelineRunObject(wf) /\ pr'.cancelled = pr.cancelled
               /\ Final(wf, pr, pr') /\ ConditionRight(wf, pr')
               /\ \/ pr' = pr /\ prRev' = prRev
                  \/ prRev' = prRev + 1 /\ pr'.rv = prRev'
    <2>1. PICK task \in Progress(pr.tasks[s]) : TektonSync([pr.tasks EXCEPT ![s] = task])
      BY <1>3 DEF TektonProgress
    <2>2. pr.tasks[s] \in TaskState
      BY <1>1
    <2>3. task \in TaskState /\ pr.tasks[s] \notin FinishedTask
      BY <2>1, <2>2, ProgressType
    <2> DEFINE tasks == [pr.tasks EXCEPT ![s] = task]
    <2>4. tasks \in [wf.steps -> TaskState]
          /\ \A u \in wf.steps : pr.tasks[u] \in FinishedTask => tasks[u] = pr.tasks[u]
      BY <1>1, <2>3
    <2>5. pr.cond \notin DonePipeline
      BY <1>3 DEF TektonProgress, DonePipeline
    <2>6. TektonSync(tasks)
      BY <2>1
    <2> HIDE DEF tasks
    <2> QED BY <1>0, <2>4, <2>5, <2>6, SyncFields
  <1>4. ASSUME NEW s \in wf.steps, TektonLateProgress(s)
        PROVE  /\ pr' \in PipelineRunObject(wf) /\ pr'.cancelled = pr.cancelled
               /\ Final(wf, pr, pr') /\ (ConditionRight(wf, pr) => ConditionRight(wf, pr'))
               /\ \/ pr' = pr /\ prRev' = prRev
                  \/ prRev' = prRev + 1 /\ pr'.rv = prRev'
    <2>1. PICK task \in Progress(pr.tasks[s]) :
             UpdatePipelineRunStatus(pr.cond, [pr.tasks EXCEPT ![s] = task])
      BY <1>4 DEF TektonLateProgress
    <2>2. pr.tasks[s] \in TaskState
      BY <1>1
    <2>3. task \in TaskState /\ pr.tasks[s] \notin FinishedTask \cup {"none", "condfail", "checking"}
      BY <1>4, <2>1, <2>2, ProgressType DEF TektonLateProgress
    <2> DEFINE tasks == [pr.tasks EXCEPT ![s] = task]
    <2>4. tasks \in [wf.steps -> TaskState] /\ \A u \in wf.steps : u # s => tasks[u] = pr.tasks[u]
      BY <1>1, <2>3
    <2>5. UpdatePipelineRunStatus(pr.cond, tasks)
      BY <2>1
    <2> HIDE DEF tasks
    <2>6. /\ pr' \in PipelineRunObject(wf)
          /\ pr'.cancelled = pr.cancelled /\ pr'.cond = pr.cond /\ pr'.tasks = tasks
          /\ \/ pr' = pr /\ prRev' = prRev
             \/ prRev' = prRev + 1 /\ pr'.rv = prRev'
      BY <1>0, <1>1, <2>4, <2>5, UpdateFields
    <2>7. Final(wf, pr, pr')
      BY <2>3, <2>4, <2>6 DEF Final
    <2>8. ASSUME ConditionRight(wf, pr) PROVE ConditionRight(wf, pr')
      <3>1. pr.cond # "true"
        <4>1. ~IsSkipped(wf.steps, wf.dependsOn, pr.tasks)[s]
          <5>1. Skips(wf.steps, wf.dependsOn, pr.tasks, IsSkipped(wf.steps, wf.dependsOn, pr.tasks))
            BY <1>1, Workflow, IsSkippedSkips
          <5> QED BY <2>3, <5>1 DEF Skips
        <4>2. pr.tasks[s] # "succeeded"
          BY <2>3 DEF FinishedTask
        <4> QED BY <2>8, <4>1, <4>2 DEF ConditionRight
      <3>2. pr.cond = "failed" => \E u \in wf.steps : pr'.tasks[u] = "failed"
        BY <2>3, <2>4, <2>6, <2>8 DEF ConditionRight, FinishedTask
      <3>3. pr.cond = "cancelled" => pr'.cancelled
        BY <2>6, <2>8 DEF ConditionRight
      <3> QED BY <2>6, <3>1, <3>2, <3>3 DEF ConditionRight
    <2> QED BY <2>6, <2>7, <2>8
  <1>5. ASSUME NEW cond \in PipelineCondition, UpdatePipelineRunStatus(cond, pr.tasks),
               pr.cond \notin DonePipeline,
               cond = "timedout" \/ (cond = "cancelled" /\ pr.cancelled)
        PROVE  /\ pr' \in PipelineRunObject(wf) /\ pr'.cancelled = pr.cancelled
               /\ Final(wf, pr, pr') /\ ConditionRight(wf, pr')
               /\ \/ pr' = pr /\ prRev' = prRev
                  \/ prRev' = prRev + 1 /\ pr'.rv = prRev'
    <2>1. /\ pr' \in PipelineRunObject(wf)
          /\ pr'.cancelled = pr.cancelled /\ pr'.cond = cond /\ pr'.tasks = pr.tasks
          /\ \/ pr' = pr /\ prRev' = prRev
             \/ prRev' = prRev + 1 /\ pr'.rv = prRev'
      BY <1>0, <1>1, <1>5, UpdateFields
    <2> QED BY <1>5, <2>1 DEF Final, ConditionRight
  <1>6. CASE TektonTimeout
    <2>1. UpdatePipelineRunStatus("timedout", pr.tasks) /\ pr.cond \notin DonePipeline
      BY <1>6 DEF TektonTimeout, DonePipeline
    <2>2. "timedout" \in PipelineCondition
      BY DEF PipelineCondition
    <2> QED BY <1>0, <1>5, <2>1, <2>2
  <1>7. CASE TektonCancel
    <2>1. UpdatePipelineRunStatus("cancelled", pr.tasks) /\ pr.cond \notin DonePipeline
          /\ pr.cancelled
      BY <1>7 DEF TektonCancel
    <2>2. "cancelled" \in PipelineCondition
      BY DEF PipelineCondition
    <2> QED BY <1>0, <1>5, <2>1, <2>2
  <1> QED BY <1>0, <1>2, <1>3, <1>4, <1>6, <1>7 DEF Tekton, TektonStep

\* A reconciliation's own steps: where it stands and what it has read.
RecType(w) ==
    [pc : {"idle", "complete", "load", "apply", "upload", "persist"},
     run : RunObject(w) \cup {Absent}, pr : PipelineRunObject(w) \cup {Absent}]

\* What a reconciliation holds after each of its steps.
LEMMA RecFields ==
    ASSUME TypeOK
    PROVE  /\ LoadRun /\ rec' # rec =>
                 /\ rec' \in RecType(wf) /\ rec'.pc \in {"complete", "load"}
                 /\ rec'.pc = "complete" <=> wf.steps = {}
                 /\ rec'.run = runCache /\ rec'.pr = rec.pr /\ ~runCache.deleting
           /\ Complete =>
                 /\ rec' \in RecType(wf) /\ rec'.pc = "persist" /\ rec'.pr = rec.pr
                 /\ rec'.run \in RunObject(wf)
                 /\ rec'.run.rv = rec.run.rv /\ rec'.run.cancel = rec.run.cancel
                 /\ rec'.run.deleting = rec.run.deleting /\ rec'.run.steps = rec.run.steps
                 /\ rec'.run.status = "success"
           /\ LoadPipelineRun =>
                 /\ rec' \in RecType(wf) /\ rec'.pc = "apply" /\ rec'.run = rec.run
                 /\ rec'.pr = prCache
           /\ ApplyPipelineRun =>
                 /\ rec' \in RecType(wf) /\ rec'.pc = "upload" /\ rec'.run = rec.run
                 /\ rec'.pr = pr'
           /\ UploadLogs =>
                 /\ rec' \in RecType(wf) /\ rec'.pc = "persist" /\ rec'.pr = rec.pr
                 /\ rec'.run \in RunObject(wf) /\ rec.pc = "upload"
                 /\ \E uploaded \in SUBSET {s \in ToUpload : rec.pr.tasks[s] # "condfail"} :
                       /\ rec'.run = ConfigureWorkflowRun(uploaded)
                       /\ stored' = stored \cup uploaded
                       /\ lost' \subseteq lost \cup wf.steps
                 /\ failures' \in Nat
  <1>0. /\ rec \in RecType(wf)
        /\ rec.pc # "idle" => rec.run \in RunObject(wf)
        /\ runCache \in RunObject(wf) /\ prCache \in PipelineRunObject(wf) \cup {Absent}
    BY DEF TypeOK, RecType
  <1>1. ASSUME LoadRun, rec' # rec
        PROVE  /\ rec' \in RecType(wf) /\ rec'.pc \in {"complete", "load"}
               /\ rec'.pc = "complete" <=> wf.steps = {}
               /\ rec'.run = runCache /\ rec'.pr = rec.pr /\ ~runCache.deleting
    <2>1. ~runCache.deleting /\ rec' = [rec EXCEPT !.pc = IF wf.steps = {} THEN "complete" ELSE "load",
                                                   !.run = runCache]
      BY <1>1 DEF LoadRun
    <2> QED BY <1>0, <2>1 DEF RecType
  <1>2. ASSUME Complete
        PROVE  /\ rec' \in RecType(wf) /\ rec'.pc = "persist" /\ rec'.pr = rec.pr
               /\ rec'.run \in RunObject(wf)
               /\ rec'.run.rv = rec.run.rv /\ rec'.run.cancel = rec.run.cancel
               /\ rec'.run.deleting = rec.run.deleting /\ rec'.run.steps = rec.run.steps
               /\ rec'.run.status = "success"
    <2> DEFINE new == [rec.run EXCEPT !.status = "success"]
    <2>1. rec.run \in RunObject(wf)
      BY <1>0, <1>2 DEF Complete
    <2>2. rec' = [rec EXCEPT !.pc = "persist", !.run = new]
      BY <1>0, <1>2 DEF Complete, RecType
    <2>3. /\ new \in RunObject(wf) /\ new.rv = rec.run.rv /\ new.cancel = rec.run.cancel
          /\ new.deleting = rec.run.deleting /\ new.steps = rec.run.steps /\ new.status = "success"
      BY <2>1 DEF RunObject, Status
    <2> HIDE DEF new
    <2>4. rec' \in RecType(wf) /\ rec'.run = new /\ rec'.pc = "persist" /\ rec'.pr = rec.pr
      BY <1>0, <2>2, <2>3 DEF RecType
    <2> QED BY <2>3, <2>4
  <1>3. ASSUME LoadPipelineRun
        PROVE  /\ rec' \in RecType(wf) /\ rec'.pc = "apply" /\ rec'.run = rec.run
               /\ rec'.pr = prCache
    BY <1>0, <1>3 DEF LoadPipelineRun, RecType
  <1>4. ASSUME ApplyPipelineRun
        PROVE  /\ rec' \in RecType(wf) /\ rec'.pc = "upload" /\ rec'.run = rec.run
               /\ rec'.pr = pr'
    <2>1. pr' \in PipelineRunObject(wf) /\ rec' \in [pc : {"upload"}, run : {rec.run}, pr : {pr'}]
      BY <1>4, ApplyFields
    <2> QED BY <1>0, <2>1 DEF RecType
  <1>5. ASSUME UploadLogs
        PROVE  /\ rec' \in RecType(wf) /\ rec'.pc = "persist" /\ rec'.pr = rec.pr
               /\ rec'.run \in RunObject(wf) /\ rec.pc = "upload"
               /\ \E uploaded \in SUBSET {s \in ToUpload : rec.pr.tasks[s] # "condfail"} :
                     /\ rec'.run = ConfigureWorkflowRun(uploaded)
                     /\ stored' = stored \cup uploaded
                     /\ lost' \subseteq lost \cup wf.steps
               /\ failures' \in Nat
    <2> DEFINE Chosen(u) == LET missed == {s \in ToUpload \ u : rec.pr.tasks[s] # "condfail"}
                            IN  /\ failures' = IF missed = {} THEN failures ELSE failures + 1
                                /\ stored' = stored \cup u
                                /\ lost' = lost \cup missed
                                /\ rec' = [rec EXCEPT !.pc = "persist", !.run = ConfigureWorkflowRun(u)]
    <2>1. PICK u \in SUBSET {s \in ToUpload : rec.pr.tasks[s] # "condfail"} : Chosen(u)
      BY <1>5 DEF UploadLogs
    <2>2. ToUpload \subseteq wf.steps
      BY DEF ToUpload
    <2>3. rec.pc = "upload" /\ failures \in Nat
      BY <1>5 DEF UploadLogs, TypeOK
    <2>4. failures' \in Nat /\ stored' = stored \cup u /\ lost' \subseteq lost \cup wf.steps
      BY <2>1, <2>2, <2>3
    <2> DEFINE new == ConfigureWorkflowRun(u)
    <2>5. rec' = [rec EXCEPT !.pc = "persist", !.run = new]
      BY <2>1
    <2>6. u \in SUBSET wf.steps
      BY <2>2
    <2>7. new \in RunObject(wf)
      BY <2>3, <2>6, ConfigureFields
    <2> HIDE DEF new, Chosen
    <2>8. rec' \in RecType(wf) /\ rec'.pc = "persist" /\ rec'.pr = rec.pr /\ rec'.run = new
      BY <1>0, <2>5, <2>7 DEF RecType
    <2> QED BY <2>3, <2>4, <2>7, <2>8 DEF new
  <1> QED BY <1>1, <1>2, <1>3, <1>4, <1>5

\* A reconciliation that ends with an error.
Abort == ApplyPipelineRunRejected \/ PersistStatusRejected \/ Fail

\* An error changes no object and enqueues the run again.
LEMMA AbortFields ==
    ASSUME Abort
    PROVE  /\ rec' = NoReconcile /\ queued' = TRUE
           /\ UNCHANGED <<wf, run, pr, prRev, runCache, prCache, stored, lost>>
  BY DEF Abort, ApplyPipelineRunRejected, PersistStatusRejected, Fail, Return, objects, caches

\* Tekton writes to the PipelineRun only.
LEMMA TektonFrame ==
    ASSUME Tekton
    PROVE  UNCHANGED <<wf, run, runCache, prCache, rec, queued, stored, lost>>
  <1>1. ASSUME NEW cond, NEW tasks, UpdatePipelineRunStatus(cond, tasks)
        PROVE  UNCHANGED <<wf, run, runCache, prCache, rec, queued, stored, lost>>
    BY <1>1 DEF UpdatePipelineRunStatus, caches
  <1> QED BY <1>1 DEF Tekton, TektonStep, TektonTimeout, TektonStart, TektonCancel, TektonProgress,
                      TektonLateProgress, TektonSync

\* The steps of the system, those of Tekton and errors taken together.
LEMMA Steps ==
    ASSUME Next
    PROVE  \/ LoadRun \/ Complete \/ LoadPipelineRun \/ ApplyPipelineRun \/ UploadLogs
           \/ PersistStatus \/ Abort \/ OperatorRestart \/ RunEvent \/ PipelineRunEvent
           \/ Cancel \/ DeleteRun \/ CollectPipelineRun \/ Tekton
  BY DEF Next, ReconcileStep, Abort, Tekton

\* What a user does to a run.
LEMMA UserFields ==
    ASSUME TypeOK, Cancel \/ DeleteRun
    PROVE  /\ run' \in RunObject(wf) /\ run'.rv = run.rv + 1
           /\ run'.status = run.status /\ run'.steps = run.steps
           /\ Earlier(run, run')
           /\ DeleteRun => run'.deleting
           /\ ~run.deleting
           /\ UNCHANGED <<wf, pr, prRev, runCache, prCache, rec, queued, stored, lost>>
  <1>0. run \in RunObject(wf) /\ run.rv \in Nat
    BY DEF TypeOK, RunObject
  <1>1. run \in RunObject(wf) /\ run.rv \in Nat /\ run.rv + 1 \in Nat /\ run.rv <= run.rv + 1
    BY <1>0
  <1>2. CASE Cancel
    <2>1. run' = [run EXCEPT !.cancel = TRUE, !.rv = run.rv + 1]
      BY <1>2 DEF Cancel
    <2>2. /\ run' \in RunObject(wf) /\ run'.rv = run.rv + 1
          /\ run'.status = run.status /\ run'.steps = run.steps /\ run'.cancel
          /\ run'.deleting = run.deleting
      BY <1>1, <2>1 DEF RunObject
    <2>3. ~run.deleting /\ ~DeleteRun
          /\ UNCHANGED <<wf, pr, prRev, runCache, prCache, rec, queued, stored, lost>>
      BY <1>2, <2>2 DEF Cancel, DeleteRun, caches, RunObject
    <2> QED BY <1>1, <2>2, <2>3 DEF Earlier
  <1>3. CASE DeleteRun
    <2>1. run' = [run EXCEPT !.deleting = TRUE, !.rv = run.rv + 1]
      BY <1>3 DEF DeleteRun
    <2>2. /\ run' \in RunObject(wf) /\ run'.rv = run.rv + 1
          /\ run'.status = run.status /\ run'.steps = run.steps /\ run'.deleting
          /\ run'.cancel = run.cancel
      BY <1>1, <2>1 DEF RunObject
    <2>3. ~run.deleting
          /\ UNCHANGED <<wf, pr, prRev, runCache, prCache, rec, queued, stored, lost>>
      BY <1>3 DEF DeleteRun, caches
    <2> QED BY <1>1, <2>2, <2>3 DEF Earlier
  <1> QED BY <1>2, <1>3

\* Both objects, every copy of them and the reconciliation keep their types.
THEOREM TypeCorrect == Spec => []TypeOK
  <1>1. Init => TypeOK
    <2> SUFFICES ASSUME Init PROVE TypeOK
      OBVIOUS
    <2>1. run \in RunObject(wf)
      BY DEF Init, NewRun, Unreported, RunObject
    <2>2. rec \in RecType(wf) /\ rec.pc = "idle"
      BY DEF Init, NoReconcile, RecType
    <2> QED BY <2>1, <2>2 DEF Init, TypeOK, RecType
  <1>2. TypeOK /\ [Next]_vars => TypeOK'
    <2> SUFFICES ASSUME TypeOK, [Next]_vars PROVE TypeOK'
      OBVIOUS
    <2> DEFINE Rest == /\ wf \in Workflows /\ run \in RunObject(wf) /\ runCache \in RunObject(wf)
                       /\ pr \in PipelineRunObject(wf) \cup {Absent}
                       /\ prCache \in PipelineRunObject(wf) \cup {Absent}
                       /\ prRev \in Nat /\ queued \in BOOLEAN /\ stored \subseteq wf.steps
                       /\ lost \subseteq wf.steps
               RecOK == /\ rec \in RecType(wf)
                        /\ rec.pc # "idle" => rec.run # Absent
                        /\ rec.pc = "upload" => rec.pr # Absent
               Counts == timeouts \in Nat /\ failures \in Nat /\ collected \in Nat
    <2>0. Rest /\ RecOK /\ Counts
      BY DEF TypeOK, RecType
    <2>1. Rest' /\ RecOK' /\ Counts' => TypeOK'
      BY DEF TypeOK, RecType
    <2>2. Absent \notin RunObject(wf) /\ Absent \notin PipelineRunObject(wf)
      BY <2>0, Workflow
    <2>3. Counts'
      <3>0. timeouts + 1 \in Nat /\ failures + 1 \in Nat /\ collected + 1 \in Nat
        BY <2>0
      <3>1. CASE UploadLogs
        BY <2>0, <3>1, RecFields DEF UploadLogs
      <3>2. CASE Tekton
        <4>1. ASSUME NEW cond, NEW tasks, UpdatePipelineRunStatus(cond, tasks)
              PROVE  UNCHANGED <<failures, collected>>
          BY <4>1 DEF UpdatePipelineRunStatus
        <4>2. UNCHANGED <<failures, collected>>
          BY <3>2, <4>1 DEF Tekton, TektonStep, TektonTimeout, TektonStart, TektonCancel,
                            TektonProgress, TektonLateProgress, TektonSync
        <4>3. timeouts' = timeouts \/ timeouts' = timeouts + 1
          BY <3>2 DEF Tekton, TektonStep, TektonTimeout, TektonStart, TektonCancel,
                      TektonProgress, TektonLateProgress
        <4> QED BY <2>0, <3>0, <4>2, <4>3
      <3>3. CASE Abort
        BY <2>0, <3>0, <3>3 DEF Abort, ApplyPipelineRunRejected, PersistStatusRejected, Fail, bounds
      <3>4. CASE OperatorRestart \/ CollectPipelineRun
        BY <2>0, <3>0, <3>4 DEF OperatorRestart, CollectPipelineRun
      <3>5. CASE UNCHANGED bounds
        BY <2>0, <3>5 DEF bounds
      <3>6. ASSUME \/ LoadRun \/ Complete \/ LoadPipelineRun \/ ApplyPipelineRun
                   \/ PersistStatus \/ RunEvent \/ PipelineRunEvent \/ Cancel \/ DeleteRun
            PROVE  UNCHANGED bounds
        BY <3>6 DEF LoadRun, Complete, LoadPipelineRun, ApplyPipelineRun, PersistStatus,
                    RunEvent, PipelineRunEvent, Cancel, DeleteRun
      <3> QED BY <3>1, <3>2, <3>3, <3>4, <3>5, <3>6, Steps DEF vars
    <2> HIDE DEF Counts
    <2>4. CASE LoadRun
      <3>1. UNCHANGED <<wf, run, runCache, pr, prCache, prRev, stored, lost>> /\ queued' = FALSE
        BY <2>4 DEF LoadRun, objects, caches
      <3>2. Rest'
        BY <2>0, <3>1
      <3>3. RecOK'
        <4>1. CASE rec' = rec
          BY <2>0, <3>1, <4>1
        <4>2. CASE rec' # rec
          <5>1. rec' \in RecType(wf) /\ rec'.pc \in {"complete", "load"} /\ rec'.run = runCache
            BY <2>4, <4>2, RecFields
          <5> QED BY <2>0, <2>2, <3>1, <5>1
        <4> QED BY <4>1, <4>2
      <3> QED BY <2>1, <2>3, <3>2, <3>3
    <2>5. CASE Complete
      <3>1. UNCHANGED <<wf, run, runCache, pr, prCache, prRev, stored, lost, queued>>
        BY <2>5 DEF Complete, objects, caches
      <3>2. rec' \in RecType(wf) /\ rec'.pc = "persist" /\ rec'.run \in RunObject(wf)
        BY <2>5, RecFields
      <3> QED BY <2>0, <2>1, <2>2, <2>3, <3>1, <3>2
    <2>6. CASE LoadPipelineRun
      <3>1. UNCHANGED <<wf, run, runCache, pr, prCache, prRev, stored, lost, queued>> /\ rec.pc # "idle"
        BY <2>6 DEF LoadPipelineRun, objects, caches
      <3>2. rec' \in RecType(wf) /\ rec'.pc = "apply" /\ rec'.run = rec.run
        BY <2>6, RecFields
      <3> QED BY <2>0, <2>1, <2>3, <3>1, <3>2
    <2>7. CASE ApplyPipelineRun
      <3>1. UNCHANGED <<wf, run, runCache, prCache, stored, lost, queued>> /\ rec.pc # "idle"
        BY <2>7 DEF ApplyPipelineRun, caches
      <3>2. rec' \in RecType(wf) /\ rec'.pc = "upload" /\ rec'.run = rec.run /\ rec'.pr = pr'
        BY <2>7, RecFields
      <3>3. pr' \in PipelineRunObject(wf) /\ prRev' \in {prRev, prRev + 1}
        BY <2>7, ApplyFields
      <3>4. prRev' \in Nat
        BY <2>0, <3>3
      <3>5. Rest'
        BY <2>0, <3>1, <3>3, <3>4
      <3>6. RecOK'
        BY <2>0, <2>2, <3>1, <3>2, <3>3
      <3> QED BY <2>1, <2>3, <3>5, <3>6
    <2>8. CASE UploadLogs
      <3>1. UNCHANGED <<wf, run, runCache, pr, prCache, prRev, queued>>
        BY <2>8 DEF UploadLogs, objects, caches
      <3>2. /\ rec' \in RecType(wf) /\ rec'.pc = "persist" /\ rec'.run \in RunObject(wf)
            /\ \E u \in SUBSET {s \in ToUpload : rec.pr.tasks[s] # "condfail"} :
                  stored' = stored \cup u /\ lost' \subseteq lost \cup wf.steps
        BY <2>8, RecFields
      <3>3. stored' \subseteq wf.steps /\ lost' \subseteq wf.steps
        BY <2>0, <3>2 DEF ToUpload
      <3> QED BY <2>0, <2>1, <2>2, <2>3, <3>1, <3>2, <3>3
    <2>9. ASSUME rec' = NoReconcile, queued' \in BOOLEAN,
                 UNCHANGED <<wf, pr, prRev, stored, lost>>,
                 run' \in RunObject(wf), runCache' \in RunObject(wf),
                 prCache' \in PipelineRunObject(wf) \cup {Absent}
          PROVE  TypeOK'
      <3>1. RecOK'
        BY <2>9 DEF NoReconcile, RecType
      <3> QED BY <2>0, <2>1, <2>3, <2>9, <3>1
    <2>10. CASE PersistStatus
      <3>1. UNCHANGED <<wf, pr, prRev, runCache, prCache, stored, lost>> /\ rec' = NoReconcile
            /\ queued' = queued /\ PutRun(rec.run) /\ rec.pc # "idle"
        BY <2>10 DEF PersistStatus, Return, caches
      <3>2. rec.run \in RunObject(wf)
        BY <2>0, <3>1 DEF RecType
      <3>3. run' \in RunObject(wf)
        BY <2>0, <3>1, <3>2, PutRunFields
      <3> QED BY <2>0, <2>9, <3>1, <3>3
    <2>11. CASE Abort
      BY <2>0, <2>9, <2>11, AbortFields
    <2>12. CASE OperatorRestart
      BY <2>0, <2>9, <2>12 DEF OperatorRestart, Return, objects
    <2>13. CASE RunEvent
      <3>1. UNCHANGED <<wf, run, pr, prCache, prRev, rec, stored, lost>> /\ queued' = TRUE
            /\ runCache' = run
        BY <2>13 DEF RunEvent, objects
      <3> QED BY <2>0, <2>1, <2>3, <3>1
    <2>14. CASE PipelineRunEvent
      <3>1. UNCHANGED <<wf, run, pr, runCache, prRev, rec, stored, lost>> /\ queued' = TRUE
            /\ prCache' = pr
        BY <2>14 DEF PipelineRunEvent, objects
      <3> QED BY <2>0, <2>1, <2>3, <3>1
    <2>15. CASE Cancel \/ DeleteRun
      <3>1. /\ run' \in RunObject(wf)
            /\ UNCHANGED <<wf, pr, prRev, runCache, prCache, rec, queued, stored, lost>>
        BY <2>15, UserFields
      <3> QED BY <2>0, <2>1, <2>3, <3>1
    <2>16. CASE CollectPipelineRun
      <3>1. UNCHANGED <<wf, run, prRev, runCache, prCache, rec, queued, stored, lost>> /\ pr' = Absent
        BY <2>16 DEF CollectPipelineRun, caches
      <3> QED BY <2>0, <2>1, <2>3, <3>1
    <2>17. CASE Tekton
      <3>1. UNCHANGED <<wf, run, runCache, prCache, rec, queued, stored, lost>>
        BY <2>17, TektonFrame
      <3>2. pr' \in PipelineRunObject(wf) /\ prRev' \in {prRev, prRev + 1}
        BY <2>17, TektonFields
      <3>3. prRev' \in Nat
        BY <2>0, <3>2
      <3> QED BY <2>0, <2>1, <2>3, <3>1, <3>2, <3>3
    <2>18. CASE UNCHANGED vars
      BY <2>0, <2>1, <2>3, <2>18 DEF vars, objects, caches
    <2> HIDE DEF Rest, RecOK
    <2> QED BY <2>4, <2>5, <2>6, <2>7, <2>8, <2>10, <2>11, <2>12, <2>13, <2>14, <2>15, <2>16,
               <2>17, <2>18, Steps
  <1> QED BY <1>1, <1>2, PTL DEF Spec

-----------------------------------------------------------------------------
(* Copies *)

\* Versions are numbers, and a reconciliation has a run.
LEMMA Versions ==
    ASSUME TypeOK
    PROVE  /\ run.rv \in Nat /\ runCache.rv \in Nat /\ prRev \in Nat
           /\ rec.pc # "idle" => rec.run \in RunObject(wf) /\ rec.run.rv \in Nat
  <1>1. run \in RunObject(wf) /\ runCache \in RunObject(wf) /\ prRev \in Nat
        /\ (rec.pc # "idle" => rec.run \in RunObject(wf))
    BY DEF TypeOK
  <1> QED BY <1>1 DEF RunObject

\* The objects change in these steps only.
LEMMA Frame ==
    ASSUME TypeOK, [Next]_vars
    PROVE  /\ run' = run \/ PersistStatus \/ Cancel \/ DeleteRun
           /\ runCache' = runCache \/ (runCache' = run /\ run' = run /\ (RunEvent \/ OperatorRestart))
           /\ \/ prCache' = prCache
              \/ prCache' = pr /\ pr' = pr /\ prRev' = prRev /\ (PipelineRunEvent \/ OperatorRestart)
           /\ \/ pr' = pr /\ prRev' = prRev
              \/ pr' = Absent /\ prRev' = prRev /\ CollectPipelineRun
              \/ prRev' = prRev + 1 /\ pr'.rv = prRev' /\ (ApplyPipelineRun \/ Tekton)
           /\ wf' = wf
  <1> USE DEF objects, caches
  <1>1. CASE LoadRun
    BY <1>1 DEF LoadRun
  <1>2. CASE Complete
    BY <1>2 DEF Complete
  <1>3. CASE LoadPipelineRun
    BY <1>3 DEF LoadPipelineRun
  <1>4. CASE ApplyPipelineRun
    <2>1. \/ pr' = pr /\ prRev' = prRev
          \/ prRev' = prRev + 1 /\ pr'.rv = prRev'
      BY <1>4, ApplyFields
    <2>2. UNCHANGED <<wf, run, runCache, prCache>>
      BY <1>4 DEF ApplyPipelineRun
    <2> QED BY <1>4, <2>1, <2>2
  <1>5. CASE UploadLogs
    BY <1>5 DEF UploadLogs
  <1>6. CASE PersistStatus
    BY <1>6 DEF PersistStatus
  <1>7. CASE Abort
    BY <1>7, AbortFields
  <1>8. CASE OperatorRestart
    BY <1>8 DEF OperatorRestart
  <1>9. CASE RunEvent
    BY <1>9 DEF RunEvent
  <1>10. CASE PipelineRunEvent
    BY <1>10 DEF PipelineRunEvent
  <1>11. CASE Cancel \/ DeleteRun
    BY <1>11, UserFields
  <1>12. CASE CollectPipelineRun
    BY <1>12 DEF CollectPipelineRun
  <1>13. CASE Tekton
    <2>1. \/ pr' = pr /\ prRev' = prRev
          \/ prRev' = prRev + 1 /\ pr'.rv = prRev'
      BY <1>13, TektonFields
    <2>2. UNCHANGED <<wf, run, runCache, prCache>>
      BY <1>13, TektonFrame
    <2> QED BY <1>13, <2>1, <2>2
  <1>14. CASE UNCHANGED vars
    BY <1>14 DEF vars
  <1> QED BY <1>1, <1>2, <1>3, <1>4, <1>5, <1>6, <1>7, <1>8, <1>9, <1>10, <1>11, <1>12, <1>13,
             <1>14, Steps

\* A reconciliation begins, goes on with the run that it has read, or ends.
LEMMA RecSteps ==
    ASSUME TypeOK, [Next]_vars
    PROVE  \/ rec' = rec /\ (queued' = queued \/ queued' = TRUE \/ rec.pc = "idle")
           \/ LoadRun /\ rec' # rec
           \/ rec' = NoReconcile
           \/ /\ rec.pc # "idle" /\ rec'.pc # "idle"
              /\ Complete \/ LoadPipelineRun \/ ApplyPipelineRun \/ UploadLogs
              /\ queued' = queued
              /\ rec'.run.rv = rec.run.rv /\ rec'.run.cancel = rec.run.cancel
              /\ rec'.run.deleting = rec.run.deleting
  <1>1. CASE LoadRun
    BY <1>1 DEF LoadRun
  <1>2. CASE Complete
    <2>1. /\ rec'.pc = "persist" /\ rec'.run.rv = rec.run.rv /\ rec'.run.cancel = rec.run.cancel
          /\ rec'.run.deleting = rec.run.deleting
      BY <1>2, RecFields
    <2> QED BY <1>2, <2>1 DEF Complete
  <1>3. CASE LoadPipelineRun
    <2>1. rec'.pc = "apply" /\ rec'.run = rec.run
      BY <1>3, RecFields
    <2> QED BY <1>3, <2>1 DEF LoadPipelineRun
  <1>4. CASE ApplyPipelineRun
    <2>1. rec'.pc = "upload" /\ rec'.run = rec.run
      BY <1>4, RecFields
    <2> QED BY <1>4, <2>1 DEF ApplyPipelineRun
  <1>5. CASE UploadLogs
    <2>1. PICK u \in SUBSET {s \in ToUpload : rec.pr.tasks[s] # "condfail"} :
             rec'.run = ConfigureWorkflowRun(u)
      BY <1>5, RecFields
    <2>2. u \in SUBSET wf.steps /\ rec.pc = "upload" /\ rec'.pc = "persist" /\ queued' = queued
      BY <1>5, RecFields DEF ToUpload, UploadLogs
    <2>3. /\ rec'.run.rv = rec.run.rv /\ rec'.run.cancel = rec.run.cancel
          /\ rec'.run.deleting = rec.run.deleting
      BY <2>1, <2>2, ConfigureFields
    <2> QED BY <1>5, <2>2, <2>3
  <1>6. CASE PersistStatus \/ OperatorRestart
    BY <1>6 DEF PersistStatus, OperatorRestart, Return
  <1>7. CASE Abort
    BY <1>7, AbortFields
  <1>8. CASE RunEvent \/ PipelineRunEvent
    BY <1>8 DEF RunEvent, PipelineRunEvent
  <1>9. CASE Cancel \/ DeleteRun
    BY <1>9, UserFields
  <1>10. CASE CollectPipelineRun
    BY <1>10 DEF CollectPipelineRun
  <1>11. CASE Tekton
    BY <1>11, TektonFrame
  <1>12. CASE UNCHANGED vars
    BY <1>12 DEF vars
  <1> QED BY <1>1, <1>2, <1>3, <1>4, <1>5, <1>6, <1>7, <1>8, <1>9, <1>10, <1>11, <1>12, Steps

\* Copies of a run are ordered.
LEMMA EarlierOrder ==
    ASSUME NEW a, NEW b, NEW c, a.rv \in Nat, b.rv \in Nat, c.rv \in Nat
    PROVE  Earlier(a, a) /\ (Earlier(a, b) /\ Earlier(b, c) => Earlier(a, c))
  BY DEF Earlier

\* A step keeps the copies of the run in order.
LEMMA RunCopiesKept ==
    ASSUME TypeOK, TypeOK', [Next]_vars, RunCopies
    PROVE  RunCopies'
  <1> DEFINE Cached == Earlier(runCache, run) /\ (runCache.rv = run.rv => runCache = run)
             Read == rec.pc # "idle" =>
                        /\ Earlier(rec.run, runCache)
                        /\ ~ rec.run.deleting
                        /\ rec.run.rv = run.rv => rec.run.cancel = run.cancel /\ ~ run.deleting
                        /\ ~ queued => rec.run.rv = runCache.rv
  <1>0. Cached /\ Read /\ (Cached' /\ Read' => RunCopies')
    BY DEF RunCopies
  <1>1. /\ run.rv \in Nat /\ runCache.rv \in Nat /\ run'.rv \in Nat /\ runCache'.rv \in Nat
        /\ rec.pc # "idle" => rec.run \in RunObject(wf) /\ rec.run.rv \in Nat
        /\ rec'.pc # "idle" => rec'.run.rv \in Nat
    <2>1. /\ run' \in RunObject(wf') /\ runCache' \in RunObject(wf')
          /\ rec'.pc # "idle" => rec'.run \in RunObject(wf')
      BY DEF TypeOK
    <2>2. run'.rv \in Nat /\ runCache'.rv \in Nat /\ (rec'.pc # "idle" => rec'.run.rv \in Nat)
      BY <2>1 DEF RunObject
    <2> QED BY <2>2, Versions
  <1>2. /\ run' = run \/ PersistStatus \/ Cancel \/ DeleteRun
        /\ runCache' = runCache \/ (runCache' = run /\ run' = run /\ (RunEvent \/ OperatorRestart))
    BY Frame
  <1>3. CASE PersistStatus
    <2>1. rec.pc # "idle" /\ run.rv = rec.run.rv /\ PutRun(rec.run) /\ rec' = NoReconcile
          /\ runCache' = runCache
      BY <1>3 DEF PersistStatus, Return, caches
    <2>2. run \in RunObject(wf) /\ rec.run \in RunObject(wf)
      BY <1>1, <2>1 DEF TypeOK
    <2>3. /\ \/ run' = run
             \/ run'.rv = run.rv + 1
          /\ run'.cancel = rec.run.cancel /\ run'.deleting = rec.run.deleting
      BY <2>1, <2>2, PutRunFields
    <2>4. Earlier(run, run') /\ (run' = run \/ run'.rv = run.rv + 1)
      BY <1>0, <1>1, <2>1, <2>3 DEF Earlier
    <2>5. Cached'
      BY <1>0, <1>1, <2>1, <2>4 DEF Earlier
    <2>6. Read'
      BY <2>1 DEF NoReconcile
    <2> QED BY <1>0, <2>5, <2>6
  <1>4. CASE Cancel \/ DeleteRun
    <2>1. Earlier(run, run') /\ run'.rv = run.rv + 1 /\ UNCHANGED <<runCache, rec, queued>>
      BY <1>4, UserFields
    <2>2. Cached'
      BY <1>0, <1>1, <2>1 DEF Earlier
    <2>3. ASSUME rec.pc # "idle" PROVE rec.run.rv # run'.rv
      BY <1>0, <1>1, <2>1, <2>3 DEF Earlier
    <2>4. Read'
      BY <1>0, <2>1, <2>3
    <2> QED BY <1>0, <2>2, <2>4
  <1>5. CASE run' = run
    <2>1. Cached'
      BY <1>0, <1>1, <1>2, <1>5 DEF Earlier
    <2>2. Earlier(runCache, runCache')
      BY <1>0, <1>1, <1>2 DEF Earlier
    <2>3. CASE rec' = rec /\ (queued' = queued \/ queued' = TRUE \/ rec.pc = "idle")
      <3>1. ASSUME rec.pc # "idle" PROVE Earlier(rec.run, runCache')
        BY <1>0, <1>1, <2>2, <3>1, EarlierOrder
      <3>2. ASSUME rec.pc # "idle", ~queued' PROVE rec.run.rv = runCache'.rv
        <4>1. runCache' = runCache
          BY <1>2, <2>3, <3>2 DEF RunEvent, OperatorRestart, Return
        <4>2. ~queued
          BY <2>3, <3>2
        <4> QED BY <1>0, <3>2, <4>1, <4>2
      <3>3. Read'
        BY <1>0, <1>5, <2>3, <3>1, <3>2
      <3> QED BY <1>0, <2>1, <3>3
    <2>4. CASE LoadRun /\ rec' # rec
      <3>1. rec'.run = runCache /\ ~runCache.deleting /\ runCache' = runCache
        BY <2>4, RecFields DEF LoadRun, caches
      <3>2. Read'
        BY <1>0, <1>1, <1>5, <3>1, EarlierOrder
      <3> QED BY <1>0, <2>1, <3>2
    <2>5. CASE rec' = NoReconcile
      BY <1>0, <2>1, <2>5 DEF NoReconcile
    <2>6. CASE /\ rec.pc # "idle" /\ rec'.pc # "idle"
               /\ Complete \/ LoadPipelineRun \/ ApplyPipelineRun \/ UploadLogs
               /\ queued' = queued
               /\ rec'.run.rv = rec.run.rv /\ rec'.run.cancel = rec.run.cancel
               /\ rec'.run.deleting = rec.run.deleting
      <3>1. runCache' = runCache
        BY <2>6 DEF Complete, LoadPipelineRun, ApplyPipelineRun, UploadLogs, caches
      <3>2. Read'
        BY <1>0, <1>5, <2>6, <3>1 DEF Earlier
      <3> QED BY <1>0, <2>1, <3>2
    <2> HIDE DEF Cached, Read
    <2> QED BY <2>3, <2>4, <2>5, <2>6, RecSteps
  <1> QED BY <1>2, <1>3, <1>4, <1>5

\* A step keeps the copies of the PipelineRun in order.
LEMMA PipelineRunCopiesKept ==
    ASSUME TypeOK, TypeOK', [Next]_vars, PipelineRunCopies
    PROVE  PipelineRunCopies'
  <1> DEFINE Good(x) == x # Absent => x.rv <= prRev /\ (pr # Absent /\ x.rv = prRev => x = pr)
  <1>0. /\ pr # Absent => pr.rv = prRev
        /\ Good(prCache) /\ Good(rec.pr) /\ Good(pr)
        /\ prRev \in Nat /\ prRev' \in Nat
        /\ (pr # Absent => pr.rv = prRev)' /\ Good(prCache)' /\ Good(rec.pr)' => PipelineRunCopies'
    <2>1. prRev \in Nat /\ prRev' \in Nat
      BY DEF TypeOK
    <2> QED BY <2>1 DEF PipelineRunCopies
  <1>1. /\ \/ prCache' = prCache
           \/ prCache' = pr
        /\ \/ pr' = pr /\ prRev' = prRev
           \/ pr' = Absent /\ prRev' = prRev /\ CollectPipelineRun
           \/ prRev' = prRev + 1 /\ pr'.rv = prRev' /\ (ApplyPipelineRun \/ Tekton)
    BY Frame
  <1>2. rec'.pr \in {rec.pr, prCache, pr', Absent}
    <2>1. CASE LoadRun /\ rec' # rec
      BY <2>1, RecFields
    <2>2. CASE Complete \/ LoadPipelineRun \/ ApplyPipelineRun \/ UploadLogs
      BY <2>2, RecFields
    <2>3. CASE rec' = rec \/ rec' = NoReconcile
      BY <2>3 DEF NoReconcile
    <2> QED BY <2>1, <2>2, <2>3, RecSteps
  <1>3. (pr # Absent => pr.rv = prRev)'
    BY <1>0, <1>1
  <1>4. ASSUME NEW x, x = Absent \/ x.rv \in Nat, Good(x)
        PROVE  x # Absent => x.rv <= prRev' /\ (pr' # Absent /\ x.rv = prRev' => x = pr')
    BY <1>0, <1>1, <1>4
  <1>5. \A x \in {prCache, rec.pr, pr} : x = Absent \/ x.rv \in Nat
    BY DEF TypeOK, PipelineRunObject
  <1>6. Good(prCache)'
    BY <1>0, <1>1, <1>4, <1>5
  <1>7. Good(rec.pr)'
    BY <1>0, <1>1, <1>2, <1>3, <1>4, <1>5
  <1> QED BY <1>0, <1>3, <1>6, <1>7

\* A cancellation of the PipelineRun has been seen by every reconciliation.
LEMMA CancelSeenKept ==
    ASSUME TypeOK, [Next]_vars, RunCopies, CancelSeen
    PROVE  CancelSeen'
  <1> SUFFICES ASSUME pr' # Absent, pr'.cancelled
               PROVE  runCache'.cancel /\ (rec'.pc # "idle" => rec'.run.cancel)
    BY DEF CancelSeen
  <1>1. CASE ApplyPipelineRun
    <2>1. pr'.cancelled = rec.run.cancel /\ rec.pc # "idle"
      BY <1>1, ApplyFields DEF ApplyPipelineRun
    <2>2. rec'.run = rec.run /\ runCache' = runCache
      BY <1>1, RecFields DEF ApplyPipelineRun, caches
    <2>3. runCache.cancel
      BY <2>1 DEF RunCopies, Earlier
    <2> QED BY <2>1, <2>2, <2>3
  <1>2. CASE ~ApplyPipelineRun
    <2>1. pr # Absent /\ pr.cancelled
      <3>1. CASE Tekton
        BY <3>1, TektonFields
      <3>2. CASE ~Tekton
        BY <1>2, <3>2, Frame
      <3> QED BY <3>1, <3>2
    <2>2. runCache.cancel /\ (rec.pc # "idle" => rec.run.cancel) /\ run.cancel
      BY <2>1 DEF CancelSeen, RunCopies, Earlier
    <2>3. runCache' = runCache \/ runCache' = run
      BY Frame
    <2>4. rec'.pc # "idle" => rec'.run.cancel
      <3>1. CASE LoadRun /\ rec' # rec
        BY <2>2, <3>1, RecFields
      <3>2. CASE ~(LoadRun /\ rec' # rec)
        <4>1. CASE rec' = rec \/ rec' = NoReconcile
          BY <2>2, <4>1 DEF NoReconcile
        <4>2. CASE rec.pc # "idle" /\ rec'.run.cancel = rec.run.cancel
          BY <2>2, <4>2
        <4> QED BY <3>2, <4>1, <4>2, RecSteps
      <3> QED BY <3>1, <3>2
    <2> QED BY <2>2, <2>3, <2>4
  <1> QED BY <1>1, <1>2

\* The copies of both objects, for every behaviour.
THEOREM CopiesCorrect == Spec => [](RunCopies /\ PipelineRunCopies /\ CancelSeen)
  <1>1. Init => RunCopies /\ PipelineRunCopies /\ CancelSeen
    <2> SUFFICES ASSUME Init PROVE RunCopies /\ PipelineRunCopies /\ CancelSeen
      OBVIOUS
    <2>1. run = NewRun /\ runCache = run /\ rec = NoReconcile /\ pr = Absent /\ prCache = Absent
      BY DEF Init
    <2>2. rec.pc = "idle" /\ rec.pr = Absent
      BY <2>1 DEF NoReconcile
    <2>3. run.rv = 1
      BY <2>1 DEF NewRun
    <2> QED BY <2>1, <2>2, <2>3 DEF RunCopies, PipelineRunCopies, CancelSeen, Earlier
  <1>2. /\ TypeOK /\ TypeOK' /\ [Next]_vars /\ RunCopies /\ PipelineRunCopies /\ CancelSeen
        => (RunCopies /\ PipelineRunCopies /\ CancelSeen)'
    BY RunCopiesKept, PipelineRunCopiesKept, CancelSeenKept
  <1> QED BY <1>1, <1>2, TypeCorrect, PTL DEF Spec

\* ConfigurePipelineRun never withdraws a cancellation.
THEOREM CancelKept == Spec => CancelSticks
  <1>1. ASSUME TypeOK, CancelSeen, [Next]_vars
        PROVE  [pr # Absent /\ pr' # Absent /\ pr.cancelled => pr'.cancelled]_vars
    <2> SUFFICES ASSUME pr # Absent, pr' # Absent, pr.cancelled PROVE pr'.cancelled
      OBVIOUS
    <2>1. CASE ApplyPipelineRun
      <3>1. pr'.cancelled = rec.run.cancel
        BY <1>1, <2>1, ApplyFields
      <3>2. rec.run.cancel
        BY <1>1, <2>1 DEF CancelSeen, ApplyPipelineRun
      <3> QED BY <3>1, <3>2
    <2>2. CASE Tekton
      BY <1>1, <2>2, TektonFields
    <2>3. CASE ~ApplyPipelineRun /\ ~Tekton
      BY <1>1, <2>3, Frame
    <2> QED BY <2>1, <2>2, <2>3
  <1> QED BY <1>1, TypeCorrect, CopiesCorrect, PTL DEF Spec, CancelSticks

-----------------------------------------------------------------------------
(* What is reported *)

\* What is final stays final.
LEMMA FinalOrder ==
    ASSUME NEW w, NEW x, NEW y, NEW z
    PROVE  Final(w, x, x) /\ (Final(w, x, y) /\ Final(w, y, z) => Final(w, x, z))
  BY DEF Final

\* How a reconciliation comes to have a status to write.
LEMMA WorkingSteps ==
    ASSUME TypeOK, [Next]_vars, rec'.pc \in {"upload", "persist"}
    PROVE  rec' = rec \/ Complete \/ ApplyPipelineRun \/ UploadLogs
  <1>1. CASE LoadRun /\ rec' # rec
    BY <1>1, RecFields
  <1>2. CASE LoadPipelineRun
    BY <1>2, RecFields
  <1>3. CASE rec' = NoReconcile
    BY <1>3 DEF NoReconcile
  <1> QED BY <1>1, <1>2, <1>3, RecSteps

\* A workflow without steps has no PipelineRun.
LEMMA PlaceKept ==
    ASSUME TypeOK, [Next]_vars, PlaceRight
    PROVE  PlaceRight'
  <1>0. wf' = wf
    BY Frame
  <1>1. CASE rec' = rec
    BY <1>0, <1>1 DEF PlaceRight
  <1>2. CASE rec' = NoReconcile
    BY <1>2 DEF PlaceRight, NoReconcile
  <1>3. CASE LoadRun /\ rec' # rec
    <2>1. rec'.pc \in {"complete", "load"} /\ (rec'.pc = "complete" <=> wf.steps = {})
      BY <1>3, RecFields
    <2> QED BY <1>0, <2>1 DEF PlaceRight
  <1>4. CASE Complete
    <2>1. rec.pc = "complete" /\ rec'.pc = "persist"
      BY <1>4, RecFields DEF Complete
    <2> QED BY <1>0, <2>1 DEF PlaceRight
  <1>5. CASE LoadPipelineRun
    <2>1. rec.pc = "load" /\ rec'.pc = "apply"
      BY <1>5, RecFields DEF LoadPipelineRun
    <2> QED BY <1>0, <2>1 DEF PlaceRight
  <1>6. CASE ApplyPipelineRun
    <2>1. rec.pc = "apply" /\ rec'.pc = "upload"
      BY <1>6, RecFields DEF ApplyPipelineRun
    <2> QED BY <1>0, <2>1 DEF PlaceRight
  <1>7. CASE UploadLogs
    <2>1. rec.pc = "upload" /\ rec'.pc = "persist"
      BY <1>7, RecFields DEF UploadLogs
    <2> QED BY <1>0, <2>1 DEF PlaceRight
  <1> QED BY <1>1, <1>2, <1>3, <1>4, <1>5, <1>6, <1>7, RecSteps

\* What ApplyPipelineRun loaded is what there is, so that only the cancellation
\* changes, and Tekton's condition stays right.
LEMMA ApplyRight ==
    ASSUME TypeOK, PipelineRunCopies, CancelSeen, TektonRight, ApplyPipelineRun
    PROVE  /\ pr' # Absent /\ ConditionRight(wf, pr')
           /\ pr # Absent => Final(wf, pr, pr') /\ pr'.cond = pr.cond /\ pr'.tasks = pr.tasks
           /\ pr = Absent => pr'.cond = "none" /\ \A s \in wf.steps : pr'.tasks[s] = "none"
  <1>1. /\ pr' # Absent
        /\ pr'.cancelled = rec.run.cancel
        /\ \/ /\ rec.pr = Absent /\ pr = Absent /\ pr'.cond = "none"
              /\ \A s \in wf.steps : pr'.tasks[s] = "none"
           \/ /\ rec.pr # Absent /\ pr # Absent /\ pr.rv = rec.pr.rv
              /\ pr'.cond = rec.pr.cond /\ pr'.tasks = rec.pr.tasks
    BY ApplyFields
  <1>2. CASE pr = Absent
    BY <1>1, <1>2 DEF ConditionRight
  <1>3. CASE pr # Absent
    <2>1. rec.pr = pr
      BY <1>1, <1>3 DEF PipelineRunCopies
    <2>2. pr'.cond = pr.cond /\ pr'.tasks = pr.tasks
      BY <1>1, <1>3, <2>1
    <2>3. ASSUME pr.cancelled PROVE pr'.cancelled
      <3>1. rec.run.cancel
        BY <1>3, <2>3 DEF CancelSeen, ApplyPipelineRun
      <3> QED BY <1>1, <3>1
    <2>4. ConditionRight(wf, pr')
      BY <1>3, <2>2, <2>3 DEF ConditionRight, TektonRight
    <2> QED BY <1>1, <1>3, <2>2, <2>4 DEF Final
  <1> QED BY <1>2, <1>3

\* The PipelineRun of a run that is not being deleted stays, and so does what
\* is final in it.
LEMMA PipelineRunStays ==
    ASSUME TypeOK, [Next]_vars, PipelineRunCopies, CancelSeen, TektonRight, pr # Absent, ~run.deleting
    PROVE  pr' # Absent /\ Final(wf, pr, pr')
  <1>1. CASE pr' = pr
    BY <1>1, FinalOrder
  <1>2. CASE CollectPipelineRun
    BY <1>2 DEF CollectPipelineRun
  <1>3. CASE ApplyPipelineRun
    BY <1>3, ApplyRight
  <1>4. CASE Tekton
    <2>1. pr' \in PipelineRunObject(wf) /\ Final(wf, pr, pr')
      BY <1>4, TektonFields
    <2>2. wf \in Workflows
      BY DEF TypeOK
    <2> QED BY <2>1, <2>2, Workflow
  <1> QED BY <1>1, <1>2, <1>3, <1>4, Frame

\* Tekton's condition stays right.
LEMMA TektonRightKept ==
    ASSUME TypeOK, [Next]_vars, PipelineRunCopies, CancelSeen, TektonRight
    PROVE  TektonRight'
  <1> SUFFICES ASSUME pr' # Absent PROVE ConditionRight(wf', pr')
    BY DEF TektonRight
  <1>0. wf' = wf
    BY Frame
  <1>1. CASE pr' = pr
    BY <1>0, <1>1 DEF TektonRight
  <1>2. CASE ApplyPipelineRun
    BY <1>0, <1>2, ApplyRight
  <1>3. CASE Tekton
    BY <1>0, <1>3, TektonFields DEF TektonRight
  <1> QED BY <1>1, <1>2, <1>3, Frame

\* A deletion is final.
LEMMA DeletingStays ==
    ASSUME TypeOK, [Next]_vars, RunCopies, ~run'.deleting
    PROVE  ~run.deleting
  <1>1. CASE run' = run
    BY <1>1
  <1>2. CASE PersistStatus
    BY <1>2 DEF PersistStatus, RunCopies
  <1>3. CASE Cancel \/ DeleteRun
    BY <1>3, UserFields
  <1> QED BY <1>1, <1>2, <1>3, Frame

\* What was read of the PipelineRun stays right.
LEMMA ReadKept ==
    ASSUME TypeOK, [Next]_vars, RunCopies, PipelineRunCopies, CancelSeen, PlaceRight, TektonRight,
           ReadRight
    PROVE  ReadRight'
  <1>0. wf' = wf
    BY Frame
  <1> SUFFICES ASSUME Working'
               PROVE  /\ rec'.pr # Absent /\ rec'.pr.cancelled = rec'.run.cancel
                      /\ ConditionRight(wf, rec'.pr)
                      /\ ~ run'.deleting => pr' # Absent /\ Final(wf, rec'.pr, pr')
    BY <1>0 DEF ReadRight
  <1>1. rec'.pc \in {"upload", "persist"} /\ wf.steps # {}
    BY <1>0 DEF Working
  <1>2. CASE ApplyPipelineRun
    <2>1. rec'.pr = pr' /\ rec'.run = rec.run
      BY <1>2, RecFields
    <2>2. pr'.cancelled = rec.run.cancel
      BY <1>2, ApplyFields
    <2>3. pr' # Absent /\ ConditionRight(wf, pr')
      BY <1>2, ApplyRight
    <2> QED BY <2>1, <2>2, <2>3, FinalOrder
  <1>3. ASSUME Working, rec'.pr = rec.pr, rec'.run.cancel = rec.run.cancel
        PROVE  /\ rec'.pr # Absent /\ rec'.pr.cancelled = rec'.run.cancel
               /\ ConditionRight(wf, rec'.pr)
               /\ ~ run'.deleting => pr' # Absent /\ Final(wf, rec'.pr, pr')
    <2>1. /\ rec.pr # Absent /\ rec.pr.cancelled = rec.run.cancel
          /\ ConditionRight(wf, rec.pr)
          /\ ~ run.deleting => pr # Absent /\ Final(wf, rec.pr, pr)
      BY <1>3 DEF ReadRight
    <2>2. ASSUME ~run'.deleting PROVE pr' # Absent /\ Final(wf, rec.pr, pr')
      <3>1. ~run.deleting
        BY <2>2, DeletingStays
      <3>2. pr' # Absent /\ Final(wf, pr, pr')
        BY <2>1, <3>1, PipelineRunStays
      <3> QED BY <2>1, <3>1, <3>2, FinalOrder
    <2> QED BY <1>3, <2>1, <2>2
  <1>4. CASE UploadLogs
    <2>1. Working /\ rec'.pr = rec.pr
      BY <1>1, <1>4, RecFields DEF Working
    <2>2. rec'.run.cancel = rec.run.cancel
      <3>1. PICK u \in SUBSET {s \in ToUpload : rec.pr.tasks[s] # "condfail"} :
               rec'.run = ConfigureWorkflowRun(u)
        BY <1>4, RecFields
      <3>2. u \in SUBSET wf.steps /\ rec.pc = "upload"
        BY <1>4 DEF ToUpload, UploadLogs
      <3> QED BY <3>1, <3>2, ConfigureFields
    <2> QED BY <1>3, <2>1, <2>2
  <1>5. CASE rec' = rec
    BY <1>1, <1>3, <1>5 DEF Working
  <1>6. CASE Complete
    BY <1>1, <1>6 DEF Complete, PlaceRight
  <1> QED BY <1>1, <1>2, <1>4, <1>5, <1>6, WorkingSteps

\* What will be written is what was read.
LEMMA WrittenKept ==
    ASSUME TypeOK, [Next]_vars, PlaceRight, WrittenRight
    PROVE  WrittenRight'
  <1>0. wf' = wf
    BY Frame
  <1>1. CASE rec'.pc # "persist"
    BY <1>1 DEF WrittenRight
  <1>2. CASE rec' = rec
    BY <1>0, <1>2 DEF WrittenRight
  <1>3. CASE Complete
    <2>1. rec.pc = "complete" /\ rec'.run.status = "success"
      BY <1>3, RecFields DEF Complete
    <2>2. wf.steps = {}
      BY <2>1 DEF PlaceRight
    <2> QED BY <1>0, <2>1, <2>2 DEF WrittenRight
  <1>4. CASE UploadLogs
    <2>0. rec'.pr = rec.pr /\ rec.pc = "upload"
      BY <1>4, RecFields
    <2>1. PICK u \in SUBSET {s \in ToUpload : rec.pr.tasks[s] # "condfail"} :
             rec'.run = ConfigureWorkflowRun(u)
      BY <1>4, RecFields
    <2>2. u \in SUBSET wf.steps
      BY DEF ToUpload
    <2>3. /\ rec'.run.cancel = rec.run.cancel
          /\ rec'.run.status = RunStatus(rec.run.cancel, rec.pr.cond)
          /\ \A s \in wf.steps : rec'.run.steps[s].status =
                StepStatuses(wf.steps, wf.dependsOn, rec.run.cancel, rec.pr.cond, rec.pr.tasks)[s]
      BY <2>0, <2>1, <2>2, ConfigureFields
    <2>4. wf.steps # {}
      BY <2>0 DEF PlaceRight
    <2> QED BY <1>0, <2>0, <2>3, <2>4 DEF WrittenRight
  <1>5. CASE ApplyPipelineRun
    BY <1>1, <1>5, RecFields
  <1> QED BY <1>1, <1>2, <1>3, <1>4, <1>5, WorkingSteps

\* A reconciliation writes what it has read, and what was final when it read it
\* has not changed.
THEOREM CopiedCorrect == Spec => []Inv
  <1>1. Init => Copied
    <2> SUFFICES ASSUME Init PROVE Copied
      OBVIOUS
    <2>1. rec.pc = "idle" /\ pr = Absent
      BY DEF Init, NoReconcile
    <2> QED BY <2>1 DEF Copied, PlaceRight, TektonRight, ReadRight, WrittenRight, Working
  <1>2. ASSUME TypeOK, RunCopies, PipelineRunCopies, CancelSeen, Copied, [Next]_vars
        PROVE  Copied'
    <2>1. PlaceRight /\ TektonRight /\ ReadRight /\ WrittenRight
      BY <1>2 DEF Copied
    <2>2. PlaceRight'
      BY <1>2, <2>1, PlaceKept
    <2>3. TektonRight'
      BY <1>2, <2>1, TektonRightKept
    <2>4. ReadRight'
      BY <1>2, <2>1, ReadKept
    <2>5. WrittenRight'
      BY <1>2, <2>1, WrittenKept
    <2> QED BY <2>2, <2>3, <2>4, <2>5 DEF Copied
  <1> QED BY <1>1, <1>2, TypeCorrect, CopiesCorrect, PTL DEF Spec, Inv

\* PersistStatus writes the status of a run that is not being deleted, from a
\* copy that knows of its cancellation.
LEMMA PersistFields ==
    ASSUME TypeOK, RunCopies, PersistStatus
    PROVE  /\ rec.pc = "persist" /\ rec.run \in RunObject(wf) /\ rec.run.cancel = run.cancel
           /\ ~run.deleting /\ ~run'.deleting /\ run'.cancel = run.cancel
           /\ run'.status = rec.run.status /\ run'.steps = rec.run.steps
           /\ (run' = run /\ rec.run = run) \/ run'.rv = run.rv + 1
           /\ rec' = NoReconcile /\ queued' = queued
           /\ UNCHANGED <<wf, pr, prRev, runCache, prCache, stored>>
  <1>1. /\ rec.pc = "persist" /\ run.rv = rec.run.rv /\ PutRun(rec.run)
        /\ rec' = NoReconcile /\ queued' = queued
        /\ UNCHANGED <<wf, pr, prRev, runCache, prCache, stored>>
    BY DEF PersistStatus, Return, caches
  <1>2. rec.run \in RunObject(wf) /\ run \in RunObject(wf)
    BY <1>1 DEF TypeOK
  <1>3. rec.run.cancel = run.cancel /\ ~run.deleting /\ ~rec.run.deleting
    BY <1>1 DEF RunCopies
  <1>4. /\ run'.cancel = rec.run.cancel /\ run'.deleting = rec.run.deleting
        /\ run'.status = rec.run.status /\ run'.steps = rec.run.steps
        /\ (run' = run /\ rec.run = run) \/ run'.rv = run.rv + 1
    BY <1>1, <1>2, PutRunFields
  <1> QED BY <1>1, <1>2, <1>3, <1>4

\* What is read of the PipelineRun has its type.
LEMMA ReadType ==
    ASSUME TypeOK, ReadRight, Working
    PROVE  /\ wf.dependsOn \in [wf.steps -> SUBSET wf.steps] /\ NoCycle(wf.steps, wf.dependsOn)
           /\ rec.pr # Absent /\ rec.pr.cond \in PipelineCondition
           /\ rec.pr.tasks \in [wf.steps -> TaskState]
           /\ rec.run.cancel \in BOOLEAN
  <1>1. wf \in Workflows /\ rec.pr # Absent /\ rec.pr \in PipelineRunObject(wf)
        /\ rec.run \in RunObject(wf)
    BY DEF TypeOK, ReadRight, Working
  <1>2. wf.dependsOn \in [wf.steps -> SUBSET wf.steps] /\ NoCycle(wf.steps, wf.dependsOn)
    BY <1>1, Workflow
  <1>3. rec.pr.cond \in PipelineCondition /\ rec.pr.tasks \in [wf.steps -> TaskState]
    BY <1>1 DEF PipelineRunObject
  <1>4. rec.run.cancel \in BOOLEAN
    BY <1>1 DEF RunObject
  <1> QED BY <1>1, <1>2, <1>3, <1>4

\* What is about to be written is consistent.
LEMMA WrittenConsistent ==
    ASSUME TypeOK, ReadRight, WrittenRight, rec.pc = "persist", wf.steps # {}
    PROVE  /\ rec.run.status = "success" =>
                 \A s \in wf.steps : rec.run.steps[s].status \in {"success", "skipped"}
           /\ rec.run.status = "failure" =>
                 \E s \in wf.steps : rec.run.steps[s].status = "failure"
  <1> DEFINE cancel == rec.run.cancel
             cond == rec.pr.cond
             tasks == rec.pr.tasks
             Told(s) == StepStatuses(wf.steps, wf.dependsOn, cancel, cond, tasks)[s]
  <1>0. Working
    BY DEF Working
  <1>1. /\ wf.dependsOn \in [wf.steps -> SUBSET wf.steps] /\ NoCycle(wf.steps, wf.dependsOn)
        /\ cond \in PipelineCondition /\ tasks \in [wf.steps -> TaskState] /\ cancel \in BOOLEAN
    BY <1>0, ReadType
  <1>2. rec.pr.cancelled = cancel /\ ConditionRight(wf, rec.pr)
    BY <1>0 DEF ReadRight
  <1>3. rec.run.status = RunStatus(cancel, cond)
        /\ \A s \in wf.steps : rec.run.steps[s].status = Told(s)
    BY DEF WrittenRight
  <1>4. ASSUME NEW s \in wf.steps
        PROVE  /\ tasks[s] = "succeeded" => Told(s) = "success"
               /\ tasks[s] = "failed" => Told(s) = "failure"
    BY <1>1, StepStatusesType
  <1>5. ASSUME NEW s \in wf.steps, IsSkipped(wf.steps, wf.dependsOn, tasks)[s]
        PROVE  Told(s) = "skipped"
    BY <1>1, <1>5, SkippedAgree
  <1>6. ASSUME rec.run.status = "success", NEW s \in wf.steps
        PROVE  rec.run.steps[s].status \in {"success", "skipped"}
    <2>1. cond = "true"
      BY <1>1, <1>3, <1>6, RunStatusType
    <2>2. tasks[s] = "succeeded" \/ IsSkipped(wf.steps, wf.dependsOn, tasks)[s]
      BY <1>2, <2>1 DEF ConditionRight
    <2> HIDE DEF Told
    <2> QED BY <1>3, <1>4, <1>5, <2>2
  <1>7. ASSUME rec.run.status = "failure"
        PROVE  \E s \in wf.steps : rec.run.steps[s].status = "failure"
    <2>0. cond = "cancelled" => cancel
      <3>1. cond = "cancelled" => rec.pr.cancelled
        BY <1>2 DEF ConditionRight
      <3> QED BY <1>2, <3>1, Zenon
    <2> HIDE DEF cancel, cond
    <2>1. cond \in PipelineCondition /\ RunStatus(cancel, cond) = "failure"
      BY <1>1, <1>3, <1>7
    <2>2. cond = "failed"
      BY <2>0, <2>1 DEF RunStatus, PipelineStatus, PipelineCondition
    <2> USE DEF cond
    <2>3. PICK s \in wf.steps : tasks[s] = "failed"
      BY <1>2, <2>2 DEF ConditionRight
    <2> HIDE DEF Told
    <2> QED BY <1>3, <1>4, <2>3
  <1> QED BY <1>6, <1>7

\* Whoever changes the run, its report changes in PersistStatus only.
LEMMA ReportSteps ==
    ASSUME TypeOK, [Next]_vars
    PROVE  PersistStatus \/ (run'.status = run.status /\ run'.steps = run.steps)
  <1>1. CASE Cancel \/ DeleteRun
    BY <1>1, UserFields
  <1> QED BY <1>1, Frame

\* The report of the run and that of its steps agree.
THEOREM ReportsAgree == Spec => []ReportConsistent
  <1>1. Init => ReportConsistent
    <2> SUFFICES ASSUME Init PROVE ReportConsistent
      OBVIOUS
    <2>1. run = NewRun
      BY DEF Init
    <2>2. run.status = ""
      BY <2>1 DEF NewRun
    <2> QED BY <2>2 DEF ReportConsistent
  <1>2. ASSUME TypeOK, Inv, ReportConsistent, [Next]_vars
        PROVE  ReportConsistent'
    <2>0. wf' = wf
      BY <1>2, Frame
    <2>1. CASE PersistStatus
      <3>1. rec.pc = "persist" /\ run'.status = rec.run.status /\ run'.steps = rec.run.steps
        BY <1>2, <2>1, PersistFields DEF Inv
      <3>2. ReadRight /\ WrittenRight
        BY <1>2 DEF Inv, Copied
      <3>3. CASE wf.steps = {}
        <4>1. run'.status = "success"
          BY <3>1, <3>2, <3>3 DEF WrittenRight
        <4> QED BY <2>0, <3>3, <4>1 DEF ReportConsistent
      <3>4. CASE wf.steps # {}
        <4>1. /\ rec.run.status = "success" =>
                    \A s \in wf.steps : rec.run.steps[s].status \in {"success", "skipped"}
              /\ rec.run.status = "failure" =>
                    \E s \in wf.steps : rec.run.steps[s].status = "failure"
          BY <1>2, <3>1, <3>2, <3>4, WrittenConsistent
        <4> QED BY <2>0, <3>1, <4>1 DEF ReportConsistent
      <3> QED BY <3>3, <3>4
    <2>2. CASE run'.status = run.status /\ run'.steps = run.steps
      BY <1>2, <2>0, <2>2 DEF ReportConsistent
    <2> QED BY <1>2, <2>1, <2>2, ReportSteps
  <1> QED BY <1>1, <1>2, TypeCorrect, CopiedCorrect, PTL DEF Spec

\* Reports that are final stay right.
LEMMA ReflectsFinal ==
    ASSUME NEW w, NEW r, NEW x, NEW y, Reflects(w, r, x), Final(w, x, y)
    PROVE  Reflects(w, r, y)
  BY DEF Reflects, Final, FinishedTask

\* Who reports nothing reports nothing wrong.
LEMMA SilentReflects ==
    ASSUME NEW w, NEW r, NEW x, Silent(w, r)
    PROVE  Reflects(w, r, x)
  BY DEF Silent, Reflects, Over

\* What a reconciliation is about to write has the outcomes of what it has read.
LEMMA WrittenReflects ==
    ASSUME TypeOK, ReadRight, WrittenRight, rec.pc = "persist", wf.steps # {},
           NEW r, r.status = rec.run.status, r.steps = rec.run.steps, r.cancel = rec.run.cancel
    PROVE  Reflects(wf, r, rec.pr)
  <1> DEFINE cancel == rec.run.cancel
             cond == rec.pr.cond
  <1>0. Working
    BY DEF Working
  <1>1. /\ wf.dependsOn \in [wf.steps -> SUBSET wf.steps] /\ rec.pr.tasks \in [wf.steps -> TaskState]
        /\ cond \in PipelineCondition /\ cancel \in BOOLEAN
    BY <1>0, ReadType
  <1>2. r.status = RunStatus(cancel, cond) /\ r.cancel = cancel
        /\ \A s \in wf.steps : r.steps[s].status =
              StepStatuses(wf.steps, wf.dependsOn, cancel, cond, rec.pr.tasks)[s]
    BY DEF WrittenRight
  <1>3. ASSUME NEW s \in wf.steps
        PROVE  /\ r.steps[s].status = "success" => rec.pr.tasks[s] = "succeeded"
               /\ r.steps[s].status = "failure" => rec.pr.tasks[s] = "failed"
    BY <1>1, <1>2, StepStatusesType
  <1> HIDE DEF cancel, cond
  <1>4. CASE cancel
    <2>1. r.status = "cancelled" /\ r.cancel
      BY <1>2, <1>4 DEF RunStatus
    <2> QED BY <1>3, <2>1 DEF Reflects, cond
  <1>5. CASE ~cancel
    <2>1. r.status = PipelineStatus(cond)
      BY <1>2, <1>5 DEF RunStatus
    <2>2. r.status \in Over => cond \in DonePipeline
      BY <1>1, <2>1 DEF Over, DonePipeline, PipelineStatus, PipelineCondition
    <2> QED BY <1>3, <2>1, <2>2 DEF Reflects, cond
  <1> QED BY <1>4, <1>5

\* What the run reports stays what the PipelineRun has.
LEMMA ReportedKept ==
    ASSUME TypeOK, [Next]_vars, RunCopies, PipelineRunCopies, CancelSeen, Copied, Reported
    PROVE  Reported'
  <1>0. wf' = wf /\ PlaceRight /\ TektonRight /\ ReadRight /\ WrittenRight
    BY Frame DEF Copied
  <1>1. CASE wf.steps = {}
    <2>1. run.status \in {"", "success"}
      BY <1>1 DEF Reported
    <2>2. CASE PersistStatus
      <3>1. rec.pc = "persist" /\ run'.status = rec.run.status
        BY <2>2, PersistFields
      <3>2. rec.run.status = "success"
        BY <1>0, <1>1, <3>1 DEF WrittenRight
      <3> QED BY <1>0, <1>1, <3>1, <3>2 DEF Reported
    <2>3. CASE run'.status = run.status
      BY <1>0, <1>1, <2>1, <2>3 DEF Reported
    <2> QED BY <2>2, <2>3, ReportSteps
  <1>2. CASE wf.steps # {}
    <2> SUFFICES ASSUME ~run'.deleting
                 PROVE  /\ pr' = Absent => Silent(wf, run')
                        /\ pr' # Absent => Reflects(wf, run', pr')
                        /\ Working' => Reflects(wf, run', rec'.pr)
      BY <1>0, <1>2 DEF Reported, ReportedParts
    <2>1. ~run.deleting
      BY DeletingStays
    <2>2. ReportedParts
      BY <1>2, <2>1 DEF Reported, ReportedParts
    <2>3. CASE PersistStatus
      <3>1. /\ rec.pc = "persist" /\ run'.status = rec.run.status /\ run'.steps = rec.run.steps
            /\ run'.cancel = rec.run.cancel /\ rec' = NoReconcile /\ pr' = pr
        BY <2>3, PersistFields
      <3>2. Reflects(wf, run', rec.pr)
        BY <1>0, <1>2, <3>1, WrittenReflects
      <3>3. pr # Absent /\ Final(wf, rec.pr, pr)
        BY <1>0, <1>2, <2>1, <3>1 DEF ReadRight, Working
      <3>4. Reflects(wf, run', pr)
        BY <3>2, <3>3, ReflectsFinal
      <3>5. ~Working'
        BY <3>1 DEF Working, NoReconcile
      <3> QED BY <3>1, <3>3, <3>4, <3>5
    <2>4. CASE ~PersistStatus
      <3>1. run'.status = run.status /\ run'.steps = run.steps /\ (run.cancel => run'.cancel)
        <4>1. CASE run' = run
          BY <4>1
        <4>2. CASE Cancel \/ DeleteRun
          <5>1. run'.status = run.status /\ run'.steps = run.steps /\ Earlier(run, run')
            BY <4>2, UserFields
          <5> QED BY <5>1 DEF Earlier
        <4> QED BY <2>4, <4>1, <4>2, Frame
      <3>2. ASSUME NEW x, Reflects(wf, run, x) PROVE Reflects(wf, run', x)
        BY <3>1, <3>2 DEF Reflects
      <3>3. pr' = Absent => Silent(wf, run')
        <4>1. pr' = Absent => pr = Absent
          BY <1>0, <2>1, PipelineRunStays
        <4> QED BY <2>2, <3>1, <4>1 DEF ReportedParts, Silent
      <3>4. ASSUME pr' # Absent PROVE Reflects(wf, run', pr')
        <4>1. CASE pr = Absent
          BY <2>2, <3>2, <4>1, SilentReflects DEF ReportedParts
        <4>2. CASE pr # Absent
          <5>1. Final(wf, pr, pr') /\ Reflects(wf, run, pr)
            BY <1>0, <2>1, <2>2, <4>2, PipelineRunStays DEF ReportedParts
          <5>2. Reflects(wf, run, pr')
            BY <5>1, ReflectsFinal
          <5> QED BY <3>2, <5>2
        <4> QED BY <4>1, <4>2
      <3>5. ASSUME Working' PROVE Reflects(wf, run', rec'.pr)
        <4>0. rec'.pc \in {"upload", "persist"}
          BY <3>5 DEF Working
        <4>1. CASE rec' = rec \/ UploadLogs
          <5>1. Working /\ rec'.pr = rec.pr
            BY <1>2, <4>0, <4>1, RecFields DEF Working
          <5>2. Reflects(wf, run, rec.pr)
            BY <2>2, <5>1 DEF ReportedParts
          <5> QED BY <3>2, <5>1, <5>2
        <4>2. CASE ApplyPipelineRun
          <5>1. rec'.pr = pr' /\ pr' # Absent
            BY <4>2, RecFields, ApplyFields
          <5> QED BY <3>4, <5>1
        <4>3. CASE Complete
          BY <1>0, <1>2, <4>3 DEF Complete, PlaceRight
        <4> QED BY <4>0, <4>1, <4>2, <4>3, WorkingSteps
      <3> QED BY <3>3, <3>4, <3>5
    <2> QED BY <2>3, <2>4
  <1> QED BY <1>1, <1>2

\* What the run reports as final is final in the PipelineRun.
THEOREM ReportedCorrect == Spec => []Reported
  <1>1. Init => Reported
    <2> SUFFICES ASSUME Init PROVE Reported
      OBVIOUS
    <2>1. run = NewRun /\ pr = Absent /\ rec = NoReconcile
      BY DEF Init
    <2>2. rec.pc = "idle"
      BY <2>1 DEF NoReconcile
    <2>3. run.status = "" /\ run.steps = [s \in wf.steps |-> Unreported]
      BY <2>1 DEF NewRun
    <2>4. ASSUME NEW s \in wf.steps PROVE run.steps[s].status = ""
      <3>1. run.steps[s] = Unreported
        BY <2>3
      <3>2. Unreported.status = "" /\ ~Unreported.log
        BY DEF Unreported
      <3> QED BY <3>1, <3>2
    <2> QED BY <2>1, <2>2, <2>3, <2>4 DEF Reported, ReportedParts, Silent, Working
  <1>2. ASSUME TypeOK, Inv, Reported, [Next]_vars PROVE Reported'
    BY <1>2, ReportedKept DEF Inv
  <1> QED BY <1>1, <1>2, TypeCorrect, CopiedCorrect, PTL DEF Spec

\* An outcome that was reported is never replaced, but for a cancellation.
THEOREM OutcomesKept == Spec => OutcomeStable
  <1> DEFINE Stable == /\ run.status \in Over => run'.status \in {run.status, "cancelled"}
                       /\ \A s \in wf.steps : run.steps[s].status \in {"success", "failure"}
                             => run'.steps[s].status = run.steps[s].status
  <1>1. ASSUME TypeOK, Inv, Reported, [Next]_vars PROVE [Stable]_vars
    <2>0. RunCopies /\ ReadRight /\ WrittenRight
      BY <1>1 DEF Inv, Copied
    <2>1. CASE run'.status = run.status /\ run'.steps = run.steps
      BY <2>1
    <2>2. CASE PersistStatus
      <3>1. /\ rec.pc = "persist" /\ rec.run.cancel = run.cancel /\ ~run.deleting
            /\ run'.status = rec.run.status /\ run'.steps = rec.run.steps
        BY <1>1, <2>0, <2>2, PersistFields
      <3>2. CASE wf.steps = {}
        <4>1. run'.status = "success" /\ run.status \in {"", "success"}
          BY <1>1, <2>0, <3>1, <3>2 DEF WrittenRight, Reported
        <4> QED BY <3>2, <4>1 DEF Over
      <3>3. CASE wf.steps # {}
        <4>0. Working
          BY <3>1, <3>3 DEF Working
        <4>1. Reflects(wf, run, rec.pr)
          BY <1>1, <3>1, <3>3, <4>0 DEF Reported, ReportedParts
        <4>2. rec.run.status = RunStatus(rec.run.cancel, rec.pr.cond)
              /\ \A s \in wf.steps : rec.run.steps[s].status = StepStatuses(wf.steps, wf.dependsOn,
                    rec.run.cancel, rec.pr.cond, rec.pr.tasks)[s]
          BY <2>0, <3>1, <3>3 DEF WrittenRight
        <4>3. run.status \in Over => run'.status \in {run.status, "cancelled"}
          BY <3>1, <4>1, <4>2 DEF Reflects, RunStatus
        <4>4. ASSUME NEW s \in wf.steps, run.steps[s].status \in {"success", "failure"}
              PROVE  run'.steps[s].status = run.steps[s].status
          <5>1. /\ run.steps[s].status = "success" => rec.pr.tasks[s] = "succeeded"
                /\ run.steps[s].status = "failure" => rec.pr.tasks[s] = "failed"
            BY <4>1 DEF Reflects
          <5>2. wf.dependsOn \in [wf.steps -> SUBSET wf.steps]
                /\ rec.pr.tasks \in [wf.steps -> TaskState]
            BY <1>1, <2>0, <4>0, ReadType
          <5>3. /\ rec.pr.tasks[s] = "succeeded" => run'.steps[s].status = "success"
                /\ rec.pr.tasks[s] = "failed" => run'.steps[s].status = "failure"
            BY <3>1, <4>2, <5>2, StepStatusesType
          <5> QED BY <4>4, <5>1, <5>3
        <4> QED BY <4>3, <4>4
      <3> QED BY <3>2, <3>3
    <2> QED BY <1>1, <2>1, <2>2, ReportSteps
  <1> QED BY <1>1, TypeCorrect, CopiedCorrect, ReportedCorrect, PTL DEF Spec, OutcomeStable

-----------------------------------------------------------------------------
(* Logs *)

\* An upload is of finished TaskRuns, and what the new status refers to is
\* stored.
LEMMA UploadFields ==
    ASSUME TypeOK, UploadLogs
    PROVE  \E u \in SUBSET wf.steps :
              /\ stored' = stored \cup u
              /\ \A s \in u : rec.pr.tasks[s] \in FinishedTask
              /\ \A s \in wf.steps : rec'.run.steps[s].log => rec.run.steps[s].log \/ s \in u
  <1>1. PICK u \in SUBSET {s \in ToUpload : rec.pr.tasks[s] # "condfail"} :
           rec'.run = ConfigureWorkflowRun(u) /\ stored' = stored \cup u
    BY RecFields
  <1>2. u \in SUBSET wf.steps /\ rec.pc = "upload" /\ \A s \in u : rec.pr.tasks[s] \in FinishedTask
    BY DEF ToUpload, UploadLogs
  <1>3. \A s \in wf.steps : rec'.run.steps[s].log => rec.run.steps[s].log \/ s \in u
    BY <1>1, <1>2, ConfigureFields
  <1> QED BY <1>1, <1>2, <1>3

\* Only UploadLogs stores logs.
LEMMA StoredSteps ==
    ASSUME [Next]_vars
    PROVE  stored' = stored \/ UploadLogs
  <1>1. CASE LoadRun \/ Complete \/ LoadPipelineRun \/ ApplyPipelineRun \/ PersistStatus
    BY <1>1 DEF LoadRun, Complete, LoadPipelineRun, ApplyPipelineRun, PersistStatus
  <1>2. CASE Abort
    BY <1>2, AbortFields
  <1>3. CASE Tekton
    BY <1>3, TektonFrame
  <1>4. CASE OperatorRestart \/ RunEvent \/ PipelineRunEvent \/ Cancel \/ DeleteRun \/ CollectPipelineRun
    BY <1>4 DEF OperatorRestart, RunEvent, PipelineRunEvent, Cancel, DeleteRun, CollectPipelineRun
  <1>5. CASE UNCHANGED vars
    BY <1>5 DEF vars
  <1> QED BY <1>1, <1>2, <1>3, <1>4, <1>5, Steps

\* Logs that are referred to stay stored.
LEMMA LogsStoredKept ==
    ASSUME TypeOK, [Next]_vars, RunCopies, LogsStored
    PROVE  LogsStored'
  <1>0. wf' = wf
    BY Frame
  <1>1. stored \subseteq stored'
    BY StoredSteps, UploadFields
  <1> SUFFICES ASSUME NEW s \in wf.steps
               PROVE  /\ run'.steps[s].log => s \in stored'
                      /\ runCache'.steps[s].log => s \in stored'
                      /\ rec'.pc # "idle" /\ rec'.run.steps[s].log => s \in stored'
    BY <1>0 DEF LogsStored
  <1>2. /\ run.steps[s].log => s \in stored
        /\ runCache.steps[s].log => s \in stored
        /\ rec.pc # "idle" /\ rec.run.steps[s].log => s \in stored
    BY DEF LogsStored
  <1>3. runCache'.steps[s].log => s \in stored'
    BY <1>1, <1>2, Frame
  <1>4. run'.steps[s].log => s \in stored'
    <2>1. CASE PersistStatus
      <3>1. rec.pc = "persist" /\ run'.steps = rec.run.steps
        BY <2>1, PersistFields
      <3> QED BY <1>1, <1>2, <3>1
    <2>2. CASE run'.steps = run.steps
      BY <1>1, <1>2, <2>2
    <2> QED BY <2>1, <2>2, ReportSteps
  <1>5. ASSUME rec'.pc # "idle", rec'.run.steps[s].log PROVE s \in stored'
    <2>1. CASE rec' = rec
      BY <1>1, <1>2, <1>5, <2>1
    <2>2. CASE LoadRun /\ rec' # rec
      BY <1>1, <1>2, <1>5, <2>2, RecFields
    <2>3. CASE rec' = NoReconcile
      BY <1>5, <2>3 DEF NoReconcile
    <2>4. CASE UploadLogs
      <3>1. rec.pc = "upload"
        BY <2>4 DEF UploadLogs
      <3> QED BY <1>2, <1>5, <2>4, <3>1, UploadFields
    <2>5. CASE Complete \/ LoadPipelineRun \/ ApplyPipelineRun
      <3>1. rec'.run.steps = rec.run.steps
        BY <2>5, RecFields
      <3>2. rec.pc # "idle"
        BY <2>5 DEF Complete, LoadPipelineRun, ApplyPipelineRun
      <3> QED BY <1>1, <1>2, <1>5, <3>1, <3>2
    <2> QED BY <2>1, <2>2, <2>3, <2>4, <2>5, RecSteps
  <1> QED BY <1>3, <1>4, <1>5

\* Stored logs stay those of finished TaskRuns.
LEMMA LogsFinishedKept ==
    ASSUME TypeOK, [Next]_vars, RunCopies, PipelineRunCopies, CancelSeen, Copied, LogsFinished
    PROVE  LogsFinished'
  <1> SUFFICES ASSUME ~run'.deleting, NEW s \in stored'
               PROVE  pr' # Absent /\ pr'.tasks[s] \in FinishedTask
    BY DEF LogsFinished
  <1>0. ~run.deleting /\ TektonRight /\ ReadRight /\ PlaceRight /\ stored \subseteq wf.steps
    BY DeletingStays DEF TypeOK, Copied
  <1>1. ASSUME pr # Absent, s \in wf.steps, pr.tasks[s] \in FinishedTask
        PROVE  pr' # Absent /\ pr'.tasks[s] \in FinishedTask
    <2>1. pr' # Absent /\ Final(wf, pr, pr')
      BY <1>0, <1>1, PipelineRunStays
    <2> QED BY <1>1, <2>1 DEF Final
  <1>2. CASE s \in stored
    BY <1>0, <1>1, <1>2 DEF LogsFinished
  <1>3. CASE s \notin stored
    <2>1. UploadLogs
      BY <1>3, StoredSteps
    <2>2. s \in wf.steps /\ rec.pr.tasks[s] \in FinishedTask /\ rec.pc = "upload"
      BY <1>3, <2>1, UploadFields DEF UploadLogs
    <2>3. Working
      BY <2>2 DEF Working
    <2>4. pr # Absent /\ Final(wf, rec.pr, pr)
      BY <1>0, <2>3 DEF ReadRight
    <2>5. pr.tasks[s] \in FinishedTask
      BY <2>2, <2>4 DEF Final
    <2> QED BY <1>1, <2>2, <2>4, <2>5
  <1> QED BY <1>2, <1>3

\* A log that the status refers to is stored, and is that of a finished TaskRun.
THEOREM LogsCorrect == Spec => []LogsComplete
  <1>1. Init => LogsStored /\ LogsFinished
    <2> SUFFICES ASSUME Init PROVE LogsStored /\ LogsFinished
      OBVIOUS
    <2>1. run = NewRun /\ runCache = run /\ rec = NoReconcile /\ stored = {}
      BY DEF Init
    <2>2. rec.pc = "idle"
      BY <2>1 DEF NoReconcile
    <2>3. run.steps = [s \in wf.steps |-> Unreported]
      BY <2>1 DEF NewRun
    <2>4. ASSUME NEW s \in wf.steps PROVE ~run.steps[s].log
      <3>1. run.steps[s] = Unreported
        BY <2>3
      <3>2. Unreported.status = "" /\ ~Unreported.log
        BY DEF Unreported
      <3> QED BY <3>1, <3>2
    <2> QED BY <2>1, <2>2, <2>4 DEF LogsStored, LogsFinished
  <1>2. ASSUME TypeOK, Inv, LogsStored, LogsFinished, [Next]_vars
        PROVE  LogsStored' /\ LogsFinished'
    BY <1>2, LogsStoredKept, LogsFinishedKept DEF Inv
  <1>3. LogsStored /\ LogsFinished => LogsComplete
    BY DEF LogsStored, LogsFinished, LogsComplete
  <1> QED BY <1>1, <1>2, <1>3, TypeCorrect, CopiedCorrect, PTL DEF Spec

-----------------------------------------------------------------------------
(* Nothing is overlooked *)

\* Without an event, a cache that is up to date was so before.
LEMMA CacheStays ==
    ASSUME TypeOK, [Next]_vars, PipelineRunCopies, prCache' = pr', ~queued', ~run.deleting
    PROVE  pr' = pr /\ prCache = pr
  <1>1. prCache' = prCache
    <2>1. CASE PipelineRunEvent \/ OperatorRestart
      BY <2>1 DEF PipelineRunEvent, OperatorRestart, Return
    <2> QED BY <2>1, Frame
  <1>2. CASE pr' = pr
    BY <1>1, <1>2
  <1>3. CASE CollectPipelineRun
    BY <1>3 DEF CollectPipelineRun
  <1>4. ASSUME prRev' = prRev + 1, pr'.rv = prRev', ApplyPipelineRun \/ Tekton PROVE FALSE
    <2>1. prRev \in Nat /\ wf \in Workflows
      BY DEF TypeOK
    <2>2. pr' \in PipelineRunObject(wf)
      BY <1>4, ApplyFields, TektonFields
    <2>3. prCache # Absent
      BY <1>1, <2>1, <2>2, Workflow
    <2>4. prCache.rv <= prRev
      BY <2>3 DEF PipelineRunCopies
    <2>5. prCache.rv = prRev + 1
      BY <1>1, <1>4
    <2> QED BY <2>1, <2>4, <2>5
  <1> QED BY <1>2, <1>3, <1>4, Frame

\* What a reconciliation has read stays what there is.
LEMMA CurrentKept ==
    ASSUME TypeOK, [Next]_vars, RunCopies, PipelineRunCopies, Copied, Current
    PROVE  Current'
  <1> SUFFICES ASSUME Working', ~queued', ~run'.deleting, prCache' = pr'
               PROVE  rec'.pr = pr'
    BY DEF Current
  <1>1. ~run.deleting /\ wf' = wf /\ PlaceRight
    BY DeletingStays, Frame DEF Copied
  <1>2. pr' = pr /\ prCache = pr
    BY <1>1, CacheStays
  <1>3. rec'.pc \in {"upload", "persist"} /\ wf.steps # {}
    BY <1>1 DEF Working
  <1>4. CASE ApplyPipelineRun
    BY <1>4, RecFields
  <1>5. CASE UploadLogs
    <2>1. rec'.pr = rec.pr /\ rec.pc = "upload" /\ queued' = queued
      BY <1>5, RecFields DEF UploadLogs
    <2>2. Working /\ ~queued
      BY <1>3, <2>1 DEF Working
    <2> QED BY <1>1, <1>2, <2>1, <2>2 DEF Current
  <1>6. CASE Complete
    BY <1>3, <1>6, <1>1 DEF Complete, PlaceRight
  <1>7. CASE rec' = rec
    <2>1. Working
      BY <1>3, <1>7 DEF Working
    <2>2. ~queued
      <3>1. CASE LoadRun
        BY <2>1, <3>1 DEF LoadRun, Working
      <3>2. CASE rec' = NoReconcile
        BY <1>3, <3>2 DEF NoReconcile
      <3>3. CASE queued' = queued \/ queued' = TRUE
        BY <3>3
      <3> QED BY <1>7, <2>1, <3>1, <3>2, <3>3, RecSteps DEF Working
    <2> QED BY <1>1, <1>2, <1>7, <2>1, <2>2 DEF Current
  <1> QED BY <1>3, <1>4, <1>5, <1>6, <1>7, WorkingSteps

\* What the idle operator has reported stays true until it has work again.
LEMMA SettledKept ==
    ASSUME TypeOK, [Next]_vars, RunCopies, PipelineRunCopies, Copied, Current, SettledReport
    PROVE  SettledReport'
  <1>0. wf' = wf /\ ReadRight /\ WrittenRight
    BY Frame DEF Copied
  <1> SUFFICES ASSUME Settled', wf.steps # {}
               PROVE  /\ pr' # Absent
                      /\ pr'.cancelled = run'.cancel
                      /\ run'.status = RunStatus(run'.cancel, pr'.cond)
                      /\ \A s \in wf.steps :
                            run'.steps[s].status =
                              StepStatuses(wf.steps, wf.dependsOn, run'.cancel, pr'.cond, pr'.tasks)[s]
    BY <1>0 DEF SettledReport
  <1>1. /\ rec'.pc = "idle" /\ ~queued' /\ runCache' = run' /\ prCache' = pr' /\ ~run'.deleting
    BY DEF Settled
  <1>2. ~run.deleting
    BY <1>1, DeletingStays
  <1>3. pr' = pr /\ prCache = pr
    BY <1>1, <1>2, CacheStays
  <1>4. runCache' = runCache
    <2>1. CASE RunEvent \/ OperatorRestart
      BY <1>1, <2>1 DEF RunEvent, OperatorRestart, Return
    <2> QED BY <2>1, Frame
  <1>5. run' = run
    <2>1. run.rv \in Nat /\ runCache.rv <= run.rv /\ runCache.rv \in Nat
      BY Versions DEF RunCopies, Earlier
    <2>2. CASE run'.rv = run.rv + 1
      <3>1. runCache.rv = run.rv + 1
        BY <1>1, <1>4, <2>2
      <3> QED BY <2>1, <3>1
    <2>3. CASE PersistStatus
      BY <2>2, <2>3, PersistFields
    <2>4. CASE Cancel \/ DeleteRun
      BY <2>2, <2>4, UserFields
    <2> QED BY <2>3, <2>4, Frame
  <1>6. runCache = run
    BY <1>1, <1>4, <1>5
  <1>7. CASE PersistStatus
    <2>1. rec.pc = "persist" /\ queued' = queued
      BY <1>7 DEF PersistStatus, Return
    <2>2. rec.run = run
      <3>1. (run' = run /\ rec.run = run) \/ run'.rv = run.rv + 1
        BY <1>7, PersistFields
      <3>2. run.rv \in Nat
        BY Versions
      <3>3. run'.rv # run.rv + 1
        BY <1>5, <3>2
      <3> QED BY <3>1, <3>3
    <2>3. Working
      BY <2>1 DEF Working
    <2>4. rec.pr = pr
      BY <1>1, <1>2, <1>3, <2>1, <2>3 DEF Current
    <2>5. pr # Absent /\ pr.cancelled = run.cancel
      BY <1>0, <2>2, <2>3, <2>4 DEF ReadRight
    <2>6. /\ run.status = RunStatus(run.cancel, pr.cond)
          /\ \A s \in wf.steps : run.steps[s].status =
                StepStatuses(wf.steps, wf.dependsOn, run.cancel, pr.cond, pr.tasks)[s]
      BY <1>0, <2>1, <2>2, <2>4 DEF WrittenRight
    <2> QED BY <1>3, <1>5, <2>5, <2>6
  <1>8. ASSUME rec.pc = "idle", ~queued
        PROVE  /\ pr' # Absent
               /\ pr'.cancelled = run'.cancel
               /\ run'.status = RunStatus(run'.cancel, pr'.cond)
               /\ \A s \in wf.steps :
                     run'.steps[s].status =
                       StepStatuses(wf.steps, wf.dependsOn, run'.cancel, pr'.cond, pr'.tasks)[s]
    <2>1. Settled
      BY <1>2, <1>3, <1>6, <1>8 DEF Settled
    <2> QED BY <1>3, <1>5, <2>1 DEF SettledReport
  <1>9. ASSUME ~PersistStatus PROVE rec.pc = "idle" /\ ~queued
    <2>1. ~(LoadRun /\ rec' # rec)
      BY <1>1, RecFields
    <2>2. ~LoadRun
      <3>1. ASSUME LoadRun, rec' = rec PROVE FALSE
        <4>1. ~runCache.deleting
          BY <1>2, <1>6
        <4>2. rec' = [rec EXCEPT !.pc = IF wf.steps = {} THEN "complete" ELSE "load",
                                 !.run = runCache]
          BY <3>1, <4>1 DEF LoadRun
        <4>3. rec \in RecType(wf)
          BY DEF TypeOK, RecType
        <4>4. rec'.pc \in {"complete", "load"}
          BY <4>2, <4>3 DEF RecType
        <4> QED BY <1>1, <4>4
      <3> QED BY <2>1, <3>1
    <2>3. ~Abort /\ ~OperatorRestart
      BY <1>1, AbortFields DEF OperatorRestart, Return
    <2>4. ~(Complete \/ LoadPipelineRun \/ ApplyPipelineRun \/ UploadLogs)
      BY <1>1, RecFields
    <2>5. ~(RunEvent \/ PipelineRunEvent)
      BY <1>1 DEF RunEvent, PipelineRunEvent
    <2>6. UNCHANGED <<rec, queued>>
      <3>1. CASE Cancel \/ DeleteRun
        BY <3>1, UserFields
      <3>2. CASE CollectPipelineRun
        BY <3>2 DEF CollectPipelineRun
      <3>3. CASE Tekton
        BY <3>3, TektonFrame
      <3>4. CASE UNCHANGED vars
        BY <3>4 DEF vars
      <3> QED BY <1>9, <2>2, <2>3, <2>4, <2>5, <3>1, <3>2, <3>3, <3>4, Steps
    <2> QED BY <1>1, <2>6
  <1> QED BY <1>7, <1>8, <1>9

\* No update is missed: what the idle operator has reported is what the
\* PipelineRun says.
THEOREM NothingMissed == Spec => []SettledReport
  <1>1. Init => Current /\ SettledReport
    <2> SUFFICES ASSUME Init PROVE Current /\ SettledReport
      OBVIOUS
    <2>1. queued = TRUE
      BY DEF Init
    <2> QED BY <2>1 DEF Current, SettledReport, Settled
  <1>2. ASSUME TypeOK, Inv, Current, SettledReport, [Next]_vars
        PROVE  Current' /\ SettledReport'
    BY <1>2, CurrentKept, SettledKept DEF Inv
  <1> QED BY <1>1, <1>2, TypeCorrect, CopiedCorrect, PTL DEF Spec
=============================================================================
