----------------------- MODULE WorkflowRunStatusProofs -----------------------
(***************************************************************************)
(* What the traversals of WorkflowRunStatus compute, for every workflow    *)
(* whose dependencies form no cycle.  Both are recursive functions; that   *)
(* there is a function that satisfies each of the recursive equations is   *)
(* shown first, from the least set that is closed under the equation, and  *)
(* what it computes then follows from a smallest counterexample.           *)
(***************************************************************************)
EXTENDS WorkflowRunStatus, TLAPS

\* What skips the steps that depend on it.
Skipping == {"skipped", "failure"}

\* The equation of the traversal of ConfigureWorkflowRun.
Marks(steps, dependsOn, own, mark) ==
    mark = [s \in steps |->
               IF own[s] # "pending" THEN own[s]
               ELSE IF \E d \in dependsOn[s] : mark[d] \in {"skipped", "failure"} THEN "skipped"
               ELSE "pending"]

\* A set of pending steps c holds all that depend on it or on a step that skips.
ClosedMark(steps, dependsOn, own, c) ==
    \A s \in steps :
        own[s] = "pending" /\ (\E d \in dependsOn[s] : d \in c \/ own[d] \in Skipping) => s \in c

\* The traversal satisfies its equation.
LEMMA MarkSkippedMarks ==
    ASSUME NEW steps, NEW dependsOn \in [steps -> SUBSET steps], NEW own
    PROVE  Marks(steps, dependsOn, own, MarkSkipped(steps, dependsOn, own))
  <1> DEFINE Closed(c) == ClosedMark(steps, dependsOn, own, c)
             Doomed == {s \in steps : own[s] = "pending" /\ \A c \in SUBSET steps : Closed(c) => s \in c}
             f == [s \in steps |-> IF own[s] # "pending" THEN own[s]
                                   ELSE IF s \in Doomed THEN "skipped" ELSE "pending"]
  <1>1. Closed(Doomed)
    BY DEF ClosedMark
  <1>2. ASSUME NEW s \in Doomed PROVE \E d \in dependsOn[s] : d \in Doomed \/ own[d] \in Skipping
    <2> SUFFICES ASSUME \A d \in dependsOn[s] : ~(d \in Doomed \/ own[d] \in Skipping) PROVE FALSE
      OBVIOUS
    <2>1. Closed(Doomed \ {s})
      <3> HIDE DEF Doomed
      <3> QED BY <1>1 DEF ClosedMark
    <2> QED BY <2>1
  <1>3. \A s \in steps : f[s] \in {"skipped", "failure"} <=> s \in Doomed \/ own[s] \in Skipping
    BY DEF Skipping
  <1>4. \A s \in steps : own[s] = "pending" =>
           (s \in Doomed <=> \E d \in dependsOn[s] : f[d] \in {"skipped", "failure"})
    <2> HIDE DEF f, Doomed
    <2> QED BY <1>1, <1>2, <1>3 DEF ClosedMark
  <1>5. Marks(steps, dependsOn, own, f)
    BY <1>4 DEF Marks
  <1> HIDE DEF f
  <1>6. MarkSkipped(steps, dependsOn, own) = CHOOSE mark : Marks(steps, dependsOn, own, mark)
    BY DEF MarkSkipped, Marks
  <1> QED BY <1>5, <1>6

\* The dependencies form no cycle: every set of steps has one that depends on
\* none of them.
NoCycle(steps, dependsOn) ==
    \A c \in SUBSET steps : c # {} => \E s \in c : dependsOn[s] \cap c = {}

\* Whatever order the dependencies allow, the traversal of ConfigureWorkflowRun
\* has one result: a function that satisfies its equation is the one computed.
THEOREM MarkSkippedUnique ==
    ASSUME NEW steps, NEW dependsOn \in [steps -> SUBSET steps], NEW own,
           NoCycle(steps, dependsOn),
           NEW mark, Marks(steps, dependsOn, own, mark)
    PROVE  mark = MarkSkipped(steps, dependsOn, own)
  <1> DEFINE m == MarkSkipped(steps, dependsOn, own)
             differ == {s \in steps : mark[s] # m[s]}
  <1>1. Marks(steps, dependsOn, own, m)
    BY MarkSkippedMarks
  <1> HIDE DEF m
  <1>2. ASSUME differ # {} PROVE FALSE
    <2>1. PICK s \in differ : dependsOn[s] \cap differ = {}
      BY <1>2 DEF NoCycle
    <2>2. \A d \in dependsOn[s] : mark[d] = m[d]
      BY <2>1
    <2> QED BY <1>1, <2>1, <2>2 DEF Marks
  <1>3. \A s \in steps : mark[s] = m[s]
    BY <1>2
  <1>4. mark = [s \in steps |-> mark[s]] /\ m = [s \in steps |-> m[s]]
    BY <1>1 DEF Marks
  <1>5. mark = m
    BY <1>3, <1>4
  <1> QED BY <1>5 DEF m

\* The equation of Tekton's isSkipped.
Skips(steps, dependsOn, tasks, skip) ==
    skip = [s \in steps |->
               \/ tasks[s] = "condfail"
               \/ tasks[s] \in {"none", "checking"} /\ \E d \in dependsOn[s] : skip[d]]

\* A set of steps c holds those whose condition failed and those that were not
\* started and depend on it.
ClosedSkip(steps, dependsOn, tasks, c) ==
    \A s \in steps :
        (\/ tasks[s] = "condfail"
         \/ tasks[s] \in {"none", "checking"} /\ \E d \in dependsOn[s] : d \in c) => s \in c

\* isSkipped satisfies its equation.
LEMMA IsSkippedSkips ==
    ASSUME NEW steps, NEW dependsOn \in [steps -> SUBSET steps], NEW tasks
    PROVE  Skips(steps, dependsOn, tasks, IsSkipped(steps, dependsOn, tasks))
  <1> DEFINE Closed(c) == ClosedSkip(steps, dependsOn, tasks, c)
             Least == {s \in steps : \A c \in SUBSET steps : Closed(c) => s \in c}
             f == [s \in steps |-> s \in Least]
  <1>1. Closed(Least)
    BY DEF ClosedSkip
  <1>2. ASSUME NEW s \in Least
        PROVE  \/ tasks[s] = "condfail"
               \/ tasks[s] \in {"none", "checking"} /\ \E d \in dependsOn[s] : d \in Least
    <2> SUFFICES ASSUME ~(\/ tasks[s] = "condfail"
                          \/ tasks[s] \in {"none", "checking"} /\ \E d \in dependsOn[s] : d \in Least)
                 PROVE  FALSE
      OBVIOUS
    <2>1. Closed(Least \ {s})
      <3> HIDE DEF Least
      <3> QED BY <1>1 DEF ClosedSkip
    <2> QED BY <2>1
  <1>3. \A s \in steps : f[s] = (s \in Least)
    OBVIOUS
  <1> DEFINE Must(s) == \/ tasks[s] = "condfail"
                        \/ tasks[s] \in {"none", "checking"} /\ \E d \in dependsOn[s] : f[d]
  <1>4. ASSUME NEW s \in steps PROVE f[s] = Must(s)
    <2>1. \A d \in dependsOn[s] : f[d] = (d \in Least)
      BY <1>3
    <2> HIDE DEF f, Least
    <2>2. s \in Least => Must(s)
      BY <1>2, <2>1
    <2>3. Must(s) => s \in Least
      BY <1>1, <2>1 DEF ClosedSkip
    <2>4. Must(s) \in BOOLEAN
      OBVIOUS
    <2> HIDE DEF Must
    <2> QED BY <1>3, <2>2, <2>3, <2>4
  <1>5. Skips(steps, dependsOn, tasks, f)
    BY <1>4 DEF Skips
  <1> HIDE DEF f
  <1>6. IsSkipped(steps, dependsOn, tasks) = CHOOSE skip : Skips(steps, dependsOn, tasks, skip)
    BY DEF IsSkipped, Skips
  <1> QED BY <1>5, <1>6

-----------------------------------------------------------------------------
(* The status of a step *)

\* The status of the run.
LEMMA RunStatusType ==
    ASSUME NEW cancel \in BOOLEAN, NEW cond \in PipelineCondition
    PROVE  /\ RunStatus(cancel, cond) \in Status
           /\ RunStatus(cancel, cond) = "success" <=> ~cancel /\ cond = "true"
           /\ RunStatus(cancel, cond) = "failure" <=> ~cancel /\ cond \in {"failed", "cancelled"}
           /\ RunStatus(cancel, cond) = "timed-out" <=> ~cancel /\ cond = "timedout"
           /\ RunStatus(cancel, cond) = "cancelled" <=> cancel
  BY DEF RunStatus, PipelineStatus, PipelineCondition, Status

\* The status of a step before dependencies are looked at: it has succeeded or
\* failed exactly if its TaskRun has.
LEMMA OwnStatusType ==
    ASSUME NEW status, NEW task \in TaskState
    PROVE  /\ OwnStatus(status, task) \in Status
           /\ OwnStatus(status, task) = "success" <=> task = "succeeded"
           /\ OwnStatus(status, task) = "failure" <=> task = "failed"
           /\ task = "condfail" => OwnStatus(status, task) = "skipped"
           /\ task \in {"none", "checking"} => OwnStatus(status, task) = "pending"
  BY DEF OwnStatus, HasStatus, TaskStatus, TaskState, Status

\* The status that ConfigureWorkflowRun gives to a step is a status; it is that
\* of success or failure exactly if the TaskRun has succeeded or failed, whatever
\* became of the run.
THEOREM StepStatusesType ==
    ASSUME NEW steps, NEW dependsOn \in [steps -> SUBSET steps], NEW cancel, NEW cond,
           NEW tasks \in [steps -> TaskState], NEW s \in steps
    PROVE  LET status == StepStatuses(steps, dependsOn, cancel, cond, tasks)[s]
           IN  /\ status \in Status
               /\ status = "success" <=> tasks[s] = "succeeded"
               /\ status = "failure" <=> tasks[s] = "failed"
  <1> DEFINE own == [u \in steps |-> OwnStatus(RunStatus(cancel, cond), tasks[u])]
             m == MarkSkipped(steps, dependsOn, own)
  <1>1. Marks(steps, dependsOn, own, m)
    BY MarkSkippedMarks
  <1>2. /\ own[s] \in Status
        /\ own[s] = "success" <=> tasks[s] = "succeeded"
        /\ own[s] = "failure" <=> tasks[s] = "failed"
    BY OwnStatusType
  <1>3. StepStatuses(steps, dependsOn, cancel, cond, tasks) = m
    BY DEF StepStatuses
  <1> HIDE DEF own, m
  <1>4. own[s] # "pending" => m[s] = own[s]
    BY <1>1 DEF Marks
  <1>5. own[s] = "pending" => m[s] \in {"skipped", "pending"}
    BY <1>1 DEF Marks
  <1> QED BY <1>2, <1>3, <1>4, <1>5 DEF Status

\* Tekton and the operator agree on what is skipped: a step that isSkipped finds
\* is skipped by the traversal of ConfigureWorkflowRun.
THEOREM SkippedAgree ==
    ASSUME NEW steps, NEW dependsOn \in [steps -> SUBSET steps], NoCycle(steps, dependsOn),
           NEW cancel, NEW cond, NEW tasks \in [steps -> TaskState],
           NEW s \in steps, IsSkipped(steps, dependsOn, tasks)[s]
    PROVE  StepStatuses(steps, dependsOn, cancel, cond, tasks)[s] = "skipped"
  <1> DEFINE own == [u \in steps |-> OwnStatus(RunStatus(cancel, cond), tasks[u])]
             m == MarkSkipped(steps, dependsOn, own)
             skip == IsSkipped(steps, dependsOn, tasks)
             wrong == {u \in steps : skip[u] /\ m[u] # "skipped"}
  <1>1. Marks(steps, dependsOn, own, m)
    BY MarkSkippedMarks
  <1>2. Skips(steps, dependsOn, tasks, skip)
    BY IsSkippedSkips
  <1>3. \A u \in steps :
           /\ tasks[u] = "condfail" => own[u] = "skipped"
           /\ tasks[u] \in {"none", "checking"} => own[u] = "pending"
    BY OwnStatusType
  <1>4. StepStatuses(steps, dependsOn, cancel, cond, tasks) = m
    BY DEF StepStatuses
  <1> HIDE DEF own, m, skip
  <1>5. ASSUME wrong # {} PROVE FALSE
    <2>1. PICK u \in wrong : dependsOn[u] \cap wrong = {}
      BY <1>5 DEF NoCycle
    <2>2. tasks[u] = "condfail" => m[u] = "skipped"
      BY <1>1, <1>3 DEF Marks
    <2>3. tasks[u] \in {"none", "checking"} /\ \E d \in dependsOn[u] : skip[d]
      BY <1>2, <2>1, <2>2 DEF Skips
    <2>4. \E d \in dependsOn[u] : m[d] = "skipped"
      BY <2>1, <2>3
    <2>5. m[u] = "skipped"
      BY <1>1, <1>3, <2>3, <2>4 DEF Marks
    <2> QED BY <2>1, <2>5
  <1> QED BY <1>4, <1>5 DEF skip

=============================================================================
