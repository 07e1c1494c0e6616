# A TLA+ model of Relay Core

Relay Core runs workflows on Kubernetes. This directory holds TLA+ modules that
model its three reconcilers, its metadata API and the expression language
between them, TLC configurations that check the modules on small instances, and
proofs for TLAPS. `PROJECT.json` maps every definition to the lines it models
and lists the runs, the mutants, the findings, the hazards and the theorems.

All objects live in the Kubernetes API server. Three facts about it and about
controller-runtime shape every module, and are modelled from how the code uses
them:

- an object has a `resourceVersion`; an Update from a copy with another version
  is answered Conflict, of a missing object NotFound; a Create of an existing
  object AlreadyExists; an Update that changes nothing keeps the version;
- the operator *reads* from informer caches, which lag behind the API server
  object by object, and *writes* to the API server;
- there is one reconciliation per key at a time; a key is enqueued by the watch
  events the controller asked for, by an error, or by an explicit requeue, and
  for no other reason.

## Components

| Component | State | Operations | Modules |
|---|---|---|---|
| Mutable ConfigMap of a run: step outputs and run state (`pkg/manager/configmap`, `pkg/obj/configmap.go`, `pkg/metadataapi/server/api/outputs.go`) | one ConfigMap, written by the operator *and* the metadata API | GET and PUT of an output (`MutateConfigMap` loop), operator's write of the run's state | `OutputStore`, `MutableConfigMap`, `MutableConfigMapProofs` |
| WorkflowRun reconciler (`pkg/reconciler/workflow`, `pkg/obj/workflowrun.go`, `pipelinerun.go`) | WorkflowRun, PipelineRun, their cached copies, the log storage | `Reconcile`: load, apply dependencies, Pipeline and PipelineRun, upload logs, compute and persist the status | `WorkflowRunStatus`, `WorkflowRun`, `WorkflowRunStatusProofs`, `WorkflowRunProofs` |
| Run dependencies, Pipeline and tokens (`pkg/obj/workflowrundeps.go`, `serviceaccount.go`, `pipeline.go`, `task.go`, `condition.go`) | service account, Tasks, Conditions, Pipeline, one token per step | load, configure, issue tokens, persist in order | `TokenStore`, `StepTokens`, `StepTokensProofs` |
| Tenant reconciler and tool injection (`pkg/reconciler/tenant`, `pkg/obj/tenant*.go`, `finalizer.go`) | Tenant, namespaces, policies, the event sink's Secret, volume, two claims, a job | finalize, delete stale namespace, persist dependencies, inject tools, persist status, requeue | `Tenant`, `TenantProofs` |
| WebhookTrigger reconciler (`pkg/reconciler/trigger`, `pkg/obj/webhooktrigger*.go`, `knativeservice.go`) | WebhookTrigger, owner and mutable ConfigMap, Knative service | finalize, delete stale dependencies, label, apply, persist status | `WebhookTrigger`, `WebhookTriggerProofs` |
| Authentication (`pkg/authenticate`, `pkg/metadataapi/server/middleware`) | a token in a pod's or Condition's annotation, the pod found by address | intermediaries, resolvers, injectors, validation | `Authentication` over `TokenStore`, `AuthenticationProofs` |
| Workflow documents (`pkg/workflow/types/v1`, `pkg/expr/parse`) | none | parse, decode, map to a resource, JSON transfer | `WorkflowDocument`, `RunConfiguration` |
| Expression language (`pkg/expr`) | none | evaluate with unresolvable parts, functions, queries | `Trees`, `Expression` |
| Managers (`pkg/manager`) | the immutable and the mutable ConfigMap, Vault | keyed reads, rejection | `MetadataManagers` |
| Conditions, specification, environment, state, secrets, events (`pkg/obj/configmap.go`, `condition.go`, `pkg/metadataapi/server/api`) | the above, and the condition pod | first evaluation by the operator, polling, the endpoints | `RunConfiguration`, `Conditions`, `ConditionLaws`, `ConditionsProofs` |
| Admission webhooks, error marks, test managers, entrypoint, wiring, generated clients | - | - | not modelled |

**How they interact.** A user creates a WorkflowRun in a tenant's namespace,
which the Tenant reconciler has prepared. The WorkflowRun reconciler evaluates
what it can of the steps' expressions into an immutable ConfigMap, gives every
step its token, and creates a Tekton Pipeline and PipelineRun, whose status it
copies back into the WorkflowRun. The pods of steps and of their conditions talk
to the metadata API, which recognises them by their address and token, evaluates
the rest of the expressions, and writes outputs into the same ConfigMap into
which the operator copies the state of the run. A trigger gets a Knative service
in the namespace of the tenant it refers to. Users cancel by changing the run's
state, and delete or change runs, tenants and triggers; finalizers, owner
references and annotations are all that connects what is created to what it was
created for.

**What is hard.** Stale caches, conflicts that send a reconciliation back to the
start between two of its writes, restarts between those writes, events that are
deliberately not watched (namespaces, ConfigMaps, claims, jobs) or filtered
(`GenerationChangedPredicate`), a retry loop without limit and polling loops with
one, status computations that combine sources which change at different times,
evaluation in stages against values that arrive in between, names and addresses
that are used again, and tokens that are found through them. The `hazards` of
`PROJECT.json` list these at their lines.

**Composition.** `MutableConfigMap` implements `OutputStore`, and `StepTokens`
implements `TokenStore`; `Authentication` extends `TokenStore`, so that what it
checks rests on what the operator was shown to provide. `Conditions` composes the
managers with the polling script and the handlers, over a document, an evaluator and
a configuration that are parameters; `MCConditions` composes it with the modules of
pure operators that define these (`Expression`, `WorkflowDocument`,
`RunConfiguration`, one extending the other).

## The mutable ConfigMap

`OutputStore` is the promise to the steps: a PUT is one atomic write of one
name, applied at most once between request and answer, and applied if it was
answered 201; a GET reads one instant. A failed request may or may not have
been applied.

`MutableConfigMap` is how the code keeps it. `store` is the object with its
`rv`, the incarnation `uid`, the outputs and the version of the run's state;
`client[c]` is a request with the local variables of `MutateConfigMap`
(`MutateGet`, `MutateUpdate`, `MutateRetry`, `MutateCreate`); `op` is a
reconciliation as far as this object goes (`LoadRun`, `LoadMap`,
`PersistCreate`, `PersistUpdate`, `PersistRejected`); `runCache` and `mapCache`
are the operator's informer caches, advanced by `RunEvent` and `MapEvent`.
A PUT while the map is missing becomes a Create, for which the metadata API's
role (get and update) has no permission: an error.

Run `configmap`: `TypeOK`; `CopiesAreHonest` (a copy that would still be accepted
is exact); `StateNeverRegresses` (the operator, reading run and map from two
caches, never puts an older state of the run over a newer one);
`ImplementsOutputStore` (refinement); `RequestsAnswered` (the unbounded loop
ends: a round is lost only to another's success, and those are finitely many);
`StateDelivered`. Two clients, two names, one value, one request each, one change
of state, one deletion, one failure or restart. Two clients and the operator are
the three writers needed for one to overtake another twice; two names are needed
for one PUT to undo another, and one deletion makes all the Create, NotFound and
AlreadyExists paths happen.

Fairness: each request is a goroutine and the controller has a worker, so each
takes its next step; informers deliver. Nobody need send a request, fail, delete
or change the state. The bound on requests is what makes `RequestsAnswered`
true: with unlimited rivals the loop of `MutateConfigMap` gives no guarantee.

### Proved

`MutableConfigMapProofs` proves, for any sets of clients, names and values and
any bounds, from the assumptions that `Absent` and `None` are none of the values
they stand beside and that bounds are natural numbers:

- `TypeCorrect`: `Spec => []TypeOK`.
- `CopiesHonest`: `Spec => []CopiesAreHonest`. `TypeOK /\ CopiesAreHonest` is
  inductive. `NextStoreStep` says what a step can do to the object (nothing,
  delete it, or give it a new version just taken from `rev`), `NextCopyStep`
  what it can do to a copy (keep it, drop it, or take it from the store or
  another copy), and `HonestCopyStep` combines the two.
- `StateOrder`: `Spec => []StateInOrder`. Inductive together with
  `CopiesAreHonest`, which is needed because a client's Update writes back the
  *state* that its copy holds: only an exact copy leaves it alone.
- `NoStateRegression`: the action property, from the two invariants.
- `Refinement`: `Spec => ImplementsOutputStore`. Each step maps to a step of
  `OutputStore` or a stutter. `MutateUpdate` maps to `Apply` since by
  `CopiesAreHonest` the accepted copy is the stored object with one key changed;
  the operator's Update stutters for the same reason. `VerbInvariant`
  (a request in the loop is a PUT) is the one extra invariant.
- `StateNotForgotten`: the map has the present state of the run, or the operator is
  still to see it or about to write it, unless the map was deleted
  (`StateRemembered`). It is inductive with the
  two invariants above: an older state that is being written is always followed by
  another reconciliation.

## WorkflowRun

`WorkflowRunStatus` is `workflowRunStatus`, `workflowRunStatusSummaries` and the
topological traversal of `ConfigureWorkflowRun`, next to Tekton's own `isSkipped`
and `GetPipelineConditionStatus` (external, from how the code uses them).

`WorkflowRun` is `Reconcile`, in the order of the code: `LoadRun`, `Complete` for
a workflow without steps, `LoadPipelineRun`, `ApplyPipelineRun` (or `...Rejected`),
`UploadLogs` with `ConfigureWorkflowRun`, `PersistStatus` (or `...Rejected`).
`Fail` is an error at any point, applying the dependencies and the Pipeline
included. Users cancel and delete; the garbage collector removes the PipelineRun
of a deleted run; Tekton starts steps, checks conditions, finishes, times out
and cancels, and still reports TaskRuns that outlive their PipelineRun.

- `run_safety` (no steps; a conditional step followed by two more; two parallel
  steps; one failure or restart, one cancellation): `TypeOK`;
  `ReportConsistent` (the status of the run and those of its steps, which come
  from different parts of the PipelineRun, agree); `LogsComplete` (a recorded
  log is stored and was complete when it was uploaded); `SettledReport` (when
  nothing is queued or under way, the status is exactly what Tekton reports: no
  event is missed); `OutcomeStable`; `CancelSticks` (the specification is rebuilt
  from a cached run each time, yet a cancellation is never withdrawn).
- `run_live` (no steps, or a single step without conditions; a timeout, a failure, a
  cancellation and a deletion): `LogsUploaded` (uploading always comes one
  reconciliation after the status that names the TaskRun, and the status update
  itself causes that reconciliation), `CancelDelivered`, `RunEnds`,
  `OperatorRests` (the operator's own updates do not keep it busy for ever),
  `DeletedRunCleaned` (although an operator that has not seen the deletion
  creates the PipelineRun again).
- `run_pending` (expected violation): see Findings.

Bounds: three steps are the shortest chain in which skipping has to propagate,
two parallel steps the smallest case of one failing while the other goes on. A
cancellation is one-way, as in the code that reads it. `MaxDeletes` bounds how
often the PipelineRun is collected while it might be created again.

Fairness: the queue hands out its keys and a reconciliation runs to its end,
watches deliver, TaskRuns end (they have timeouts), the garbage collector works.
Cancelling, deleting, failing and timing out are never forced.

Left out: the ten-hour resync of informers (it would only hide missed events);
two operators at once (there is no leader election, but a deployment has one
replica); the events and metrics sent along the way.

### Proved

`WorkflowRunStatusProofs` is about the two recursive traversals, for any set of
steps, finite or not, whose dependencies form no cycle (every set of steps has one
that depends on none of the others in it: `NoCycle`). Induction is not available, so
that the functions exist is shown otherwise: the least set of steps closed under the
rule is taken as the set of skipped ones, and the function made from it satisfies
the recursive equation (`MarkSkippedMarks`, `IsSkippedSkips`). Of two functions that
satisfy it, the set of steps on which they differ has no step without dependencies
in it, so it is empty.

- `MarkSkippedUnique`: the traversal of `ConfigureWorkflowRun` has one result,
  whatever topological order the graph library chooses.
- `StepStatusesType`: a step is reported as successful or failed exactly if its
  TaskRun is.
- `SkippedAgree`: what Tekton skips, the operator reports as skipped.

`WorkflowRunProofs` is about the reconciler, for any set of such workflows and any
bounds; it assumes of `Absent` that it is no object.

- `TypeCorrect`: `Spec => []TypeOK`, inductive by itself.
- `CopiesCorrect`: three invariants. `RunCopies`: the copy of a reconciliation is no
  later than that of the cache, that no later than the run, and one with the version
  of the run has its cancellation and no deletion. `PipelineRunCopies`: a copy with
  the latest version is the PipelineRun. `CancelSeen`: if the PipelineRun is
  cancelled, the cache and the reconciliation have seen the cancellation of the run.
- `CancelKept`: `CancelSticks`, from `CancelSeen`, which needs `RunCopies` because a
  reconciliation rebuilds the specification from a copy.
- `CopiedCorrect` (`Inv`): in addition, Tekton's condition agrees with its TaskRuns;
  what a reconciliation has read of the PipelineRun has the cancellation of its copy
  of the run, and what was final in it still holds; what it will write is computed
  from that.
- `ReportsAgree`: `ReportConsistent`, from `Inv`, `SkippedAgree` and
  `StepStatusesType`. "A failed run has a failed step" needs the agreement of the two
  cancellations: a cancelled PipelineRun counts as a failure.
- `ReportedCorrect`, `OutcomesKept`: `OutcomeStable`. What the run reports as final
  is final in the PipelineRun *and* in the copy that will be reported next
  (`Reported`); the second part is what excludes a late write of an old status.
- `LogsCorrect`: `LogsComplete`, strengthened to all copies of the run.
- `NothingMissed`: `SettledReport`, with `Current`: what a reconciliation has read is
  what there is, or an event is on its way, or the run is queued again. An idle
  operator whose caches are up to date has written that, since a status that changed
  the run would have made its cache out of date.

## Tenant and tool injection

`Tenant` is the Tenant reconciler: `LoadTenant`, `LoadDeps` (or `LoadDepsFails`:
the Secret of the event sink is of the wrong type), `AddFinalizer`,
`DeleteStale`, `DeleteNamespace`, `RemoveFinalizer`, `PersistNamespace`,
`PersistPolicies`, `PersistStatus`, then for a tenant with tools `ApplyClaim`,
`ApplyVolume`, `ApplyReadOnlyClaim`, `ApplyJob` (or `Panic`: after AlreadyExists
there is no job to look at) and the second report, `PersistToolStatus`;
`Rejected` or `Fail` for errors. Users change the template and the Secret
(`ChangeSecret`) and delete the tenant; a deleted namespace is terminating, is emptied,
then goes; claims are bound, to a volume that can be shared or to one of another kind
(`VolumeEvent`), jobs end well or badly. Some namespaces exist from the start and
belong to others, and others take namespaces over at any time (`TakeOver`: make one
of the name, or annotate the one that is there as their own). In `ApplyVolume` a
volume that is not found is an error, and one that is neither a disk nor a path of
the host is waited for. An error of `deps.Persist` goes into the status, any other ends the
reconciliation. An event sink has a token of its own, one from a Secret, or no URL;
what is sent to it is the business of a trigger's own program.

The history variable `forgotten` records the two ways in which a namespace is
lost: the template changes before the status has recorded the old name, or the
cache does not show a namespace when it is to be deleted. `taken` records the
namespaces that were taken over.

- `tenant` (a plain tenant, one with tools and a sink with a token, one whose sink
  has a Secret, one whose sink has no URL; one name besides the tenant's own
  namespace; two changes of the template or the Secret or takeovers, one failure or restart; a
  tenant that is not plain has two of these in all): `TypeOK`; `NamespacesTracked` (a
  namespace of the tenant is named by its template or its status and protected by
  its finalizer: those two ways are the only ones to lose one, so a crash or an
  error between any two steps loses none); `OthersNamespacesKept` (a namespace
  that is not marked as a dependency of the tenant is deleted only if it was taken
  over, by a reconciliation that holds a copy from before that). The exception
  (`DeletesByOldCopy`) happens: `DeleteIgnoreNotFound` names the namespace, with
  neither its UID nor its version, and acts on a cached copy. The property says
  that there is no other way. Note that `deps.Persist` marks a namespace that
  exists already, and so adopts it;
  `ReadyMeansTools` (a settled tenant that says it is ready has its tools, although
  it reports twice and reads the job from a cache); `TenantDeleted`, unless the Secret of its sink has
  another type, which stops every reconciliation before it gets to the finalizer;
  `TenantBecomesReady` (there is no watch on namespaces, claims, jobs or Secrets,
  only the requeue of a tenant that is not ready), unless its sink has no URL or no
  token, or its tools cannot be injected: the tenant has no namespace of its own,
  its claim is bound to a volume of another kind, for which the operator looks again
  for ever, the job has failed and nobody replaces it, or the volume belongs to a claim
  in a namespace that the tenant has left (`ToolsImpossible`).
- `tenant_stale`, `tenant_ready` (expected violations, two names): see Findings.

The template moves from a name to the tenant's own namespace and back within two
changes, which makes every stale path happen; the two violations keep two names.
Fairness is that of the other reconciler, and terminating namespaces go away,
claims are bound if they can be, and jobs end.

### Proved

`TenantProofs`, for any set of names, any kinds of tenants and any bounds, assuming
that the tenant's own namespace, "no name" and "no object" differ from the names and
objects they stand beside:

- `TypeCorrect`: `Spec => []TypeOK`.
- `CopiesCorrect` (`TenantInv`): a copy with the version of the tenant is the
  tenant; what an older one says of finalizer, deletion and template is still known
  to the tenant, or was recorded in `forgotten`. It is inductive with the facts on
  phases that come from the guards of the code (`Phases`, `CacheAhead`).
- `SpacesCorrect`, `OthersKept`: `OthersNamespacesKept`. A namespace that any copy
  shows as a dependency is one, is gone, or was taken over (`SpaceInv`); in the last
  case the copy that is deleted by differs from the namespace, which is the exception
  that the property allows.
- `LossesCorrect`, `Tracking`: `NamespacesTracked`. A reconciliation that is past the
  deletion of a namespace has left it terminating, or it was forgotten (`LossInv`);
  with `TenantInv` no write of the status or of the finalizer loses another one.
- `ToolsCorrect`, `ReadyTools`: `ReadyMeansTools`. A tenant that is wrongly ready is
  being reconciled, is queued, or has a change that its cache has not seen
  (`ToolInv`).
- `TenantNotForgotten`: a tenant that is not ready for its present template, or that
  is deleted, is being reconciled, is queued, or has a generation that the cache has
  not seen. With no watch on what belongs to the tenant, and none on its status, this
  is what the requeues have to guarantee; `TenantInv` shows that a reconciliation
  which ends well has written its status to the present generation.

## From a document to a running step

These modules follow one step, or one trigger, from the YAML of its author to what
its pod is told.

- `Trees`: values of the expression language, results with unresolvable parts, and
  meanings. Text is a sequence of fragments, so that concatenating is what it is.
- `Expression`: `EvaluateAll`, the functions (`concat`, `equals`, `notEquals`,
  `append`, `merge`, `jsonUnmarshal`, `convertMarkdown`), encodings and
  `EvaluateQuery`.
- `WorkflowDocument`: YAML tags to trees, the decoder with its rejections (and the
  crash of the decoder on a repeated key, which leaves a field without a node),
  approval steps with the condition they add, the mapping to resources, and the
  transfer through JSON, in which encoded text is decoded.
- `MetadataManagers`: keys, managers over the two ConfigMaps and over Vault, and
  the resolvers that give the evaluator access to them per endpoint.
- `RunConfiguration`: the resource that a document is mapped to, what the operator
  stores of it in the immutable ConfigMap after its own evaluation (or that this
  fails, or crashes on an environment that is no expression), and the reference
  definition: what a document *means* is defined on its YAML nodes directly and all at
  once, with no stage, resolver or envelope. A call that needs no reference belongs to
  the document: what it yields stands in its place, and an expression in there, such
  as that of `jsonUnmarshal` of a constant text, is one of the document's own
  (`Inline`, `MeaningOfTree`). That is what the operator makes of it by evaluating it
  first; evaluating the document once would leave it as data.
- `Conditions`: the state. `Decode`, `ConfigureImmutable` (which is repeated for ever
  if it fails: the error is returned, no status is written), `Write` (outputs and
  answers arrive), `StartStep`, `Poll`, `ReadReference` (one read of the ConfigMap
  per reference), `PollAnswered`, `PollLost`, and the endpoints `GetSpec`,
  `GetEnvironment`, `GetEnvironmentVariable`, `GetState`, `GetSecret`, `PostEvent`.
  Its constants are the documents, the evaluator (`Evaluated`, `RefsOf`, `Queried`),
  the configuration and the meaning (`Conditional`, `SpecMeaning`); the instances for
  TLC give them the definitions of the modules above. So the control can be proved
  about without the recursion over trees.
- `ConditionLaws`: what such an evaluator has to satisfy for the proofs.

Run `conditions` compares what happens with what the document means:
`RunsOnlyIfTrue`, `SkippedOnlyIfFalse` and `ExpiredOnlyUndecided` (the outcome of the
polling against the meaning of the conditions), `SpecServed` (what the endpoints
tell), `StepSettles` (a step of a run that could be configured runs or is skipped in
the end; a run that cannot be configured never gets any further). "Unless an output was replaced meanwhile" is part of these: the
reads of one request are not atomic, and a value that is replaced between them may be
seen by one and not by the other. `ExpiredOnlyUndecided` allows for an error that
arrives while the last poll is under way: with conditions `[a, b]` where `a` is false
already, a poll that reads `b` after it has become an error is answered with an
error, and so is every poll after that.

Two more properties are about the evaluation itself, on every content that the
mutable ConfigMap comes to have: `StagedSame` (evaluating in two stages is evaluating
once what constant calls have made of the document, and what is not stored is empty)
and `QueryAgrees` (a query is the part of the whole, evaluated once more if it came
from an expression). Both say where the code differs from evaluating once. With
`!Fn.jsonUnmarshal '{"$type":"Secret","name":"s"}'` the two stages resolve the secret
and a single one would not. An output with that content is given as it was written
with the whole of the specification, and as the value of the secret when it is asked
for by a query. No document says which is meant, so neither is listed as a finding.

Nineteen documents: conditions on outputs, parameters, secrets, answers and
connections, approval with and without other conditions, a condition that can be
false while another becomes an error, all functions, constant calls and
outputs that spell references (to a secret, to another output that spells one, in a
list, as conditions), steps and triggers, with and without Vault, and the documents that the decoder or the operator refuses. Two polls
(a first that finds nothing and a last), one lost request, three writes (one more
than references in a condition, so that one can be replaced). A step asks one
endpoint: answers do not depend on each other.
Fairness: operator, Tekton, the script and the handlers go on; nobody has to write
an output or to answer, so `StepSettles` rests on the limit of the polling.

Left out: JSONPath templates, other languages of queries than paths, Jira's
rendering of Markdown (one opaque value), `!Data`, which no endpoint resolves;
reading a connection is one read, although the code lists its attributes first.

### Proved

`ConditionsProofs` proves four of the invariants of `conditions` for any documents, any
number of references, polls, writes and questions, and for every evaluator that
satisfies the assumptions of `ConditionLaws`. These are about *one* evaluation of one
tree with given reads, in which nothing happens meanwhile:

- `ConfigurationLaw`: how the operator may end, and that it stores an environment;
- `MonotoneLaw`: with more references found, a complete result stays what it is and
  an error stays an error;
- `ShapeLaw`: a list is evaluated element by element, and what is not complete is
  neither a Boolean nor a list that was not one before;
- `ConditionsLaw`, `AnswersLaw`: with all references read at once, what the operator
  stored of the conditions, the specification and the environment has the outcome
  that the document means.

They are assumptions of the proofs. Whether the definitions of `Expression` and
`RunConfiguration` satisfy them for *every* document is not proved, as the prover
cannot look into recursive operators; TLC evaluates them, before the run `conditions`
starts, for each of its documents, every content of its mutable ConfigMap and every
subset of its references, the documents with calls and outputs that spell references
included. Evaluating once and in two stages would not agree for these; it is the
inlined document that `AnswersLaw` and the meaning speak of. None of them speaks of time. What is proved is that time does no
harm: references that are read one by one, with outputs and answers arriving in
between, over several polls, lead to the same decision as reading all of them at once.

The argument: as long as nothing is replaced, the mutable ConfigMap only grows
(`WriteGrows`), so a reference that was found keeps its value (`ReadGrows`), and what
a request has read is what there is now, or was not there when it was read
(`ReadsCurrent`). Such reads are *readings* of the present map, and readings of a map
are readings of every map it grows to (`ReadingsGrow`). `IInv` says of everything that
was decided or told that it follows from readings of the present map (`OutcomeInv`,
`GotInv`), and of the poll in flight that it misses nothing that was there when it
began (`PollInv`). It is inductive; with `MonotoneLaw`, what follows from some
readings follows from all reads at once (`FullAgrees`), and `ConditionsRight` and
`ErrorRight` carry that over to the answer of `GetConditions`, for lists of conditions
and for expressions that turn out to be one.

- `ConditionsInvariant`, `ConditionsTypeOK`, `ReadsStayCurrent`.
- `RunsTrue`: `RunsOnlyIfTrue`; `SkippedFalse`: `SkippedOnlyIfFalse`;
  `ExpiredUndecided`: `ExpiredOnlyUndecided`; `SpecAsMeant`: `SpecServed`.

## Tokens

`TokenStore` is what the metadata API and Tekton see of the operator's work: when
the Pipeline is there, every step has a token of its own, and none goes while the
run stays. `StepTokens` is how: `Reconcile`, `LoadDeps`, `PersistServiceAccount`,
`LoadPipeline` (which waits for the service account's secret, or `LoadTimeout`),
`Persist` in the order Tasks, Conditions, Pipeline (`PersistRank`: an object is
written when all of a lower rank are). `Claims` are signed and then
encrypted for the namespace (`Issue`). Run and namespace may be deleted and created
again under the same names, with objects of the earlier run not collected yet.

Run `tokens`: `TokenOnce` (a Task or Condition never changes its token, whatever
stale reconciliations do), `Credentials` (when Tekton may start, every token is of
its step and contains the present service account's, unless it was inherited from
an earlier run of the same name), `RunApplied`, `ImplementsTokenStore`
(refinement). Two steps, one of them conditional, so that there are three tokens;
two runs, two namespaces, one failure. The caches of runs and namespaces are
modelled; an object that is out of date in another cache is refused when it is
written, which is one of the errors of `Fail`. Fairness: watches, queue,
Kubernetes' own controllers; users do nothing by force.

### Proved

`StepTokensProofs`, for any steps and bounds:

- `TypesCorrect`: types, that the numbers in tokens and owners are of runs and
  namespaces that there were, and that what is prepared keeps the token that was
  loaded (`Prepared`).
- `TokensOnce`: `TokenOnce`, since a write is accepted only if the object is still
  what was loaded.
- `ObjectsKept`: an object that is owned by the present run is not collected, so the
  service account of a token issued for it stays (`AccountsKept`), and what the
  reconciliation has written is there (`TargetsKept`).
- `CredentialsCorrect`: `Credentials`, from `ObjectsKept` and the rank of the
  Pipeline, which is written last.
- `Refinement`: `ImplementsTokenStore`. Every step shows as one of `TokenStore` or as
  none; that a token never goes while its run stays is `TargetsKept`.
- `RunNotForgotten`: the Pipeline of the run is there, or the run is queued, unseen or
  being reconciled. A reconciliation for an earlier run of the same name does not
  count.

## Authentication

A request carries its address and nothing else. It comes through `ProxyHops` proxies,
each of which appends the address it was called from to a header that the sender may
have filled already; the API takes the address back from the right (`Forwarded`,
`TrustedHop`), being told how many proxies there are. `LookupPod` finds the one pod that
the Kubernetes API shows running at the address, `GetNamespace` and `ReadToken` are
reads of their own (for a condition's pod the token is on the Condition),
`Authenticate` decrypts, resolves, injects the managers and validates. Meanwhile
pods end, their addresses are given to others before the API shows it,
namespaces are created again and tokens expire. Pods of steps and conditions are
started by Tekton (`StartPod`), pods of triggers by Knative (`StartTrigger`), with a
token of the trigger that never expires and a subject of its own (`Action`).

A step's token expires 65 minutes after it was issued and is never replaced
(`Expire`, `ExpireCopy`). `NewKeyResolver` is used without an expectation
(`middleware/auth.go:124`), with which go-jose does not compare times, so a key
accepts an expired token (`KeyResolver`); Vault's login refuses it, with an error that
the chain of resolvers returns at once, so every later request of the pod is answered
500 (`VaultResolver`).

Run `authentication`: `ServedAsSender` (a request that is served acts as its
sender's step in its sender's namespace, if the API showed the sender when it was
looked up, whatever its headers say) and `PodServed` (a pod that goes on asking is
served, unless its token was issued for another namespace or expires while Vault is
asked; nothing else is final). Without "if the API showed the sender" the first would
be false: a pod that runs but is not shown yet is taken for the one that had its
address before, whose status is still "Running". Nothing in the repository promises
otherwise; it is an assumption about the network that the property makes explicit.
Two pods sharing one address, a step, its condition and a trigger, two proxies,
headers that are empty, forged and no address, Vault and a key, two namespaces, one
failure, one pod whose requests are followed (requests share no state; the request of
a pod that ends is dropped, as authentication only reads). Fairness: kubelets report,
handlers end, a refused pod asks again.

Left out: a server without Kubernetes or Vault, which takes the token from the
request or unencrypted, and a number of trusted proxies that is not the number there
is, with which the address is anybody's choice.

### Proved

`AuthenticationProofs`, for any finite set of pods, any addresses, steps, triggers,
headers, number of proxies, resolvers and bounds:
`Inductive` (types, that pods which run have different addresses, and that what a
request carries at each of its stages is true of its sender while the sender is
there), `TypeCorrect`, and `SenderServed`: `ServedAsSender`. It is proved over
`TokenStore`, so with `Refinement` of `StepTokens` it rests on what the operator does.
That pods are finitely many is needed for "exactly one pod" of `LookupPod`. The lemma
`SenderAddress` shows that the address which the API takes from the header is that of
the sender, whatever the sender put there; `Subjects` that what a token says it was
issued for is what its pod acts as.

## WebhookTrigger

`WebhookTrigger` is that reconciler: `Load` (or `LoadFails`), `DeleteStale`, `Delete`,
`RemoveFinalizer`, `AddFinalizer`, `LabelTenant`, `PersistOwner`, `PersistDeps`,
`ApplyKnativeService` (or `...Fails`), `PersistStatus`. The owner ConfigMap owns
everything else, in the namespace of the tenant; a trigger that is referred to
another tenant finds the old one through its status. Someone else may make an owner map of
that name or annotate the one that is there (`TakeOver`). Tenants come, go, settle and
change their event sink, and break and repair its Secret (`BreakSecret`,
`RepairSecret`); the trigger is enqueued by its label.

- `trigger`: `OthersMapsKept` (a map of the same name that is not the trigger's is
  deleted only if it was taken over, by a reconciliation that has read it before that;
  deletion is by name, from a cached copy, without a UID, so this exception,
  `DeletesByOldCopy`, happens; the property says that there is no other),
  `ServicesCollected`, `TriggerDeleted` (also when its tenant is
  gone or never settles, unless the Secret of the tenant's sink cannot be loaded),
  `TriggerServed` (with a settled tenant, the service runs in its namespace with a
  token for its present sink, and the status says so). Two tenants, one of whose
  namespaces holds such a map from the start, two sinks, one change or takeover, one
  failure or restart.
- `trigger_stale` (expected violation; two changes, no failure): see Findings.

Fairness: watches, queue, garbage collector, and Knative gets services ready in
the end. Tenants need not settle: the properties say "if".

### Proved

`WebhookTriggerProofs`, for any tenants, a set of sinks that is not empty, and any
bounds: `TypesCorrect` and `TypeCorrect`; `CopiesCorrect`: triggers are seen in the
order in which they were created (`UidInv`), and a copy of an owner map is out of date
in one way only, that the map was deleted or has become a later trigger's, unless
someone else has taken it over (`MapInv`); `OthersKept`: `OthersMapsKept`, since a map
that was the trigger's when it was read can become somebody else's only by that.

`TriggerNotForgotten` is the safety half of `TriggerServed` and `TriggerDeleted`: when
the operator rests and its cache has the trigger as it is, the trigger is not deleted,
and it is served if its tenant is settled. Its invariant `WakeInv` has to say what a
reconciliation knows while the trigger is not queued: that its trigger is the one in
the cache (`Agrees`), that what it has read of the tenant and written of map and
service still holds (`Current`), and after it that the label, by which events of the
tenant find the trigger, and the status are those that were written (`Complete`).
`Current` holds only if the copy in the cache has the label of the tenant (`Watched`):
without it an event of the tenant is lost, but then the write of the label is an event
to come, and the cache is not up to date. An event of the tenant's Secret does not
exist, so a tenant counts as unchanged (`Up`) while its Secret cannot be loaded.

## Findings

1. **A step that will never run stays pending** (`run_pending`,
   `src/pkg/obj/workflowrun.go:204`). The comment says pending steps are marked
   as skipped "if they won't ever be run". That holds below a failed or skipped
   step only. With `c` after `a`, and `b` in parallel: `b` fails while `a` runs,
   `a` succeeds, Tekton starts nothing more, and `c` is pending for ever.
2. **A stale namespace can be leaked** (`tenant_stale`,
   `src/pkg/obj/tenantdeps.go:145`). `DeleteStale` takes a namespace that the
   cache does not show yet for one that does not exist; `Status.Namespace` is
   then overwritten. The same happens when the template changes between
   `deps.Persist` and `PersistStatus`.
3. **A tenant can be ready for a namespace that disappears** (`tenant_ready`,
   `src/pkg/obj/tenant.go:108`). Moving a template away and back finds the
   namespace terminating; updating it succeeds, the tenant is ready, the
   namespace goes, and nothing enqueues the tenant again.
4. **Stale dependencies of a trigger wait for its new tenant** (`trigger_stale`,
   `src/pkg/obj/webhooktriggerdeps.go:131`). The reconciler deletes them
   "regardless of upstream status", but they are only looked for once the tenant
   that the trigger now refers to has settled.

## Mutants

Every property of a passing run is paired with a mutated definition (an operator
just before the original: a dropped guard, a missing reset, a stale read) under
which TLC finds it violated. Dropping the requeue after a conflict is *not* a
useful mutant of `WorkflowRun`: whoever caused the conflict also causes an
event, so the reconciler recovers; its mutants drop events instead.

## Only model-checked

- Liveness (`RequestsAnswered`, `LogsUploaded`, `RunEnds`, `TenantDeleted`,
  `TriggerServed`, `RunApplied`, `PodServed`, `StepSettles` and the others), under
  any fairness: the prover has no rules for it. What is usually wrong with such a
  property is a lost wake-up, and that is a safety property: `NothingMissed`,
  `StateNotForgotten`, `TenantNotForgotten`, `RunNotForgotten` and
  `TriggerNotForgotten` prove that an operator at rest with its caches up to date has
  nothing left to do. What is left to TLC is that it comes to rest.
- `StagedSame` and `QueryAgrees`, and the laws of `ConditionLaws`: facts about the
  recursive evaluator of `Expression` and the documents of `WorkflowDocument`. What
  recursive operators compute for every input needs induction over trees, and the
  prover has no backend for a module that declares one.
- `NoStepLeftPending` and the other findings, which are false.

Every other invariant and action property of the runs is proved. The inductive
invariants were checked by TLC first, with larger bounds than those of the runs
(two pods that ask, two triggers, deletions, timeouts and cancellations together). The type invariants of
`Conditions`, `Authentication` and `WebhookTrigger` are no part of their runs; they
are proved.

What is proved of `Conditions` is proved from the laws of `ConditionLaws`, so for the
evaluator of `Expression` it is as certain as these, which TLC evaluates for the
documents of the run only.

## Not modelled

- *Admission webhooks*: stateless additions to pods (scheduling constants, a mount
  of the tools); nothing in the modelled state depends on them.
- *Error marks*: they decide what is reported to the tracker, not what is retried.
- *Roles, bindings, pull secrets, limits, network policies* of a run or trigger:
  data without control, applied in steps that may fail.
- *Test managers, HTTP and Vault clients, entrypoint, runtime tools, wiring,
  metrics, generated code*: I/O or data conversion without state that another
  actor can change.

## Plan

What remains:

1. `Conditions`: the laws for the evaluator of `Expression`, by induction over trees,
   once a prover for it is at hand.
2. Liveness: from "an operator at rest has nothing left to do", which is proved, to
   "it is done in the end", with a measure that decreases with every reconciliation
   and no change by users.
