------------------------------ MODULE Conditions ------------------------------
(***************************************************************************)
(* One step or one trigger of a workflow document from its YAML to its     *)
(* execution.  The document is decoded and mapped to a WorkflowRun or a    *)
(* WebhookTrigger; the operator evaluates the expressions a first time and *)
(* stores what is left of them in the immutable ConfigMap; the condition   *)
(* pod of a step polls the metadata API, which evaluates the rest against  *)
(* outputs and answers that arrive in the mutable ConfigMap meanwhile, one *)
(* read per reference; a step that may run, or a trigger, asks for its     *)
(* specification, its environment, its state and secrets, or sends events. *)
(***************************************************************************)
EXTENDS MetadataManagers

CONSTANTS
    Resource,       \* for each document, the resource it is mapped to, or the
                    \* faults that decoding it meets
    Configuration,  \* for each resource, how a reconciliation of the operator
                    \* may end and the immutable ConfigMap if it is applied
    RefsOf(_),      \* the references in a tree
    Inlined(_),     \* the tree with the expressions that its calls yield
    Evaluated(_, _),       \* the result of evaluating a tree in an environment
    Queried(_, _, _),      \* the same of a path in a tree
    Conditional(_, _),     \* what the conditions of a document mean, given the
                           \* mutable ConfigMap
    SpecMeaning(_, _)      \* what its specification means

CONSTANTS
    MaxPolls,   \* POLLING_ITERATIONS
    MaxLost,    \* bound on requests that get no answer
    MaxWrites,  \* bound on writes to the mutable ConfigMap
    MaxAnswers  \* bound on the endpoints that the step asks

ASSUME BoundsAssumption ==
    MaxPolls \in Nat \ {0} /\ MaxLost \in Nat /\ MaxWrites \in Nat /\ MaxAnswers \in Nat

VARIABLES
    workflow,   \* the name of the document of this run
    run,        \* how far the run has come
    immutable, mutable,  \* its ConfigMaps
    pod,        \* the condition pod: its script, or its outcome
    polls,      \* the iterations the script has completed
    req,        \* the request in flight
    got,        \* what the step was told, by endpoint
    lost, writes,        \* counters
    overwritten,         \* history: a value of the mutable map was replaced
    polled      \* history: the mutable ConfigMap when the latest poll began,
                \* if that poll was answered

vars == <<workflow, run, immutable, mutable, pod, polls, req, got, lost, writes,
          overwritten, polled>>

doc == Documents[workflow]
me  == doc.step.name

Store == StoreOf(workflow, immutable, mutable)

Idle == [what |-> "none"]

Init ==
    /\ workflow \in DOMAIN Documents
    /\ run = "submitted"
    /\ immutable = <<>> /\ mutable = <<>>
    /\ pod = "none" /\ polls = 0 /\ req = Idle
    /\ got = <<>>
    /\ lost = 0 /\ writes = 0
    /\ overwritten = FALSE /\ polled = <<>>

-----------------------------------------------------------------------------
(* The run and its ConfigMaps *)

Decoded(w) == Resource[w].faults = {}

\* YAMLDecoder.Decode and ToRuntimeObjectsManifest.
Decode ==
    /\ run = "submitted"
    /\ run' \in IF Decoded(workflow) THEN {"accepted"} ELSE Resource[workflow].faults
    /\ UNCHANGED <<workflow, immutable, mutable, pod, polls, req, got, lost, writes,
                   overwritten, polled>>

\* One reconciliation of the run.  Whatever was configured before an error is
\* not persisted; a run whose reconciliation failed, or ended the operator, is
\* reconciled again, for ever, and nobody is told.
ConfigureImmutable ==
    /\ run \in {"accepted", "failing", "crashing"}
    /\ run' \in Configuration[workflow].outcomes
    /\ immutable' = IF run' = "applied" THEN Configuration[workflow].data ELSE immutable
    /\ UNCHANGED <<workflow, mutable, pod, polls, req, got, lost, writes, overwritten, polled>>

\* A step's PutOutput, or an answer that the operator copies from the run's
\* state to the mutable ConfigMap.
Write ==
    /\ run = "applied" /\ writes < MaxWrites
    /\ \E w \in doc.writes :
          /\ KVGet(mutable, w[1]) # Found(w[2])
          /\ mutable' = KVSet(mutable, w[1], w[2])
          /\ overwritten' = (overwritten \/ w[1] \in DOMAIN mutable)
    /\ writes' = writes + 1
    /\ UNCHANGED <<workflow, run, immutable, pod, polls, req, got, lost, polled>>

-----------------------------------------------------------------------------
(* Requests *)

\* The key of the expression that an endpoint evaluates.
TreeKey(name, what) ==
    CASE what = "conditions" -> conditionKey(name)
      [] what = "spec" -> specKey(name)
      [] what = "environment" -> environmentKey(name)

\* A request that has been given the expression it evaluates.
Scoped(what, tree) == req' = [what |-> what, reads |-> <<>>, tree |-> tree]

Request(what) == Scoped(what, immutable[TreeKey(me, what)])

\* One reference is resolved.  Lists are evaluated from left to right and maps
\* in no order; here any order is possible.
ReadReference ==
    /\ req # Idle
    /\ \E tm \in RefsOf(req.tree) \ DOMAIN req.reads :
          req' = [req EXCEPT !.reads = Put(@, tm, Resolve(Store, me, req.what, tm))]
    /\ UNCHANGED <<workflow, run, immutable, mutable, pod, polls, got, lost, writes,
                   overwritten, polled>>

AllRead == req # Idle /\ RefsOf(req.tree) \subseteq DOMAIN req.reads

Result == Evaluated(req.tree, Env(Store, req.what, req.reads))

IsBool(v) == v \in {Bool(TRUE), Bool(FALSE)}

\* Mutant: an element that is not a Boolean fails the condition.
CheckAnyElement(rv) ==
    CASE rv.v = Bool(TRUE) -> "passed"
      [] rv.v = Bool(FALSE) -> "failed"
      [] ~IsBool(rv.v) /\ rv.v.k = "list" ->
            IF \E i \in DOMAIN rv.v.l : rv.v.l[i] # Bool(TRUE) THEN "failed" ELSE "passed"
      [] OTHER -> "error"

\* The elements of a list are inspected until one is false; one that is not a
\* Boolean is passed over as long as something is unresolved.
Check(rv) ==
    CASE rv.v = Bool(TRUE) -> "passed"
      [] rv.v = Bool(FALSE) -> "failed"
      [] ~IsBool(rv.v) /\ rv.v.k = "list" ->
            LET false == {i \in DOMAIN rv.v.l : rv.v.l[i] = Bool(FALSE)}
                other == {i \in DOMAIN rv.v.l : ~IsBool(rv.v.l[i]) /\ Complete(rv)}
            IN  CASE \E i \in other : \A j \in false : i < j -> "error"
                  [] false \cup other = {} -> "passed"
                  [] OTHER -> "failed"
      [] OTHER -> "error"

\* Mutant: nothing is looked at before everything is resolved.
GetConditionsWhenComplete(rv) ==
    IF Complete(rv) THEN [passed |-> "true", failed |-> "false", error |-> "error"][Check(rv)]
    ELSE "error"

\* Mutant: the condition holds although something is unresolved.
GetConditionsIncomplete(rv) ==
    IF rv.ok THEN [passed |-> "true", failed |-> "false", error |-> "error"][Check(rv)]
    ELSE "error"

\* The condition holds only if all of it was resolved; it fails as soon as one
\* part is known to be false.
GetConditions(rv) ==
    CASE rv.ok /\ Check(rv) = "failed" -> "false"
      [] Complete(rv) /\ Check(rv) = "passed" -> "true"
      [] OTHER -> "error"

-----------------------------------------------------------------------------
(* What the conditions cs of a document mean together *)

\* All conditions hold; one is false; one is in error or is not a Boolean.
AllTrue(cs)   == \A i \in DOMAIN cs : cs[i] = Value(Bool(TRUE))
SomeFalse(cs) == \E i \in DOMAIN cs : cs[i] = Value(Bool(FALSE))
InError(cs)   == \E i \in DOMAIN cs : cs[i] = Error \/ (cs[i].k = "value" /\ ~IsBool(cs[i].v))

\* The outcome is fixed: all conditions hold, or one fails and none is in error.
Decided(cs) == AllTrue(cs) \/ (SomeFalse(cs) /\ ~InError(cs))

-----------------------------------------------------------------------------
(* The condition pod: ConditionScript *)

\* Tekton starts the condition pod of the step; a step without a condition has
\* none and starts at once.
StartStep ==
    /\ run = "applied" /\ pod = "none"
    /\ pod' = IF conditionKey(me) \in DOMAIN immutable THEN "waiting" ELSE "passed"
    /\ UNCHANGED <<workflow, run, immutable, mutable, polls, req, got, lost, writes,
                   overwritten, polled>>

Poll ==
    /\ pod = "waiting" /\ req = Idle
    /\ Request("conditions")
    /\ pod' = "polling"
    /\ polled' = <<mutable>>
    /\ UNCHANGED <<workflow, run, immutable, mutable, polls, got, lost, writes, overwritten>>

\* An iteration that is not counted.
NextIterationUncounted == UNCHANGED polls /\ pod' = "waiting"

\* The script after an answer that is neither true nor false, or none.
NextIteration ==
    /\ polls' = polls + 1
    /\ pod' = IF polls + 1 < MaxPolls THEN "waiting" ELSE "expired"

PollAnswered ==
    /\ pod = "polling" /\ AllRead
    /\ \E success \in {GetConditions(rv) : rv \in {Result}} :
           \/ success = "true" /\ pod' = "passed" /\ UNCHANGED polls
           \/ success = "false" /\ pod' = "failed" /\ UNCHANGED polls
           \/ success = "error" /\ NextIteration
    /\ req' = Idle
    /\ UNCHANGED <<workflow, run, immutable, mutable, got, lost, writes, overwritten, polled>>

\* The API cannot be reached, or a read of a ConfigMap or of Vault fails.
PollLost ==
    /\ pod = "polling" /\ lost < MaxLost
    /\ NextIteration
    /\ lost' = lost + 1
    /\ req' = Idle
    /\ polled' = <<>>
    /\ UNCHANGED <<workflow, run, immutable, mutable, got, writes, overwritten>>

-----------------------------------------------------------------------------
(* The step, or the trigger.  It asks once at each endpoint; an answer has  *)
(* the value and whether it is complete, as a client reads it.             *)

NoAnswer == [ok |-> FALSE, complete |-> FALSE]

MayAsk(what) ==
    /\ pod = "passed" /\ req = Idle
    /\ what \notin DOMAIN got /\ Cardinality(DOMAIN got) < MaxAnswers

Tell(what, answer) == got' = Put(got, what, answer)

AskFor(what) ==
    /\ MayAsk(what) /\ TreeKey(me, what) \in DOMAIN immutable
    /\ Request(what)
    /\ UNCHANGED <<workflow, run, immutable, mutable, pod, polls, got, lost, writes,
                   overwritten, polled>>

GetSpec        == AskFor("spec")
GetEnvironment == AskFor("environment")

\* One variable of the environment, or one that it does not have.
GetEnvironmentVariable ==
    /\ MayAsk("variable")
    /\ LET environment == KVGet(immutable, environmentKey(me)).v.m
       IN  \/ /\ \E name \in DOMAIN environment : Scoped("variable", environment[name])
              /\ UNCHANGED got
           \/ Tell("variable", NoAnswer) /\ UNCHANGED req
    /\ UNCHANGED <<workflow, run, immutable, mutable, pod, polls, lost, writes, overwritten,
                   polled>>

\* The answer of one read: what a manager found.
ReadAnswer(r) == IF r.ok THEN [ok |-> TRUE, complete |-> TRUE, value |-> JSONForm(r.v)]
                ELSE NoAnswer

\* GetStateResponseEnvelope, which repeats the name.
StateAnswer(name, r) ==
    IF r.ok THEN [ok |-> TRUE, complete |-> TRUE, value |-> JSONForm(r.v), key |-> name]
    ELSE NoAnswer

GetState ==
    /\ MayAsk("state")
    /\ \E w \in doc.writes :
          /\ w[1][3] = "state"
          /\ Tell("state", StateAnswer(w[1][4], StateManagerGet(Store, me, w[1][4])))
    /\ UNCHANGED <<workflow, run, immutable, mutable, pod, polls, req, lost, writes,
                   overwritten, polled>>

\* Without Vault the manager of secrets rejects the request.
GetSecret ==
    /\ MayAsk("secret")
    /\ \E path \in {p \in DOMAIN Vault : p[1] = "secrets"} :
          Tell("secret", IF doc.hasVault THEN ReadAnswer(SecretManagerGet(Vault, path[2]))
                         ELSE NoAnswer)
    /\ UNCHANGED <<workflow, run, immutable, mutable, pod, polls, req, lost, writes,
                   overwritten, polled>>

\* EventManager: only a trigger has events, which it sends to the event API of
\* its tenant; the API takes an event, or there is an error.
Emit == IF doc.kind = "trigger" THEN {[ok |-> TRUE, complete |-> TRUE, source |-> me], NoAnswer}
        ELSE {NoAnswer}

PostEvent ==
    /\ MayAsk("event")
    /\ \E answer \in Emit : Tell("event", answer)
    /\ UNCHANGED <<workflow, run, immutable, mutable, pod, polls, req, lost, writes,
                   overwritten, polled>>

\* Mutant: the envelope counts every result as complete.
JSONResultEnvelopeComplete(rv) ==
    [ok |-> TRUE, value |-> JSONForm(rv.v), unresolvable |-> rv.u, complete |-> TRUE]

\* NewJSONResultEnvelope, with what could not be resolved.
JSONResultEnvelope(rv) ==
    [ok |-> TRUE, value |-> JSONForm(rv.v), unresolvable |-> rv.u, complete |-> Complete(rv)]

\* The envelope of an environment does not tell what could not be resolved.
EnvironmentEnvelope(rv) == [ok |-> TRUE, value |-> JSONForm(rv.v), complete |-> Complete(rv)]

\* An expression that cannot be evaluated is answered with an error; the result
\* for a single variable is given as it is.
Answered ==
    /\ pod = "passed" /\ AllRead
    /\ \E rv \in {Result} :
          Tell(req.what, CASE ~rv.ok -> NoAnswer
                           [] rv.ok /\ req.what = "spec" -> JSONResultEnvelope(rv)
                           [] rv.ok /\ req.what = "environment" -> EnvironmentEnvelope(rv)
                           [] OTHER -> [ok |-> TRUE, value |-> rv.v, complete |-> Complete(rv),
                                        tree |-> req.tree])
    /\ req' = Idle
    /\ UNCHANGED <<workflow, run, immutable, mutable, pod, polls, lost, writes,
                   overwritten, polled>>

-----------------------------------------------------------------------------
Next ==
    \/ Decode \/ ConfigureImmutable \/ Write
    \/ StartStep \/ Poll \/ ReadReference \/ PollAnswered \/ PollLost
    \/ GetSpec \/ GetEnvironment \/ GetEnvironmentVariable \/ GetState \/ GetSecret \/ PostEvent \/ Answered

\* The operator and Tekton get to the run; the script and the API's handlers
\* run to their end.  Nobody has to write an output or to answer.
Spec == Init /\ [][Next]_vars
FairSpec ==
    /\ Spec
    /\ WF_vars(Decode) /\ WF_vars(ConfigureImmutable) /\ WF_vars(StartStep)
    /\ WF_vars(Poll) /\ WF_vars(ReadReference) /\ WF_vars(PollAnswered)

-----------------------------------------------------------------------------
(* Properties *)

Endpoints == {"conditions", "spec", "environment", "variable"}
Outcomes  == {"passed", "failed", "expired"}

\* Types, and the phases of a run, of its condition pod and of a request.
TypeOK ==
    /\ workflow \in DOMAIN Documents
    /\ run \in {"submitted", "rejected", "panicked", "accepted", "failing", "crashing", "applied"}
    /\ pod \in {"none", "waiting", "polling"} \cup Outcomes
    /\ run # "applied" => pod = "none" /\ immutable = <<>> /\ mutable = <<>>
    /\ polls \in 0..MaxPolls /\ lost \in 0..MaxLost /\ writes \in 0..MaxWrites
    /\ pod = "polling" => req # Idle /\ req.what = "conditions"
    /\ req # Idle => req.what \in Endpoints /\ DOMAIN req.reads \subseteq RefsOf(req.tree)
    /\ DOMAIN got \subseteq {"spec", "environment", "variable", "state", "secret", "event"}

\* A step runs only if all the conditions its author wrote hold, the approval
\* of an approval step among them, although they were evaluated in two stages
\* and each reference was read at a time of its own (GetConditions); unless an
\* output or answer was replaced meanwhile.
RunsOnlyIfTrue == doc.kind = "step" /\ pod = "passed" /\ ~overwritten => AllTrue(Conditional(workflow, mutable))

\* A step is skipped by an answer of the API only if one of its conditions is
\* false; one that cannot be resolved yet never counts as false.
SkippedOnlyIfFalse == pod = "failed" /\ ~overwritten => SomeFalse(Conditional(workflow, mutable))

\* The script gives up only on a step whose last poll began before the
\* conditions could be decided, or got no answer, or met a condition that is
\* in error (ConditionScript).
ExpiredOnlyUndecided ==
    pod = "expired" /\ ~overwritten /\ polled # <<>> =>
        \/ ~Decided(Conditional(workflow, polled[1]))
        \/ InError(Conditional(workflow, mutable))

\* A tree as it would be evaluated at this moment, all at once.
At(st, name, tree, what) ==
    Evaluated(tree, Env(st, what, [tm \in RefsOf(tree) |-> Resolve(st, name, what, tm)]))

Now(tree, what) == At(Store, me, tree, what)

\* What the operator stores after its own evaluation means, at every moment,
\* what the WorkflowRun said, and what it does not store is empty: evaluating in
\* two stages is evaluating once (ConfigureImmutableConfigMapForWorkflowRun),
\* except that an expression which a call without references yields, such as
\* jsonUnmarshal of a constant text, becomes part of the document, also among
\* the arguments of another call.
StagedSame ==
    run = "applied" =>
        LET step   == Resource[workflow].v
            treeOf == [conditions |-> step.when, spec |-> step.spec, environment |-> step.env]
        IN  \A what \in DOMAIN treeOf :
                IF TreeKey(me, what) \in DOMAIN immutable
                THEN \E own \in {Inlined(treeOf[what])}, stored \in {immutable[TreeKey(me, what)]} :
                        Now(own, what) = Now(stored, what)
                ELSE treeOf[what] \in {Nil, Map(<<>>)}

\* What a step or trigger is told, when it is complete, is what the document
\* means: the specification, all of the environment, one variable of it, and
\* the state, which is the approval if the step was approved (GetSpec and the
\* other handlers); unless an output was replaced meanwhile.
SpecServed ==
    LET Told(what) == what \in DOMAIN got /\ got[what].complete
    IN  ~overwritten =>
            /\ Told("spec") =>
                  Value(got["spec"].value) = SpecMeaning(workflow, mutable)
            /\ Told("environment") =>
                  got["environment"].value = Now(Inlined(Resource[workflow].v.env), "environment").v
            /\ Told("variable") =>
                  \E x \in DOMAIN doc.env :
                      got["variable"].value = Now(Inlined(Resource[workflow].v.env.m[x]), "variable").v
            /\ Told("state") /\ doc.kind = "step" /\ doc.step.type = "approval"
                  /\ got["state"].key = "approval" =>
                  got["state"].value = Str(<<"approved">>)

\* What a query gives of the field x of a specification, and of what is in there,
\* if the whole is v.  What an expression on the path gave is evaluated once more,
\* and once more again at the next step.
PartsAgree(tree, v, x, env) ==
    LET Once(u)       == Evaluated(u, env)
        Asked(node, u) == IF IsExpression(node) THEN Once(u) ELSE Done(u)
        Then(r)       == CASE ~r.ok -> r
                           [] r.ok /\ r.u # {} -> Partial(Nil, r.u)
                           [] Complete(r) -> Once(r.v)
        node          == tree.m[x]
        whole         == v.m[x]
    IN  /\ Queried(tree, <<x>>, env) = Asked(node, whole)
        /\ \A y \in {"0", "1", "p", "q", "name"} : \E q \in {Queried(tree, <<x, y>>, env)} :
              CASE ~HasChild(whole, y) -> ~q.ok \/ whole = Nil
                [] HasChild(whole, y) /\ IsExpression(node) ->
                      \E r \in {Once(Child(whole, y))} :
                          q = IF IsExpression(Child(whole, y)) THEN Then(r) ELSE r
                [] HasChild(whole, y) /\ ~IsExpression(node) ->
                      q = Asked(Child(node, y), Child(whole, y))

\* Asking for a path of the specification gives what the whole has at that
\* path, wherever the whole can be evaluated (EvaluateQuery).  But a value that
\* an expression on the path gave is evaluated once more, and once more at each
\* further step, while the whole has it as it is: an output that spells a
\* reference is given as it was written with all of the specification, and
\* resolved when it is asked for by itself.
QueryAgrees ==
    run = "applied" /\ specKey(me) \in DOMAIN immutable =>
        \A tree \in {immutable[specKey(me)]} : \A all \in {Now(tree, "spec")} :
            Complete(all) => \A again \in {Now(all.v, "spec")} :
                \A env \in {Env(Store, "spec",
                                [tm \in RefsOf(List(<<tree, all.v, again.v>>)) |->
                                    Resolve(Store, me, "spec", tm)])} :
                    \A x \in DOMAIN all.v.m : PartsAgree(tree, all.v, x, env)

\* Every step of a run that could be configured is decided in the end: it runs
\* or it is skipped, however long its outputs and answers take
\* (POLLING_ITERATIONS).
StepSettles == run = "applied" ~> pod \in Outcomes

=============================================================================
