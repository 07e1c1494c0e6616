--------------------------- MODULE RunConfiguration ---------------------------
(***************************************************************************)
(* What becomes of a document before anything of it runs: the resource it  *)
(* is mapped to, what the operator stores of it in the immutable ConfigMap *)
(* after evaluating its expressions a first time, and, for reference, what *)
(* the document means.                                                     *)
(***************************************************************************)
EXTENDS WorkflowDocument, MetadataManagers

JSONValue(v) == Transfer(v).v

-----------------------------------------------------------------------------
(* References in a tree.  Each occurrence is resolved on its own, by a read *)
(* of its own; Mark gives every occurrence in a document its place.         *)

RECURSIVE Mark(_, _)
Mark(v, at) ==
    LET Part(x) == Append(at, ToString(x))
    IN  CASE v.k = "list" -> List([i \in DOMAIN v.l |-> Mark(v.l[i], Part(i))])
          [] v.k = "map" -> Map([x \in DOMAIN v.m |-> Mark(v.m[x], Part(x))])
          [] v.k = "fn" -> Invocation(v.n, Mark(v.a, Part("a")))
          [] v.k = "enc" -> Encoded(v.e, Mark(v.d, Part("d")))
          [] v.k = "typed" -> [v EXCEPT !.at = at]
          [] OTHER -> v

RECURSIVE Refs(_)
Refs(v) ==
    CASE v.k = "list" -> UNION {Refs(v.l[i]) : i \in DOMAIN v.l}
      [] v.k = "map" -> UNION {Refs(v.m[x]) : x \in DOMAIN v.m}
      [] v.k = "fn" -> Refs(v.a)
      [] v.k = "enc" -> Refs(v.d)
      [] v.k = "typed" -> {v}
      [] OTHER -> {}

-----------------------------------------------------------------------------
(* The resource and the immutable ConfigMap *)

\* The resource as the operator reads it back from the Kubernetes API: the
\* conditions, the specification and the environment of what was decoded.
Carried(decoded, env) ==
    IF decoded.faults # {} THEN decoded
    ELSE Whole([when |-> Transfer(decoded.v.when), spec |-> Transfer(decoded.v.spec),
                env |-> Transfer(env)],
               LAMBDA r : [x \in DOMAIN r |-> Mark(r[x], <<>>)])

WorkflowRunStep(d)     == Carried(DecodeStep(d.step), Map(d.env))
WebhookTriggerSpec(d)  == Carried(DecodeTrigger(d.step), Map(d.env))

Manifest ==
    [w \in DOMAIN Documents |->
        IF Documents[w].kind = "step" THEN WorkflowRunStep(Documents[w])
        ELSE WebhookTriggerSpec(Documents[w])]

\* The evaluation in the operator, which has no resolver but knows the
\* function library.
NoEnv == [val |-> <<>>, rej |-> {}]
Staged(v) == EvaluateAll(v, NoEnv)

\* The value of an environment variable must be a map after the evaluation:
\* the operator asserts it and ends if it is not.
EnvironmentAsserted(env) ==
    \A x \in DOMAIN env.m : Staged(env.m[x]).ok => IsObject(Staged(env.m[x]).v)

\* Mutant: a specification is stored only if nothing in it is left to evaluate.
TriggerDataComplete(name, m) ==
    KVSet(IF DOMAIN m.spec.m = {} \/ ~Complete(Staged(m.spec)) THEN <<>>
          ELSE KVSet(<<>>, specKey(name), Staged(m.spec).v),
          environmentKey(name), Map([x \in DOMAIN m.env.m |-> Staged(m.env.m[x]).v]))

\* The keys of the ConfigMap of a trigger, each with its value; an empty
\* specification is not stored.
TriggerData(name, m) ==
    KVSet(IF DOMAIN m.spec.m = {} THEN <<>>
          ELSE KVSet(<<>>, specKey(name), Staged(m.spec).v),
          environmentKey(name), Map([x \in DOMAIN m.env.m |-> Staged(m.env.m[x]).v]))

\* That of a run has the parameters as well, and the condition if there is one.
ImmutableData(d, m) ==
    LET params == RunParameters(d.defaults, d.given)
        step   == [key \in {parameterKey(p) : p \in DOMAIN params} |->
                      Transfer(params[key[2]]).v] @@ TriggerData(d.step.name, m)
    IN  IF m.when = Nil THEN step
        ELSE KVSet(step, conditionKey(d.step.name), Staged(m.when).v)

\* How a reconciliation may end.  An expression that cannot be evaluated is an
\* error of the reconciliation, before anything is persisted: no status is
\* written, and the next reconciliation meets the same error.
Configurations(step) ==
    {c \in {"failing", "crashing", "applied"} :
        LET spec == Staged(step.spec).ok
            env  == Staged(step.env).ok
            when == Staged(step.when).ok
            maps == EnvironmentAsserted(step.env)
        IN  CASE c = "failing" -> ~spec \/ ~env \/ (maps /\ ~when)
              [] c = "crashing" -> spec /\ ~maps
              [] c = "applied" -> spec /\ env /\ when /\ maps}

Configured ==
    [w \in {x \in DOMAIN Documents : Manifest[x].faults = {}} |->
        [outcomes |-> Configurations(Manifest[w].v),
         data |-> IF Documents[w].kind = "step" THEN ImmutableData(Documents[w], Manifest[w].v)
                  ELSE TriggerData(Documents[w].step.name, Manifest[w].v)]]

-----------------------------------------------------------------------------
(* The reference: what the document means, read from the YAML nodes with   *)
(* every reference replaced by its present value, in one go.  A call that  *)
(* needs no reference belongs to the document: what it yields stands in    *)
(* its place, and an expression in there is one of the document's own.     *)
(* What any other call yields, or a reference, is plain data.              *)

RECURSIVE HasExpression(_)
HasExpression(v) ==
    \/ IsExpression(v)
    \/ v.k = "list" /\ \E i \in DOMAIN v.l : HasExpression(v.l[i])
    \/ v.k = "map" /\ \E x \in DOMAIN v.m : HasExpression(v.m[x])

\* A tree with what such calls yield in their place, if there is an expression
\* in it; the tree itself if there is no such call.
RECURSIVE Inline(_)
Inline(v) ==
    CASE v.k = "fn" ->
            With([part \in {"call", "args"} |-> Staged(IF part = "call" THEN v ELSE v.a)],
                 LAMBDA staged :
                    IF Complete(staged["call"])
                    THEN IF HasExpression(staged["call"].v) THEN staged["call"].v ELSE v
                    ELSE IF Complete(staged["args"]) THEN v ELSE Invocation(v.n, Inline(v.a)))
      [] v.k = "enc" -> Encoded(v.e, Inline(v.d))
      [] v.k = "list" -> List([i \in DOMAIN v.l |-> Inline(v.l[i])])
      [] v.k = "map" -> Map([x \in DOMAIN v.m |-> Inline(v.m[x])])
      [] OTHER -> v

RECURSIVE Meaning(_, _, _, _)

\* What parts ms make: an error if there is one, unknown if a part is.
Strict(parts, Make(_)) ==
    LET ms == Table(parts) IN
    CASE \E x \in DOMAIN ms : ms[x] = Error -> Error
      [] \A x \in DOMAIN ms : ms[x].k = "value" -> Make([x \in DOMAIN ms |-> ms[x].v])
      [] OTHER -> Unknown

\* At the endpoint "operator" nothing is known of a reference.
MeaningOfReference(tm, w, what, cm) ==
    With(StoreOf(w, Configured[w].data, cm), LAMBDA st :
        IF tm.t \notin DOMAIN FieldsOf THEN Value(tm)
        ELSE IF \E x \in FieldsOf[tm.t] : TextField(tm, x) = Nil THEN Error
        ELSE IF what = "operator" THEN Unknown
        ELSE IF tm.t \in RejectedTypes(st, what) THEN Error
        ELSE With(Resolve(st, Documents[w].step.name, what, tm), LAMBDA r :
                 IF r.ok THEN Value(r.v) ELSE Unknown))

MeaningOfCall(n, args) ==
    CASE ~Invocable(n, args) -> Unknown
      [] OTHER -> LET r == IF IsObject(args) THEN InvokeKeyword(n, args.m)
                           ELSE InvokePositional(n, Args(args))
                  IN  IF r.ok THEN Value(r.v) ELSE Error

\* The meaning of what a call of the document yielded.
RECURSIVE MeaningOfTree(_, _, _, _)
MeaningOfTree(v, w, what, cm) ==
    CASE v.k = "typed" -> MeaningOfReference(v, w, what, cm)
      [] v.k = "fn" -> Strict(<<MeaningOfTree(v.a, w, what, cm)>>, LAMBDA a : MeaningOfCall(v.n, a[1]))
      [] v.k = "enc" -> Strict(<<MeaningOfTree(v.d, w, what, cm)>>,
                               LAMBDA d : IF d[1].k = "str" /\ v.e = "base64" /\ d[1].s \in DOMAIN Base64
                                          THEN Value(Str(Base64[d[1].s])) ELSE Error)
      [] v.k = "list" -> Strict([i \in DOMAIN v.l |-> MeaningOfTree(v.l[i], w, what, cm)],
                                LAMBDA l : Value(List(l)))
      [] v.k = "map" -> Strict([x \in DOMAIN v.m |-> MeaningOfTree(v.m[x], w, what, cm)],
                               LAMBDA m : Value(Map(m)))
      [] OTHER -> Value(v)

\* The meaning of a call, given what was there when it was made.
Called(n, w, what, cm) ==
    Strict(<<Meaning([n EXCEPT !.tag = <<>>,
                               !.kind = IF @ = "map" THEN "map" ELSE "seq",
                               !.c = IF n.kind = "scalar" THEN <<YScalar(<<>>, n.c[1])>> ELSE n.c],
                     w, what, cm)>>,
           LAMBDA a : MeaningOfCall(n.tag[2], a[1]))

IsCall(n) == n.tag # <<>> /\ n.tag[1] = "!Fn."

Meaning(n, w, what, cm) ==
    CASE n.tag = <<"!!binary">> -> Value(Str(Base64[n.c[1].s]))
      [] n.kind = "scalar" /\ n.tag = <<>> -> Value(n.c[1])
      [] IsCall(n) ->
            With(Table([at \in {"operator", what} |-> Called(n, w, at, cm)]), LAMBDA called :
                IF called["operator"].k = "value" /\ what # "operator"
                THEN MeaningOfTree(called["operator"].v, w, what, cm)
                ELSE called[what])
      [] n.tag = <<>> /\ n.kind = "seq" ->
            Strict([i \in DOMAIN n.c |-> Meaning(n.c[i], w, what, cm)], LAMBDA l : Value(List(l)))
      [] n.tag = <<>> /\ n.kind = "map" ->
            LET keys == {n.c[i][1] : i \in DOMAIN n.c}
            IN  Strict([x \in keys |->
                           Meaning(n.c[CHOOSE i \in DOMAIN n.c : n.c[i][1] = x][2], w, what, cm)],
                       LAMBDA m : Value(Map(m)))
      [] OTHER ->
            With(ParseYAMLNode(n).v, LAMBDA tm : MeaningOfReference(tm, w, what, cm))

\* What the author wrote as conditions: each one's meaning.  A call may yield a
\* list of them, and a single expression may turn out to be one.
OwnConditions(step, w, cm) ==
    LET when  == step.when
        M(n)  == Meaning(n, w, "conditions", cm)
        own   == IF IsCall(when) THEN Called(when, w, "operator", cm) ELSE Unknown
    IN  CASE when = Absent -> <<>>
          [] when # Absent /\ when.kind = "seq" /\ when.tag = <<>> ->
                [i \in DOMAIN when.c |-> M(when.c[i])]
          [] step.type # "approval" /\ own.k = "value" /\ own.v.k = "list" ->
                [i \in DOMAIN own.v.l |-> MeaningOfTree(own.v.l[i], w, "conditions", cm)]
          [] OTHER ->
                With(M(when), LAMBDA m :
                    IF m.k = "value" /\ step.type # "approval"
                    THEN [i \in DOMAIN Args(m.v) |-> Value(Args(m.v)[i])]
                    ELSE <<m>>)

\* The conditions under which the step is to run.
ConditionsOf(w, cm) ==
    LET step   == Documents[w].step
        answer == KVGet(cm, stateKey(step.name, "approval"))
    IN  (IF step.type # "approval" THEN <<>>
         ELSE <<IF answer.ok THEN Value(Bool(answer.v = Str(<<"approved">>))) ELSE Unknown>>)
        \o OwnConditions(step, w, cm)

MeaningOfSpec(w, cm) == Meaning(YMap(<<>>, Documents[w].step.spec), w, "spec", cm)

=============================================================================
