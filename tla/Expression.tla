------------------------------ MODULE Expression ------------------------------
(***************************************************************************)
(* The evaluator of the expression language (pkg/expr/evaluate), which     *)
(* replaces what it can resolve in a tree and reports what it cannot, and  *)
(* its function library (pkg/expr/fnlib).                                  *)
(***************************************************************************)
EXTENDS Trees, SequencesExt

CONSTANTS
    JSONText,   \* the texts that are JSON, with the value each decodes to
    Base64      \* the texts that are base64, with the text each decodes to

-----------------------------------------------------------------------------
(* The function library *)

Library == {"append", "concat", "convertMarkdown", "equals", "jsonUnmarshal",
            "merge", "notEquals"}

\* The functions that accept keyword arguments, with those they require.
KeywordArgs == [convertMarkdown |-> {"to", "content"}, merge |-> {"objects"}]

\* The numbers of positional arguments that a function accepts (equals.go,
\* append.go, convert.go and json.go of fnlib).
PositionalArity(n, count) ==
    CASE n = "append" -> count >= 2
      [] n \in {"equals", "notEquals", "convertMarkdown"} -> count = 2
      [] n = "jsonUnmarshal" -> count = 1
      [] OTHER -> TRUE

\* Whether the invocation resolver finds the function and the function
\* accepts the arguments.  If not, the call is reported as unresolvable.
Invocable(n, a) ==
    /\ n \in Library
    /\ IF IsObject(a)
       THEN /\ n \in DOMAIN KeywordArgs
            /\ a.k = "map" /\ KeywordArgs[n] \subseteq DOMAIN a.m
       ELSE PositionalArity(n, Len(Args(a)))

\* merge(dst, src, deep) on the contents of two objects.
RECURSIVE MergeInto(_, _, _)
MergeInto(dst, src, deep) ==
    [key \in DOMAIN dst \cup DOMAIN src |->
        CASE key \notin DOMAIN src -> dst[key]
          [] key \notin DOMAIN dst -> src[key]
          [] deep /\ dst[key].k = "map" /\ src[key].k = "map" ->
                Map(MergeInto(dst[key].m, src[key].m, deep))
          [] OTHER -> src[key]]

Merge(objects, deep) ==
    IF \A i \in DOMAIN objects : objects[i].k = "map"
    THEN Done(Map(FoldLeft(LAMBDA dst, o : MergeInto(dst, o.m, deep), <<>>, objects)))
    ELSE Failed

\* The keyword form treats objects that are not a list as none.
MergeKeyword(m) ==
    LET mode    == IF "mode" \in DOMAIN m THEN m.mode ELSE Str(<<"deep">>)
        objects == IF m.objects.k = "list" THEN m.objects.l ELSE <<>>
    IN  IF mode \in {Str(<<"deep">>), Str(<<"shallow">>)}
        THEN Merge(objects, mode = Str(<<"deep">>))
        ELSE Failed

\* What a renderer makes of the text is not told apart from other texts.
RenderMarkdown(to, md) ==
    IF to \in {<<"html">>, <<"jira">>} THEN Done(Str(to \o md)) ELSE Failed

ConvertMarkdown(to, md) ==
    IF to.k = "str" /\ md.k = "str" THEN RenderMarkdown(to.s, md.s) ELSE Failed

AppendTo(args) ==
    IF args[1].k = "list" THEN Done(List(args[1].l \o Tail(args))) ELSE Failed

Concat(args) ==
    IF \A i \in DOMAIN args : args[i].k = "str"
    THEN Done(Str(FlattenSeq([i \in DOMAIN args |-> args[i].s])))
    ELSE Failed

Equals(args) == args[1] = args[2]

JSONUnmarshal(args) ==
    IF args[1].k = "str" /\ args[1].s \in DOMAIN JSONText
    THEN Done(JSONText[args[1].s])
    ELSE Failed

InvokePositional(n, args) ==
    CASE n = "append" -> AppendTo(args)
      [] n = "concat" -> Concat(args)
      [] n = "convertMarkdown" -> ConvertMarkdown(args[1], args[2])
      [] n = "equals" -> Done(Bool(Equals(args)))
      [] n = "notEquals" -> Done(Bool(~Equals(args)))
      [] n = "jsonUnmarshal" -> JSONUnmarshal(args)
      [] n = "merge" -> Merge(args, TRUE)

InvokeKeyword(n, m) ==
    CASE n = "convertMarkdown" -> ConvertMarkdown(m.to, m.content)
      [] n = "merge" -> MergeKeyword(m)

-----------------------------------------------------------------------------
(* References.  An environment env gives, for the references that resolve, *)
(* their values (env.val, a function of the reference nodes), and the      *)
(* types whose manager rejects every request (env.rej).                    *)

\* What a reference asks its manager for.
Key(tm) == [t |-> tm.t, f |-> [x \in FieldsOf[tm.t] |-> TextField(tm, x)]]

EvaluateType(tm, env) ==
    CASE tm.t \notin DOMAIN FieldsOf -> Done(tm)
      [] tm.t \in DOMAIN FieldsOf /\ \E x \in FieldsOf[tm.t] : TextField(tm, x) = Nil -> Failed
      [] tm.t \in env.rej -> Failed
      [] tm \in DOMAIN env.val -> Done(env.val[tm])
      [] OTHER -> Partial(tm, {Key(tm)})

-----------------------------------------------------------------------------
(* The evaluator *)

All == -1

RECURSIVE Evaluate(_, _, _)

\* Op of x, and a function as a table, so that x and the values of the
\* function are computed once.
With(x, Op(_)) == CHOOSE y \in {Op(v) : v \in {x}} : TRUE
Table(f) == f @@ <<>>

EvaluateEncoding(em, env) ==
    With(Evaluate(em.d, env, All), LAMBDA d :
        CASE ~d.ok -> Failed
          [] d.ok /\ d.u # {} -> Partial(Encoded(em.e, d.v), d.u)
          [] OTHER -> IF /\ em.e = "base64" /\ d.v.k = "str"
                         /\ d.v.s \in DOMAIN Base64
                      THEN Done(Str(Base64[d.v.s]))
                      ELSE Failed)

\* A call that cannot be resolved keeps the arguments as they were written.
EvaluateInvocation(im, env) ==
    With(Evaluate(im.a, env, All), LAMBDA a :
        CASE ~a.ok -> Failed
          [] a.ok /\ a.u # {} -> Partial(Invocation(im.n, a.v), a.u)
          [] Complete(a) /\ ~Invocable(im.n, a.v) ->
                Partial(im, {[t |-> "Invocation", f |-> [name |-> Str(<<im.n>>)]]})
          [] OTHER -> IF IsObject(a.v) THEN InvokeKeyword(im.n, a.v.m)
                      ELSE InvokePositional(im.n, Args(a.v)))

\* The parts of a list or map, evaluated, made whole again: an error if one is
\* an error, and the union of what they could not resolve.
Extends(kind, parts) ==
    With(Table(parts), LAMBDA rs :
        LET values == [x \in DOMAIN rs |-> rs[x].v]
        IN  IF \A x \in DOMAIN rs : rs[x].ok
            THEN Partial(IF kind = "list" THEN List(values) ELSE Map(values),
                         UNION {rs[x].u : x \in DOMAIN rs})
            ELSE Failed)

EvaluateUnchecked(v, env, depth) ==
    CASE depth = 0 -> Done(v)
      [] depth # 0 /\ v.k = "typed" -> EvaluateType(v, env)
      [] depth # 0 /\ v.k = "enc" -> EvaluateEncoding(v, env)
      [] depth # 0 /\ v.k = "fn" -> EvaluateInvocation(v, env)
      [] depth \notin {0, 1} /\ v.k = "list" ->
            Extends(v.k, [i \in DOMAIN v.l |-> Evaluate(v.l[i], env, depth - 1)])
      [] depth \notin {0, 1} /\ v.k = "map" ->
            Extends(v.k, [x \in DOMAIN v.m |-> Evaluate(v.m[x], env, depth - 1)])
      [] OTHER -> Done(v)

Evaluate(v, env, depth) == EvaluateUnchecked(v, env, depth)

EvaluateAll(v, env) == Evaluate(v, env, All)

-----------------------------------------------------------------------------
(* Queries: a path of map keys and list indices, each step of which        *)
(* evaluates the child it reaches one level deep.                          *)

\* Mutant: the children on the way are not evaluated.
RECURSIVE VariableSelectorPlain(_, _, _)
VariableSelectorPlain(v, path, env) ==
    IF path = <<>> THEN Done(v)
    ELSE IF ~HasChild(v, Head(path)) THEN Failed
    ELSE VariableSelectorPlain(Child(v, Head(path)), Tail(path), env)

\* An unresolved child ends the walk with no value.
RECURSIVE VariableSelector(_, _, _)
VariableSelector(v, path, env) ==
    IF path = <<>> THEN Done(v)
    ELSE IF ~HasChild(v, Head(path)) THEN Failed
    ELSE LET nr == Evaluate(Child(v, Head(path)), env, 1)
         IN  CASE ~nr.ok -> Failed
               [] nr.ok /\ nr.u # {} -> Partial(Nil, nr.u)
               [] Complete(nr) /\ nr.v = Nil -> Done(Nil)
               [] OTHER -> VariableSelector(nr.v, Tail(path), env)

EvaluateQuery(v, path, env) ==
    LET found == VariableSelector(v, path, env)
        er    == EvaluateAll(found.v, env)
    IN  IF found.ok /\ er.ok THEN Partial(er.v, er.u \cup found.u) ELSE Failed

=============================================================================
