---------------------------- MODULE ConditionLaws ----------------------------
(***************************************************************************)
(* What the proofs about Conditions take from the evaluator, the operator's *)
(* first evaluation and the meaning of documents, which are parameters     *)
(* there: laws about one evaluation of one tree, in which nothing happens  *)
(* meanwhile.  They are meant to hold of the definitions of Expression,    *)
(* WorkflowDocument and RunConfiguration; TLC checks them for the documents *)
(* of an instance before its first state.                                  *)
(***************************************************************************)
EXTENDS Conditions

\* The documents whose run is configured, and its immutable ConfigMap.
Ready   == {w \in DOMAIN Documents : Decoded(w) /\ "applied" \in Configuration[w].outcomes}
Data(w) == Configuration[w].data
Name(w) == Documents[w].step.name

\* What the mutable ConfigMap of a run may hold: for each key, one of the
\* values written to it.
Written(w) == {<<x[1], JSONForm(x[2])>> : x \in Documents[w].writes}
Maps(w) ==
    UNION {{cm \in [keys -> {x[2] : x \in Written(w)}] : \A key \in keys : <<key, cm[key]>> \in Written(w)} :
              keys \in SUBSET {x[1] : x \in Written(w)}}

\* The trees that an endpoint evaluates, and the conditions in one.
Environment(w) == Data(w)[environmentKey(Name(w))].m
Served(w, what) ==
    CASE what = "variable" -> {Environment(w)[x] : x \in DOMAIN Environment(w)}
      [] what # "variable" /\ TreeKey(Name(w), what) \in DOMAIN Data(w) ->
            {Data(w)[TreeKey(Name(w), what)]}
      [] OTHER -> {}
Parts(tree) == {tree} \cup (IF tree.k = "list" THEN {tree.l[i] : i \in DOMAIN tree.l} ELSE {})

\* One read; reads of which only those in S found what the map cm has; and the
\* evaluation of a part of a tree given them.
Read(w, what, cm, tm) == Resolve(StoreOf(w, Data(w), cm), Name(w), what, tm)
Known(w, what, tree, cm, S) ==
    [tm \in RefsOf(tree) |-> IF tm \in S THEN Read(w, what, cm, tm) ELSE NotFound]
Eval(w, what, part, reads) == Evaluated(part, Env(StoreOf(w, Data(w), <<>>), what, reads))

-----------------------------------------------------------------------------
\* How decoding and the operator may end, and that the operator stores an
\* environment, which may be empty (ConfigureImmutableConfigMapForWorkflowRun).
ASSUME ConfigurationLaw ==
    \A w \in DOMAIN Documents :
        /\ Resource[w].faults \subseteq {"rejected", "panicked"}
        /\ Decoded(w) =>
              /\ Configuration[w].outcomes \subseteq {"failing", "crashing", "applied"}
              /\ "applied" \in Configuration[w].outcomes => environmentKey(Name(w)) \in DOMAIN Data(w)

\* The more is found, the more is known: a complete result stays as it is and
\* an error stays an error (Evaluator.evaluate).
ASSUME MonotoneLaw ==
    \A w \in Ready : \A what \in Endpoints : \A tree \in Served(w, what) : \A part \in Parts(tree) :
        \A cm \in Maps(w) : \A T \in SUBSET RefsOf(tree) : \A S \in SUBSET T :
            LET fewer == Eval(w, what, part, Known(w, what, tree, cm, S))
                more  == Eval(w, what, part, Known(w, what, tree, cm, T))
            IN  /\ Complete(fewer) => more = fewer
                /\ ~fewer.ok => ~more.ok

\* The parts of a list, evaluated, made whole again (Unresolvable.extends).
Listed(rs) ==
    IF \A i \in DOMAIN rs : rs[i].ok
    THEN Partial(List([i \in DOMAIN rs |-> rs[i].v]), UNION {rs[i].u : i \in DOMAIN rs})
    ELSE Failed

\* A list is evaluated element by element; what is not complete is no Boolean,
\* and no list unless it was one before (Evaluator.evaluateUnchecked).
ASSUME ShapeLaw ==
    \A w \in Ready : \A tree \in Served(w, "conditions") : \A part \in Parts(tree) :
        \A cm \in Maps(w) : \A S \in SUBSET RefsOf(tree) :
            LET reads == Known(w, "conditions", tree, cm, S)
                rv    == Eval(w, "conditions", part, reads)
            IN  /\ rv.ok /\ rv.u # {} => ~IsBool(rv.v) /\ (rv.v.k = "list" => part.k = "list")
                /\ part.k = "list" =>
                      rv = Listed([i \in DOMAIN part.l |-> Eval(w, "conditions", part.l[i], reads)])

\* What a result says of the meaning of the expression it is the result of.
Outcome(rv) ==
    CASE ~rv.ok -> Error
      [] Complete(rv) -> Value(rv.v)
      [] OTHER -> Unknown

\* The same of a condition: of each element of a list, and of each value of an
\* expression that turns out to be one.
ConditionOutcomes(w, tree, reads) ==
    LET rv == Eval(w, "conditions", tree, reads)
    IN  CASE tree.k = "list" -> [i \in DOMAIN tree.l |-> Outcome(Eval(w, "conditions", tree.l[i], reads))]
          [] tree.k # "list" /\ Complete(rv) -> [i \in DOMAIN Args(rv.v) |-> Value(Args(rv.v)[i])]
          [] OTHER -> <<Outcome(rv)>>

\* Evaluated at one moment, what the operator stored of the conditions has the
\* outcome that they have in the document, and a step without them has none; an
\* approval among them holds if it is given.
ASSUME ConditionsLaw ==
    \A w \in Ready : \A cm \in Maps(w) :
        /\ \A tree \in Served(w, "conditions") :
              Conditional(w, cm) = ConditionOutcomes(w, tree, Known(w, "conditions", tree, cm, RefsOf(tree)))
        /\ Documents[w].kind = "step" /\ Served(w, "conditions") = {} => Conditional(w, cm) = <<>>
        /\ Documents[w].kind = "step" /\ Documents[w].step.type = "approval"
              /\ AllTrue(Conditional(w, cm)) =>
                 /\ stateKey(Name(w), "approval") \in DOMAIN cm
                 /\ JSONForm(cm[stateKey(Name(w), "approval")]) = Str(<<"approved">>)

\* Evaluated at one moment, what the operator stored of the specification and
\* of the environment is, once complete, what the document says, where an
\* expression that a call without references yields is part of what it says.
ASSUME AnswersLaw ==
    \A w \in Ready : \A cm \in Maps(w) :
        LET Full(tree, what) == Eval(w, what, tree, Known(w, what, tree, cm, RefsOf(tree)))
            Own(tree, what)  == At(StoreOf(w, Data(w), cm), Name(w), tree, what)
        IN  /\ \A tree \in Served(w, "spec") :
                  Complete(Full(tree, "spec")) =>
                      Value(JSONForm(Full(tree, "spec").v)) = SpecMeaning(w, cm)
            /\ \A tree \in Served(w, "environment") :
                  Complete(Full(tree, "environment")) =>
                      JSONForm(Full(tree, "environment").v) =
                          Own(Inlined(Resource[w].v.env), "environment").v
            /\ \A x \in DOMAIN Environment(w) :
                  Complete(Full(Environment(w)[x], "variable")) =>
                      /\ x \in DOMAIN Documents[w].env
                      /\ Full(Environment(w)[x], "variable").v =
                            Own(Inlined(Resource[w].v.env.m[x]), "variable").v

=============================================================================
