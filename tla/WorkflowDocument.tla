--------------------------- MODULE WorkflowDocument ---------------------------
(***************************************************************************)
(* From a YAML document to the steps of a WorkflowRun: the tags that stand *)
(* for expressions (pkg/expr/parse), the decoder of workflow documents and *)
(* the mapping to the WorkflowRun resource (pkg/workflow/types/v1), and    *)
(* the JSON form in which the Kubernetes API carries it.                   *)
(*                                                                         *)
(* A node has a tag (a sequence, empty if there is none), a kind, and its  *)
(* content: pairs of a key and a node, nodes, or the value of a scalar.    *)
(* Mappings that spell an expression with its reserved keys mean the same  *)
(* as the tags and are not written here.                                   *)
(***************************************************************************)
EXTENDS Expression

YMap(tag, c)    == [tag |-> tag, kind |-> "map", c |-> c]
YSeq(tag, c)    == [tag |-> tag, kind |-> "seq", c |-> c]
YScalar(tag, v) == [tag |-> tag, kind |-> "scalar", c |-> <<v>>]

\* A result has a value, or the faults that the parser meets: it returns an
\* error, or dereferences a node that is not there, whichever comes first.
Parsed(v)     == [v |-> v, faults |-> {}]
Faulty(faults) == [v |-> Nil, faults |-> faults]
Rejected      == Faulty({"rejected"})

\* The parts of a node, each a result, made whole again.
Whole(parts, Make(_)) ==
    With(Table(parts), LAMBDA ps :
        LET faults == UNION {ps[x].faults : x \in DOMAIN ps}
        IN  IF faults = {} THEN Parsed(Make([x \in DOMAIN ps |-> ps[x].v])) ELSE Faulty(faults))

-----------------------------------------------------------------------------
(* Parsing *)

\* What every transformer of a reference accepts: the fields of a tagged node by
\* key, by position or, if there is one field, as the scalar itself.
WellFormed(n, fields) ==
    /\ n.kind = "scalar" => Len(fields) = 1
    /\ Len(n.c) = Len(fields)
    /\ n.kind = "map" => {n.c[i][1] : i \in DOMAIN n.c} \subseteq {fields[i] : i \in DOMAIN fields}

\* Of a repeated key the last one counts.
FieldNode(n, fields, x) ==
    CASE n.kind = "map" ->
            LET at == {i \in DOMAIN n.c : n.c[i][1] = x}
            IN  n.c[CHOOSE i \in at : \A j \in at : j <= i][2]
      [] n.kind = "seq" -> n.c[CHOOSE i \in DOMAIN fields : fields[i] = x]
      [] n.kind = "scalar" -> YScalar(<<>>, n.c[1])

RECURSIVE ParseYAMLNode(_)

\* A repeated key leaves the other field without a node, which the parser
\* dereferences when it comes to it.
Reference(t, fields, n) ==
    LET Missing(x) == n.kind = "map" /\ \A i \in DOMAIN n.c : n.c[i][1] # x
    IN  IF WellFormed(n, fields)
        THEN Whole([x \in {fields[i] : i \in DOMAIN fields} |->
                       IF Missing(x) THEN Faulty({"panicked"})
                       ELSE ParseYAMLNode(FieldNode(n, fields, x))],
                   LAMBDA f : Typed(t, f))
        ELSE Rejected

YAMLDataTransformer(n)       == Reference("Data", <<"query">>, n)
YAMLSecretTransformer(n)     == Reference("Secret", <<"name">>, n)
YAMLConnectionTransformer(n) == Reference("Connection", <<"type", "name">>, n)
YAMLOutputTransformer(n)     == Reference("Output", <<"from", "name">>, n)
YAMLParameterTransformer(n)  == Reference("Parameter", <<"name">>, n)
YAMLAnswerTransformer(n)     == Reference("Answer", <<"askRef", "name">>, n)

\* A scalar is the only element of the list of arguments.
YAMLInvocationTransformer(n) ==
    LET args == ParseYAMLNode(IF n.kind = "scalar"
                              THEN YSeq(<<>>, <<YScalar(<<>>, n.c[1])>>)
                              ELSE [n EXCEPT !.tag = <<>>])
    IN  IF Len(n.tag) = 2 THEN Whole(<<args>>, LAMBDA a : Invocation(n.tag[2], a[1]))
        ELSE Rejected

YAMLBinaryToEncodingTransformer(n) == Parsed(Encoded("base64", n.c[1]))

\* What yaml.Node.Decode makes of a node without a tag; it refuses a mapping
\* with a repeated key.
Untagged(n) ==
    CASE n.kind = "scalar" -> Parsed(n.c[1])
      [] n.kind = "seq" ->
            Whole([i \in DOMAIN n.c |-> ParseYAMLNode(n.c[i])], List)
      [] n.kind = "map" ->
            LET keys == {n.c[i][1] : i \in DOMAIN n.c}
            IN  IF Cardinality(keys) = Len(n.c)
                THEN Whole([x \in keys |->
                               ParseYAMLNode(n.c[CHOOSE i \in DOMAIN n.c : n.c[i][1] = x][2])], Map)
                ELSE Rejected

ParseYAMLNode(n) ==
    CASE n.tag = <<>> -> Untagged(n)
      [] n.tag = <<"!Data">> -> YAMLDataTransformer(n)
      [] n.tag = <<"!Secret">> -> YAMLSecretTransformer(n)
      [] n.tag = <<"!Connection">> -> YAMLConnectionTransformer(n)
      [] n.tag = <<"!Output">> -> YAMLOutputTransformer(n)
      [] n.tag = <<"!Parameter">> -> YAMLParameterTransformer(n)
      [] n.tag = <<"!Answer">> -> YAMLAnswerTransformer(n)
      [] n.tag # <<>> /\ n.tag[1] = "!Fn." -> YAMLInvocationTransformer(n)
      [] n.tag = <<"!!binary">> /\ n.kind = "scalar" -> YAMLBinaryToEncodingTransformer(n)
      [] OTHER -> Rejected

-----------------------------------------------------------------------------
(* Decoding.  A step of a document has a name, a type, a condition (a node, *)
(* Absent if there is none) and a specification: pairs of a key and a node. *)

Absent == YScalar(<<>>, Nil)

Approved(name) ==
    Invocation("equals",
        List(<<Typed("Answer", [askRef |-> Str(<<name>>), name |-> Str(<<"approval">>)]),
               Str(<<"approved">>)>>))

\* The condition of an approval comes first; the author's own follow.
ApprovalWhen(name, when) ==
    List(<<Approved(name)>> \o CASE when = Nil -> <<>>
                                 [] when.k = "list" -> when.l
                                 [] OTHER -> <<when>>)

MakeStepType(step) ==
    CASE step.type \in {"", "container"} -> "container"
      [] step.type = "approval" -> "approval"
      [] OTHER -> "unknown"

\* The specification of an approval is parsed and not kept.
DecodeStep(step) ==
    LET type   == MakeStepType(step)
        parsed == Whole([when |-> ParseYAMLNode(step.when),
                         spec |-> ParseYAMLNode(YMap(<<>>, step.spec))],
                        LAMBDA p : IF type = "approval"
                                   THEN [when |-> ApprovalWhen(step.name, p.when), spec |-> Map(<<>>)]
                                   ELSE p)
    IN  IF parsed.faults = {} /\ type = "unknown" THEN Rejected ELSE parsed

\* A trigger whose source is a webhook.  Its condition is parsed too, and is
\* left to whoever handles its events.
DecodeTrigger(trigger) ==
    Whole([when |-> ParseYAMLNode(trigger.when), spec |-> ParseYAMLNode(YMap(<<>>, trigger.spec))],
          LAMBDA p : [when |-> Nil, spec |-> p.spec])

\* The parameters of a run: the workflow's defaults under the run's own.
RunParameters(defaults, given) ==
    [p \in DOMAIN defaults \cup DOMAIN given |->
        IF p \in DOMAIN given THEN given[p] ELSE defaults[p]]

-----------------------------------------------------------------------------
(* The JSON form of values (transfer.JSONInterface): encoded text is        *)
(* decoded when it is read; data that is not text counts as empty.          *)

RECURSIVE Transfer(_)
Transfer(v) ==
    LET Each(f, Make(_)) == Whole([x \in DOMAIN f |-> Transfer(f[x])], Make)
    IN  CASE v.k = "list" -> Each(v.l, List)
          [] v.k = "map" -> Each(v.m, Map)
          [] v.k = "typed" -> Each(v.f, LAMBDA f : [v EXCEPT !.f = f])
          [] v.k = "fn" -> Each(<<v.a>>, LAMBDA a : Invocation(v.n, a[1]))
          [] v.k = "enc" ->
                LET text == IF v.d.k = "str" THEN v.d.s ELSE <<>>
                IN  IF v.e = "base64" /\ text \in DOMAIN Base64
                    THEN Parsed(Str(Base64[text])) ELSE Rejected
          [] OTHER -> Parsed(v)

=============================================================================
