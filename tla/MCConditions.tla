----------------------------- MODULE MCConditions -----------------------------
EXTENDS RunConfiguration, ConditionLaws

T(x)       == YScalar(<<>>, Str(<<x>>))
Fn(n, c)   == YSeq(<<"!Fn.", n>>, c)
Output(s)  == YSeq(<<"!Output">>, <<T(s), T("x")>>)
Param(p)   == YScalar(<<"!Parameter">>, Str(<<p>>))
Secret(s)  == YScalar(<<"!Secret">>, Str(<<s>>))

Step(type, when, spec) == [name |-> "s", type |-> type, when |-> when, spec |-> spec]

Doc(step, w) ==
    [kind |-> "step", step |-> step, env |-> <<>>, defaults |-> [p |-> Str(<<"d">>)],
     given |-> <<>>, hasVault |-> TRUE, writes |-> w]

Out(s, v) == <<stepOutputKey(s, "x"), v>>
Approve(v) == <<stateKey("s", "approval"), Str(<<v>>)>>

\* Two conditions on outputs and a parameter that the run overrides.
TwoOutputs ==
    [Doc(Step("container",
         YSeq(<<>>, <<Fn("equals", <<Output("a"), Param("p")>>),
                      Fn("notEquals", <<YMap(<<"!Output">>, <<<<"name", T("x")>>, <<"from", T("b")>>>>),
                                        T("w")>>)>>),
         <<<<"k", YMap(<<>>, <<<<"p", Output("a")>>, <<"q", Fn("concat", <<T("u"), Param("p")>>)>>>>)>>,
           <<"l", YSeq(<<>>, <<Output("b"), T("w")>>)>>>>),
         {Out("a", Str(<<"v">>)), Out("a", Str(<<"w">>)), Out("b", Str(<<"v">>)), Out("b", Str(<<"w">>))})
     EXCEPT !.given = [p |-> Str(<<"v">>), o |-> Str(<<"v">>)]]

\* An approval with a condition of its own.
Approval ==
    Doc(Step("approval", Fn("equals", <<Output("a"), T("v")>>), <<>>),
        {Approve("approved"), Approve("rejected"), Out("a", Str(<<"v">>)), Out("a", Str(<<"w">>))})

\* An approval with a list of conditions, in another step's name.
ApprovalList ==
    Doc(Step("approval",
             YSeq(<<>>, <<YSeq(<<"!Answer">>, <<T("other"), T("approval")>>), Fn("equals", <<Output("a"), T("v")>>)>>),
             <<>>),
        {Approve("approved"), Approve("rejected"), Out("a", Str(<<"v">>))})

\* One reference whose value may be a Boolean, a list or text.
OneReference ==
    Doc(Step("", Output("a"), <<<<"c", YMap(<<"!Connection">>, <<<<"type", T("t")>>, <<"name", T("c")>>>>)>>,
                                <<"s", Secret("s")>>>>),
        {Out("a", Bool(TRUE)), Out("a", Bool(FALSE)), Out("a", Str(<<"v">>)),
         Out("a", List(<<Bool(TRUE), Str(<<"v">>), Bool(FALSE)>>))})

\* Calls that need the value of a reference, one to no function, a constant.
Calls ==
    Doc(Step("container",
             YSeq(<<>>, <<Fn("jsonUnmarshal", <<Output("a")>>),
                          Fn("equals", <<YScalar(<<"!!binary">>, Str(<<"aA==">>)), T("h")>>),
                          Fn("nope", <<T("v")>>)>>), <<>>),
        {Out("a", Str(<<"true">>)), Out("a", Str(<<"false">>)), Out("a", Str(<<"v">>))})

\* A value that spells a reference.
RefersTo(t, f) == Typed(t, [x \in DOMAIN f |-> Str(<<f[x]>>)])

\* The library functions in a specification, without conditions; the output
\* they use may spell a reference, to an output that spells another, or hold one.
NoCondition ==
    LET obj(x, n) == YMap(<<>>, <<<<x, n>>>>)
    IN  [Doc(Step("container", Absent,
            <<<<"m", Fn("merge", <<obj("p", obj("p", T("v"))), obj("p", obj("q", Output("a")))>>)>>,
              <<"n", YMap(<<"!Fn.", "merge">>, <<<<"mode", T("shallow")>>,
                        <<"objects", YSeq(<<>>, <<obj("p", obj("p", T("v"))), obj("p", obj("q", T("w")))>>)>>>>)>>,
              <<"a", Fn("append", <<YSeq(<<>>, <<T("v")>>), Output("a")>>)>>,
              <<"c", YMap(<<"!Fn.", "convertMarkdown">>, <<<<"to", T("jira")>>, <<"content", Param("p")>>>>)>>>>),
            {Out("a", Str(<<"v">>)), Out("a", RefersTo("Secret", [name |-> "s"])),
             Out("a", RefersTo("Output", [from |-> "b", name |-> "x"])),
             Out("b", RefersTo("Secret", [name |-> "s"])),
             Out("a", Map([p |-> RefersTo("Secret", [name |-> "nope"])]))})
         EXCEPT !.env = [E |-> Typed("Output", [taskName |-> Str(<<"a">>), name |-> Str(<<"x">>)])]]

\* Calls that yield references and need none: as a condition, as an argument,
\* in the specification and in the environment, and one that needs an output.
CallsYield ==
    LET json(n) == Fn("jsonUnmarshal", <<n>>)
    IN  [Doc(Step("container",
                  YSeq(<<>>, <<json(T("output")), Fn("equals", <<json(T("secret")), Output("b")>>)>>),
                  <<<<"s", json(T("secret"))>>, <<"l", json(Output("c"))>>,
                    <<"m", Fn("append", <<YSeq(<<>>, <<json(T("secret"))>>), Output("b")>>)>>>>),
             {Out("a", Bool(TRUE)), Out("a", Str(<<"v">>)), Out("b", Str(<<"v">>)), Out("b", Str(<<"w">>)),
              Out("c", Str(<<"secret">>))})
         EXCEPT !.env = [E |-> Invocation("jsonUnmarshal", List(<<Str(<<"secret">>)>>))]]

\* A call that yields the list of conditions.
CallYieldsList ==
    Doc(Step("container", Fn("jsonUnmarshal", <<T("conditions")>>), <<>>),
        {Out("a", Bool(TRUE)), Out("a", Bool(FALSE)), Out("a", Str(<<"v">>))})

\* A condition that may be false while another one turns out to be in error.
FalseOrError ==
    Doc(Step("container", YSeq(<<>>, <<Fn("jsonUnmarshal", <<Output("a")>>),
                                       Fn("equals", <<Output("b"), T("v")>>)>>), <<>>),
        {Out("a", Str(<<"true">>)), Out("a", Str(<<"v">>)), Out("b", Str(<<"v">>)), Out("b", Str(<<"w">>))})

\* References that the endpoints do not resolve.
Unresolved ==
    Doc(Step("container", YSeq(<<>>, <<Fn("equals", <<Output("a"), T("v")>>),
                                       YScalar(<<"!Data">>, Str(<<"q">>))>>),
             <<<<"a", YSeq(<<"!Answer">>, <<T("s"), T("approval")>>)>>>>),
        {Out("a", Str(<<"v">>)), Out("a", Str(<<"w">>)), Approve("approved")})

\* A secret next to a condition that is false, without Vault.
NoVault ==
    [Doc(Step("container", YSeq(<<>>, <<Fn("equals", <<Secret("s"), T("v")>>),
                                        Fn("equals", <<Output("a"), T("v")>>)>>), <<>>),
         {Out("a", Str(<<"w">>))}) EXCEPT !.hasVault = FALSE]

\* A trigger, and one that refers to what only steps may use.
Trigger ==
    [kind |-> "trigger",
     step |-> Step("webhook", Fn("equals", <<Param("p"), T("v")>>),
                   <<<<"s", Fn("concat", <<T("u"), Secret("s")>>)>>>>),
     env |-> [E |-> Typed("Secret", [name |-> Str(<<"s">>)])],
     defaults |-> <<>>, given |-> <<>>, hasVault |-> TRUE, writes |-> {}]

StepTrigger == [Trigger EXCEPT !.step.spec = <<<<"p", Param("p")>>>>]

BadStep(when) == Doc(Step("container", when, <<>>), {})

AllDocuments ==
    [two_outputs |-> TwoOutputs, approval |-> Approval, approval_list |-> ApprovalList,
     one_reference |-> OneReference, calls |-> Calls, false_or_error |-> FalseOrError,
     no_condition |-> NoCondition, calls_yield |-> CallsYield, call_yields_list |-> CallYieldsList,
     trigger |-> Trigger, step_trigger |-> StepTrigger, unresolved |-> Unresolved, no_vault |-> NoVault,
     scalar_output |-> BadStep(YScalar(<<"!Output">>, Str(<<"a">>))),
     unknown_tag |-> BadStep(YScalar(<<"!Nope">>, Str(<<"a">>))),
     repeated_key |-> BadStep(YMap(<<"!Answer">>, <<<<"name", T("a")>>, <<"name", T("b")>>>>)),
     bad_call |-> BadStep(Fn("concat", <<YScalar(<<>>, Bool(TRUE))>>)),
     unknown_type |-> Doc(Step("pod", Absent, <<>>), {}),
     text_in_env |-> [NoCondition EXCEPT !.env = [E |-> Str(<<"v">>)]]]

\* The values of constants that are computed once.
MCDocs          == AllDocuments
MCResource      == Manifest
MCConfiguration == Configured

MCVault == (<<"secrets", "s">> :> "v") @@ (<<"connections", "t", "c">> :> "id")
           @@ (<<"connections", "id", "user">> :> "u") @@ (<<"connections", "id", "key">> :> "w")
MCJSONText ==
    LET secret == RefersTo("Secret", [name |-> "s"])
        output == RefersTo("Output", [from |-> "a", name |-> "x"])
    IN  (<<"true">> :> Bool(TRUE)) @@ (<<"false">> :> Bool(FALSE)) @@ (<<"secret">> :> secret)
        @@ (<<"output">> :> output) @@ (<<"conditions">> :> List(<<Bool(TRUE), output>>))
MCBase64 == (<<"aA==">> :> <<"h">>) @@ (<<>> :> <<>>)

=============================================================================
