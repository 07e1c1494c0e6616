--------------------------- MODULE StepTokensProofs ---------------------------
(***************************************************************************)
(* Proofs about StepTokens, for any workflow and any bounds.               *)
(***************************************************************************)
EXTENDS StepTokens, TLAPS

-----------------------------------------------------------------------------
(* Types *)

\* Serial numbers of runs, namespaces and service accounts; 0 is none.
Positive == Nat \ {0}

\* A token: what it is encrypted for, and its claims.
TokenType ==
    [context : Positive,
     claims : [ns : Positive, sa : Positive, run : Positive, step : Steps]]

\* What is kept of each kind of object.
TypeOf(o) ==
    CASE o = SA -> [owners : SUBSET Positive, created : Positive, secret : BOOLEAN]
      [] o = Pipeline -> [owners : SUBSET Positive, token : {NoToken}]
      [] OTHER -> [owners : SUBSET Positive, token : TokenType]

\* How many namespaces and runs were made, or have been seen.
Counters == [ns : Nat, run : Nat]

\* What object o may be when so many runs and namespaces have been made.
Valid(o, x, m) ==
    x # None =>
        /\ x \in TypeOf(o) /\ x.owners # {}
        /\ \A r \in x.owners : r <= m.run
        /\ o \in Targets =>
              /\ x.token.context <= m.ns
              /\ x.token.claims.run <= m.run
              /\ x.token.claims.step = o[2]

\* What the operator is about to write: the object it has loaded, owned by the
\* run of the reconciliation and with the token it had, if it had one.
Prepared(o, copy, new, r) ==
    /\ new # None /\ new.owners = copy.owners \cup {r}
    /\ o \in Targets /\ copy # None => new.token = copy.token

\* Where a reconciliation stands, and what it has loaded and prepared.
OpOK ==
    /\ op.pc \in {"idle", "deps", "sa", "pipeline", "persist"}
    /\ op.pc = "idle" => op = Idle
    /\ op.pc # "idle" => op.run \in Positive /\ op.run <= made.run
    /\ op.pc \in {"sa", "pipeline"} => op.ns \in Positive /\ op.ns <= made.ns
    /\ op.pc = "sa" => Valid(SA, op.sa, made)
    /\ op.pc = "persist" =>
          /\ op = [pc |-> "persist", run |-> op.run, todo |-> op.todo, copy |-> op.copy,
                   new |-> op.new]
          /\ op.todo \subseteq Objects \ {SA}
          /\ \A o \in Objects \ {SA} :
                /\ Valid(o, op.copy[o], made) /\ Valid(o, op.new[o], made)
                /\ Prepared(o, op.copy[o], op.new[o], op.run)

\* The type invariant, with the facts about numbers and copies that it needs.
TypesOK ==
    /\ made \in Counters /\ cache \in Counters
    /\ ns \in {0, made.ns} /\ run \in {0, made.run}
    /\ cache.ns <= made.ns /\ cache.run <= made.run
    /\ obj = [o \in Objects |-> obj[o]]
    /\ \A o \in Objects : Valid(o, obj[o], made)
    /\ OpOK

-----------------------------------------------------------------------------
(* What is true of the objects of a run that stays *)

\* The object x is there and owned by the run r.
Owns(x, r) == x # None /\ r \in x.owners

\* The service account whose token is in the claims is that of the run.
Serves(account, r, claims) == Owns(account, r) /\ claims.sa = account.created

\* A service account that the run owns is not collected, so that tokens that
\* were issued for the run contain the token of the present one.
AccountsKept ==
    run # 0 =>
        /\ op.pc = "pipeline" /\ op.run = run => Owns(obj[SA], run)
        /\ \A t \in Targets : obj[t] # None /\ obj[t].token.claims.run = run
              => Serves(obj[SA], run, obj[t].token.claims)
        /\ op.pc = "persist" =>
              \A t \in Targets : op.new[t].token.claims.run = run
                  => Serves(obj[SA], run, op.new[t].token.claims)

\* What a reconciliation of the run has written is there and belongs to the run.
TargetsKept ==
    /\ op.pc = "persist" /\ op.run = run => \A t \in Targets \ op.todo : Owns(obj[t], run)
    /\ Applied => \A t \in Targets : Owns(obj[t], run)

-----------------------------------------------------------------------------
(* Objects *)

\* The kinds of objects are different.
LEMMA Kinds ==
    /\ SA \in Objects /\ Pipeline \in Objects /\ SA # Pipeline
    /\ SA \notin Targets /\ Pipeline \notin Targets
    /\ Objects = Targets \cup {SA, Pipeline}
    /\ \A t \in Targets : t[1] \in {"task", "condition"} /\ t[2] \in Steps
    /\ Pipeline[1] = "pipeline"
  BY StepsAssumption DEF Objects, Targets, SA, Pipeline, Task, Condition

\* An object that has an owner exists.
LEMMA OwnedExists ==
    ASSUME NEW x, x.owners # {} PROVE x # None
  BY DEF None

\* The fields of a service account.
LEMMA AccountFields ==
    ASSUME NEW x, NEW m, x # None, Valid(SA, x, m)
    PROVE  x \in [owners : SUBSET Positive, created : Positive, secret : BOOLEAN]
  BY Kinds DEF Valid, TypeOf

\* The fields of a Task or Condition.
LEMMA TargetFields ==
    ASSUME NEW t \in Targets, NEW x, NEW m, x # None, Valid(t, x, m)
    PROVE  x \in [owners : SUBSET Positive, token : TokenType]
  BY Kinds DEF Valid, TypeOf

\* What may be remains so when more runs and namespaces are made.
LEMMA ValidGrows ==
    ASSUME NEW o, NEW x, NEW m \in Counters, NEW m2 \in Counters,
           m.ns <= m2.ns, m.run <= m2.run, o \in Objects, Valid(o, x, m)
    PROVE  Valid(o, x, m2)
  <1> SUFFICES ASSUME x # None PROVE Valid(o, x, m2)
    BY DEF Valid
  <1>0. m.ns \in Nat /\ m.run \in Nat /\ m2.ns \in Nat /\ m2.run \in Nat
    BY DEF Counters
  <1>1. x \in TypeOf(o) /\ x.owners # {} /\ (\A r \in x.owners : r <= m.run)
    BY DEF Valid
  <1>2. x.owners \subseteq Positive
    BY <1>1 DEF TypeOf
  <1>3. \A r \in x.owners : r <= m2.run
    BY <1>0, <1>1, <1>2 DEF Positive
  <1>4. ASSUME o \in Targets
        PROVE  /\ x.token.context <= m2.ns /\ x.token.claims.run <= m2.run
               /\ x.token.claims.step = o[2]
    <2>1. /\ x.token.context <= m.ns /\ x.token.claims.run <= m.run
          /\ x.token.claims.step = o[2]
      BY <1>4 DEF Valid
    <2>2. x.token.context \in Nat /\ x.token.claims.run \in Nat
      BY <1>4, TargetFields DEF TokenType, Positive
    <2> QED BY <1>0, <2>1, <2>2
  <1> QED BY <1>1, <1>3, <1>4 DEF Valid

\* Own keeps everything but the owners, and takes none of them away.
LEMMA OwnValid ==
    ASSUME NEW m \in Counters, NEW o \in Objects, NEW x, x # None, Valid(o, x, m),
           NEW r \in Positive, r <= m.run
    PROVE  /\ Valid(o, Own(x, r), m) /\ Own(x, r) # None
           /\ Own(x, r).owners = x.owners \cup {r}
           /\ o # SA => Own(x, r).token = x.token
           /\ o = SA => Own(x, r).created = x.created
  <1>1. x \in TypeOf(o) /\ \A q \in x.owners : q <= m.run
    BY DEF Valid
  <1>2. CASE o = SA
    <2>1. x \in [owners : SUBSET Positive, created : Positive, secret : BOOLEAN]
      BY <1>1, <1>2, Kinds DEF TypeOf
    <2>2. /\ Own(x, r) \in [owners : SUBSET Positive, created : Positive, secret : BOOLEAN]
          /\ Own(x, r).owners = x.owners \cup {r} /\ Own(x, r).created = x.created
      BY <2>1 DEF Own
    <2>3. Own(x, r) \in TypeOf(o)
      BY <1>2, <2>2, Kinds DEF TypeOf
    <2> QED BY <1>1, <1>2, <2>2, <2>3, OwnedExists, Kinds DEF Valid
  <1>3. CASE o = Pipeline
    <2>1. x \in [owners : SUBSET Positive, token : {NoToken}]
      BY <1>1, <1>3, Kinds DEF TypeOf
    <2>2. /\ Own(x, r) \in [owners : SUBSET Positive, token : {NoToken}]
          /\ Own(x, r).owners = x.owners \cup {r} /\ Own(x, r).token = x.token
      BY <2>1 DEF Own
    <2>3. Own(x, r) \in TypeOf(o)
      BY <1>3, <2>2, Kinds DEF TypeOf
    <2> QED BY <1>1, <1>3, <2>2, <2>3, OwnedExists, Kinds DEF Valid
  <1>4. CASE o \in Targets
    <2>1. x \in [owners : SUBSET Positive, token : TokenType]
      BY <1>4, TargetFields
    <2>2. /\ Own(x, r) \in [owners : SUBSET Positive, token : TokenType]
          /\ Own(x, r).owners = x.owners \cup {r} /\ Own(x, r).token = x.token
      BY <2>1 DEF Own
    <2>3. Own(x, r) \in TypeOf(o)
      BY <1>4, <2>2, Kinds DEF TypeOf
    <2> QED BY <1>1, <1>4, <2>2, <2>3, OwnedExists, Kinds DEF Valid
  <1> QED BY <1>2, <1>3, <1>4, Kinds

\* ConfigureTask and ConfigureCondition prepare a target, and issue a token only
\* for one that was not there.
LEMMA ConfiguredTarget ==
    ASSUME TypesOK, op.pc = "pipeline", NEW t \in Targets, NEW copy, Valid(t, copy, made),
           NEW sa \in Positive
    PROVE  LET new == [Owned(copy) EXCEPT !.token = AnnotateStepToken(copy, sa, t[2])]
           IN  /\ Valid(t, new, made) /\ Prepared(t, copy, new, op.run)
               /\ copy = None => new.token.claims = Claims(op.ns, sa, op.run, t[2])
  <1> DEFINE tok == AnnotateStepToken(copy, sa, t[2])
             new == [Owned(copy) EXCEPT !.token = tok]
  <1>1. /\ op.run \in Positive /\ op.run <= made.run /\ op.ns \in Positive /\ op.ns <= made.ns
        /\ made \in Counters /\ t \in Objects /\ t # SA /\ t # Pipeline /\ t[2] \in Steps
    BY Kinds DEF TypesOK, OpOK
  <1>2. CASE copy = None
    <2>1. tok = [context |-> op.ns, claims |-> Claims(op.ns, sa, op.run, t[2])]
      BY <1>2 DEF AnnotateStepToken, Issue, Wrap, Claims
    <2>2. tok \in TokenType /\ tok.context = op.ns /\ tok.claims = Claims(op.ns, sa, op.run, t[2])
      BY <1>1, <2>1 DEF TokenType, Claims
    <2> HIDE DEF tok
    <2>3. new = [owners |-> {op.run}, token |-> tok]
      BY <1>2 DEF Owned
    <2> HIDE DEF new
    <2>4. new \in TypeOf(t)
      BY <1>1, <2>2, <2>3 DEF TypeOf
    <2>5. new # None /\ new.owners = {op.run} /\ new.token = tok
      BY <2>3, OwnedExists
    <2>6. tok.claims.run = op.run /\ tok.claims.step = t[2]
      BY <2>2 DEF Claims
    <2>7. Valid(t, new, made)
      BY <1>1, <2>2, <2>4, <2>5, <2>6 DEF Valid
    <2>8. Prepared(t, copy, new, op.run)
      BY <1>2, <2>5 DEF Prepared, None
    <2> QED BY <2>2, <2>5, <2>7, <2>8 DEF new, tok
  <1>3. CASE copy # None
    <2>1. tok = copy.token
      BY <1>3 DEF AnnotateStepToken
    <2>2. /\ Valid(t, Own(copy, op.run), made) /\ Own(copy, op.run) # None
          /\ Own(copy, op.run).owners = copy.owners \cup {op.run}
          /\ Own(copy, op.run).token = copy.token
      BY <1>1, <1>3, OwnValid
    <2>3. Own(copy, op.run) \in [owners : SUBSET Positive, token : TokenType]
      BY <2>2, TargetFields
    <2>4. new = Own(copy, op.run)
      BY <1>3, <2>1, <2>2, <2>3 DEF Owned
    <2> HIDE DEF new
    <2> QED BY <1>3, <2>2, <2>4 DEF Prepared, new
  <1> QED BY <1>2, <1>3

\* The same of the Pipeline.
LEMMA ConfiguredOther ==
    ASSUME TypesOK, op.pc = "pipeline", NEW copy, Valid(Pipeline, copy, made)
    PROVE  Valid(Pipeline, Owned(copy), made) /\ Prepared(Pipeline, copy, Owned(copy), op.run)
  <1>1. op.run \in Positive /\ op.run <= made.run /\ made \in Counters
    BY DEF TypesOK, OpOK
  <1>2. CASE copy = None
    <2>1. Owned(copy) = [owners |-> {op.run}, token |-> NoToken]
      BY <1>2 DEF Owned
    <2>2. Owned(copy) \in [owners : SUBSET Positive, token : {NoToken}] /\ Owned(copy).owners = {op.run}
      BY <1>1, <2>1
    <2>3. Owned(copy) \in TypeOf(Pipeline)
      BY <2>2, Kinds DEF TypeOf
    <2> QED BY <1>1, <1>2, <2>2, <2>3, Kinds, OwnedExists DEF Valid, Prepared, None
  <1>3. CASE copy # None
    <2>1. Owned(copy) = Own(copy, op.run)
      BY <1>3 DEF Owned
    <2> QED BY <1>1, <1>3, <2>1, OwnValid, Kinds DEF Prepared
  <1> QED BY <1>2, <1>3

\* ConfigurePipeline prepares every object.
LEMMA ConfiguredAll ==
    ASSUME TypesOK, op.pc = "pipeline", NEW sa \in Positive, NEW o \in Objects \ {SA}
    PROVE  LET new == ConfiguredPipeline(LoadedPipeline, sa)[o]
           IN  /\ LoadedPipeline[o] = obj[o]
               /\ Valid(o, new, made) /\ Prepared(o, obj[o], new, op.run)
               /\ o \in Targets /\ obj[o] = None
                    => new.token.claims = Claims(op.ns, sa, op.run, o[2])
  <1> DEFINE new == ConfiguredPipeline(LoadedPipeline, sa)[o]
  <1>1. LoadedPipeline[o] = obj[o] /\ Valid(o, obj[o], made)
    BY DEF LoadedPipeline, TypesOK
  <1>2. CASE o \in Targets
    <2>1. new = [Owned(obj[o]) EXCEPT !.token = AnnotateStepToken(obj[o], sa, o[2])]
      BY <1>1, <1>2, Kinds DEF ConfiguredPipeline, ConfiguredTask, ConfiguredCondition, LoadedPipeline
    <2> QED BY <1>1, <1>2, <2>1, ConfiguredTarget
  <1>3. CASE o = Pipeline
    <2>1. new = Owned(obj[o])
      BY <1>1, <1>3, Kinds DEF ConfiguredPipeline, LoadedPipeline
    <2> QED BY <1>1, <1>3, <2>1, ConfiguredOther, Kinds
  <1> QED BY <1>2, <1>3, Kinds

\* A reconciliation that ends.
LEMMA ReturnOK ==
    ASSUME NEW err, Return(err)
    PROVE  op' = Idle /\ op'.pc = "idle" /\ OpOK'
  BY DEF Return, Idle, OpOK

\* What a reconciliation has prepared stays valid when more is made.
LEMMA OpGrows ==
    ASSUME TypesOK, made' \in Counters, made.ns <= made'.ns, made.run <= made'.run, op' = op
    PROVE  OpOK'
  <1>1. \A o \in Objects : \A x : Valid(o, x, made) => Valid(o, x, made')
    BY ValidGrows DEF TypesOK
  <1>2. op.pc # "idle" => op.run <= made'.run
    BY DEF TypesOK, OpOK, Counters, Positive
  <1>3. op.pc \in {"sa", "pipeline"} => op.ns <= made'.ns
    BY DEF TypesOK, OpOK, Counters, Positive
  <1> QED BY <1>1, <1>2, <1>3, Kinds DEF TypesOK, OpOK

\* One object is replaced.
LEMMA Replaced ==
    ASSUME TypesOK, NEW o \in Objects, NEW x, Valid(o, x, made), made' = made,
           obj' = [obj EXCEPT ![o] = x]
    PROVE  /\ obj' = [q \in Objects |-> obj'[q]] /\ obj'[o] = x
           /\ \A q \in Objects : q # o => obj'[q] = obj[q]
           /\ \A q \in Objects : Valid(q, obj'[q], made')
  <1>1. obj = [q \in Objects |-> obj[q]] /\ \A q \in Objects : Valid(q, obj[q], made)
    BY DEF TypesOK
  <1>2. obj'[o] = x /\ (\A q \in Objects : q # o => obj'[q] = obj[q])
        /\ obj' = [q \in Objects |-> obj'[q]]
    BY <1>1
  <1> QED BY <1>1, <1>2

\* Type correctness of the objects, of the operator's copies and of its work.
THEOREM TypesCorrect == TokenSpec => []TypesOK
  <1>1. TokenInit => TypesOK
    <2> SUFFICES ASSUME TokenInit PROVE TypesOK OBVIOUS
    <2>1. op = Idle /\ op.pc = "idle"
      BY DEF TokenInit, Idle
    <2>2. OpOK
      BY <2>1 DEF OpOK
    <2>3. \A o \in Objects : Valid(o, obj[o], made)
      BY DEF TokenInit, Valid
    <2>4. /\ made \in Counters /\ cache \in Counters /\ made.ns = 0 /\ made.run = 0
          /\ cache.ns = 0 /\ cache.run = 0 /\ ns = 0 /\ run = 0
      BY DEF TokenInit, Counters
    <2> QED BY <2>2, <2>3, <2>4 DEF TokenInit, TypesOK
  <1>2. TypesOK /\ [TokenSystem \/ TokenEnvironment]_tokenVars => TypesOK'
    <2> SUFFICES ASSUME TypesOK, [TokenSystem \/ TokenEnvironment]_tokenVars PROVE TypesOK'
      OBVIOUS
    <2>0. /\ made \in Counters /\ cache \in Counters /\ made.ns \in Nat /\ made.run \in Nat
          /\ ns \in {0, made.ns} /\ run \in {0, made.run}
          /\ cache.ns <= made.ns /\ cache.run <= made.run
          /\ cache.ns \in Nat /\ cache.run \in Nat
      BY DEF TypesOK, Counters
    <2>1. ASSUME UNCHANGED <<ns, run, cache, made, obj>>, OpOK' PROVE TypesOK'
      BY <2>1 DEF TypesOK
    <2>2. ASSUME UNCHANGED <<op, made>> PROVE OpOK'
      BY <2>2 DEF TypesOK, OpOK
    <2>3. CASE RunEvent
      <3>1. cache' \in Counters /\ cache'.ns = cache.ns /\ cache'.run = run
        BY <2>0, <2>3 DEF RunEvent, Counters
      <3> QED BY <2>0, <2>2, <2>3, <3>1 DEF RunEvent, TypesOK
    <2>4. CASE NamespaceEvent
      <3>1. cache' \in Counters /\ cache'.ns = ns /\ cache'.run = cache.run
        BY <2>0, <2>4 DEF NamespaceEvent, Counters
      <3> QED BY <2>0, <2>2, <2>4, <3>1 DEF NamespaceEvent, TypesOK
    <2>5. ASSUME made' \in Counters, made.ns <= made'.ns, made.run <= made'.run,
                 UNCHANGED <<cache, obj, op>>,
                 ns' \in {0, made'.ns}, run' \in {0, made'.run}
          PROVE  TypesOK'
      <3>1. \A o \in Objects : Valid(o, obj[o], made')
        BY <2>0, <2>5, ValidGrows DEF TypesOK
      <3>2. cache.ns <= made'.ns /\ cache.run <= made'.run
        BY <2>0, <2>5 DEF Counters
      <3>3. OpOK'
        BY <2>5, OpGrows
      <3> QED BY <2>5, <3>1, <3>2, <3>3 DEF TypesOK
    <2>6. CASE CreateNamespace
      <3>1. made' \in Counters /\ made'.ns = made.ns + 1 /\ made'.run = made.run
        BY <2>0, <2>6 DEF CreateNamespace, Counters
      <3> QED BY <2>0, <2>5, <2>6, <3>1 DEF CreateNamespace
    <2>7. CASE CreateRun
      <3>1. made' \in Counters /\ made'.run = made.run + 1 /\ made'.ns = made.ns
        BY <2>0, <2>7 DEF CreateRun, Counters
      <3> QED BY <2>0, <2>5, <2>7, <3>1 DEF CreateRun
    <2>8. CASE DeleteNamespace
      <3>1. /\ obj' = [o \in Objects |-> obj'[o]]
            /\ \A o \in Objects : Valid(o, obj'[o], made')
        BY <2>8 DEF DeleteNamespace, Valid
      <3> QED BY <2>0, <2>2, <2>8, <3>1 DEF DeleteNamespace, TypesOK
    <2>9. CASE DeleteRun
      BY <2>0, <2>2, <2>9 DEF DeleteRun, TypesOK
    <2>10. ASSUME NEW o \in Objects, NEW x, Valid(o, x, made), obj' = [obj EXCEPT ![o] = x],
                  UNCHANGED <<ns, run, cache, made>>, OpOK'
           PROVE  TypesOK'
      BY <2>0, <2>10, Replaced DEF TypesOK
    <2>11. CASE AddTokenSecret
      <3> DEFINE x == [obj[SA] EXCEPT !.secret = TRUE]
      <3>1. /\ Valid(SA, obj[SA], made) /\ obj[SA] # None
            /\ obj[SA] \in [owners : SUBSET Positive, created : Positive, secret : BOOLEAN]
        BY <2>11, Kinds, AccountFields DEF AddTokenSecret, TypesOK
      <3>2. /\ x \in [owners : SUBSET Positive, created : Positive, secret : BOOLEAN]
            /\ x.owners = obj[SA].owners
        BY <3>1
      <3>3. Valid(SA, x, made)
        <4>1. x \in TypeOf(SA)
          BY <3>2, Kinds DEF TypeOf
        <4> HIDE DEF x
        <4> QED BY <3>1, <3>2, <4>1, Kinds DEF Valid
      <3>4. obj' = [obj EXCEPT ![SA] = x]
        BY <2>11 DEF AddTokenSecret
      <3> QED BY <2>2, <2>10, <2>11, <3>3, <3>4, Kinds DEF AddTokenSecret
    <2>12. ASSUME NEW o \in Objects, Collect(o) PROVE TypesOK'
      <3>1. Valid(o, None, made)
        BY DEF Valid
      <3> QED BY <2>2, <2>10, <2>12, <3>1 DEF Collect
    <2>13. CASE Reconcile
      <3>1. CASE cache.run = 0
        BY <2>1, <2>2, <2>13, <3>1 DEF Reconcile
      <3>2. CASE cache.run # 0
        <4>1. op' = [pc |-> "deps", run |-> cache.run]
          BY <2>13, <3>2 DEF Reconcile
        <4>2. op'.pc = "deps" /\ op'.run = cache.run
          BY <4>1
        <4>3. OpOK'
          BY <2>0, <2>13, <3>2, <4>2 DEF OpOK, Reconcile, Positive
        <4> QED BY <2>1, <2>13, <4>3 DEF Reconcile
      <3> QED BY <3>1, <3>2
    <2>14. CASE LoadDeps
      <3>1. CASE Return(TRUE)
        BY <2>1, <2>14, <3>1, ReturnOK DEF LoadDeps
      <3>2. CASE /\ cache.ns # 0
                 /\ op' = [pc |-> "sa", run |-> op.run, ns |-> cache.ns, sa |-> obj[SA]]
        <4>1. op'.pc = "sa" /\ op'.run = op.run /\ op'.ns = cache.ns /\ op'.sa = obj[SA]
          BY <3>2
        <4>2. op.run \in Positive /\ op.run <= made.run /\ Valid(SA, obj[SA], made)
          BY <2>14, Kinds DEF LoadDeps, TypesOK, OpOK
        <4>3. OpOK'
          BY <2>0, <2>14, <3>2, <4>1, <4>2 DEF OpOK, LoadDeps, Positive
        <4> QED BY <2>1, <2>14, <4>3 DEF LoadDeps
      <3> QED BY <2>14, <3>1, <3>2 DEF LoadDeps
    <2>15. CASE PersistServiceAccount
      <3>1. CASE Return(TRUE) /\ UNCHANGED obj
        BY <2>1, <2>15, <3>1, ReturnOK DEF PersistServiceAccount
      <3>2. CASE op' = [pc |-> "pipeline", run |-> op.run, ns |-> op.ns]
        <4> DEFINE new == [owners |-> {op.run}, created |-> op.run, secret |-> FALSE]
        <4>1. /\ op.run \in Positive /\ op.run <= made.run /\ Valid(SA, op.sa, made)
              /\ op.ns \in Positive /\ op.ns <= made.ns
          BY <2>15 DEF PersistServiceAccount, TypesOK, OpOK
        <4>2. op'.pc = "pipeline" /\ op'.run = op.run /\ op'.ns = op.ns
          BY <3>2
        <4>3. OpOK'
          BY <2>15, <4>1, <4>2 DEF OpOK, PersistServiceAccount
        <4>4. Valid(SA, new, made)
          <5>1. new.owners = {op.run} /\ new \in TypeOf(SA)
            BY <4>1, Kinds DEF TypeOf
          <5> HIDE DEF new
          <5> QED BY <4>1, <5>1, Kinds DEF Valid
        <4>5. op.sa # None => Valid(SA, Own(op.sa, op.run), made)
          BY <2>0, <4>1, OwnValid, Kinds
        <4>6. PICK x : Valid(SA, x, made) /\ obj' = [obj EXCEPT ![SA] = x]
          <5>1. \/ op' = [pc |-> "idle"]
                \/ obj' = [obj EXCEPT ![SA] = IF op.sa = None THEN new ELSE Own(op.sa, op.run)]
            BY <2>15 DEF PersistServiceAccount, Return, Idle
          <5>2. op' # [pc |-> "idle"]
            BY <4>2
          <5> HIDE DEF new
          <5> QED BY <4>4, <4>5, <5>1, <5>2
        <4> QED BY <2>10, <2>15, <4>3, <4>6, Kinds DEF PersistServiceAccount
      <3> QED BY <2>15, <3>1, <3>2 DEF PersistServiceAccount
    <2>16. CASE LoadTimeout \/ Fail
      BY <2>1, <2>16, ReturnOK DEF LoadTimeout, Fail
    <2>17. CASE LoadPipeline
      <3>1. CASE Return(TRUE)
        BY <2>1, <2>17, <3>1, ReturnOK DEF LoadPipeline
      <3>2. CASE RequiredToken
        <4> DEFINE new == ConfiguredPipeline(LoadedPipeline, obj[SA].created)
        <4>1. op' = [pc |-> "persist", run |-> op.run, todo |-> Objects \ {SA},
                     copy |-> LoadedPipeline, new |-> new]
          BY <2>17, <3>2 DEF LoadPipeline
        <4>2. obj[SA].created \in Positive
          <5>1. obj[SA] # None /\ Valid(SA, obj[SA], made)
            BY <3>2, Kinds DEF RequiredToken, TypesOK
          <5> QED BY <5>1, AccountFields
        <4>3. /\ op.run \in Positive /\ op.run <= made.run /\ op.pc = "pipeline"
          BY <2>17 DEF LoadPipeline, TypesOK, OpOK
        <4>4. \A o \in Objects \ {SA} :
                /\ Valid(o, LoadedPipeline[o], made) /\ Valid(o, new[o], made)
                /\ Prepared(o, LoadedPipeline[o], new[o], op.run)
          <5>1. \A o \in Objects \ {SA} : Valid(o, obj[o], made)
            BY DEF TypesOK
          <5> QED BY <4>2, <4>3, <5>1, ConfiguredAll
        <4> HIDE DEF new
        <4>5. /\ op'.pc = "persist" /\ op'.run = op.run /\ op'.todo = Objects \ {SA}
              /\ op'.copy = LoadedPipeline /\ op'.new = new
              /\ op' = [pc |-> "persist", run |-> op'.run, todo |-> op'.todo, copy |-> op'.copy,
                        new |-> op'.new]
          BY <4>1
        <4>6. OpOK'
          BY <2>17, <4>3, <4>4, <4>5 DEF OpOK, LoadPipeline
        <4> QED BY <2>1, <2>17, <4>6 DEF LoadPipeline
      <3> QED BY <2>17, <3>1, <3>2 DEF LoadPipeline
    <2>18. CASE Persist
      <3>1. PICK o \in op.todo :
                \/ /\ obj' = [obj EXCEPT ![o] = op.new[o]]
                   /\ IF o = Pipeline THEN Return(FALSE)
                      ELSE op' = [op EXCEPT !.todo = @ \ {o}] /\ UNCHANGED queued
                \/ Return(TRUE) /\ UNCHANGED obj
        BY <2>18 DEF Persist
      <3>2. /\ op.pc = "persist" /\ o \in Objects \ {SA} /\ OpOK
            /\ Valid(o, op.new[o], made)
            /\ op = [pc |-> "persist", run |-> op.run, todo |-> op.todo, copy |-> op.copy,
                     new |-> op.new]
        BY <2>18 DEF Persist, TypesOK, OpOK
      <3>3. ASSUME op' = [op EXCEPT !.todo = @ \ {o}] PROVE OpOK'
        <4>1. /\ op'.pc = "persist" /\ op'.run = op.run /\ op'.todo = op.todo \ {o}
              /\ op'.copy = op.copy /\ op'.new = op.new
              /\ op' = [pc |-> "persist", run |-> op'.run, todo |-> op'.todo, copy |-> op'.copy,
                        new |-> op'.new]
          BY <3>2, <3>3
        <4> QED BY <2>18, <3>2, <4>1 DEF OpOK, Persist
      <3>4. OpOK'
        BY <3>1, <3>3, ReturnOK
      <3> QED BY <2>1, <2>10, <2>18, <3>1, <3>2, <3>4 DEF Persist
    <2>19. CASE UNCHANGED tokenVars
      BY <2>1, <2>2, <2>19 DEF tokenVars
    <2> QED
      BY <2>3, <2>4, <2>6, <2>7, <2>8, <2>9, <2>11, <2>12, <2>13, <2>14, <2>15, <2>16, <2>17,
         <2>18, <2>19
      DEF TokenSystem, TokenEnvironment, ReconcileStep
  <1> QED BY <1>1, <1>2, PTL DEF TokenSpec

-----------------------------------------------------------------------------
(* Steps *)

\* The Pipeline is the last object of its order.
LEMMA PipelineLast ==
    ASSUME NEW t \in Targets
    PROVE  ~ PersistedBefore(Pipeline, t)
  <1>1. t[1] \in {"task", "condition"} /\ Pipeline[1] = "pipeline"
    BY Kinds
  <1>2. PersistRank(t) \in {1, 2} /\ PersistRank(Pipeline) = 3
    BY <1>1 DEF PersistRank
  <1> QED BY <1>2 DEF PersistedBefore

\* What Persist does: it writes an object as it was prepared, or nothing.
LEMMA PersistSteps ==
    ASSUME TypesOK, Persist
    PROVE  \/ UNCHANGED <<ns, run, obj>> /\ op'.pc = "idle"
           \/ \E o \in op.todo :
                /\ o \in Objects \ {SA} /\ ns # 0 /\ UNCHANGED <<ns, run>>
                /\ obj[o] = op.copy[o] /\ obj'[o] = op.new[o]
                /\ \A q \in Objects : q # o => obj'[q] = obj[q]
                /\ \/ /\ o = Pipeline /\ op'.pc = "idle"
                      /\ \A t \in Targets : t \notin op.todo
                   \/ /\ o \in Targets
                      /\ op'.pc = "persist" /\ op'.run = op.run /\ op'.todo = op.todo \ {o}
                      /\ op'.new = op.new
  <1>1. PICK o \in op.todo :
            /\ \A p \in op.todo \ {o} : PersistedBefore(o, p)
            /\ \/ /\ Accepts(o, op.copy[o])
                  /\ obj' = [obj EXCEPT ![o] = op.new[o]]
                  /\ IF o = Pipeline THEN Return(FALSE)
                     ELSE op' = [op EXCEPT !.todo = @ \ {o}] /\ UNCHANGED queued
               \/ ~Accepts(o, op.copy[o]) /\ Return(TRUE) /\ UNCHANGED obj
    BY DEF Persist
  <1>2. CASE Return(TRUE) /\ UNCHANGED obj
    BY <1>2, ReturnOK DEF Persist
  <1>3. CASE /\ Accepts(o, op.copy[o])
             /\ obj' = [obj EXCEPT ![o] = op.new[o]]
             /\ IF o = Pipeline THEN Return(FALSE)
                ELSE op' = [op EXCEPT !.todo = @ \ {o}] /\ UNCHANGED queued
    <2>1. /\ o \in Objects \ {SA} /\ Valid(o, op.new[o], made)
          /\ op = [pc |-> "persist", run |-> op.run, todo |-> op.todo, copy |-> op.copy,
                   new |-> op.new]
      BY DEF Persist, TypesOK, OpOK
    <2>2. obj'[o] = op.new[o] /\ \A q \in Objects : q # o => obj'[q] = obj[q]
      BY <1>3, <2>1, Replaced DEF Persist
    <2>3. CASE o = Pipeline
      <3>1. op'.pc = "idle"
        BY <1>3, <2>3, ReturnOK
      <3>2. \A t \in Targets : t \notin op.todo
        BY <1>1, <2>3, PipelineLast, Kinds
      <3> QED BY <1>3, <2>1, <2>2, <2>3, <3>1, <3>2 DEF Accepts, Persist
    <2>4. CASE o # Pipeline
      <3>1. op' = [op EXCEPT !.todo = @ \ {o}] /\ o \in Targets
        BY <1>3, <2>1, <2>4, Kinds
      <3>2. /\ op'.pc = "persist" /\ op'.run = op.run /\ op'.todo = op.todo \ {o}
            /\ op'.new = op.new
        BY <2>1, <3>1
      <3> QED BY <1>3, <2>1, <2>2, <3>1, <3>2 DEF Accepts, Persist
    <2> QED BY <2>3, <2>4
  <1> QED BY <1>1, <1>2, <1>3

\* What the operator does to the service account.
LEMMA AccountSteps ==
    ASSUME TypesOK, PersistServiceAccount
    PROVE  \/ UNCHANGED <<ns, run, obj>> /\ op'.pc = "idle"
           \/ /\ UNCHANGED <<ns, run>> /\ \A q \in Objects : q # SA => obj'[q] = obj[q]
              /\ op'.pc = "pipeline" /\ op'.run = op.run
              /\ Owns(obj'[SA], op.run)
              /\ obj[SA] # None => /\ obj'[SA].owners = obj[SA].owners \cup {op.run}
                                   /\ obj'[SA].created = obj[SA].created
  <1>1. CASE Return(TRUE) /\ UNCHANGED obj
    BY <1>1, ReturnOK DEF PersistServiceAccount
  <1>2. CASE /\ Accepts(SA, op.sa)
             /\ obj' = [obj EXCEPT ![SA] =
                   IF op.sa = None THEN [owners |-> {op.run}, created |-> op.run, secret |-> FALSE]
                   ELSE Own(op.sa, op.run)]
             /\ op' = [pc |-> "pipeline", run |-> op.run, ns |-> op.ns]
    <2>1. /\ op.run \in Positive /\ op.run <= made.run /\ Valid(SA, op.sa, made)
          /\ made \in Counters /\ obj[SA] = op.sa /\ obj = [q \in Objects |-> obj[q]]
      BY <1>2 DEF PersistServiceAccount, TypesOK, OpOK, Accepts
    <2>2. \A q \in Objects : q # SA => obj'[q] = obj[q]
      BY <1>2, <2>1
    <2>3. op'.pc = "pipeline" /\ op'.run = op.run
      BY <1>2
    <2>4. CASE op.sa = None
      <3>1. obj'[SA] = [owners |-> {op.run}, created |-> op.run, secret |-> FALSE]
        BY <1>2, <2>1, <2>4, Kinds
      <3>2. obj'[SA].owners = {op.run}
        BY <3>1
      <3>3. obj'[SA] # None
        BY <3>2, OwnedExists
      <3> QED BY <2>1, <2>2, <2>3, <2>4, <3>2, <3>3 DEF PersistServiceAccount, Owns
    <2>5. CASE op.sa # None
      <3>1. obj'[SA] = Own(op.sa, op.run)
        BY <1>2, <2>1, <2>5, Kinds
      <3>2. /\ obj'[SA] # None /\ obj'[SA].owners = op.sa.owners \cup {op.run}
            /\ obj'[SA].created = op.sa.created
        BY <2>1, <2>5, <3>1, OwnValid, Kinds
      <3> QED BY <2>1, <2>2, <2>3, <3>2 DEF PersistServiceAccount, Owns
    <2> QED BY <2>4, <2>5
  <1> QED BY <1>1, <1>2 DEF PersistServiceAccount

\* A Task or Condition that has a token keeps it as long as it exists.
THEOREM TokensOnce == TokenSpec => TokenOnce
  <1>1. TypesOK /\ [TokenSystem \/ TokenEnvironment]_tokenVars
        => [\A t \in Targets :
               obj[t] # None /\ obj'[t] # None => obj'[t].token = obj[t].token]_tokenVars
    <2> SUFFICES ASSUME TypesOK, [TokenSystem \/ TokenEnvironment]_tokenVars,
                        NEW t \in Targets, obj[t] # None, obj'[t] # None
                 PROVE  obj'[t].token = obj[t].token
      OBVIOUS
    <2>0. t \in Objects /\ t # SA /\ t # Pipeline
      BY Kinds
    <2>1. CASE UNCHANGED obj
      BY <2>1
    <2>2. CASE DeleteNamespace
      BY <2>0, <2>2 DEF DeleteNamespace
    <2>3. CASE AddTokenSecret
      BY <2>0, <2>3 DEF AddTokenSecret, TypesOK
    <2>4. ASSUME NEW o \in Objects, Collect(o) PROVE obj'[t].token = obj[t].token
      BY <2>0, <2>4 DEF Collect, TypesOK
    <2>5. CASE PersistServiceAccount
      BY <2>0, <2>5, AccountSteps
    <2>6. CASE Persist
      <3>1. \A o \in Objects \ {SA} : Prepared(o, op.copy[o], op.new[o], op.run)
        BY <2>6 DEF Persist, TypesOK, OpOK
      <3>2. obj'[t] = obj[t] \/ (obj[t] = op.copy[t] /\ obj'[t] = op.new[t])
        BY <2>0, <2>6, PersistSteps
      <3> QED BY <2>0, <3>1, <3>2 DEF Prepared
    <2> QED BY <2>1, <2>2, <2>3, <2>4, <2>5, <2>6
            DEF TokenSystem, TokenEnvironment, ReconcileStep, RunEvent, NamespaceEvent,
                CreateNamespace, CreateRun, DeleteRun, Reconcile, LoadDeps, LoadTimeout,
                LoadPipeline, Fail, tokenVars
  <1> QED BY <1>1, TypesCorrect, PTL DEF TokenSpec, TokenOnce

-----------------------------------------------------------------------------
(* Credentials *)

\* The invariant of the objects of a run that stays is inductive.
THEOREM ObjectsKept == TokenSpec => [](AccountsKept /\ TargetsKept)
  <1>1. TokenInit => AccountsKept /\ TargetsKept
    BY Kinds DEF TokenInit, AccountsKept, TargetsKept, Applied, Idle
  <1>2. TypesOK /\ AccountsKept /\ TargetsKept /\ [TokenSystem \/ TokenEnvironment]_tokenVars
        => AccountsKept' /\ TargetsKept'
    <2> SUFFICES ASSUME TypesOK, AccountsKept, TargetsKept,
                        [TokenSystem \/ TokenEnvironment]_tokenVars
                 PROVE  AccountsKept' /\ TargetsKept'
      OBVIOUS
    <2>0. /\ made \in Counters /\ made.run \in Nat /\ run \in {0, made.run}
          /\ op.pc # "idle" => op.run \in Positive /\ op.run <= made.run
          /\ \A o \in Objects : Valid(o, obj[o], made)
          /\ Targets \subseteq Objects /\ SA \in Objects /\ Pipeline \in Objects
          /\ SA \notin Targets /\ Pipeline \notin Targets /\ SA # Pipeline
      BY Kinds DEF TypesOK, OpOK, Counters
    <2>1. ASSUME NEW o \in Objects, obj[o] # None, NEW r \in obj[o].owners
          PROVE  r \in Positive /\ r <= made.run
      <3>1. obj[o] \in TypeOf(o) /\ r <= made.run
        BY <2>0, <2>1 DEF Valid
      <3> QED BY <3>1 DEF TypeOf
    <2>2. CASE UNCHANGED <<run, obj, op>>
      BY <2>2 DEF AccountsKept, TargetsKept, Applied
    <2>3. CASE UNCHANGED <<run, obj>> /\ op'.pc \notin {"pipeline", "persist"}
      BY <2>3 DEF AccountsKept, TargetsKept, Applied
    <2>4. CASE DeleteNamespace
      <3>1. run' = 0 /\ obj'[Pipeline] = None /\ op' = op
        BY <2>0, <2>4 DEF DeleteNamespace
      <3>2. op.pc = "persist" => op.run # 0
        BY <2>0 DEF Positive
      <3> QED BY <3>1, <3>2 DEF AccountsKept, TargetsKept, Applied
    <2>5. CASE DeleteRun
      <3>1. run' = 0 /\ obj' = obj /\ op' = op
        BY <2>5 DEF DeleteRun
      <3>2. op.pc = "persist" => op.run # 0
        BY <2>0 DEF Positive
      <3>3. ~ Applied'
        BY <2>0, <2>1, <3>1 DEF Applied, Positive
      <3> QED BY <3>1, <3>2, <3>3 DEF AccountsKept, TargetsKept
    <2>6. CASE CreateRun
      <3>1. run' = made.run + 1 /\ obj' = obj /\ op' = op
        BY <2>6 DEF CreateRun
      <3>2. op.pc # "idle" => op.run # run'
        BY <2>0, <3>1 DEF Positive
      <3>3. ~ Applied'
        <4>1. ASSUME obj[Pipeline] # None PROVE run' \notin obj[Pipeline].owners
          <5>1. \A r \in obj[Pipeline].owners : r \in Positive /\ r <= made.run
            BY <2>0, <2>1, <4>1
          <5> QED BY <2>0, <3>1, <5>1 DEF Positive
        <4> QED BY <3>1, <4>1 DEF Applied
      <3>4. ASSUME NEW t \in Targets, NEW x, x # None, Valid(t, x, made)
            PROVE  x.token.claims.run # run'
        <4>1. x.token.claims.run <= made.run /\ x.token.claims.run \in Nat
          BY <3>4, TargetFields DEF Valid, TokenType, Positive
        <4> QED BY <2>0, <3>1, <4>1
      <3>5. op.pc = "persist" =>
               \A t \in Targets : op.new[t] # None /\ Valid(t, op.new[t], made)
        BY <2>0 DEF TypesOK, OpOK, Prepared
      <3> QED BY <2>0, <3>1, <3>2, <3>3, <3>4, <3>5 DEF AccountsKept, TargetsKept
    <2>7. CASE AddTokenSecret
      <3>1. obj[SA] # None /\ obj[SA] \in [owners : SUBSET Positive, created : Positive, secret : BOOLEAN]
            /\ obj[SA].owners # {}
        BY <2>0, <2>7, AccountFields DEF AddTokenSecret, Valid
      <3>2. /\ \A q \in Objects : q # SA => obj'[q] = obj[q]
            /\ obj'[SA] = [obj[SA] EXCEPT !.secret = TRUE]
        BY <2>0, <2>7 DEF AddTokenSecret, TypesOK
      <3>3. obj'[SA].owners = obj[SA].owners /\ obj'[SA].created = obj[SA].created
        BY <3>1, <3>2
      <3>4. obj'[SA] # None
        BY <3>1, <3>3, OwnedExists
      <3>5. run' = run /\ op' = op
        BY <2>7 DEF AddTokenSecret
      <3>6. AccountsKept'
        BY <2>0, <3>1, <3>2, <3>3, <3>4, <3>5 DEF AccountsKept, Serves, Owns
      <3>7. TargetsKept'
        BY <2>0, <3>2, <3>5 DEF TargetsKept, Applied
      <3> QED BY <3>6, <3>7
    <2>8. ASSUME NEW o \in Objects, Collect(o) PROVE AccountsKept' /\ TargetsKept'
      <3>1. /\ run' = run /\ op' = op /\ obj'[o] = None
            /\ \A q \in Objects : q # o => obj'[q] = obj[q]
            /\ ~ Owns(obj[o], run)
        BY <2>8 DEF Collect, TypesOK, Owns
      <3>2. AccountsKept'
        BY <2>0, <3>1 DEF AccountsKept, Serves
      <3>3. TargetsKept'
        BY <2>0, <3>1 DEF TargetsKept, Applied
      <3> QED BY <3>2, <3>3
    <2>9. CASE PersistServiceAccount
      <3>1. CASE /\ UNCHANGED run /\ \A q \in Objects : q # SA => obj'[q] = obj[q]
                 /\ op'.pc = "pipeline" /\ op'.run = op.run
                 /\ Owns(obj'[SA], op.run)
                 /\ obj[SA] # None => /\ obj'[SA].owners = obj[SA].owners \cup {op.run}
                                      /\ obj'[SA].created = obj[SA].created
        <4>1. AccountsKept'
          BY <2>0, <3>1 DEF AccountsKept, Serves, Owns
        <4>2. TargetsKept'
          BY <2>0, <3>1 DEF TargetsKept, Applied
        <4> QED BY <4>1, <4>2
      <3> QED BY <2>3, <2>9, <3>1, AccountSteps
    <2>10. CASE LoadPipeline
      <3>1. CASE RequiredToken
        <4> DEFINE new == ConfiguredPipeline(LoadedPipeline, obj[SA].created)
        <4>1. op' = [pc |-> "persist", run |-> op.run, todo |-> Objects \ {SA},
                     copy |-> LoadedPipeline, new |-> new]
          BY <2>10, <3>1 DEF LoadPipeline
        <4>2. obj[SA].created \in Positive
          <5>1. obj[SA] # None /\ Valid(SA, obj[SA], made)
            BY <2>0, <3>1 DEF RequiredToken
          <5> QED BY <5>1, AccountFields
        <4>3. \A t \in Targets :
                 /\ obj[t] # None => new[t].token = obj[t].token
                 /\ obj[t] = None
                      => new[t].token.claims = Claims(op.ns, obj[SA].created, op.run, t[2])
          BY <2>0, <2>10, <4>2, ConfiguredAll DEF LoadPipeline, Prepared
        <4> HIDE DEF new
        <4>4. op'.pc = "persist" /\ op'.todo = Objects \ {SA} /\ op'.new = new
          BY <4>1
        <4>5. run' = run /\ obj' = obj /\ op.pc = "pipeline"
          BY <2>10 DEF LoadPipeline
        <4>6. ASSUME run # 0, NEW t \in Targets, new[t].token.claims.run = run
              PROVE  Serves(obj[SA], run, new[t].token.claims)
          <5>1. CASE obj[t] # None
            BY <4>3, <4>6, <5>1 DEF AccountsKept
          <5>2. CASE obj[t] = None
            <6>1. new[t].token.claims.run = op.run /\ new[t].token.claims.sa = obj[SA].created
              <7>1. new[t].token.claims
                       = [ns |-> op.ns, sa |-> obj[SA].created, run |-> op.run, step |-> t[2]]
                BY <4>3, <5>2 DEF Claims
              <7> QED BY <7>1
            <6>2. op.run = run
              BY <4>6, <6>1
            <6> QED BY <4>5, <4>6, <6>1, <6>2 DEF AccountsKept, Serves
          <5> QED BY <5>1, <5>2
        <4>7. AccountsKept'
          BY <4>4, <4>5, <4>6 DEF AccountsKept
        <4>8. TargetsKept'
          BY <2>0, <4>4, <4>5 DEF TargetsKept, Applied
        <4> QED BY <4>7, <4>8
      <3>2. CASE ~ RequiredToken
        BY <2>3, <2>10, <3>2, ReturnOK DEF LoadPipeline
      <3> QED BY <3>1, <3>2
    <2>11. CASE Persist
      <3>0. /\ op.pc = "persist"
            /\ \A o \in Objects \ {SA} : Prepared(o, op.copy[o], op.new[o], op.run)
        BY <2>11 DEF Persist, TypesOK, OpOK
      <3>1. ASSUME NEW o \in op.todo, o \in Targets, UNCHANGED run,
                   obj[o] = op.copy[o], obj'[o] = op.new[o],
                   \A q \in Objects : q # o => obj'[q] = obj[q],
                   op'.pc = "persist", op'.run = op.run, op'.todo = op.todo \ {o},
                   op'.new = op.new
            PROVE  AccountsKept' /\ TargetsKept'
        <4>1. AccountsKept'
          BY <2>0, <3>0, <3>1 DEF AccountsKept
        <4>2. obj'[o] # None /\ obj'[o].owners = obj[o].owners \cup {op.run}
          BY <2>0, <3>0, <3>1 DEF Prepared
        <4>3. TargetsKept'
          BY <2>0, <3>0, <3>1, <4>2 DEF TargetsKept, Applied, Owns
        <4> QED BY <4>1, <4>3
      <3>2. ASSUME UNCHANGED run, op'.pc = "idle",
                   obj[Pipeline] = op.copy[Pipeline], obj'[Pipeline] = op.new[Pipeline],
                   \A q \in Objects : q # Pipeline => obj'[q] = obj[q],
                   \A t \in Targets : t \notin op.todo
            PROVE  AccountsKept' /\ TargetsKept'
        <4>1. AccountsKept'
          BY <2>0, <3>2 DEF AccountsKept
        <4>2. obj'[Pipeline].owners = obj[Pipeline].owners \cup {op.run}
          BY <2>0, <3>0, <3>2 DEF Prepared
        <4>3. obj[Pipeline] = None => obj[Pipeline].owners = {}
          BY DEF None
        <4>4. Applied' => Applied \/ op.run = run
          BY <3>2, <4>2, <4>3 DEF Applied
        <4>5. TargetsKept'
          BY <2>0, <3>0, <3>2, <4>4 DEF TargetsKept
        <4> QED BY <4>1, <4>5
      <3> QED BY <2>3, <2>11, <3>1, <3>2, PersistSteps
    <2>12. CASE Reconcile \/ LoadDeps
      <3>1. UNCHANGED <<run, obj>> /\ op'.pc \in {"idle", "deps", "sa"}
        <4>1. ASSUME Reconcile PROVE UNCHANGED <<run, obj>> /\ op'.pc \in {"idle", "deps"}
          <5>1. op' = Idle \/ op' = [pc |-> "deps", run |-> cache.run]
            BY <4>1 DEF Reconcile
          <5> QED BY <4>1, <5>1 DEF Reconcile, Idle
        <4>2. ASSUME LoadDeps PROVE UNCHANGED <<run, obj>> /\ op'.pc \in {"idle", "sa"}
          <5>1. \/ Return(TRUE)
                \/ op' = [pc |-> "sa", run |-> op.run, ns |-> cache.ns, sa |-> obj[SA]]
            BY <4>2 DEF LoadDeps
          <5>2. UNCHANGED <<run, obj>>
            BY <4>2 DEF LoadDeps
          <5>3. Return(TRUE) => op'.pc = "idle"
            BY ReturnOK
          <5>4. op' = [pc |-> "sa", run |-> op.run, ns |-> cache.ns, sa |-> obj[SA]] => op'.pc = "sa"
            OBVIOUS
          <5> QED BY <5>1, <5>2, <5>3, <5>4
        <4> QED BY <2>12, <4>1, <4>2
      <3> QED BY <2>3, <3>1
    <2>13. CASE LoadTimeout \/ Fail
      BY <2>3, <2>13, ReturnOK DEF LoadTimeout, Fail
    <2> QED BY <2>2, <2>4, <2>5, <2>6, <2>7, <2>8, <2>9, <2>10, <2>11, <2>12, <2>13
            DEF TokenSystem, TokenEnvironment, ReconcileStep, RunEvent, NamespaceEvent,
                CreateNamespace, tokenVars
  <1> QED BY <1>1, <1>2, TypesCorrect, PTL DEF TokenSpec

\* When Tekton may start the steps, every step has its Task and Condition and a
\* token of its own that contains the token of the present service account.
THEOREM CredentialsCorrect == TokenSpec => []Credentials
  <1>1. TypesOK /\ AccountsKept /\ TargetsKept => Credentials
    <2> SUFFICES ASSUME TypesOK, AccountsKept, TargetsKept, Applied, NEW t \in Targets
                 PROVE  /\ obj[t] # None /\ run \in obj[t].owners
                        /\ obj[t].token.claims.step = t[2]
                        /\ obj[t].token.claims.run = run =>
                              obj[SA] # None /\ obj[t].token.claims.sa = obj[SA].created
      BY DEF Credentials
    <2>1. obj[t] # None /\ run \in obj[t].owners
      BY DEF TargetsKept, Owns
    <2>2. Valid(t, obj[t], made) /\ t \in Objects
      BY Kinds DEF TypesOK
    <2>3. obj[t].token.claims.step = t[2]
      BY <2>1, <2>2 DEF Valid
    <2>4. run # 0
      <3>1. obj[t].owners \subseteq Positive
        BY <2>1, <2>2, TargetFields
      <3> QED BY <2>1, <3>1 DEF Positive
    <2> QED BY <2>1, <2>3, <2>4 DEF AccountsKept, Serves, Owns
  <1> QED BY <1>1, TypesCorrect, ObjectsKept, PTL

-----------------------------------------------------------------------------
(* Refinement *)

\* What TokenStore shows of an object.
View(x) ==
    IF x = None THEN [ns |-> 0]
    ELSE [ns |-> x.token.context, step |-> x.token.claims.step]

\* TokenStore has the same targets.
LEMMA StoreTargets == Store!Targets = Targets
  BY DEF Store!Targets, Store!Task, Store!Condition, Targets, Task, Condition

\* A token is not taken for none.
LEMMA ViewToken ==
    ASSUME NEW t \in Targets, NEW x, NEW m, x # None, Valid(t, x, m)
    PROVE  View(x) # Store!NoToken /\ View(x) = Store!Token(x.token.context, t[2])
  <1>1. /\ View(x) = [ns |-> x.token.context, step |-> x.token.claims.step]
        /\ x.token.claims.step = t[2]
    BY DEF View, Valid
  <1>2. x.token.context # 0
    BY TargetFields DEF TokenType, Positive
  <1> QED BY <1>1, <1>2 DEF Store!NoToken, Store!Token

\* The steps that TokenStore does not see.
LEMMA StutterStep ==
    ASSUME ns' = ns, made'.ns = made.ns, (run # 0)' <=> run # 0, Applied' <=> Applied,
           \A t \in Targets : View(obj'[t]) = View(obj[t])
    PROVE  UNCHANGED Store!storeVars
  <1>1. (run # 0)' = (run # 0) /\ Applied' = Applied
    <2>1. Applied \in BOOLEAN /\ Applied' \in BOOLEAN
      BY DEF Applied
    <2> QED BY <2>1
  <1>2. [t \in Targets |-> TokenView(t)]' = [t \in Targets |-> TokenView(t)]
    BY DEF TokenView, View
  <1> QED BY <1>1, <1>2 DEF Store!storeVars

\* Whatever the reconciler, the garbage collector and users do to each other, the
\* metadata API and Tekton see what TokenStore promises.
THEOREM Refinement == TokenSpec => ImplementsTokenStore
  <1>1. TokenInit => Store!StoreInit
    <2> SUFFICES ASSUME TokenInit PROVE Store!StoreInit OBVIOUS
    <2>1. [t \in Targets |-> TokenView(t)] = [t \in Store!Targets |-> Store!NoToken]
      BY StoreTargets, Kinds DEF TokenInit, TokenView, Store!NoToken
    <2>2. ~ Applied
      BY Kinds DEF TokenInit, Applied
    <2>3. Applied = FALSE /\ (run # 0) = FALSE /\ made.ns = 0 /\ ns = 0
      BY <2>2 DEF TokenInit, Applied
    <2> QED BY <2>1, <2>3 DEF Store!StoreInit
  <1>2. TypesOK /\ AccountsKept /\ TargetsKept /\ [TokenSystem \/ TokenEnvironment]_tokenVars
        => [Store!StoreNext]_(Store!storeVars)
    <2> SUFFICES ASSUME TypesOK, AccountsKept, TargetsKept,
                        [TokenSystem \/ TokenEnvironment]_tokenVars
                 PROVE  Store!StoreNext \/ UNCHANGED Store!storeVars
      OBVIOUS
    <2> DEFINE view == [t \in Targets |-> View(obj[t])]
               view1 == [t \in Targets |-> View(obj'[t])]
    <2>0. /\ made \in Counters /\ made.ns \in Nat /\ made.run \in Nat
          /\ ns \in {0, made.ns} /\ run \in {0, made.run}
          /\ \A o \in Objects : Valid(o, obj[o], made)
          /\ Targets \subseteq Objects /\ SA \in Objects /\ Pipeline \in Objects
          /\ SA \notin Targets /\ Pipeline \notin Targets /\ SA # Pipeline
      BY Kinds DEF TypesOK, Counters
    <2>1. /\ [t \in Targets |-> TokenView(t)] = view
          /\ [t \in Targets |-> TokenView(t)]' = view1
      BY DEF TokenView, View
    <2>2. ASSUME NEW r, obj[Pipeline] # None, r \in obj[Pipeline].owners
          PROVE  r \in Positive /\ r <= made.run
      <3>1. obj[Pipeline] \in TypeOf(Pipeline) /\ r <= made.run
        BY <2>0, <2>2 DEF Valid
      <3> QED BY <2>2, <3>1 DEF TypeOf
    <2>3. Applied \in BOOLEAN /\ Applied' \in BOOLEAN
      BY DEF Applied
    <2>4. CASE CreateNamespace
      <3>1. made'.ns = made.ns + 1
        BY <2>0, <2>4 DEF CreateNamespace, Counters
      <3>2. view1 = view /\ Applied' = Applied /\ (run # 0)' = (run # 0)
        BY <2>3, <2>4 DEF CreateNamespace, Applied
      <3>3. Store!CreateNamespace
        BY <2>1, <2>4, <3>1, <3>2 DEF Store!CreateNamespace, CreateNamespace
      <3> QED BY <3>3 DEF Store!StoreNext
    <2>5. CASE DeleteNamespace
      <3>1. \A o \in Objects : obj'[o] = None
        BY <2>5 DEF DeleteNamespace
      <3>2. view1 = [t \in Store!Targets |-> Store!NoToken]
        BY <2>0, <3>1, StoreTargets DEF View, Store!NoToken
      <3>3. Applied' = FALSE /\ (run # 0)' = FALSE
        BY <2>0, <2>3, <2>5, <3>1 DEF Applied, DeleteNamespace
      <3>4. Store!DeleteNamespace
        BY <2>1, <2>5, <3>2, <3>3 DEF Store!DeleteNamespace, DeleteNamespace
      <3> QED BY <3>4 DEF Store!StoreNext
    <2>6. CASE CreateRun
      <3>1. run = 0 /\ run' = made.run + 1 /\ made'.ns = made.ns /\ obj' = obj /\ ns # 0 /\ ns' = ns
        BY <2>0, <2>6 DEF CreateRun, Counters
      <3>2. ~ Applied /\ ~ Applied'
        <4>1. ASSUME obj[Pipeline] # None
              PROVE  0 \notin obj[Pipeline].owners /\ made.run + 1 \notin obj[Pipeline].owners
          <5>1. \A r \in obj[Pipeline].owners : r \in Positive /\ r <= made.run
            BY <2>2, <4>1
          <5> QED BY <2>0, <5>1 DEF Positive
        <4> QED BY <3>1, <4>1 DEF Applied
      <3>3. view1 = view /\ Applied' = Applied /\ (run # 0)' = TRUE /\ ~ (run # 0)
        BY <2>0, <2>3, <3>1, <3>2
      <3>4. Store!CreateRun
        BY <2>1, <3>1, <3>3 DEF Store!CreateRun
      <3> QED BY <3>4 DEF Store!StoreNext
    <2>7. CASE DeleteRun
      <3>1. run # 0 /\ run' = 0 /\ obj' = obj /\ UNCHANGED <<ns, made>>
        BY <2>7 DEF DeleteRun
      <3>2. ~ Applied'
        BY <2>2, <3>1 DEF Applied, Positive
      <3>3. view1 = view /\ Applied' = FALSE /\ (run # 0)' = FALSE /\ run # 0
        BY <2>3, <3>1, <3>2
      <3>4. Store!DeleteRun
        BY <2>1, <3>1, <3>3 DEF Store!DeleteRun
      <3> QED BY <3>4 DEF Store!StoreNext
    <2>8. ASSUME UNCHANGED <<ns, run, made>>,
                 \A o \in Objects : o # SA => obj'[o] = obj[o]
          PROVE  UNCHANGED Store!storeVars
      <3>1. Applied' <=> Applied
        BY <2>0, <2>8 DEF Applied
      <3>2. \A t \in Targets : View(obj'[t]) = View(obj[t])
        BY <2>0, <2>8
      <3> QED BY <2>8, <3>1, <3>2, StutterStep
    <2>9. CASE AddTokenSecret
      BY <2>0, <2>8, <2>9 DEF AddTokenSecret, TypesOK
    <2>10. CASE PersistServiceAccount
      <3>1. UNCHANGED made
        BY <2>10 DEF PersistServiceAccount
      <3> QED BY <2>8, <2>10, <3>1, AccountSteps
    <2>11. ASSUME NEW o \in Objects, Collect(o)
           PROVE  Store!StoreNext \/ UNCHANGED Store!storeVars
      <3>1. /\ UNCHANGED <<ns, run, made>> /\ obj[o] # None /\ obj'[o] = None
            /\ \A q \in Objects : q # o => obj'[q] = obj[q]
            /\ ~ Owns(obj[o], run)
        BY <2>11 DEF Collect, TypesOK, Owns
      <3>2. CASE o = SA
        BY <2>8, <3>1, <3>2
      <3>3. CASE o = Pipeline
        <4>1. ~ Applied /\ ~ Applied'
          BY <3>1, <3>3 DEF Applied, Owns
        <4>2. \A t \in Targets : View(obj'[t]) = View(obj[t])
          BY <2>0, <3>1, <3>3
        <4> QED BY <3>1, <4>1, <4>2, StutterStep
      <3>4. CASE o \in Targets
        <4>1. ~ Applied /\ ~ Applied'
          BY <2>0, <3>1, <3>4 DEF TargetsKept, Applied
        <4>2. view1 = [view EXCEPT ![o] = Store!NoToken]
          BY <2>0, <3>1, <3>4 DEF View, Store!NoToken
        <4>3. view[o] # Store!NoToken
          BY <2>0, <3>1, <3>4, ViewToken
        <4>4. Applied' = Applied /\ (run # 0)' = (run # 0)
          BY <2>3, <3>1, <4>1
        <4> HIDE DEF view, view1
        <4>5. Store!Remove(o)
          BY <2>1, <3>1, <4>1, <4>2, <4>3, <4>4 DEF Store!Remove
        <4> QED BY <3>4, <4>5, StoreTargets DEF Store!StoreNext
      <3> QED BY <3>2, <3>3, <3>4, Kinds
    <2>12. CASE Persist
      <3>0. /\ op.pc = "persist" /\ UNCHANGED made
            /\ \A o \in Objects \ {SA} : /\ Valid(o, op.new[o], made)
                                         /\ Prepared(o, op.copy[o], op.new[o], op.run)
        BY <2>12 DEF Persist, TypesOK, OpOK
      <3>1. CASE UNCHANGED <<ns, run, obj>>
        BY <2>8, <3>0, <3>1
      <3>2. ASSUME UNCHANGED <<ns, run>>,
                   obj[Pipeline] = op.copy[Pipeline], obj'[Pipeline] = op.new[Pipeline],
                   \A q \in Objects : q # Pipeline => obj'[q] = obj[q],
                   \A t \in Targets : t \notin op.todo
            PROVE  Store!StoreNext \/ UNCHANGED Store!storeVars
        <4>1. /\ obj'[Pipeline] # None
              /\ obj'[Pipeline].owners = obj[Pipeline].owners \cup {op.run}
          BY <2>0, <3>0, <3>2 DEF Prepared
        <4>2. \A t \in Targets : View(obj'[t]) = View(obj[t])
          BY <2>0, <3>2
        <4>3. CASE Applied \/ run # op.run
          <5>1. obj[Pipeline] = None => obj[Pipeline].owners = {}
            BY DEF None
          <5>2. Applied' <=> Applied
            BY <3>2, <4>1, <4>3, <5>1 DEF Applied
          <5> QED BY <3>0, <3>2, <4>2, <5>2, StutterStep
        <4>4. CASE ~ Applied /\ run = op.run
          <5>1. run # 0
            BY <3>0, <4>4 DEF TypesOK, OpOK, Positive
          <5>2. Applied'
            BY <3>2, <4>1, <4>4 DEF Applied
          <5>3. view1 = view /\ Applied' = TRUE /\ (run # 0)' = (run # 0)
            BY <2>3, <3>2, <4>2, <5>2
          <5>4. \A t \in Targets : view[t] # Store!NoToken
            BY <2>0, <3>0, <3>2, <4>4, ViewToken DEF TargetsKept, Owns
          <5> HIDE DEF view, view1
          <5>5. Store!Apply
            BY <2>1, <3>0, <3>2, <4>4, <5>1, <5>3, <5>4, StoreTargets DEF Store!Apply
          <5> QED BY <5>5 DEF Store!StoreNext
        <4> QED BY <4>3, <4>4
      <3>3. ASSUME NEW o \in Targets, ns # 0, UNCHANGED <<ns, run>>,
                   obj[o] = op.copy[o], obj'[o] = op.new[o],
                   \A q \in Objects : q # o => obj'[q] = obj[q]
            PROVE  Store!StoreNext \/ UNCHANGED Store!storeVars
        <4>0. /\ o \in Objects \ {SA} /\ Prepared(o, obj[o], obj'[o], op.run)
              /\ obj'[o] # None /\ Valid(o, obj'[o], made)
          BY <2>0, <3>0, <3>3 DEF Prepared
        <4>1. Applied' <=> Applied
          BY <2>0, <3>3 DEF Applied
        <4>2. CASE obj[o] # None
          <5>1. View(obj'[o]) = View(obj[o])
            BY <4>0, <4>2, <3>3 DEF Prepared, View
          <5>2. \A t \in Targets : View(obj'[t]) = View(obj[t])
            BY <2>0, <3>3, <5>1
          <5> QED BY <3>0, <3>3, <4>1, <5>2, StutterStep
        <4>3. CASE obj[o] = None
          <5> DEFINE n == obj'[o].token.context
          <5>1. n \in 1..ns
            <6>1. n \in Positive /\ n <= made.ns
              BY <3>3, <4>0, TargetFields DEF Valid, TokenType
            <6> QED BY <2>0, <3>3, <6>1 DEF Positive
          <5>2. View(obj'[o]) = Store!Token(n, o[2])
            BY <3>3, <4>0, ViewToken
          <5>3. view1 = [view EXCEPT ![o] = Store!Token(n, o[2])]
            BY <2>0, <3>3, <5>2
          <5>4. view[o] = Store!NoToken
            BY <3>3, <4>3 DEF View, Store!NoToken
          <5>5. ~ Applied
            BY <3>3, <4>3 DEF TargetsKept, Owns
          <5>6. Applied' = Applied /\ (run # 0)' = (run # 0)
            BY <2>3, <3>3, <4>1
          <5> HIDE DEF view, view1, n
          <5>7. Store!Issue(o)
            BY <2>1, <3>0, <3>3, <5>1, <5>3, <5>4, <5>5, <5>6 DEF Store!Issue
          <5> QED BY <3>3, <5>7, StoreTargets DEF Store!StoreNext
        <4> QED BY <4>2, <4>3
      <3> QED BY <2>12, <3>1, <3>2, <3>3, PersistSteps
    <2>13. CASE UNCHANGED <<ns, run, obj, made>>
      BY <2>8, <2>13
    <2> QED BY <2>4, <2>5, <2>6, <2>7, <2>9, <2>10, <2>11, <2>12, <2>13
            DEF TokenSystem, TokenEnvironment, ReconcileStep, RunEvent, NamespaceEvent,
                Reconcile, LoadDeps, LoadTimeout, LoadPipeline, Fail, tokenVars
  <1> QED BY <1>1, <1>2, TypesCorrect, ObjectsKept, PTL
          DEF TokenSpec, ImplementsTokenStore, Store!StoreSpec

-----------------------------------------------------------------------------
(* Runs are not forgotten *)

\* The operator has something to do for the run: it is in the work queue, its
\* event is still to come, or a reconciliation is working for it.
WorkLeft == queued \/ cache.run # run \/ (op.pc # "idle" /\ op.run = run)

\* A run is applied or there is work left to do for it: when the operator rests
\* and has seen the run, its Pipeline is there.  (What is to happen then does, in
\* fair behaviours: RunApplied.)
RunRemembered == run # 0 => Applied \/ WorkLeft

\* What the Pipeline becomes when it is written: it keeps its owners and the run
\* of the reconciliation is one of them.
LEMMA PipelineWritten ==
    ASSUME TypesOK, op.pc = "persist", obj[Pipeline] = op.copy[Pipeline],
           obj'[Pipeline] = op.new[Pipeline]
    PROVE  /\ Owns(obj'[Pipeline], op.run)
           /\ \A r : Owns(obj[Pipeline], r) => Owns(obj'[Pipeline], r)
  <1>1. Pipeline \in Objects \ {SA}
    BY Kinds
  <1>2. Prepared(Pipeline, op.copy[Pipeline], op.new[Pipeline], op.run)
    BY <1>1 DEF TypesOK, OpOK
  <1> QED BY <1>2 DEF Prepared, Owns

\* No error, conflict, stale cache or deletion makes the operator forget a run
\* (Return, RunEvent, Reconcile): whatever ends a reconciliation of the present
\* run early puts it back into the queue, and one of an earlier run of the same
\* name leaves the event of the present one to come, or queued.
THEOREM RunNotForgotten == TokenSpec => []RunRemembered
  <1>1. TokenInit => RunRemembered
    BY DEF TokenInit, RunRemembered
  <1>2. TypesOK /\ RunRemembered /\ [TokenSystem \/ TokenEnvironment]_tokenVars => RunRemembered'
    <2> SUFFICES ASSUME TypesOK, RunRemembered, [TokenSystem \/ TokenEnvironment]_tokenVars,
                        run' # 0
                 PROVE  Applied' \/ WorkLeft'
      BY DEF RunRemembered
    <2>0. /\ made.run \in Nat /\ cache.run \in Nat /\ cache.run <= made.run
          /\ op.pc = "idle" => op = Idle
          /\ Pipeline \in Objects /\ SA \in Objects /\ SA # Pipeline
          /\ obj = [o \in Objects |-> obj[o]]
      BY Kinds DEF TypesOK, OpOK, Counters
    <2>1. CASE queued'
      BY <2>1 DEF WorkLeft
    <2>2. CASE UNCHANGED <<run, queued, op, cache>> /\ obj'[Pipeline] = obj[Pipeline]
      BY <2>2 DEF RunRemembered, WorkLeft, Applied
    <2>3. CASE CreateRun
      <3>1. run' = made.run + 1 /\ cache' = cache
        BY <2>3 DEF CreateRun
      <3> QED BY <2>0, <3>1 DEF WorkLeft
    <2>4. CASE NamespaceEvent
      <3>1. cache'.run = cache.run
        BY <2>4 DEF NamespaceEvent, TypesOK, Counters
      <3> QED BY <2>4, <3>1 DEF NamespaceEvent, RunRemembered, WorkLeft, Applied
    <2>5. ASSUME NEW o \in Objects, Collect(o) PROVE Applied' \/ WorkLeft'
      <3>1. CASE o = Pipeline
        BY <2>5, <3>1 DEF Collect, RunRemembered, WorkLeft, Applied
      <3>2. CASE o # Pipeline
        BY <2>0, <2>2, <2>5, <3>2 DEF Collect
      <3> QED BY <3>1, <3>2
    <2>6. CASE AddTokenSecret
      BY <2>0, <2>2, <2>6 DEF AddTokenSecret
    <2>7. CASE Reconcile
      <3>1. /\ UNCHANGED <<run, cache, obj>>
            /\ op' = IF cache.run = 0 THEN Idle ELSE [pc |-> "deps", run |-> cache.run]
        BY <2>7 DEF Reconcile
      <3>2. CASE cache.run = run
        <4>1. op'.pc = "deps" /\ op'.run = run'
          BY <3>1, <3>2
        <4> QED BY <4>1 DEF WorkLeft
      <3>3. CASE cache.run # run
        BY <3>1, <3>3 DEF WorkLeft
      <3> QED BY <3>2, <3>3
    <2>8. CASE /\ UNCHANGED <<run, queued, cache>> /\ obj'[Pipeline] = obj[Pipeline]
               /\ op'.pc # "idle" /\ op'.run = op.run /\ op.pc # "idle"
      BY <2>8 DEF RunRemembered, WorkLeft, Applied
    <2>9. CASE LoadDeps
      <3>1. CASE Return(TRUE)
        BY <2>1, <3>1, Zenon DEF Return
      <3>2. CASE UNCHANGED queued /\ op' = [pc |-> "sa", run |-> op.run, ns |-> cache.ns, sa |-> obj[SA]]
        BY <2>8, <2>9, <3>2 DEF LoadDeps
      <3> QED BY <2>9, <3>1, <3>2 DEF LoadDeps
    <2>10. CASE PersistServiceAccount
      <3>1. CASE Return(TRUE)
        BY <2>1, <3>1, Zenon DEF Return
      <3>2. CASE UNCHANGED queued /\ ~Return(TRUE)
        <4>0. /\ op' = [pc |-> "pipeline", run |-> op.run, ns |-> op.ns]
              /\ \E x : obj' = [obj EXCEPT ![SA] = x]
          BY <2>10, <3>2, Zenon DEF PersistServiceAccount
        <4>1. op'.pc = "pipeline" /\ op'.run = op.run /\ obj'[Pipeline] = obj[Pipeline]
          BY <2>0, <4>0
        <4> QED BY <2>8, <2>10, <3>2, <4>1 DEF PersistServiceAccount
      <3> QED BY <2>10, <3>1, <3>2 DEF PersistServiceAccount
    <2>11. CASE LoadPipeline
      <3>1. CASE Return(TRUE)
        BY <2>1, <3>1, Zenon DEF Return
      <3>2. CASE ~Return(TRUE)
        <4>1. /\ op' = [pc |-> "persist", run |-> op.run, todo |-> Objects \ {SA},
                        copy |-> LoadedPipeline,
                        new |-> ConfiguredPipeline(LoadedPipeline, obj[SA].created)]
              /\ UNCHANGED queued
          BY <2>11, <3>2, Zenon DEF LoadPipeline
        <4>2. op'.pc = "persist" /\ op'.run = op.run
          BY <4>1
        <4> QED BY <2>8, <2>11, <4>1, <4>2 DEF LoadPipeline
      <3> QED BY <3>1, <3>2
    <2>12. CASE Persist
      <3>1. CASE Return(TRUE)
        BY <2>1, <3>1, Zenon DEF Return
      <3>2. CASE ~Return(TRUE)
        <4>1. PICK o \in op.todo :
                 /\ Accepts(o, op.copy[o])
                 /\ obj' = [obj EXCEPT ![o] = op.new[o]]
                 /\ IF o = Pipeline THEN Return(FALSE)
                    ELSE op' = [op EXCEPT !.todo = @ \ {o}] /\ UNCHANGED queued
          BY <2>12, <3>2 DEF Persist
        <4>2. /\ op.pc = "persist" /\ UNCHANGED <<run, cache>>
              /\ op = [pc |-> "persist", run |-> op.run, todo |-> op.todo, copy |-> op.copy,
                       new |-> op.new]
          BY <2>12 DEF Persist, TypesOK, OpOK
        <4>3. CASE o = Pipeline
          <5>1. obj[Pipeline] = op.copy[Pipeline] /\ obj'[Pipeline] = op.new[Pipeline]
            BY <2>0, <4>1, <4>3 DEF Accepts
          <5>2. /\ Owns(obj'[Pipeline], op.run)
                /\ \A r : Owns(obj[Pipeline], r) => Owns(obj'[Pipeline], r)
            BY <4>2, <5>1, PipelineWritten
          <5>3. queued => queued'
            BY <4>1, <4>3, Zenon DEF Return
          <5> QED BY <4>2, <5>2, <5>3 DEF RunRemembered, WorkLeft, Applied, Owns
        <4>4. CASE o # Pipeline
          <5>1. obj'[Pipeline] = obj[Pipeline] /\ queued' = queued
            BY <2>0, <4>1, <4>4
          <5>2. op'.pc = "persist" /\ op'.run = op.run
            BY <4>1, <4>2, <4>4
          <5> QED BY <2>8, <4>2, <5>1, <5>2
        <4> QED BY <4>3, <4>4
      <3> QED BY <3>1, <3>2
    <2>13. CASE RunEvent \/ LoadTimeout \/ Fail
      BY <2>1, <2>13 DEF RunEvent, LoadTimeout, Fail, Return
    <2>14. CASE CreateNamespace \/ UNCHANGED tokenVars
      BY <2>2, <2>14 DEF CreateNamespace, tokenVars
    <2>15. CASE DeleteNamespace \/ DeleteRun
      BY <2>15 DEF DeleteNamespace, DeleteRun
    <2> QED BY <2>3, <2>4, <2>5, <2>6, <2>7, <2>9, <2>10, <2>11, <2>12, <2>13, <2>14, <2>15
            DEF TokenSystem, TokenEnvironment, ReconcileStep
  <1> QED BY <1>1, <1>2, TypesCorrect, PTL DEF TokenSpec
=============================================================================
