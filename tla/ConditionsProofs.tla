--------------------------- MODULE ConditionsProofs ---------------------------
(***************************************************************************)
(* Proofs about Conditions, for every evaluator that satisfies the laws of *)
(* ConditionLaws: what the API answers from references that were read one  *)
(* by one, while outputs and answers arrived, is right about all of them.  *)
(***************************************************************************)
EXTENDS ConditionLaws, TLAPS

-----------------------------------------------------------------------------
(* The inductive invariant *)

\* The map hi has all that lo has.
Extension(lo, hi) == DOMAIN lo \subseteq DOMAIN hi /\ \A key \in DOMAIN lo : hi[key] = lo[key]

\* The reads of all references in a tree that may precede the map cm: each found
\* what cm has, or nothing.
Readings(w, what, tree, cm) == {Known(w, what, tree, cm, S) : S \in SUBSET RefsOf(tree)}

\* The ConfigMaps: the immutable one is what the operator configured, and the
\* mutable one has what was written.
MapsInv ==
    /\ run \in {"accepted", "failing", "crashing", "applied"} => Decoded(workflow)
    /\ run = "applied" => workflow \in Ready /\ immutable = Data(workflow)
    /\ mutable \in Maps(workflow)

\* A request evaluates a tree of its endpoint and has read references in it.
RequestInv ==
    req # Idle =>
        /\ run = "applied" /\ pod \in {"polling", "passed"}
        /\ pod = "polling" <=> req.what = "conditions"
        /\ req = [what |-> req.what, reads |-> req.reads, tree |-> req.tree]
        /\ req.what \in Endpoints /\ req.tree \in Served(workflow, req.what)
        /\ DOMAIN req.reads \subseteq RefsOf(req.tree)
        /\ req.reads = [tm \in DOMAIN req.reads |-> req.reads[tm]]

\* As long as nothing is replaced, what a request has read is what the mutable
\* ConfigMap has now, or it was not there when it was read.
ReadsCurrent ==
    req # Idle /\ ~overwritten =>
        \A tm \in DOMAIN req.reads :
            req.reads[tm] \in {NotFound, Read(workflow, req.what, mutable, tm)}

\* The map from which a poll began is still part of the present one.
PolledInv ==
    polled # <<>> =>
        /\ run = "applied"
        /\ polled = <<polled[1]>> /\ polled[1] \in Maps(workflow)
        /\ ~overwritten => Extension(polled[1], mutable)

\* A poll misses nothing that was there when it began.
PollInv ==
    pod = "polling" =>
        /\ req # Idle /\ polled # <<>>
        /\ ~overwritten =>
              \A tm \in DOMAIN req.reads :
                  req.reads[tm] = NotFound => Read(workflow, "conditions", polled[1], tm) = NotFound

\* The answer to the conditions, given reads.
AnswerIs(answer, w, tree, reads) == GetConditions(Eval(w, "conditions", tree, reads)) = answer

\* A poll that ended the script had the answer from reads that are still right.
Answers(answer) ==
    \E tree \in Served(workflow, "conditions") :
        \E reads \in Readings(workflow, "conditions", tree, mutable) :
            AnswerIs(answer, workflow, tree, reads)

\* A script that has not ended has an iteration left, and a condition to ask for.
ScriptInv ==
    /\ pod \in {"none", "waiting", "polling"} => polls < MaxPolls
    /\ pod = "waiting" => Served(workflow, "conditions") # {}

\* How the step was decided.
OutcomeInv ==
    /\ pod # "none" => run = "applied"
    /\ pod = "passed" /\ ~overwritten => Served(workflow, "conditions") = {} \/ Answers("true")
    /\ pod = "failed" /\ ~overwritten => Answers("false")
    /\ pod = "expired" /\ ~overwritten /\ polled # <<>> =>
          \E tree \in Served(workflow, "conditions") :
              \E reads \in Readings(workflow, "conditions", tree, mutable) :
                  /\ AnswerIs("error", workflow, tree, reads)
                  /\ \A tm \in RefsOf(tree) :
                        reads[tm] = NotFound =>
                            Read(workflow, "conditions", polled[1], tm) = NotFound

\* What an endpoint told of a tree follows from reads that are still right.
Said(what, v) == IF what = "variable" THEN v ELSE JSONForm(v)
ToldOf(what) ==
    what \in DOMAIN got /\ got[what].complete =>
        \E tree \in Served(workflow, what) :
            \E reads \in Readings(workflow, what, tree, mutable) :
                /\ Complete(Eval(workflow, what, tree, reads))
                /\ got[what].value = Said(what, Eval(workflow, what, tree, reads).v)

\* So does the state it told.
ToldState ==
    "state" \in DOMAIN got /\ got["state"].complete =>
        /\ stateKey(Name(workflow), got["state"].key) \in DOMAIN mutable
        /\ got["state"].value = JSONForm(mutable[stateKey(Name(workflow), got["state"].key)])

GotInv ==
    /\ DOMAIN got # {} => pod = "passed"
    /\ ~overwritten => ToldState /\ \A what \in {"spec", "environment", "variable"} : ToldOf(what)

IInv ==
    /\ TypeOK /\ MapsInv /\ RequestInv /\ ReadsCurrent /\ PolledInv /\ PollInv
    /\ ScriptInv /\ OutcomeInv /\ GotInv

-----------------------------------------------------------------------------
(* Reads *)

\* A key of a map that grows keeps its value.
LEMMA KVGetGrows ==
    ASSUME NEW lo, NEW hi, Extension(lo, hi), NEW key
    PROVE  KVGet(lo, key) \in {NotFound, KVGet(hi, key)}
BY DEF Extension, KVGet

\* What a store has beside the mutable ConfigMap does not depend on it.
LEMMA StoreParts ==
    ASSUME NEW w, NEW im, NEW lo, NEW hi
    PROVE  /\ StoreOf(w, im, lo).mutable = lo /\ StoreOf(w, im, hi).mutable = hi
           /\ StoreOf(w, im, lo).immutable = StoreOf(w, im, hi).immutable
           /\ StoreOf(w, im, lo).vault = StoreOf(w, im, hi).vault
           /\ StoreOf(w, im, lo).hasVault = StoreOf(w, im, hi).hasVault
           /\ StoreOf(w, im, lo).isStep = StoreOf(w, im, hi).isStep
BY DEF StoreOf

\* An endpoint's managers reject the same types whatever was written.
LEMMA SameRejected ==
    ASSUME NEW w, NEW im, NEW lo, NEW hi, NEW what
    PROVE  RejectedTypes(StoreOf(w, im, lo), what) = RejectedTypes(StoreOf(w, im, hi), what)
BY StoreParts DEF RejectedTypes

\* So the environment of an evaluation depends on the reads alone.
LEMMA SameEnv ==
    ASSUME NEW w, NEW im, NEW lo, NEW hi, NEW what, NEW reads
    PROVE  Env(StoreOf(w, im, lo), what, reads) = Env(StoreOf(w, im, hi), what, reads)
BY SameRejected DEF Env

\* A reference that was found keeps its value when the mutable ConfigMap grows.
LEMMA ReadGrows ==
    ASSUME NEW w, NEW what, NEW lo, NEW hi, Extension(lo, hi), NEW tm,
           Resolvers[what] \subseteq {"Parameter", "Secret", "Output", "Answer", "Connection"}
    PROVE  Read(w, what, lo, tm) \in {NotFound, Read(w, what, hi, tm)}
<1> DEFINE l == StoreOf(w, Data(w), lo)
           h == StoreOf(w, Data(w), hi)
<1>1. l.mutable = lo /\ h.mutable = hi /\ l.immutable = h.immutable /\ l.vault = h.vault
  BY StoreParts
<1>2. RejectedTypes(l, what) = RejectedTypes(h, what)
  BY SameRejected
<1>3. ResolveParameter(l, tm) = ResolveParameter(h, tm)
  BY <1>1 DEF ResolveParameter, ParameterManagerGet
<1>4. ResolveOutput(l, tm) \in {NotFound, ResolveOutput(h, tm)}
  BY <1>1, KVGetGrows DEF ResolveOutput, StepOutputManagerGet
<1>5. ResolveAnswer(l, Name(w), tm) \in {NotFound, ResolveAnswer(h, Name(w), tm)}
  BY <1>1, KVGetGrows DEF ResolveAnswer, StateManagerGet
<1>6. ResolveSecret(l, tm) = ResolveSecret(h, tm)
  BY <1>1 DEF ResolveSecret
<1>7. ResolveConnection(l, tm) = ResolveConnection(h, tm)
  BY <1>1 DEF ResolveConnection
<1> HIDE DEF l, h
<1>8. Resolve(l, Name(w), what, tm) \in {NotFound, Resolve(h, Name(w), what, tm)}
  BY <1>2, <1>3, <1>4, <1>5, <1>6, <1>7 DEF Resolve
<1> QED
  BY <1>8 DEF Read, l, h

\* Every endpoint resolves types that have a manager.
LEMMA ResolversKnown ==
    ASSUME NEW what \in Endpoints
    PROVE  Resolvers[what] \subseteq {"Parameter", "Secret", "Output", "Answer", "Connection"}
BY DEF Endpoints, Resolvers

\* Reads of all references, each of what a map has or of nothing, are readings
\* of that map, and conversely.
LEMMA ReadingsAre ==
    ASSUME NEW w, NEW what, NEW tree, NEW cm, NEW reads
    PROVE  reads \in Readings(w, what, tree, cm) <=>
               /\ reads = [tm \in RefsOf(tree) |-> reads[tm]]
               /\ \A tm \in RefsOf(tree) : reads[tm] \in {NotFound, Read(w, what, cm, tm)}
<1>1. ASSUME reads \in Readings(w, what, tree, cm)
      PROVE  /\ reads = [tm \in RefsOf(tree) |-> reads[tm]]
             /\ \A tm \in RefsOf(tree) : reads[tm] \in {NotFound, Read(w, what, cm, tm)}
  <2>1. PICK S \in SUBSET RefsOf(tree) : reads = Known(w, what, tree, cm, S)
    BY <1>1 DEF Readings
  <2> QED
    BY <2>1 DEF Known
<1>2. ASSUME reads = [tm \in RefsOf(tree) |-> reads[tm]],
             \A tm \in RefsOf(tree) : reads[tm] \in {NotFound, Read(w, what, cm, tm)}
      PROVE  reads \in Readings(w, what, tree, cm)
  <2> DEFINE S == {tm \in RefsOf(tree) : reads[tm] = Read(w, what, cm, tm)}
  <2>1. \A tm \in RefsOf(tree) :
            reads[tm] = IF tm \in S THEN Read(w, what, cm, tm) ELSE NotFound
    BY <1>2
  <2>2. reads = Known(w, what, tree, cm, S)
    BY <1>2, <2>1 DEF Known
  <2> QED
    BY <2>2 DEF Readings
<1> QED
  BY <1>1, <1>2

\* The readings of a map are readings of every map that it grows to.
LEMMA ReadingsGrow ==
    ASSUME NEW w, NEW what \in Endpoints, NEW tree, NEW lo, NEW hi, Extension(lo, hi)
    PROVE  Readings(w, what, tree, lo) \subseteq Readings(w, what, tree, hi)
<1> SUFFICES ASSUME NEW reads \in Readings(w, what, tree, lo)
             PROVE  reads \in Readings(w, what, tree, hi)
  OBVIOUS
<1>1. /\ reads = [tm \in RefsOf(tree) |-> reads[tm]]
      /\ \A tm \in RefsOf(tree) : reads[tm] \in {NotFound, Read(w, what, lo, tm)}
  BY ReadingsAre
<1>2. \A tm \in RefsOf(tree) : Read(w, what, lo, tm) \in {NotFound, Read(w, what, hi, tm)}
  BY ReadGrows, ResolversKnown
<1>3. \A tm \in RefsOf(tree) : reads[tm] \in {NotFound, Read(w, what, hi, tm)}
  BY <1>1, <1>2
<1> QED
  BY <1>1, <1>3, ReadingsAre

\* The reads of everything at once.
Full(w, what, tree, cm) == Known(w, what, tree, cm, RefsOf(tree))

\* They find in each place what the map has.
LEMMA FullReads ==
    ASSUME NEW w, NEW what, NEW tree, NEW cm
    PROVE  /\ Full(w, what, tree, cm) \in Readings(w, what, tree, cm)
           /\ \A tm \in RefsOf(tree) : Full(w, what, tree, cm)[tm] = Read(w, what, cm, tm)
BY DEF Full, Readings, Known

\* Of two readings of a map, of which the second finds all that the first one
\* finds, the second completes nothing differently and mends no error.
LEMMA MoreReads ==
    ASSUME NEW w \in Ready, NEW what \in Endpoints, NEW tree \in Served(w, what),
           NEW part \in Parts(tree), NEW cm \in Maps(w),
           NEW few \in Readings(w, what, tree, cm), NEW more \in Readings(w, what, tree, cm),
           \A tm \in RefsOf(tree) : more[tm] = NotFound => few[tm] = NotFound
    PROVE  /\ Complete(Eval(w, what, part, few)) =>
                  Eval(w, what, part, more) = Eval(w, what, part, few)
           /\ ~Eval(w, what, part, few).ok => ~Eval(w, what, part, more).ok
<1> DEFINE T == {tm \in RefsOf(tree) : more[tm] = Read(w, what, cm, tm)}
           S == {tm \in RefsOf(tree) : few[tm] # NotFound}
<1>1. /\ few = [tm \in RefsOf(tree) |-> few[tm]] /\ more = [tm \in RefsOf(tree) |-> more[tm]]
      /\ \A tm \in RefsOf(tree) : few[tm] \in {NotFound, Read(w, what, cm, tm)}
      /\ \A tm \in RefsOf(tree) : more[tm] \in {NotFound, Read(w, what, cm, tm)}
  BY ReadingsAre
<1>2. S \in SUBSET T /\ T \in SUBSET RefsOf(tree)
  BY <1>1
<1>3. \A tm \in RefsOf(tree) : few[tm] = IF tm \in S THEN Read(w, what, cm, tm) ELSE NotFound
  BY <1>1
<1>4. \A tm \in RefsOf(tree) : more[tm] = IF tm \in T THEN Read(w, what, cm, tm) ELSE NotFound
  BY <1>1
<1>5. few = Known(w, what, tree, cm, S)
  BY <1>1, <1>3 DEF Known
<1>6. more = Known(w, what, tree, cm, T)
  BY <1>1, <1>4 DEF Known
<1> HIDE DEF S, T
<1> QED
  BY <1>2, <1>5, <1>6, MonotoneLaw

\* What is complete, or in error, from some reads is so from all of them.
LEMMA FullAgrees ==
    ASSUME NEW w \in Ready, NEW what \in Endpoints, NEW tree \in Served(w, what),
           NEW part \in Parts(tree), NEW cm \in Maps(w),
           NEW reads \in Readings(w, what, tree, cm)
    PROVE  /\ Complete(Eval(w, what, part, reads)) =>
                  Eval(w, what, part, Full(w, what, tree, cm)) = Eval(w, what, part, reads)
           /\ ~Eval(w, what, part, reads).ok => ~Eval(w, what, part, Full(w, what, tree, cm)).ok
<1>1. \A tm \in RefsOf(tree) : reads[tm] \in {NotFound, Read(w, what, cm, tm)}
  BY ReadingsAre
<1>2. \A tm \in RefsOf(tree) : Full(w, what, tree, cm)[tm] = NotFound => reads[tm] = NotFound
  BY <1>1, FullReads
<1> QED
  BY <1>2, FullReads, MoreReads

-----------------------------------------------------------------------------
(* Answers *)

\* The tags of trees and meanings tell them apart.
LEMMA Tags ==
    /\ Bool(TRUE) # Bool(FALSE)
    /\ Bool(TRUE).k = "bool" /\ Bool(FALSE).k = "bool"
    /\ \A l : List(l).k = "list" /\ List(l).l = l /\ ~IsBool(List(l))
    /\ \A v : Value(v).k = "value" /\ Value(v).v = v
    /\ \A v : Value(v) # Error /\ Value(v) # Unknown
    /\ Error # Unknown /\ Error.k # "value" /\ Unknown.k # "value"
<1>1. Bool(TRUE).b = TRUE /\ Bool(FALSE).b = FALSE
  BY Zenon DEF Bool
<1>2. Bool(TRUE) # Bool(FALSE)
  BY <1>1, Zenon
<1>3. Bool(TRUE).k = "bool" /\ Bool(FALSE).k = "bool"
  BY DEF Bool
<1>4. ASSUME NEW l
      PROVE  List(l).k = "list" /\ List(l).l = l /\ ~IsBool(List(l))
  <2>1. List(l).k = "list" /\ List(l).l = l
    BY DEF List
  <2> QED
    BY <2>1, <1>3 DEF IsBool
<1>5. ASSUME NEW v
      PROVE  /\ Value(v).k = "value" /\ Value(v).v = v
             /\ Value(v) # Error /\ Value(v) # Unknown
  <2>1. Value(v).k = "value" /\ Value(v).v = v /\ Error.k = "error" /\ Unknown.k = "unknown"
    BY DEF Value, Error, Unknown
  <2> QED
    BY <2>1
<1>6. Error.k = "error" /\ Unknown.k = "unknown"
  BY DEF Error, Unknown
<1> QED
  BY <1>2, <1>3, <1>4, <1>5, <1>6

\* What an answer tells of a result that is a list (ConditionManager's check of
\* each element in turn).
LEMMA ListAnswer ==
    ASSUME NEW rv, rv.ok, rv.v.k = "list"
    PROVE  LET values == rv.v.l
           IN  /\ GetConditions(rv) = "true" =>
                     Complete(rv) /\ \A i \in DOMAIN values : values[i] = Bool(TRUE)
               /\ GetConditions(rv) = "false" => \E i \in DOMAIN values : values[i] = Bool(FALSE)
               /\ GetConditions(rv) = "error" =>
                     \/ Complete(rv) /\ \E i \in DOMAIN values : ~IsBool(values[i])
                     \/ ~Complete(rv) /\ \A i \in DOMAIN values : values[i] # Bool(FALSE)
<1> DEFINE values == rv.v.l
           D      == DOMAIN values
           false  == {i \in D : values[i] = Bool(FALSE)}
           other  == {i \in D : ~IsBool(values[i]) /\ Complete(rv)}
<1>1. ~IsBool(rv.v) /\ rv.v # Bool(TRUE) /\ rv.v # Bool(FALSE)
  BY Tags DEF IsBool
<1>2. Check(rv) = CASE \E i \in other : \A j \in false : i < j -> "error"
                    [] false \cup other = {} -> "passed"
                    [] OTHER -> "failed"
  BY <1>1 DEF Check
<1>3. \/ Check(rv) = "error" /\ other # {}
      \/ Check(rv) = "passed" /\ false = {} /\ other = {}
      \/ Check(rv) = "failed" /\ false # {}
  <2>1. CASE \E i \in other : \A j \in false : i < j
    BY <1>2, <2>1
  <2>2. CASE ~(\E i \in other : \A j \in false : i < j) /\ false \cup other = {}
    BY <1>2, <2>2
  <2>3. CASE ~(\E i \in other : \A j \in false : i < j) /\ false \cup other # {}
    <3>1. Check(rv) = "failed"
      BY <1>2, <2>3
    <3>2. false # {}
      BY <2>3
    <3> QED
      BY <3>1, <3>2
  <2> QED
    BY <2>1, <2>2, <2>3
<1>4. GetConditions(rv) = CASE Check(rv) = "failed" -> "false"
                            [] Complete(rv) /\ Check(rv) = "passed" -> "true"
                            [] OTHER -> "error"
  BY DEF GetConditions
<1>5. CASE Check(rv) = "error" /\ other # {}
  <2>1. GetConditions(rv) = "error"
    BY <1>4, <1>5
  <2>2. Complete(rv) /\ \E i \in D : ~IsBool(values[i])
    BY <1>5
  <2> QED
    BY <2>1, <2>2
<1>6. CASE Check(rv) = "passed" /\ false = {} /\ other = {}
  <2>1. CASE Complete(rv)
    <3>1. GetConditions(rv) = "true"
      BY <1>4, <1>6, <2>1
    <3>2. \A i \in D : IsBool(values[i]) /\ values[i] # Bool(FALSE)
      BY <1>6, <2>1
    <3> QED
      BY <3>1, <3>2, <2>1 DEF IsBool
  <2>2. CASE ~Complete(rv)
    <3>1. GetConditions(rv) = "error"
      BY <1>4, <1>6, <2>2
    <3>2. \A i \in D : values[i] # Bool(FALSE)
      BY <1>6
    <3> QED
      BY <3>1, <3>2, <2>2
  <2> QED
    BY <2>1, <2>2
<1>7. CASE Check(rv) = "failed" /\ false # {}
  <2>1. GetConditions(rv) = "false"
    BY <1>4, <1>7
  <2> QED
    BY <2>1, <1>7
<1> QED
  BY <1>3, <1>5, <1>6, <1>7

\* The same of a condition that is a list, whose elements have the results rs.
LEMMA CheckList ==
    ASSUME NEW rs
    PROVE  LET D  == DOMAIN rs
               rv == Listed(rs)
           IN  /\ GetConditions(rv) = "true" => \A i \in D : Complete(rs[i]) /\ rs[i].v = Bool(TRUE)
               /\ GetConditions(rv) = "false" => \E i \in D : rs[i].ok /\ rs[i].v = Bool(FALSE)
               /\ GetConditions(rv) = "error" =>
                     \/ \E i \in D : ~rs[i].ok
                     \/ \E i \in D : Complete(rs[i]) /\ ~IsBool(rs[i].v)
                     \/ /\ \E i \in D : ~Complete(rs[i])
                        /\ \A i \in D : rs[i].v # Bool(FALSE)
<1> DEFINE D  == DOMAIN rs
           rv == Listed(rs)
<1>1. CASE \E i \in D : ~rs[i].ok
  <2>1. rv = Failed
    BY <1>1 DEF Listed
  <2>2. ~rv.ok
    BY <2>1 DEF Failed
  <2>3. GetConditions(rv) = "error"
    BY <2>2 DEF GetConditions, Complete
  <2> QED
    BY <1>1, <2>3
<1>2. CASE \A i \in D : rs[i].ok
  <2> DEFINE values == [i \in D |-> rs[i].v]
             unres  == UNION {rs[i].u : i \in D}
  <2>1. rv = Partial(List(values), unres)
    BY <1>2 DEF Listed
  <2>2. rv.ok /\ rv.v = List(values) /\ rv.u = unres
    BY <2>1 DEF Partial
  <2>3. rv.v.k = "list" /\ rv.v.l = values
    BY <2>2, Tags
  <2>4. DOMAIN values = D /\ \A i \in D : values[i] = rs[i].v
    OBVIOUS
  <2>5. Complete(rv) <=> \A i \in D : Complete(rs[i])
    <3>1. Complete(rv) <=> unres = {}
      BY <2>2 DEF Complete
    <3>2. unres = {} <=> \A i \in D : rs[i].u = {}
      OBVIOUS
    <3> QED
      BY <1>2, <3>1, <3>2 DEF Complete
  <2> HIDE DEF values, unres
  <2>6. /\ GetConditions(rv) = "true" => Complete(rv) /\ \A i \in D : values[i] = Bool(TRUE)
        /\ GetConditions(rv) = "false" => \E i \in D : values[i] = Bool(FALSE)
        /\ GetConditions(rv) = "error" =>
              \/ Complete(rv) /\ \E i \in D : ~IsBool(values[i])
              \/ ~Complete(rv) /\ \A i \in D : values[i] # Bool(FALSE)
    BY <2>2, <2>3, <2>4, ListAnswer
  <2> QED
    BY <1>2, <2>4, <2>5, <2>6
<1> QED
  BY <1>1, <1>2

\* The same of a condition that is not a list and was resolved; a list that it
\* turned out to be has values of its own.
LEMMA CheckValue ==
    ASSUME NEW rv, Complete(rv)
    PROVE  LET vs == Args(rv.v)
           IN  /\ GetConditions(rv) = "true" => \A i \in DOMAIN vs : vs[i] = Bool(TRUE)
               /\ GetConditions(rv) = "false" => \E i \in DOMAIN vs : vs[i] = Bool(FALSE)
               /\ GetConditions(rv) = "error" => \E i \in DOMAIN vs : ~IsBool(vs[i])
<1>1. rv.ok
  BY DEF Complete
<1>2. CASE rv.v.k = "list"
  BY <1>1, <1>2, ListAnswer DEF Args
<1>3. CASE rv.v.k # "list"
  <2>1. Args(rv.v) = <<rv.v>>
    BY <1>3 DEF Args
  <2>2. DOMAIN Args(rv.v) = {1} /\ Args(rv.v)[1] = rv.v
    BY <2>1
  <2>3. CASE rv.v = Bool(TRUE)
    <3>1. Check(rv) = "passed"
      BY <2>3, Tags DEF Check
    <3> QED
      BY <3>1, <2>2, <2>3, <1>1 DEF GetConditions
  <2>4. CASE rv.v = Bool(FALSE)
    <3>1. Check(rv) = "failed"
      BY <2>4, Tags DEF Check
    <3> QED
      BY <3>1, <2>2, <2>4, <1>1 DEF GetConditions
  <2>5. CASE ~IsBool(rv.v)
    <3>1. Check(rv) = "error"
      BY <1>3, <2>5 DEF Check, IsBool
    <3>2. GetConditions(rv) = "error"
      BY <3>1 DEF GetConditions
    <3> QED
      BY <3>2, <2>2, <2>5
  <2> QED
    BY <2>3, <2>4, <2>5 DEF IsBool
<1> QED
  BY <1>2, <1>3

\* An expression that failed, or of which something is missing and that is not
\* known to be a list, has no answer.
LEMMA CheckIncomplete ==
    ASSUME NEW rv, ~Complete(rv), rv.ok => ~IsBool(rv.v) /\ rv.v.k # "list"
    PROVE  GetConditions(rv) = "error"
<1>1. CASE ~rv.ok
  BY <1>1 DEF GetConditions
<1>2. CASE rv.ok
  <2>1. Check(rv) = "error"
    BY <1>2 DEF Check, IsBool
  <2> QED
    BY <2>1 DEF GetConditions
<1> QED
  BY <1>1, <1>2

\* The conditions of a document, from what all reads at once give.
LEMMA ListConditions ==
    ASSUME NEW w \in Ready, NEW tree \in Served(w, "conditions"), tree.k = "list", NEW cm \in Maps(w)
    PROVE  Conditional(w, cm) =
               [i \in DOMAIN tree.l |->
                   Outcome(Eval(w, "conditions", tree.l[i], Full(w, "conditions", tree, cm)))]
BY ConditionsLaw DEF ConditionOutcomes, Full

LEMMA PlainConditions ==
    ASSUME NEW w \in Ready, NEW tree \in Served(w, "conditions"), tree.k # "list", NEW cm \in Maps(w)
    PROVE  LET rv == Eval(w, "conditions", tree, Full(w, "conditions", tree, cm))
           IN  /\ Complete(rv) =>
                      Conditional(w, cm) = [i \in DOMAIN Args(rv.v) |-> Value(Args(rv.v)[i])]
               /\ ~Complete(rv) => Conditional(w, cm) = <<Outcome(rv)>>
BY ConditionsLaw DEF ConditionOutcomes, Full

\* What an outcome tells of the result.
LEMMA OutcomeIs ==
    ASSUME NEW rv
    PROVE  /\ ~rv.ok <=> Outcome(rv) = Error
           /\ \A v : Outcome(rv) = Value(v) <=> Complete(rv) /\ rv.v = v
           /\ rv.ok /\ ~Complete(rv) => Outcome(rv) = Unknown
<1>1. CASE ~rv.ok
  <2>1. Outcome(rv) = Error
    BY <1>1 DEF Outcome, Complete
  <2> QED
    BY <1>1, <2>1, Tags DEF Complete
<1>2. CASE Complete(rv)
  <2>1. rv.ok /\ Outcome(rv) = Value(rv.v)
    BY <1>2 DEF Outcome, Complete
  <2>2. \A v : Value(v) = Value(rv.v) => v = rv.v
    BY Tags
  <2> QED
    BY <1>2, <2>1, <2>2, Tags
<1>3. CASE rv.ok /\ ~Complete(rv)
  <2>1. Outcome(rv) = Unknown
    BY <1>3 DEF Outcome
  <2> QED
    BY <1>3, <2>1, Tags
<1> QED
  BY <1>1, <1>2, <1>3

\* The elements of a condition are parts of it, and it is one itself.
LEMMA PartsOf ==
    ASSUME NEW tree
    PROVE  tree \in Parts(tree) /\ (tree.k = "list" => \A i \in DOMAIN tree.l : tree.l[i] \in Parts(tree))
BY DEF Parts

\* The shape of results, for reads instead of the references that were found.
LEMMA Shapes ==
    ASSUME NEW w \in Ready, NEW tree \in Served(w, "conditions"), NEW part \in Parts(tree),
           NEW cm \in Maps(w), NEW reads \in Readings(w, "conditions", tree, cm)
    PROVE  LET rv == Eval(w, "conditions", part, reads)
           IN  /\ rv.ok /\ ~Complete(rv) => ~IsBool(rv.v) /\ (rv.v.k = "list" => part.k = "list")
               /\ part.k = "list" =>
                     rv = Listed([i \in DOMAIN part.l |-> Eval(w, "conditions", part.l[i], reads)])
<1>1. PICK S \in SUBSET RefsOf(tree) : reads = Known(w, "conditions", tree, cm, S)
  BY DEF Readings
<1> QED
  BY <1>1, ShapeLaw DEF Complete

\* The answer "true", from readings of a map, means that all conditions hold
\* with it, and "false" that one is false (GetConditions).
LEMMA ConditionsRight ==
    ASSUME NEW w \in Ready, NEW tree \in Served(w, "conditions"), NEW cm \in Maps(w),
           NEW reads \in Readings(w, "conditions", tree, cm)
    PROVE  /\ AnswerIs("true", w, tree, reads) => AllTrue(Conditional(w, cm))
           /\ AnswerIs("false", w, tree, reads) => SomeFalse(Conditional(w, cm))
<1> DEFINE E(part) == Eval(w, "conditions", part, reads)
           F(part) == Eval(w, "conditions", part, Full(w, "conditions", tree, cm))
           rv      == E(tree)
<1>1. \A part \in Parts(tree) : Complete(E(part)) => F(part) = E(part)
  BY FullAgrees DEF Endpoints
<1>2. CASE tree.k = "list"
  <2> DEFINE D  == DOMAIN tree.l
             rs == [i \in D |-> E(tree.l[i])]
  <2>1. rv = Listed(rs)
    BY <1>2, PartsOf, Shapes
  <2>2. DOMAIN rs = D /\ \A i \in D : rs[i] = E(tree.l[i])
    OBVIOUS
  <2>3. Conditional(w, cm) = [i \in D |-> Outcome(F(tree.l[i]))]
    BY <1>2, ListConditions
  <2>4. \A i \in D : Complete(E(tree.l[i])) => Outcome(F(tree.l[i])) = Value(E(tree.l[i]).v)
    BY <1>1, <1>2, PartsOf, OutcomeIs
  <2>5. \A i \in D : E(tree.l[i]).ok /\ E(tree.l[i]).v = Bool(FALSE) => Complete(E(tree.l[i]))
    BY <1>2, PartsOf, Shapes DEF IsBool
  <2> HIDE DEF rs, D, E, F, rv
  <2>6. /\ GetConditions(rv) = "true" => \A i \in D : Complete(rs[i]) /\ rs[i].v = Bool(TRUE)
        /\ GetConditions(rv) = "false" => \E i \in D : rs[i].ok /\ rs[i].v = Bool(FALSE)
    BY <2>1, <2>2, CheckList, Zenon
  <2>7. DOMAIN Conditional(w, cm) = D /\ \A i \in D : Conditional(w, cm)[i] = Outcome(F(tree.l[i]))
    BY <2>3
  <2>8. \A i \in D : Complete(rs[i]) => Conditional(w, cm)[i] = Value(rs[i].v)
    BY <2>2, <2>4, <2>7, Zenon
  <2>9. GetConditions(rv) = "true" => AllTrue(Conditional(w, cm))
    BY <2>6, <2>7, <2>8, Zenon DEF AllTrue
  <2>10. \A i \in D : rs[i].ok /\ rs[i].v = Bool(FALSE) => Complete(rs[i])
    BY <2>2, <2>5, Zenon
  <2>11. GetConditions(rv) = "false" => SomeFalse(Conditional(w, cm))
    BY <2>6, <2>7, <2>8, <2>10, Zenon DEF SomeFalse
  <2> QED
    BY <2>9, <2>11 DEF AnswerIs, E, rv
<1>3. CASE tree.k # "list"
  <2>1. CASE Complete(rv)
    <3>1. F(tree) = rv
      BY <1>1, <2>1, PartsOf
    <3>2. Conditional(w, cm) = [i \in DOMAIN Args(rv.v) |-> Value(Args(rv.v)[i])]
      BY <1>3, <2>1, <3>1, PlainConditions
    <3> HIDE DEF rv
    <3> DEFINE vs == Args(rv.v)
    <3>4. /\ GetConditions(rv) = "true" => \A i \in DOMAIN vs : vs[i] = Bool(TRUE)
          /\ GetConditions(rv) = "false" => \E i \in DOMAIN vs : vs[i] = Bool(FALSE)
      BY <2>1, CheckValue
    <3> HIDE DEF vs
    <3>5. Conditional(w, cm) = [i \in DOMAIN vs |-> Value(vs[i])]
      BY <3>2 DEF vs
    <3>3. /\ GetConditions(rv) = "true" => AllTrue(Conditional(w, cm))
          /\ GetConditions(rv) = "false" => SomeFalse(Conditional(w, cm))
      BY <3>4, <3>5 DEF AllTrue, SomeFalse
    <3> QED
      BY <3>3 DEF AnswerIs, rv
  <2>2. CASE ~Complete(rv)
    <3>1. rv.ok => ~IsBool(rv.v) /\ rv.v.k # "list"
      BY <1>3, <2>2, PartsOf, Shapes
    <3>2. GetConditions(rv) = "error"
      BY <2>2, <3>1, CheckIncomplete
    <3> QED
      BY <3>2 DEF AnswerIs
  <2> QED
    BY <2>1, <2>2
<1> QED
  BY <1>2, <1>3

\* The answer is an error only if the conditions could not be decided with the
\* map lo, which the reads did not miss, or one is in error with the map cm.
LEMMA ErrorRight ==
    ASSUME NEW w \in Ready, NEW tree \in Served(w, "conditions"), NEW cm \in Maps(w),
           NEW reads \in Readings(w, "conditions", tree, cm),
           NEW lo \in Maps(w), Extension(lo, cm),
           \A tm \in RefsOf(tree) : reads[tm] = NotFound => Read(w, "conditions", lo, tm) = NotFound,
           AnswerIs("error", w, tree, reads)
    PROVE  ~Decided(Conditional(w, lo)) \/ InError(Conditional(w, cm))
<1> DEFINE E(part) == Eval(w, "conditions", part, reads)
           F(part) == Eval(w, "conditions", part, Full(w, "conditions", tree, cm))
           L(part) == Eval(w, "conditions", part, Full(w, "conditions", tree, lo))
           rv      == E(tree)
<1>1. \A part \in Parts(tree) :
          /\ Complete(E(part)) => F(part) = E(part)
          /\ ~E(part).ok => ~F(part).ok
  BY FullAgrees DEF Endpoints
<1>2. \A part \in Parts(tree) : Complete(L(part)) => E(part) = L(part)
  <2>1. "conditions" \in Endpoints
    BY DEF Endpoints
  <2>2. Full(w, "conditions", tree, lo) \in Readings(w, "conditions", tree, cm)
    BY <2>1, FullReads, ReadingsGrow
  <2>3. \A tm \in RefsOf(tree) :
            reads[tm] = NotFound => Full(w, "conditions", tree, lo)[tm] = NotFound
    BY FullReads
  <2> QED
    BY <2>1, <2>2, <2>3, MoreReads
<1>3. GetConditions(rv) = "error"
  BY DEF AnswerIs
<1>4. CASE tree.k = "list"
  <2> DEFINE D  == DOMAIN tree.l
             rs == [i \in D |-> E(tree.l[i])]
  <2>1. rv = Listed(rs)
    BY <1>4, PartsOf, Shapes
  <2>2. DOMAIN rs = D /\ \A i \in D : rs[i] = E(tree.l[i])
    OBVIOUS
  <2>3. Conditional(w, cm) = [i \in D |-> Outcome(F(tree.l[i]))]
    BY <1>4, ListConditions
  <2>4. Conditional(w, lo) = [i \in D |-> Outcome(L(tree.l[i]))]
    BY <1>4, ListConditions
  <2>5. \A i \in D : /\ Complete(E(tree.l[i])) => F(tree.l[i]) = E(tree.l[i])
                     /\ ~E(tree.l[i]).ok => ~F(tree.l[i]).ok
                     /\ Complete(L(tree.l[i])) => E(tree.l[i]) = L(tree.l[i])
    BY <1>1, <1>2, <1>4, PartsOf
  <2> HIDE DEF rs, D, E, F, L, rv
  <2>6. \/ \E i \in D : ~rs[i].ok
        \/ \E i \in D : Complete(rs[i]) /\ ~IsBool(rs[i].v)
        \/ /\ \E i \in D : ~Complete(rs[i])
           /\ \A i \in D : rs[i].v # Bool(FALSE)
    BY <1>3, <2>1, <2>2, CheckList, Zenon
  <2>7. ASSUME NEW i \in D, ~rs[i].ok
        PROVE  InError(Conditional(w, cm))
    <3>1. Outcome(F(tree.l[i])) = Error
      BY <2>2, <2>5, <2>7, OutcomeIs
    <3> QED
      BY <2>3, <3>1 DEF InError
  <2>8. ASSUME NEW i \in D, Complete(rs[i]), ~IsBool(rs[i].v)
        PROVE  InError(Conditional(w, cm))
    <3>1. Outcome(F(tree.l[i])) = Value(rs[i].v)
      BY <2>2, <2>5, <2>8, OutcomeIs
    <3> QED
      BY <2>3, <2>8, <3>1, Tags DEF InError
  <2>9. ASSUME NEW i \in D, ~Complete(rs[i]), \A j \in D : rs[j].v # Bool(FALSE)
        PROVE  ~Decided(Conditional(w, lo))
    <3>1. ~Complete(L(tree.l[i]))
      BY <2>2, <2>5, <2>9
    <3>2. Outcome(L(tree.l[i])) # Value(Bool(TRUE))
      BY <3>1, OutcomeIs
    <3>3. ~AllTrue(Conditional(w, lo))
      BY <2>4, <3>2 DEF AllTrue
    <3>4. ASSUME NEW j \in D, Outcome(L(tree.l[j])) = Value(Bool(FALSE))
          PROVE  FALSE
      <4>1. Complete(L(tree.l[j])) /\ L(tree.l[j]).v = Bool(FALSE)
        BY <3>4, OutcomeIs
      <4> QED
        BY <2>2, <2>5, <2>9, <4>1
    <3>5. ~SomeFalse(Conditional(w, lo))
      BY <2>4, <3>4 DEF SomeFalse
    <3> QED
      BY <3>3, <3>5 DEF Decided
  <2> QED
    BY <2>6, <2>7, <2>8, <2>9
<1>5. CASE tree.k # "list"
  <2> tree \in Parts(tree)
    BY PartsOf
  <2>1. CASE Complete(rv)
    <3>1. F(tree) = rv
      BY <1>1, <2>1
    <3>2. Conditional(w, cm) = [i \in DOMAIN Args(rv.v) |-> Value(Args(rv.v)[i])]
      BY <1>5, <2>1, <3>1, PlainConditions
    <3> HIDE DEF rv
    <3>3. PICK i \in DOMAIN Args(rv.v) : ~IsBool(Args(rv.v)[i])
      BY <1>3, <2>1, CheckValue
    <3>4. Conditional(w, cm)[i] = Value(Args(rv.v)[i]) /\ i \in DOMAIN Conditional(w, cm)
      BY <3>2
    <3> QED
      BY <3>3, <3>4, Tags DEF InError
  <2>2. CASE ~rv.ok
    <3>1. ~F(tree).ok /\ ~Complete(F(tree))
      BY <1>1, <2>2 DEF Complete
    <3>2. Conditional(w, cm) = <<Error>>
      BY <1>5, <3>1, PlainConditions, OutcomeIs
    <3> QED
      BY <3>2 DEF InError
  <2>3. CASE rv.ok /\ ~Complete(rv)
    <3>1. ~Complete(L(tree))
      BY <1>2, <2>3
    <3>2. Conditional(w, lo) = <<Outcome(L(tree))>>
      BY <1>5, <3>1, PlainConditions
    <3>3. Outcome(L(tree)) # Value(Bool(TRUE)) /\ Outcome(L(tree)) # Value(Bool(FALSE))
      BY <3>1, OutcomeIs
    <3> HIDE DEF L
    <3>4. DOMAIN Conditional(w, lo) = {1} /\ Conditional(w, lo)[1] = Outcome(L(tree))
      BY <3>2
    <3> QED
      BY <3>3, <3>4 DEF Decided, AllTrue, SomeFalse
  <2> QED
    BY <2>1, <2>2, <2>3
<1> QED
  BY <1>4, <1>5

-----------------------------------------------------------------------------
(* The mutable ConfigMap *)

\* What the mutable ConfigMap may hold, without the set of all such maps.
LEMMA MapsAre ==
    ASSUME NEW w, NEW cm
    PROVE  cm \in Maps(w) <=>
               /\ cm = [key \in DOMAIN cm |-> cm[key]]
               /\ \A key \in DOMAIN cm : <<key, cm[key]>> \in Written(w)
<1> DEFINE Keys   == {x[1] : x \in Written(w)}
           Values == {x[2] : x \in Written(w)}
           Of(keys) == {f \in [keys -> Values] : \A key \in keys : <<key, f[key]>> \in Written(w)}
<1>1. Maps(w) = UNION {Of(keys) : keys \in SUBSET Keys}
  BY DEF Maps
<1>2. ASSUME cm \in Maps(w)
      PROVE  /\ cm = [key \in DOMAIN cm |-> cm[key]]
             /\ \A key \in DOMAIN cm : <<key, cm[key]>> \in Written(w)
  <2>1. PICK keys \in SUBSET Keys : cm \in Of(keys)
    BY <1>1, <1>2
  <2> QED
    BY <2>1
<1>3. ASSUME cm = [key \in DOMAIN cm |-> cm[key]],
             \A key \in DOMAIN cm : <<key, cm[key]>> \in Written(w)
      PROVE  cm \in Maps(w)
  <2>1. \A key \in DOMAIN cm : key \in Keys /\ cm[key] \in Values
    <3> SUFFICES ASSUME NEW key \in DOMAIN cm
                 PROVE  key \in Keys /\ cm[key] \in Values
      OBVIOUS
    <3>1. <<key, cm[key]>>[1] = key /\ <<key, cm[key]>>[2] = cm[key]
      OBVIOUS
    <3> QED
      BY <1>3, <3>1
  <2>2. DOMAIN cm \in SUBSET Keys
    BY <2>1
  <2>3. cm \in [DOMAIN cm -> Values]
    BY <1>3, <2>1
  <2>4. cm \in Of(DOMAIN cm)
    BY <1>3, <2>3
  <2> HIDE DEF Of, Keys, Values
  <2> QED
    BY <1>1, <2>2, <2>4
<1> QED
  BY <1>2, <1>3

\* Nothing is written at first.
LEMMA EmptyMap ==
    ASSUME NEW w
    PROVE  <<>> \in Maps(w)
<1>1. DOMAIN <<>> = {} /\ <<>> = [key \in DOMAIN <<>> |-> <<>>[key]]
  OBVIOUS
<1> QED
  BY <1>1, MapsAre

\* What a function is after a value was put into it.
LEMMA PutIs ==
    ASSUME NEW f, NEW x, NEW y
    PROVE  /\ Put(f, x, y) = [z \in DOMAIN Put(f, x, y) |-> Put(f, x, y)[z]]
           /\ DOMAIN Put(f, x, y) = {x} \cup DOMAIN f
           /\ Put(f, x, y)[x] = y
           /\ \A z \in DOMAIN f : z # x => Put(f, x, y)[z] = f[z]
BY DEF Put

\* A write keeps the map one of those, and only adds to it unless it replaces
\* a value.
LEMMA WriteStays ==
    ASSUME NEW w, NEW cm \in Maps(w), NEW x \in Documents[w].writes
    PROVE  /\ KVSet(cm, x[1], x[2]) \in Maps(w)
           /\ x[1] \notin DOMAIN cm => Extension(cm, KVSet(cm, x[1], x[2]))
<1> DEFINE after == KVSet(cm, x[1], x[2])
<1>0. after = [y \in {x[1]} \cup DOMAIN cm |-> IF y = x[1] THEN JSONForm(x[2]) ELSE cm[y]]
  BY DEF KVSet, Put
<1> HIDE DEF after
<1>1. \A key \in DOMAIN cm : <<key, cm[key]>> \in Written(w)
  BY MapsAre
<1>2. <<x[1], JSONForm(x[2])>> \in Written(w)
  BY DEF Written
<1>3. /\ after = [y \in DOMAIN after |-> after[y]]
      /\ DOMAIN after = {x[1]} \cup DOMAIN cm
      /\ after[x[1]] = JSONForm(x[2])
      /\ \A y \in DOMAIN cm : y # x[1] => after[y] = cm[y]
  BY <1>0
<1>4. \A key \in DOMAIN after : <<key, after[key]>> \in Written(w)
  <2> SUFFICES ASSUME NEW key \in DOMAIN after
               PROVE  <<key, after[key]>> \in Written(w)
    OBVIOUS
  <2>1. CASE key = x[1]
    <3>1. after[key] = JSONForm(x[2])
      BY <1>3, <2>1
    <3> QED
      BY <1>2, <2>1, <3>1
  <2>2. CASE key # x[1]
    <3>1. key \in DOMAIN cm /\ after[key] = cm[key]
      BY <1>3, <2>2
    <3> QED
      BY <1>1, <3>1
  <2> QED
    BY <2>1, <2>2
<1>5. after \in Maps(w)
  BY <1>3, <1>4, MapsAre
<1>6. x[1] \notin DOMAIN cm => Extension(cm, after)
  BY <1>3 DEF Extension
<1> QED
  BY <1>5, <1>6 DEF after

\* Growing is reflexive and transitive.
LEMMA ExtensionOrder ==
    /\ \A cm : Extension(cm, cm)
    /\ \A a, b, c : Extension(a, b) /\ Extension(b, c) => Extension(a, c)
BY DEF Extension

-----------------------------------------------------------------------------
(* Requests *)

\* A request is a record of three fields, which a request that is idle is not.
LEMMA RequestFields ==
    ASSUME NEW what \in Endpoints, NEW reads, NEW tree
    PROVE  LET r == [what |-> what, reads |-> reads, tree |-> tree]
           IN  r.what = what /\ r.reads = reads /\ r.tree = tree /\ r # Idle
<1> DEFINE r == [what |-> what, reads |-> reads, tree |-> tree]
<1>1. r.what = what /\ r.reads = reads /\ r.tree = tree
  OBVIOUS
<1>2. Idle.what = "none" /\ "none" \notin Endpoints
  BY DEF Idle, Endpoints
<1> HIDE DEF r
<1>3. r # Idle
  BY <1>1, <1>2
<1> QED
  BY <1>1, <1>3 DEF r

\* The trees that are served are those of the endpoint's key.
LEMMA ServedIs ==
    ASSUME NEW w, NEW what \in {"conditions", "spec", "environment"}
    PROVE  Served(w, what) = IF TreeKey(Name(w), what) \in DOMAIN Data(w)
                             THEN {Data(w)[TreeKey(Name(w), what)]} ELSE {}
BY DEF Served

\* A reference that is read now is read from the run's ConfigMaps.
LEMMA ReadNow ==
    ASSUME immutable = Data(workflow), NEW what, NEW tm
    PROVE  Resolve(Store, me, what, tm) = Read(workflow, what, mutable, tm)
BY DEF Store, me, doc, Read, Name

\* Once all references are read, and as long as nothing is replaced, the reads
\* are readings of the present map; the result is the evaluation with them.
LEMMA ResultIs ==
    ASSUME RequestInv, MapsInv, ReadsCurrent, AllRead
    PROVE  /\ Result = Eval(workflow, req.what, req.tree, req.reads)
           /\ DOMAIN req.reads = RefsOf(req.tree)
           /\ ~overwritten => req.reads \in Readings(workflow, req.what, req.tree, mutable)
<1>1. req # Idle /\ RefsOf(req.tree) \subseteq DOMAIN req.reads
  BY DEF AllRead
<1>2. /\ run = "applied" /\ DOMAIN req.reads \subseteq RefsOf(req.tree)
      /\ req.reads = [tm \in DOMAIN req.reads |-> req.reads[tm]]
  BY <1>1 DEF RequestInv
<1>3. immutable = Data(workflow)
  BY <1>2 DEF MapsInv
<1>4. DOMAIN req.reads = RefsOf(req.tree)
  BY <1>1, <1>2
<1>5. Env(Store, req.what, req.reads) = Env(StoreOf(workflow, Data(workflow), <<>>), req.what, req.reads)
  BY <1>3, SameEnv DEF Store
<1>6. Result = Eval(workflow, req.what, req.tree, req.reads)
  BY <1>5 DEF Result, Eval
<1>7. ASSUME ~overwritten
      PROVE  req.reads \in Readings(workflow, req.what, req.tree, mutable)
  <2>1. \A tm \in RefsOf(req.tree) :
            req.reads[tm] \in {NotFound, Read(workflow, req.what, mutable, tm)}
    BY <1>1, <1>4, <1>7 DEF ReadsCurrent
  <2> QED
    BY <1>2, <1>4, <2>1, ReadingsAre
<1> QED
  BY <1>4, <1>6, <1>7

-----------------------------------------------------------------------------
(* What no step disturbs *)

LEMMA FrameMaps ==
    ASSUME MapsInv, UNCHANGED <<workflow, run, immutable, mutable>>
    PROVE  MapsInv'
BY DEF MapsInv

LEMMA FrameRequest ==
    ASSUME RequestInv, UNCHANGED <<workflow, run, req, pod>>
    PROVE  RequestInv'
BY DEF RequestInv

LEMMA FrameReads ==
    ASSUME ReadsCurrent, UNCHANGED <<workflow, req, mutable, overwritten>>
    PROVE  ReadsCurrent'
BY DEF ReadsCurrent

LEMMA FramePolled ==
    ASSUME PolledInv, UNCHANGED <<workflow, run, mutable, overwritten, polled>>
    PROVE  PolledInv'
BY DEF PolledInv

LEMMA FramePoll ==
    ASSUME PollInv, UNCHANGED <<workflow, pod, req, overwritten, polled>>
    PROVE  PollInv'
BY DEF PollInv

LEMMA FrameScript ==
    ASSUME ScriptInv, UNCHANGED <<workflow, pod, polls>>
    PROVE  ScriptInv'
BY DEF ScriptInv

LEMMA FrameOutcome ==
    ASSUME OutcomeInv, UNCHANGED <<workflow, run, pod, mutable, overwritten, polled>>
    PROVE  OutcomeInv'
BY DEF OutcomeInv, Answers

LEMMA FrameGot ==
    ASSUME GotInv, UNCHANGED <<workflow, pod, mutable, overwritten, got>>
    PROVE  GotInv'
BY DEF GotInv, ToldOf, ToldState

\* A request in flight is of a run that was applied and a script that polls or
\* a step that runs; before that there is none, and no answer either.
LEMMA NotYet ==
    ASSUME IInv, pod \notin {"polling", "passed"}
    PROVE  req = Idle /\ DOMAIN got = {}
BY DEF IInv, RequestInv, GotInv

-----------------------------------------------------------------------------
(* The initial state, and each action *)

LEMMA InitIInv ==
    ASSUME Init
    PROVE  IInv
<1>1. DOMAIN got = {}
  BY DEF Init
<1>2. TypeOK
  BY <1>1, BoundsAssumption DEF Init, TypeOK
<1>3. MapsInv
  BY EmptyMap DEF Init, MapsInv
<1>4. RequestInv /\ ReadsCurrent /\ PolledInv /\ PollInv
  BY DEF Init, RequestInv, ReadsCurrent, PolledInv, PollInv
<1>5. ScriptInv /\ OutcomeInv
  BY BoundsAssumption DEF Init, ScriptInv, OutcomeInv
<1>6. GotInv
  BY <1>1 DEF GotInv, ToldOf, ToldState
<1> QED
  BY <1>2, <1>3, <1>4, <1>5, <1>6 DEF IInv

\* Before the run is applied there is nothing but the document.
LEMMA NotApplied ==
    ASSUME IInv, run # "applied"
    PROVE  /\ pod = "none" /\ immutable = <<>> /\ mutable = <<>>
           /\ req = Idle /\ DOMAIN got = {} /\ polled = <<>>
<1>1. pod = "none" /\ immutable = <<>> /\ mutable = <<>>
  BY DEF IInv, TypeOK
<1>2. polled = <<>>
  BY DEF IInv, PolledInv
<1> QED
  BY <1>1, <1>2, NotYet

\* The run moves on, before anything else happens.
LEMMA RunMoves ==
    ASSUME IInv, run # "applied", MapsInv',
           run' \in {"submitted", "rejected", "panicked", "accepted", "failing", "crashing", "applied"},
           run' # "applied" => immutable' = immutable,
           UNCHANGED <<workflow, mutable, pod, polls, req, got, lost, writes, overwritten, polled>>
    PROVE  IInv'
<1>1. /\ pod = "none" /\ immutable = <<>> /\ mutable = <<>>
      /\ req = Idle /\ DOMAIN got = {} /\ polled = <<>>
  BY NotApplied
<1>2. TypeOK'
  BY <1>1 DEF IInv, TypeOK
<1>3. RequestInv' /\ ReadsCurrent' /\ PolledInv' /\ PollInv'
  BY <1>1 DEF RequestInv, ReadsCurrent, PolledInv, PollInv
<1>4. ScriptInv'
  BY FrameScript DEF IInv
<1>5. OutcomeInv' /\ GotInv'
  BY <1>1 DEF OutcomeInv, GotInv, ToldOf, ToldState
<1> QED
  BY <1>2, <1>3, <1>4, <1>5 DEF IInv

LEMMA DecodeIInv ==
    ASSUME IInv, Decode
    PROVE  IInv'
<1>0. workflow \in DOMAIN Documents
  BY DEF IInv, TypeOK
<1>1. run' \in {"accepted", "rejected", "panicked"} /\ (run' = "accepted" => Decoded(workflow))
  BY <1>0, ConfigurationLaw DEF Decode
<1>2. MapsInv'
  BY <1>1 DEF IInv, MapsInv, Decode
<1> QED
  BY <1>1, <1>2, RunMoves DEF Decode

LEMMA ConfigureIInv ==
    ASSUME IInv, ConfigureImmutable
    PROVE  IInv'
<1>1. workflow \in DOMAIN Documents /\ Decoded(workflow)
  BY DEF IInv, TypeOK, MapsInv, ConfigureImmutable
<1>2. run' \in {"failing", "crashing", "applied"}
  BY <1>1, ConfigurationLaw DEF ConfigureImmutable
<1>3. run' = "applied" => workflow \in Ready /\ immutable' = Data(workflow)
  BY <1>1 DEF ConfigureImmutable, Ready, Data
<1>4. MapsInv'
  BY <1>1, <1>2, <1>3 DEF IInv, MapsInv, ConfigureImmutable
<1> QED
  BY <1>2, <1>4, RunMoves DEF ConfigureImmutable

\* A write only adds to the map, unless it replaces a value.
LEMMA WriteGrows ==
    ASSUME IInv, Write
    PROVE  /\ mutable' \in Maps(workflow)
           /\ ~overwritten' => ~overwritten /\ Extension(mutable, mutable')
<1>1. mutable \in Maps(workflow)
  BY DEF IInv, MapsInv
<1>2. PICK x \in Documents[workflow].writes :
          /\ mutable' = KVSet(mutable, x[1], x[2])
          /\ overwritten' = (overwritten \/ x[1] \in DOMAIN mutable)
  BY DEF Write, doc
<1> QED
  BY <1>1, <1>2, WriteStays

LEMMA WriteIInv ==
    ASSUME IInv, Write
    PROVE  IInv'
<1>1. /\ run = "applied" /\ writes < MaxWrites /\ writes' = writes + 1
      /\ UNCHANGED <<workflow, run, immutable, pod, polls, req, got, lost, polled>>
  BY DEF Write
<1>2. /\ mutable' \in Maps(workflow)
      /\ ~overwritten' => ~overwritten /\ Extension(mutable, mutable')
  BY WriteGrows
<1>3. TypeOK'
  BY <1>1, BoundsAssumption DEF IInv, TypeOK
<1>4. MapsInv'
  BY <1>1, <1>2 DEF IInv, MapsInv
<1>5. RequestInv'
  BY <1>1, FrameRequest DEF IInv
<1>6. \A what \in Endpoints : \A tm :
          ~overwritten' => Read(workflow, what, mutable, tm) \in {NotFound, Read(workflow, what, mutable', tm)}
  BY <1>2, ReadGrows, ResolversKnown
<1>7. ReadsCurrent'
  <2> SUFFICES ASSUME req # Idle, ~overwritten', NEW tm \in DOMAIN req.reads
               PROVE  req.reads[tm] \in {NotFound, Read(workflow, req.what, mutable', tm)}
    BY <1>1 DEF ReadsCurrent
  <2>1. req.what \in Endpoints
    BY DEF IInv, RequestInv
  <2>2. req.reads[tm] \in {NotFound, Read(workflow, req.what, mutable, tm)}
    BY <1>2 DEF IInv, ReadsCurrent
  <2> QED
    BY <1>6, <2>1, <2>2
<1>8. PolledInv'
  <2>1. PolledInv
    BY DEF IInv
  <2> QED
    BY <1>1, <1>2, <2>1, ExtensionOrder DEF PolledInv
<1>9. PollInv'
  BY <1>1, <1>2 DEF IInv, PollInv
<1>10. ScriptInv'
  BY <1>1, FrameScript DEF IInv
<1>11. \A what \in Endpoints : \A tree :
          ~overwritten' =>
              Readings(workflow, what, tree, mutable) \subseteq Readings(workflow, what, tree, mutable')
  BY <1>2, ReadingsGrow
<1>12. OutcomeInv'
  <2>1. OutcomeInv /\ "conditions" \in Endpoints
    BY DEF IInv, Endpoints
  <2> QED
    BY <1>1, <1>2, <1>11, <2>1 DEF OutcomeInv, Answers
<1>13. GotInv'
  <2>1. GotInv
    BY DEF IInv
  <2>2. DOMAIN got' # {} => pod' = "passed"
    BY <1>1, <2>1 DEF GotInv
  <2>3. ASSUME ~overwritten'
        PROVE  ToldState'
    <3>1. ToldState /\ Extension(mutable, mutable')
      BY <1>2, <2>1, <2>3 DEF GotInv
    <3> QED
      BY <1>1, <3>1 DEF ToldState, Extension
  <2>4. ASSUME ~overwritten', NEW what \in {"spec", "environment", "variable"}
        PROVE  ToldOf(what)'
    <3>1. ToldOf(what) /\ what \in Endpoints
      BY <1>2, <2>1, <2>4 DEF GotInv, Endpoints
    <3> QED
      BY <1>1, <1>11, <2>4, <3>1 DEF ToldOf
  <2> QED
    BY <2>2, <2>3, <2>4 DEF GotInv
<1> QED
  BY <1>3, <1>4, <1>5, <1>7, <1>8, <1>9, <1>10, <1>12, <1>13 DEF IInv

\* A run that is applied has the ConfigMaps that its document was given.
LEMMA Applied ==
    ASSUME IInv, run = "applied"
    PROVE  /\ workflow \in Ready /\ immutable = Data(workflow) /\ mutable \in Maps(workflow)
           /\ me = Name(workflow)
BY DEF IInv, MapsInv, me, doc, Name

LEMMA StartStepIInv ==
    ASSUME IInv, StartStep
    PROVE  IInv'
<1>1. /\ run = "applied" /\ pod = "none"
      /\ pod' = IF conditionKey(me) \in DOMAIN immutable THEN "waiting" ELSE "passed"
      /\ UNCHANGED <<workflow, run, immutable, mutable, polls, req, got, lost, writes,
                     overwritten, polled>>
  BY DEF StartStep
<1>2. req = Idle /\ DOMAIN got = {}
  BY <1>1, NotYet
<1>3. IF conditionKey(me) \in DOMAIN immutable
      THEN Served(workflow, "conditions") # {} ELSE Served(workflow, "conditions") = {}
  BY <1>1, Applied, ServedIs DEF TreeKey
<1>4. pod' \in {"waiting", "passed"}
  BY <1>1
<1>5. TypeOK'
  BY <1>1, <1>2, <1>4 DEF IInv, TypeOK, Outcomes
<1>6. MapsInv' /\ PolledInv' /\ ReadsCurrent'
  BY <1>1, FrameMaps, FramePolled, FrameReads DEF IInv
<1>7. RequestInv' /\ PollInv'
  BY <1>1, <1>2, <1>4 DEF RequestInv, PollInv
<1>8. ScriptInv'
  BY <1>1, <1>3, <1>4 DEF IInv, ScriptInv
<1>9. OutcomeInv'
  BY <1>1, <1>3, <1>4 DEF OutcomeInv
<1>10. GotInv'
  BY <1>1, <1>2 DEF GotInv, ToldOf, ToldState
<1> QED
  BY <1>5, <1>6, <1>7, <1>8, <1>9, <1>10 DEF IInv

\* A request that begins has read nothing.
LEMMA EmptyReads == DOMAIN <<>> = {} /\ <<>> = [tm \in DOMAIN <<>> |-> <<>>[tm]]
OBVIOUS

LEMMA PollIInv ==
    ASSUME IInv, Poll
    PROVE  IInv'
<1> DEFINE tree == immutable[conditionKey(me)]
<1>1. /\ pod = "waiting" /\ req = Idle /\ pod' = "polling" /\ polled' = <<mutable>>
      /\ req' = [what |-> "conditions", reads |-> <<>>, tree |-> tree]
      /\ UNCHANGED <<workflow, run, immutable, mutable, polls, got, lost, writes, overwritten>>
  BY DEF Poll, Request, Scoped, TreeKey
<1>2. run = "applied" /\ Served(workflow, "conditions") # {}
  BY <1>1 DEF IInv, OutcomeInv, ScriptInv
<1>3. tree \in Served(workflow, "conditions")
  BY <1>2, Applied, ServedIs DEF TreeKey
<1> HIDE DEF tree
<1>4. "conditions" \in Endpoints
  BY DEF Endpoints
<1>5. req'.what = "conditions" /\ req'.reads = <<>> /\ req'.tree = tree /\ req' # Idle
  BY <1>1, <1>4, RequestFields
<1>6. DOMAIN got = {}
  BY <1>1, NotYet
<1>7. TypeOK'
  BY <1>1, <1>2, <1>4, <1>5, EmptyReads DEF IInv, TypeOK
<1>8. MapsInv'
  BY <1>1, FrameMaps DEF IInv
<1>9. RequestInv'
  BY <1>1, <1>2, <1>3, <1>4, <1>5, EmptyReads DEF RequestInv
<1>10. ReadsCurrent'
  BY <1>5, EmptyReads DEF ReadsCurrent
<1>11. polled'[1] = mutable /\ polled' # <<>> /\ polled' = <<polled'[1]>>
  BY <1>1
<1>12. PolledInv'
  BY <1>1, <1>2, <1>11, Applied, ExtensionOrder DEF PolledInv
<1>13. PollInv'
  BY <1>5, <1>11, EmptyReads DEF PollInv
<1>14. ScriptInv' /\ OutcomeInv'
  BY <1>1, <1>2 DEF IInv, ScriptInv, OutcomeInv
<1>15. GotInv'
  BY <1>1, <1>6 DEF GotInv, ToldOf, ToldState
<1> QED
  BY <1>7, <1>8, <1>9, <1>10, <1>12, <1>13, <1>14, <1>15 DEF IInv

LEMMA ReadReferenceIInv ==
    ASSUME IInv, ReadReference
    PROVE  IInv'
<1>1. PICK tm \in RefsOf(req.tree) \ DOMAIN req.reads :
          req' = [req EXCEPT !.reads = Put(@, tm, Resolve(Store, me, req.what, tm))]
  BY DEF ReadReference
<1>2. /\ req # Idle
      /\ UNCHANGED <<workflow, run, immutable, mutable, pod, polls, got, lost, writes,
                     overwritten, polled>>
  BY DEF ReadReference
<1>3. /\ run = "applied" /\ pod \in {"polling", "passed"}
      /\ pod = "polling" <=> req.what = "conditions"
      /\ req = [what |-> req.what, reads |-> req.reads, tree |-> req.tree]
      /\ req.what \in Endpoints /\ req.tree \in Served(workflow, req.what)
      /\ DOMAIN req.reads \subseteq RefsOf(req.tree)
      /\ req.reads = [x \in DOMAIN req.reads |-> req.reads[x]]
  BY <1>2 DEF IInv, RequestInv
<1> DEFINE what  == req.what
           tree  == req.tree
           reads == req.reads
           value == Read(workflow, what, mutable, tm)
           after == Put(reads, tm, value)
<1>4. req' = [what |-> what, reads |-> after, tree |-> tree]
  <2>1. Resolve(Store, me, req.what, tm) = value
    BY <1>3, Applied, ReadNow
  <2>2. req' = [req EXCEPT !.reads = after]
    BY <1>1, <2>1
  <2> HIDE DEF after
  <2> QED
    BY <1>3, <2>2
<1> HIDE DEF what, tree, reads, value, after
<1>5. req'.what = what /\ req'.reads = after /\ req'.tree = tree /\ req' # Idle
  BY <1>3, <1>4, RequestFields DEF what
<1>6. /\ DOMAIN after = {tm} \cup DOMAIN reads
      /\ after = [x \in DOMAIN after |-> after[x]]
      /\ after[tm] = value
      /\ \A x \in DOMAIN reads : x # tm => after[x] = reads[x]
  BY DEF after, Put
<1>7. DOMAIN after \subseteq RefsOf(tree)
  BY <1>1, <1>3, <1>6 DEF tree, reads
<1>8. TypeOK'
  BY <1>2, <1>3, <1>5, <1>7 DEF IInv, TypeOK, what
<1>9. MapsInv' /\ PolledInv' /\ ScriptInv' /\ OutcomeInv' /\ GotInv'
  BY <1>2, FrameMaps, FramePolled, FrameScript, FrameOutcome, FrameGot DEF IInv
<1>10. RequestInv'
  BY <1>2, <1>3, <1>4, <1>5, <1>6, <1>7 DEF RequestInv, what, tree
<1>11. ReadsCurrent'
  <2> SUFFICES ASSUME ~overwritten, NEW x \in DOMAIN after
               PROVE  after[x] \in {NotFound, Read(workflow, what, mutable, x)}
    BY <1>2, <1>5 DEF ReadsCurrent
  <2>1. \A y \in DOMAIN reads : reads[y] \in {NotFound, Read(workflow, what, mutable, y)}
    BY <1>2 DEF IInv, ReadsCurrent, reads, what
  <2> QED
    BY <1>6, <2>1 DEF value
<1>12. PollInv'
  <2> SUFFICES ASSUME pod = "polling"
               PROVE  /\ polled # <<>>
                      /\ ~overwritten =>
                            \A x \in DOMAIN after :
                                after[x] = NotFound => Read(workflow, "conditions", polled[1], x) = NotFound
    BY <1>2, <1>5 DEF PollInv
  <2>1. /\ polled # <<>>
        /\ ~overwritten =>
              \A x \in DOMAIN reads :
                  reads[x] = NotFound => Read(workflow, "conditions", polled[1], x) = NotFound
    BY DEF IInv, PollInv, reads
  <2>2. what = "conditions"
    BY <1>3 DEF what
  <2>3. ASSUME ~overwritten, value = NotFound
        PROVE  Read(workflow, "conditions", polled[1], tm) = NotFound
    <3>1. Extension(polled[1], mutable)
      BY <2>1, <2>3 DEF IInv, PolledInv
    <3>2. "conditions" \in Endpoints
      BY DEF Endpoints
    <3>3. Read(workflow, "conditions", polled[1], tm) \in {NotFound, Read(workflow, "conditions", mutable, tm)}
      BY <3>1, <3>2, ReadGrows, ResolversKnown
    <3> QED
      BY <2>2, <2>3, <3>3 DEF value
  <2> QED
    BY <1>6, <2>1, <2>3
<1> QED
  BY <1>8, <1>9, <1>10, <1>11, <1>12 DEF IInv

\* An iteration that ends without true or false: the script polls again, or
\* gives up; the poll was answered with an error unless it got no answer.
LEMMA NextIterationIInv ==
    ASSUME IInv, pod = "polling", NextIteration, req' = Idle, lost' \in 0..MaxLost,
           UNCHANGED <<workflow, run, immutable, mutable, got, writes, overwritten>>,
           \/ polled' = <<>>
           \/ /\ polled' = polled
              /\ ~overwritten =>
                    \E tree \in Served(workflow, "conditions") :
                        \E reads \in Readings(workflow, "conditions", tree, mutable) :
                            /\ AnswerIs("error", workflow, tree, reads)
                            /\ \A tm \in RefsOf(tree) :
                                  reads[tm] = NotFound =>
                                      Read(workflow, "conditions", polled[1], tm) = NotFound
    PROVE  IInv'
<1>1. polls \in 0..MaxPolls /\ polls < MaxPolls
  BY DEF IInv, TypeOK, ScriptInv
<1>2. /\ polls' = polls + 1 /\ pod' \in {"waiting", "expired"}
      /\ pod' = "waiting" => polls' < MaxPolls
  BY <1>1, BoundsAssumption DEF NextIteration
<1>3. run = "applied" /\ req # Idle /\ Served(workflow, "conditions") # {}
  BY DEF IInv, OutcomeInv, PollInv, RequestInv
<1>4. DOMAIN got = {}
  BY DEF IInv, GotInv
<1>5. polls' \in 0..MaxPolls
  BY <1>1, <1>2, BoundsAssumption
<1>6. TypeOK'
  BY <1>2, <1>3, <1>5 DEF IInv, TypeOK, Outcomes
<1>7. MapsInv'
  BY FrameMaps DEF IInv
<1>8. RequestInv' /\ ReadsCurrent' /\ PollInv'
  BY <1>2 DEF RequestInv, ReadsCurrent, PollInv
<1>9. PolledInv'
  BY DEF IInv, PolledInv
<1>10. ScriptInv'
  BY <1>2, <1>3 DEF ScriptInv
<1>11. OutcomeInv'
  BY <1>2, <1>3 DEF OutcomeInv
<1>12. GotInv'
  BY <1>4 DEF GotInv, ToldOf, ToldState
<1> QED
  BY <1>6, <1>7, <1>8, <1>9, <1>10, <1>11, <1>12 DEF IInv

\* An answer that ends the script.
LEMMA ScriptEndsIInv ==
    ASSUME IInv, pod = "polling", req' = Idle, pod' \in {"passed", "failed"},
           ~overwritten => IF pod' = "passed" THEN Answers("true") ELSE Answers("false"),
           UNCHANGED <<workflow, run, immutable, mutable, polls, got, lost, writes, overwritten, polled>>
    PROVE  IInv'
<1>1. run = "applied" /\ DOMAIN got = {}
  BY DEF IInv, OutcomeInv, GotInv
<1>2. TypeOK'
  BY <1>1 DEF IInv, TypeOK, Outcomes
<1>3. MapsInv' /\ PolledInv'
  BY FrameMaps, FramePolled DEF IInv
<1>4. RequestInv' /\ ReadsCurrent' /\ PollInv' /\ ScriptInv'
  BY DEF RequestInv, ReadsCurrent, PollInv, ScriptInv
<1>5. OutcomeInv'
  BY <1>1 DEF OutcomeInv, Answers
<1>6. GotInv'
  BY <1>1 DEF GotInv, ToldOf, ToldState
<1> QED
  BY <1>2, <1>3, <1>4, <1>5, <1>6 DEF IInv

LEMMA PollAnsweredIInv ==
    ASSUME IInv, PollAnswered
    PROVE  IInv'
<1> DEFINE tree  == req.tree
           reads == req.reads
           success == GetConditions(Result)
<1>1. /\ pod = "polling" /\ AllRead /\ req' = Idle
      /\ UNCHANGED <<workflow, run, immutable, mutable, got, lost, writes, overwritten, polled>>
  BY DEF PollAnswered
<1>2. \/ success = "true" /\ pod' = "passed" /\ UNCHANGED polls
      \/ success = "false" /\ pod' = "failed" /\ UNCHANGED polls
      \/ success = "error" /\ NextIteration
  BY DEF PollAnswered
<1>3. req # Idle /\ req.what = "conditions" /\ tree \in Served(workflow, "conditions")
  BY <1>1 DEF IInv, PollInv, RequestInv
<1>4. /\ Result = Eval(workflow, "conditions", tree, reads)
      /\ DOMAIN reads = RefsOf(tree)
      /\ ~overwritten => reads \in Readings(workflow, "conditions", tree, mutable)
  BY <1>1, <1>3, ResultIs DEF IInv
<1>5. AnswerIs(success, workflow, tree, reads)
  BY <1>4 DEF AnswerIs
<1>6. ~overwritten =>
          \A tm \in RefsOf(tree) :
              reads[tm] = NotFound => Read(workflow, "conditions", polled[1], tm) = NotFound
  BY <1>1, <1>4 DEF IInv, PollInv
<1> HIDE DEF success, tree, reads
<1>7. CASE success = "error" /\ NextIteration
  <2>1. lost' \in 0..MaxLost
    BY <1>1 DEF IInv, TypeOK
  <2>2. ~overwritten =>
            \E t \in Served(workflow, "conditions") :
                \E rs \in Readings(workflow, "conditions", t, mutable) :
                    /\ AnswerIs("error", workflow, t, rs)
                    /\ \A tm \in RefsOf(t) :
                          rs[tm] = NotFound => Read(workflow, "conditions", polled[1], tm) = NotFound
    BY <1>3, <1>4, <1>5, <1>6, <1>7
  <2> QED
    BY <1>1, <1>7, <2>1, <2>2, NextIterationIInv
<1>8. CASE success \in {"true", "false"} /\ UNCHANGED polls
           /\ pod' = IF success = "true" THEN "passed" ELSE "failed"
  <2>1. ~overwritten => Answers(success)
    BY <1>3, <1>4, <1>5 DEF Answers
  <2> QED
    BY <1>1, <1>8, <2>1, ScriptEndsIInv
<1> QED
  BY <1>2, <1>7, <1>8

LEMMA PollLostIInv ==
    ASSUME IInv, PollLost
    PROVE  IInv'
<1>1. lost' \in 0..MaxLost
  BY BoundsAssumption DEF IInv, TypeOK, PollLost
<1> QED
  BY <1>1, NextIterationIInv DEF PollLost

\* The step begins a request.
LEMMA RequestIInv ==
    ASSUME IInv, pod = "passed", NEW what \in {"spec", "environment", "variable"},
           NEW tree \in Served(workflow, what),
           req' = [what |-> what, reads |-> <<>>, tree |-> tree],
           UNCHANGED <<workflow, run, immutable, mutable, pod, polls, got, lost, writes,
                       overwritten, polled>>
    PROVE  IInv'
<1>1. what \in Endpoints /\ what # "conditions"
  BY DEF Endpoints
<1>2. req'.what = what /\ req'.reads = <<>> /\ req'.tree = tree /\ req' # Idle
  BY <1>1, RequestFields
<1>3. run = "applied"
  BY DEF IInv, OutcomeInv
<1>4. TypeOK'
  BY <1>1, <1>2, <1>3, EmptyReads DEF IInv, TypeOK
<1>5. MapsInv' /\ PolledInv' /\ ScriptInv' /\ OutcomeInv' /\ GotInv'
  BY FrameMaps, FramePolled, FrameScript, FrameOutcome, FrameGot DEF IInv
<1>6. RequestInv'
  BY <1>1, <1>2, <1>3, EmptyReads DEF RequestInv
<1>7. ReadsCurrent'
  BY <1>2, EmptyReads DEF ReadsCurrent
<1>8. PollInv'
  BY DEF PollInv
<1> QED
  BY <1>4, <1>5, <1>6, <1>7, <1>8 DEF IInv

\* What an answer, if it is complete, has to be right about.
Right(what, answer) ==
    ~overwritten /\ answer.complete =>
        /\ what \in {"spec", "environment", "variable"} =>
              \E tree \in Served(workflow, what) :
                  \E reads \in Readings(workflow, what, tree, mutable) :
                      /\ Complete(Eval(workflow, what, tree, reads))
                      /\ answer.value = Said(what, Eval(workflow, what, tree, reads).v)
        /\ what = "state" =>
              /\ stateKey(Name(workflow), answer.key) \in DOMAIN mutable
              /\ answer.value = JSONForm(mutable[stateKey(Name(workflow), answer.key)])

\* The step is told an answer.
LEMMA TellIInv ==
    ASSUME IInv, pod = "passed", req' = Idle,
           NEW what \in {"spec", "environment", "variable", "state", "secret", "event"},
           NEW answer, Tell(what, answer), Right(what, answer),
           UNCHANGED <<workflow, run, immutable, mutable, pod, polls, lost, writes,
                       overwritten, polled>>
    PROVE  IInv'
<1>1. /\ DOMAIN got' = {what} \cup DOMAIN got /\ got'[what] = answer
      /\ \A x \in DOMAIN got : x # what => got'[x] = got[x]
  BY DEF Tell, Put
<1>2. run = "applied"
  BY DEF IInv, OutcomeInv
<1>3. TypeOK'
  BY <1>1, <1>2 DEF IInv, TypeOK
<1>4. MapsInv' /\ PolledInv' /\ ScriptInv' /\ OutcomeInv'
  BY FrameMaps, FramePolled, FrameScript, FrameOutcome DEF IInv
<1>5. RequestInv' /\ ReadsCurrent' /\ PollInv'
  BY DEF RequestInv, ReadsCurrent, PollInv
<1>6. ASSUME ~overwritten
      PROVE  ToldState'
  <2>1. CASE what = "state"
    BY <1>1, <1>6, <2>1 DEF ToldState, Right
  <2>2. CASE what # "state"
    <3>1. ToldState
      BY <1>6 DEF IInv, GotInv
    <3>2. "state" \in DOMAIN got' => "state" \in DOMAIN got /\ got'["state"] = got["state"]
      BY <1>1, <2>2
    <3> QED
      BY <3>1, <3>2 DEF ToldState
  <2> QED
    BY <2>1, <2>2
<1>7. ASSUME ~overwritten, NEW x \in {"spec", "environment", "variable"}
      PROVE  ToldOf(x)'
  <2>1. CASE x = what
    BY <1>1, <1>7, <2>1 DEF ToldOf, Right
  <2>2. CASE x # what
    <3>1. ToldOf(x)
      BY <1>7 DEF IInv, GotInv
    <3>2. x \in DOMAIN got' => x \in DOMAIN got /\ got'[x] = got[x]
      BY <1>1, <2>2
    <3> QED
      BY <3>1, <3>2 DEF ToldOf
  <2> QED
    BY <2>1, <2>2
<1>8. GotInv'
  BY <1>6, <1>7 DEF GotInv
<1> QED
  BY <1>3, <1>4, <1>5, <1>8 DEF IInv

\* No answer is right about anything.
LEMMA NoAnswerRight ==
    ASSUME NEW what
    PROVE  Right(what, NoAnswer)
<1>1. NoAnswer.complete = FALSE
  BY Zenon DEF NoAnswer
<1> QED
  BY <1>1 DEF Right

LEMMA AskForIInv ==
    ASSUME IInv, NEW what \in {"spec", "environment"}, AskFor(what)
    PROVE  IInv'
<1>1. /\ pod = "passed" /\ TreeKey(me, what) \in DOMAIN immutable
      /\ req' = [what |-> what, reads |-> <<>>, tree |-> immutable[TreeKey(me, what)]]
      /\ UNCHANGED <<workflow, run, immutable, mutable, pod, polls, got, lost, writes,
                     overwritten, polled>>
  BY DEF AskFor, MayAsk, Request, Scoped
<1>2. run = "applied"
  BY <1>1 DEF IInv, OutcomeInv
<1>3. immutable[TreeKey(me, what)] \in Served(workflow, what)
  BY <1>1, <1>2, Applied, ServedIs
<1> QED
  BY <1>1, <1>3, RequestIInv

LEMMA GetEnvironmentVariableIInv ==
    ASSUME IInv, GetEnvironmentVariable
    PROVE  IInv'
<1> DEFINE environment == KVGet(immutable, environmentKey(me)).v.m
<1>1. /\ pod = "passed" /\ req = Idle
      /\ UNCHANGED <<workflow, run, immutable, mutable, pod, polls, lost, writes, overwritten, polled>>
  BY DEF GetEnvironmentVariable, MayAsk
<1>2. \/ (\E name \in DOMAIN environment : Scoped("variable", environment[name])) /\ UNCHANGED got
      \/ Tell("variable", NoAnswer) /\ UNCHANGED req
  BY DEF GetEnvironmentVariable
<1>3. environment = Environment(workflow)
  <2>1. run = "applied"
    BY <1>1 DEF IInv, OutcomeInv
  <2>2. immutable = Data(workflow) /\ me = Name(workflow) /\ workflow \in Ready
    BY <2>1, Applied
  <2>3. environmentKey(Name(workflow)) \in DOMAIN Data(workflow)
    BY <2>2, ConfigurationLaw DEF Ready
  <2>4. KVGet(immutable, environmentKey(me)).v = Data(workflow)[environmentKey(Name(workflow))]
    BY <2>2, <2>3 DEF KVGet, Found
  <2> QED
    BY <2>4 DEF Environment
<1> HIDE DEF environment
<1>4. ASSUME NEW name \in DOMAIN environment, Scoped("variable", environment[name]), UNCHANGED got
      PROVE  IInv'
  <2>1. environment[name] \in Served(workflow, "variable")
    BY <1>3 DEF Served
  <2> QED
    BY <1>1, <1>4, <2>1, RequestIInv DEF Scoped
<1>5. CASE Tell("variable", NoAnswer) /\ UNCHANGED req
  BY <1>1, <1>5, NoAnswerRight, TellIInv
<1> QED
  BY <1>2, <1>4, <1>5

LEMMA GetStateIInv ==
    ASSUME IInv, GetState
    PROVE  IInv'
<1>1. /\ pod = "passed" /\ req' = Idle
      /\ UNCHANGED <<workflow, run, immutable, mutable, pod, polls, lost, writes, overwritten, polled>>
  BY DEF GetState, MayAsk
<1>2. PICK w \in doc.writes :
          Tell("state", StateAnswer(w[1][4], StateManagerGet(Store, me, w[1][4])))
  BY DEF GetState
<1> DEFINE name   == w[1][4]
           found  == StateManagerGet(Store, me, name)
           answer == StateAnswer(name, found)
<1>3. Right("state", answer)
  <2>1. found = KVGet(mutable, stateKey(Name(workflow), name))
    BY DEF StateManagerGet, Store, StoreOf, me, doc, Name
  <2> HIDE DEF name
  <2>2. CASE stateKey(Name(workflow), name) \in DOMAIN mutable
    <3>1. found.ok /\ found.v = mutable[stateKey(Name(workflow), name)]
      BY <2>1, <2>2 DEF KVGet, Found
    <3> HIDE DEF found
    <3>2. answer.value = JSONForm(found.v) /\ answer.key = name
      BY <3>1 DEF StateAnswer
    <3> HIDE DEF answer
    <3> QED
      BY <2>2, <3>1, <3>2 DEF Right
  <2>3. CASE stateKey(Name(workflow), name) \notin DOMAIN mutable
    <3>1. found = NotFound
      BY <2>1, <2>3 DEF KVGet
    <3>2. NotFound.ok = FALSE
      BY Zenon DEF NotFound
    <3> HIDE DEF found
    <3>3. answer = NoAnswer
      BY <3>1, <3>2 DEF StateAnswer
    <3> QED
      BY <3>3, NoAnswerRight
  <2> QED
    BY <2>2, <2>3
<1> HIDE DEF answer
<1>4. Tell("state", answer)
  BY <1>2 DEF answer
<1> QED
  BY <1>1, <1>3, <1>4, TellIInv

\* What is told of secrets and events is not from the ConfigMaps.
LEMMA OtherIInv ==
    ASSUME IInv, GetSecret \/ PostEvent
    PROVE  IInv'
<1>1. /\ pod = "passed" /\ req' = Idle
      /\ UNCHANGED <<workflow, run, immutable, mutable, pod, polls, lost, writes, overwritten, polled>>
  BY DEF GetSecret, PostEvent, MayAsk
<1>2. \E what \in {"secret", "event"} : \E answer : Tell(what, answer)
  BY DEF GetSecret, PostEvent
<1>3. \A what \in {"secret", "event"} : \A answer : Right(what, answer)
  BY DEF Right
<1> QED
  BY <1>1, <1>2, <1>3, TellIInv

LEMMA AnsweredIInv ==
    ASSUME IInv, Answered
    PROVE  IInv'
<1> DEFINE rv     == Result
           what   == req.what
           answer == CASE ~rv.ok -> NoAnswer
                       [] rv.ok /\ what = "spec" -> JSONResultEnvelope(rv)
                       [] rv.ok /\ what = "environment" -> EnvironmentEnvelope(rv)
                       [] OTHER -> [ok |-> TRUE, value |-> rv.v, complete |-> Complete(rv),
                                    tree |-> req.tree]
<1>1. /\ pod = "passed" /\ AllRead /\ req' = Idle /\ Tell(what, answer)
      /\ UNCHANGED <<workflow, run, immutable, mutable, pod, polls, lost, writes, overwritten, polled>>
  BY DEF Answered
<1>2. /\ req # Idle /\ what \in {"spec", "environment", "variable"}
      /\ req.tree \in Served(workflow, what)
  BY <1>1 DEF AllRead, IInv, RequestInv, Endpoints
<1>3. /\ rv = Eval(workflow, what, req.tree, req.reads)
      /\ ~overwritten => req.reads \in Readings(workflow, what, req.tree, mutable)
  BY <1>1, ResultIs DEF IInv
<1>4. answer.complete => Complete(rv) /\ answer.value = Said(what, rv.v)
  <2> HIDE DEF rv, what
  <2>1. CASE ~rv.ok
    <3>1. answer = NoAnswer
      BY <2>1
    <3>2. NoAnswer.complete = FALSE
      BY Zenon DEF NoAnswer
    <3> QED
      BY <3>1, <3>2
  <2>2. CASE rv.ok /\ what = "spec"
    <3>1. answer = JSONResultEnvelope(rv)
      BY <2>2
    <3> QED
      BY <2>2, <3>1 DEF JSONResultEnvelope, Said
  <2>3. CASE rv.ok /\ what = "environment"
    <3>1. answer = EnvironmentEnvelope(rv)
      BY <2>3
    <3> QED
      BY <2>3, <3>1 DEF EnvironmentEnvelope, Said
  <2>4. CASE rv.ok /\ what = "variable"
    <3>1. answer = [ok |-> TRUE, value |-> rv.v, complete |-> Complete(rv), tree |-> req.tree]
      BY <2>4
    <3> QED
      BY <2>4, <3>1 DEF Said
  <2> QED
    BY <1>2, <2>1, <2>2, <2>3, <2>4
<1> HIDE DEF rv, what, answer
<1>5. Right(what, answer)
  BY <1>2, <1>3, <1>4 DEF Right
<1> QED
  BY <1>1, <1>2, <1>5, TellIInv

-----------------------------------------------------------------------------
(* Theorems *)

LEMMA StutterIInv ==
    ASSUME IInv, UNCHANGED vars
    PROVE  IInv'
<1>1. UNCHANGED <<workflow, run, immutable, mutable, pod, polls, req, got, lost, writes,
                  overwritten, polled>>
  BY DEF vars
<1>2. TypeOK'
  BY <1>1 DEF IInv, TypeOK
<1>3. MapsInv' /\ RequestInv' /\ ReadsCurrent' /\ PolledInv' /\ PollInv'
  BY <1>1, FrameMaps, FrameRequest, FrameReads, FramePolled, FramePoll DEF IInv
<1>4. ScriptInv' /\ OutcomeInv' /\ GotInv'
  BY <1>1, FrameScript, FrameOutcome, FrameGot DEF IInv
<1> QED
  BY <1>2, <1>3, <1>4 DEF IInv

\* The invariant is kept by every step: by each action of the operator, the
\* script, the API's handlers and the step, whatever is written meanwhile.
LEMMA NextIInv ==
    ASSUME IInv, [Next]_vars
    PROVE  IInv'
<1>1. CASE Decode
  BY <1>1, DecodeIInv
<1>2. CASE ConfigureImmutable
  BY <1>2, ConfigureIInv
<1>3. CASE Write
  BY <1>3, WriteIInv
<1>4. CASE StartStep
  BY <1>4, StartStepIInv
<1>5. CASE Poll
  BY <1>5, PollIInv
<1>6. CASE ReadReference
  BY <1>6, ReadReferenceIInv
<1>7. CASE PollAnswered
  BY <1>7, PollAnsweredIInv
<1>8. CASE PollLost
  BY <1>8, PollLostIInv
<1>9. CASE GetSpec \/ GetEnvironment
  BY <1>9, AskForIInv DEF GetSpec, GetEnvironment
<1>10. CASE GetEnvironmentVariable
  BY <1>10, GetEnvironmentVariableIInv
<1>11. CASE GetState
  BY <1>11, GetStateIInv
<1>12. CASE GetSecret \/ PostEvent
  BY <1>12, OtherIInv
<1>13. CASE Answered
  BY <1>13, AnsweredIInv
<1>14. CASE UNCHANGED vars
  BY <1>14, StutterIInv
<1> QED
  BY <1>1, <1>2, <1>3, <1>4, <1>5, <1>6, <1>7, <1>8, <1>9, <1>10, <1>11, <1>12, <1>13, <1>14
     DEF Next

\* The inductive invariant: what a request has read, how the step was decided
\* and what it was told follow from the mutable ConfigMap as it is now.
THEOREM ConditionsInvariant == Spec => []IInv
<1>1. Init => IInv
  BY InitIInv
<1>2. IInv /\ [Next]_vars => IInv'
  BY NextIInv
<1> QED
  BY <1>1, <1>2, PTL DEF Spec

\* Types and phases: a step starts only after its run was applied, the script
\* never exceeds POLLING_ITERATIONS, and the poll in flight is for conditions.
THEOREM ConditionsTypeOK == Spec => []TypeOK
<1>1. IInv => TypeOK
  BY DEF IInv
<1> QED
  BY <1>1, ConditionsInvariant, PTL

\* Each reference that a request has read has, as long as nothing is replaced,
\* the value that the managers would give now, or was not there when it was
\* read: the reads of one evaluation, made at different times, never disagree.
THEOREM ReadsStayCurrent == Spec => []ReadsCurrent
<1>1. IInv => ReadsCurrent
  BY DEF IInv
<1> QED
  BY <1>1, ConditionsInvariant, PTL

LEMMA RunsOnlyIfTrueFrom ==
    ASSUME IInv
    PROVE  RunsOnlyIfTrue
<1> SUFFICES ASSUME doc.kind = "step", pod = "passed", ~overwritten
             PROVE  AllTrue(Conditional(workflow, mutable))
  BY DEF RunsOnlyIfTrue
<1>1. run = "applied" /\ (Served(workflow, "conditions") = {} \/ Answers("true"))
  BY DEF IInv, OutcomeInv
<1>2. workflow \in Ready /\ mutable \in Maps(workflow)
  BY <1>1, Applied
<1>3. CASE Served(workflow, "conditions") = {}
  <2>1. Conditional(workflow, mutable) = <<>>
    BY <1>2, <1>3, ConditionsLaw DEF doc
  <2>2. DOMAIN Conditional(workflow, mutable) = {}
    BY <2>1
  <2> QED
    BY <2>2 DEF AllTrue
<1>4. CASE Answers("true")
  BY <1>2, <1>4, ConditionsRight DEF Answers
<1> QED
  BY <1>1, <1>3, <1>4

\* A step runs only if all conditions of the document hold, for every document,
\* evaluator and resolver that satisfy the laws (GetConditions).
THEOREM RunsTrue == Spec => []RunsOnlyIfTrue
<1>1. IInv => RunsOnlyIfTrue
  BY RunsOnlyIfTrueFrom
<1> QED
  BY <1>1, ConditionsInvariant, PTL

\* A step is skipped only if one of its conditions is false: one that could not
\* be resolved when it was read never counts as false (GetConditions).
THEOREM SkippedFalse == Spec => []SkippedOnlyIfFalse
<1>1. ASSUME IInv
      PROVE  SkippedOnlyIfFalse
  <2> SUFFICES ASSUME pod = "failed", ~overwritten
               PROVE  SomeFalse(Conditional(workflow, mutable))
    BY DEF SkippedOnlyIfFalse
  <2>1. run = "applied" /\ Answers("false")
    BY <1>1 DEF IInv, OutcomeInv
  <2>2. workflow \in Ready /\ mutable \in Maps(workflow)
    BY <1>1, <2>1, Applied
  <2> QED
    BY <2>1, <2>2, ConditionsRight DEF Answers
<1> QED
  BY <1>1, ConditionsInvariant, PTL

\* The script gives up only on conditions that could not be decided when its
\* last poll began, or of which one is in error (ConditionScript).
THEOREM ExpiredUndecided == Spec => []ExpiredOnlyUndecided
<1>1. ASSUME IInv
      PROVE  ExpiredOnlyUndecided
  <2> SUFFICES ASSUME pod = "expired", ~overwritten, polled # <<>>
               PROVE  \/ ~Decided(Conditional(workflow, polled[1]))
                      \/ InError(Conditional(workflow, mutable))
    BY DEF ExpiredOnlyUndecided
  <2>1. PICK tree \in Served(workflow, "conditions") :
          \E reads \in Readings(workflow, "conditions", tree, mutable) :
              /\ AnswerIs("error", workflow, tree, reads)
              /\ \A tm \in RefsOf(tree) :
                    reads[tm] = NotFound => Read(workflow, "conditions", polled[1], tm) = NotFound
    BY <1>1 DEF IInv, OutcomeInv
  <2>2. PICK reads \in Readings(workflow, "conditions", tree, mutable) :
              /\ AnswerIs("error", workflow, tree, reads)
              /\ \A tm \in RefsOf(tree) :
                    reads[tm] = NotFound => Read(workflow, "conditions", polled[1], tm) = NotFound
    BY <2>1
  <2>3. run = "applied" /\ polled[1] \in Maps(workflow) /\ Extension(polled[1], mutable)
    BY <1>1 DEF IInv, PolledInv
  <2>4. workflow \in Ready /\ mutable \in Maps(workflow)
    BY <1>1, <2>3, Applied
  <2> QED
    BY <2>2, <2>3, <2>4, ErrorRight
<1> QED
  BY <1>1, ConditionsInvariant, PTL

\* What an endpoint told of a tree, when it was complete, is what it would tell
\* if all references were read at once, now.
LEMMA ToldNow ==
    ASSUME IInv, run = "applied", ~overwritten, NEW what \in {"spec", "environment", "variable"},
           what \in DOMAIN got, got[what].complete
    PROVE  \E tree \in Served(workflow, what) :
               LET rv == Eval(workflow, what, tree, Full(workflow, what, tree, mutable))
               IN  Complete(rv) /\ got[what].value = Said(what, rv.v)
<1>1. PICK tree \in Served(workflow, what) :
          \E reads \in Readings(workflow, what, tree, mutable) :
              /\ Complete(Eval(workflow, what, tree, reads))
              /\ got[what].value = Said(what, Eval(workflow, what, tree, reads).v)
  BY DEF IInv, GotInv, ToldOf
<1>2. PICK reads \in Readings(workflow, what, tree, mutable) :
          /\ Complete(Eval(workflow, what, tree, reads))
          /\ got[what].value = Said(what, Eval(workflow, what, tree, reads).v)
  BY <1>1
<1>3. Eval(workflow, what, tree, Full(workflow, what, tree, mutable)) = Eval(workflow, what, tree, reads)
  BY <1>2, Applied, PartsOf, FullAgrees DEF Endpoints
<1> QED
  BY <1>2, <1>3

\* What a step or trigger is told, when it is complete, is what the document
\* means: its specification, its environment, one variable of it, and the
\* approval of a step that was approved (GetSpec and the other handlers).
THEOREM SpecAsMeant == Spec => []SpecServed
<1>1. ASSUME IInv, ~overwritten, DOMAIN got # {}
      PROVE  run = "applied" /\ pod = "passed" /\ workflow \in Ready /\ mutable \in Maps(workflow)
             /\ Store = StoreOf(workflow, Data(workflow), mutable) /\ me = Name(workflow)
  <2>1. run = "applied" /\ pod = "passed"
    BY <1>1 DEF IInv, GotInv, OutcomeInv
  <2> QED
    BY <1>1, <2>1, Applied DEF Store
<1>2. ASSUME IInv, ~overwritten, "spec" \in DOMAIN got, got["spec"].complete
      PROVE  Value(got["spec"].value) = SpecMeaning(workflow, mutable)
  <2>1. workflow \in Ready /\ mutable \in Maps(workflow) /\ run = "applied"
    BY <1>1, <1>2
  <2>2. PICK tree \in Served(workflow, "spec") :
            LET rv == Eval(workflow, "spec", tree, Full(workflow, "spec", tree, mutable))
            IN  Complete(rv) /\ got["spec"].value = Said("spec", rv.v)
    BY <1>2, <2>1, ToldNow
  <2> QED
    BY <2>1, <2>2, AnswersLaw DEF Said, Full
<1>3. ASSUME IInv, ~overwritten, "environment" \in DOMAIN got, got["environment"].complete
      PROVE  got["environment"].value = Now(Inlined(Resource[workflow].v.env), "environment").v
  <2>1. /\ workflow \in Ready /\ mutable \in Maps(workflow) /\ run = "applied"
        /\ Store = StoreOf(workflow, Data(workflow), mutable) /\ me = Name(workflow)
    BY <1>1, <1>3
  <2>2. PICK tree \in Served(workflow, "environment") :
            LET rv == Eval(workflow, "environment", tree, Full(workflow, "environment", tree, mutable))
            IN  Complete(rv) /\ got["environment"].value = Said("environment", rv.v)
    BY <1>3, <2>1, ToldNow
  <2> QED
    BY <2>1, <2>2, AnswersLaw DEF Said, Full, Now
<1>4. ASSUME IInv, ~overwritten, "variable" \in DOMAIN got, got["variable"].complete
      PROVE  \E x \in DOMAIN doc.env :
                 got["variable"].value = Now(Inlined(Resource[workflow].v.env.m[x]), "variable").v
  <2>1. /\ workflow \in Ready /\ mutable \in Maps(workflow) /\ run = "applied"
        /\ Store = StoreOf(workflow, Data(workflow), mutable) /\ me = Name(workflow)
    BY <1>1, <1>4
  <2>2. PICK tree \in Served(workflow, "variable") :
            LET rv == Eval(workflow, "variable", tree, Full(workflow, "variable", tree, mutable))
            IN  Complete(rv) /\ got["variable"].value = Said("variable", rv.v)
    BY <1>4, <2>1, ToldNow
  <2>3. PICK x \in DOMAIN Environment(workflow) : tree = Environment(workflow)[x]
    BY DEF Served
  <2>4. /\ x \in DOMAIN Documents[workflow].env
        /\ Eval(workflow, "variable", tree, Full(workflow, "variable", tree, mutable)).v =
               Now(Inlined(Resource[workflow].v.env.m[x]), "variable").v
    BY <2>1, <2>2, <2>3, AnswersLaw DEF Full, Now
  <2> QED
    BY <2>2, <2>4 DEF Said, doc
<1>5. ASSUME IInv, ~overwritten, "state" \in DOMAIN got, got["state"].complete,
             doc.kind = "step", doc.step.type = "approval", got["state"].key = "approval"
      PROVE  got["state"].value = Str(<<"approved">>)
  <2>1. workflow \in Ready /\ mutable \in Maps(workflow) /\ pod = "passed"
    BY <1>1, <1>5
  <2>2. AllTrue(Conditional(workflow, mutable))
    BY <1>5, <2>1, RunsOnlyIfTrueFrom DEF RunsOnlyIfTrue
  <2>3. JSONForm(mutable[stateKey(Name(workflow), "approval")]) = Str(<<"approved">>)
    BY <1>5, <2>1, <2>2, ConditionsLaw DEF doc
  <2>4. got["state"].value = JSONForm(mutable[stateKey(Name(workflow), "approval")])
    BY <1>5 DEF IInv, GotInv, ToldState
  <2> QED
    BY <2>3, <2>4
<1>6. IInv => SpecServed
  BY <1>2, <1>3, <1>4, <1>5 DEF SpecServed
<1> QED
  BY <1>6, ConditionsInvariant, PTL
=============================================================================
