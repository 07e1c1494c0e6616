--------------------------- MODULE MetadataManagers ---------------------------
(***************************************************************************)
(* The managers behind the metadata API (pkg/manager) and the resolvers    *)
(* that give the evaluator access to them.  A store holds the immutable    *)
(* and the mutable ConfigMap of a run, as functions from keys to values,   *)
(* and the part of Vault the step may read, as a function from paths to    *)
(* text; without Vault the managers of secrets and connections reject      *)
(* every request, and those of parameters and outputs reject a trigger's.  *)
(***************************************************************************)
EXTENDS Trees

CONSTANTS
    Documents,   \* a function from names to documents; each has a step or
                 \* trigger (by its kind), its environment, the parameters'
                 \* defaults and the ones the run is given, whether there is
                 \* Vault, and the writes others may do to the mutable
                 \* ConfigMap
    Vault,       \* what Vault holds: a function from paths to text
    JSONForm(_)  \* the value that is decoded from the JSON of a value

\* The store of the run of document w, with the contents of its ConfigMaps.
StoreOf(w, im, cm) ==
    [immutable |-> im, mutable |-> cm, vault |-> Vault,
     hasVault |-> Documents[w].hasVault, isStep |-> Documents[w].kind = "step"]

Found(v) == [ok |-> TRUE, v |-> v]
NotFound == [ok |-> FALSE, v |-> Nil]

-----------------------------------------------------------------------------
(* ConfigMaps *)

KVGet(cm, key) == IF key \in DOMAIN cm THEN Found(cm[key]) ELSE NotFound

\* The function f with y at x.
Put(f, x, y) == [z \in {x} \cup DOMAIN f |-> IF z = x THEN y ELSE f[z]]

\* A value is written as JSON and decoded again by every reader.
KVSet(cm, key, v) == Put(cm, key, JSONForm(v))

parameterKey(name)       == <<"parameters", name>>
stepOutputKey(step, name) == <<"steps", step, "output", name>>
stateKey(me, name)       == <<"steps", me, "state", name>>
conditionKey(me)         == <<"steps", me, "condition">>
specKey(me)              == <<"steps", me, "spec">>
environmentKey(me)       == <<"steps", me, "environment">>

ParameterManagerGet(st, name)        == KVGet(st.immutable, parameterKey(name))
StepOutputManagerGet(st, step, name) == KVGet(st.mutable, stepOutputKey(step, name))
StateManagerGet(st, me, name)        == KVGet(st.mutable, stateKey(me, name))

-----------------------------------------------------------------------------
(* Vault: secrets and connections.  The name of a connection points to an  *)
(* identifier under which its attributes are kept.                         *)

KVV2ReadString(vault, path) ==
    IF path \in DOMAIN vault THEN Found(Str(<<vault[path]>>)) ELSE NotFound

KVV2List(vault, path) ==
    {p[Len(path) + 1] : p \in {q \in DOMAIN vault :
        Len(q) = Len(path) + 1 /\ SubSeq(q, 1, Len(path)) = path}}

SecretManagerGet(vault, name) == KVV2ReadString(vault, <<"secrets", name>>)

ConnectionManagerGet(vault, typ, name) ==
    LET pointer == KVV2ReadString(vault, <<"connections", typ, name>>)
        id      == <<"connections", pointer.v.s[1]>>
    IN  IF pointer.ok /\ KVV2List(vault, id) # {}
        THEN Found(Map([x \in KVV2List(vault, id) |-> KVV2ReadString(vault, Append(id, x)).v]))
        ELSE NotFound

-----------------------------------------------------------------------------
(* Resolvers: the value of a reference for the step me, or NotFound, which *)
(* the evaluator reports as unresolvable.                                  *)

NameOf(tm, x) == TextField(tm, x).s[1]

ResolveParameter(st, tm)  == ParameterManagerGet(st, NameOf(tm, "name"))
ResolveOutput(st, tm)     == StepOutputManagerGet(st, NameOf(tm, "from"), NameOf(tm, "name"))
ResolveSecret(st, tm)     == SecretManagerGet(st.vault, NameOf(tm, "name"))
ResolveConnection(st, tm) == ConnectionManagerGet(st.vault, NameOf(tm, "type"), NameOf(tm, "name"))

\* The step that is asked is ignored: the answer is the asking step's state.
ResolveAnswer(st, me, tm) == StateManagerGet(st, me, NameOf(tm, "name"))

\* The resolvers each endpoint gives to its evaluator (GetSpec, GetConditions,
\* GetEnvironment and GetEnvironmentVariable).
Resolvers == [conditions  |-> {"Parameter", "Secret", "Output", "Answer"},
              spec        |-> {"Connection", "Parameter", "Output", "Secret"},
              environment |-> {"Parameter", "Output", "Secret"},
              variable    |-> {"Parameter", "Output", "Secret"}]

\* The types an endpoint resolves through a manager that rejects it.
RejectedTypes(st, what) ==
    Resolvers[what] \cap ((IF st.hasVault THEN {} ELSE {"Secret", "Connection"})
                          \cup (IF st.isStep THEN {} ELSE {"Parameter", "Output"}))

Resolve(st, me, what, tm) ==
    IF \/ tm.t \notin Resolvers[what] \ RejectedTypes(st, what)
       \/ \E x \in FieldsOf[tm.t] : TextField(tm, x) = Nil
    THEN NotFound
    ELSE CASE tm.t = "Parameter" -> ResolveParameter(st, tm)
           [] tm.t = "Output" -> ResolveOutput(st, tm)
           [] tm.t = "Answer" -> ResolveAnswer(st, me, tm)
           [] tm.t = "Secret" -> ResolveSecret(st, tm)
           [] tm.t = "Connection" -> ResolveConnection(st, tm)

\* The evaluator's environment for reads of references.
Env(st, what, reads) ==
    [val |-> [tm \in {x \in DOMAIN reads : reads[x].ok} |-> reads[tm].v],
     rej |-> RejectedTypes(st, what)]

=============================================================================
