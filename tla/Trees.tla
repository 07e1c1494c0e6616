-------------------------------- MODULE Trees --------------------------------
(***************************************************************************)
(* The values of the expression language of workflow documents (pkg/expr): *)
(* trees whose leaves may refer to secrets, connections, outputs,          *)
(* parameters and answers, may call library functions and may carry        *)
(* encoded text, and the results of evaluating them.                       *)
(*                                                                         *)
(* A tree is a tagged record.  The Go program uses maps with reserved keys *)
(* ({$type: T, ...}, {$fn.n: args}, {$encoding: e, data: d}); these are    *)
(* Typed, Invocation and Encoded here.  Text is a sequence of fragments,   *)
(* so that concatenation is what it is in the program.                     *)
(***************************************************************************)
EXTENDS Integers, Sequences, FiniteSets

-----------------------------------------------------------------------------
(* Trees *)

Nil              == [k |-> "nil"]
Str(s)           == [k |-> "str", s |-> s]
Bool(b)          == [k |-> "bool", b |-> b]
List(l)          == [k |-> "list", l |-> l]
Map(m)           == [k |-> "map", m |-> m]
Typed(t, f)      == [k |-> "typed", t |-> t, f |-> f, at |-> <<>>]
Invocation(n, a) == [k |-> "fn", n |-> n, a |-> a]
Encoded(e, d)    == [k |-> "enc", e |-> e, d |-> d]

\* The trees that the evaluator replaces; they and the maps are the kinds that
\* are a map[string]interface{} in the program.
IsExpression(v) == v.k \in {"typed", "fn", "enc"}
IsObject(v)     == v.k = "map" \/ IsExpression(v)

\* A single argument that is neither a list nor an object is one positional
\* argument.
Args(a) == IF a.k = "list" THEN a.l ELSE <<a>>

\* The children of a map or list, by a step of a path; a value that has the
\* form of a reference is a map with its fields.
IndexOf == [i \in {"0", "1"} |-> IF i = "0" THEN 1 ELSE 2]

HasChild(v, x) ==
    \/ v.k = "map" /\ x \in DOMAIN v.m
    \/ v.k = "typed" /\ x \in DOMAIN v.f
    \/ v.k = "list" /\ x \in DOMAIN IndexOf /\ IndexOf[x] <= Len(v.l)

Child(v, x) ==
    CASE v.k = "map" -> v.m[x]
      [] v.k = "typed" -> v.f[x]
      [] v.k = "list" -> v.l[IndexOf[x]]

-----------------------------------------------------------------------------
(* Results: an error, or a value with the references and calls that could  *)
(* not be resolved.                                                        *)

Failed        == [ok |-> FALSE, v |-> Nil, u |-> {}]
Partial(v, u) == [ok |-> TRUE, v |-> v, u |-> u]
Done(v)       == Partial(v, {})
Complete(r)   == r.ok /\ r.u = {}

-----------------------------------------------------------------------------
(* What an expression means at a moment, as a reader of the document would *)
(* say.                                                                    *)

Value(v) == [k |-> "value", v |-> v]
Unknown  == [k |-> "unknown"]
Error    == [k |-> "error"]

-----------------------------------------------------------------------------
(* References *)

FieldsOf == [Data |-> {"query"}, Secret |-> {"name"}, Connection |-> {"type", "name"},
             Output |-> {"from", "name"}, Parameter |-> {"name"},
             Answer |-> {"askRef", "name"}]

\* The text field of a reference, or Nil; an output may name its step in the
\* older field taskName.
TextField(tm, x) ==
    IF x \in DOMAIN tm.f /\ tm.f[x].k = "str" THEN tm.f[x]
    ELSE IF x = "from" /\ "taskName" \in DOMAIN tm.f /\ tm.f["taskName"].k = "str"
         THEN tm.f["taskName"]
         ELSE Nil

=============================================================================
