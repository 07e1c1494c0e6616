--------------------------- MODULE MCWorkflowRun ---------------------------
(* Workflows for model checking WorkflowRun. *)
EXTENDS WorkflowRun

NoSteps == [steps |-> {}, dependsOn |-> << >>, when |-> {}]

Single == [steps |-> {"a"}, when |-> {}, dependsOn |-> [s \in {"a"} |-> {}]]

\* a, checked by a condition, then b, then c.
Chain ==
    [steps |-> {"a", "b", "c"}, when |-> {"a"},
     dependsOn |-> [s \in {"a", "b", "c"} |->
                        CASE s = "a" -> {} [] s = "b" -> {"a"} [] s = "c" -> {"b"}]]

\* a and b in parallel.
Parallel ==
    [steps |-> {"a", "b"}, when |-> {}, dependsOn |-> [s \in {"a", "b"} |-> {}]]

\* a then c, in parallel with b.
Fork ==
    [steps |-> {"a", "b", "c"}, when |-> {},
     dependsOn |-> [s \in {"a", "b", "c"} |-> IF s = "c" THEN {"a"} ELSE {}]]

MCSafety == {NoSteps, Chain, Parallel}
MCLive == {NoSteps, Single}
MCFork == {Fork}
=============================================================================
