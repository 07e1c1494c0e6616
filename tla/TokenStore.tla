------------------------------ MODULE TokenStore ------------------------------
(***************************************************************************)
(* What the operator promises to the metadata API about credentials: a     *)
(* Task or Condition is given one token, of its own step, for the          *)
(* namespace as it is or was, and once the Pipeline of a run is there all  *)
(* of them are there and stay while the run stays.  StepTokens shows how   *)
(* the operator keeps this promise; Authentication relies on it.           *)
(***************************************************************************)
EXTENDS Integers

CONSTANTS
    Steps,
    Conditional,    \* the steps that have a condition
    MaxNamespaces   \* bound on creations of the namespace

ASSUME StoreAssumption == Conditional \subseteq Steps /\ MaxNamespaces \in Nat

Task(s)      == <<"task", s>>
Condition(s) == <<"condition", s>>
Targets      == {Task(s) : s \in Steps} \cup {Condition(s) : s \in Conditional}

VARIABLES
    ns,         \* the UID of the namespace, 0 if there is none
    lastns,     \* the UID given last
    run,        \* whether there is a run
    token,      \* the token of each Task and Condition
    applied     \* the Pipeline of the run is there: its steps may be started

storeVars == <<ns, lastns, run, token, applied>>

\* A token names the namespace it was encrypted for, and the step.
NoToken     == [ns |-> 0]
Token(n, s) == [ns |-> n, step |-> s]

StoreInit ==
    /\ ns = 0 /\ lastns = 0 /\ run = FALSE
    /\ token = [t \in Targets |-> NoToken]
    /\ applied = FALSE

CreateNamespace ==
    /\ ns = 0 /\ lastns < MaxNamespaces
    /\ lastns' = lastns + 1
    /\ ns' = lastns + 1
    /\ UNCHANGED <<run, token, applied>>

\* Everything in the namespace goes with it.
DeleteNamespace ==
    /\ ns # 0
    /\ ns' = 0 /\ run' = FALSE /\ applied' = FALSE
    /\ token' = [t \in Targets |-> NoToken]
    /\ UNCHANGED lastns

CreateRun ==
    /\ ns # 0 /\ ~run
    /\ run' = TRUE
    /\ UNCHANGED <<ns, lastns, token, applied>>

DeleteRun ==
    /\ run
    /\ run' = FALSE /\ applied' = FALSE
    /\ UNCHANGED <<ns, lastns, token>>

\* The operator may know the namespace by an earlier UID.
Issue(t) ==
    /\ ns # 0 /\ token[t] = NoToken /\ ~applied
    /\ \E n \in 1..ns : token' = [token EXCEPT ![t] = Token(n, t[2])]
    /\ UNCHANGED <<ns, lastns, run, applied>>

\* The operator applies the Pipeline when every target has its token, which it
\* may have from an earlier run.
Apply ==
    /\ run /\ ~applied
    /\ \A t \in Targets : token[t] # NoToken
    /\ applied' = TRUE
    /\ UNCHANGED <<ns, lastns, run, token>>

\* The garbage collector removes what an earlier run left.
Remove(t) ==
    /\ token[t] # NoToken /\ ~applied
    /\ token' = [token EXCEPT ![t] = NoToken]
    /\ UNCHANGED <<ns, lastns, run, applied>>

StoreNext ==
    \/ CreateNamespace \/ DeleteNamespace \/ CreateRun \/ DeleteRun \/ Apply
    \/ \E t \in Targets : Issue(t) \/ Remove(t)

StoreSpec == StoreInit /\ [][StoreNext]_storeVars

=============================================================================
