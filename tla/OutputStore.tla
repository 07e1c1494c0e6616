----------------------------- MODULE OutputStore -----------------------------
(***************************************************************************)
(* What the metadata API promises to the steps of a run about the outputs  *)
(* they publish and read: every PUT /outputs/{name} is one atomic write of *)
(* one name, applied at most once and at some instant between the request  *)
(* and its answer; every GET returns the value of that instant; and a      *)
(* PUT that was answered 201 has been applied.  A request that fails with  *)
(* an error may or may not have been applied.  The map itself may be       *)
(* created and deleted by others.                                          *)
(*                                                                         *)
(* MutableConfigMap.tla shows how the code keeps this promise with the     *)
(* read/modify/write loop of MutateConfigMap over a Kubernetes ConfigMap.  *)
(***************************************************************************)
CONSTANTS
    Client,     \* concurrent requests to the metadata API
    Output,     \* names under which outputs are stored
    Value,      \* output values
    None,       \* a name that holds no value
    Absent      \* the map does not exist

VARIABLES
    kv,         \* the map: Absent, or the value stored under each name
    req         \* per client, its current request

vars == <<kv, req>>

Map == [Output -> Value \cup {None}]

Status == {"idle", "pending", "applied", "ok", "error"}

Request == [verb : {"GET", "PUT"}, name : Output, value : Value \cup {None},
            status : Status]

TypeOK ==
    /\ kv \in Map \cup {Absent}
    /\ req \in [Client -> Request]

Init ==
    /\ kv = Absent
    /\ req \in [Client -> {r \in Request : r.status = "idle"}]

Unfinished(c) == req[c].status \in {"pending", "applied"}

\* A client sends a request.  A GET carries no value yet.
Invoke(c, r) ==
    /\ ~ Unfinished(c)
    /\ r.status = "pending"
    /\ r.verb = "GET" => r.value = None
    /\ req' = [req EXCEPT ![c] = r]
    /\ UNCHANGED kv

\* The instant of a PUT: exactly one name changes, from whatever map is there.
Apply(c) ==
    /\ req[c].status = "pending"
    /\ req[c].verb = "PUT"
    /\ kv # Absent
    /\ kv' = [kv EXCEPT ![req[c].name] = req[c].value]
    /\ req' = [req EXCEPT ![c].status = "applied"]

\* Only an applied PUT is acknowledged.
Acknowledge(c) ==
    /\ req[c].status = "applied"
    /\ req' = [req EXCEPT ![c].status = "ok"]
    /\ UNCHANGED kv

\* The instant of a GET; a 404 answer carries None.
Answer(c) ==
    /\ req[c].status = "pending"
    /\ req[c].verb = "GET"
    /\ req' = [req EXCEPT ![c] =
            [verb |-> "GET", name |-> req[c].name, status |-> "ok",
             value |-> IF kv = Absent THEN None ELSE kv[req[c].name]]]
    /\ UNCHANGED kv

\* A request that fails, before or after it took effect.
Fail(c) ==
    /\ Unfinished(c)
    /\ req' = [req EXCEPT ![c].status = "error"]
    /\ UNCHANGED kv

Create ==
    /\ kv = Absent
    /\ kv' = [n \in Output |-> None]
    /\ UNCHANGED req

Delete ==
    /\ kv # Absent
    /\ kv' = Absent
    /\ UNCHANGED req

Next ==
    \/ \E c \in Client :
          \/ \E r \in Request : Invoke(c, r)
          \/ Apply(c) \/ Acknowledge(c) \/ Answer(c) \/ Fail(c)
    \/ Create
    \/ Delete

Spec == Init /\ [][Next]_vars
=============================================================================
