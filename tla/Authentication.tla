---------------------------- MODULE Authentication ----------------------------
(***************************************************************************)
(* Requests of steps and triggers to the metadata API (pkg/authenticate    *)
(* and the middleware of pkg/metadataapi/server).  A request carries       *)
(* nothing but the address it comes from, which proxies pass on: the API   *)
(* looks the pod up by that address, takes the token from the pod or, for  *)
(* the pod of a condition, from the Condition it was made from, has it     *)
(* decrypted for the namespace of the pod, has its claims resolved and     *)
(* validated, and gives the handler the managers of the claimed action.    *)
(* Pods come and go meanwhile, addresses are used again, tokens expire,    *)
(* and the status of a pod in the Kubernetes API lags behind the pod.      *)
(* TokenStore says what the operator provides to steps.                    *)
(***************************************************************************)
EXTENDS TokenStore, FiniteSets, Sequences

CONSTANTS
    Pods,       \* identities for pods
    Askers,     \* those whose requests are followed: requests of different
                \* pods have no state in common
    IPs,        \* addresses of pods
    Triggers,   \* names of webhook triggers
    EventSink,  \* whether their tenant has an event sink
    MaxFailures,    \* bound on calls that fail for a reason of their own
    Delegates,  \* the configured resolvers: Vault if at all first, keys, one of them the operator's
    VaultPaths, \* the paths in Vault that the claims name
    ProxyHops,  \* the proxies in front of the API, which it is told to trust
    Headers,    \* what a client may send as x-forwarded-for itself
    Proxy,      \* the address of a proxy
    Garbled     \* what is no address

ASSUME PodsAssumption      == IsFiniteSet(Pods)
ASSUME AskersAssumption    == Askers \subseteq Pods
ASSUME FailuresAssumption  == MaxFailures \in Nat
ASSUME DelegatesAssumption == 
    /\ Delegates \in Seq({"vault", "key", "otherkey"})
    /\ \A i \in DOMAIN Delegates : Delegates[i] = "vault" => i = 1
ASSUME PathsAssumption     == VaultPaths \subseteq {"engine", "connections", "secrets"}
ASSUME ProxyAssumption     ==
    /\ ProxyHops \in Nat /\ Garbled \notin IPs \cup {Proxy}
    /\ \A h \in Headers : h \in Seq(IPs \cup {Proxy, Garbled})

VARIABLES
    pod,        \* the pods
    expired,    \* the targets whose token has expired
    req,        \* the request of each pod, or its answer
    failures

vars == <<storeVars, pod, expired, req, failures>>

Trigger(n) == <<"trigger", n>>
PodTargets == Targets \cup {Trigger(n) : n \in Triggers}

\* The token of a trigger names the namespace it was encrypted for, and the trigger.
TriggerToken(n, name) == [ns |-> n, trigger |-> name]

\* A pod has what it runs for, its namespace and address, the token annotation
\* it was created with and whether that has expired, whether its processes run
\* and whether the Kubernetes API shows it as running.
NoPod  == [alive |-> FALSE, listed |-> FALSE]
Silent == [phase |-> "none"]

Init ==
    /\ StoreInit
    /\ pod = [p \in Pods |-> NoPod]
    /\ expired = {}
    /\ req = [p \in Askers |-> Silent]
    /\ failures = 0

-----------------------------------------------------------------------------
(* Pods *)

\* A pod gets an address that no pod that runs has.
Start(p, t, ip, tok, late) ==
    /\ pod[p] = NoPod /\ (p \in Askers => req[p] = Silent)
    /\ \A q \in Pods : pod[q].alive => pod[q].ip # ip
    /\ pod' = [pod EXCEPT ![p] =
                [alive |-> TRUE, listed |-> FALSE, ns |-> ns, ip |-> ip, target |-> t,
                 token |-> tok, expired |-> late]]
    /\ UNCHANGED <<storeVars, expired, req, failures>>

\* Tekton starts a pod of a step once the Pipeline is there.  Annotations of a
\* Task are passed on to its pod, those of a Condition are not.
StartPod(p, t, ip) ==
    /\ applied
    /\ \A q \in Pods : pod[q].alive => pod[q].target # t
    /\ IF t[1] = "task" THEN Start(p, t, ip, token[t], t \in expired)
       ELSE Start(p, t, ip, NoToken, FALSE)

\* Knative starts a pod of a trigger with the annotations of its service.  Its
\* token was encrypted for the namespace as it is or was, and does not expire.
StartTrigger(p, name, ip) ==
    \E n \in 1..ns : Start(p, Trigger(name), ip, TriggerToken(n, name), FALSE)

\* The kubelet updates the status of the pod; one that has ended goes.
PodStatus(p) ==
    /\ pod[p] # NoPod /\ ~(pod[p].alive /\ pod[p].listed)
    /\ pod' = [pod EXCEPT ![p] = IF pod[p].alive THEN [@ EXCEPT !.listed = TRUE] ELSE NoPod]
    /\ UNCHANGED <<storeVars, expired, req, failures>>

\* A pod ends by itself, or is deleted; its address is free at once.  One that
\* was never shown as running will not be.  Nobody waits for the answer to its
\* request any more, which is dropped: authentication only reads.
EndPod(p) ==
    /\ pod[p].alive
    /\ pod' = [pod EXCEPT ![p] = IF pod[p].listed THEN [@ EXCEPT !.alive = FALSE] ELSE NoPod]
    /\ req' = [q \in Askers |-> IF q = p THEN Silent ELSE req[q]]
    /\ UNCHANGED <<storeVars, expired, failures>>

\* The copy of an expired token in a pod has expired as well.
Aged(q, t) ==
    IF q # NoPod /\ q.target = t /\ q.token # NoToken THEN [q EXCEPT !.expired = TRUE] ELSE q

\* The token of a target expires 65 minutes after it was issued, and with it the
\* copies that pods have.  It is not replaced.
Expire(t) ==
    /\ token[t] # NoToken /\ t \notin expired
    /\ expired' = expired \cup {t}
    /\ pod' = [q \in Pods |-> Aged(pod[q], t)]
    /\ UNCHANGED <<storeVars, req, failures>>

\* The copy of a token that the target no longer has expires.
ExpireCopy(p) ==
    /\ pod[p] # NoPod /\ pod[p].target \in Targets /\ ~pod[p].expired
    /\ pod[p].token \notin {NoToken, token[pod[p].target]}
    /\ pod' = [pod EXCEPT ![p].expired = TRUE]
    /\ UNCHANGED <<storeVars, expired, req, failures>>

-----------------------------------------------------------------------------
(* Requests.  An answer is kept until the pod asks again. *)

Pending == {"sent", "pod", "namespace", "token"}

Answer(p, status)   == req' = [req EXCEPT ![p] = [phase |-> status]]
Unauthorized(p)     == Answer(p, "401")
InternalError(p)    == Answer(p, "500")

\* WithTrustedProxyHops: the last n forwarded addresses are taken one by one from
\* the right, each in place of the one before, until one is no address.
TrustedHop(peer, hops, n) ==
    LET taken == {i \in DOMAIN hops : /\ i > Len(hops) - n
                                      /\ \A j \in i..Len(hops) : hops[j] # Garbled}
    IN  IF taken = {} THEN peer ELSE hops[CHOOSE i \in taken : \A j \in taken : i <= j]

\* Each proxy appends the address it was called from to what it was sent.
Forwarded(ip, sent) ==
    sent \o [i \in 1..ProxyHops |-> IF i = 1 THEN ip ELSE Proxy]

\* A pod asks, with a header of its own choice.  The sender of a request is kept
\* for the properties: the API does not know it.
Ask(p) ==
    /\ pod[p].alive /\ req[p].phase \in {"none", "401", "500"}
    /\ \E sent \in Headers :
          LET peer == IF ProxyHops = 0 THEN pod[p].ip ELSE Proxy
          IN  req' = [req EXCEPT ![p] =
                [phase |-> "sent",
                 from |-> TrustedHop(peer, Forwarded(pod[p].ip, sent), ProxyHops)]]
    /\ UNCHANGED <<storeVars, pod, expired, failures>>

\* What the API uses of a pod that it found.
Copy(q) == [target |-> q.target, token |-> q.token, expired |-> q.expired]

Running(ip) == {q \in Pods : pod[q].listed /\ pod[q].ip = ip}

\* Mutant: the first of several pods is taken.
LookupAnyPod(p) ==
    /\ req[p].phase = "sent"
    /\ LET found == Running(req[p].from)
       IN  \/ /\ found # {}
              /\ \E q \in found :
                    req' = [req EXCEPT ![p] = [phase |-> "pod", pod |-> Copy(pod[q]),
                                               own |-> p \in found]]
           \/ found = {} /\ Unauthorized(p)
    /\ UNCHANGED <<storeVars, pod, expired, failures>>

\* KubernetesIntermediary: exactly one pod must be running at the address.
LookupPod(p) ==
    /\ req[p].phase = "sent"
    /\ LET found == Running(req[p].from)
       IN  \/ /\ Cardinality(found) = 1
              /\ \E q \in found :
                    req' = [req EXCEPT ![p] = [phase |-> "pod", pod |-> Copy(pod[q]),
                                               own |-> p \in found]]
           \/ Cardinality(found) # 1 /\ Unauthorized(p)
    /\ UNCHANGED <<storeVars, pod, expired, failures>>

\* The namespace is found by its name.
GetNamespace(p) ==
    /\ req[p].phase = "pod"
    /\ IF ns = 0 THEN Unauthorized(p)
       ELSE req' = [req EXCEPT ![p] = [phase |-> "namespace", pod |-> req[p].pod,
                                       own |-> req[p].own, ns |-> ns]]
    /\ UNCHANGED <<storeVars, pod, expired, failures>>

\* Mutant: the annotation of the pod is all there is.
ReadTokenOfPod(p) ==
    /\ req[p].phase = "namespace"
    /\ LET q == req[p].pod
       IN  IF q.token # NoToken
           THEN req' = [req EXCEPT ![p] = [phase |-> "token", token |-> q.token,
                                           expired |-> q.expired,
                                           own |-> req[p].own, ns |-> req[p].ns]]
           ELSE Unauthorized(p)
    /\ UNCHANGED <<storeVars, pod, expired, failures>>

\* A pod without a token is taken for the pod of the Condition that has the
\* name of its pipeline task, which is the name of the step.
ReadToken(p) ==
    /\ req[p].phase = "namespace"
    /\ LET q == req[p].pod
           c == Condition(q.target[2])
           With(tok, late) ==
              req' = [req EXCEPT ![p] = [phase |-> "token", token |-> tok, expired |-> late,
                                         own |-> req[p].own, ns |-> req[p].ns]]
       IN  \/ q.token # NoToken /\ With(q.token, q.expired)
           \/ /\ q.token = NoToken
              /\ IF c \in Targets /\ token[c] # NoToken THEN With(token[c], c \in expired)
                 ELSE Unauthorized(p)
    /\ UNCHANGED <<storeVars, pod, expired, failures>>

\* Vault decrypts a token only in the context of the namespace it was encrypted
\* for; anything else is an error of Vault.
Decrypted(tok, n) == tok.ns = n

\* The claims that are in a token.  Those of a trigger name no run.
Claims(tok) ==
    IF "step" \in DOMAIN tok
    THEN [ns |-> tok.ns, subject |-> Task(tok.step), run |-> TRUE, name |-> tok.step]
    ELSE [ns |-> tok.ns, subject |-> Trigger(tok.trigger), run |-> FALSE, name |-> tok.trigger]

\* Claims.Action: what the claims were issued for, made again from what they name.
\* It counts only if it is their subject.
NoAction == <<>>
Action(claims) ==
    LET action == CASE claims.subject[1] = "task" /\ claims.run -> Task(claims.name)
                    [] claims.subject[1] = "trigger"            -> Trigger(claims.name)
                    [] OTHER                                    -> NoAction
    IN  IF action = claims.subject THEN action ELSE NoAction

\* Vault refuses the login with an expired token, an error like any other of its
\* errors.  A key is used without expectations, so that it accepts every token
\* that was signed with it, expired or not.
VaultResolver(late) == IF late THEN "error" ELSE "found"
KeyResolver(key)    == IF key = "key" THEN "found" ELSE "notfound"

Resolve(delegate, late) ==
    IF delegate = "vault" THEN VaultResolver(late) ELSE KeyResolver(delegate)

\* AnyResolver: the delegate that decides is the first one that knows the token or
\* fails otherwise; 0 if there is none.
AnyResolver(late) ==
    LET decisive == {i \in DOMAIN Delegates : Resolve(Delegates[i], late) # "notfound"}
    IN  IF decisive = {} THEN 0 ELSE CHOOSE i \in decisive : \A j \in decisive : i <= j

\* What becomes of a token.
Resolved(late) ==
    IF AnyResolver(late) = 0 THEN "notfound" ELSE Resolve(Delegates[AnyResolver(late)], late)

\* With the login to Vault come the managers of secrets and connections, of those
\* whose paths the claims name.
VaultInjector(late) ==
    IF Delegates[AnyResolver(late)] = "vault" /\ "engine" \in VaultPaths
    THEN VaultPaths \ {"engine"} ELSE {}

\* The managers of the claimed action.  Only a step has parameters and outputs;
\* only the claims of a trigger name an event API.
Injector(action) ==
    {"conditions", "environment", "spec", "state"}
        \cup (IF action[1] = "task" THEN {"parameters", "outputs"} ELSE {})
        \cup (IF action[1] = "trigger" /\ EventSink THEN {"events"} ELSE {})

\* MetadataBuilder: what is not set rejects.
Build(injected) ==
    [m \in {"connections", "conditions", "events", "environment", "parameters", "secrets",
            "spec", "state", "outputs"} |-> m \in injected]

\* The claims must name the namespace the pod was found in, and the subject that
\* its annotation names; the subject is annotated together with the token.
Validated(claims, n) == claims.ns = n

\* Nothing is read in the rest of the authentication.
Authenticate(p) ==
    /\ req[p].phase = "token"
    /\ LET tok    == req[p].token
           late   == req[p].expired
           claims == Claims(tok)
           action == Action(claims)
       IN  \/ ~Decrypted(tok, req[p].ns) /\ InternalError(p)
           \/ /\ Decrypted(tok, req[p].ns)
              /\ \/ /\ Resolved(late) # "found"
                    /\ Answer(p, IF Resolved(late) = "error" THEN "500" ELSE "401")
                 \/ /\ Resolved(late) = "found"
                    /\ IF action # NoAction /\ Validated(claims, req[p].ns)
                       THEN req' = [req EXCEPT ![p] =
                              [phase |-> "200", own |-> req[p].own, ns |-> claims.ns,
                               action |-> action,
                               managers |-> Build(VaultInjector(late) \cup Injector(action))]]
                       ELSE Unauthorized(p)
    /\ UNCHANGED <<storeVars, pod, expired, failures>>

\* A call of the Kubernetes API or of Vault fails.
RequestFails(p) ==
    /\ req[p].phase \in Pending
    /\ failures < MaxFailures
    /\ failures' = failures + 1
    /\ InternalError(p)
    /\ UNCHANGED <<storeVars, pod, expired>>

-----------------------------------------------------------------------------
\* The token is looked up through the pod, then decrypted by Vault.
Intermediary(p) == LookupPod(p) \/ GetNamespace(p) \/ ReadToken(p)

Handle(p) == Intermediary(p) \/ Authenticate(p)

\* The pods of a namespace go before the namespace.
StoreStep ==
    /\ StoreNext
    /\ ns # 0 /\ ns' = 0 => \A p \in Pods : pod[p] = NoPod
    /\ expired' = {t \in expired : token'[t] = token[t]}
    /\ UNCHANGED <<pod, req, failures>>

Next ==
    \/ StoreStep
    \/ \E p \in Pods :
          \/ \E t \in Targets, ip \in IPs : StartPod(p, t, ip)
          \/ \E name \in Triggers, ip \in IPs : StartTrigger(p, name, ip)
          \/ PodStatus(p) \/ EndPod(p) \/ ExpireCopy(p)
    \/ \E t \in Targets : Expire(t)
    \/ \E p \in Askers : Ask(p) \/ Handle(p) \/ RequestFails(p)

Spec == Init /\ [][Next]_vars

\* Kubelets report, handlers run to their end, and a pod that was refused asks
\* again.  Users need not do anything, pods need not end and tokens need not expire.
FairSpec ==
    /\ Spec
    /\ \A p \in Pods : WF_vars(PodStatus(p))
    /\ \A p \in Askers : WF_vars(Ask(p)) /\ WF_vars(Handle(p))

-----------------------------------------------------------------------------
(* Properties *)

\* Types; two pods that run never have the same address.
TypeOK ==
    /\ ns \in 0..lastns /\ lastns \in 0..MaxNamespaces
    /\ run \in BOOLEAN /\ applied \in BOOLEAN
    /\ \A t \in Targets : token[t] # NoToken => token[t].step = t[2] /\ token[t].ns \in 1..ns
    /\ expired \subseteq Targets /\ failures \in 0..MaxFailures
    /\ \A p \in Pods :
          /\ pod[p] # NoPod => pod[p].ip \in IPs /\ pod[p].target \in PodTargets /\ pod[p].ns = ns
          /\ p \in Askers => req[p].phase \in Pending \cup {"none", "200", "401", "500"}
    /\ \A p, q \in Pods : p # q /\ pod[p].alive /\ pod[q].alive => pod[p].ip # pod[q].ip

\* What a pod acts as: the pod of a condition acts as its step.
ActsAs(t) == IF t[1] = "trigger" THEN t ELSE Task(t[2])

\* A request that is served acts as the step or trigger that sent it, in the
\* namespace the sender runs in, if the sender still runs and the Kubernetes API
\* showed it when it was looked up; although pod, namespace and Condition were
\* read one after the other, addresses, names and tokens are used again, and the
\* sender may put any addresses into its headers (KubernetesIntermediary).
ServedAsSender ==
    \A p \in Askers :
        req[p].phase = "200" /\ pod[p].alive /\ req[p].own =>
            req[p].action = ActsAs(pod[p].target) /\ req[p].ns = pod[p].ns

\* The token that the API will find for a pod was issued for its namespace, and
\* the resolvers accept it, which they may not do when it has expired.
GoodToken(p) ==
    LET t == pod[p].target
    IN  IF t[1] = "condition"
        THEN token[t].ns = pod[p].ns /\ Resolved(t \in expired) = "found"
        ELSE pod[p].token.ns = pod[p].ns /\ Resolved(pod[p].expired) = "found"

\* A pod that goes on asking is served in the end, unless its token was issued for
\* another namespace or expires while Vault is asked, which is final as no token
\* is replaced: pods that had its address before it do not keep it out, and
\* nothing else that goes wrong is final (WithAuthentication).
PodServed ==
    \A p \in Askers :
        pod[p].alive ~> (~pod[p].alive \/ req[p].phase = "200" \/ ~GoodToken(p))

=============================================================================
