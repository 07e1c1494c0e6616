------------------------- MODULE AuthenticationProofs -------------------------
(***************************************************************************)
(* Theorems about Authentication, for every set of pods, of requests that  *)
(* are followed, of addresses, steps, triggers, proxies and headers, and   *)
(* every bound.                                                            *)
(***************************************************************************)
EXTENDS Authentication, TLAPS, FiniteSetTheorems, SequenceTheorems

\* A token names a namespace that there was, and a step or a trigger.  The store
\* has those of steps, a pod may have either or none.
OfStep    == [ns : Nat \ {0}, step : Steps]
OfTrigger == [ns : Nat \ {0}, trigger : Triggers]
TokenType == {NoToken} \cup OfStep
PodToken  == TokenType \cup OfTrigger

\* A pod that there is, what a request has of it, and all pods.
LivePod  == [alive : BOOLEAN, listed : BOOLEAN, ns : Nat \ {0}, ip : IPs, target : PodTargets,
             token : PodToken, expired : BOOLEAN]
CopyType == [target : PodTargets, token : PodToken, expired : BOOLEAN]
PodType == {NoPod} \cup LivePod

\* What a request may be given access to.
Managers == {"connections", "conditions", "events", "environment", "parameters", "secrets",
             "spec", "state", "outputs"}

\* A request in each of its phases, with what was read so far.
Answered   == [phase : {"none", "401", "500"}]
Sent       == [phase : {"sent"}, from : IPs]
PodFound   == [phase : {"pod"}, pod : CopyType, own : BOOLEAN]
SpaceFound == [phase : {"namespace"}, pod : CopyType, own : BOOLEAN, ns : Nat \ {0}]
TokenFound == [phase : {"token"}, token : OfStep \cup OfTrigger, expired : BOOLEAN,
               own : BOOLEAN, ns : Nat \ {0}]
Served     == [phase : {"200"}, own : BOOLEAN, ns : Nat \ {0}, action : PodTargets,
               managers : [Managers -> BOOLEAN]]
ReqType    == Answered \cup Sent \cup PodFound \cup SpaceFound \cup TokenFound \cup Served

\* The store: a token is of the step of its target and of a namespace that there
\* was, and without a namespace there is nothing.
StoreOK ==
    /\ lastns \in 0..MaxNamespaces /\ ns \in 0..lastns
    /\ run \in BOOLEAN /\ applied \in BOOLEAN
    /\ token \in [Targets -> TokenType]
    /\ \A t \in Targets : token[t] # NoToken => token[t].step = t[2] /\ token[t].ns \in 1..ns
    /\ applied => run
    /\ run => ns # 0

\* The pods: all of them are in the namespace that there is, the token of a pod
\* is of its step or trigger, only the pod of a step may have none, and an address
\* belongs to one pod that runs at most.
PodsOK ==
    /\ pod \in [Pods -> PodType]
    /\ \A p \in Pods : pod[p] # NoPod =>
          /\ pod[p].ns = ns
          /\ pod[p].token = NoToken => pod[p].target[1] # "trigger"
          /\ pod[p].token # NoToken => Claims(pod[p].token).subject = ActsAs(pod[p].target)
    /\ \A p, q \in Pods : p # q /\ pod[p].alive /\ pod[q].alive => pod[p].ip # pod[q].ip

\* The type invariant, with the facts about store and pods that it needs.
TypeInv ==
    /\ StoreOK /\ PodsOK
    /\ expired \subseteq Targets
    /\ req \in [Askers -> ReqType]
    /\ failures \in 0..MaxFailures

\* What a request r carries is true of the pod s that sent it, while that pod is
\* there: the address, the copy of the pod, the namespace, the subject of the token
\* and what the request was served as.
Faithful(r, s) ==
    s # NoPod =>
        /\ r.phase = "sent" => r.from = s.ip
        /\ r.phase \in {"pod", "namespace"} /\ r.own =>
              r.pod.token = s.token /\ r.pod.target = s.target
        /\ r.phase \in {"namespace", "token", "200"} /\ r.own => r.ns = s.ns
        /\ r.phase = "token" /\ r.own => Claims(r.token).subject = ActsAs(s.target)
        /\ r.phase = "200" /\ r.own => r.action = ActsAs(s.target)

\* Every request is faithful to its sender.
SenderInv == \A p \in Askers : Faithful(req[p], pod[p])

-----------------------------------------------------------------------------
(* The store *)

\* A token that there is differs from none, and so does a pod.
LEMMA Presence ==
    /\ \A x \in OfStep \cup OfTrigger : x # NoToken
    /\ \A x \in LivePod : x # NoPod
    /\ \A n \in Nat \ {0}, s \in Steps : Token(n, s) \in TokenType /\ Token(n, s) # NoToken
    /\ NoToken \in TokenType /\ NoPod \in PodType
    /\ ~NoPod.alive /\ ~NoPod.listed
  <1>1. \A x \in OfStep \cup OfTrigger : x # NoToken
    <2>1. NoToken.ns = 0
      BY DEF NoToken
    <2> QED BY <2>1 DEF OfStep, OfTrigger
  <1>2. \A x \in LivePod : x # NoPod
    <2>1. "ns" \notin DOMAIN NoPod
      BY DEF NoPod
    <2>2. \A x \in LivePod : "ns" \in DOMAIN x
      BY DEF LivePod
    <2> QED BY <2>1, <2>2
  <1>3. \A n \in Nat \ {0}, s \in Steps : Token(n, s) \in TokenType /\ Token(n, s) # NoToken
    BY <1>1 DEF Token, TokenType, OfStep
  <1>4. NoToken \in TokenType /\ NoPod \in PodType
    BY DEF TokenType, PodType
  <1>5. ~NoPod.alive /\ ~NoPod.listed
    BY DEF NoPod
  <1> QED BY <1>1, <1>2, <1>3, <1>4, <1>5

\* A target names a step; the Condition of a step that has none is no target.
LEMMA TargetStep == \A t \in Targets : t[2] \in Steps /\ t[1] \in {"task", "condition"}
  BY StoreAssumption DEF Targets, Task, Condition

\* The claims of a token are those of its step or trigger, and that is what is
\* made again from them.
LEMMA Subjects ==
    /\ \A tok \in OfStep : /\ Claims(tok).subject = Task(tok.step) /\ Claims(tok).ns = tok.ns
                           /\ Task(tok.step) \in PodTargets
    /\ \A tok \in OfTrigger : /\ Claims(tok).subject = Trigger(tok.trigger)
                              /\ Claims(tok).ns = tok.ns
                              /\ Trigger(tok.trigger) \in PodTargets
    /\ \A claims : Action(claims) # NoAction => Action(claims) = claims.subject
  <1>1. ASSUME NEW tok \in OfStep
        PROVE  /\ Claims(tok).subject = Task(tok.step) /\ Claims(tok).ns = tok.ns
               /\ Task(tok.step) \in PodTargets
    <2>1. "step" \in DOMAIN tok /\ tok.step \in Steps
      BY DEF OfStep
    <2> QED BY <2>1 DEF Claims, PodTargets, Targets
  <1>2. ASSUME NEW tok \in OfTrigger
        PROVE  /\ Claims(tok).subject = Trigger(tok.trigger) /\ Claims(tok).ns = tok.ns
               /\ Trigger(tok.trigger) \in PodTargets
    <2>1. "step" \notin DOMAIN tok /\ tok.trigger \in Triggers
      BY DEF OfTrigger
    <2> QED BY <2>1 DEF Claims, PodTargets
  <1>3. \A claims : Action(claims) # NoAction => Action(claims) = claims.subject
    BY DEF Action
  <1> QED BY <1>1, <1>2, <1>3

\* A step of the store keeps what is true of it, and the namespace is not
\* replaced in one step.
LEMMA StoreSteps ==
    ASSUME StoreOK, StoreNext
    PROVE  StoreOK' /\ (ns # 0 => ns' \in {0, ns})
  <1>1. CASE CreateNamespace
    BY <1>1, StoreAssumption DEF StoreOK, CreateNamespace
  <1>2. CASE DeleteNamespace
    <2>1. \A t \in Targets : token'[t] = NoToken
      BY <1>2 DEF DeleteNamespace
    <2>2. token' \in [Targets -> TokenType]
      BY <1>2, Presence DEF DeleteNamespace
    <2>3. ns' = 0 /\ lastns' = lastns /\ run' = FALSE /\ applied' = FALSE
      BY <1>2 DEF DeleteNamespace
    <2>4. lastns' \in 0..MaxNamespaces /\ ns' \in 0..lastns'
      BY <2>3, StoreAssumption DEF StoreOK
    <2> QED BY <2>1, <2>2, <2>3, <2>4 DEF StoreOK
  <1>3. CASE CreateRun \/ DeleteRun \/ Apply
    BY <1>3 DEF StoreOK, CreateRun, DeleteRun, Apply
  <1>4. ASSUME NEW t \in Targets, Issue(t) PROVE StoreOK' /\ ns' = ns
    <2>1. PICK n \in 1..ns : token' = [token EXCEPT ![t] = Token(n, t[2])]
      BY <1>4 DEF Issue
    <2>2. ns \in Nat /\ n \in Nat \ {0}
      BY DEF StoreOK
    <2>3. Token(n, t[2]) \in TokenType /\ Token(n, t[2]) # NoToken
      BY <2>2, Presence, TargetStep
    <2>4. Token(n, t[2]).ns = n /\ Token(n, t[2]).step = t[2]
      BY DEF Token
    <2>5. token' \in [Targets -> TokenType]
      BY <2>1, <2>3 DEF StoreOK
    <2>6. \A u \in Targets : token'[u] # NoToken => token'[u].step = u[2] /\ token'[u].ns \in 1..ns
      BY <2>1, <2>4 DEF StoreOK
    <2> QED BY <1>4, <2>5, <2>6 DEF StoreOK, Issue
  <1>5. ASSUME NEW t \in Targets, Remove(t) PROVE StoreOK' /\ ns' = ns
    <2>1. token' \in [Targets -> TokenType]
      BY <1>5, Presence DEF StoreOK, Remove
    <2>2. \A u \in Targets : token'[u] # NoToken => token'[u] = token[u]
      BY <1>5 DEF StoreOK, Remove
    <2> QED BY <1>5, <2>1, <2>2 DEF StoreOK, Remove
  <1> QED BY <1>1, <1>2, <1>3, <1>4, <1>5 DEF StoreNext, CreateNamespace, DeleteNamespace,
             CreateRun, DeleteRun, Apply

-----------------------------------------------------------------------------
(* Pods *)

\* Pods that end, are shown or lose their token keep what requests know of them.
Same(q, r) == q.ip = r.ip /\ q.ns = r.ns /\ q.target = r.target /\ q.token = r.token

\* What is true of all pods stays true when some of them end, are shown or go.
LEMMA PodsKept ==
    ASSUME PodsOK, ns' = ns, pod' \in [Pods -> PodType],
           \A q \in Pods : pod'[q] # NoPod =>
               pod[q] # NoPod /\ Same(pod'[q], pod[q]) /\ (pod'[q].alive => pod[q].alive)
    PROVE  PodsOK'
  <1>1. ASSUME NEW q \in Pods, NEW r \in Pods, q # r, pod'[q].alive, pod'[r].alive
        PROVE  pod'[q].ip # pod'[r].ip
    BY <1>1, Presence DEF PodsOK, Same
  <1>2. ASSUME NEW q \in Pods, pod'[q] # NoPod
        PROVE  /\ pod'[q].ns = ns'
               /\ pod'[q].token = NoToken => pod'[q].target[1] # "trigger"
               /\ pod'[q].token # NoToken => Claims(pod'[q].token).subject = ActsAs(pod'[q].target)
    BY <1>2 DEF PodsOK, Same
  <1> QED BY <1>1, <1>2 DEF PodsOK

\* A pod that is started has a token of its own or none, as its target says.
LEMMA StartStep ==
    ASSUME PodsOK, ns \in Nat \ {0}, NEW p \in Pods, NEW t \in PodTargets, NEW ip \in IPs,
           NEW tok \in PodToken, NEW late \in BOOLEAN, Start(p, t, ip, tok, late),
           tok = NoToken => t[1] # "trigger",
           tok # NoToken => Claims(tok).subject = ActsAs(t)
    PROVE  PodsOK' /\ \A q \in Pods : pod'[q] = pod[q] \/
                          (pod[q] = NoPod /\ (q \in Askers => req[q] = Silent))
  <1> DEFINE new == [alive |-> TRUE, listed |-> FALSE, ns |-> ns, ip |-> ip, target |-> t,
                     token |-> tok, expired |-> late]
  <1>1. pod' = [pod EXCEPT ![p] = new] /\ pod[p] = NoPod /\ (p \in Askers => req[p] = Silent)
    BY DEF Start
  <1>2. new \in LivePod /\ new.ns = ns /\ new.token = tok /\ new.target = t /\ new.ip = ip
    BY DEF LivePod
  <1>3. \A q \in Pods : pod[q].alive => pod[q].ip # ip
    BY DEF Start
  <1>4. ns' = ns
    BY DEF Start, storeVars
  <1> HIDE DEF new
  <1>5. pod' \in [Pods -> PodType] /\ \A q \in Pods : pod'[q] = IF q = p THEN new ELSE pod[q]
    BY <1>1, <1>2 DEF PodsOK, PodType
  <1>6. (\A q, r \in Pods : q # r /\ pod[q].alive /\ pod[r].alive => pod[q].ip # pod[r].ip)'
    BY <1>2, <1>3, <1>5 DEF PodsOK
  <1>7. ASSUME NEW q \in Pods, pod'[q] # NoPod
        PROVE  /\ pod'[q].ns = ns'
               /\ pod'[q].token = NoToken => pod'[q].target[1] # "trigger"
               /\ pod'[q].token # NoToken => Claims(pod'[q].token).subject = ActsAs(pod'[q].target)
    <2>1. CASE q = p
      BY <1>2, <1>4, <1>5, <2>1
    <2>2. CASE q # p
      BY <1>4, <1>5, <1>7, <2>2 DEF PodsOK
    <2> QED BY <2>1, <2>2
  <1>8. PodsOK'
    BY <1>5, <1>6, <1>7 DEF PodsOK
  <1> QED BY <1>1, <1>5, <1>8

\* Whatever happens to the pods: a pod keeps what requests know of it, goes, or
\* was not there before, and then nothing is asked in its name.
PodsAct ==
    \/ \E p \in Pods :
          \/ \E t \in Targets, ip \in IPs : StartPod(p, t, ip)
          \/ \E name \in Triggers, ip \in IPs : StartTrigger(p, name, ip)
          \/ PodStatus(p) \/ EndPod(p) \/ ExpireCopy(p)
    \/ \E t \in Targets : Expire(t)

\* See PodsAct.
LEMMA PodSteps ==
    ASSUME TypeInv, PodsAct
    PROVE  /\ PodsOK'
           /\ \A q \in Pods :
                 \/ pod'[q] = NoPod
                 \/ pod[q] # NoPod /\ Same(pod'[q], pod[q])
                 \/ pod[q] = NoPod /\ (q \in Askers => req[q] = Silent)
  <1>0. pod \in [Pods -> PodType] /\ PodsOK /\ \A q \in Pods : Same(pod[q], pod[q])
    BY DEF TypeInv, PodsOK, Same
  <1>1. ASSUME NEW p \in Pods, NEW t \in Targets, NEW ip \in IPs, StartPod(p, t, ip)
        PROVE  PodsOK' /\ \A q \in Pods : pod'[q] = pod[q] \/
                              (pod[q] = NoPod /\ (q \in Askers => req[q] = Silent))
    <2>1. t \in PodTargets /\ t[1] # "trigger" /\ ActsAs(t) = Task(t[2])
      BY TargetStep DEF PodTargets, ActsAs
    <2>2. ns \in Nat \ {0}
      BY <1>1 DEF TypeInv, StoreOK, StartPod
    <2>3. CASE t[1] = "task"
      <3>1. token[t] \in TokenType /\ (token[t] # NoToken => token[t].step = t[2])
        BY DEF TypeInv, StoreOK
      <3>2. token[t] # NoToken => Claims(token[t]).subject = ActsAs(t)
        BY <2>1, <3>1, Subjects DEF TokenType
      <3>3. Start(p, t, ip, token[t], t \in expired) /\ (t \in expired) \in BOOLEAN
        BY <1>1, <2>3 DEF StartPod
      <3>4. token[t] \in PodToken
        BY <3>1 DEF PodToken
      <3> QED BY <1>0, <2>1, <2>2, <3>2, <3>3, <3>4, StartStep
    <2>4. CASE t[1] # "task"
      <3>1. Start(p, t, ip, NoToken, FALSE) /\ NoToken \in PodToken
        BY <1>1, <2>4 DEF StartPod, PodToken, TokenType
      <3> QED BY <1>0, <2>1, <2>2, <3>1, StartStep
    <2> QED BY <2>3, <2>4
  <1>2. ASSUME NEW p \in Pods, NEW name \in Triggers, NEW ip \in IPs, StartTrigger(p, name, ip)
        PROVE  PodsOK' /\ \A q \in Pods : pod'[q] = pod[q] \/
                              (pod[q] = NoPod /\ (q \in Askers => req[q] = Silent))
    <2>1. PICK n \in 1..ns : Start(p, Trigger(name), ip, TriggerToken(n, name), FALSE)
      BY <1>2 DEF StartTrigger
    <2>2. ns \in Nat \ {0} /\ n \in Nat \ {0}
      BY DEF TypeInv, StoreOK
    <2> DEFINE tok == TriggerToken(n, name)
    <2>3. tok \in OfTrigger /\ tok.trigger = name
      BY <2>2 DEF TriggerToken, OfTrigger
    <2>4. Trigger(name) \in PodTargets /\ ActsAs(Trigger(name)) = Trigger(name)
      BY DEF PodTargets, ActsAs, Trigger
    <2> HIDE DEF tok
    <2>5. tok # NoToken /\ Claims(tok).subject = ActsAs(Trigger(name)) /\ tok \in PodToken
      BY <2>3, <2>4, Presence, Subjects DEF PodToken
    <2> QED BY <1>0, <2>1, <2>2, <2>4, <2>5, StartStep DEF tok
  <1>3. ASSUME NEW p \in Pods, PodStatus(p) \/ EndPod(p) \/ ExpireCopy(p)
        PROVE  PodsOK' /\ \A q \in Pods : pod'[q] = NoPod \/ (pod[q] # NoPod /\ Same(pod'[q], pod[q]))
    <2>1. pod[p] \in LivePod /\ pod[p] # NoPod /\ ns' = ns
      BY <1>0, <1>3, Presence DEF PodStatus, EndPod, ExpireCopy, PodType, storeVars
    <2>2. PICK new : /\ pod' = [pod EXCEPT ![p] = new]
                     /\ \/ new = NoPod
                        \/ new = [pod[p] EXCEPT !.listed = TRUE]
                        \/ new = [pod[p] EXCEPT !.alive = FALSE]
                        \/ new = [pod[p] EXCEPT !.expired = TRUE]
      BY <1>3 DEF PodStatus, EndPod, ExpireCopy
    <2>3. new = NoPod \/ (new \in LivePod /\ Same(new, pod[p]) /\ (new.alive => pod[p].alive))
      BY <2>1, <2>2 DEF LivePod, Same
    <2>4. pod' \in [Pods -> PodType] /\ \A q \in Pods : pod'[q] = IF q = p THEN new ELSE pod[q]
      BY <1>0, <2>2, <2>3 DEF PodType
    <2>5. \A q \in Pods : pod'[q] # NoPod =>
             pod[q] # NoPod /\ Same(pod'[q], pod[q]) /\ (pod'[q].alive => pod[q].alive)
      BY <1>0, <2>1, <2>3, <2>4
    <2> QED BY <1>0, <2>1, <2>4, <2>5, PodsKept
  <1>4. ASSUME NEW t \in Targets, Expire(t)
        PROVE  PodsOK' /\ \A q \in Pods : pod'[q] = NoPod \/ (pod[q] # NoPod /\ Same(pod'[q], pod[q]))
    <2>1. pod' = [q \in Pods |-> Aged(pod[q], t)] /\ ns' = ns
      BY <1>4 DEF Expire, storeVars
    <2>2. ASSUME NEW q \in Pods
          PROVE  /\ Aged(pod[q], t) \in PodType
                 /\ Aged(pod[q], t) # NoPod =>
                       /\ pod[q] # NoPod /\ Same(Aged(pod[q], t), pod[q])
                       /\ Aged(pod[q], t).alive => pod[q].alive
      <3>1. CASE pod[q] = NoPod
        BY <3>1, Presence DEF Aged
      <3>2. CASE pod[q] # NoPod
        <4>1. pod[q] \in LivePod
          BY <1>0, <3>2 DEF PodType
        <4>2. [pod[q] EXCEPT !.expired = TRUE] \in LivePod
              /\ Same([pod[q] EXCEPT !.expired = TRUE], pod[q])
              /\ [pod[q] EXCEPT !.expired = TRUE].alive = pod[q].alive
          BY <4>1 DEF LivePod, Same
        <4> QED BY <1>0, <3>2, <4>1, <4>2 DEF Aged, PodType
      <3> QED BY <3>1, <3>2
    <2>3. pod' \in [Pods -> PodType] /\ \A q \in Pods : pod'[q] = Aged(pod[q], t)
      BY <2>1, <2>2
    <2> QED BY <1>0, <2>1, <2>2, <2>3, PodsKept
  <1> QED BY <1>0, <1>1, <1>2, <1>3, <1>4 DEF PodsAct

-----------------------------------------------------------------------------
(* Requests *)

\* An answer other than 200 says nothing about its sender.
LEMMA AnswerFaithful ==
    ASSUME NEW r \in Answered, NEW s
    PROVE  r \in ReqType /\ Faithful(r, s)
  BY DEF Answered, ReqType, Faithful

\* What is answered, and the request of a pod that was never asked.
LEMMA Answers ==
    /\ Silent \in Answered
    /\ \A status \in {"401", "500"} : [phase |-> status] \in Answered
  BY DEF Silent, Answered

\* A record of its phase is not of another one.
LEMMA Phases ==
    ASSUME NEW r \in ReqType
    PROVE  /\ r.phase \in Pending \cup {"none", "200", "401", "500"}
           /\ r.phase = "sent" => r \in Sent
           /\ r.phase = "pod" => r \in PodFound
           /\ r.phase = "namespace" => r \in SpaceFound
           /\ r.phase = "token" => r \in TokenFound
           /\ r.phase = "200" => r \in Served
  BY DEF ReqType, Answered, Sent, PodFound, SpaceFound, TokenFound, Served, Pending

\* Where exactly one pod is shown at an address, it is the sender if the sender
\* is among those that are shown.
LEMMA OnlyPod ==
    ASSUME NEW ip, Cardinality(Running(ip)) = 1, NEW p \in Running(ip), NEW q \in Running(ip)
    PROVE  p = q
  <1>1. IsFiniteSet(Running(ip))
    BY PodsAssumption, FS_Subset DEF Running
  <1> QED BY <1>1, FS_Singleton

\* LookupPod copies a pod that is shown; if the sender is shown, it is the sender.
LEMMA LookupStep ==
    ASSUME TypeInv, NEW p \in Askers, Faithful(req[p], pod[p]), LookupPod(p)
    PROVE  \E new \in ReqType : req' = [req EXCEPT ![p] = new] /\ Faithful(new, pod[p])
  <1> DEFINE found == Running(req[p].from)
  <1>1. CASE Cardinality(found) # 1
    BY <1>1, Answers, AnswerFaithful DEF LookupPod, Unauthorized, Answer
  <1>2. CASE Cardinality(found) = 1
    <2>1. PICK q \in found : req' = [req EXCEPT ![p] = [phase |-> "pod", pod |-> Copy(pod[q]),
                                                        own |-> p \in found]]
      BY <1>2 DEF LookupPod
    <2> DEFINE own == p \in found
               new == [phase |-> "pod", pod |-> Copy(pod[q]), own |-> own]
    <2>2. own \in BOOLEAN /\ (own => q = p)
      BY <1>2, <2>1, OnlyPod
    <2>3. Copy(pod[q]) \in CopyType /\ Copy(pod[q]).token = pod[q].token
          /\ Copy(pod[q]).target = pod[q].target
      <3>1. pod[q] \in LivePod
        BY <2>1, Presence DEF TypeInv, PodsOK, PodType, Running
      <3> QED BY <3>1 DEF LivePod, CopyType, Copy
    <2>4. req' = [req EXCEPT ![p] = new]
      BY <2>1
    <2> HIDE DEF own, found
    <2>5. new \in ReqType
      BY <2>2, <2>3 DEF ReqType, PodFound
    <2>6. new.phase = "pod" /\ new.pod = Copy(pod[q]) /\ new.own = own
      OBVIOUS
    <2> HIDE DEF new
    <2>7. Faithful(new, pod[p])
      BY <2>2, <2>3, <2>6 DEF Faithful
    <2> QED BY <2>4, <2>5, <2>7
  <1> QED BY <1>1, <1>2

\* The namespace that is found is the one of the sender, if that is there.
LEMMA NamespaceStep ==
    ASSUME TypeInv, NEW p \in Askers, Faithful(req[p], pod[p]), GetNamespace(p)
    PROVE  \E new \in ReqType : req' = [req EXCEPT ![p] = new] /\ Faithful(new, pod[p])
  <1>1. CASE ns = 0
    BY <1>1, Answers, AnswerFaithful DEF GetNamespace, Unauthorized, Answer
  <1>2. CASE ns # 0
    <2> DEFINE r == req[p]
               new == [phase |-> "namespace", pod |-> r.pod, own |-> r.own, ns |-> ns]
    <2>1. r \in PodFound /\ r.phase = "pod"
      BY Phases DEF TypeInv, GetNamespace
    <2>2. ns \in Nat \ {0}
      BY <1>2, StoreAssumption DEF TypeInv, StoreOK
    <2>3. req' = [req EXCEPT ![p] = new]
      BY <1>2 DEF GetNamespace
    <2>4. pod[p] # NoPod => pod[p].ns = ns
      BY AskersAssumption DEF TypeInv, PodsOK
    <2>5. Faithful(r, pod[p])
      OBVIOUS
    <2> HIDE DEF r
    <2>6. new \in ReqType
      BY <2>1, <2>2 DEF ReqType, PodFound, SpaceFound
    <2>7. new.phase = "namespace" /\ new.pod = r.pod /\ new.own = r.own /\ new.ns = ns
      OBVIOUS
    <2> HIDE DEF new
    <2>8. Faithful(new, pod[p])
      BY <2>1, <2>4, <2>5, <2>7 DEF Faithful
    <2> QED BY <2>3, <2>6, <2>8
  <1> QED BY <1>1, <1>2

\* The token that is read is of the step or trigger of the sender, be it the one
\* of the pod or the one of the Condition of its step.
LEMMA TokenStep ==
    ASSUME TypeInv, NEW p \in Askers, Faithful(req[p], pod[p]), ReadToken(p)
    PROVE  \E new \in ReqType : req' = [req EXCEPT ![p] = new] /\ Faithful(new, pod[p])
  <1> DEFINE r == req[p]
             c == Condition(r.pod.target[2])
  <1>1. r \in SpaceFound /\ r.phase = "namespace"
    BY Phases DEF TypeInv, ReadToken
  <1>2. pod[p] # NoPod /\ r.own => r.pod.token = pod[p].token /\ r.pod.target = pod[p].target
                                   /\ r.ns = pod[p].ns
    BY <1>1 DEF Faithful
  <1>3. ASSUME NEW tok \in OfStep \cup OfTrigger, NEW late \in BOOLEAN,
               req' = [req EXCEPT ![p] = [phase |-> "token", token |-> tok, expired |-> late,
                                          own |-> req[p].own, ns |-> req[p].ns]],
               pod[p] # NoPod /\ r.own => Claims(tok).subject = ActsAs(pod[p].target)
        PROVE  \E new \in ReqType : req' = [req EXCEPT ![p] = new] /\ Faithful(new, pod[p])
    <2> DEFINE new == [phase |-> "token", token |-> tok, expired |-> late, own |-> r.own,
                       ns |-> r.ns]
    <2>1. req' = [req EXCEPT ![p] = new]
      BY <1>3
    <2> HIDE DEF r
    <2>2. new \in ReqType
      BY <1>1, <1>3 DEF ReqType, SpaceFound, TokenFound
    <2>3. new.phase = "token" /\ new.token = tok /\ new.own = r.own /\ new.ns = r.ns
      OBVIOUS
    <2> HIDE DEF new
    <2>4. Faithful(new, pod[p])
      BY <1>2, <1>3, <2>3 DEF Faithful
    <2> QED BY <2>1, <2>2, <2>4
  <1>4. CASE r.pod.token # NoToken
    <2>1. r.pod.token \in OfStep \cup OfTrigger /\ r.pod.expired \in BOOLEAN
      BY <1>1, <1>4 DEF SpaceFound, CopyType, PodToken, TokenType
    <2>2. pod[p] # NoPod /\ r.own => Claims(r.pod.token).subject = ActsAs(pod[p].target)
      BY <1>2, <1>4, AskersAssumption DEF TypeInv, PodsOK
    <2>3. req' = [req EXCEPT ![p] = [phase |-> "token", token |-> r.pod.token,
                                     expired |-> r.pod.expired,
                                     own |-> req[p].own, ns |-> req[p].ns]]
      BY <1>4 DEF ReadToken
    <2> QED BY <1>3, <2>1, <2>2, <2>3
  <1>5. CASE r.pod.token = NoToken /\ c \in Targets /\ token[c] # NoToken
    <2>1. token[c] \in OfStep /\ token[c].step = c[2] /\ c[2] = r.pod.target[2]
      BY <1>5 DEF TypeInv, StoreOK, TokenType, Condition
    <2>2. Claims(token[c]).subject = Task(r.pod.target[2])
      BY <2>1, Subjects
    <2>3. pod[p] # NoPod /\ r.own => ActsAs(pod[p].target) = Task(r.pod.target[2])
      BY <1>2, <1>5, AskersAssumption DEF TypeInv, PodsOK, ActsAs
    <2>4. req' = [req EXCEPT ![p] = [phase |-> "token", token |-> token[c],
                                     expired |-> c \in expired,
                                     own |-> req[p].own, ns |-> req[p].ns]]
      BY <1>5 DEF ReadToken
    <2>5. (c \in expired) \in BOOLEAN
      OBVIOUS
    <2> HIDE DEF c, r
    <2> QED BY <1>3, <2>1, <2>2, <2>3, <2>4, <2>5
  <1>6. CASE r.pod.token = NoToken /\ ~(c \in Targets /\ token[c] # NoToken)
    BY <1>6, Answers, AnswerFaithful DEF ReadToken, Unauthorized, Answer
  <1> QED BY <1>4, <1>5, <1>6

\* A request is served as what its token says, in the namespace that was found.
LEMMA AuthenticateStep ==
    ASSUME TypeInv, NEW p \in Askers, Faithful(req[p], pod[p]), Authenticate(p)
    PROVE  \E new \in ReqType : req' = [req EXCEPT ![p] = new] /\ Faithful(new, pod[p])
  <1> DEFINE r == req[p]
             claims == Claims(r.token)
             action == Action(claims)
             managers == Build(VaultInjector(r.expired) \cup Injector(action))
             new == [phase |-> "200", own |-> r.own, ns |-> claims.ns, action |-> action,
                     managers |-> managers]
             served == /\ Decrypted(r.token, r.ns) /\ Resolved(r.expired) = "found"
                       /\ action # NoAction /\ Validated(claims, r.ns)
  <1>1. r \in TokenFound /\ r.phase = "token"
    BY Phases DEF TypeInv, Authenticate
  <1>2. CASE ~served
    <2>1. \E status \in {"401", "500"} : req' = [req EXCEPT ![p] = [phase |-> status]]
      BY <1>2 DEF Authenticate, InternalError, Unauthorized, Answer
    <2> QED BY <2>1, Answers, AnswerFaithful
  <1>3. CASE served
    <2>1. req' = [req EXCEPT ![p] = new]
      BY <1>3 DEF Authenticate
    <2>2. managers \in [Managers -> BOOLEAN]
      BY DEF Build, Managers
    <2>3. action = claims.subject /\ claims.ns = r.ns
      BY <1>3, Subjects DEF Validated
    <2>4. pod[p] # NoPod /\ r.own => claims.subject = ActsAs(pod[p].target) /\ r.ns = pod[p].ns
      BY <1>1 DEF Faithful
    <2>5. claims.subject \in PodTargets
      BY <1>1, Subjects DEF TokenFound
    <2> HIDE DEF r, managers, claims, action
    <2>6. r.own \in BOOLEAN /\ r.ns \in Nat \ {0}
      BY <1>1 DEF TokenFound
    <2>7. new \in ReqType
      BY <2>2, <2>3, <2>5, <2>6 DEF ReqType, Served
    <2>8. new.phase = "200" /\ new.own = r.own /\ new.ns = claims.ns /\ new.action = action
      OBVIOUS
    <2> HIDE DEF new
    <2>9. Faithful(new, pod[p])
      BY <2>3, <2>4, <2>8 DEF Faithful
    <2> QED BY <2>1, <2>7, <2>9
  <1> QED BY <1>2, <1>3

\* Whatever a client puts into its header, the address that is taken is the one
\* that the first proxy was called from.
LEMMA SenderAddress ==
    ASSUME NEW ip \in IPs, NEW sent \in Headers, NEW peer, ProxyHops = 0 => peer = ip
    PROVE  TrustedHop(peer, Forwarded(ip, sent), ProxyHops) = ip
  <1> DEFINE n    == Len(sent)
             hops == Forwarded(ip, sent)
             last == {i \in DOMAIN hops : /\ i > Len(hops) - ProxyHops
                                          /\ \A j \in i..Len(hops) : hops[j] # Garbled}
  <1>1. n \in Nat /\ ProxyHops \in Nat /\ Garbled \notin IPs \cup {Proxy}
    BY ProxyAssumption
  <1>2. /\ Len(hops) = n + ProxyHops /\ DOMAIN hops = 1..(n + ProxyHops)
        /\ \A i \in 1..ProxyHops : hops[n + i] = IF i = 1 THEN ip ELSE Proxy
    <2> DEFINE S   == IPs \cup {Proxy, Garbled}
               own == [i \in 1..ProxyHops |-> IF i = 1 THEN ip ELSE Proxy]
    <2>1. sent \in Seq(S) /\ own \in Seq(S)
      BY <1>1, ProxyAssumption
    <2>2. Len(own) = ProxyHops /\ hops = sent \o own
      BY <1>1 DEF Forwarded
    <2>3. \A i \in 1..ProxyHops : own[i] = IF i = 1 THEN ip ELSE Proxy
      OBVIOUS
    <2> HIDE DEF S, own, hops
    <2>4. /\ Len(hops) = Len(sent) + Len(own) /\ hops \in Seq(S)
          /\ \A i \in 1..Len(own) : hops[Len(sent) + i] = own[i]
      <3>1. Len(sent \o own) = Len(sent) + Len(own) /\ sent \o own \in Seq(S)
        BY <2>1
      <3>2. ASSUME NEW i \in 1..Len(own) PROVE (sent \o own)[Len(sent) + i] = own[i]
        <4>1. /\ Len(sent) + i \in 1..(Len(sent) + Len(own)) /\ ~(Len(sent) + i <= Len(sent))
              /\ (Len(sent) + i) - Len(sent) = i
          BY <1>1, <2>2
        <4> QED BY <2>1, <4>1, ConcatProperties
      <3> QED BY <2>2, <3>1, <3>2
    <2>5. DOMAIN hops = 1..Len(hops)
      BY <2>4
    <2> QED BY <1>1, <2>2, <2>3, <2>4, <2>5
  <1> HIDE DEF n, hops
  <1>3. last = (n + 1)..(n + ProxyHops)
    <2>1. \A j \in (n + 1)..(n + ProxyHops) : hops[j] # Garbled
      <3> SUFFICES ASSUME NEW j \in (n + 1)..(n + ProxyHops) PROVE hops[j] # Garbled
        OBVIOUS
      <3>1. j - n \in 1..ProxyHops /\ n + (j - n) = j
        BY <1>1
      <3> QED BY <1>1, <1>2, <3>1
    <2> QED BY <1>1, <1>2, <2>1
  <1>4. TrustedHop(peer, hops, ProxyHops) =
           IF last = {} THEN peer ELSE hops[CHOOSE i \in last : \A j \in last : i <= j]
    BY DEF TrustedHop
  <1> HIDE DEF last
  <1>5. CASE ProxyHops = 0
    <2>1. last = {}
      BY <1>1, <1>3, <1>5
    <2> QED BY <1>4, <1>5, <2>1 DEF hops
  <1>6. CASE ProxyHops # 0
    <2>1. n + 1 \in last /\ \A j \in last : n + 1 <= j
      BY <1>1, <1>3, <1>6
    <2> DEFINE m == CHOOSE i \in last : \A j \in last : i <= j
    <2>2. m \in last /\ \A j \in last : m <= j
      BY <2>1
    <2>3. m = n + 1
      <3> HIDE DEF m
      <3> QED BY <1>1, <1>3, <2>1, <2>2
    <2>4. hops[n + 1] = ip
      BY <1>1, <1>2, <1>6
    <2> QED BY <1>4, <2>1, <2>3, <2>4 DEF hops
  <1> QED BY <1>5, <1>6

\* Whatever happens to a request, it keeps its type and is true of its sender.
LEMMA RequestSteps ==
    ASSUME TypeInv, NEW p \in Askers, Faithful(req[p], pod[p]),
           Ask(p) \/ Handle(p) \/ RequestFails(p)
    PROVE  \E new \in ReqType : req' = [req EXCEPT ![p] = new] /\ Faithful(new, pod[p])
  <1>1. CASE Ask(p)
    <2> DEFINE new == [phase |-> "sent", from |-> pod[p].ip]
    <2>1. pod[p] \in LivePod
      BY <1>1, AskersAssumption, Presence DEF Ask, TypeInv, PodsOK, PodType
    <2>2. pod[p].ip \in IPs
      BY <2>1 DEF LivePod
    <2>3. new \in ReqType
      BY <2>2 DEF ReqType, Sent
    <2>4. new.phase = "sent" /\ new.from = pod[p].ip
      OBVIOUS
    <2>5. req' = [req EXCEPT ![p] = new]
      <3> DEFINE peer == IF ProxyHops = 0 THEN pod[p].ip ELSE Proxy
      <3>1. PICK sent \in Headers : req' = [req EXCEPT ![p] =
                [phase |-> "sent",
                 from |-> TrustedHop(peer, Forwarded(pod[p].ip, sent), ProxyHops)]]
        BY <1>1 DEF Ask
      <3>2. ProxyHops = 0 => peer = pod[p].ip
        OBVIOUS
      <3> HIDE DEF peer
      <3>3. TrustedHop(peer, Forwarded(pod[p].ip, sent), ProxyHops) = pod[p].ip
        BY <2>2, <3>2, SenderAddress
      <3> QED BY <3>1, <3>3
    <2> HIDE DEF new
    <2>6. Faithful(new, pod[p])
      BY <2>4 DEF Faithful
    <2> QED BY <2>3, <2>5, <2>6
  <1>2. CASE RequestFails(p)
    BY <1>2, Answers, AnswerFaithful DEF RequestFails, InternalError, Answer
  <1> QED BY <1>1, <1>2, LookupStep, NamespaceStep, TokenStep, AuthenticateStep
          DEF Handle, Intermediary

\* Faithfulness survives what happens to pods.
LEMMA PodKeepsFaith ==
    ASSUME NEW r, NEW s, NEW u, Faithful(r, s),
           \/ u = NoPod
           \/ s # NoPod /\ Same(u, s)
           \/ r = Silent
    PROVE  Faithful(r, u)
  <1>1. CASE r = Silent
    BY <1>1, Answers, AnswerFaithful
  <1> QED BY <1>1 DEF Faithful, Same

-----------------------------------------------------------------------------
(* The theorems *)

\* The inductive invariant: types, and that what a request carries is true of
\* the pod that sent it.
THEOREM Inductive == Spec => [](TypeInv /\ SenderInv)
  <1>1. Init => TypeInv /\ SenderInv
    <2> SUFFICES ASSUME Init PROVE TypeInv /\ SenderInv
      OBVIOUS
    <2>1. StoreOK
      <3>1. lastns \in 0..MaxNamespaces /\ ns \in 0..lastns
        BY StoreAssumption DEF Init, StoreInit
      <3>2. \A t \in Targets : token[t] = NoToken
        BY DEF Init, StoreInit
      <3>3. token \in [Targets -> TokenType]
        BY Presence DEF Init, StoreInit
      <3> QED BY <3>1, <3>2, <3>3 DEF Init, StoreInit, StoreOK
    <2>2. PodsOK
      <3>1. \A p \in Pods : pod[p] = NoPod
        BY DEF Init
      <3>2. pod \in [Pods -> PodType]
        BY Presence DEF Init
      <3> QED BY <3>1, <3>2, Presence DEF PodsOK
    <2>3. \A p \in Askers : req[p] = Silent
      BY DEF Init
    <2>4. req \in [Askers -> ReqType]
      BY Answers DEF Init, ReqType
    <2>5. failures \in 0..MaxFailures
      BY FailuresAssumption DEF Init
    <2>6. expired \subseteq Targets
      BY DEF Init
    <2> QED BY <2>1, <2>2, <2>3, <2>4, <2>5, <2>6, Answers, AnswerFaithful DEF TypeInv, SenderInv
  <1>2. TypeInv /\ SenderInv /\ [Next]_vars => TypeInv' /\ SenderInv'
    <2> SUFFICES ASSUME TypeInv, SenderInv, [Next]_vars PROVE TypeInv' /\ SenderInv'
      OBVIOUS
    <2>0. req \in [Askers -> ReqType] /\ failures \in 0..MaxFailures /\ expired \subseteq Targets
      BY DEF TypeInv
    <2>1. ASSUME StoreStep PROVE TypeInv' /\ SenderInv'
      <3>1. pod' = pod /\ req' = req /\ failures' = failures /\ expired' \subseteq expired
        BY <2>1 DEF StoreStep
      <3>2. StoreOK' /\ (ns # 0 => ns' \in {0, ns})
        BY <2>1, StoreSteps DEF StoreStep, TypeInv
      <3>3. \A p \in Pods : pod[p] # NoPod => ns # 0
        BY DEF TypeInv, PodsOK, PodType, LivePod
      <3>4. \A p \in Pods : pod[p] # NoPod => ns' = ns
        BY <2>1, <3>2, <3>3 DEF StoreStep
      <3>5. PodsOK'
        BY <3>1, <3>4 DEF TypeInv, PodsOK
      <3> QED BY <2>0, <3>1, <3>2, <3>5 DEF TypeInv, SenderInv
    <2>2. ASSUME PodsAct PROVE TypeInv' /\ SenderInv'
      <3>1. /\ req' = req \/ \E p \in Pods : req' = [q \in Askers |-> IF q = p THEN Silent ELSE req[q]]
            /\ failures' = failures /\ UNCHANGED storeVars
            /\ expired' \subseteq Targets
        BY <2>0, <2>2 DEF PodsAct, StartPod, StartTrigger, Start, PodStatus, EndPod, ExpireCopy, Expire
      <3>2. StoreOK'
        BY <3>1 DEF TypeInv, StoreOK, storeVars
      <3>3. PodsOK'
        BY <2>2, PodSteps
      <3>4. req' \in [Askers -> ReqType] /\ \A q \in Askers : req'[q] \in {Silent, req[q]}
        BY <2>0, <3>1, Answers DEF ReqType
      <3>5. ASSUME NEW q \in Askers PROVE Faithful(req[q], pod'[q])
        <4>1. Faithful(req[q], pod[q])
          BY DEF SenderInv
        <4>2. \/ pod'[q] = NoPod
              \/ pod[q] # NoPod /\ Same(pod'[q], pod[q])
              \/ pod[q] = NoPod /\ req[q] = Silent
          BY <2>2, PodSteps, AskersAssumption
        <4> QED BY <4>1, <4>2, PodKeepsFaith
      <3>6. ASSUME NEW q \in Askers PROVE Faithful(req'[q], pod'[q])
        BY <3>4, <3>5, Answers, AnswerFaithful
      <3> QED BY <2>0, <3>1, <3>2, <3>3, <3>4, <3>6 DEF TypeInv, SenderInv
    <2>3. ASSUME NEW p \in Askers, Ask(p) \/ Handle(p) \/ RequestFails(p)
          PROVE  TypeInv' /\ SenderInv'
      <3>1. UNCHANGED storeVars /\ pod' = pod /\ expired' = expired
        BY <2>3 DEF Ask, Handle, Intermediary, LookupPod, GetNamespace, ReadToken, Authenticate,
                    RequestFails
      <3>2. failures' \in 0..MaxFailures
        BY <2>0, <2>3, FailuresAssumption
           DEF Ask, Handle, Intermediary, LookupPod, GetNamespace, ReadToken, Authenticate,
               RequestFails
      <3>3. StoreOK' /\ PodsOK'
        BY <3>1 DEF TypeInv, StoreOK, PodsOK, storeVars
      <3>4. PICK new \in ReqType : req' = [req EXCEPT ![p] = new] /\ Faithful(new, pod[p])
        BY <2>3, RequestSteps DEF SenderInv
      <3>5. req' \in [Askers -> ReqType] /\ \A q \in Askers : req'[q] = IF q = p THEN new ELSE req[q]
        BY <2>0, <3>4
      <3>6. SenderInv'
        BY <3>1, <3>4, <3>5 DEF SenderInv
      <3> QED BY <2>0, <3>1, <3>2, <3>3, <3>5, <3>6 DEF TypeInv
    <2>4. CASE UNCHANGED vars
      BY <2>4 DEF vars, storeVars, TypeInv, StoreOK, PodsOK, SenderInv
    <2> QED BY <2>1, <2>2, <2>3, <2>4 DEF Next, PodsAct
  <1> QED BY <1>1, <1>2, PTL DEF Spec

\* Type correctness; two pods that run never have the same address, and all of
\* them are in the namespace that there is.
THEOREM TypeCorrect == Spec => []TypeOK
  <1>1. TypeInv => TypeOK
    <2> SUFFICES ASSUME TypeInv PROVE TypeOK
      OBVIOUS
    <2>1. \A p \in Pods : pod[p] # NoPod => pod[p].ip \in IPs /\ pod[p].target \in PodTargets
                                            /\ pod[p].ns = ns
      BY DEF TypeInv, PodsOK, PodType, LivePod
    <2>2. \A p \in Askers : req[p].phase \in Pending \cup {"none", "200", "401", "500"}
      BY Phases DEF TypeInv
    <2> QED BY <2>1, <2>2 DEF TypeInv, StoreOK, PodsOK, TypeOK
  <1> QED BY <1>1, Inductive, PTL

\* A request that is served acts as the step or trigger that sent it, in the
\* namespace of the sender, although pod, namespace and Condition are read one
\* after the other, addresses and tokens are used again and the sender chooses its
\* headers (KubernetesIntermediary).
THEOREM SenderServed == Spec => []ServedAsSender
  <1>1. TypeInv /\ SenderInv => ServedAsSender
    <2> SUFFICES ASSUME TypeInv, SenderInv, NEW p \in Askers,
                        req[p].phase = "200", pod[p].alive, req[p].own
                 PROVE  req[p].action = ActsAs(pod[p].target) /\ req[p].ns = pod[p].ns
      BY DEF ServedAsSender
    <2>1. pod[p] # NoPod
      BY Presence
    <2>2. Faithful(req[p], pod[p])
      BY DEF SenderInv
    <2> QED BY <2>1, <2>2 DEF Faithful
  <1> QED BY <1>1, Inductive, PTL

=============================================================================
