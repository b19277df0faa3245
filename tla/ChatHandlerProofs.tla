--------------------------- MODULE ChatHandlerProofs ---------------------------
(***************************************************************************)
(* The router and the handler over it, with any chain, any weights and any *)
(* number of requests.                                                     *)
(***************************************************************************)
EXTENDS ChatHandler, SmoothWeightedProofs

(******************************* the router **********************************)

(* TypeOK needs to know that who selects has something to select from (else *)
(* there were no winner to return), and that only enabled backends are      *)
(* probed (else the cache would have entries for others).                   *)
RouterInv == /\ TypeOK
             /\ \A t \in Tasks : stage[t] = "selecting" => healthy[t] # {}
             /\ \A t \in Tasks : Probed(t) \subseteq Enabled

LEMMA EnabledAreBackends == Enabled \subseteq Backends /\ NoBackend \notin Enabled
BY RouterAssumption

(* The three parts of a task's step that touch the cache or the weights.    *)
LEMMA BeginPickKeepsInv ==
  ASSUME NEW t \in Tasks, RouterInv, BeginPick(t) PROVE RouterInv'
<1>1. CASE Enabled = {}
  <2>1. /\ stage[t] = "out" /\ stage' = [stage EXCEPT ![t] = "exhausted"]
        /\ UNCHANGED <<current, verdict, fresh, marked, up, probes, healthy, choice>>
    BY <1>1 DEF BeginPick, Step, cacheVars
  <2>2. \A s \in Tasks : Probed(s)' = Probed(s)
    BY <2>1 DEF Probed
  <2>3. stage' \in [Tasks -> Stages]
    BY <2>1 DEF RouterInv, TypeOK, Stages
  <2>4. \A s \in Tasks : s # t => stage'[s] = stage[s]
    BY <2>1 DEF RouterInv, TypeOK
  <2>5. stage'[t] = "exhausted"
    BY <2>1 DEF RouterInv, TypeOK
  <2>6. healthy[t] = {} /\ choice[t] = NoBackend
    BY <2>1 DEF RouterInv, TypeOK
  <2>7. TypeOK'
    BY <2>1, <2>3, <2>4, <2>5, <2>6 DEF RouterInv, TypeOK
  <2>8. QED
    BY <2>1, <2>2, <2>4, <2>5, <2>7 DEF RouterInv
<1>2. CASE Enabled # {}
  <2>1. /\ stage[t] = "out" /\ stage' = [stage EXCEPT ![t] = "probing"]
        /\ probes' = [probes EXCEPT ![t] =
                        [b \in Backends |-> IF b \in Stale THEN "pending" ELSE "none"]]
        /\ UNCHANGED <<current, cacheVars, up, healthy, choice>>
    BY <1>2 DEF BeginPick, Step
  <2>2. \A s \in Tasks : Probed(s)' \subseteq Enabled
    BY <2>1 DEF RouterInv, TypeOK, Probed, Stale
  <2>3. probes' \in [Tasks -> [Backends -> {"none", "pending", "ok", "failed"}]]
    BY <2>1 DEF RouterInv, TypeOK
  <2>4. QED
    BY <2>1, <2>2, <2>3 DEF cacheVars, RouterInv, TypeOK, Stages
<1>3. QED
  BY <1>1, <1>2

LEMMA PickStepKeepsInv ==
  ASSUME NEW t \in Tasks, RouterInv, PickStep(t) PROVE RouterInv'
<1>1. ASSUME NEW b \in Backends, ProbeDone(t, b) PROVE RouterInv'
  <2>1. /\ probes[t][b] = "pending"
        /\ probes' = [probes EXCEPT ![t][b] = IF b \in up THEN "ok" ELSE "failed"]
        /\ UNCHANGED <<current, cacheVars, up, stage, healthy, choice>>
    BY <1>1 DEF ProbeDone
  <2>2. probes' \in [Tasks -> [Backends -> {"none", "pending", "ok", "failed"}]]
    BY <2>1 DEF RouterInv, TypeOK
  <2>3. \A s \in Tasks : Probed(s)' = Probed(s)
    BY <2>1 DEF RouterInv, TypeOK, Probed
  <2>4. QED
    BY <2>1, <2>2, <2>3 DEF cacheVars, RouterInv, TypeOK
<1>2. ASSUME StoreResults(t) PROVE RouterInv'
  <2>1. /\ stage[t] = "probing" /\ stage' = [stage EXCEPT ![t] = "collecting"]
        /\ verdict' = [b \in Backends |->
             IF b \notin Probed(t) THEN verdict[b]
             ELSE IF probes[t][b] = "ok" THEN "healthy" ELSE "unhealthy"]
        /\ fresh' = fresh \cup Probed(t)
        /\ probes' = [probes EXCEPT ![t] = NoProbes]
        /\ UNCHANGED <<current, marked, up, healthy, choice>>
    BY <1>2 DEF StoreResults, Step
  <2>2. /\ probes' \in [Tasks -> [Backends -> {"none", "pending", "ok", "failed"}]]
        /\ \A s \in Tasks : Probed(s)' \subseteq Probed(s)
    BY <2>1 DEF RouterInv, TypeOK, NoProbes, Probed
  <2>3. verdict' \in [Backends -> {"unknown", "healthy", "unhealthy"}]
    BY <2>1 DEF RouterInv, TypeOK
  <2>4. fresh' \subseteq {b \in Enabled : verdict'[b] # "unknown"}
    BY <2>1, EnabledAreBackends DEF RouterInv, TypeOK
  <2>5. QED
    BY <2>1, <2>2, <2>3, <2>4 DEF RouterInv, TypeOK, Stages
<1>3. ASSUME CollectHealthy(t) PROVE RouterInv'
  <2> DEFINE H == {b \in Enabled : verdict[b] = "healthy"}
  <2>1. /\ stage[t] = "collecting"
        /\ stage' = [stage EXCEPT ![t] = IF H = {} THEN "exhausted" ELSE "selecting"]
        /\ healthy' = [healthy EXCEPT ![t] = H]
        /\ UNCHANGED <<current, cacheVars, up, probes, choice>>
    BY <1>3 DEF CollectHealthy, Step
  <2>2. H \in SUBSET Enabled
    OBVIOUS
  <2> HIDE DEF H
  <2>3. QED
    BY <2>1, <2>2 DEF cacheVars, RouterInv, TypeOK, Stages, Probed
<1>4. ASSUME Select(t) PROVE RouterInv'
  <2>1. /\ stage[t] = "selecting" /\ stage' = [stage EXCEPT ![t] = "picked"]
        /\ choice' = [choice EXCEPT ![t] = Winner(current, healthy[t])]
        /\ current' = Charged(current, healthy[t])
        /\ healthy' = [healthy EXCEPT ![t] = {}]
        /\ UNCHANGED <<cacheVars, up, probes>>
    BY <1>4 DEF Select, Step
  <2>2. /\ current \in [Backends -> Int]
        /\ healthy[t] \in SUBSET Enabled /\ healthy[t] \in SUBSET Backends /\ healthy[t] # {}
    BY <2>1, EnabledAreBackends DEF RouterInv, TypeOK
  <2>3. current' \in [Backends -> Int]
    BY <2>1, <2>2, PickConserves
  <2>4. Winner(current, healthy[t]) \in Enabled
    BY <2>2, WinnerIsHealthy
  <2>5. QED
    BY <2>1, <2>3, <2>4, EnabledAreBackends DEF cacheVars, RouterInv, TypeOK, Stages, Probed
<1>5. QED
  BY <1>1, <1>2, <1>3, <1>4 DEF PickStep

(* Every variable of the router keeps its type: a pick returns an enabled   *)
(* backend or none, and the cache has entries for enabled ones only, for    *)
(* any number of concurrent picks, reports and disconnects.                 *)
THEOREM TypeCorrect == RouterSpec => []TypeOK
<1>1. RouterInit => RouterInv
  BY EnabledAreBackends DEF RouterInit, RouterInv, TypeOK, Stages, NoProbes, Probed
<1>2. RouterInv /\ [RouterNext]_routerVars => RouterInv'
  <2> SUFFICES ASSUME RouterInv, [RouterNext]_routerVars PROVE RouterInv'
    OBVIOUS
  <2>1. ASSUME NEW t \in Tasks, BeginPick(t) PROVE RouterInv'
    BY <2>1, BeginPickKeepsInv
  <2>2. ASSUME NEW t \in Tasks, PickStep(t) PROVE RouterInv'
    BY <2>2, PickStepKeepsInv
  <2>3. ASSUME NEW t \in Tasks, Use(t) PROVE RouterInv'
    BY <2>3 DEF Use, Release, cacheVars, RouterInv, TypeOK, Stages, Probed
  <2>4. ASSUME NEW t \in Tasks, Report(t) PROVE RouterInv'
    <3>1. /\ choice[t] \in Enabled /\ choice[t] \in Backends
          /\ verdict' = [verdict EXCEPT ![choice[t]] = "unhealthy"]
          /\ fresh' = fresh \cup {choice[t]}
          /\ marked' = marked \cup {choice[t]}
      BY <2>4, EnabledAreBackends DEF Report, MarkUnhealthy, RouterInv, TypeOK
    <3>2. /\ verdict' \in [Backends -> {"unknown", "healthy", "unhealthy"}]
          /\ fresh' \subseteq {b \in Enabled : verdict'[b] # "unknown"}
          /\ marked' \subseteq fresh'
      BY <3>1, EnabledAreBackends DEF RouterInv, TypeOK
    <3>3. QED
      BY <2>4, <3>2 DEF Report, Release, RouterInv, TypeOK, Stages, Probed
  <2>5. ASSUME NEW t \in Tasks, Abandon(t) PROVE RouterInv'
    <3>1. /\ probes' \in [Tasks -> [Backends -> {"none", "pending", "ok", "failed"}]]
          /\ \A s \in Tasks : Probed(s)' \subseteq Probed(s)
      BY <2>5 DEF Abandon, RouterInv, TypeOK, NoProbes, Probed
    <3>2. QED
      BY <2>5, <3>1 DEF Abandon, cacheVars, RouterInv, TypeOK, Stages
  <2>6. ASSUME NEW b \in Backends, Expire(b) PROVE RouterInv'
    BY <2>6 DEF Expire, taskVars, RouterInv, TypeOK, Probed
  <2>7. ASSUME NEW b \in Backends, Flip(b) PROVE RouterInv'
    BY <2>7 DEF Flip, cacheVars, taskVars, RouterInv, TypeOK, Probed
  <2>8. CASE UNCHANGED routerVars
    BY <2>8 DEF routerVars, RouterInv, TypeOK, Probed
  <2>9. QED
    BY <2>1, <2>2, <2>3, <2>4, <2>5, <2>6, <2>7, <2>8 DEF RouterNext, TaskStep, Changing
<1>3. RouterInv => TypeOK
  BY DEF RouterInv
<1>4. QED
  BY <1>1, <1>2, <1>3, PTL DEF RouterSpec

-----------------------------------------------------------------------------
(******************************* the handler *********************************)

(* Steps with an answer: the result of pick is used, the request is over.   *)
Answering(t) ==
  \/ ChainExhausted(t) \/ ServedLocally(t) \/ RemoteAnswered(t)
  \/ NoRetry(t) \/ RetryFailed(t)

(* Steps that go on with what pick returned.                                *)
GoingOn(t) == Dispatch(t) \/ ConnectionFailed(t) \/ Retry(t)

LEMMA NextByKind ==
  Next <=> \/ \E t \in Tasks : \/ Receive(t) \/ Picking(t) \/ Answering(t) \/ GoingOn(t)
                               \/ MarkFailed(t) \/ Repick(t) \/ Disconnect(t)
           \/ Environment
BY DEF Next, HandlerStep, Answering, GoingOn

LEMMA AnsweringAnswers ==
  ASSUME NEW t \in Tasks, Answering(t)
  PROVE  \E result \in {"ok", "error", "exhausted"} : Answer(t, result)
BY DEF Answering, ChainExhausted, ServedLocally, RemoteAnswered, NoRetry, RetryFailed

(* The handler uses the router as RouterSpec allows: it begins a pick only  *)
(* when none is going on, reports only a backend it was given, and is done  *)
(* with it then; a disconnect abandons the pick or is done with its result. *)
THEOREM ImplementsRouter == Spec => RouterSpec
<1>1. Init => RouterInit
  BY DEF Init
<1>2. [Next]_vars => [RouterNext]_routerVars
  <2> SUFFICES ASSUME [Next]_vars PROVE RouterNext \/ UNCHANGED routerVars
    OBVIOUS
  <2>1. ASSUME NEW t \in Tasks, Receive(t) \/ Repick(t) PROVE RouterNext
    <3>1. BeginPick(t)
      BY <2>1 DEF Receive, Repick
    <3>2. QED
      BY <3>1 DEF RouterNext, TaskStep
  <2>2. ASSUME NEW t \in Tasks, Picking(t) PROVE RouterNext
    BY <2>2 DEF Picking, RouterNext, TaskStep
  <2>3. ASSUME NEW t \in Tasks, Answering(t) PROVE RouterNext
    BY <2>3, AnsweringAnswers DEF Answer, RouterNext, TaskStep
  <2>4. ASSUME NEW t \in Tasks, GoingOn(t) PROVE UNCHANGED routerVars
    BY <2>4 DEF GoingOn, Dispatch, ConnectionFailed, Retry
  <2>5. ASSUME NEW t \in Tasks, MarkFailed(t) PROVE RouterNext
    BY <2>5 DEF MarkFailed, RouterNext, TaskStep
  <2>6. ASSUME NEW t \in Tasks, Disconnect(t) PROVE RouterNext \/ UNCHANGED routerVars
    BY <2>6 DEF Disconnect, RouterNext, TaskStep
  <2>7. CASE Environment
    BY <2>7 DEF Environment, RouterNext
  <2>8. CASE UNCHANGED vars
    BY <2>8 DEF vars, routerVars
  <2>9. QED
    BY <2>1, <2>2, <2>3, <2>4, <2>5, <2>6, <2>7, <2>8, NextByKind
<1>3. QED
  BY <1>1, <1>2, PTL DEF Spec, RouterSpec

-----------------------------------------------------------------------------
(* Where a request is in the handler fits where its task is in pick: it is  *)
(* outside before it asks and after a report, inside or with a result while *)
(* it routes, and with a backend that has not failed it in between.         *)
PhaseFits(t) ==
  /\ phase[t] \in {"idle", "marked"} => stage[t] = "out"
  /\ phase[t] \in {"toolLoop", "local", "forwarding", "marking", "retrying"}
       => stage[t] = "picked" /\ choice[t] # failed[t]
  /\ failed[t] # NoBackend <=> phase[t] \in {"marked", "rerouting", "retrying"}

RequestTypes == /\ phase \in [Tasks -> Phases]
                /\ agent \subseteq Tasks
                /\ failed \in [Tasks -> Enabled \cup {NoBackend}]
                /\ outcome \in [Tasks -> {"none", "ok", "exhausted", "error"}]

ChatInv == RequestTypes /\ \A t \in Tasks : PhaseFits(t)

(* Every part of the handler's state keeps its type; a request has a        *)
(* failed backend exactly between its report and its answer, and never      *)
(* sends to the backend it has reported.                                    *)
THEOREM ChatTypeCorrect == Spec => []ChatTypeOK
<1>1. Init /\ TypeOK => ChatInv
  BY DEF Init, RouterInit, TypeOK, ChatInv, RequestTypes, PhaseFits, Phases
<1>2. TypeOK /\ TypeOK' /\ ChatInv /\ [Next]_vars => ChatInv'
  <2> SUFFICES ASSUME TypeOK, TypeOK', ChatInv, [Next]_vars PROVE ChatInv'
    OBVIOUS
  <2>1. ASSUME NEW t \in Tasks, Receive(t) PROVE ChatInv'
    <3>1. /\ phase[t] = "idle" /\ phase' = [phase EXCEPT ![t] = "routing"]
          /\ agent' \in {agent, agent \cup {t}}
          /\ outcome' = [outcome EXCEPT ![t] = "none"]
          /\ failed' = failed
      BY <2>1 DEF Receive, Goto
    <3>2. choice' = choice /\ \E to \in Stages : stage' = [stage EXCEPT ![t] = to]
      BY <2>1 DEF Receive, BeginPick, Step, Stages
    <3>3. QED
      BY <3>1, <3>2 DEF TypeOK, ChatInv, RequestTypes, PhaseFits, Phases
  <2>2. ASSUME NEW t \in Tasks, Picking(t) PROVE ChatInv'
    <3>1. /\ UNCHANGED requestVars
          /\ stage[t] \in {"probing", "collecting", "selecting"}
          /\ \E to \in Stages : stage' = [stage EXCEPT ![t] = to]
          /\ \E b : choice' = [choice EXCEPT ![t] = b]
      <4>1. CASE \E b \in Backends : ProbeDone(t, b)
        BY <2>2, <4>1 DEF Picking, ProbeDone, TypeOK
      <4>2. CASE StoreResults(t)
        BY <2>2, <4>2 DEF Picking, StoreResults, Step, TypeOK, Stages
      <4>3. CASE CollectHealthy(t)
        BY <2>2, <4>3 DEF Picking, CollectHealthy, Step, TypeOK, Stages
      <4>4. CASE Select(t)
        BY <2>2, <4>4 DEF Picking, Select, Step, TypeOK, Stages
      <4>5. QED
        BY <2>2, <4>1, <4>2, <4>3, <4>4 DEF Picking, PickStep
    <3>2. QED
      BY <3>1 DEF requestVars, TypeOK, ChatInv, RequestTypes, PhaseFits
  <2>3. ASSUME NEW t \in Tasks, Answering(t) PROVE ChatInv'
    <3>1. PICK result \in {"ok", "error", "exhausted"} : Answer(t, result)
      BY <2>3, AnsweringAnswers
    <3>2. /\ stage' = [stage EXCEPT ![t] = "out"]
          /\ choice' = [choice EXCEPT ![t] = NoBackend]
      BY <3>1 DEF Answer, Use, Release
    <3>3. QED
      BY <3>1, <3>2 DEF Answer, Forget, TypeOK, ChatInv, RequestTypes, PhaseFits, Phases
  <2>4. ASSUME NEW t \in Tasks, GoingOn(t) PROVE ChatInv'
    <3>1. UNCHANGED <<agent, failed, outcome, stage, choice>>
      BY <2>4 DEF GoingOn, Dispatch, ConnectionFailed, Retry, routerVars
    <3>2. CASE Dispatch(t)
      <4>1. PICK to \in {"forwarding", "toolLoop", "local"} :
              phase[t] = "routing" /\ phase' = [phase EXCEPT ![t] = to]
        BY <3>2 DEF Dispatch, Goto
      <4>2. stage[t] = "picked" /\ choice[t] # failed[t]
        BY <3>2, <4>1 DEF Dispatch, TypeOK, ChatInv, PhaseFits
      <4>3. QED
        BY <3>1, <4>1, <4>2 DEF ChatInv, RequestTypes, PhaseFits, Phases
    <3>3. CASE ConnectionFailed(t)
      BY <3>1, <3>3 DEF ConnectionFailed, Goto, ChatInv, RequestTypes, PhaseFits, Phases
    <3>4. CASE Retry(t)
      BY <3>1, <3>4 DEF Retry, Goto, ChatInv, RequestTypes, PhaseFits, Phases
    <3>5. QED
      BY <2>4, <3>2, <3>3, <3>4 DEF GoingOn
  <2>5. ASSUME NEW t \in Tasks, MarkFailed(t) PROVE ChatInv'
    BY <2>5 DEF MarkFailed, Goto, Report, Release, TypeOK, ChatInv, RequestTypes,
       PhaseFits, Phases
  <2>6. ASSUME NEW t \in Tasks, Repick(t) PROVE ChatInv'
    <3>1. /\ phase[t] = "marked" /\ phase' = [phase EXCEPT ![t] = "rerouting"]
          /\ UNCHANGED <<agent, failed, outcome>>
      BY <2>6 DEF Repick, Goto
    <3>2. choice' = choice /\ \E to \in Stages : stage' = [stage EXCEPT ![t] = to]
      BY <2>6 DEF Repick, BeginPick, Step, Stages
    <3>3. QED
      BY <3>1, <3>2 DEF TypeOK, ChatInv, RequestTypes, PhaseFits, Phases
  <2>7. ASSUME NEW t \in Tasks, Disconnect(t) PROVE ChatInv'
    <3>1. Forget(t, "none")
      BY <2>7 DEF Disconnect
    <3>2. /\ \A s \in Tasks \ {t} : stage'[s] = stage[s] /\ choice'[s] = choice[s]
          /\ stage'[t] = "out"
      BY <2>7 DEF Disconnect, Abandon, Use, Release, routerVars, TypeOK, ChatInv, PhaseFits
    <3>3. QED
      BY <3>1, <3>2 DEF Forget, TypeOK, ChatInv, RequestTypes, PhaseFits, Phases
  <2>8. CASE Environment
    BY <2>8 DEF Environment, Changing, Flip, Expire, taskVars, requestVars,
       ChatInv, RequestTypes, PhaseFits
  <2>9. CASE UNCHANGED vars
    BY <2>9 DEF vars, ChatInv, RequestTypes, PhaseFits
  <2>10. QED
    BY <2>1, <2>2, <2>3, <2>4, <2>5, <2>6, <2>7, <2>8, <2>9, NextByKind
<1>3. TypeOK /\ ChatInv => ChatTypeOK
  BY DEF ChatInv, RequestTypes, PhaseFits, ChatTypeOK
<1>4. Spec => []TypeOK
  BY ImplementsRouter, TypeCorrect, PTL
<1>5. QED
  BY <1>1, <1>2, <1>3, <1>4, PTL DEF Spec
=============================================================================
