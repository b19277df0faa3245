----------------------------- MODULE ChatHandler -----------------------------
(***************************************************************************)
(* chat of omega-server/src/handlers.rs: a request picks a backend from    *)
(* the router and is served by the local tool loop, by the local pool, or  *)
(* by a remote server.  When a remote server cannot be reached, it is      *)
(* reported to the router and the request is picked and sent once more.    *)
(* What the local lanes do is LocalLanes; here they answer or fail.        *)
(***************************************************************************)
EXTENDS RowRouter

CONSTANTS Omega   \* the backend whose id is "omega"

ASSUME ChatAssumption == Omega \in Backends

VARIABLES phase,    \* where each request is in the handler
          agent,    \* the requests whose operation is `agent`
          failed,   \* the backend a request was first sent to in vain
          outcome   \* history: how the latest request of a task was answered

requestVars == <<phase, agent, failed, outcome>>
vars == <<current, verdict, fresh, marked, up, stage, probes, healthy, choice,
          phase, agent, failed, outcome>>

Phases == {"idle", "routing", "toolLoop", "local", "forwarding", "marking",
           "marked", "rerouting", "retrying"}

(* Where the cross-server proxy is sending a request.                       *)
Remote(t) == IF phase[t] \in {"forwarding", "retrying"} THEN choice[t] ELSE NoBackend

ChatTypeOK ==
  /\ TypeOK
  /\ phase \in [Tasks -> Phases]
  /\ agent \subseteq Tasks
  /\ failed \in [Tasks -> Enabled \cup {NoBackend}]
  /\ outcome \in [Tasks -> {"none", "ok", "exhausted", "error"}]
  /\ \A t \in Tasks : failed[t] # NoBackend <=>
                        phase[t] \in {"marked", "rerouting", "retrying"}
  /\ \A t \in Tasks : phase[t] \in {"toolLoop", "local", "forwarding", "marking", "retrying"}
                        => stage[t] = "picked" /\ choice[t] # failed[t]

Init == /\ RouterInit
        /\ phase = [t \in Tasks |-> "idle"]
        /\ agent = {}
        /\ failed = [t \in Tasks |-> NoBackend]
        /\ outcome = [t \in Tasks |-> "none"]

-----------------------------------------------------------------------------
Goto(t, from, to) == /\ phase[t] = from
                     /\ phase' = [phase EXCEPT ![t] = to]

Forget(t, result) == /\ phase' = [phase EXCEPT ![t] = "idle"]
                     /\ agent' = agent \ {t}
                     /\ failed' = [failed EXCEPT ![t] = NoBackend]
                     /\ outcome' = [outcome EXCEPT ![t] = result]

(* The response of the handler: what pick returned is needed no more.       *)
Answer(t, result) == Forget(t, result) /\ Use(t)

(* The body was well-formed: 400s touch no state and are left out.          *)
Receive(t) == /\ Goto(t, "idle", "routing")
              /\ agent' \in {agent, agent \cup {t}}
              /\ outcome' = [outcome EXCEPT ![t] = "none"]
              /\ BeginPick(t)
              /\ UNCHANGED failed

Picking(t) == PickStep(t) /\ UNCHANGED requestVars

ChainExhausted(t) == /\ phase[t] = "routing"
                     /\ stage[t] = "exhausted"
                     /\ Answer(t, "exhausted")

Dispatch(t) == /\ stage[t] = "picked"
               /\ Goto(t, "routing", IF choice[t] # Omega THEN "forwarding"
                                     ELSE IF t \in agent THEN "toolLoop" ELSE "local")
               /\ UNCHANGED <<agent, failed, outcome, routerVars>>

ServedLocally(t) == /\ phase[t] \in {"toolLoop", "local"}
                    /\ \E result \in {"ok", "error"} : Answer(t, result)

(* The remote server answered, well or with an error status or bad JSON.    *)
(* Forwards go to https and probes to http: `up`, which is about the probe, *)
(* says nothing about the forward.                                          *)
RemoteAnswered(t) == /\ Remote(t) # NoBackend
                     /\ \E result \in {"ok", "error"} : Answer(t, result)

(* ProxyError::Connection: no connection, or no answer before the timeout.  *)
ConnectionFailed(t) == /\ Goto(t, "forwarding", "marking")
                       /\ UNCHANGED <<agent, failed, outcome, routerVars>>

MarkFailed(t) == /\ Goto(t, "marking", "marked")
                 /\ failed' = [failed EXCEPT ![t] = choice[t]]
                 /\ Report(t)
                 /\ UNCHANGED <<agent, outcome>>

Repick(t) == /\ Goto(t, "marked", "rerouting")
             /\ BeginPick(t)
             /\ UNCHANGED <<agent, failed, outcome>>

(* A bug the checks must notice: the failed backend may be tried again.     *)
RetryAny(t) == /\ stage[t] = "picked"
               /\ Goto(t, "rerouting", "retrying")
               /\ UNCHANGED <<agent, failed, outcome, routerVars>>

(* The retry goes through the cross-server proxy whatever was picked.       *)
Retry(t) == /\ stage[t] = "picked"
            /\ choice[t] # failed[t]
            /\ Goto(t, "rerouting", "retrying")
            /\ UNCHANGED <<agent, failed, outcome, routerVars>>

(* The same backend again, or none: the first error is the answer.          *)
NoRetry(t) == /\ phase[t] = "rerouting"
              /\ stage[t] = "exhausted" \/ choice[t] = failed[t]
              /\ Answer(t, "error")

(* A bug the checks must notice: a failed retry is retried in its turn.     *)
RetryForever(t) == /\ Goto(t, "retrying", "marking")
                   /\ failed' = [failed EXCEPT ![t] = NoBackend]
                   /\ UNCHANGED <<agent, outcome, routerVars>>

(* A bug the checks must notice: the first backend is reported once more.   *)
RetryFailedMarksFirst(t) == /\ phase[t] = "retrying"
                            /\ Forget(t, "error")
                            /\ MarkUnhealthy(failed[t])
                            /\ Release(t)

RetryFailed(t) == /\ phase[t] = "retrying"
                  /\ Answer(t, "error")

(* The client disconnects: the handler is dropped where it is suspended.    *)
Disconnect(t) ==
  /\ phase[t] # "idle"
  /\ Forget(t, "none")
  /\ \/ Abandon(t) \/ Use(t)
     \/ phase[t] = "marked" /\ UNCHANGED routerVars

HandlerStep(t) ==
  \/ Picking(t) \/ ChainExhausted(t) \/ Dispatch(t) \/ ServedLocally(t)
  \/ RemoteAnswered(t) \/ ConnectionFailed(t) \/ MarkFailed(t) \/ Repick(t)
  \/ Retry(t) \/ NoRetry(t) \/ RetryFailed(t)

Environment == (Changing \/ \E b \in Backends : Expire(b)) /\ UNCHANGED requestVars

Next == \/ \E t \in Tasks : Receive(t) \/ HandlerStep(t) \/ Disconnect(t)
        \/ Environment

Spec == Init /\ [][Next]_vars

(* Tokio runs every runnable task, and every wait has a timeout.            *)
ChatFairSpec == Spec /\ \A t \in Tasks : WF_vars(HandlerStep(t))

-----------------------------------------------------------------------------
(* Every request is answered.                                               *)
EveryRequestAnswered == \A t \in Tasks : phase[t] = "routing" ~> phase[t] = "idle"

(* "omega goes through the local spawn-on-demand Coding Agent pool; anything *)
(* else goes through the cross-server HTTP forwarder".                       *)
OmegaServedLocally == \A t \in Tasks : Remote(t) # Omega
=============================================================================
