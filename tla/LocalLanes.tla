------------------------------ MODULE LocalLanes ------------------------------
(***************************************************************************)
(* What a request does with a local lane: the Coding Agent proxy           *)
(* (omega-core/src/proxy.rs), plain or streaming, and the tool loop        *)
(* (omega-core/src/tool_loop.rs), with what they leave in the metrics      *)
(* store (omega-common/src/metrics.rs).  The pool they get the lane from   *)
(* is LanePool, which DemandPool implements.                               *)
(***************************************************************************)
EXTENDS Integers, FiniteSets

CONSTANTS Requests,   \* the requests the handler may be serving at a time
          Ports,      \* the lanes of the pool
          NoPort,
          MaxRounds   \* max_iterations of the tool loop

ASSUME LanesAssumption == /\ IsFiniteSet(Requests)
                          /\ NoPort \notin Ports
                          /\ MaxRounds \in Nat

VARIABLES
  holder,    \* the guard each request owns: the port it holds
  mode,      \* which of the three ways the request is served in
  at,        \* where it is
  port,      \* the tool loop's copy of guard.port()
  round,     \* the iterations of the tool loop that are over
  active,    \* active_requests, counted by RequestActivity
  runs,      \* the keys of active_runs
  recorded,  \* history: the record(s) the latest request of a slot has written
  reply      \* history: what its client got

vars == <<holder, mode, at, port, round, active, runs, recorded, reply>>

Pool == INSTANCE LanePool

Modes == {"forward", "stream", "agent"}
Places == {"idle", "acquiring", "sending", "streaming",     \* proxy.rs
           "thinking", "tool", "sweeping", "finishing", "leaving"}  \* tool_loop.rs
Running == {"thinking", "tool", "sweeping", "finishing"}

TypeOK == /\ holder \in [Requests -> Ports \cup {NoPort}]
          /\ mode \in [Requests -> Modes]
          /\ at \in [Requests -> Places]
          /\ port \in [Requests -> Ports \cup {NoPort}]
          /\ round \in [Requests -> 0..MaxRounds]
          /\ active \in Int
          /\ runs \subseteq Ports
          /\ recorded \in [Requests -> {"none", "success", "failure", "twice"}]
          /\ reply \in [Requests -> {"none", "ok", "error"}]

Init == /\ Pool!Init
        /\ mode \in [Requests -> {"forward"}]
        /\ at = [r \in Requests |-> "idle"]
        /\ port = [r \in Requests |-> NoPort]
        /\ round = [r \in Requests |-> 0]
        /\ active = 0
        /\ runs = {}
        /\ recorded = [r \in Requests |-> "none"]
        /\ reply = [r \in Requests |-> "none"]

-----------------------------------------------------------------------------
Goto(r, from, to) == /\ at[r] = from
                     /\ at' = [at EXCEPT ![r] = to]

Write(r, kind) ==
  recorded' = [recorded EXCEPT ![r] = IF @ = "none" THEN kind ELSE "twice"]

Reply(r, result) == reply' = [reply EXCEPT ![r] = result]

Counted(r) == mode[r] # "agent" /\ at[r] # "idle"

(* Dropping the RequestActivity; the tool loop has none.                    *)
RequestFinished(r) == active' = IF mode[r] = "agent" THEN active ELSE active - 1

(* The locals of the future go out of scope with no await in between: the   *)
(* guard, if there is one, and the RequestActivity.                         *)
DropLocals(r) == /\ IF holder[r] = NoPort THEN UNCHANGED holder ELSE Pool!Release(r)
                 /\ port' = [port EXCEPT ![r] = NoPort]
                 /\ round' = [round EXCEPT ![r] = 0]
                 /\ RequestFinished(r)
                 /\ UNCHANGED <<mode, runs>>

End(r, from, result) == Goto(r, from, "idle") /\ DropLocals(r) /\ Reply(r, result)

(***************************** up to the lane *******************************)
Start(r, m) == /\ Goto(r, "idle", "acquiring")
               /\ mode' = [mode EXCEPT ![r] = m]
               /\ active' = IF m = "agent" THEN active ELSE active + 1
               /\ recorded' = [recorded EXCEPT ![r] = "none"]
               /\ Reply(r, "none")
               /\ UNCHANGED <<holder, port, round, runs>>

Acquire(r) ==
  \E p \in Ports :
    /\ Pool!Acquire(r, p)
    /\ port' = [port EXCEPT ![r] = p]
    /\ Goto(r, "acquiring", IF mode[r] = "agent" THEN "thinking" ELSE "sending")
    /\ runs' = IF mode[r] = "agent" THEN runs \cup {p} ELSE runs
    /\ UNCHANGED <<mode, round, active, recorded, reply>>

(* A bug the checks must notice: a refused request stays counted.           *)
NoneAvailableLeaks(r) == /\ Goto(r, "acquiring", "idle")
                         /\ Reply(r, "error")
                         /\ UNCHANGED <<holder, mode, port, round, active, runs, recorded>>

NoneAvailable(r) == End(r, "acquiring", "error") /\ UNCHANGED recorded

(****************************** CodingAgentProxy ****************************)
(* The success is recorded before the answer is decoded.                    *)
Forwarded(r) == /\ mode[r] = "forward"
                /\ Write(r, "success")
                /\ \E result \in {"ok", "error"} : End(r, "sending", result)

ForwardFailed(r) == /\ mode[r] = "forward"
                    /\ Write(r, "failure")
                    /\ End(r, "sending", "error")

(* An upstream error status is recorded, a refused connection is not.       *)
StreamRefused(r) == /\ mode[r] = "stream"
                    /\ Write(r, "failure") \/ UNCHANGED recorded
                    /\ End(r, "sending", "error")

StreamOpened(r) == /\ mode[r] = "stream"
                   /\ Goto(r, "sending", "streaming")
                   /\ UNCHANGED <<holder, mode, port, round, active, runs, recorded, reply>>

(* A bug the checks must notice: the end of the stream is not recorded.     *)
StreamEndedUnrecorded(r) == /\ UNCHANGED recorded
                            /\ \/ End(r, "streaming", "ok")
                               \/ End(r, "streaming", "error")

(* GuardedStream has come to its end, or to an error.                       *)
StreamEnded(r) == \/ Write(r, "success") /\ End(r, "streaming", "ok")
                  \/ Write(r, "failure") /\ End(r, "streaming", "error")

(********************************** ToolLoop ********************************)
(* A bug the checks must notice: the budget is overrun by one iteration.    *)
InBudgetPlusOne(r) == round[r] <= MaxRounds

InBudget(r) == round[r] < MaxRounds

NextRound(r) == round' = [round EXCEPT ![r] = @ + 1]

RunStep(r, from, to) == /\ Goto(r, from, to)
                        /\ UNCHANGED <<holder, mode, port, active, runs, recorded>>

(* A bug the checks must notice: calling a tool does not use up the budget. *)
ModelCallsToolForFree(r) == /\ InBudget(r)
                            /\ RunStep(r, "thinking", "tool")
                            /\ UNCHANGED <<round, reply>>

ModelCallsTool(r) == /\ InBudget(r)
                     /\ RunStep(r, "thinking", "tool")
                     /\ NextRound(r)
                     /\ UNCHANGED reply

(* The outcome of the tool, good or bad, goes back to the model.            *)
ToolDone(r) == RunStep(r, "tool", "thinking") /\ UNCHANGED <<round, reply>>

ModelSaysNothing(r) == /\ InBudget(r)
                       /\ RunStep(r, "thinking", "thinking")
                       /\ NextRound(r)
                       /\ UNCHANGED reply

(* There is an answer, or the last output stands in for one.                *)
ModelAnswers(r) == /\ InBudget(r)
                   /\ RunStep(r, "thinking", "sweeping")
                   /\ NextRound(r)
                   /\ UNCHANGED reply

BudgetSpent(r) == /\ ~InBudget(r)
                  /\ RunStep(r, "thinking", "sweeping")
                  /\ UNCHANGED <<round, reply>>

(* A bug the checks must notice: the lane is given back before the end.     *)
SweptLaneDropped(r) == /\ Goto(r, "sweeping", "finishing")
                       /\ Pool!Release(r)
                       /\ Reply(r, "ok")
                       /\ UNCHANGED <<mode, port, round, active, runs, recorded>>

Swept(r) == RunStep(r, "sweeping", "finishing") /\ Reply(r, "ok") /\ UNCHANGED round

ModelFails(r) == /\ InBudget(r)
                 /\ RunStep(r, "thinking", "finishing")
                 /\ Reply(r, "error")
                 /\ UNCHANGED round

FinishRun(r) == /\ Goto(r, "finishing", "leaving")
                /\ runs' = runs \ {port[r]}
                /\ Write(r, IF reply[r] = "ok" THEN "success" ELSE "failure")
                /\ UNCHANGED <<holder, mode, port, round, active, reply>>

Leave(r) == End(r, "leaving", reply[r]) /\ UNCHANGED recorded

(********************************** others **********************************)
(* The client disconnects: the future or the body stream is dropped.        *)
Cancel(r) == /\ at[r] \in {"acquiring", "sending", "streaming", "thinking", "tool", "sweeping"}
             /\ End(r, at[r], "none")
             /\ UNCHANGED recorded

(* active_run_etas drops an entry older than three average runs and a       *)
(* minute, whether its run is over or not: short runs lower the average.    *)
PruneRun(p) == /\ p \in runs
               /\ runs' = runs \ {p}
               /\ UNCHANGED <<holder, mode, at, port, round, active, recorded, reply>>

Progress(r) ==
  \/ Acquire(r) \/ NoneAvailable(r)
  \/ Forwarded(r) \/ ForwardFailed(r)
  \/ StreamRefused(r) \/ StreamOpened(r) \/ StreamEnded(r)
  \/ ModelCallsTool(r) \/ ToolDone(r) \/ ModelSaysNothing(r) \/ ModelAnswers(r)
  \/ BudgetSpent(r) \/ Swept(r) \/ ModelFails(r) \/ FinishRun(r) \/ Leave(r)

Next == \/ \E r \in Requests : (\E m \in Modes : Start(r, m)) \/ Progress(r) \/ Cancel(r)
        \/ \E p \in Ports : PruneRun(p)

Spec == Init /\ [][Next]_vars

(* acquire returns; model calls, tools and streams are bounded by timeouts. *)
FairSpec == Spec /\ \A r \in Requests : WF_vars(Progress(r))

-----------------------------------------------------------------------------
(* active_requests is the number of plain and streaming requests under way, *)
(* on every path out of the proxy, disconnects included.                    *)
ActiveRequestsExact == active = Cardinality({r \in Requests : Counted(r)})

(* A run in progress loses its entry to its age only, never to the end of   *)
(* another run, although entries are keyed by port and lanes change hands   *)
(* as soon as a run is over or cancelled.                                   *)
OnlyAgeUnlists ==
  [][\A r \in Requests :
       at[r] \in Running /\ at'[r] \in Running /\ port[r] \in runs
         => port[r] \in runs' \/ PruneRun(port[r])]_vars

(* A request writes one record at most, and a success if its client got an  *)
(* answer.                                                                  *)
AnswersAreRecorded ==
  \A r \in Requests : /\ recorded[r] # "twice"
                      /\ at[r] = "idle" /\ reply[r] = "ok" => recorded[r] = "success"

(* Every request comes to its end and gives its lane back, whatever the     *)
(* model says in the tool loop.                                             *)
EveryRequestEnds ==
  \A r \in Requests : at[r] = "acquiring" ~> at[r] = "idle" /\ holder[r] = NoPort
=============================================================================
