--------------------------- MODULE LocalLanesProofs ---------------------------
(***************************************************************************)
(* Theorems about LocalLanes, for any number of requests, lanes and        *)
(* iterations of the tool loop.                                            *)
(***************************************************************************)
EXTENDS LocalLanes, FiniteSetTheorems, TLAPS

(* A disjunction of actions of one request, by what they do to the parts of *)
(* the state the invariants speak of.                                       *)
Quitting(r) ==
  \/ NoneAvailable(r) \/ Forwarded(r) \/ ForwardFailed(r) \/ StreamRefused(r)
  \/ StreamEnded(r) \/ Leave(r) \/ Cancel(r)

(* Steps inside a run or a stream.                                          *)
Inside(r) ==
  \/ StreamOpened(r) \/ ModelCallsTool(r) \/ ToolDone(r) \/ ModelSaysNothing(r)
  \/ ModelAnswers(r) \/ BudgetSpent(r) \/ Swept(r) \/ ModelFails(r)

(* Whatever is served, cut off or reaped of the local paths, their state    *)
(* keeps its types.                                                         *)
THEOREM TypeCorrect == Spec => []TypeOK
<1>1. Init => TypeOK
  BY LanesAssumption DEF Init, TypeOK, Pool!Init, Modes, Places
<1>2. TypeOK /\ [Next]_vars => TypeOK'
  <2> SUFFICES ASSUME TypeOK, [Next]_vars PROVE TypeOK'
    OBVIOUS
  <2>1. ASSUME NEW r \in Requests, NEW m \in Modes, Start(r, m) PROVE TypeOK'
    BY <2>1 DEF TypeOK, Start, Goto, Reply, Places
  <2>2. ASSUME NEW r \in Requests, Acquire(r) PROVE TypeOK'
    BY <2>2 DEF TypeOK, Acquire, Pool!Acquire, Goto, Places
  <2>3. ASSUME NEW r \in Requests, FinishRun(r) PROVE TypeOK'
    BY <2>3 DEF TypeOK, FinishRun, Goto, Write, Places
  <2>4. ASSUME NEW r \in Requests, Inside(r) PROVE TypeOK'
    BY <2>4, LanesAssumption DEF TypeOK, Inside, StreamOpened, ModelCallsTool, ToolDone,
       ModelSaysNothing, ModelAnswers, BudgetSpent, Swept, ModelFails, RunStep, InBudget,
       NextRound, Reply, Goto, Places
  <2>5. ASSUME NEW r \in Requests, Quitting(r) PROVE TypeOK'
    <3>1. PICK from \in Places, result \in {"none", "ok", "error"} : End(r, from, result)
      BY <2>5 DEF Quitting, NoneAvailable, Forwarded, ForwardFailed, StreamRefused,
         StreamEnded, Leave, Cancel, TypeOK, Places
    <3>2. recorded' \in [Requests -> {"none", "success", "failure", "twice"}]
      BY <2>5 DEF Quitting, NoneAvailable, Forwarded, ForwardFailed, StreamRefused,
         StreamEnded, Leave, Cancel, Write, TypeOK
    <3>3. holder' \in [Requests -> Ports \cup {NoPort}]
      BY <3>1 DEF End, DropLocals, Pool!Release, TypeOK
    <3>4. at' \in [Requests -> Places] /\ reply' \in [Requests -> {"none", "ok", "error"}]
      BY <3>1 DEF TypeOK, End, Goto, Reply, Places
    <3>5. active' \in Int
      BY <3>1 DEF TypeOK, End, DropLocals, RequestFinished
    <3>6. 0 \in 0..MaxRounds
      BY LanesAssumption
    <3>7. port' \in [Requests -> Ports \cup {NoPort}] /\ round' \in [Requests -> 0..MaxRounds]
      BY <3>1, <3>6 DEF TypeOK, End, DropLocals
    <3>8. mode' = mode /\ runs' = runs
      BY <3>1 DEF End, DropLocals
    <3>9. QED
      BY <3>2, <3>3, <3>4, <3>5, <3>7, <3>8 DEF TypeOK
  <2>6. ASSUME NEW p \in Ports, PruneRun(p) PROVE TypeOK'
    BY <2>6 DEF TypeOK, PruneRun
  <2>7. CASE UNCHANGED vars
    BY <2>7 DEF TypeOK, vars
  <2>8. QED
    BY <2>1, <2>2, <2>3, <2>4, <2>5, <2>6, <2>7 DEF Next, Progress, Inside, Quitting
<1>3. QED
  BY <1>1, <1>2, PTL DEF Spec

-----------------------------------------------------------------------------
(* What a step that ends a request does, whatever ended it.                 *)
LEMMA QuittingEnds ==
  ASSUME NEW r \in Requests, Quitting(r)
  PROVE  /\ at' = [at EXCEPT ![r] = "idle"]
         /\ holder' = holder \/ Pool!Release(r)
         /\ port' = [port EXCEPT ![r] = NoPort]
         /\ runs' = runs
<1>1. PICK from, result : End(r, from, result)
  BY DEF Quitting, NoneAvailable, Forwarded, ForwardFailed, StreamRefused,
     StreamEnded, Leave, Cancel
<1>2. QED
  BY <1>1 DEF End, DropLocals, Goto

(* Steps inside a run keep the lane, and no step inside starts a run.       *)
LEMMA InsideStays ==
  ASSUME NEW r \in Requests, Inside(r), TypeOK
  PROVE  /\ UNCHANGED <<holder, port, runs>>
         /\ \A s \in Requests : at'[s] \in Running => at[s] \in Running
<1>1. PICK to \in Places : /\ at' = [at EXCEPT ![r] = to]
                           /\ to \in Running => at[r] \in Running
  BY DEF Inside, StreamOpened, ModelCallsTool, ToolDone, ModelSaysNothing, ModelAnswers,
     BudgetSpent, Swept, ModelFails, RunStep, Goto, Running, Places
<1>2. UNCHANGED <<holder, port, runs>>
  BY DEF Inside, StreamOpened, ModelCallsTool, ToolDone, ModelSaysNothing, ModelAnswers,
     BudgetSpent, Swept, ModelFails, RunStep
<1>3. QED
  BY <1>1, <1>2 DEF TypeOK

(* LocalLanes uses the pool as LanePool allows: it asks for a lane only     *)
(* when it holds none, and gives back only what it holds.                   *)
THEOREM UsesLanePool == Spec => Pool!Spec
<1>1. Init => Pool!Init
  BY DEF Init
<1>2. [Next]_vars => [Pool!Next]_holder
  <2> SUFFICES ASSUME Next PROVE Pool!Next \/ UNCHANGED holder
    BY DEF vars
  <2>1. ASSUME NEW r \in Requests, NEW m \in Modes, Start(r, m) PROVE UNCHANGED holder
    BY <2>1 DEF Start
  <2>2. ASSUME NEW r \in Requests, Acquire(r) PROVE Pool!Next
    BY <2>2 DEF Acquire, Pool!Next
  <2>3. ASSUME NEW r \in Requests, FinishRun(r) PROVE UNCHANGED holder
    BY <2>3 DEF FinishRun
  <2>4. ASSUME NEW r \in Requests, Inside(r) PROVE UNCHANGED holder
    BY <2>4 DEF Inside, StreamOpened, ModelCallsTool, ToolDone, ModelSaysNothing,
       ModelAnswers, BudgetSpent, Swept, ModelFails, RunStep
  <2>5. ASSUME NEW r \in Requests, Quitting(r) PROVE Pool!Next \/ UNCHANGED holder
    BY <2>5, QuittingEnds DEF Pool!Next
  <2>6. ASSUME NEW p \in Ports, PruneRun(p) PROVE UNCHANGED holder
    BY <2>6 DEF PruneRun
  <2>7. QED
    BY <2>1, <2>2, <2>3, <2>4, <2>5, <2>6 DEF Next, Progress, Inside, Quitting
<1>3. QED
  BY <1>1, <1>2, PTL DEF Spec, Pool!Spec

-----------------------------------------------------------------------------
Exclusive == \A r, s \in Requests : r # s /\ holder[r] # NoPort => holder[s] # holder[r]

(* A run has the lane its entry is under, and lanes are exclusive: else the *)
(* end of one run could remove the entry of another run on the same port.   *)
RunInv == /\ TypeOK
          /\ Exclusive
          /\ \A r \in Requests : at[r] \in Running => holder[r] = port[r] /\ port[r] \in Ports

LEMMA RunNext == RunInv /\ TypeOK' /\ [Next]_vars => RunInv'
<1> SUFFICES ASSUME RunInv, TypeOK', [Next]_vars PROVE RunInv'
  OBVIOUS
<1> USE DEF RunInv, Exclusive
<1>1. ASSUME NEW r \in Requests, NEW m \in Modes, Start(r, m) PROVE RunInv'
  BY <1>1 DEF Start, Goto, TypeOK, Running
<1>2. ASSUME NEW r \in Requests, Acquire(r) PROVE RunInv'
  <2>1. PICK p \in Ports : /\ Pool!Acquire(r, p)
                           /\ port' = [port EXCEPT ![r] = p]
                           /\ at' = [at EXCEPT ![r] = IF mode[r] = "agent"
                                                      THEN "thinking" ELSE "sending"]
    BY <1>2 DEF Acquire, Goto
  <2>2. holder' = [holder EXCEPT ![r] = p] /\ \A s \in Requests : holder[s] # p
    BY <2>1 DEF Pool!Acquire
  <2>3. Exclusive'
    BY <2>2 DEF TypeOK
  <2>4. \A s \in Requests : at'[s] \in Running => holder'[s] = port'[s] /\ port'[s] \in Ports
    BY <2>1, <2>2 DEF TypeOK, Running
  <2>5. QED
    BY <2>3, <2>4
<1>3. ASSUME NEW r \in Requests, FinishRun(r) PROVE RunInv'
  BY <1>3 DEF FinishRun, Goto, TypeOK, Running
<1>4. ASSUME NEW r \in Requests, Inside(r) PROVE RunInv'
  BY <1>4, InsideStays
<1>5. ASSUME NEW r \in Requests, Quitting(r) PROVE RunInv'
  <2>1. /\ at' = [at EXCEPT ![r] = "idle"]
        /\ holder' = holder \/ Pool!Release(r)
        /\ port' = [port EXCEPT ![r] = NoPort]
    BY <1>5, QuittingEnds
  <2>2. \A s \in Requests \ {r} : holder'[s] = holder[s] /\ port'[s] = port[s] /\ at'[s] = at[s]
    BY <2>1 DEF Pool!Release, TypeOK
  <2>3. at'[r] \notin Running /\ holder'[r] \in {holder[r], NoPort}
    BY <2>1 DEF Pool!Release, TypeOK, Running
  <2>4. QED
    BY <2>2, <2>3
<1>6. ASSUME NEW p \in Ports, PruneRun(p) PROVE RunInv'
  BY <1>6 DEF PruneRun
<1>7. CASE UNCHANGED vars
  BY <1>7 DEF vars
<1>8. QED
  BY <1>1, <1>2, <1>3, <1>4, <1>5, <1>6, <1>7 DEF Next, Progress, Inside, Quitting

(* Until it is as old as active_run_etas allows, a run in progress keeps    *)
(* its entry in active_runs, however other runs end or are cancelled.       *)
THEOREM OnlyAgeUnlistsAgents == Spec => OnlyAgeUnlists
<1> DEFINE Kept(r) == at[r] \in Running /\ at'[r] \in Running /\ port[r] \in runs
                        => port[r] \in runs' \/ PruneRun(port[r])
           AllKept == \A r \in Requests : Kept(r)
<1>1. Init => RunInv
  BY LanesAssumption DEF Init, RunInv, TypeOK, Exclusive, Running, Pool!Init, Modes, Places
<1>2. RunInv /\ [Next]_vars => [AllKept]_vars
  <2> SUFFICES ASSUME RunInv, Next, NEW s \in Requests, at[s] \in Running, at'[s] \in Running,
                      port[s] \in runs
               PROVE  port[s] \in runs' \/ PruneRun(port[s])
    BY DEF vars
  <2>1. ASSUME NEW r \in Requests, NEW m \in Modes, Start(r, m) PROVE runs' = runs
    BY <2>1 DEF Start
  <2>2. ASSUME NEW r \in Requests, Acquire(r) PROVE runs \subseteq runs'
    BY <2>2 DEF Acquire
  <2>3. ASSUME NEW r \in Requests, FinishRun(r) PROVE port[s] \in runs'
    <3>1. at'[r] = "leaving" /\ at[r] \in Running /\ runs' = runs \ {port[r]}
      BY <2>3 DEF FinishRun, Goto, Running, RunInv, TypeOK
    <3>2. s # r
      BY <3>1 DEF Running
    <3>3. port[s] # port[r]
      BY <3>1, <3>2, LanesAssumption DEF RunInv, Exclusive
    <3>4. QED
      BY <3>1, <3>3
  <2>4. ASSUME NEW r \in Requests, Inside(r) PROVE runs' = runs
    BY <2>4, InsideStays DEF RunInv
  <2>5. ASSUME NEW r \in Requests, Quitting(r) PROVE runs' = runs
    BY <2>5, QuittingEnds
  <2>6. ASSUME NEW p \in Ports, PruneRun(p) PROVE port[s] \in runs' \/ PruneRun(port[s])
    BY <2>6 DEF PruneRun
  <2>7. QED
    BY <2>1, <2>2, <2>3, <2>4, <2>5, <2>6 DEF Next, Progress, Inside, Quitting
<1>3. QED
  BY <1>1, <1>2, RunNext, TypeCorrect, PTL DEF Spec, OnlyAgeUnlists

-----------------------------------------------------------------------------
CountedRequests == {r \in Requests : Counted(r)}

(* Starting, ending and everything between, as it counts.                   *)
LEMMA StartCounts ==
  ASSUME NEW r \in Requests, NEW m \in Modes, Start(r, m), TypeOK
  PROVE  /\ r \notin CountedRequests
         /\ IF m = "agent" THEN CountedRequests' = CountedRequests /\ active' = active
            ELSE CountedRequests' = CountedRequests \cup {r} /\ active' = active + 1
BY DEF Start, Goto, TypeOK, CountedRequests, Counted

LEMMA QuittingCounts ==
  ASSUME NEW r \in Requests, Quitting(r), TypeOK
  PROVE  /\ CountedRequests' = CountedRequests \ {r}
         /\ active' = IF r \in CountedRequests THEN active - 1 ELSE active
<1>1. PICK from \in Places \ {"idle"} : \E result : End(r, from, result)
  BY DEF Quitting, NoneAvailable, Forwarded, ForwardFailed, StreamRefused,
     StreamEnded, Leave, Cancel, Places
<1>2. QED
  BY <1>1 DEF End, DropLocals, RequestFinished, Goto, TypeOK, CountedRequests, Counted

LEMMA InsideCounts ==
  ASSUME NEW r \in Requests, Inside(r) \/ FinishRun(r) \/ Acquire(r), TypeOK
  PROVE  CountedRequests' = CountedRequests /\ active' = active
<1>1. PICK to \in Places \ {"idle"} : /\ at[r] # "idle"
                                     /\ at' = [at EXCEPT ![r] = to]
  BY DEF Inside, StreamOpened, ModelCallsTool, ToolDone, ModelSaysNothing, ModelAnswers,
     BudgetSpent, Swept, ModelFails, RunStep, FinishRun, Acquire, Goto, Places
<1>2. UNCHANGED <<mode, active>>
  BY DEF Inside, StreamOpened, ModelCallsTool, ToolDone, ModelSaysNothing, ModelAnswers,
     BudgetSpent, Swept, ModelFails, RunStep, FinishRun, Acquire
<1>3. QED
  BY <1>1, <1>2 DEF TypeOK, CountedRequests, Counted

(* active_requests is exact, whichever way out of the proxy a request takes *)
(* and however many there are: nothing is counted twice or taken off twice. *)
THEOREM CounterIsExact == Spec => []ActiveRequestsExact
<1>1. Init => ActiveRequestsExact
  <2> SUFFICES ASSUME Init PROVE active = Cardinality(CountedRequests)
    BY DEF ActiveRequestsExact, CountedRequests
  <2>1. CountedRequests = {}
    BY DEF Init, CountedRequests, Counted
  <2>2. QED
    BY <2>1, FS_EmptySet DEF Init
<1>2. TypeOK /\ ActiveRequestsExact /\ [Next]_vars => ActiveRequestsExact'
  <2> SUFFICES ASSUME TypeOK, active = Cardinality(CountedRequests), [Next]_vars
               PROVE  active' = Cardinality(CountedRequests')
    BY DEF ActiveRequestsExact, CountedRequests
  <2>1. IsFiniteSet(CountedRequests) /\ Cardinality(CountedRequests) \in Nat
    BY LanesAssumption, FS_Subset, FS_CardinalityType DEF CountedRequests
  <2>2. ASSUME NEW r \in Requests, NEW m \in Modes, Start(r, m)
        PROVE  active' = Cardinality(CountedRequests')
    BY <2>1, <2>2, StartCounts, FS_AddElement
  <2>3. ASSUME NEW r \in Requests, Quitting(r)
        PROVE  active' = Cardinality(CountedRequests')
    BY <2>1, <2>3, QuittingCounts, FS_RemoveElement
  <2>4. ASSUME NEW r \in Requests, Inside(r) \/ FinishRun(r) \/ Acquire(r)
        PROVE  active' = Cardinality(CountedRequests')
    BY <2>4, InsideCounts
  <2>5. ASSUME NEW p \in Ports, PruneRun(p)
        PROVE  active' = Cardinality(CountedRequests')
    BY <2>5 DEF PruneRun, CountedRequests, Counted
  <2>6. CASE UNCHANGED vars
    BY <2>6 DEF vars, CountedRequests, Counted
  <2>7. QED
    BY <2>2, <2>3, <2>4, <2>5, <2>6 DEF Next, Progress, Inside, Quitting
<1>3. QED
  BY <1>1, <1>2, TypeCorrect, PTL DEF Spec

-----------------------------------------------------------------------------
(* Nothing is recorded before the request is over or its run has finished,  *)
(* so that it is recorded once; and the record is there before the reply    *)
(* counts, in the one case where steps lie between them.                    *)
RecordInv ==
  \A r \in Requests :
    /\ recorded[r] # "twice"
    /\ at[r] \notin {"idle", "leaving"} => recorded[r] = "none"
    /\ at[r] \in {"idle", "leaving"} /\ reply[r] = "ok" => recorded[r] = "success"

(* A request writes one record at most, and a success if its client got an  *)
(* answer: no way out of a stream, a plain call or a run records twice.     *)
THEOREM AnswersGetRecorded == Spec => []AnswersAreRecorded
<1>1. Init => RecordInv
  BY DEF Init, RecordInv
<1>2. TypeOK /\ RecordInv /\ [Next]_vars => RecordInv'
  <2> SUFFICES ASSUME TypeOK, RecordInv, [Next]_vars PROVE RecordInv'
    OBVIOUS
  <2>1. ASSUME NEW r \in Requests, NEW m \in Modes, Start(r, m) PROVE RecordInv'
    BY <2>1 DEF Start, Goto, Reply, RecordInv, TypeOK
  <2>2. ASSUME NEW r \in Requests, Acquire(r) PROVE RecordInv'
    BY <2>2 DEF Acquire, Goto, RecordInv, TypeOK
  <2>3. ASSUME NEW r \in Requests, FinishRun(r) PROVE RecordInv'
    BY <2>3 DEF FinishRun, Goto, Write, RecordInv, TypeOK
  <2>4. ASSUME NEW r \in Requests, Inside(r) PROVE RecordInv'
    BY <2>4 DEF Inside, StreamOpened, ModelCallsTool, ToolDone, ModelSaysNothing, ModelAnswers,
       BudgetSpent, Swept, ModelFails, RunStep, Reply, Goto, RecordInv, TypeOK
  <2>5. ASSUME NEW r \in Requests, Quitting(r) PROVE RecordInv'
    <3>1. CASE NoneAvailable(r) \/ Cancel(r)
      BY <3>1 DEF NoneAvailable, Cancel, End, Goto, Reply, RecordInv, TypeOK
    <3>2. CASE Forwarded(r) \/ ForwardFailed(r)
      BY <3>2 DEF Forwarded, ForwardFailed, End, Goto, Write, Reply, RecordInv, TypeOK
    <3>3. CASE StreamRefused(r) \/ StreamEnded(r)
      BY <3>3 DEF StreamRefused, StreamEnded, End, Goto, Write, Reply, RecordInv, TypeOK
    <3>4. CASE Leave(r)
      BY <3>4 DEF Leave, End, Goto, Reply, RecordInv, TypeOK
    <3>5. QED
      BY <2>5, <3>1, <3>2, <3>3, <3>4 DEF Quitting
  <2>6. ASSUME NEW p \in Ports, PruneRun(p) PROVE RecordInv'
    BY <2>6 DEF PruneRun, RecordInv
  <2>7. CASE UNCHANGED vars
    BY <2>7 DEF vars, RecordInv
  <2>8. QED
    BY <2>1, <2>2, <2>3, <2>4, <2>5, <2>6, <2>7 DEF Next, Progress, Inside, Quitting
<1>3. RecordInv => AnswersAreRecorded
  BY DEF RecordInv, AnswersAreRecorded
<1>4. QED
  BY <1>1, <1>2, <1>3, TypeCorrect, PTL DEF Spec
=============================================================================
