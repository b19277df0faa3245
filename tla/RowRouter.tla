------------------------------ MODULE RowRouter ------------------------------
(***************************************************************************)
(* The row-chain router of omega-core/src/router.rs: a cache of /health    *)
(* verdicts that every call of pick() reads, refreshes where it is stale,  *)
(* and selects from.  Calls run concurrently; the cache and the running    *)
(* weights are each behind a lock that is released between the steps       *)
(* below, and the probes are awaited in between with no lock held.         *)
(***************************************************************************)
EXTENDS SmoothWeighted, FiniteSets

CONSTANTS Enabled,    \* the backends with `enabled: true`
          Tasks,      \* the tasks that may call pick at the same time
          NoBackend   \* the choice of a task that has none

ASSUME RouterAssumption == /\ Enabled \subseteq Backends
                           /\ NoBackend \notin Backends

VARIABLES
  current,   \* the running weights of the rotation
  verdict,   \* the cache: what the entry of a backend says, if it has one
  fresh,     \* the entries younger than their TTL
  marked,    \* history: fresh entries mark_unhealthy wrote for their backend
  up,        \* environment: who answers /health with success within 2 s
  stage,     \* where each task is in pick
  probes,    \* the /health requests of each task: sent, and answered how
  healthy,   \* the healthy set a task collected
  choice     \* the backend pick returned

cacheVars == <<verdict, fresh, marked>>
taskVars  == <<stage, probes, healthy, choice>>
routerVars == <<current, verdict, fresh, marked, up, stage, probes, healthy, choice>>

Stages == {"out", "probing", "collecting", "selecting", "picked", "exhausted"}

TypeOK == /\ current \in [Backends -> Int]
          /\ verdict \in [Backends -> {"unknown", "healthy", "unhealthy"}]
          /\ fresh \subseteq {b \in Enabled : verdict[b] # "unknown"}
          /\ marked \subseteq fresh
          /\ up \subseteq Enabled
          /\ stage \in [Tasks -> Stages]
          /\ probes \in [Tasks -> [Backends -> {"none", "pending", "ok", "failed"}]]
          /\ healthy \in [Tasks -> SUBSET Enabled]
          /\ choice \in [Tasks -> Enabled \cup {NoBackend}]
          /\ \A t \in Tasks : choice[t] # NoBackend <=> stage[t] = "picked"
          /\ \A t \in Tasks : healthy[t] # {} => stage[t] = "selecting"

NoProbes == [b \in Backends |-> "none"]

RouterInit == /\ current = [b \in Backends |-> 0]
              /\ verdict = [b \in Backends |-> "unknown"]
              /\ fresh = {}
              /\ marked = {}
              /\ up \in SUBSET Enabled
              /\ stage = [t \in Tasks |-> "out"]
              /\ probes = [t \in Tasks |-> NoProbes]
              /\ healthy = [t \in Tasks |-> {}]
              /\ choice = [t \in Tasks |-> NoBackend]

-----------------------------------------------------------------------------
Step(t, from, to) == /\ stage[t] = from
                     /\ stage' = [stage EXCEPT ![t] = to]

(* A bug the checks must notice: disabled backends are probed as well.      *)
StaleOrDisabled == Backends \ fresh

(* A bug the checks must notice: only backends never probed are probed.     *)
StaleMissing == {b \in Enabled : verdict[b] = "unknown"}

(* The entry is missing or older than its TTL.                              *)
Stale == Enabled \ fresh

(********************************** pick() **********************************)
BeginPick(t) ==
  IF Enabled = {}
    THEN /\ Step(t, "out", "exhausted")
         /\ UNCHANGED <<current, cacheVars, up, probes, healthy, choice>>
    ELSE /\ Step(t, "out", "probing")
         /\ probes' = [probes EXCEPT ![t] =
                         [b \in Backends |-> IF b \in Stale THEN "pending" ELSE "none"]]
         /\ UNCHANGED <<current, cacheVars, up, healthy, choice>>

(* A bug the checks must notice: a probe that fails is taken for healthy.   *)
ProbeDoneAnyhow(t, b) ==
  /\ stage[t] = "probing"
  /\ probes[t][b] = "pending"
  /\ probes' = [probes EXCEPT ![t][b] = "ok"]
  /\ UNCHANGED <<current, cacheVars, up, stage, healthy, choice>>

(* One of the concurrent probes is answered, refused or timed out.          *)
ProbeDone(t, b) ==
  /\ stage[t] = "probing"
  /\ probes[t][b] = "pending"
  /\ probes' = [probes EXCEPT ![t][b] = IF b \in up THEN "ok" ELSE "failed"]
  /\ UNCHANGED <<current, cacheVars, up, stage, healthy, choice>>

Probed(t) == {b \in Backends : probes[t][b] # "none"}

(* join_all has every answer: all are stored under one lock, whatever other *)
(* tasks have stored since the probes were sent.                            *)
StoreResults(t) ==
  /\ Step(t, "probing", "collecting")
  /\ \A b \in Backends : probes[t][b] # "pending"
  /\ verdict' = [b \in Backends |->
       IF b \notin Probed(t) THEN verdict[b]
       ELSE IF probes[t][b] = "ok" THEN "healthy" ELSE "unhealthy"]
  /\ fresh' = fresh \cup Probed(t)
  /\ probes' = [probes EXCEPT ![t] = NoProbes]
  /\ UNCHANGED <<current, marked, up, healthy, choice>>

(* A bug the checks must notice: an unhealthy entry is as good as another.  *)
CollectKnown(t) ==
  /\ Step(t, "collecting", "selecting")
  /\ healthy' = [healthy EXCEPT ![t] = {b \in Enabled : verdict[b] # "unknown"}]
  /\ UNCHANGED <<current, cacheVars, up, probes, choice>>

(* The healthy set is read under a third lock; the TTL plays no part in it. *)
CollectHealthy(t) ==
  LET H == {b \in Enabled : verdict[b] = "healthy"}
  IN  /\ IF H = {} THEN Step(t, "collecting", "exhausted")
                   ELSE Step(t, "collecting", "selecting")
      /\ healthy' = [healthy EXCEPT ![t] = H]
      /\ UNCHANGED <<current, cacheVars, up, probes, choice>>

Select(t) ==
  /\ Step(t, "selecting", "picked")
  /\ choice' = [choice EXCEPT ![t] = Winner(current, healthy[t])]
  /\ current' = Charged(current, healthy[t])
  /\ healthy' = [healthy EXCEPT ![t] = {}]
  /\ UNCHANGED <<cacheVars, up, probes>>

PickStep(t) == \/ \E b \in Backends : ProbeDone(t, b)
               \/ StoreResults(t) \/ CollectHealthy(t) \/ Select(t)

(* The caller takes the result of pick and is done with it.                 *)
Release(t) == /\ stage' = [stage EXCEPT ![t] = "out"]
              /\ choice' = [choice EXCEPT ![t] = NoBackend]
              /\ UNCHANGED <<current, up, probes, healthy>>

(* The caller's client disconnects: pick is dropped at the await it is at.  *)
Abandon(t) == /\ stage[t] \in {"probing", "collecting"}
              /\ stage' = [stage EXCEPT ![t] = "out"]
              /\ probes' = [probes EXCEPT ![t] = NoProbes]
              /\ UNCHANGED <<current, cacheVars, up, healthy, choice>>

(******************************* the cache **********************************)
MarkUnhealthy(b) == /\ verdict' = [verdict EXCEPT ![b] = "unhealthy"]
                    /\ fresh' = fresh \cup {b}
                    /\ marked' = marked \cup {b}

(* 5 s after a success, 2 s after a failure.                                *)
Expire(b) == /\ b \in fresh
             /\ fresh' = fresh \ {b}
             /\ marked' = marked \ {b}
             /\ UNCHANGED <<current, verdict, up, taskVars>>

(* A backend goes down or comes back.                                       *)
Flip(b) == /\ b \in Enabled
           /\ up' = IF b \in up THEN up \ {b} ELSE up \cup {b}
           /\ UNCHANGED <<current, cacheVars, taskVars>>

-----------------------------------------------------------------------------
(* The callers of pick: they use the backend they got, or report it as down *)
(* before they are done with it.                                            *)
Use(t) == /\ stage[t] \in {"picked", "exhausted"}
          /\ Release(t)
          /\ UNCHANGED cacheVars

Report(t) == /\ stage[t] = "picked"
             /\ MarkUnhealthy(choice[t])
             /\ Release(t)

TaskStep(t) == BeginPick(t) \/ PickStep(t) \/ Use(t) \/ Report(t)
Changing    == \E b \in Backends : Flip(b)
RouterNext  == \/ \E t \in Tasks : TaskStep(t) \/ Abandon(t)
               \/ \E b \in Backends : Expire(b)
               \/ Changing

RouterSpec == RouterInit /\ [][RouterNext]_routerVars

(* A caller reports a backend exactly when it is down.                      *)
HonestReports == \A t \in Tasks : /\ Report(t) => choice[t] \notin up
                                  /\ Use(t) => choice[t] \notin Enabled \ up

HonestSpec == RouterInit /\ [][RouterNext /\ HonestReports]_routerVars

(* Clients stay connected and requests keep coming; probes are bounded by   *)
(* PROBE_TIMEOUT, locks are held briefly and time passes.                   *)
FairSpec ==
  /\ RouterInit
  /\ [][RouterNext /\ HonestReports /\ ~\E t \in Tasks : Abandon(t)]_routerVars
  /\ \A t \in Tasks : WF_routerVars(TaskStep(t) /\ HonestReports)
  /\ \A b \in Backends : WF_routerVars(Expire(b))

-----------------------------------------------------------------------------
(* Once the backends have stopped changing, before long no pick returns one *)
(* that is down, and a pick gives up only when all are: the cache, the      *)
(* races of several picks to fill it, and reports of failed forwards do not *)
(* keep it wrong.                                                           *)
ExactOnceStable ==
  \A S \in SUBSET Enabled :
    <>[](up = S) =>
      <>[](\A t \in Tasks : /\ stage[t] = "picked" => choice[t] \in S
                            /\ stage[t] = "exhausted" => S = {})

(* A backend that is gone for good is no longer picked after a while.       *)
DeadBackendIsDropped ==
  \A b \in Enabled : <>[](b \notin up) => <>[](\A t \in Tasks : choice[t] # b)

(* A backend that is back for good gets requests again and again, however   *)
(* the others come and go.                                                  *)
RecoveredBackendRejoins ==
  \A b \in Enabled : <>[](b \in up) => []<>(\E t \in Tasks : choice[t] = b)

(* Statements of the comments that the code does not keep:                  *)
(* "If nothing is healthy, return the first enabled backend anyway."        *)
LastResort == \A t \in Tasks : stage[t] = "exhausted" => Enabled = {}

(* A backend that was reported "loses its share immediately instead of      *)
(* waiting out the TTL": until the mark has expired, no pick counts the     *)
(* backend in while it is still down.                                       *)
MarkSticks ==
  [][\A t \in Tasks : CollectHealthy(t) => healthy'[t] \cap marked \subseteq up]_routerVars
=============================================================================
