------------------------------ MODULE DemandPool ------------------------------
(***************************************************************************)
(* The demand pool of omega-core/src/demand.rs as the server runs it       *)
(* (always_alive = false): a fixed set of ports on which llama-server      *)
(* processes ("lanes") are booted on demand, kept idle after use, reused,  *)
(* and retired by a background reaper.                                     *)
(*                                                                         *)
(* Concurrency is tokio's: every request is a task, the reaper is a task,  *)
(* and each std Mutex of the pool is held for a short critical section, so *)
(* a critical section is one action and anything may run between two of    *)
(* them.  A request whose client goes away is dropped at the await it is   *)
(* suspended at (Cancel).                                                  *)
(*                                                                         *)
(* Left out: last_failure_reason, consecutive_spawn_failures and           *)
(* last_startup_latency_ms.  They feed the status page and no branch of    *)
(* the pool reads them except to choose the wording of the reason.         *)
(***************************************************************************)
EXTENDS WaitQueue, Sequences, Functions

CONSTANTS Ports,   \* the ports the pool was built with
          NoPort   \* "no port": a local variable that holds none

ASSUME PoolAssumption == /\ IsFiniteSet(Ports)
                         /\ NoPort \notin Ports

VARIABLES
  free,      \* free_ports, a deque of ports with no process
  active,    \* the keys of `active`: the ports whose child process is tracked
  idle,      \* the keys of idle_since: the booted lanes nobody holds
  pc,        \* where each request is in acquire or in the life of its guard
  lane,      \* the port a request has in a local variable or in its guard
  ticketed,  \* the requests that are inside wait_and_pump, or about to undo it
  late,      \* those whose acquire deadline has passed
  expired,   \* the ports the reaper found expired and has not come to yet
  reaper,    \* where the reaper is in its pass
  victim,    \* the port the reaper is retiring
  stopping   \* kill_active has run

lanesVars  == <<free, active, idle>>
deadlines  == <<ticketed, late>>
reqVars    == <<pc, lane, deadlines>>
reaperVars == <<expired, reaper, victim>>
background == <<reaperVars, stopping>>
vars == <<tickets, waiters, free, active, idle, pc, lane, ticketed, late,
          expired, reaper, victim, stopping>>

PCs == {"done",      \* no call in progress
        "acquire",   \* about to look for an idle lane
        "spawn",     \* about to pop a free port
        "boot",      \* in spawn_llama_server, the port popped
        "health",    \* polling /health, the child tracked
        "reclaim",   \* unhealthy child untracked and being killed
        "enqueue",   \* about to ask for a ticket
        "queued",    \* at the top of wait_and_pump's loop
        "waiting",   \* in wait_for_slot, under the timeout
        "agedOut",   \* wait_and_pump returned QueueAgedOut
        "held",      \* acquire returned a guard, the request is served
        "dropped",   \* the guard was dropped, its task has not run yet
        "notify"}    \* that task has made the lane idle, the wake-up is due

Pumping    == {"queued", "waiting", "spawn", "boot", "health", "reclaim"}
WithPort   == {"boot", "health", "reclaim", "held", "dropped"}
(* The awaits at which a request future can be suspended, hence dropped.    *)
Suspended  == {"boot", "health", "reclaim", "enqueue", "waiting", "agedOut"}

TypeOK == /\ QueueTypeOK
          /\ free \in Seq(Ports)
          /\ active \subseteq Ports
          /\ idle \subseteq Ports
          /\ pc \in [Requests -> PCs]
          /\ lane \in [Requests -> Ports \cup {NoPort}]
          /\ ticketed \subseteq Requests
          /\ late \subseteq ticketed
          /\ expired \subseteq Ports
          /\ reaper \in {"loop", "take", "kill", "notify"}
          /\ victim \in Ports \cup {NoPort}
          /\ \A r \in Requests : lane[r] # NoPort <=> pc[r] \in WithPort
          /\ victim # NoPort <=> reaper \in {"take", "kill"}
          /\ stopping \in BOOLEAN

Init == /\ QueueInit
        /\ free \in Bijection(1..Cardinality(Ports), Ports)
        /\ active = {}
        /\ idle = {}
        /\ pc = [r \in Requests |-> "done"]
        /\ lane = [r \in Requests |-> NoPort]
        /\ ticketed = {}
        /\ late = {}
        /\ expired = {}
        /\ reaper = "loop"
        /\ victim = NoPort
        /\ stopping = FALSE

-----------------------------------------------------------------------------
Goto(r, from, to) == /\ pc[r] = from
                     /\ pc' = [pc EXCEPT ![r] = to]

SetLane(r, p) == lane' = [lane EXCEPT ![r] = p]

ForgetTicket(r) == /\ ticketed' = ticketed \ {r}
                   /\ late' = late \ {r}

(* Where spawn_on_demand's None leads: the pump loops, the fast path queues. *)
AfterMiss(r) == IF r \in ticketed THEN "queued" ELSE "enqueue"

(*************************** acquire: the fast paths ************************)
Arrive(r) == /\ Goto(r, "done", "acquire")
             /\ UNCHANGED <<queueVars, lanesVars, lane, deadlines, background>>

(* take_idle: any idle lane (the map's first key), however soon it expires. *)
TakeIdle(r) ==
  /\ pc[r] = "acquire"
  /\ \E p \in idle : /\ idle' = idle \ {p}
                     /\ SetLane(r, p)
  /\ pc' = [pc EXCEPT ![r] = "held"]
  /\ UNCHANGED <<queueVars, free, active, deadlines, background>>

NoIdle(r) == /\ idle = {}
             /\ Goto(r, "acquire", "spawn")
             /\ UNCHANGED <<queueVars, lanesVars, lane, deadlines, background>>

(********************************* spawn_on_demand **************************)
(* A bug the checks must notice: the head is read and not popped.           *)
PopFreePeek(r) == /\ Goto(r, "spawn", "boot")
                  /\ free # <<>>
                  /\ SetLane(r, Head(free))
                  /\ UNCHANGED <<queueVars, lanesVars, deadlines, background>>

PopFree(r) == /\ Goto(r, "spawn", "boot")
              /\ free # <<>>
              /\ SetLane(r, Head(free))
              /\ free' = Tail(free)
              /\ UNCHANGED <<queueVars, active, idle, deadlines, background>>

NoFree(r) == /\ free = <<>>
             /\ Goto(r, "spawn", AfterMiss(r))
             /\ UNCHANGED <<queueVars, lanesVars, lane, deadlines, background>>

(* A bug the checks must notice: the child is not inserted in `active`.     *)
SpawnedUntracked(r) == /\ Goto(r, "boot", "health")
                       /\ UNCHANGED <<queueVars, lanesVars, lane, deadlines, background>>

(* The child was started; 150 ms later it is tracked, alive or not.         *)
Spawned(r) == /\ Goto(r, "boot", "health")
              /\ active' = active \cup {lane[r]}
              /\ UNCHANGED <<queueVars, free, idle, lane, deadlines, background>>

(* A bug the checks must notice: the failure path forgets the port.         *)
ReturnPortNotifyOnly(r, from) ==
  /\ Goto(r, from, AfterMiss(r))
  /\ SetLane(r, NoPort)
  /\ NotifySlotAvailable
  /\ UNCHANGED <<tickets, lanesVars, deadlines, background>>

(* push_back and notify_slot_available, both under the free_ports lock.     *)
ReturnPort(r, from) == /\ Goto(r, from, AfterMiss(r))
                       /\ free' = Append(free, lane[r])
                       /\ SetLane(r, NoPort)
                       /\ NotifySlotAvailable
                       /\ UNCHANGED <<tickets, active, idle, deadlines, background>>

(* The model file is missing or the process could not be started.           *)
SpawnFailed(r) == ReturnPort(r, "boot")

(* acquire returns the guard.  The ticket, if any, stays in the deque.      *)
Healthy(r) == /\ Goto(r, "health", "held")
              /\ ForgetTicket(r)
              /\ UNCHANGED <<queueVars, lanesVars, lane, background>>

Unhealthy(r) == /\ Goto(r, "health", "reclaim")
                /\ active' = active \ {lane[r]}
                /\ UNCHANGED <<queueVars, free, idle, lane, deadlines, background>>

Reclaimed(r) == ReturnPort(r, "reclaim")

(************************ acquire: the queue, wait_and_pump *****************)
Enqueue(r) == /\ Goto(r, "enqueue", "queued")
              /\ TryEnqueue
              /\ ticketed' = ticketed \cup {r}
              /\ UNCHANGED <<waiters, lanesVars, lane, late, background>>

(* A bug the checks must notice: a refused caller removes a ticket.         *)
RejectPops(r) == /\ QueueFull
                 /\ Goto(r, "enqueue", "done")
                 /\ RemoveTicket
                 /\ UNCHANGED <<waiters, lanesVars, lane, deadlines, background>>

(* PoolExhausted.                                                           *)
Reject(r) == /\ QueueFull
             /\ Goto(r, "enqueue", "done")
             /\ UNCHANGED <<queueVars, lanesVars, lane, deadlines, background>>

(* Time passes: the deadline fixed on entry to wait_and_pump is behind.     *)
Deadline(r) == /\ r \in ticketed \ late
               /\ pc[r] \in Pumping
               /\ late' = late \cup {r}
               /\ UNCHANGED <<queueVars, lanesVars, pc, lane, ticketed, background>>

Wait(r) == /\ Goto(r, "queued", "waiting")
           /\ r \notin late
           /\ WaitForSlot(r)
           /\ UNCHANGED <<tickets, lanesVars, lane, deadlines, background>>

(* A bug the checks must notice: every wake-up starts a new deadline.       *)
WokenFreshDeadline(r) == /\ Goto(r, "waiting", "spawn")
                         /\ r \notin waiters
                         /\ late' = late \ {r}
                         /\ UNCHANGED <<queueVars, lanesVars, lane, ticketed, background>>

(* The timeout polls the notification first: woken wins over late.          *)
Woken(r) == /\ Goto(r, "waiting", "spawn")
            /\ r \notin waiters
            /\ UNCHANGED <<queueVars, lanesVars, lane, deadlines, background>>

NoTimeLeft(r) == /\ Goto(r, "queued", "agedOut")
                 /\ r \in late
                 /\ UNCHANGED <<queueVars, lanesVars, lane, deadlines, background>>

TimedOut(r) == /\ Goto(r, "waiting", "agedOut")
               /\ r \in late \cap waiters
               /\ StopWaiting(r)
               /\ UNCHANGED <<tickets, lanesVars, lane, deadlines, background>>

AgeOut(r) == NoTimeLeft(r) \/ TimedOut(r)

(* queue.remove() and the error to the caller.                              *)
LeaveQueue(r) == /\ Goto(r, "agedOut", "done")
                 /\ RemoveTicket
                 /\ ForgetTicket(r)
                 /\ UNCHANGED <<waiters, lanesVars, lane, background>>

(********************************* InstanceGuard ****************************)
(* The response ended, failed, or its connection went away.                 *)
DropGuard(r) == /\ Goto(r, "held", "dropped")
                /\ UNCHANGED <<queueVars, lanesVars, lane, deadlines, background>>

MakeIdle(r) == /\ Goto(r, "dropped", "notify")
               /\ idle' = idle \cup {lane[r]}
               /\ SetLane(r, NoPort)
               /\ UNCHANGED <<queueVars, free, active, deadlines, background>>

NotifyIdle(r) == /\ Goto(r, "notify", "done")
                 /\ NotifySlotAvailable
                 /\ UNCHANGED <<tickets, lanesVars, lane, deadlines, background>>

(*********************************** reap_idle ******************************)
(* A bug the checks must notice: the scan reads the wrong map.              *)
ReapScanActive == /\ reaper = "loop"
                  /\ expired = {}
                  /\ \E S \in (SUBSET active) \ {{}} : expired' = S
                  /\ UNCHANGED <<queueVars, lanesVars, reqVars, reaper, victim, stopping>>

(* The scan copies the expired keys; which lanes are old enough is left open. *)
ReapScan == /\ reaper = "loop"
            /\ expired = {}
            /\ \E S \in (SUBSET idle) \ {{}} : expired' = S
            /\ UNCHANGED <<queueVars, lanesVars, reqVars, reaper, victim, stopping>>

ReapUnlist == /\ reaper = "loop"
              /\ \E p \in expired : /\ expired' = expired \ {p}
                                    /\ idle' = idle \ {p}
                                    /\ victim' = p
              /\ reaper' = "take"
              /\ UNCHANGED <<queueVars, free, active, reqVars, stopping>>

ReapTake == /\ reaper = "take"
            /\ IF victim \in active
                 THEN /\ active' = active \ {victim}
                      /\ reaper' = "kill"
                      /\ UNCHANGED victim
                 ELSE /\ reaper' = "loop"
                      /\ victim' = NoPort
                      /\ UNCHANGED active
            /\ UNCHANGED <<queueVars, free, idle, reqVars, expired, stopping>>

(* The killed child was waited for; its port is free again.                 *)
ReapFree == /\ reaper = "kill"
            /\ free' = Append(free, victim)
            /\ victim' = NoPort
            /\ reaper' = "notify"
            /\ UNCHANGED <<queueVars, active, idle, reqVars, expired, stopping>>

ReapNotify == /\ reaper = "notify"
              /\ NotifySlotAvailable
              /\ reaper' = "loop"
              /\ UNCHANGED <<tickets, lanesVars, reqVars, expired, victim, stopping>>

(****************************** the environment *****************************)
(* The client disconnects: the future is dropped where it is suspended.  No *)
(* guard exists yet, so neither the port nor the ticket is given back; a    *)
(* child still local to the future is killed, a tracked one is not.         *)
Cancel(r) == /\ pc[r] \in Suspended
             /\ pc' = [pc EXCEPT ![r] = "done"]
             /\ SetLane(r, NoPort)
             /\ StopWaiting(r)
             /\ ForgetTicket(r)
             /\ UNCHANGED <<tickets, lanesVars, background>>

(* kill_active: runs when the shutdown signal arrives, while requests that  *)
(* are already in the server still run to their end.                        *)
KillActive == /\ ~stopping
              /\ stopping' = TRUE
              /\ active' = {}
              /\ UNCHANGED <<queueVars, free, idle, reqVars, reaperVars>>

-----------------------------------------------------------------------------
(* What a request does by itself once it is under way.                      *)
Progress(r) ==
  \/ PopFree(r) \/ NoFree(r) \/ Spawned(r) \/ SpawnFailed(r)
  \/ Healthy(r) \/ Unhealthy(r) \/ Reclaimed(r)
  \/ Enqueue(r) \/ Reject(r) \/ Wait(r) \/ Woken(r) \/ AgeOut(r) \/ LeaveQueue(r)
  \/ DropGuard(r) \/ MakeIdle(r) \/ NotifyIdle(r)
RequestStep(r) == Arrive(r) \/ TakeIdle(r) \/ NoIdle(r) \/ Deadline(r) \/ Progress(r)
ReaperStep == ReapScan \/ ReapUnlist \/ ReapTake \/ ReapFree \/ ReapNotify

Next == \/ \E r \in Requests : RequestStep(r) \/ Cancel(r)
        \/ ReaperStep
        \/ KillActive

Spec == Init /\ [][Next]_vars

(***************************************************************************)
(* The same system with parts of its environment left out.                 *)
(***************************************************************************)
(* A lane is taken from idle after the reaper's scan listed it and before   *)
(* the reaper came to it.                                                   *)
StaleTake(r) == TakeIdle(r) /\ lane'[r] \in expired
RaceFree == ~ \E r \in Requests : StaleTake(r)

RaceFreeSpec == Init /\ [][Next /\ RaceFree]_vars

(* No client disconnects and no shutdown.                                   *)
Undisturbed == (\E r \in Requests : RequestStep(r)) \/ ReaperStep

UndisturbedSpec == Init /\ [][Undisturbed]_vars
CalmSpec == Init /\ [][Undisturbed /\ RaceFree]_vars
DisconnectSpec ==
  Init /\ [][(Undisturbed \/ \E r \in Requests : Cancel(r)) /\ RaceFree]_vars

(* Tokio runs every runnable task; boots, health polls and responses are    *)
(* bounded by timeouts; time passes.  Nothing makes a client call, or a     *)
(* lane expire.  The look for an idle lane never blocks in the code: it is  *)
(* RaceFree that can hold it back, hence its strong fairness.               *)
Fairness ==
  /\ \A r \in Requests : /\ WF_vars(Progress(r))
                         /\ WF_vars(Deadline(r))
                         /\ SF_vars((TakeIdle(r) \/ NoIdle(r)) /\ RaceFree)
  /\ WF_vars(ReapUnlist \/ ReapTake \/ ReapFree \/ ReapNotify)

FairSpec == CalmSpec /\ Fairness

(***************************************************************************)
(* Properties.                                                             *)
(***************************************************************************)
Held(r) == IF pc[r] = "held" THEN lane[r] ELSE NoPort

(* A port that a request is booting, using or giving back belongs to that   *)
(* request alone: no other request has it, it is not offered as idle or     *)
(* free, and the reaper is not retiring it.                                 *)
ExclusiveLanes ==
  \A r \in Requests : lane[r] # NoPort =>
    /\ \A s \in Requests \ {r} : lane[s] # lane[r]
    /\ lane[r] \notin idle \cup Range(free) \cup {victim}

(* What keeps it so: the places a port can be in are disjoint, and whatever *)
(* the reaper still has on its list is still idle.                          *)
LaneInv == /\ IsInjective(free)
           /\ idle \cap Range(free) = {}
           /\ victim \notin idle \cup Range(free)
           /\ expired \subseteq idle
           /\ ExclusiveLanes

(* Until shutdown, every lane that is idle or serves a request has its      *)
(* child in `active`, where kill_active and the reaper find it; so has the  *)
(* lane the reaper is about to kill.                                        *)
LanesAreTracked ==
  ~stopping => /\ idle \subseteq active
               /\ \A r \in Requests :
                    pc[r] \in {"health", "held", "dropped"} => lane[r] \in active
               /\ reaper = "take" => victim \in active

(* No failure path of acquire, of a guard or of the reaper loses a port.    *)
PortsConserved ==
  Ports \subseteq idle \cup Range(free) \cup {victim} \cup {lane[r] : r \in Requests}

(* Whoever waits, or still has to undo its wait, has a ticket in the deque: *)
(* remove() never pops the ticket of another waiter.                        *)
TicketsCoverWaiters == Cardinality(ticketed) <= tickets

(* Every call of acquire ends, with a guard or an error, even if spawns     *)
(* keep failing and wake-ups keep being lost to others.                     *)
AcquireReturns == \A r \in Requests : pc[r] = "acquire" ~> pc[r] \in {"held", "done"}

(* The pool promises what LanePool specifies.                               *)
Abstract == INSTANCE LanePool WITH holder <- [r \in Requests |-> Held(r)]
ImplementsLanePool == Abstract!Spec

(***************************************************************************)
(* Statements of the source's comments that the code does not keep.        *)
(***************************************************************************)
(* PoolExhausted "is reserved for true saturation": a call is refused only  *)
(* while QueueMax other calls wait.                                         *)
RejectedOnlyWhenSaturated ==
  [][\A r \in Requests : Reject(r) => Cardinality(ticketed) >= QueueMax]_vars

(* Nothing is in progress except responses and sleeping waiters.            *)
Quiet == /\ \A r \in Requests : pc[r] \in {"done", "held"} \/ r \in waiters
         /\ reaper = "loop" /\ expired = {}

(* notify_slot_available "wakes all current awaiters so they retry the      *)
(* slot-acquire path": a lane that became idle does not leave them asleep.  *)
NoWaiterSleepsBesideIdleLane == Quiet /\ waiters # {} => idle = {}

(* A failed spawn wakes waiters "so the pump retries the spawn rather than  *)
(* stalling until the acquire timeout".                                     *)
NoWaiterSleepsBesideFreePort == Quiet /\ waiters # {} => free = <<>>

(* The reaper "kills idle lanes".                                           *)
ReaperSparesHeldLanes == \A r \in Requests : pc[r] = "held" => lane[r] # victim

(* spawn_on_demand misses only "if every port is busy" (or its own spawn    *)
(* failed).                                                                 *)
MissOnlyWhenAllBusy ==
  [][\A r \in Requests : NoFree(r) =>
       Ports \subseteq idle \cup {victim} \cup {lane[s] : s \in Requests}]_vars
=============================================================================
