--------------------------- MODULE DemandPoolProofs ---------------------------
(***************************************************************************)
(* Theorems about DemandPool, for any number of ports, requests and        *)
(* tickets.                                                                *)
(***************************************************************************)
EXTENDS DemandPool, FiniteSetTheorems, SequenceTheorems, TLAPS

(***************************************************************************)
(* The deque of free ports.                                                *)
(***************************************************************************)
(* Taking the head of a duplicate-free deque removes exactly that port.     *)
LEMMA PopFront ==
  ASSUME NEW S, NEW s \in Seq(S), s # <<>>
  PROVE  /\ Head(s) \in S
         /\ Tail(s) \in Seq(S)
         /\ Range(s) = Range(Tail(s)) \cup {Head(s)}
         /\ IsInjective(s) => /\ IsInjective(Tail(s))
                              /\ Head(s) \notin Range(Tail(s))
<1>1. /\ Len(s) \in Nat \ {0}
      /\ Head(s) = s[1]
      /\ Tail(s) \in Seq(S)
      /\ DOMAIN s = 1..Len(s)
      /\ DOMAIN Tail(s) = 1..(Len(s) - 1)
      /\ \A i \in 1..(Len(s) - 1) : Tail(s)[i] = s[i + 1]
  BY HeadTailProperties, LenProperties, EmptySeq
<1>2. Head(s) \in S
  BY <1>1, ElementOfSeq
<1>3. Range(s) = Range(Tail(s)) \cup {Head(s)}
  <2>1. ASSUME NEW i \in 1..Len(s)
        PROVE  s[i] \in Range(Tail(s)) \cup {Head(s)}
    <3>1. CASE i = 1
      BY <3>1, <1>1
    <3>2. CASE i # 1
      <4>1. /\ i - 1 \in 1..(Len(s) - 1)
            /\ Tail(s)[i - 1] = s[i]
        BY <3>2, <1>1
      <4> QED
        BY <4>1, <1>1 DEF Range
    <3> QED
      BY <3>1, <3>2
  <2>2. ASSUME NEW i \in 1..(Len(s) - 1)
        PROVE  Tail(s)[i] \in Range(s)
    <3>1. i + 1 \in 1..Len(s) /\ Tail(s)[i] = s[i + 1]
      BY <1>1
    <3> QED
      BY <3>1, <1>1 DEF Range
  <2>3. Head(s) \in Range(s)
    <3>1. 1 \in DOMAIN s
      BY <1>1
    <3> QED
      BY <3>1, <1>1 DEF Range
  <2> QED
    BY <2>1, <2>2, <2>3, <1>1 DEF Range
<1>4. IsInjective(s) => /\ IsInjective(Tail(s))
                        /\ Head(s) \notin Range(Tail(s))
  BY <1>1 DEF IsInjective, Range
<1> QED
  BY <1>1, <1>2, <1>3, <1>4

(* Giving back a port that is not in the deque keeps it duplicate-free.     *)
LEMMA PushBack ==
  ASSUME NEW S, NEW s \in Seq(S), NEW e \in S
  PROVE  /\ Append(s, e) \in Seq(S)
         /\ Range(Append(s, e)) = Range(s) \cup {e}
         /\ IsInjective(s) /\ e \notin Range(s) => IsInjective(Append(s, e))
<1>1. /\ Len(s) \in Nat
      /\ DOMAIN s = 1..Len(s)
      /\ Append(s, e) \in Seq(S)
      /\ DOMAIN Append(s, e) = 1..(Len(s) + 1)
      /\ \A i \in 1..Len(s) : Append(s, e)[i] = s[i]
      /\ Append(s, e)[Len(s) + 1] = e
  BY AppendProperties, LenProperties
<1>2. Range(Append(s, e)) = Range(s) \cup {e}
  BY <1>1 DEF Range
<1>3. IsInjective(s) /\ e \notin Range(s) => IsInjective(Append(s, e))
  BY <1>1 DEF IsInjective, Range
<1> QED
  BY <1>1, <1>2, <1>3

-----------------------------------------------------------------------------
(***************************************************************************)
(* Types.                                                                  *)
(***************************************************************************)
LEMMA InitTypeOK == Init => TypeOK
<1> SUFFICES ASSUME Init PROVE TypeOK
  OBVIOUS
<1>1. free \in Seq(Ports)
  <2>1. Cardinality(Ports) \in Nat
    BY PoolAssumption, FS_CardinalityType
  <2>2. free \in [1..Cardinality(Ports) -> Ports]
    BY DEF Init, Bijection, Injection
  <2> QED
    BY <2>1, <2>2, IsASeq
<1>2. QueueTypeOK
  BY QueueAssumption DEF Init, QueueInit, QueueTypeOK
<1> QED
  BY <1>1, <1>2 DEF Init, TypeOK, PCs, WithPort

LEMMA NextTypeOK == TypeOK /\ [Next]_vars => TypeOK'
<1> SUFFICES ASSUME TypeOK, [Next]_vars PROVE TypeOK'
  OBVIOUS
<1> USE QueueAssumption, PoolAssumption
    DEF TypeOK, QueueTypeOK, PCs, WithPort, Pumping, queueVars, lanesVars,
           deadlines,
        reqVars, reaperVars, background
<1>1. ASSUME NEW r \in Requests, RequestStep(r) \/ Cancel(r) PROVE TypeOK'
  <2>1. CASE Arrive(r)
    BY <2>1 DEF Arrive, Goto
  <2>2. CASE TakeIdle(r)
    BY <2>2 DEF TakeIdle, SetLane
  <2>3. CASE NoIdle(r)
    BY <2>3 DEF NoIdle, Goto
  <2>4. CASE Deadline(r)
    BY <2>4 DEF Deadline, Pumping
  <2>5. CASE PopFree(r)
    <3>1. Head(free) \in Ports /\ Tail(free) \in Seq(Ports)
      BY <2>5, PopFront DEF PopFree
    <3> QED
      BY <2>5, <3>1 DEF PopFree, Goto, SetLane
  <2>6. CASE NoFree(r)
    BY <2>6 DEF NoFree, Goto, AfterMiss
  <2>7. CASE Spawned(r)
    BY <2>7 DEF Spawned, Goto
  <2>8. CASE SpawnFailed(r)
    <3> USE DEF SpawnFailed, ReturnPort, Goto, SetLane, AfterMiss,
           NotifySlotAvailable
    <3>1. lane[r] \in Ports
      BY <2>8
    <3>2. Append(free, lane[r]) \in Seq(Ports)
      BY <3>1, PushBack
    <3> QED
      BY <2>8, <3>1, <3>2
  <2>9. CASE Healthy(r)
    BY <2>9 DEF Healthy, Goto, ForgetTicket
  <2>10. CASE Unhealthy(r)
    BY <2>10 DEF Unhealthy, Goto
  <2>11. CASE Reclaimed(r)
    <3> USE DEF Reclaimed, ReturnPort, Goto, SetLane, AfterMiss,
           NotifySlotAvailable
    <3>1. lane[r] \in Ports
      BY <2>11
    <3>2. Append(free, lane[r]) \in Seq(Ports)
      BY <3>1, PushBack
    <3> QED
      BY <2>11, <3>1, <3>2
  <2>12. CASE Enqueue(r)
    BY <2>12 DEF Enqueue, Goto, TryEnqueue, QueueFull
  <2>13. CASE Reject(r)
    BY <2>13 DEF Reject, Goto
  <2>14. CASE Wait(r)
    BY <2>14 DEF Wait, Goto, WaitForSlot
  <2>15. CASE Woken(r)
    BY <2>15 DEF Woken, Goto
  <2>16. CASE NoTimeLeft(r)
    BY <2>16 DEF NoTimeLeft, Goto
  <2>17. CASE TimedOut(r)
    BY <2>17 DEF TimedOut, Goto, StopWaiting
  <2>18. CASE LeaveQueue(r)
    BY <2>18 DEF LeaveQueue, Goto, RemoveTicket, ForgetTicket
  <2>19. CASE DropGuard(r)
    BY <2>19 DEF DropGuard, Goto
  <2>20. CASE MakeIdle(r)
    BY <2>20 DEF MakeIdle, Goto, SetLane
  <2>21. CASE NotifyIdle(r)
    BY <2>21 DEF NotifyIdle, Goto, NotifySlotAvailable
  <2>22. CASE Cancel(r)
    BY <2>22 DEF Cancel, SetLane, StopWaiting, ForgetTicket
  <2> QED
    BY <1>1, <2>1, <2>2, <2>3, <2>4, <2>5, <2>6, <2>7, <2>8, <2>9, <2>10, <2>11,
           <2>12, <2>13, <2>14, <2>15, <2>16, <2>17, <2>18, <2>19, <2>20, <2>21,
           <2>22
       DEF RequestStep, Progress, AgeOut
<1>2. CASE ReapScan
  BY <1>2 DEF ReapScan
<1>3. CASE ReapUnlist
  BY <1>3 DEF ReapUnlist
<1>4. CASE ReapTake
  BY <1>4 DEF ReapTake
<1>5. CASE ReapFree
  <2>1. victim \in Ports
    BY <1>5 DEF ReapFree
  <2>2. Append(free, victim) \in Seq(Ports)
    BY <2>1, PushBack
  <2> QED
    BY <1>5, <2>1, <2>2 DEF ReapFree
<1>6. CASE ReapNotify
  BY <1>6 DEF ReapNotify, NotifySlotAvailable
<1>7. CASE KillActive
  BY <1>7 DEF KillActive
<1>8. CASE UNCHANGED vars
  BY <1>8 DEF vars
<1> QED
  BY <1>1, <1>2, <1>3, <1>4, <1>5, <1>6, <1>7, <1>8 DEF Next, ReaperStep

(* Every variable keeps its type; a request has a port exactly while it     *)
(* boots, uses or gives back a lane, and the reaper exactly while it        *)
(* retires one.                                                             *)
THEOREM TypeCorrect == Spec => []TypeOK
BY InitTypeOK, NextTypeOK, PTL DEF Spec

-----------------------------------------------------------------------------
(***************************************************************************)
(* Exclusive lanes, as long as no lane is taken while the reaper has it on *)
(* its list.                                                               *)
(***************************************************************************)
LEMMA InitLaneInv == Init => LaneInv
<1> SUFFICES ASSUME Init PROVE LaneInv
  OBVIOUS
<1>1. IsInjective(free)
  BY DEF Init, Bijection, Injection
<1>2. NoPort \notin Range(free)
  BY InitTypeOK, PoolAssumption, RangeOfSeq DEF TypeOK
<1> QED
  BY <1>1, <1>2 DEF Init, LaneInv, ExclusiveLanes

LEMMA NextLaneInv ==
  TypeOK /\ LaneInv /\ [Next /\ RaceFree]_vars => LaneInv'
<1> SUFFICES ASSUME TypeOK, LaneInv, [Next /\ RaceFree]_vars PROVE LaneInv'
  OBVIOUS
<1>0. TypeOK'
  BY NextTypeOK
<1> USE PoolAssumption
    DEF TypeOK, LaneInv, ExclusiveLanes, PCs, WithPort, queueVars, lanesVars,
        deadlines, reqVars, reaperVars, background
<1>1. ASSUME NEW r \in Requests, RequestStep(r) \/ Cancel(r), RaceFree
      PROVE  LaneInv'
  <2>2. CASE TakeIdle(r)
    <3>1. PICK p \in idle : /\ idle' = idle \ {p}
                            /\ lane' = [lane EXCEPT ![r] = p]
      BY <2>2 DEF TakeIdle, SetLane
    <3>2. UNCHANGED <<free, expired, victim>>
      BY <2>2 DEF TakeIdle
    <3>3. p \notin expired
      BY <1>1, <2>2, <3>1 DEF RaceFree, StaleTake
    <3> QED
      BY <3>1, <3>2, <3>3
  <2>5. CASE PopFree(r)
    <3>1. /\ free # <<>>
          /\ free' = Tail(free)
          /\ lane' = [lane EXCEPT ![r] = Head(free)]
          /\ UNCHANGED <<idle, expired, victim>>
      BY <2>5 DEF PopFree, Goto, SetLane
    <3>2. /\ IsInjective(free')
          /\ Range(free) = Range(free') \cup {Head(free)}
          /\ Head(free) \notin Range(free')
      BY <3>1, PopFront
    <3>3. Head(free) \in Ports
      BY <3>1, PopFront
    <3>4. /\ Head(free) \notin idle \cup {victim}
          /\ \A s \in Requests : lane[s] # Head(free)
      BY <3>2, <3>3
    <3> QED
      BY <3>1, <3>2, <3>3, <3>4
  <2>8. CASE SpawnFailed(r)
    <3>1. /\ lane[r] \in Ports
          /\ free' = Append(free, lane[r])
          /\ lane' = [lane EXCEPT ![r] = NoPort]
          /\ UNCHANGED <<idle, expired, victim>>
      BY <2>8 DEF SpawnFailed, ReturnPort, Goto, SetLane, AfterMiss,
             NotifySlotAvailable
    <3>2. /\ IsInjective(free')
          /\ Range(free') = Range(free) \cup {lane[r]}
      BY <3>1, PushBack
    <3> QED
      BY <3>1, <3>2
  <2>11. CASE Reclaimed(r)
    <3>1. /\ lane[r] \in Ports
          /\ free' = Append(free, lane[r])
          /\ lane' = [lane EXCEPT ![r] = NoPort]
          /\ UNCHANGED <<idle, expired, victim>>
      BY <2>11 DEF Reclaimed, ReturnPort, Goto, SetLane, AfterMiss,
             NotifySlotAvailable
    <3>2. /\ IsInjective(free')
          /\ Range(free') = Range(free) \cup {lane[r]}
      BY <3>1, PushBack
    <3> QED
      BY <3>1, <3>2
  <2>20. CASE MakeIdle(r)
    BY <2>20 DEF MakeIdle, Goto, SetLane
  <2>22. CASE Cancel(r)
    BY <2>22 DEF Cancel, SetLane, StopWaiting, ForgetTicket
  <2>23. CASE \/ Arrive(r) \/ NoIdle(r) \/ Deadline(r) \/ NoFree(r)
              \/ Spawned(r) \/ Healthy(r) \/ Unhealthy(r) \/ Enqueue(r)
              \/ Reject(r) \/ Wait(r) \/ Woken(r) \/ NoTimeLeft(r)
              \/ TimedOut(r) \/ LeaveQueue(r) \/ DropGuard(r) \/ NotifyIdle(r)
    <3>1. UNCHANGED <<free, idle, lane, expired, victim>>
      BY <2>23 DEF AfterMiss, Arrive, Deadline, DropGuard, Enqueue,
             ForgetTicket, Goto, Healthy, LeaveQueue, NoFree, NoIdle,
             NoTimeLeft, NotifyIdle, NotifySlotAvailable, Pumping, QueueFull,
             Reject, RemoveTicket, Spawned, StopWaiting, TimedOut, TryEnqueue,
             Unhealthy, Wait, WaitForSlot, Woken
    <3> QED
      BY <3>1
  <2> QED
    BY <1>1, <2>2, <2>5, <2>8, <2>11, <2>20, <2>22, <2>23
       DEF RequestStep, Progress, AgeOut
<1>2. CASE ReapScan
  BY <1>2 DEF ReapScan
<1>3. CASE ReapUnlist
  BY <1>3 DEF ReapUnlist
<1>4. CASE ReapTake
  <2>1. NoPort \notin idle \cup Range(free)
    BY RangeOfSeq
  <2>2. /\ victim' \in {victim, NoPort}
        /\ UNCHANGED <<free, idle, lane, expired>>
    BY <1>4 DEF ReapTake
  <2> QED
    BY <2>1, <2>2
<1>5. CASE ReapFree
  <2>1. /\ victim \in Ports
        /\ free' = Append(free, victim)
        /\ victim' = NoPort
        /\ UNCHANGED <<idle, lane, expired>>
    BY <1>5 DEF ReapFree
  <2>2. /\ IsInjective(free')
        /\ Range(free') = Range(free) \cup {victim}
    BY <2>1, PushBack
  <2>3. NoPort \notin idle \cup Range(free')
    BY <1>0, RangeOfSeq
  <2> QED
    BY <2>1, <2>2, <2>3
<1>6. CASE ReapNotify
  BY <1>6 DEF ReapNotify
<1>7. CASE KillActive
  BY <1>7 DEF KillActive
<1>8. CASE UNCHANGED vars
  BY <1>8 DEF vars
<1> QED
  BY <1>1, <1>2, <1>3, <1>4, <1>5, <1>6, <1>7, <1>8 DEF Next, ReaperStep

LEMMA RaceFreeInv == RaceFreeSpec => [](TypeOK /\ LaneInv)
<1>1. Init => TypeOK /\ LaneInv
  BY InitTypeOK, InitLaneInv
<1>2. TypeOK /\ LaneInv /\ [Next /\ RaceFree]_vars => (TypeOK /\ LaneInv)'
  BY NextTypeOK, NextLaneInv
<1> QED
  BY <1>1, <1>2, PTL DEF RaceFreeSpec

(* With disconnecting clients, failing spawns, the reaper and a shutdown,   *)
(* and as long as no lane is taken from idle while the reaper has it listed *)
(* as expired: a lane in use has one user and is not offered to another.    *)
THEOREM LanesAreExclusive == RaceFreeSpec => []ExclusiveLanes
<1>1. LaneInv => ExclusiveLanes
  BY DEF LaneInv
<1> QED
  BY <1>1, RaceFreeInv, PTL

-----------------------------------------------------------------------------
(***************************************************************************)
(* Idle and held lanes stay tracked until shutdown.                        *)
(***************************************************************************)
LEMMA NextTracked ==
  TypeOK /\ LaneInv /\ LanesAreTracked /\ [Next]_vars => LanesAreTracked'
<1> SUFFICES ASSUME TypeOK, LaneInv, LanesAreTracked, [Next]_vars, ~stopping'
             PROVE  LanesAreTracked'
  BY DEF LanesAreTracked
<1> USE PoolAssumption
    DEF TypeOK, LaneInv, ExclusiveLanes, LanesAreTracked, PCs, WithPort,
        queueVars, lanesVars, deadlines, reqVars, reaperVars, background
<1>1. ASSUME NEW r \in Requests, RequestStep(r) \/ Cancel(r)
      PROVE  LanesAreTracked'
  <2>1. CASE TakeIdle(r)
    BY <2>1 DEF TakeIdle, SetLane
  <2>2. CASE Spawned(r)
    BY <2>2 DEF Spawned, Goto
  <2>3. CASE Unhealthy(r)
    BY <2>3 DEF Unhealthy, Goto
  <2>4. CASE Healthy(r)
    BY <2>4 DEF Healthy, Goto, ForgetTicket
  <2>5. CASE MakeIdle(r)
    BY <2>5 DEF MakeIdle, Goto, SetLane
  <2>6. CASE DropGuard(r)
    BY <2>6 DEF DropGuard, Goto
  <2>7. CASE PopFree(r)
    BY <2>7 DEF PopFree, Goto, SetLane
  <2>8. CASE \/ Arrive(r) \/ NoIdle(r) \/ Deadline(r) \/ NoFree(r)
             \/ SpawnFailed(r) \/ Reclaimed(r) \/ Enqueue(r) \/ Reject(r)
             \/ Wait(r) \/ Woken(r) \/ NoTimeLeft(r) \/ TimedOut(r)
             \/ LeaveQueue(r) \/ NotifyIdle(r) \/ Cancel(r)
    <3>1. /\ UNCHANGED <<idle, active, reaper, victim, stopping>>
          /\ pc' = [pc EXCEPT ![r] = pc'[r]]
          /\ pc'[r] \notin {"health", "held", "dropped"} \/ UNCHANGED pc
          /\ \A s \in Requests \ {r} : lane'[s] = lane[s]
          /\ pc'[r] = pc[r] => UNCHANGED lane
      BY <2>8 DEF AfterMiss, Arrive, Cancel, Deadline, Enqueue, ForgetTicket,
             Goto, LeaveQueue, NoFree, NoIdle, NoTimeLeft, NotifyIdle,
             NotifySlotAvailable, Pumping, QueueFull, Reclaimed, Reject,
             RemoveTicket, ReturnPort, SetLane, SpawnFailed, StopWaiting,
             TimedOut, TryEnqueue, Wait, WaitForSlot, Woken
    <3> QED
      BY <3>1
  <2> QED
    BY <1>1, <2>1, <2>2, <2>3, <2>4, <2>5, <2>6, <2>7, <2>8
       DEF RequestStep, Progress, AgeOut
<1>2. CASE ReapScan
  BY <1>2 DEF ReapScan
<1>3. CASE ReapUnlist
  BY <1>3 DEF ReapUnlist
<1>4. CASE ReapTake
  BY <1>4 DEF ReapTake
<1>5. CASE ReapFree
  BY <1>5 DEF ReapFree
<1>6. CASE ReapNotify
  BY <1>6 DEF ReapNotify
<1>7. CASE KillActive
  BY <1>7 DEF KillActive
<1>8. CASE UNCHANGED vars
  BY <1>8 DEF vars
<1> QED
  BY <1>1, <1>2, <1>3, <1>4, <1>5, <1>6, <1>7, <1>8 DEF Next, ReaperStep

LEMMA RaceFreeTracked == RaceFreeSpec => [](TypeOK /\ LaneInv /\ LanesAreTracked)
<1>1. Init => LanesAreTracked
  BY DEF Init, LanesAreTracked
<1>2. LanesAreTracked /\ TypeOK /\ LaneInv /\ [Next /\ RaceFree]_vars
        => LanesAreTracked'
  BY NextTracked
<1> QED
  BY <1>1, <1>2, RaceFreeInv, PTL DEF RaceFreeSpec

(* Until kill_active drains `active`, the child of every idle lane and of   *)
(* every lane that serves a request is in it, so the reaper and the         *)
(* shutdown can find and kill it.                                           *)
THEOREM LanesStayTracked == RaceFreeSpec => []LanesAreTracked
BY RaceFreeTracked, PTL

-----------------------------------------------------------------------------
(***************************************************************************)
(* Tickets.                                                                *)
(***************************************************************************)
(* Whoever waits or has aged out still has the ticket it was given.         *)
TicketInv == /\ TicketsCoverWaiters
             /\ \A r \in Requests :
                  pc[r] \in {"queued", "waiting", "agedOut"} => r \in ticketed

LEMMA NextTicketInv == TypeOK /\ TicketInv /\ [Next]_vars => TicketInv'
<1> SUFFICES ASSUME TypeOK, TicketInv, [Next]_vars PROVE TicketInv'
  OBVIOUS
<1>0. /\ IsFiniteSet(ticketed)
      /\ Cardinality(ticketed) \in Nat
      /\ tickets \in Nat
  BY QueueAssumption, FS_Subset, FS_CardinalityType DEF TypeOK, QueueTypeOK
<1> USE DEF TypeOK, TicketInv, TicketsCoverWaiters, PCs, queueVars, lanesVars,
            deadlines, reqVars, reaperVars, background
<1>1. ASSUME NEW r \in Requests, RequestStep(r) \/ Cancel(r)
      PROVE  TicketInv'
  <2>0. /\ Cardinality(ticketed \cup {r}) =
             IF r \in ticketed THEN Cardinality(ticketed)
                               ELSE Cardinality(ticketed) + 1
        /\ Cardinality(ticketed \ {r}) =
             IF r \in ticketed THEN Cardinality(ticketed) - 1
                               ELSE Cardinality(ticketed)
    BY <1>0, FS_AddElement, FS_RemoveElement
  <2>1. CASE Enqueue(r)
    BY <1>0, <2>0, <2>1 DEF Enqueue, Goto, TryEnqueue, QueueFull
  <2>2. CASE LeaveQueue(r)
    BY <1>0, <2>0, <2>2 DEF LeaveQueue, Goto, RemoveTicket, ForgetTicket
  <2>3. CASE Healthy(r) \/ Cancel(r)
    <3>1. /\ ticketed' = ticketed \ {r}
          /\ tickets' = tickets
          /\ pc' = [pc EXCEPT ![r] = pc'[r]]
          /\ pc'[r] \in {"held", "done"}
      BY <2>3 DEF Cancel, ForgetTicket, Goto, Healthy, SetLane, StopWaiting
    <3>2. Cardinality(ticketed') <= tickets'
      BY <1>0, <2>0, <3>1
    <3> QED
      BY <3>1, <3>2
  <2>4. CASE \/ Arrive(r) \/ TakeIdle(r) \/ NoIdle(r) \/ Deadline(r)
             \/ PopFree(r) \/ NoFree(r) \/ Spawned(r) \/ SpawnFailed(r)
             \/ Unhealthy(r) \/ Reclaimed(r) \/ Reject(r) \/ Wait(r)
             \/ Woken(r) \/ NoTimeLeft(r) \/ TimedOut(r) \/ DropGuard(r)
             \/ MakeIdle(r) \/ NotifyIdle(r)
    <3>1. /\ UNCHANGED <<tickets, ticketed>>
          /\ \A s \in Requests \ {r} : pc'[s] = pc[s]
          /\ pc'[r] \in {"queued", "waiting", "agedOut"} =>
               \/ pc[r] \in {"queued", "waiting", "agedOut"}
               \/ r \in ticketed
      BY <2>4 DEF AfterMiss, Arrive, Deadline, DropGuard, Goto, MakeIdle,
             NoFree, NoIdle, NoTimeLeft, NotifyIdle, NotifySlotAvailable,
             PopFree, Pumping, Reclaimed, Reject, ReturnPort, SetLane,
             SpawnFailed, Spawned, StopWaiting, TakeIdle, TimedOut, Unhealthy,
             Wait, WaitForSlot, Woken
    <3> QED
      BY <3>1
  <2> QED
    BY <1>1, <2>1, <2>2, <2>3, <2>4 DEF RequestStep, Progress, AgeOut
<1>2. CASE ReaperStep
  BY <1>2 DEF ReaperStep, ReapScan, ReapUnlist, ReapTake, ReapFree, ReapNotify
<1>3. CASE KillActive
  BY <1>3 DEF KillActive
<1>4. CASE UNCHANGED vars
  BY <1>4 DEF vars
<1> QED
  BY <1>1, <1>2, <1>3, <1>4 DEF Next

(* Under any interleaving of arrivals, wake-ups, time-outs, disconnects and *)
(* the reaper, a waiter that gives up pops a ticket there is, and leaves at *)
(* least one for every other waiter.                                        *)
THEOREM TicketsSuffice == Spec => []TicketsCoverWaiters
<1>1. Init => TicketInv
  BY FS_EmptySet DEF Init, QueueInit, TicketInv, TicketsCoverWaiters
<1>2. TypeOK /\ TicketInv /\ [Next]_vars => TicketInv'
  BY NextTicketInv
<1>3. TicketInv => TicketsCoverWaiters
  BY DEF TicketInv
<1> QED
  BY <1>1, <1>2, <1>3, TypeCorrect, PTL DEF Spec

-----------------------------------------------------------------------------
(***************************************************************************)
(* Conservation of ports.                                                  *)
(***************************************************************************)
LEMMA NextConserved ==
  /\ TypeOK /\ LaneInv /\ LanesAreTracked /\ ~stopping /\ PortsConserved
  /\ [Undisturbed /\ RaceFree]_vars
  => PortsConserved' /\ ~stopping'
<1> SUFFICES ASSUME TypeOK, LaneInv, LanesAreTracked, ~stopping, PortsConserved,
                    [Undisturbed /\ RaceFree]_vars
             PROVE  PortsConserved' /\ ~stopping'
  OBVIOUS
<1> USE PoolAssumption
    DEF TypeOK, PortsConserved, PCs, WithPort, queueVars, lanesVars, deadlines,
        reqVars, reaperVars, background
<1>1. ASSUME NEW r \in Requests, RequestStep(r)
      PROVE  PortsConserved' /\ ~stopping'
  <2>1. CASE TakeIdle(r)
    <3>1. PICK p \in idle : /\ idle' = idle \ {p}
                            /\ lane' = [lane EXCEPT ![r] = p]
      BY <2>1 DEF TakeIdle, SetLane
    <3>2. lane[r] = NoPort /\ UNCHANGED <<free, victim, stopping>>
      BY <2>1 DEF TakeIdle
    <3>3. lane'[r] = p /\ \A s \in Requests \ {r} : lane'[s] = lane[s]
      BY <3>1
    <3> QED
      BY <3>1, <3>2, <3>3
  <2>2. CASE PopFree(r)
    <3>1. /\ free # <<>>
          /\ free' = Tail(free)
          /\ lane[r] = NoPort
          /\ lane' = [lane EXCEPT ![r] = Head(free)]
          /\ UNCHANGED <<idle, victim, stopping>>
      BY <2>2 DEF PopFree, Goto, SetLane
    <3>2. Range(free) = Range(free') \cup {Head(free)} /\ Head(free) \in Ports
      BY <3>1, PopFront
    <3>3. /\ lane'[r] = Head(free)
          /\ \A s \in Requests \ {r} : lane'[s] = lane[s]
      BY <3>1
    <3> QED
      BY <3>1, <3>2, <3>3
  <2>3. CASE SpawnFailed(r) \/ Reclaimed(r)
    <3>1. /\ lane[r] \in Ports
          /\ free' = Append(free, lane[r])
          /\ lane' = [lane EXCEPT ![r] = NoPort]
          /\ UNCHANGED <<idle, victim, stopping>>
      BY <2>3 DEF AfterMiss, Goto, NotifySlotAvailable, Reclaimed, ReturnPort,
             SetLane, SpawnFailed
    <3>2. Range(free') = Range(free) \cup {lane[r]}
      BY <3>1, PushBack
    <3>3. \A s \in Requests \ {r} : lane'[s] = lane[s]
      BY <3>1
    <3> QED
      BY <3>1, <3>2, <3>3
  <2>4. CASE MakeIdle(r)
    <3>1. /\ idle' = idle \cup {lane[r]}
          /\ \A s \in Requests \ {r} : lane'[s] = lane[s]
          /\ UNCHANGED <<free, victim, stopping>>
      BY <2>4 DEF MakeIdle, Goto, SetLane
    <3> QED
      BY <3>1
  <2>5. CASE \/ Arrive(r) \/ NoIdle(r) \/ Deadline(r) \/ NoFree(r)
             \/ Spawned(r) \/ Healthy(r) \/ Unhealthy(r) \/ Enqueue(r)
             \/ Reject(r) \/ Wait(r) \/ Woken(r) \/ NoTimeLeft(r)
             \/ TimedOut(r) \/ LeaveQueue(r) \/ DropGuard(r) \/ NotifyIdle(r)
    <3>1. UNCHANGED <<free, idle, lane, victim, stopping>>
      BY <2>5 DEF AfterMiss, Arrive, Deadline, DropGuard, Enqueue, ForgetTicket,
             Goto, Healthy, LeaveQueue, NoFree, NoIdle, NoTimeLeft, NotifyIdle,
             NotifySlotAvailable, Pumping, QueueFull, Reject, RemoveTicket,
             Spawned, StopWaiting, TimedOut, TryEnqueue, Unhealthy, Wait,
             WaitForSlot, Woken
    <3> QED
      BY <3>1
  <2> QED
    BY <1>1, <2>1, <2>2, <2>3, <2>4, <2>5 DEF RequestStep, Progress, AgeOut
<1>2. CASE ReapScan \/ ReapNotify
  BY <1>2 DEF ReapScan, ReapNotify
<1>3. CASE ReapUnlist
  BY <1>3 DEF ReapUnlist
<1>4. CASE ReapTake
  BY <1>4 DEF ReapTake, LanesAreTracked
<1>5. CASE ReapFree
  <2>1. /\ victim \in Ports
        /\ free' = Append(free, victim)
        /\ UNCHANGED <<idle, lane, stopping>>
    BY <1>5 DEF ReapFree
  <2>2. Range(free') = Range(free) \cup {victim}
    BY <2>1, PushBack
  <2> QED
    BY <2>1, <2>2
<1>6. CASE UNCHANGED vars
  BY <1>6 DEF vars
<1> QED
  BY <1>1, <1>2, <1>3, <1>4, <1>5, <1>6 DEF Undisturbed, ReaperStep

(* Without disconnects and shutdown, every port is at any time free, idle,  *)
(* with a request or with the reaper: no failure path loses one.            *)
THEOREM PortsAreConserved == CalmSpec => []PortsConserved
<1>1. Init => ~stopping /\ PortsConserved
  BY DEF Init, PortsConserved, Bijection, Surjection, Injection, Range
<1>2. [Undisturbed /\ RaceFree]_vars => [Next /\ RaceFree]_vars
  BY DEF Undisturbed, Next
<1>3. CalmSpec => RaceFreeSpec
  BY <1>2, PTL DEF CalmSpec, RaceFreeSpec
<1>4. /\ TypeOK /\ LaneInv /\ LanesAreTracked
      /\ ~stopping /\ PortsConserved
      /\ [Undisturbed /\ RaceFree]_vars
      => (~stopping /\ PortsConserved)'
  BY NextConserved
<1> QED
  BY <1>1, <1>3, <1>4, RaceFreeTracked, PTL DEF CalmSpec

-----------------------------------------------------------------------------
(***************************************************************************)
(* The pool implements LanePool.                                           *)
(***************************************************************************)
LEMMA HeldStep ==
  TypeOK /\ LaneInv /\ [Next]_vars
    => [Abstract!Next]_([r \in Requests |-> Held(r)])
<1> DEFINE h == [r \in Requests |-> Held(r)]
<1> SUFFICES ASSUME TypeOK, LaneInv, [Next]_vars
             PROVE  Abstract!Next \/ h' = h
  OBVIOUS
<1> USE PoolAssumption
    DEF TypeOK, PCs, WithPort, queueVars, lanesVars, deadlines, reqVars,
        reaperVars, background, Held
<1>1. ASSUME NEW r \in Requests, RequestStep(r) \/ Cancel(r)
      PROVE  Abstract!Next \/ h' = h
  (* acquire returns: the lane r gets has no holder. *)
  <2>1. CASE TakeIdle(r) \/ Healthy(r)
    <3>1. /\ pc[r] # "held" /\ pc' = [pc EXCEPT ![r] = "held"]
          /\ lane'[r] \in Ports
          /\ \A s \in Requests \ {r} : lane'[s] = lane[s]
          /\ \A s \in Requests \ {r} : lane[s] # lane'[r]
      <4>1. CASE TakeIdle(r)
        BY <4>1 DEF TakeIdle, SetLane, LaneInv, ExclusiveLanes
      <4>2. CASE Healthy(r)
        BY <4>2 DEF Healthy, Goto, ForgetTicket, LaneInv, ExclusiveLanes
      <4> QED
        BY <2>1, <4>1, <4>2
    <3>2. /\ h[r] = NoPort
          /\ \A s \in Requests : h[s] # lane'[r]
          /\ h' = [h EXCEPT ![r] = lane'[r]]
      BY <3>1
    <3> QED
      BY <3>1, <3>2 DEF Abstract!Next, Abstract!Acquire
  <2>2. CASE DropGuard(r)
    <3>1. pc[r] = "held" /\ pc' = [pc EXCEPT ![r] = "dropped"] /\ lane' = lane
      BY <2>2 DEF DropGuard, Goto
    <3>2. h[r] # NoPort /\ h' = [h EXCEPT ![r] = NoPort]
      BY <3>1
    <3> QED
      BY <3>2 DEF Abstract!Next, Abstract!Release
  <2>3. CASE \/ Arrive(r) \/ NoIdle(r) \/ Deadline(r) \/ PopFree(r)
             \/ NoFree(r) \/ Spawned(r) \/ SpawnFailed(r) \/ Unhealthy(r)
             \/ Reclaimed(r) \/ Enqueue(r) \/ Reject(r) \/ Wait(r) \/ Woken(r)
             \/ NoTimeLeft(r) \/ TimedOut(r) \/ LeaveQueue(r) \/ MakeIdle(r)
             \/ NotifyIdle(r) \/ Cancel(r)
    <3>1. /\ pc[r] # "held"
          /\ \A s \in Requests \ {r} : pc'[s] = pc[s] /\ lane'[s] = lane[s]
          /\ pc'[r] # "held"
      BY <2>3 DEF AfterMiss, Arrive, Cancel, Deadline, Enqueue, ForgetTicket,
             Goto, LeaveQueue, MakeIdle, NoFree, NoIdle, NoTimeLeft, NotifyIdle,
             NotifySlotAvailable, PopFree, Pumping, QueueFull, Reclaimed,
             Reject, RemoveTicket, ReturnPort, SetLane, SpawnFailed, Spawned,
             StopWaiting, TimedOut, TryEnqueue, Unhealthy, Wait, WaitForSlot,
             Woken, Suspended
    <3> QED
      BY <3>1
  <2> QED
    BY <1>1, <2>1, <2>2, <2>3 DEF RequestStep, Progress, AgeOut
<1>2. CASE ReaperStep \/ KillActive \/ UNCHANGED vars
  BY <1>2 DEF ReaperStep, ReapScan, ReapUnlist, ReapTake, ReapFree, ReapNotify,
              KillActive, vars
<1> QED
  BY <1>1, <1>2 DEF Next

(* What the proxy sees of acquire and of dropped guards is an exclusive     *)
(* allocator of lanes.                                                      *)
THEOREM RefinesLanePool == RaceFreeSpec => Abstract!Spec
<1>1. Init => Abstract!Init
  BY DEF Init, Abstract!Init, Held
<1>2. TypeOK /\ LaneInv /\ [Next /\ RaceFree]_vars
        => [Abstract!Next]_([r \in Requests |-> Held(r)])
  BY HeldStep
<1> QED
  BY <1>1, <1>2, RaceFreeInv, PTL DEF RaceFreeSpec, Abstract!Spec
=============================================================================
