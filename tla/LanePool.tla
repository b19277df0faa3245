------------------------------- MODULE LanePool -------------------------------
(***************************************************************************)
(* What a pool of inference lanes promises the proxy that calls it: a      *)
(* request holds at most one lane at a time, gives it up before it gets    *)
(* another, and no lane is ever held by two requests.                      *)
(***************************************************************************)
CONSTANTS Requests, Ports, NoPort

VARIABLE holder    \* the port each request holds, NoPort if none

Init == holder = [r \in Requests |-> NoPort]

Acquire(r, p) == /\ holder[r] = NoPort
                 /\ \A s \in Requests : holder[s] # p
                 /\ holder' = [holder EXCEPT ![r] = p]

Release(r) == /\ holder[r] # NoPort
              /\ holder' = [holder EXCEPT ![r] = NoPort]

Next == \E r \in Requests : Release(r) \/ \E p \in Ports : Acquire(r, p)

Spec == Init /\ [][Next]_holder
=============================================================================
