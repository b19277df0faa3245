----------------------------- MODULE EventStream -----------------------------
(***************************************************************************)
(* What the client of a streaming request is promised: the events that     *)
(* the model server sends, one by one, in order, each as Promised says     *)
(* (with the lane that served it); and after them, as it is, what the      *)
(* server had begun to send when it stopped.  Bytes and chunks are not     *)
(* spoken of.                                                              *)
(***************************************************************************)
EXTENDS Sequences, Naturals

CONSTANT Promised(_)  \* an event as the client should see it

VARIABLES sent, tail,  \* the events of the server, the rest
          delivered,   \* what the client has seen
          status

vars == <<sent, tail, delivered, status>>

events == [i \in DOMAIN sent |-> Promised(sent[i])]
            \o (IF tail = <<>> THEN <<>> ELSE <<tail>>)

Init == /\ delivered = <<>>
        /\ status = "open"

Deliver == /\ status = "open"
           /\ Len(delivered) < Len(events)
           /\ delivered' = Append(delivered, events[Len(delivered) + 1])
           /\ UNCHANGED <<sent, tail, status>>

Close == /\ status = "open"
         /\ delivered = events
         /\ status' = "closed"
         /\ UNCHANGED <<sent, tail, delivered>>

(* The connection to the server breaks, or the client leaves.               *)
Stop == /\ status = "open"
        /\ status' \in {"broken", "left"}
        /\ UNCHANGED <<sent, tail, delivered>>

Next == Deliver \/ Close \/ Stop

Spec == Init /\ [][Next]_vars /\ WF_vars(Deliver \/ Close)
=============================================================================
