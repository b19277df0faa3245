---------------------------- MODULE MCLocalLanes ----------------------------
(***************************************************************************)
(* Two lanes, and as many requests as contend for them.                    *)
(***************************************************************************)
EXTENDS LocalLanes, TLC

Symmetry == Permutations(Requests) \cup Permutations(Ports)
=============================================================================
