---------------------------- MODULE MCDemandPool ----------------------------
(***************************************************************************)
(* Small instances of DemandPool for TLC.                                  *)
(***************************************************************************)
EXTENDS DemandPool, TLC

Symmetry == Permutations(Ports) \cup Permutations(Requests)
=============================================================================
