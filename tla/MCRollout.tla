------------------------------ MODULE MCRollout ------------------------------
(***************************************************************************)
(* Two jobs and two runs of seed_slave.sh: enough to meet on a peer.       *)
(***************************************************************************)
EXTENDS Rollout, TLC

Symmetry == Permutations(Jobs) \cup Permutations(Seeds) \cup Permutations(Peers)
=============================================================================
