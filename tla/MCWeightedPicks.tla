---------------------------- MODULE MCWeightedPicks ----------------------------
(***************************************************************************)
(* Chains of three and of four backends for TLC.                           *)
(***************************************************************************)
EXTENDS WeightedPicks

CONSTANTS omega, beta, delta, eta

MCChain  == <<omega, beta, delta>>
MCChain4 == <<omega, beta, delta, eta>>

(* The weights of the example configuration, and a chain with a weight 0.   *)
Weights211 == [b \in Backends |-> IF b = omega THEN 2 ELSE 1]
Weights5320 == [b \in Backends |->
  CASE b = omega -> 5 [] b = beta -> 3 [] b = delta -> 2 [] b = eta -> 0]
=============================================================================
