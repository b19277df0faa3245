---------------------------- MODULE MCChatHandler ----------------------------
(***************************************************************************)
(* A row chain of Omega and two remote servers for TLC.  The weights are   *)
(* all 1: MCWeightedPicks and MCRowRouter check what they do.              *)
(***************************************************************************)
EXTENDS ChatHandler

CONSTANTS beta, delta

MCChain == <<Omega, beta, delta>>
MCWeight == [b \in {Omega, beta, delta} |-> 1]
=============================================================================
