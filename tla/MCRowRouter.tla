------------------------------ MODULE MCRowRouter ------------------------------
(***************************************************************************)
(* A chain of two enabled backends and a disabled one for TLC.             *)
(***************************************************************************)
EXTENDS RowRouter

CONSTANTS omega, beta, delta

MCChain == <<omega, delta, beta>>

(* Twice the share for omega; the 0 of beta counts as 1.                    *)
MCWeight == [b \in {omega, beta, delta} |-> IF b = omega THEN 2 ELSE 0]
=============================================================================
