---------------------------- MODULE SmoothWeighted ----------------------------
(***************************************************************************)
(* select_weighted of omega-core/src/router.rs: smooth weighted            *)
(* round-robin.  Every healthy backend is credited with its weight, the    *)
(* one with the highest running weight is picked (the first of the chain   *)
(* among equals) and is charged what was credited in all.                  *)
(***************************************************************************)
EXTENDS Integers, Sequences, Functions

CONSTANTS Chain,   \* the configured backends in row-chain order
          Weight   \* the configured weight of each

Backends == Range(Chain)

ASSUME ChainAssumption == /\ Chain \in Seq(Backends)
                          /\ IsInjective(Chain)
                          /\ \A b \in Backends : Weight[b] \in Nat

Position(b) == CHOOSE i \in DOMAIN Chain : Chain[i] = b

(* A bug the checks must notice: the weight 0 is not clamped to 1.          *)
EffectiveWeightUnclamped(b) == Weight[b]

EffectiveWeight(b) == IF Weight[b] = 0 THEN 1 ELSE Weight[b]

(* The loop over the chain: what a number per backend has summed up to      *)
(* after each position of it.                                               *)
PartialSums(f) ==
  LET sum[i \in 0..Len(Chain)] == IF i = 0 THEN 0 ELSE sum[i - 1] + f[Chain[i]]
  IN  sum

ChainSum(f) == PartialSums(f)[Len(Chain)]

Weights(H) == [b \in Backends |-> IF b \in H THEN EffectiveWeight(b) ELSE 0]

Total(H) == ChainSum(Weights(H))

(* A bug the checks must notice: unhealthy backends are credited as well.   *)
CreditedAll(current, H) == [b \in Backends |-> current[b] + EffectiveWeight(b)]

Credited(current, H) == [b \in Backends |-> current[b] + Weights(H)[b]]

(* A bug the checks must notice: the scores are not compared.               *)
WinnerFirst(current, H) ==
  CHOOSE b \in H : \A c \in H \ {b} : Position(b) < Position(c)

(* The scan keeps the first of the highest scores: it compares with >.      *)
Winner(current, H) ==
  LET score == Credited(current, H)
  IN  CHOOSE b \in H : \A c \in H \ {b} :
        score[c] < score[b] \/ (score[c] = score[b] /\ Position(b) < Position(c))

(* A bug the checks must notice: the winner is charged its own weight only. *)
ChargedOwn(current, H) ==
  LET w == Winner(current, H)
  IN  [Credited(current, H) EXCEPT ![w] = @ - EffectiveWeight(w)]

Charged(current, H) ==
  [Credited(current, H) EXCEPT ![Winner(current, H)] = @ - Total(H)]
=============================================================================
