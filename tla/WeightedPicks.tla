----------------------------- MODULE WeightedPicks -----------------------------
(***************************************************************************)
(* The running weights of one router, one pick after the other, while the  *)
(* set of healthy backends changes as it likes.                            *)
(***************************************************************************)
EXTENDS SmoothWeighted, FiniteSets

VARIABLES current,  \* the running weights, one per backend
          healthy,  \* the backends the next pick selects among
          steady,   \* the weights were all 0 when this set became the healthy one
          shares,   \* the picks of each backend since the weights were last all 0
          last      \* the sequence of picks made so far, cut to the latest one

vars == <<current, healthy, steady, shares, last>>

Zero == [b \in Backends |-> 0]

Init == /\ current = Zero
        /\ healthy \in (SUBSET Backends) \ {{}}
        /\ steady = TRUE
        /\ shares = Zero
        /\ last = <<>>

SelectWeighted ==
  LET w == Winner(current, healthy)
  IN  /\ current' = Charged(current, healthy)
      /\ last' = <<w>>
      /\ shares' = IF ~steady \/ current' = Zero THEN Zero
                                                 ELSE [shares EXCEPT ![w] = @ + 1]
      /\ UNCHANGED <<healthy, steady>>

(* A probe of another request changes what the cache says.                  *)
HealthChanges == /\ healthy' \in (SUBSET Backends) \ {{}, healthy}
                 /\ steady' = (current = Zero)
                 /\ shares' = Zero
                 /\ UNCHANGED <<current, last>>

Next == SelectWeighted \/ HealthChanges

Spec == Init /\ [][Next]_vars

(* Requests keep coming.                                                    *)
FairSpec == Spec /\ WF_vars(SelectWeighted)

(* All backends are healthy from the start and stay so.                     *)
SteadySpec == Init /\ healthy = Backends /\ [][SelectWeighted]_vars

-----------------------------------------------------------------------------
(* No pick creates or destroys credit, whatever sets it selects among.      *)
CreditConserved == ChainSum(current) = 0

(* However the healthy set changes, no backend is owed, or owes, more than  *)
(* half a round of the whole chain for each of the other backends: an       *)
(* excluded one that comes back neither floods the rotation nor is starved  *)
(* of it, and with weights that fit an i64 so do the running weights.       *)
CreditBounded ==
  LET bound == (Cardinality(Backends) - 1) * Total(Backends)
  IN  \A b \in Backends : -bound =< 2 * current[b] /\ 2 * current[b] =< bound

(* While the healthy set stays the same, the picks of each backend are away *)
(* from its weight's share of all picks by at most half a pick for each of  *)
(* the other healthy ones, at any time.                                     *)
FairShare ==
  LET picks == ChainSum([b \in Backends |-> IF b \in healthy THEN shares[b] ELSE 0])
      skew(b) == shares[b] * Total(healthy) - picks * EffectiveWeight(b)
      bound == (Cardinality(healthy) - 1) * Total(healthy)
  IN  steady => \A b \in healthy : -bound =< 2 * skew(b) /\ 2 * skew(b) =< bound

(* A backend that stays healthy is picked again and again, however the      *)
(* other backends come and go meanwhile: `max(1)` gives even a backend of   *)
(* weight 0 a share.                                                        *)
NobodyStarves == \A b \in Backends : <>[](b \in healthy) => []<>(last = <<b>>)

(* "Weights 2:1:1 yield the stable pattern A B A C A B A C ... with no      *)
(* bursty runs": no backend is picked twice in a row.                       *)
NoBurstyRuns == [][last' # last]_<<current, last>>
=============================================================================
