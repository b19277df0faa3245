--------------------------- MODULE WeightedPicksProofs ---------------------------
(***************************************************************************)
(* The rotation under any sequence of healthy sets, for every chain and    *)
(* every choice of weights.                                                *)
(***************************************************************************)
EXTENDS WeightedPicks, SmoothWeightedProofs

(******************** sums over some of the backends ************************)
Only(f, S) == [b \in Backends |-> IF b \in S THEN f[b] ELSE 0]
SumOver(f, S) == ChainSum(Only(f, S))

LEMMA SumOverType ==
  ASSUME NEW f \in [Backends -> Int], NEW S
  PROVE  Only(f, S) \in [Backends -> Int] /\ SumOver(f, S) \in Int
<1>1. Only(f, S) \in [Backends -> Int]
  BY DEF Only
<1>2. QED
  BY <1>1, ChainSumType DEF SumOver

LEMMA SumOverAll ==
  ASSUME NEW f \in [Backends -> Int] PROVE SumOver(f, Backends) = ChainSum(f)
<1>1. Only(f, Backends) = f
  BY DEF Only
<1>2. QED
  BY <1>1 DEF SumOver

LEMMA SumOverNone ==
  ASSUME NEW f, NEW S, \A b \in Backends \cap S : f[b] = 0 PROVE SumOver(f, S) = 0
<1>1. Only(f, S) = [b \in Backends |-> 0]
  BY DEF Only
<1>2. QED
  BY <1>1, ChainSumOfZero DEF SumOver

LEMMA SumOverOne ==
  ASSUME NEW f \in [Backends -> Int], NEW b \in Backends PROVE SumOver(f, {b}) = f[b]
<1>1. Only(f, {b}) = [c \in Backends |-> IF c = b THEN f[b] ELSE 0]
  BY DEF Only
<1>2. f[b] \in Int
  OBVIOUS
<1>3. QED
  BY <1>1, <1>2, ChainSumOfOne DEF SumOver

LEMMA SumOverTwo ==
  ASSUME NEW f \in [Backends -> Int], NEW S, NEW R, S \cap R = {}
  PROVE  SumOver(f, S \cup R) = SumOver(f, S) + SumOver(f, R)
<1> DEFINE F == Only(f, S)
           G == Only(f, R)
<1>1. Only(f, S \cup R) = [b \in Backends |-> F[b] + G[b]]
  <2>1. ASSUME NEW b \in Backends PROVE Only(f, S \cup R)[b] = F[b] + G[b]
    <3>1. f[b] \in Int
      OBVIOUS
    <3>2. QED
      BY <3>1 DEF Only
  <2>2. QED
    BY <2>1 DEF Only
<1>2. F \in [Backends -> Int] /\ G \in [Backends -> Int]
  BY SumOverType
<1>3. ChainSum([b \in Backends |-> F[b] + G[b]]) = ChainSum(F) + ChainSum(G)
  <2> HIDE DEF F, G
  <2>1. QED
    BY <1>2, ChainSumAdds
<1>4. QED
  BY <1>1, <1>3 DEF SumOver

LEMMA SumOverAdds ==
  ASSUME NEW f \in [Backends -> Int], NEW g \in [Backends -> Int], NEW S
  PROVE  SumOver([b \in Backends |-> f[b] + g[b]], S) = SumOver(f, S) + SumOver(g, S)
<1> DEFINE h == [b \in Backends |-> f[b] + g[b]]
           F == Only(f, S)
           G == Only(g, S)
<1>1. Only(h, S) = [b \in Backends |-> F[b] + G[b]]
  <2>1. ASSUME NEW b \in Backends PROVE Only(h, S)[b] = F[b] + G[b]
    BY DEF Only
  <2>2. QED
    BY <2>1 DEF Only
<1>2. F \in [Backends -> Int] /\ G \in [Backends -> Int]
  BY SumOverType
<1>3. ChainSum([b \in Backends |-> F[b] + G[b]]) = ChainSum(F) + ChainSum(G)
  <2> HIDE DEF F, G
  <2>1. QED
    BY <1>2, ChainSumAdds
<1>4. QED
  BY <1>1, <1>3 DEF SumOver

LEMMA SumNotNegative ==
  ASSUME NEW f \in [Backends -> Nat] PROVE ChainSum(f) >= 0
<1> DEFINE L == Len(Chain)
           F == PartialSums(f)
           Bad == {i \in Nat : i =< L /\ ~(F[i] >= 0)}
<1>1. L \in Nat /\ \A i \in 1..L : Chain[i] \in Backends
  BY ChainFacts
<1>2. AreSums(F, f, L)
  <2>1. f \in [Backends -> Int]
    OBVIOUS
  <2>2. QED
    BY <2>1, PartialSumsAreSums
<1> HIDE DEF F
<1>3. Bad = {}
  <2> SUFFICES ASSUME Bad # {} PROVE FALSE
    OBVIOUS
  <2>1. PICK n \in Bad : \A m \in Bad : n =< m
    <3>1. Bad \in SUBSET Nat
      OBVIOUS
    <3> HIDE DEF Bad
    <3>2. QED
      BY <3>1, LeastNumber
  <2>2. n # 0
    BY <1>2, <2>1 DEF AreSums
  <2>3. n \in 1..L /\ n - 1 \in Nat /\ n - 1 =< L /\ n - 1 \notin Bad
    BY <1>1, <2>1, <2>2
  <2>4. F[n - 1] >= 0
    BY <2>3
  <2>5. F[n] = F[n - 1] + f[Chain[n]]
    BY <1>2, <2>3 DEF AreSums
  <2>6. f[Chain[n]] \in Nat
    BY <1>1, <2>3
  <2>7. F[n - 1] \in Int
    <3>1. n - 1 \in 0..L
      BY <1>1, <2>3
    <3> HIDE DEF L, Bad
    <3>2. QED
      BY <3>1, <1>2 DEF AreSums
  <2>8. F[n] >= 0
    BY <2>4, <2>5, <2>6, <2>7
  <2>9. QED
    BY <2>1, <2>8
<1>4. F[L] >= 0
  BY <1>1, <1>3
<1>5. QED
  BY <1>4 DEF ChainSum, F

(* Of numbers that are not negative, more sum up to more.                   *)
LEMMA SumOverMore ==
  ASSUME NEW f \in [Backends -> Nat], NEW R, NEW S \in SUBSET R
  PROVE  0 =< SumOver(f, S) /\ SumOver(f, S) =< SumOver(f, R)
<1> DEFINE Q == R \ S
<1>1. f \in [Backends -> Int]
  OBVIOUS
<1>2. ASSUME NEW T PROVE SumOver(f, T) \in Int /\ 0 =< SumOver(f, T)
  <2>1. Only(f, T) \in [Backends -> Nat]
    BY DEF Only
  <2>2. SumOver(f, T) >= 0
    BY <2>1, SumNotNegative DEF SumOver
  <2>3. SumOver(f, T) \in Int
    BY <1>1, SumOverType
  <2>4. QED
    BY <2>2, <2>3
<1>3. SumOver(f, S \cup Q) = SumOver(f, S) + SumOver(f, Q)
  <2>1. S \cap Q = {}
    OBVIOUS
  <2> HIDE DEF Q
  <2>2. QED
    BY <1>1, <2>1, SumOverTwo
<1>4. S \cup Q = R
  OBVIOUS
<1>5. /\ SumOver(f, S) \in Int /\ 0 =< SumOver(f, S)
      /\ SumOver(f, Q) \in Int /\ 0 =< SumOver(f, Q)
  BY <1>2
<1>6. \A m, n \in Int : 0 =< n => m =< m + n
  OBVIOUS
<1>7. SumOver(f, R) = SumOver(f, S) + SumOver(f, Q)
  BY <1>3, <1>4
<1> HIDE DEF Q
<1>8. QED
  BY <1>5, <1>6, <1>7

-----------------------------------------------------------------------------
(************************ no pick goes out of balance ***********************)
(* The more backends a set has, and the more it leaves out, the more its    *)
(* running weights may be off in all: every pair of one of the set and one  *)
(* outside it counts half a round.                                          *)
Balanced(f, U, round) ==
  \A S \in SUBSET U :
    2 * SumOver(f, S) =< Cardinality(S) * (Cardinality(U) - Cardinality(S)) * round

Paid(H, w) == [b \in Backends |-> IF b = w THEN -Total(H) ELSE 0]

LEMMA ChargedIs ==
  ASSUME NEW f \in [Backends -> Int], NEW H \in SUBSET Backends, H # {}
  PROVE  /\ Winner(f, H) \in H
         /\ Total(H) \in Int
         /\ Credited(f, H) \in [Backends -> Int]
         /\ Paid(H, Winner(f, H)) \in [Backends -> Int]
         /\ Charged(f, H) = [b \in Backends |-> Credited(f, H)[b] + Paid(H, Winner(f, H))[b]]
<1> DEFINE w == Winner(f, H)
           total == Total(H)
           credited == Credited(f, H)
           paid == Paid(H, w)
<1>1. w \in H /\ w \in Backends
  BY WinnerIsHealthy
<1>2. total \in Int
  <2>1. Weights(H) \in [Backends -> Int]
    BY WeightFacts
  <2>2. QED
    BY <2>1, ChainSumType DEF Total
<1>3. credited \in [Backends -> Int]
  BY CreditedType
<1> HIDE DEF w, total, credited
<1>4. paid = [b \in Backends |-> IF b = w THEN -total ELSE 0] /\ -total \in Int
  BY <1>2 DEF Paid, total
<1> HIDE DEF paid
<1>5. paid \in [Backends -> Int]
  BY <1>4
<1>6. Charged(f, H) = [credited EXCEPT ![w] = credited[w] - total]
  BY DEF Charged, w, total, credited
<1>7. ASSUME NEW b \in Backends
      PROVE  [credited EXCEPT ![w] = credited[w] - total][b] = credited[b] + paid[b]
  <2>1. credited[b] \in Int /\ credited[w] \in Int
    BY <1>1, <1>3
  <2>2. CASE b = w
    <3>1. paid[b] = -total
      BY <1>4, <2>2
    <3>2. [credited EXCEPT ![w] = credited[w] - total][b] = credited[w] - total
      BY <1>3, <2>2
    <3>3. QED
      BY <1>2, <2>1, <2>2, <3>1, <3>2
  <2>3. CASE b # w
    <3>1. paid[b] = 0
      BY <1>4, <2>3
    <3>2. [credited EXCEPT ![w] = credited[w] - total][b] = credited[b]
      BY <1>3, <2>3
    <3>3. QED
      BY <2>1, <3>1, <3>2
  <2>4. QED
    BY <2>2, <2>3
<1>8. Charged(f, H) = [b \in Backends |-> credited[b] + paid[b]]
  BY <1>3, <1>6, <1>7
<1>9. QED
  BY <1>1, <1>2, <1>3, <1>5, <1>8 DEF w, total, credited, paid

(* What a pick adds to a set: its healthy ones their weights, and the whole *)
(* round off if it has the winner.                                          *)
LEMMA ChargedOver ==
  ASSUME NEW f \in [Backends -> Int], NEW H \in SUBSET Backends, H # {}, NEW S
  PROVE  LET w == Winner(f, H) IN
         /\ w \notin S => SumOver(Charged(f, H), S) = SumOver(f, S) + SumOver(Weights(H), S)
         /\ w \in S => SumOver(Charged(f, H), S)
                           = SumOver(f, S) + SumOver(Weights(H), S) - Total(H)
<1> DEFINE w == Winner(f, H)
           paid == Paid(H, w)
           credited == Credited(f, H)
<1>1. /\ w \in Backends /\ Total(H) \in Int /\ paid \in [Backends -> Int]
      /\ credited \in [Backends -> Int]
      /\ Charged(f, H) = [b \in Backends |-> credited[b] + paid[b]]
  BY ChargedIs
<1>2. /\ Weights(H) \in [Backends -> Int]
      /\ credited = [b \in Backends |-> f[b] + Weights(H)[b]]
  BY WeightFacts DEF Credited
<1>3. SumOver(credited, S) = SumOver(f, S) + SumOver(Weights(H), S)
  <2> HIDE DEF credited
  <2>1. QED
    BY <1>2, SumOverAdds
<1>4. paid = [b \in Backends |-> IF b = w THEN -Total(H) ELSE 0]
  BY DEF Paid
<1> HIDE DEF w, paid, credited
<1>5. SumOver(Charged(f, H), S) = SumOver(credited, S) + SumOver(paid, S)
  BY <1>1, SumOverAdds
<1>6. SumOver(f, S) \in Int /\ SumOver(Weights(H), S) \in Int /\ SumOver(paid, S) \in Int
  BY <1>1, <1>2, SumOverType
<1>7. CASE w \notin S
  <2>1. \A b \in Backends \cap S : paid[b] = 0
    BY <1>4, <1>7
  <2>2. SumOver(paid, S) = 0
    BY <2>1, SumOverNone
  <2>3. SumOver(Charged(f, H), S) = SumOver(f, S) + SumOver(Weights(H), S)
    BY <1>3, <1>5, <1>6, <2>2
  <2>4. QED
    BY <1>7, <2>3 DEF w
<1>8. CASE w \in S
  <2>1. Only(paid, S) = paid
    BY <1>1, <1>4, <1>8 DEF Only
  <2>2. SumOver(paid, S) = ChainSum(paid)
    BY <2>1 DEF SumOver
  <2>3. ChainSum(paid) = -Total(H)
    <3>1. -Total(H) \in Int
      BY <1>1
    <3>2. QED
      BY <1>1, <1>4, <3>1, ChainSumOfOne
  <2>4. SumOver(Charged(f, H), S) = SumOver(f, S) + SumOver(Weights(H), S) - Total(H)
    BY <1>1, <1>3, <1>5, <1>6, <2>2, <2>3
  <2>5. QED
    BY <1>8, <2>4 DEF w
<1>9. QED
  BY <1>7, <1>8 DEF w

(* The winner's running weight, with its credit, is the highest.            *)
LEMMA WinnerIsHighest ==
  ASSUME NEW f \in [Backends -> Int], NEW H \in SUBSET Backends, NEW b \in H
  PROVE  Credited(f, H)[b] =< Credited(f, H)[Winner(f, H)]
<1> DEFINE score == Credited(f, H)
           w == Winner(f, H)
<1>1. score \in [Backends -> Int]
  BY CreditedType
<1>2. \E v \in H : \A c \in H \ {v} : Beats(score, v, c)
  <2>1. H # {}
    OBVIOUS
  <2> HIDE DEF score
  <2>2. QED
    BY <1>1, <2>1, SomeBackendBeatsAll
<1>3. w = CHOOSE v \in H : \A c \in H \ {v} : Beats(score, v, c)
  BY DEF Winner, Beats
<1> HIDE DEF score, w
<1>4. w \in H /\ \A c \in H \ {w} : Beats(score, w, c)
  BY <1>2, <1>3
<1>5. score[b] \in Int /\ score[w] \in Int
  BY <1>1, <1>4
<1>6. score[b] =< score[w]
  BY <1>4, <1>5 DEF Beats
<1>7. QED
  BY <1>6 DEF score, w

LEMMA Parabola ==
  ASSUME NEW k \in Int, NEW n \in Int, NEW t \in Int
  PROVE  (k + 1) * (n - (k + 1)) * t + (k - 1) * (n - (k - 1)) * t + 2 * t = 2 * (k * (n - k) * t)
<1>1. (k + 1) * (n - (k + 1)) + (k - 1) * (n - (k - 1)) + 2 = 2 * (k * (n - k))
  OBVIOUS
<1> DEFINE x == (k + 1) * (n - (k + 1))
           y == (k - 1) * (n - (k - 1))
           z == k * (n - k)
<1>2. x \in Int /\ y \in Int /\ z \in Int /\ x + y + 2 = 2 * z
  BY <1>1
<1> HIDE DEF x, y, z
<1>3. x * t + y * t + 2 * t = (x + y + 2) * t
  BY <1>2
<1>4. (x + y + 2) * t = (2 * z) * t
  BY <1>2
<1>5. (2 * z) * t = 2 * (z * t)
  BY <1>2
<1>6. x * t + y * t + 2 * t = 2 * (z * t)
  BY <1>3, <1>4, <1>5
<1>7. QED
  BY <1>6 DEF x, y, z

(* Whatever healthy backends of U a pick selects among, U stays balanced.   *)
LEMMA PickKeepsBalance ==
  ASSUME NEW f \in [Backends -> Int], NEW U \in SUBSET Backends,
         NEW H \in SUBSET U, H # {}, NEW round \in Int, Total(H) =< round,
         Balanced(f, U, round)
  PROVE  Balanced(Charged(f, H), U, round)
<1> DEFINE g == Charged(f, H)
           w == Winner(f, H)
           s == Credited(f, H)
           n == Cardinality(U)
           Most(k) == k * (n - k) * round
           Bad == {S \in SUBSET U : ~(2 * SumOver(g, S) =< Most(Cardinality(S)))}
<1>1. H \in SUBSET Backends /\ IsFiniteSet(U) /\ n \in Nat
  BY ChainFacts, FS_Subset, FS_CardinalityType
<1>2. /\ w \in H /\ w \in Backends /\ w \in U /\ Total(H) \in Int
      /\ s \in [Backends -> Int] /\ g \in [Backends -> Int]
      /\ \A b \in Backends : g[b] = s[b] + Paid(H, w)[b]
  <2>1. /\ w \in H /\ Total(H) \in Int /\ s \in [Backends -> Int]
        /\ Paid(H, w) \in [Backends -> Int]
        /\ g = [b \in Backends |-> s[b] + Paid(H, w)[b]]
    BY <1>1, ChargedIs
  <2> HIDE DEF g, s, w
  <2>2. QED
    BY <1>1, <2>1
<1>3. /\ Weights(H) \in [Backends -> Nat] /\ Weights(H) \in [Backends -> Int]
      /\ Total(H) = SumOver(Weights(H), Backends)
  <2>1. Weights(H) \in [Backends -> Nat]
    BY <1>1, WeightFacts
  <2>2. Weights(H) \in [Backends -> Int]
    BY <2>1
  <2>3. QED
    BY <2>1, <2>2, SumOverAll DEF Total
<1>4. ASSUME NEW S \in SUBSET U
      PROVE  /\ SumOver(f, S) \in Int /\ SumOver(g, S) \in Int
             /\ SumOver(Weights(H), S) \in Int /\ SumOver(Weights(H), S) =< Total(H)
             /\ w \notin S => SumOver(g, S) = SumOver(f, S) + SumOver(Weights(H), S)
             /\ w \in S => SumOver(g, S) = SumOver(f, S) + SumOver(Weights(H), S) - Total(H)
             /\ 2 * SumOver(f, S) =< Most(Cardinality(S))
             /\ IsFiniteSet(S) /\ Cardinality(S) \in Nat /\ Most(Cardinality(S)) \in Int
  <2>1. SumOver(f, S) \in Int /\ SumOver(Weights(H), S) \in Int
    BY <1>3, SumOverType
  <2>2. SumOver(g, S) \in Int
    <3> HIDE DEF g
    <3>1. QED
      BY <1>2, SumOverType
  <2>3. SumOver(Weights(H), S) =< Total(H)
    BY <1>1, <1>3, SumOverMore
  <2>4. /\ w \notin S => SumOver(g, S) = SumOver(f, S) + SumOver(Weights(H), S)
        /\ w \in S => SumOver(g, S) = SumOver(f, S) + SumOver(Weights(H), S) - Total(H)
    BY <1>1, ChargedOver
  <2>5. 2 * SumOver(f, S) =< Most(Cardinality(S))
    BY DEF Balanced
  <2>6. IsFiniteSet(S) /\ Cardinality(S) \in Nat
    BY <1>1, FS_Subset, FS_CardinalityType
  <2>7. Most(Cardinality(S)) \in Int
    <3> HIDE DEF n
    <3>1. QED
      BY <1>1, <2>6
  <2>8. QED
    BY <2>1, <2>2, <2>3, <2>4, <2>5, <2>6, <2>7
<1>5. SUFFICES Bad = {}
  BY DEF Balanced
<1>6. SUFFICES ASSUME Bad # {} PROVE FALSE
  OBVIOUS
<1>7. PICK S \in Bad : \A R \in Bad : R \subseteq S => R = S
  <2>1. Bad \subseteq SUBSET U
    OBVIOUS
  <2> HIDE DEF Bad
  <2>2. QED
    BY <1>1, <1>6, <2>1, LeastSubset
<1>8. S \in SUBSET U /\ ~(2 * SumOver(g, S) =< Most(Cardinality(S)))
  BY <1>7
<1> DEFINE k == Cardinality(S)
<1>9. k \in Nat /\ Most(k) \in Int /\ IsFiniteSet(S)
  BY <1>4, <1>8
<1>10. CASE w \in S
  <2>1. /\ SumOver(g, S) = SumOver(f, S) + SumOver(Weights(H), S) - Total(H)
        /\ SumOver(Weights(H), S) =< Total(H) /\ 2 * SumOver(f, S) =< Most(k)
        /\ SumOver(f, S) \in Int /\ SumOver(Weights(H), S) \in Int
    BY <1>4, <1>8, <1>10
  <2> HIDE DEF g, w, Most
  <2>2. QED
    BY <1>2, <1>8, <1>9, <2>1
<1>11. CASE S \cap H = {}
  <2>1. w \notin S
    BY <1>2, <1>11
  <2>2. \A b \in Backends \cap S : Weights(H)[b] = 0
    BY <1>11 DEF Weights
  <2>3. SumOver(Weights(H), S) = 0
    BY <2>2, SumOverNone
  <2>4. /\ SumOver(g, S) = SumOver(f, S) + SumOver(Weights(H), S)
        /\ SumOver(f, S) \in Int /\ 2 * SumOver(f, S) =< Most(k)
    BY <1>4, <1>8, <2>1
  <2> HIDE DEF g, w, Most
  <2>5. QED
    BY <1>8, <2>3, <2>4
<1>12. ASSUME w \notin S, NEW b \in S \cap H PROVE FALSE
  <2> DEFINE R == S \ {b}
             V == S \cup {w}
  <2>1. b \in Backends /\ b # w /\ R \in SUBSET U /\ V \in SUBSET U /\ w \notin R /\ w \in V
    BY <1>1, <1>2, <1>8, <1>12
  <2>2. Cardinality(R) = k - 1 /\ Cardinality(V) = k + 1
    BY <1>9, <1>12, FS_RemoveElement, FS_AddElement
  <2>3. 2 * SumOver(g, R) =< Most(k - 1)
    <3>1. R \notin Bad
      <4>1. R \subseteq S /\ R # S
        BY <1>12
      <4> HIDE DEF Bad, R
      <4>2. QED
        BY <4>1, <1>7
    <3>2. 2 * SumOver(g, R) =< Most(Cardinality(R))
      <4> HIDE DEF Most, R, g
      <4>1. QED
        BY <2>1, <3>1
    <3>3. QED
      BY <2>2, <3>2
  <2>4. SumOver(g, S) = SumOver(g, R) + g[b]
    <3>1. SumOver(g, R \cup {b}) = SumOver(g, R) + SumOver(g, {b})
      <4> HIDE DEF g
      <4>1. R \cap {b} = {}
        OBVIOUS
      <4> HIDE DEF R
      <4>2. QED
        BY <1>2, <4>1, SumOverTwo
    <3>2. R \cup {b} = S
      BY <1>12
    <3>3. SumOver(g, {b}) = g[b]
      <4> HIDE DEF g
      <4>1. QED
        BY <1>2, <2>1, SumOverOne
    <3>4. QED
      BY <3>1, <3>2, <3>3
  <2>5. SumOver(g, V) = SumOver(g, S) + g[w]
    <3>1. SumOver(g, S \cup {w}) = SumOver(g, S) + SumOver(g, {w})
      <4> HIDE DEF g, w
      <4>1. S \cap {w} = {}
        BY <1>12
      <4>2. QED
        BY <1>2, <4>1, SumOverTwo
    <3>2. SumOver(g, {w}) = g[w]
      <4> HIDE DEF g, w
      <4>1. QED
        BY <1>2, SumOverOne
    <3>3. QED
      BY <3>1, <3>2
  <2>6. g[b] = s[b] /\ g[w] = s[w] - Total(H) /\ s[b] \in Int /\ s[w] \in Int
    <3>1. Paid(H, w)[b] = 0 /\ Paid(H, w)[w] = -Total(H)
      <4> HIDE DEF w
      <4>1. QED
        BY <1>2, <2>1 DEF Paid
    <3> HIDE DEF g, w, s
    <3>2. QED
      BY <1>2, <2>1, <3>1
  <2>7. s[b] =< s[w]
    BY <1>1, <1>12, WinnerIsHighest
  <2>8. /\ SumOver(g, V) = SumOver(f, V) + SumOver(Weights(H), V) - Total(H)
        /\ SumOver(Weights(H), V) =< Total(H) /\ SumOver(f, V) \in Int
        /\ SumOver(Weights(H), V) \in Int /\ 2 * SumOver(f, V) =< Most(Cardinality(V))
        /\ Most(Cardinality(V)) \in Int
    <3> HIDE DEF V, Most, g, w
    <3>1. QED
      BY <1>4, <2>1
  <2>9. SumOver(g, R) \in Int /\ SumOver(g, S) \in Int /\ Most(Cardinality(R)) \in Int
    <3> HIDE DEF R, Most, g, w
    <3>1. QED
      BY <1>4, <1>8, <2>1
  <2>10. Most(k - 1) \in Int /\ Most(k + 1) \in Int /\ 2 * SumOver(f, V) =< Most(k + 1)
    <3> HIDE DEF R, V, Most, g, w
    <3>1. QED
      BY <2>2, <2>8, <2>9
  <2>11. Most(k + 1) + Most(k - 1) + 2 * round = 2 * Most(k)
    <3> HIDE DEF k, n
    <3>1. QED
      BY <1>1, <1>9, Parabola
  <2>12. \A x, y, z, a, c, tot, m0, m1, m2, wt \in Int :
           /\ z = x + a                          \* S is R and b
           /\ y + wt - tot = z + (c - tot)       \* V is S and w
           /\ a =< c /\ wt =< tot /\ tot =< round
           /\ 2 * x =< m0 /\ 2 * y =< m2 /\ m2 + m0 + 2 * round = 2 * m1
           => 2 * z =< m1
    OBVIOUS
  <2> HIDE DEF g, s, w, Most, k, R, V
  <2>13. /\ SumOver(g, S) = SumOver(g, R) + s[b]
         /\ SumOver(f, V) + SumOver(Weights(H), V) - Total(H) = SumOver(g, S) + (s[w] - Total(H))
    BY <2>4, <2>5, <2>6, <2>8
  <2>14. 2 * SumOver(g, S) =< Most(k)
    BY <1>2, <1>9, <2>3, <2>6, <2>7, <2>8, <2>9, <2>10, <2>11, <2>12, <2>13
  <2>15. QED
    BY <1>8, <2>14 DEF k
<1>13. QED
  BY <1>10, <1>11, <1>12

(* A balanced set whose weights sum up to 0 has none that is far from 0.    *)
LEMMA BalancedIsBounded ==
  ASSUME NEW f \in [Backends -> Int], NEW U \in SUBSET Backends, NEW b \in U,
         NEW round \in Int, Balanced(f, U, round), SumOver(f, U) = 0
  PROVE  /\ -((Cardinality(U) - 1) * round) =< 2 * f[b]
         /\ 2 * f[b] =< (Cardinality(U) - 1) * round
<1> DEFINE n == Cardinality(U)
           R == U \ {b}
<1>1. b \in Backends /\ f[b] \in Int
  OBVIOUS
<1>2. IsFiniteSet(U) /\ n \in Nat
  BY ChainFacts, FS_Subset, FS_CardinalityType
<1>3. Cardinality({b}) = 1 /\ Cardinality(R) = n - 1
  BY <1>2, FS_Singleton, FS_RemoveElement
<1>4. SumOver(f, {b}) = f[b]
  BY <1>1, SumOverOne
<1>5. SumOver(f, R) + f[b] = 0
  <2>1. SumOver(f, R \cup {b}) = SumOver(f, R) + SumOver(f, {b})
    <3>1. R \cap {b} = {}
      OBVIOUS
    <3> HIDE DEF R
    <3>2. QED
      BY <3>1, SumOverTwo
  <2>2. R \cup {b} = U
    OBVIOUS
  <2>3. QED
    BY <1>4, <2>1, <2>2
<1>6. SumOver(f, R) \in Int
  BY SumOverType
<1>7. 2 * f[b] =< 1 * (n - 1) * round
  <2>1. {b} \in SUBSET U
    OBVIOUS
  <2>2. 2 * SumOver(f, {b}) =< Cardinality({b}) * (n - Cardinality({b})) * round
    BY <2>1 DEF Balanced
  <2> HIDE DEF n
  <2>3. QED
    BY <1>3, <1>4, <2>2
<1>8. 2 * SumOver(f, R) =< (n - 1) * (n - (n - 1)) * round
  <2>1. R \in SUBSET U
    OBVIOUS
  <2>2. 2 * SumOver(f, R) =< Cardinality(R) * (n - Cardinality(R)) * round
    BY <2>1 DEF Balanced
  <2> HIDE DEF n, R
  <2>3. QED
    BY <1>3, <2>2
<1> HIDE DEF n, R
<1>9. n - (n - 1) = 1 /\ 1 * (n - 1) = n - 1 /\ (n - 1) * 1 = n - 1
  BY <1>2
<1>10. (n - 1) * round \in Int
  BY <1>2
<1> DEFINE most == (n - 1) * round
<1>11. most \in Int /\ 2 * f[b] =< most /\ 2 * SumOver(f, R) =< most
  BY <1>7, <1>8, <1>9, <1>10
<1> HIDE DEF most
<1>12. -most =< 2 * f[b]
  BY <1>1, <1>5, <1>6, <1>11
<1>13. QED
  BY <1>11, <1>12 DEF most, n

(* Weights that are all 0 are balanced.                                     *)
LEMMA ZeroIsBalanced ==
  ASSUME NEW f, NEW U \in SUBSET Backends, \A b \in U : f[b] = 0, NEW round \in Nat
  PROVE  Balanced(f, U, round)
<1> SUFFICES ASSUME NEW S \in SUBSET U
             PROVE  2 * SumOver(f, S) =< Cardinality(S) * (Cardinality(U) - Cardinality(S)) * round
  BY DEF Balanced
<1>1. SumOver(f, S) = 0
  BY SumOverNone
<1>2. /\ Cardinality(S) \in Nat /\ Cardinality(U) \in Nat
      /\ Cardinality(S) =< Cardinality(U)
  BY ChainFacts, FS_Subset, FS_CardinalityType
<1>3. \A k, m, n \in Nat : 0 =< (k * m) * n
  OBVIOUS
<1>4. Cardinality(U) - Cardinality(S) \in Nat
  BY <1>2
<1>5. 0 =< (Cardinality(S) * (Cardinality(U) - Cardinality(S))) * round
  BY <1>2, <1>3, <1>4
<1>6. QED
  BY <1>1, <1>5

LEMMA TotalType ==
  ASSUME NEW H \in SUBSET Backends
  PROVE  Total(H) \in Nat /\ Total(H) =< Total(Backends)
<1>1. \A G \in SUBSET Backends : Weights(G) \in [Backends -> Nat]
  BY WeightFacts
<1> DEFINE W == Weights(Backends)
<1>2. W \in [Backends -> Nat] /\ W \in [Backends -> Int]
  BY <1>1
<1>3. Weights(H) = Only(W, H)
  <2>1. \A b \in Backends : Weights(H)[b] = Only(W, H)[b]
    BY DEF Weights, Only
  <2>2. QED
    BY <2>1 DEF Weights, Only
<1>4. Total(H) = SumOver(W, H) /\ Total(Backends) = SumOver(W, Backends)
  <2>1. Total(H) = SumOver(W, H)
    BY <1>3 DEF Total, SumOver
  <2>2. Total(Backends) = SumOver(W, Backends)
    <3>1. Total(Backends) = ChainSum(W)
      BY DEF Total
    <3> HIDE DEF W
    <3>2. QED
      BY <1>2, <3>1, SumOverAll
  <2>3. QED
    BY <2>1, <2>2
<1> HIDE DEF W
<1>5. 0 =< SumOver(W, H) /\ SumOver(W, H) =< SumOver(W, Backends)
  BY <1>2, SumOverMore
<1>6. SumOver(W, H) \in Int
  BY <1>2, SumOverType
<1>7. QED
  BY <1>4, <1>5, <1>6

-----------------------------------------------------------------------------
RotationInv == /\ current \in [Backends -> Int]
               /\ healthy \in (SUBSET Backends) \ {{}}
               /\ CreditConserved
               /\ Balanced(current, Backends, Total(Backends))

LEMMA ZeroIsOut ==
  /\ Zero \in [Backends -> Int] /\ ChainSum(Zero) = 0
  /\ \A U \in SUBSET Backends : Balanced(Zero, U, Total(U))
<1>1. Zero \in [Backends -> Int] /\ ChainSum(Zero) = 0 /\ \A b \in Backends : Zero[b] = 0
  BY ChainSumOfZero DEF Zero
<1>2. ASSUME NEW U \in SUBSET Backends PROVE Balanced(Zero, U, Total(U))
  BY <1>1, TotalType, ZeroIsBalanced
<1>3. QED
  BY <1>1, <1>2

LEMMA RotationStep == RotationInv /\ [Next]_vars => RotationInv'
<1> SUFFICES ASSUME RotationInv, [Next]_vars PROVE RotationInv'
  OBVIOUS
<1>1. CASE SelectWeighted
  <2>1. current' = Charged(current, healthy) /\ healthy' = healthy
    BY <1>1 DEF SelectWeighted
  <2>2. /\ Charged(current, healthy) \in [Backends -> Int]
        /\ ChainSum(Charged(current, healthy)) = ChainSum(current)
    BY PickConserves DEF RotationInv
  <2>3. Balanced(Charged(current, healthy), Backends, Total(Backends))
    <3>1. /\ Total(healthy) =< Total(Backends) /\ Total(Backends) \in Int
          /\ healthy \in SUBSET Backends /\ healthy # {} /\ Backends \in SUBSET Backends
      BY TotalType DEF RotationInv
    <3>2. current \in [Backends -> Int] /\ Balanced(current, Backends, Total(Backends))
      BY DEF RotationInv
    <3>3. QED
      BY <3>1, <3>2, PickKeepsBalance
  <2>4. Balanced(current', Backends, Total(Backends))
    BY <2>1, <2>3
  <2>5. Balanced(current, Backends, Total(Backends))'
    BY <2>4
  <2>6. QED
    BY <2>1, <2>2, <2>5 DEF RotationInv, CreditConserved
<1>2. CASE HealthChanges
  <2>1. current' = current /\ healthy' \in (SUBSET Backends) \ {{}}
    BY <1>2 DEF HealthChanges
  <2>2. QED
    BY <2>1 DEF RotationInv, CreditConserved
<1>3. CASE UNCHANGED vars
  <2>1. current' = current /\ healthy' = healthy
    BY <1>3 DEF vars
  <2>2. QED
    BY <2>1 DEF RotationInv, CreditConserved
<1>4. QED
  BY <1>1, <1>2, <1>3 DEF Next

LEMMA RotationInvariant == Spec => []RotationInv
<1>1. Init => RotationInv
  BY ZeroIsOut DEF Init, RotationInv, CreditConserved
<1>2. QED
  BY <1>1, RotationStep, PTL DEF Spec

(* The running weights always sum up to 0: no pick creates or destroys      *)
(* credit, whatever the chain, its weights, and the sets it selects among.  *)
THEOREM CreditIsConserved == Spec => []CreditConserved
<1>1. RotationInv => CreditConserved
  BY DEF RotationInv
<1>2. QED
  BY <1>1, RotationInvariant, PTL

(* Nor do they drift: however the healthy set changes, each stays within    *)
(* half a round of 0 for each of the other backends of the chain.           *)
THEOREM CreditIsBounded == Spec => []CreditBounded
<1>1. RotationInv => CreditBounded
  <2> SUFFICES ASSUME RotationInv, NEW b \in Backends
               PROVE  LET bound == (Cardinality(Backends) - 1) * Total(Backends)
                      IN  -bound =< 2 * current[b] /\ 2 * current[b] =< bound
    BY DEF CreditBounded
  <2>1. SumOver(current, Backends) = 0
    BY SumOverAll DEF RotationInv, CreditConserved
  <2>2. Total(Backends) \in Int
    BY TotalType
  <2>3. QED
    BY <2>1, <2>2, BalancedIsBounded DEF RotationInv
<1>2. QED
  BY <1>1, RotationInvariant, PTL

(* While the healthy set stays the same, its running weights sum up to 0,   *)
(* and each says how far its backend's picks are from its share of them.    *)
Tally(weights, picked, H) ==
  /\ SumOver(weights, H) = 0
  /\ Balanced(weights, H, Total(H))
  /\ \A b \in H : weights[b] = SumOver(picked, H) * EffectiveWeight(b) - picked[b] * Total(H)

Tallied == Tally(current, shares, healthy)

ShareInv == /\ RotationInv
            /\ shares \in [Backends -> Nat]
            /\ steady \in BOOLEAN
            /\ steady => Tallied

LEMMA EffectiveWeightType == \A b \in Backends : EffectiveWeight(b) \in Int
<1>1. {} \in SUBSET Backends
  OBVIOUS
<1>2. \A b \in Backends : EffectiveWeight(b) \in Nat \ {0}
  BY <1>1, WeightFacts
<1>3. QED
  BY <1>2

LEMMA ZeroTallies ==
  ASSUME NEW H \in SUBSET Backends
  PROVE  Tally(Zero, Zero, H)
<1>1. \A b \in Backends : Zero[b] = 0
  BY DEF Zero
<1>2. SumOver(Zero, H) = 0
  BY <1>1, SumOverNone
<1>3. Balanced(Zero, H, Total(H))
  BY ZeroIsOut
<1>4. ASSUME NEW b \in H
      PROVE  0 = 0 * EffectiveWeight(b) - 0 * Total(H)
  <2>1. EffectiveWeight(b) \in Int /\ Total(H) \in Int
    BY EffectiveWeightType, TotalType
  <2>2. QED
    BY <2>1
<1>5. QED
  BY <1>1, <1>2, <1>3, <1>4 DEF Tally

(* A pick that is counted.                                                  *)
LEMMA PickIsTallied ==
  ASSUME RotationInv, Tallied, shares \in [Backends -> Nat],
         NEW w, w = Winner(current, healthy),
         current' = Charged(current, healthy), healthy' = healthy,
         shares' = [shares EXCEPT ![w] = @ + 1]
  PROVE  Tallied'
<1> DEFINE H == healthy
           round == Total(H)
           picks == SumOver(shares, H)
           new == [shares EXCEPT ![w] = @ + 1]
           g == Charged(current, H)
<1>1. H \in SUBSET Backends /\ H # {} /\ current \in [Backends -> Int]
  BY DEF RotationInv
<1>2. /\ w \in H /\ w \in Backends /\ round \in Int
      /\ Paid(H, w) \in [Backends -> Int]
      /\ g = [b \in Backends |-> Credited(current, H)[b] + Paid(H, w)[b]]
  BY <1>1, ChargedIs
<1>3. SumOver(g, H) = 0
  <2>1. SumOver(g, H) = SumOver(current, H) + SumOver(Weights(H), H) - round
    BY <1>1, <1>2, ChargedOver
  <2>2. SumOver(Weights(H), H) = round
    <3>1. Only(Weights(H), H) = Weights(H)
      BY DEF Only, Weights
    <3>2. QED
      BY <3>1 DEF SumOver, Total
  <2>3. SumOver(current, H) = 0
    BY DEF Tallied, Tally
  <2>4. QED
    BY <1>2, <2>1, <2>2, <2>3
<1>4. Balanced(g, H, round)
  <2>1. Balanced(current, H, round) /\ H \in SUBSET H /\ round =< round
    BY <1>2 DEF Tallied, Tally
  <2> HIDE DEF H, round
  <2>2. QED
    BY <1>1, <1>2, <2>1, PickKeepsBalance DEF round
<1>5. picks \in Int /\ shares \in [Backends -> Int] /\ new \in [Backends -> Int]
  <2>1. shares \in [Backends -> Int] /\ new \in [Backends -> Int]
    BY <1>2
  <2>2. QED
    BY <2>1, SumOverType
<1>6. SumOver(new, H) = picks + 1
  <2> DEFINE one == [b \in Backends |-> IF b = w THEN 1 ELSE 0]
  <2>1. one \in [Backends -> Int]
    OBVIOUS
  <2>2. new = [b \in Backends |-> shares[b] + one[b]]
    <3>1. ASSUME NEW b \in Backends PROVE new[b] = shares[b] + one[b]
      OBVIOUS
    <3>2. QED
      BY <3>1, <1>5
  <2>3. SumOver(one, H) = 1
    <3>1. Only(one, H) = one
      BY <1>2 DEF Only
    <3>2. ChainSum(one) = 1
      BY <1>2, ChainSumOfOne
    <3>3. QED
      BY <3>1, <3>2 DEF SumOver
  <2> HIDE DEF new, one
  <2>4. SumOver([b \in Backends |-> shares[b] + one[b]], H) = picks + SumOver(one, H)
    BY <1>5, <2>1, SumOverAdds
  <2>5. QED
    BY <2>2, <2>3, <2>4
<1>7. ASSUME NEW b \in H
      PROVE  g[b] = (picks + 1) * EffectiveWeight(b) - new[b] * round
  <2>1. current[b] = picks * EffectiveWeight(b) - shares[b] * round
    BY DEF Tallied, Tally
  <2>2. b \in Backends /\ EffectiveWeight(b) \in Int /\ shares[b] \in Int /\ current[b] \in Int
    <3>1. b \in Backends
      BY <1>1
    <3>2. EffectiveWeight(b) \in Int
      BY <3>1, EffectiveWeightType
    <3>3. current[b] \in Int
      BY <1>1, <3>1
    <3> HIDE DEF new, g, picks, round, H
    <3>4. shares[b] \in Int
      BY <1>5, <3>1
    <3>5. QED
      BY <3>1, <3>2, <3>3, <3>4
  <2>3. Credited(current, H)[b] = current[b] + EffectiveWeight(b)
    BY <2>2 DEF Credited, Weights
  <2>4. g[b] = current[b] + EffectiveWeight(b) + Paid(H, w)[b]
    BY <1>2, <2>2, <2>3
  <2>5. \A p, e, n, r \in Int : /\ (p * e - n * r) + e + 0 = (p + 1) * e - n * r
                                /\ (p * e - n * r) + e + (-r) = (p + 1) * e - (n + 1) * r
    OBVIOUS
  <2>6. CASE b = w
    <3>1. Paid(H, w)[b] = -round /\ new[b] = shares[b] + 1
      BY <2>2, <2>6 DEF Paid
    <3> HIDE DEF new, g, picks, round
    <3>2. QED
      BY <1>2, <1>5, <2>1, <2>2, <2>4, <2>5, <3>1
  <2>7. CASE b # w
    <3>1. Paid(H, w)[b] = 0 /\ new[b] = shares[b]
      BY <2>2, <2>7 DEF Paid
    <3> HIDE DEF new, g, picks, round
    <3>2. QED
      BY <1>2, <1>5, <2>1, <2>2, <2>4, <2>5, <3>1
  <2>8. QED
    BY <2>6, <2>7
<1>8. current' = g /\ shares' = new /\ healthy' = H
  OBVIOUS
<1> HIDE DEF g, new, H
<1>9. Tally(g, new, H)
  BY <1>3, <1>4, <1>6, <1>7 DEF Tally
<1>10. QED
  BY <1>8, <1>9 DEF Tallied

LEMMA ShareStep == ShareInv /\ [Next]_vars => ShareInv'
<1> SUFFICES ASSUME ShareInv, [Next]_vars PROVE ShareInv'
  OBVIOUS
<1>1. RotationInv'
  BY RotationStep DEF ShareInv
<1>2. Zero \in [Backends -> Nat]
  BY DEF Zero
<1>3. CASE SelectWeighted
  <2>1. /\ current' = Charged(current, healthy) /\ healthy' = healthy /\ steady' = steady
        /\ steady \in BOOLEAN /\ shares \in [Backends -> Nat] /\ RotationInv
    BY <1>3 DEF SelectWeighted, ShareInv
  <2>2. CASE ~steady \/ current' = Zero
    <3>1. shares' = Zero
      BY <1>3, <2>2 DEF SelectWeighted
    <3>2. steady' => Tallied'
      <4>1. healthy' \in SUBSET Backends
        BY <2>1 DEF RotationInv
      <4>2. current' = Zero => Tallied'
        BY <3>1, <4>1, ZeroTallies DEF Tallied
      <4>3. QED
        BY <2>1, <2>2, <4>2
    <3>3. QED
      BY <1>1, <1>2, <2>1, <3>1, <3>2 DEF ShareInv
  <2>3. CASE steady /\ current' # Zero
    <3> DEFINE w == Winner(current, healthy)
    <3>1. shares' = [shares EXCEPT ![w] = @ + 1]
      BY <1>3, <2>3 DEF SelectWeighted
    <3>2. Tallied
      BY <2>3 DEF ShareInv
    <3> HIDE DEF w
    <3>3. w = Winner(current, healthy)
      BY DEF w
    <3>4. Tallied'
      BY <2>1, <3>1, <3>2, <3>3, PickIsTallied
    <3>5. shares' \in [Backends -> Nat]
      <4>1. w \in Backends
        BY <2>1, <3>3, WinnerIsHealthy DEF RotationInv
      <4>2. QED
        BY <2>1, <3>1, <4>1
    <3>6. QED
      BY <1>1, <2>1, <3>4, <3>5 DEF ShareInv
  <2>4. QED
    BY <2>2, <2>3
<1>4. CASE HealthChanges
  <2>1. /\ healthy' \in SUBSET Backends /\ current' = current
        /\ shares' = Zero /\ steady' = (current = Zero)
    BY <1>4 DEF HealthChanges
  <2>2. current' = Zero => Tallied'
    BY <2>1, ZeroTallies DEF Tallied
  <2>3. QED
    BY <1>1, <1>2, <2>1, <2>2 DEF ShareInv
<1>5. CASE UNCHANGED vars
  <2>1. current' = current /\ healthy' = healthy /\ steady' = steady /\ shares' = shares
    BY <1>5 DEF vars
  <2>2. Tallied' <=> Tallied
    BY <2>1 DEF Tallied
  <2>3. QED
    BY <1>1, <2>1, <2>2 DEF ShareInv
<1>6. QED
  BY <1>3, <1>4, <1>5 DEF Next

(* The rotation is fair, whatever the chain and its weights: as long as the *)
(* healthy set stays the same, every backend has had its share of the picks *)
(* at any time, but for half a pick for each of the other healthy ones.     *)
THEOREM RotationIsFair == Spec => []FairShare
<1>1. Init => ShareInv
  <2> SUFFICES ASSUME Init PROVE ShareInv
    OBVIOUS
  <2>1. /\ current = Zero /\ shares = Zero /\ steady = TRUE
        /\ healthy \in SUBSET Backends /\ healthy # {}
    BY DEF Init
  <2>2. Tallied
    BY <2>1, ZeroTallies DEF Tallied
  <2>3. RotationInv
    BY <2>1, ZeroIsOut DEF RotationInv, CreditConserved
  <2>4. Zero \in [Backends -> Nat]
    BY DEF Zero
  <2>5. QED
    BY <2>1, <2>2, <2>3, <2>4 DEF ShareInv
<1>2. ShareInv => FairShare
  <2> SUFFICES ASSUME ShareInv, steady, NEW b \in healthy
               PROVE  LET picks == SumOver(shares, healthy)
                          skew == shares[b] * Total(healthy) - picks * EffectiveWeight(b)
                          bound == (Cardinality(healthy) - 1) * Total(healthy)
                      IN  -bound =< 2 * skew /\ 2 * skew =< bound
    BY DEF FairShare, SumOver, Only
  <2> DEFINE paid == shares[b] * Total(healthy)
             due == SumOver(shares, healthy) * EffectiveWeight(b)
             bound == (Cardinality(healthy) - 1) * Total(healthy)
  <2>1. /\ healthy \in SUBSET Backends /\ current \in [Backends -> Int]
        /\ shares \in [Backends -> Int] /\ b \in Backends
    BY DEF ShareInv, RotationInv
  <2>2. Total(healthy) \in Int /\ EffectiveWeight(b) \in Int /\ SumOver(shares, healthy) \in Int
    BY <2>1, TotalType, EffectiveWeightType, SumOverType
  <2>3. IsFiniteSet(healthy) /\ Cardinality(healthy) \in Int
    BY <2>1, ChainFacts, FS_Subset, FS_CardinalityType
  <2>4. paid \in Int /\ due \in Int /\ bound \in Int
    BY <2>1, <2>2, <2>3
  <2>5. Tallied
    BY DEF ShareInv
  <2>6. current[b] = due - paid
    BY <2>5 DEF Tallied, Tally
  <2>7. -bound =< 2 * current[b] /\ 2 * current[b] =< bound
    <3>1. Balanced(current, healthy, Total(healthy)) /\ SumOver(current, healthy) = 0
      BY <2>5 DEF Tallied, Tally
    <3>2. QED
      BY <2>1, <2>2, <3>1, BalancedIsBounded
  <2> HIDE DEF paid, due, bound
  <2>8. -bound =< 2 * (paid - due) /\ 2 * (paid - due) =< bound
    BY <2>4, <2>6, <2>7
  <2>9. QED
    BY <2>8 DEF paid, due, bound
<1>3. QED
  BY <1>1, <1>2, ShareStep, PTL DEF Spec
=============================================================================
