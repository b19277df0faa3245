-------------------------- MODULE SmoothWeightedProofs --------------------------
(***************************************************************************)
(* What select_weighted does for any chain, any weights and any healthy    *)
(* set: there is a winner and it is healthy, and the running weights sum   *)
(* up to what they did before.  Facts about every finite chain are proved  *)
(* by looking at a least counterexample.                                   *)
(***************************************************************************)
EXTENDS SmoothWeighted, FiniteSetTheorems, WellFoundedInduction, TLAPS

(* Of finitely many subsets of a finite set one contains no other.          *)
LEMMA LeastSubset ==
  ASSUME NEW S, IsFiniteSet(S), NEW T, T \subseteq SUBSET S, T # {}
  PROVE  \E X \in T : \A Y \in T : Y \subseteq X => Y = X
<1> DEFINE R == StrictSubsetOrdering(S)
<1>1. \A X \in T : IsFiniteSet(X)
  BY FS_Subset
<1>2. T \subseteq FiniteSubsetsOf(S)
  BY <1>1 DEF FiniteSubsetsOf
<1>3. PICK X \in T : \A Y \in T : ~(<<Y, X>> \in R)
  <2>1. IsWellFoundedOn(R, FiniteSubsetsOf(S))
    BY FS_StrictSubsetOrderingWellFounded
  <2> HIDE DEF R
  <2>2. QED
    BY <2>1, <1>2, WFMin
<1>4. QED
  BY <1>3 DEF StrictSubsetOrdering

(* A set of numbers has a least one.                                        *)
LEMMA LeastNumber ==
  ASSUME NEW S \in SUBSET Nat, S # {}
  PROVE  \E n \in S : \A m \in S : n =< m
<1>1. PICK k \in S : TRUE
  OBVIOUS
<1> DEFINE All == 0..k
           T == {0..j : j \in {i \in S : i =< k}}
<1>2. IsFiniteSet(All)
  BY <1>1, FS_Interval
<1>3. PICK X \in T : \A Y \in T : Y \subseteq X => Y = X
  <2>1. T \subseteq SUBSET All
    BY <1>1
  <2>2. 0..k \in T
    BY <1>1
  <2>3. T # {}
    BY <2>2
  <2> HIDE DEF T, All
  <2>4. QED
    BY <1>2, <2>1, <2>3, LeastSubset
<1>4. PICK n \in S : n =< k /\ X = 0..n
  OBVIOUS
<1>5. ASSUME NEW m \in S, m < n PROVE FALSE
  <2>1. 0..m \in T /\ 0..m \subseteq 0..n
    BY <1>4, <1>5
  <2>2. 0..m = 0..n
    BY <2>1, <1>3, <1>4
  <2>3. n \in 0..n /\ n \notin 0..m
    BY <1>5
  <2>4. QED
    BY <2>2, <2>3
<1>6. QED
  BY <1>5

-----------------------------------------------------------------------------
(* A backend has one position in the chain.                                 *)
LEMMA ChainFacts ==
  /\ Len(Chain) \in Nat
  /\ \A i \in 1..Len(Chain) : Chain[i] \in Backends
  /\ \A b \in Backends : Position(b) \in 1..Len(Chain) /\ Chain[Position(b)] = b
  /\ \A b, c \in Backends : Position(b) = Position(c) => b = c
  /\ \A i \in 1..Len(Chain) : Position(Chain[i]) = i
  /\ IsFiniteSet(Backends)
<1>1. Len(Chain) \in Nat /\ DOMAIN Chain = 1..Len(Chain)
  BY ChainAssumption
<1>2. \A i \in 1..Len(Chain) : Chain[i] \in Backends
  BY <1>1 DEF Backends, Range
<1>3. ASSUME NEW b \in Backends
      PROVE  Position(b) \in 1..Len(Chain) /\ Chain[Position(b)] = b
  <2>1. PICK i \in DOMAIN Chain : Chain[i] = b
    BY DEF Backends, Range
  <2>2. QED
    BY <2>1, <1>1 DEF Position
<1>4. \A b, c \in Backends : Position(b) = Position(c) => b = c
  BY <1>3
<1>5. \A i \in 1..Len(Chain) : Position(Chain[i]) = i
  BY <1>1, <1>2, <1>3, ChainAssumption DEF IsInjective
<1>6. IsFiniteSet(Backends)
  <2>1. IsFiniteSet(DOMAIN Chain)
    BY <1>1, FS_Interval
  <2>2. Chain \in Surjection(DOMAIN Chain, Backends)
    <3>1. Chain \in [DOMAIN Chain -> Backends]
      BY <1>1, <1>2, ChainAssumption
    <3>2. \A b \in Backends : \E i \in DOMAIN Chain : Chain[i] = b
      BY DEF Backends, Range
    <3>3. QED
      BY <3>1, <3>2 DEF Surjection
  <2>3. QED
    BY <2>1, <2>2, FS_Surjection
<1>7. QED
  BY <1>1, <1>2, <1>3, <1>4, <1>5, <1>6

LEMMA WeightFacts ==
  ASSUME NEW H \in SUBSET Backends
  PROVE  /\ Weights(H) \in [Backends -> Nat]
         /\ \A b \in Backends : EffectiveWeight(b) \in Nat \ {0}
<1>1. \A b \in Backends : EffectiveWeight(b) \in Nat \ {0}
  BY ChainAssumption DEF EffectiveWeight
<1>2. QED
  BY <1>1 DEF Weights

-----------------------------------------------------------------------------
Beats(score, b, c) ==
  score[c] < score[b] \/ (score[c] = score[b] /\ Position(b) < Position(c))

(* The scan for the highest running weight finds one, and only one: ties    *)
(* are decided by the position in the chain.                                *)
LEMMA SomeBackendBeatsAll ==
  ASSUME NEW H \in SUBSET Backends, H # {}, NEW score \in [Backends -> Int]
  PROVE  \E b \in H : \A c \in H \ {b} : Beats(score, b, c)
<1> DEFINE Best(X) == \E b \in X : \A c \in X \ {b} : Beats(score, b, c)
           T == {X \in SUBSET H : X # {} /\ ~Best(X)}
<1>1. SUFFICES ASSUME T # {} PROVE FALSE
  BY DEF Beats
<1>2. IsFiniteSet(H)
  BY ChainFacts, FS_Subset
<1>3. PICK X \in T : \A Y \in T : Y \subseteq X => Y = X
  <2>1. T \subseteq SUBSET H
    OBVIOUS
  <2> HIDE DEF T
  <2>2. QED
    BY <1>1, <1>2, <2>1, LeastSubset
<1>4. PICK x \in X : TRUE
  BY <1>3
<1>5. X \ {x} # {}
  BY <1>3, <1>4
<1>6. Best(X \ {x})
  <2>1. X \ {x} \in SUBSET H /\ X \ {x} \subseteq X /\ X \ {x} # X
    BY <1>3, <1>4
  <2>2. X \ {x} \notin T
    BY <2>1, <1>3
  <2> HIDE DEF Best
  <2>3. QED
    BY <2>1, <2>2, <1>5
<1>7. PICK m \in X \ {x} : \A c \in X \ {x, m} : Beats(score, m, c)
  BY <1>6
<1>8. x \in Backends /\ m \in Backends /\ m # x /\ \A c \in X : c \in Backends
  BY <1>3, <1>4, <1>7
<1>9. \A b \in Backends : score[b] \in Int /\ Position(b) \in Int
  BY ChainFacts
<1>10. Beats(score, x, m) \/ Beats(score, m, x)
  <2>1. Position(x) # Position(m)
    BY <1>8, ChainFacts
  <2>2. /\ score[x] \in Int /\ score[m] \in Int
        /\ Position(x) \in Int /\ Position(m) \in Int
    BY <1>8, <1>9
  <2>3. QED
    BY <2>1, <2>2 DEF Beats
<1>11. CASE Beats(score, m, x)
  <2>1. \A c \in X \ {m} : Beats(score, m, c)
    BY <1>7, <1>11
  <2>2. QED
    BY <2>1, <1>3, <1>7
<1>12. CASE Beats(score, x, m)
  <2>1. ASSUME NEW c \in X \ {x} PROVE Beats(score, x, c)
    <3>1. c = m \/ Beats(score, m, c)
      BY <1>7
    <3>2. QED
      BY <3>1, <1>8, <1>9, <1>12 DEF Beats
  <2>2. QED
    BY <2>1, <1>3, <1>4
<1>13. QED
  BY <1>10, <1>11, <1>12

LEMMA CreditedType ==
  ASSUME NEW current \in [Backends -> Int], NEW H \in SUBSET Backends
  PROVE  Credited(current, H) \in [Backends -> Int]
BY WeightFacts DEF Credited

(* The backend picked is one of the healthy ones.                           *)
LEMMA WinnerIsHealthy ==
  ASSUME NEW current \in [Backends -> Int], NEW H \in SUBSET Backends, H # {}
  PROVE  Winner(current, H) \in H
<1> DEFINE score == Credited(current, H)
<1>1. \E b \in H : \A c \in H \ {b} : Beats(score, b, c)
  <2>1. score \in [Backends -> Int]
    BY CreditedType
  <2> HIDE DEF score
  <2>2. QED
    BY <2>1, SomeBackendBeatsAll
<1>2. QED
  BY <1>1 DEF Winner, Beats

-----------------------------------------------------------------------------
(* PartialSums(f) is what its recursion says.                               *)
AreSums(g, f, n) == /\ g \in [0..n -> Int]
                    /\ g[0] = 0
                    /\ \A i \in 1..n : g[i] = g[i - 1] + f[Chain[i]]

LEMMA SumsExist ==
  ASSUME NEW f \in [Backends -> Int], NEW k \in 0..Len(Chain)
  PROVE  \E g : AreSums(g, f, k)
<1> DEFINE Bad == {n \in Nat : n =< Len(Chain) /\ ~\E g : AreSums(g, f, n)}
<1>1. SUFFICES ASSUME Bad # {} PROVE FALSE
  BY ChainFacts
<1>2. PICK n \in Bad : \A m \in Bad : n =< m
  <2>1. Bad \in SUBSET Nat
    OBVIOUS
  <2> HIDE DEF Bad
  <2>2. QED
    BY <1>1, <2>1, LeastNumber
<1>3. CASE n = 0
  <2>1. AreSums([i \in 0..0 |-> 0], f, 0)
    BY DEF AreSums
  <2>2. QED
    BY <1>2, <1>3, <2>1
<1>4. CASE n # 0
  <2>1. n - 1 \in Nat /\ n - 1 =< Len(Chain) /\ n - 1 \notin Bad
    BY <1>2, <1>4, ChainFacts
  <2>2. PICK g : AreSums(g, f, n - 1)
    BY <2>1
  <2> DEFINE next == g[n - 1] + f[Chain[n]]
             h == [i \in 0..n |-> IF i = n THEN next ELSE g[i]]
  <2>3. next \in Int
    <3>1. Chain[n] \in Backends
      BY <1>2, <1>4, ChainFacts
    <3>2. g[n - 1] \in Int
      BY <2>1, <2>2 DEF AreSums
    <3>3. QED
      BY <3>1, <3>2
  <2>4. h \in [0..n -> Int] /\ h[0] = 0
    BY <1>2, <1>4, <2>1, <2>2, <2>3 DEF AreSums
  <2>5. ASSUME NEW i \in 1..n PROVE h[i] = h[i - 1] + f[Chain[i]]
    <3>1. CASE i = n
      BY <1>2, <1>4, <3>1
    <3>2. CASE i # n
      <4>1. i \in 1..(n - 1) /\ i - 1 \in 0..(n - 1) /\ i - 1 # n
        BY <1>2, <3>2
      <4>2. g[i] = g[i - 1] + f[Chain[i]]
        BY <2>2, <4>1 DEF AreSums
      <4>3. h[i] = g[i] /\ h[i - 1] = g[i - 1]
        BY <1>2, <3>2, <4>1
      <4>4. QED
        BY <4>2, <4>3
    <3>3. QED
      BY <3>1, <3>2
  <2>6. AreSums(h, f, n)
    BY <2>4, <2>5 DEF AreSums
  <2>7. QED
    BY <1>2, <2>6
<1>5. QED
  BY <1>3, <1>4

LEMMA PartialSumsAreSums ==
  ASSUME NEW f \in [Backends -> Int]
  PROVE  AreSums(PartialSums(f), f, Len(Chain))
<1> DEFINE L == Len(Chain)
           Step(h) == [i \in 0..L |-> IF i = 0 THEN 0 ELSE h[i - 1] + f[Chain[i]]]
<1>1. L \in Nat
  BY ChainFacts
<1>2. PICK g : AreSums(g, f, L)
  <2>1. L \in 0..L
    BY <1>1
  <2>2. QED
    BY <2>1, SumsExist
<1>3. g = Step(g)
  <2>1. DOMAIN g = 0..L /\ g = [i \in 0..L |-> g[i]]
    BY <1>2 DEF AreSums
  <2>2. ASSUME NEW i \in 0..L
        PROVE  g[i] = IF i = 0 THEN 0 ELSE g[i - 1] + f[Chain[i]]
    BY <1>1, <1>2 DEF AreSums
  <2>3. QED
    BY <2>1, <2>2
<1>4. PartialSums(f) = CHOOSE h : h = Step(h)
  BY DEF PartialSums
<1>5. PartialSums(f) = Step(PartialSums(f))
  <2> HIDE DEF Step
  <2>1. QED
    BY <1>3, <1>4
<1> DEFINE p == PartialSums(f)
           Bad == {i \in Nat : i =< L /\ p[i] # g[i]}
<1> HIDE DEF p
<1>6. p = Step(p)
  BY <1>5 DEF p
<1>7. /\ DOMAIN p = 0..L
      /\ p[0] = 0
      /\ \A i \in 1..L : p[i] = p[i - 1] + f[Chain[i]]
  <2>1. ASSUME NEW i \in 0..L
        PROVE  p[i] = IF i = 0 THEN 0 ELSE p[i - 1] + f[Chain[i]]
    BY <1>6
  <2>2. DOMAIN p = 0..L
    BY <1>6
  <2>3. QED
    BY <1>1, <2>1, <2>2
<1>8. Bad = {}
  <2> SUFFICES ASSUME Bad # {} PROVE FALSE
    OBVIOUS
  <2>1. PICK n \in Bad : \A m \in Bad : n =< m
    <3>1. Bad \in SUBSET Nat
      OBVIOUS
    <3> HIDE DEF Bad
    <3>2. QED
      BY <3>1, LeastNumber
  <2>2. n # 0
    BY <1>2, <1>7, <2>1 DEF AreSums
  <2>3. n \in 1..L /\ n - 1 \in Nat /\ n - 1 =< L /\ n - 1 \notin Bad
    BY <1>1, <2>1, <2>2
  <2>4. p[n - 1] = g[n - 1]
    BY <2>3
  <2>5. p[n] = g[n]
    BY <1>2, <1>7, <2>3, <2>4 DEF AreSums
  <2>6. QED
    BY <2>1, <2>5
<1>9. p = g
  <2>1. \A i \in 0..L : p[i] = g[i]
    BY <1>8
  <2>2. p = [i \in 0..L |-> p[i]] /\ g = [i \in 0..L |-> g[i]]
    BY <1>2, <1>6 DEF AreSums
  <2>3. QED
    BY <2>1, <2>2
<1>10. QED
  BY <1>2, <1>9 DEF p

-----------------------------------------------------------------------------
(* A sum over the chain is a number; sums add up; a number that only one    *)
(* backend has is the sum.                                                  *)
LEMMA ChainSumType ==
  ASSUME NEW f \in [Backends -> Int]
  PROVE  ChainSum(f) \in Int
BY PartialSumsAreSums, ChainFacts DEF AreSums, ChainSum

LEMMA ChainSumAdds ==
  ASSUME NEW f \in [Backends -> Int], NEW g \in [Backends -> Int]
  PROVE  ChainSum([b \in Backends |-> f[b] + g[b]]) = ChainSum(f) + ChainSum(g)
<1> DEFINE L == Len(Chain)
           h == [b \in Backends |-> f[b] + g[b]]
           F == PartialSums(f)
           G == PartialSums(g)
           K == PartialSums(h)
           Bad == {i \in Nat : i =< L /\ K[i] # F[i] + G[i]}
<1>1. L \in Nat /\ \A i \in 1..L : Chain[i] \in Backends
  BY ChainFacts
<1>2. h \in [Backends -> Int]
  OBVIOUS
<1>3. AreSums(F, f, L) /\ AreSums(G, g, L) /\ AreSums(K, h, L)
  <2> HIDE DEF h
  <2>1. QED
    BY <1>2, PartialSumsAreSums
<1> HIDE DEF F, G, K
<1>4. Bad = {}
  <2> SUFFICES ASSUME Bad # {} PROVE FALSE
    OBVIOUS
  <2>1. PICK n \in Bad : \A m \in Bad : n =< m
    <3>1. Bad \in SUBSET Nat
      OBVIOUS
    <3> HIDE DEF Bad
    <3>2. QED
      BY <3>1, LeastNumber
  <2>2. n # 0
    BY <1>3, <2>1 DEF AreSums
  <2>3. n \in 1..L /\ n - 1 \in Nat /\ n - 1 =< L /\ n - 1 \notin Bad
    BY <1>1, <2>1, <2>2
  <2>4. K[n - 1] = F[n - 1] + G[n - 1]
    BY <2>3
  <2>5. h[Chain[n]] = f[Chain[n]] + g[Chain[n]]
    BY <1>1, <2>3
  <2>6. /\ F[n] = F[n - 1] + f[Chain[n]] /\ G[n] = G[n - 1] + g[Chain[n]]
        /\ K[n] = K[n - 1] + h[Chain[n]]
    BY <1>3, <2>3 DEF AreSums
  <2>7. F[n - 1] \in Int /\ G[n - 1] \in Int /\ f[Chain[n]] \in Int /\ g[Chain[n]] \in Int
    <3> HIDE DEF Bad, h
    <3>1. n - 1 \in 0..L
      BY <1>1, <2>3
    <3>2. F \in [0..L -> Int] /\ G \in [0..L -> Int]
      BY <1>3 DEF AreSums
    <3>3. Chain[n] \in Backends
      BY <1>1, <2>3
    <3>4. QED
      BY <3>1, <3>2, <3>3
  <2>8. K[n] = F[n] + G[n]
    <3> HIDE DEF h
    <3>1. QED
      BY <2>4, <2>5, <2>6, <2>7
  <2>9. QED
    BY <2>1, <2>8
<1>5. K[L] = F[L] + G[L]
  BY <1>1, <1>4
<1>6. QED
  BY <1>5 DEF ChainSum, F, G, K

LEMMA ChainSumOfOne ==
  ASSUME NEW w \in Backends, NEW d \in Int
  PROVE  ChainSum([b \in Backends |-> IF b = w THEN d ELSE 0]) = d
<1> DEFINE L == Len(Chain)
           f == [b \in Backends |-> IF b = w THEN d ELSE 0]
           F == PartialSums(f)
           Bad == {i \in Nat : i =< L /\ F[i] # IF i < Position(w) THEN 0 ELSE d}
<1>1. /\ L \in Nat /\ Position(w) \in 1..L
      /\ \A i \in 1..L : Chain[i] \in Backends /\ (Chain[i] = w <=> i = Position(w))
  BY ChainFacts
<1>2. AreSums(F, f, L)
  <2>1. f \in [Backends -> Int]
    OBVIOUS
  <2> HIDE DEF f
  <2>2. QED
    BY <2>1, PartialSumsAreSums
<1> HIDE DEF F
<1>3. Bad = {}
  <2> SUFFICES ASSUME Bad # {} PROVE FALSE
    OBVIOUS
  <2>1. PICK n \in Bad : \A m \in Bad : n =< m
    <3>1. Bad \in SUBSET Nat
      OBVIOUS
    <3> HIDE DEF Bad
    <3>2. QED
      BY <3>1, LeastNumber
  <2>2. n # 0
    BY <1>1, <1>2, <2>1 DEF AreSums
  <2>3. n \in 1..L /\ n - 1 \in Nat /\ n - 1 =< L /\ n - 1 \notin Bad
    BY <1>1, <2>1, <2>2
  <2>4. F[n - 1] = IF n - 1 < Position(w) THEN 0 ELSE d
    BY <2>3
  <2>5. f[Chain[n]] = IF n = Position(w) THEN d ELSE 0
    BY <1>1, <2>3
  <2>6. F[n] = F[n - 1] + f[Chain[n]]
    BY <1>2, <2>3 DEF AreSums
  <2>7. F[n] = IF n < Position(w) THEN 0 ELSE d
    <3> HIDE DEF f
    <3>1. QED
      BY <1>1, <2>3, <2>4, <2>5, <2>6
  <2>8. QED
    BY <2>1, <2>7
<1>4. F[L] = d
  BY <1>1, <1>3
<1>5. QED
  BY <1>4 DEF ChainSum, F

(* In a chain that has backends: their zeros sum up to zero.                *)
LEMMA ChainSumOfZero == ChainSum([b \in Backends |-> 0]) = 0
<1> DEFINE zero == [b \in Backends |-> 0]
<1>1. zero \in [Backends -> Int] /\ zero = [b \in Backends |-> zero[b] + zero[b]]
  OBVIOUS
<1>2. ChainSum(zero) \in Int
  <2> HIDE DEF zero
  <2>1. QED
    BY <1>1, ChainSumType
<1>3. ChainSum(zero) = ChainSum(zero) + ChainSum(zero)
  <2> HIDE DEF zero
  <2>1. QED
    BY <1>1, ChainSumAdds
<1>4. \A n \in Int : n = n + n => n = 0
  OBVIOUS
<1>5. ChainSum(zero) = 0
  <2> DEFINE n == ChainSum(zero)
  <2>1. n \in Int /\ n = n + n
    BY <1>2, <1>3
  <2> HIDE DEF n
  <2>2. n = 0
    BY <2>1, <1>4
  <2>3. QED
    BY <2>2 DEF n
<1>6. QED
  BY <1>5

-----------------------------------------------------------------------------
(* A pick gives and takes the same amount of credit.                        *)
LEMMA PickConserves ==
  ASSUME NEW current \in [Backends -> Int], NEW H \in SUBSET Backends, H # {}
  PROVE  /\ Charged(current, H) \in [Backends -> Int]
         /\ ChainSum(Charged(current, H)) = ChainSum(current)
<1> DEFINE w == Winner(current, H)
           total == Total(H)
           credited == Credited(current, H)
           charge == [b \in Backends |-> IF b = w THEN -total ELSE 0]
<1>1. w \in Backends
  BY WinnerIsHealthy
<1>2. Weights(H) \in [Backends -> Int] /\ total \in Int /\ total = ChainSum(Weights(H))
  <2>1. Weights(H) \in [Backends -> Int]
    BY WeightFacts
  <2>2. QED
    BY <2>1, ChainSumType DEF Total
<1>3. /\ credited \in [Backends -> Int]
      /\ ChainSum(credited) = ChainSum(current) + total
  BY <1>2, CreditedType, ChainSumAdds DEF Credited
<1> HIDE DEF w, total, credited
<1>4. charge \in [Backends -> Int] /\ ChainSum(charge) = -total
  <2>1. -total \in Int /\ charge \in [Backends -> Int]
    BY <1>2
  <2>2. QED
    BY <2>1, <1>1, ChainSumOfOne
<1>5. Charged(current, H) = [b \in Backends |-> credited[b] + charge[b]]
  <2>1. Charged(current, H) = [credited EXCEPT ![w] = credited[w] - total]
    BY DEF Charged, w, total, credited
  <2>2. ASSUME NEW b \in Backends
        PROVE  [credited EXCEPT ![w] = credited[w] - total][b] = credited[b] + charge[b]
    <3>1. credited[b] \in Int /\ credited[w] \in Int
      BY <1>1, <1>3
    <3>2. CASE b = w
      BY <1>2, <1>3, <3>1, <3>2
    <3>3. CASE b # w
      BY <1>3, <3>1, <3>3
    <3>4. QED
      BY <3>2, <3>3
  <2>3. QED
    BY <2>1, <2>2, <1>3
<1>6. ChainSum(Charged(current, H)) = ChainSum(credited) + ChainSum(charge)
  <2> HIDE DEF charge
  <2>1. QED
    BY <1>3, <1>4, <1>5, ChainSumAdds
<1>7. Charged(current, H) \in [Backends -> Int]
  BY <1>3, <1>4, <1>5
<1>8. QED
  <2>1. ChainSum(current) \in Int
    BY ChainSumType
  <2>2. QED
    BY <1>2, <1>3, <1>4, <1>6, <1>7, <2>1
=============================================================================
