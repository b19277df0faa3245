---------------------------- MODULE LaneStreamProofs ----------------------------
(***************************************************************************)
(* Streams of any number of events of any form, in any chunks.             *)
(***************************************************************************)
EXTENDS LaneStream, SequenceTheorems, FiniteSetTheorems, WellFoundedInduction, TLAPS

(* Of finitely many subsets of a finite set one contains no other.          *)
LEMMA LeastSubset ==
  ASSUME NEW S, IsFiniteSet(S), NEW T, T \subseteq SUBSET S, T # {}
  PROVE  \E X \in T : \A Y \in T : Y \subseteq X => Y = X
<1> DEFINE R == StrictSubsetOrdering(S)
<1>1. \A X \in T : IsFiniteSet(X)
  BY FS_Subset
<1>2. T \subseteq FiniteSubsetsOf(S)
  BY <1>1 DEF FiniteSubsetsOf
<1>3. PICK X \in T : \A Y \in T : ~(<<Y, X>> \in R)
  <2>1. IsWellFoundedOn(R, FiniteSubsetsOf(S))
    BY FS_StrictSubsetOrderingWellFounded
  <2> HIDE DEF R
  <2>2. QED
    BY <2>1, <1>2, WFMin
<1>4. QED
  BY <1>3 DEF StrictSubsetOrdering

(* A set of numbers has a least one.                                        *)
LEMMA LeastNumber ==
  ASSUME NEW S \in SUBSET Nat, S # {}
  PROVE  \E n \in S : \A m \in S : n =< m
<1>1. PICK k \in S : TRUE
  OBVIOUS
<1> DEFINE All == 0..k
           T == {0..j : j \in {i \in S : i =< k}}
<1>2. IsFiniteSet(All)
  BY <1>1, FS_Interval
<1>3. PICK X \in T : \A Y \in T : Y \subseteq X => Y = X
  <2>1. T \subseteq SUBSET All
    BY <1>1
  <2>2. 0..k \in T
    BY <1>1
  <2>3. T # {}
    BY <2>2
  <2> HIDE DEF T, All
  <2>4. QED
    BY <1>2, <2>1, <2>3, LeastSubset
<1>4. PICK n \in S : n =< k /\ X = 0..n
  OBVIOUS
<1>5. ASSUME NEW m \in S, m < n PROVE FALSE
  <2>1. 0..m \in T /\ 0..m \subseteq 0..n
    BY <1>4, <1>5
  <2>2. 0..m = 0..n
    BY <2>1, <1>3, <1>4
  <2>3. n \in 0..n /\ n \notin 0..m
    BY <1>5
  <2>4. QED
    BY <2>2, <2>3
<1>6. QED
  BY <1>5

-----------------------------------------------------------------------------
(* FlattenSeq, whose definition is recursive: the sequences unroll.         *)
Unrolls(F, ss, k, S) ==
  /\ F \in [1..k -> Seq(S)]
  /\ \A i \in 1..k : F[i] = IF i = 1 THEN ss[i] ELSE F[i - 1] \o ss[i]

LEMMA UnrollingExists ==
  ASSUME NEW S, NEW ss \in Seq(Seq(S)), NEW k \in 0..Len(ss)
  PROVE  \E F : Unrolls(F, ss, k, S)
<1> DEFINE Bad == {n \in Nat : n =< Len(ss) /\ ~\E F : Unrolls(F, ss, n, S)}
<1>1. SUFFICES ASSUME Bad # {} PROVE FALSE
  OBVIOUS
<1>2. PICK n \in Bad : \A m \in Bad : n =< m
  <2>1. Bad \in SUBSET Nat
    OBVIOUS
  <2> HIDE DEF Bad
  <2>2. QED
    BY <1>1, <2>1, LeastNumber
<1>3. CASE n = 0
  <2>1. Unrolls([i \in 1..0 |-> ss[i]], ss, 0, S)
    BY DEF Unrolls
  <2>2. QED
    BY <1>2, <1>3, <2>1
<1>4. CASE n # 0
  <2>1. n \in Nat /\ n =< Len(ss) /\ n - 1 \in Nat /\ n - 1 =< Len(ss) /\ n - 1 \notin Bad
    <3> Len(ss) \in Nat
      BY LenProperties
    <3>1. n \in Nat /\ n =< Len(ss) /\ n - 1 \in Nat /\ n - 1 =< Len(ss)
      BY <1>2, <1>4
    <3>2. ~(n =< n - 1)
      BY <3>1
    <3> HIDE DEF Bad
    <3>3. QED
      BY <1>2, <3>1, <3>2
  <2>2. PICK F : Unrolls(F, ss, n - 1, S)
    BY <2>1
  <2>3. n \in 1..Len(ss) /\ ss[n] \in Seq(S)
    BY <1>2, <1>4, ElementOfSeq
  <2> DEFINE next == IF n = 1 THEN ss[n] ELSE F[n - 1] \o ss[n]
             G == [i \in 1..n |-> IF i = n THEN next ELSE F[i]]
  <2>4. next \in Seq(S)
    <3>1. CASE n = 1
      BY <3>1, <2>3
    <3>2. CASE n # 1
      <4>1. n - 1 \in 1..(n - 1)
        BY <3>2, <2>3
      <4>2. F[n - 1] \in Seq(S)
        BY <4>1, <2>2 DEF Unrolls
      <4>3. QED
        BY <4>2, <2>3, ConcatProperties
    <3>3. QED
      BY <3>1, <3>2
  <2> HIDE DEF next
  <2>5. \A i \in 1..n : i # n => i \in 1..(n - 1)
    BY <2>3
  <2>6. G \in [1..n -> Seq(S)]
    BY <2>2, <2>4, <2>5 DEF Unrolls
  <2>7. ASSUME NEW i \in 1..n
        PROVE  G[i] = IF i = 1 THEN ss[i] ELSE G[i - 1] \o ss[i]
    <3>1. CASE i = n
      <4>1. G[i] = next
        BY <3>1
      <4>2. i # 1 => G[i - 1] = F[i - 1]
        BY <2>3, <3>1
      <4>3. QED
        BY <3>1, <4>1, <4>2 DEF next
    <3>2. CASE i # n
      <4>1. i \in 1..(n - 1) /\ G[i] = F[i]
        BY <3>2, <2>5
      <4>2. i # 1 => G[i - 1] = F[i - 1]
        BY <2>3, <4>1
      <4>3. F[i] = IF i = 1 THEN ss[i] ELSE F[i - 1] \o ss[i]
        BY <4>1, <2>2 DEF Unrolls
      <4>4. QED
        BY <4>1, <4>2, <4>3
    <3>3. QED
      BY <3>1, <3>2
  <2>8. Unrolls(G, ss, n, S)
    <3> HIDE DEF G
    <3>1. QED
      BY <2>6, <2>7 DEF Unrolls
  <2>9. QED
    BY <1>2, <2>8
<1>5. QED
  BY <1>3, <1>4

(* Two unrollings of sequences with a common beginning agree there.         *)
LEMMA UnrollingIsUnique ==
  ASSUME NEW S, NEW ss, NEW tt, NEW k \in Nat, NEW l \in Nat, NEW F, NEW G, k =< l,
         Unrolls(F, ss, k, S), Unrolls(G, tt, l, S),
         \A i \in 1..k : ss[i] = tt[i]
  PROVE  \A i \in 1..k : F[i] = G[i]
<1> DEFINE Bad == {i \in Nat : i \in 1..k /\ F[i] # G[i]}
<1>1. SUFFICES ASSUME Bad # {} PROVE FALSE
  OBVIOUS
<1>2. PICK n \in Bad : \A m \in Bad : n =< m
  <2>1. Bad \in SUBSET Nat
    OBVIOUS
  <2> HIDE DEF Bad
  <2>2. QED
    BY <1>1, <2>1, LeastNumber
<1>3. n \in 1..k /\ n \in 1..l /\ F[n] # G[n]
  BY <1>2
<1>4. F[n] = IF n = 1 THEN ss[n] ELSE F[n - 1] \o ss[n]
  BY <1>3 DEF Unrolls
<1>5. G[n] = IF n = 1 THEN tt[n] ELSE G[n - 1] \o tt[n]
  BY <1>3 DEF Unrolls
<1>6. n # 1 => F[n - 1] = G[n - 1]
  <2>1. n \in Nat /\ ~(n =< n - 1)
    BY <1>3
  <2>2. n - 1 \notin Bad
    <3> HIDE DEF Bad
    <3>1. QED
      BY <1>2, <2>1
  <2>3. n # 1 => n - 1 \in Nat /\ n - 1 \in 1..k
    BY <1>3
  <2>4. QED
    BY <2>2, <2>3
<1>7. ss[n] = tt[n]
  BY <1>3
<1>8. QED
  BY <1>3, <1>4, <1>5, <1>6, <1>7

LEMMA FlattenUnrolled ==
  ASSUME NEW S, NEW ss \in Seq(Seq(S)), Len(ss) # 0
  PROVE  \E F : Unrolls(F, ss, Len(ss), S) /\ FlattenSeq(ss) = F[Len(ss)]
<1> DEFINE n == Len(ss)
           Step(h) == [i \in 1..n |-> IF i = 1 THEN ss[i] ELSE h[i - 1] \o ss[i]]
           C == CHOOSE h : h = Step(h)
<1>1. n \in Nat /\ n \in 0..n
  BY LenProperties
<1>2. PICK F : Unrolls(F, ss, n, S)
  BY <1>1, UnrollingExists
<1>3. F = Step(F)
  <2>1. DOMAIN F = 1..n /\ F = [i \in 1..n |-> F[i]]
    BY <1>2 DEF Unrolls
  <2>2. \A i \in 1..n : F[i] = IF i = 1 THEN ss[i] ELSE F[i - 1] \o ss[i]
    BY <1>2 DEF Unrolls
  <2>3. QED
    BY <2>1, <2>2
<1>4. C = Step(C)
  <2> HIDE DEF Step
  <2>1. QED
    BY <1>3
<1>5. FlattenSeq(ss) = C[n]
  BY DEF FlattenSeq
<1> HIDE DEF C
<1>6. \A i \in 1..n : C[i] = IF i = 1 THEN ss[i] ELSE C[i - 1] \o ss[i]
  BY <1>4
<1> HIDE DEF Step
<1> DEFINE Bad == {i \in Nat : i \in 1..n /\ C[i] # F[i]}
<1>7. Bad = {}
  <2> SUFFICES ASSUME Bad # {} PROVE FALSE
    OBVIOUS
  <2>1. PICK m \in Bad : \A j \in Bad : m =< j
    <3>1. Bad \in SUBSET Nat
      OBVIOUS
    <3> HIDE DEF Bad
    <3>2. QED
      BY <3>1, LeastNumber
  <2>2. m \in 1..n /\ C[m] # F[m]
    BY <2>1
  <2>3. C[m] = IF m = 1 THEN ss[m] ELSE C[m - 1] \o ss[m]
    BY <1>6, <2>2
  <2>4. F[m] = IF m = 1 THEN ss[m] ELSE F[m - 1] \o ss[m]
    BY <1>2, <2>2 DEF Unrolls
  <2>5. m # 1 => C[m - 1] = F[m - 1]
    <3>1. m \in Nat /\ ~(m =< m - 1)
      BY <2>2
    <3>2. m - 1 \notin Bad
      <4> HIDE DEF Bad
      <4>1. QED
        BY <2>1, <3>1
    <3>3. m # 1 => m - 1 \in Nat /\ m - 1 \in 1..n
      BY <1>1, <2>2
    <3>4. QED
      BY <3>2, <3>3
  <2>6. QED
    BY <2>2, <2>3, <2>4, <2>5
<1>8. C[n] = F[n]
  <2>1. n \in 1..n /\ n \in Nat
    BY <1>1
  <2> HIDE DEF n
  <2>2. QED
    BY <1>7, <2>1
<1>9. QED
  BY <1>2, <1>5, <1>8

(* The equations that are used: of nothing, and of one sequence more.       *)
LEMMA FlattenEmpty == FlattenSeq(<<>>) = <<>>
BY DEF FlattenSeq

LEMMA FlattenType ==
  ASSUME NEW S, NEW ss \in Seq(Seq(S))
  PROVE  FlattenSeq(ss) \in Seq(S)
<1>1. CASE Len(ss) = 0
  <2>1. ss = <<>>
    BY <1>1, EmptySeq
  <2>2. <<>> \in Seq(S)
    OBVIOUS
  <2>3. QED
    BY <2>1, <2>2, FlattenEmpty
<1>2. CASE Len(ss) # 0
  <2>1. PICK F : Unrolls(F, ss, Len(ss), S) /\ FlattenSeq(ss) = F[Len(ss)]
    BY <1>2, FlattenUnrolled
  <2>2. Len(ss) \in 1..Len(ss)
    BY <1>2, LenProperties
  <2>3. QED
    BY <2>1, <2>2 DEF Unrolls
<1>3. QED
  BY <1>1, <1>2

LEMMA FlattenAppend ==
  ASSUME NEW S, NEW ss \in Seq(Seq(S)), NEW s \in Seq(S)
  PROVE  FlattenSeq(Append(ss, s)) = FlattenSeq(ss) \o s
<1> DEFINE tt == Append(ss, s)
           n == Len(ss)
<1>1. /\ n \in Nat /\ tt \in Seq(Seq(S)) /\ Len(tt) = n + 1 /\ tt[n + 1] = s
      /\ \A i \in 1..n : tt[i] = ss[i]
  BY LenProperties, AppendProperties
<1> HIDE DEF tt
<1>2. PICK G : Unrolls(G, tt, n + 1, S) /\ FlattenSeq(tt) = G[n + 1]
  BY <1>1, FlattenUnrolled
<1>3. G[n + 1] = IF n + 1 = 1 THEN s ELSE G[n] \o s
  <2>1. n + 1 \in 1..(n + 1) /\ (n + 1) - 1 = n
    BY <1>1
  <2>2. QED
    BY <1>1, <1>2, <2>1 DEF Unrolls
<1>4. CASE n = 0
  <2>1. ss = <<>>
    BY <1>4, EmptySeq
  <2>2. FlattenSeq(ss) = <<>>
    BY <2>1, FlattenEmpty
  <2>3. <<>> \o s = s
    BY ConcatEmptySeq
  <2>4. QED
    BY <1>2, <1>3, <1>4, <2>2, <2>3 DEF tt
<1>5. CASE n # 0
  <2>1. PICK F : Unrolls(F, ss, n, S) /\ FlattenSeq(ss) = F[n]
    BY <1>5, FlattenUnrolled
  <2>2. n =< n + 1 /\ n + 1 \in Nat /\ n \in 1..n
    BY <1>1, <1>5
  <2>3. \A i \in 1..n : F[i] = G[i]
    <3>1. \A i \in 1..n : ss[i] = tt[i]
      BY <1>1
    <3> DEFINE l == n + 1
    <3>2. n \in Nat /\ l \in Nat /\ n =< l /\ Unrolls(F, ss, n, S) /\ Unrolls(G, tt, l, S)
      BY <1>1, <1>2, <2>1, <2>2
    <3> HIDE DEF l, n
    <3>3. QED
      BY <3>1, <3>2, UnrollingIsUnique
  <2>4. n + 1 # 1
    BY <1>1, <1>5
  <2>5. QED
    BY <1>2, <1>3, <2>1, <2>2, <2>3, <2>4 DEF tt
<1>6. QED
  BY <1>4, <1>5
-----------------------------------------------------------------------------
(* Induction over sequences: a set of them has <<>>, or one whose beginning *)
(* it has not.                                                              *)
LEMMA ShortestOf ==
  ASSUME NEW S, NEW Bad \in SUBSET Seq(S), Bad # {}
  PROVE  <<>> \in Bad \/ \E s \in Seq(S), x \in S : Append(s, x) \in Bad /\ s \notin Bad
<1> DEFINE Lengths == {Len(s) : s \in Bad}
<1>1. Lengths \in SUBSET Nat /\ Lengths # {}
  BY LenProperties
<1>2. PICK n \in Lengths : \A m \in Lengths : n =< m
  <2> HIDE DEF Lengths
  <2>1. QED
    BY <1>1, LeastNumber
<1>3. PICK t \in Bad : Len(t) = n
  OBVIOUS
<1>4. CASE t # <<>>
  <2>1. PICK s \in Seq(S), x \in S : t = Append(s, x)
    BY <1>4, SequenceEmptyOrAppend
  <2>2. Len(t) = Len(s) + 1 /\ Len(s) \in Nat
    BY <2>1, AppendProperties, LenProperties
  <2>3. s \notin Bad
    <3>1. ~(n =< Len(s))
      BY <1>3, <2>2
    <3>2. QED
      BY <1>2, <3>1
  <2>4. QED
    BY <2>1, <2>3
<1>5. QED
  BY <1>3, <1>4

LEMMA MinOf ==
  ASSUME NEW S \in SUBSET Nat, S # {}
  PROVE  Min(S) \in S /\ \A x \in S : Min(S) =< x
BY LeastNumber DEF Min

LEMMA MaxOf ==
  ASSUME NEW n \in Nat, NEW S \in SUBSET (1..n), S # {}
  PROVE  Max(S) \in S /\ \A x \in S : Max(S) >= x
<1> DEFINE Below == {n - x : x \in S}
<1>1. PICK d \in Below : \A e \in Below : d =< e
  <2>1. \A x \in S : x \in Int /\ n - x \in Nat
    OBVIOUS
  <2>2. Below \in SUBSET Nat /\ Below # {}
    BY <2>1
  <2> HIDE DEF Below
  <2>3. QED
    BY <2>2, LeastNumber
<1>2. PICK m \in S : d = n - m
  OBVIOUS
<1>3. \A x \in S : m >= x
  <2> TAKE x \in S
  <2>1. n - x \in Below
    OBVIOUS
  <2>2. n - m =< n - x
    BY <1>1, <1>2, <2>1
  <2>3. QED
    BY <2>2
<1>4. QED
  BY <1>3 DEF Max

-----------------------------------------------------------------------------
(* The usage that a sequence of lines ends up with: none, or that of the    *)
(* last line which has one.                                                 *)
Usage(lines) == IF Usages(lines) = {} THEN <<>> ELSE <<lines[Max(Usages(lines))].tokens>>

LEMMA UsageOfNone == Usage(<<>>) = <<>>
BY DEF Usage, Usages

LEMMA UsageAppend ==
  ASSUME NEW lines \in Seq(LineSet), NEW l \in LineSet
  PROVE  Usage(Append(lines, l)) = IF HasUsage(l) THEN <<l.tokens>> ELSE Usage(lines)
<1> DEFINE n == Len(lines)
           longer == Append(lines, l)
<1>1. /\ n \in Nat /\ DOMAIN lines = 1..n /\ DOMAIN longer = 1..(n + 1)
      /\ longer[n + 1] = l /\ \A i \in 1..n : longer[i] = lines[i]
  BY LenProperties, AppendProperties
<1> HIDE DEF longer, n
<1>2. Usages(lines) \in SUBSET (1..n)
  BY <1>1 DEF Usages
<1>3. Usages(longer) \in SUBSET (1..(n + 1))
  BY <1>1 DEF Usages
<1>4. CASE HasUsage(l)
  <2>1. n + 1 \in Usages(longer)
    BY <1>1, <1>4 DEF Usages
  <2>2. Max(Usages(longer)) \in Usages(longer) /\ Max(Usages(longer)) >= n + 1
    <3>1. n + 1 \in Nat /\ Usages(longer) # {}
      BY <1>1, <2>1
    <3> DEFINE m == n + 1
    <3>2. m \in Nat /\ Usages(longer) \in SUBSET (1..m) /\ m \in Usages(longer)
      BY <1>3, <2>1, <3>1
    <3> HIDE DEF m
    <3>3. Max(Usages(longer)) \in Usages(longer) /\ Max(Usages(longer)) >= m
      BY <3>1, <3>2, MaxOf
    <3>4. QED
      BY <3>3 DEF m
  <2>3. Max(Usages(longer)) = n + 1
    BY <1>1, <1>3, <2>2
  <2>4. Usage(longer) = <<l.tokens>>
    BY <1>1, <2>1, <2>3 DEF Usage
  <2>5. QED
    BY <1>4, <2>4 DEF longer
<1>5. CASE ~HasUsage(l)
  <2>1. Usages(longer) = Usages(lines)
    BY <1>1, <1>5 DEF Usages
  <2>2. Usages(lines) # {} => Max(Usages(lines)) \in 1..n
    BY <1>1, <1>2, MaxOf
  <2>3. Usage(longer) = Usage(lines)
    BY <1>1, <2>1, <2>2 DEF Usage
  <2>4. QED
    BY <1>5, <2>3 DEF longer
<1>6. QED
  BY <1>4, <1>5

LEMMA UsageConcat ==
  ASSUME NEW s \in Seq(LineSet), NEW t \in Seq(LineSet)
  PROVE  Usage(s \o t) = IF Usage(t) = <<>> THEN Usage(s) ELSE Usage(t)
<1> DEFINE Holds(u) == Usage(s \o u) = IF Usage(u) = <<>> THEN Usage(s) ELSE Usage(u)
           Bad == {u \in Seq(LineSet) : ~Holds(u)}
<1>1. <<>> \notin Bad
  BY UsageOfNone, ConcatEmptySeq
<1>2. ASSUME NEW u \in Seq(LineSet), NEW l \in LineSet, u \notin Bad
      PROVE  Append(u, l) \notin Bad
  <2>1. s \o Append(u, l) = Append(s \o u, l)
    OBVIOUS
  <2>2. s \o u \in Seq(LineSet)
    BY ConcatProperties
  <2>3. Usage(s \o Append(u, l)) = IF HasUsage(l) THEN <<l.tokens>> ELSE Usage(s \o u)
    BY <2>1, <2>2, UsageAppend
  <2>4. Usage(Append(u, l)) = IF HasUsage(l) THEN <<l.tokens>> ELSE Usage(u)
    BY UsageAppend
  <2>5. Holds(u)
    BY <1>2
  <2>6. <<l.tokens>> # <<>>
    OBVIOUS
  <2>7. Holds(Append(u, l))
    BY <2>3, <2>4, <2>5, <2>6
  <2>8. QED
    BY <2>7
<1>3. Bad = {}
  <2>1. Bad \in SUBSET Seq(LineSet)
    OBVIOUS
  <2> HIDE DEF Bad
  <2>2. QED
    BY <1>1, <1>2, <2>1, ShortestOf
<1>4. QED
  BY <1>3
-----------------------------------------------------------------------------
(* The fold of update_stream_usage over the lines of a block.               *)
LEMMA TokensAfterIs ==
  ASSUME NEW lines \in Seq(LineSet), NEW n
  PROVE  TokensAfter(n, lines) = IF Usage(lines) = <<>> THEN n ELSE Usage(lines)[1]
<1> DEFINE L == Len(lines)
           D == 1..L
           Step(h) == [t \in SUBSET D |->
             IF t = {} THEN n
             ELSE IF HasUsage(lines[Max(t)]) THEN lines[Max(t)].tokens ELSE h[t \ {Max(t)}]]
           Of(t) == {i \in t : HasUsage(lines[i])}
           W == [t \in SUBSET D |-> IF Of(t) = {} THEN n ELSE lines[Max(Of(t))].tokens]
           C == CHOOSE h : h = Step(h)
<1>1. L \in Nat /\ DOMAIN lines = D
  BY LenProperties
<1>2. TokensAfter(n, lines) = C[D]
  BY <1>1, Zenon DEF TokensAfter, FoldLeft, MapThenFoldSet
<1>3. ASSUME NEW t \in SUBSET D, t # {}
      PROVE  /\ Max(t) \in t
             /\ HasUsage(lines[Max(t)]) => Of(t) # {} /\ Max(Of(t)) = Max(t)
             /\ ~HasUsage(lines[Max(t)]) => Of(t \ {Max(t)}) = Of(t)
  <2>1. Max(t) \in t /\ \A x \in t : Max(t) >= x
    BY <1>1, <1>3, MaxOf
  <2>2. ASSUME HasUsage(lines[Max(t)]) PROVE Of(t) # {} /\ Max(Of(t)) = Max(t)
    <3>1. Max(t) \in Of(t)
      BY <2>1, <2>2
    <3>2. Of(t) \in SUBSET D /\ Of(t) \subseteq t
      OBVIOUS
    <3> HIDE DEF Of
    <3>3. Max(Of(t)) \in Of(t) /\ Max(Of(t)) >= Max(t)
      BY <1>1, <3>1, <3>2, MaxOf
    <3>4. Max(t) >= Max(Of(t))
      BY <2>1, <3>2, <3>3
    <3>5. Max(t) \in Int /\ Max(Of(t)) \in Int
      <4>1. Max(t) \in D /\ Max(Of(t)) \in D
        BY <2>1, <3>2, <3>3
      <4>2. \A x \in D : x \in Int
        OBVIOUS
      <4> HIDE DEF D
      <4>3. QED
        BY <4>1, <4>2
    <3>6. QED
      BY <3>1, <3>3, <3>4, <3>5
  <2>3. QED
    BY <2>1, <2>2
<1>4. W = Step(W)
  <2>1. ASSUME NEW t \in SUBSET D PROVE W[t] = Step(W)[t]
    <3>1. CASE t = {}
      BY <3>1
    <3>2. CASE t # {}
      <4> DEFINE m == Max(t)
                 rest == t \ {m}
      <4>1. rest \in SUBSET D
        OBVIOUS
      <4>2. Step(W)[t] = IF HasUsage(lines[m]) THEN lines[m].tokens ELSE W[rest]
        BY <3>2
      <4>3. W[t] = (IF Of(t) = {} THEN n ELSE lines[Max(Of(t))].tokens)
        OBVIOUS
      <4>4. W[rest] = (IF Of(rest) = {} THEN n ELSE lines[Max(Of(rest))].tokens)
        BY <4>1
      <4> HIDE DEF W, Step, Of
      <4>5. CASE HasUsage(lines[m])
        BY <1>3, <3>2, <4>2, <4>3, <4>5
      <4>6. CASE ~HasUsage(lines[m])
        BY <1>3, <3>2, <4>2, <4>3, <4>4, <4>6
      <4>7. QED
        BY <4>5, <4>6
    <3>3. QED
      BY <3>1, <3>2
  <2>2. DOMAIN W = SUBSET D /\ DOMAIN Step(W) = SUBSET D
    OBVIOUS
  <2>3. W = [t \in SUBSET D |-> W[t]] /\ Step(W) = [t \in SUBSET D |-> Step(W)[t]]
    OBVIOUS
  <2> HIDE DEF W, Step
  <2>4. QED
    BY <2>1, <2>3
<1>5. C = Step(C)
  <2> HIDE DEF Step, W
  <2>1. QED
    BY <1>4
<1> HIDE DEF C
<1> DEFINE Bad == {k \in Nat : k =< L /\ C[1..k] # W[1..k]}
<1>6. Bad = {}
  <2> SUFFICES ASSUME Bad # {} PROVE FALSE
    OBVIOUS
  <2>1. PICK k \in Bad : \A j \in Bad : k =< j
    <3>1. Bad \in SUBSET Nat
      OBVIOUS
    <3> HIDE DEF Bad
    <3>2. QED
      BY <3>1, LeastNumber
  <2>2. k \in Nat /\ k =< L /\ C[1..k] # W[1..k]
    BY <2>1
  <2>3. k # 0 => k - 1 \in Nat /\ k - 1 =< L /\ ~(k =< k - 1)
    BY <1>1, <2>2
  <2>4. k # 0 => C[1..(k - 1)] = W[1..(k - 1)]
    BY <2>1, <2>3
  <2> DEFINE t == 1..k
  <2>5. t \in SUBSET D
    BY <1>1, <2>2
  <2>6. C[t] = Step(C)[t] /\ W[t] = Step(W)[t]
    <3> HIDE DEF Step, W
    <3>1. QED
      BY <1>4, <1>5
  <2>7. CASE k = 0
    <3>1. t = {}
      BY <2>7
    <3>2. Step(C)[t] = n /\ Step(W)[t] = n
      BY <2>5, <3>1
    <3> HIDE DEF Step, W
    <3>3. QED
      BY <2>2, <2>6, <3>2
  <2>8. CASE k # 0
    <3>1. t # {} /\ k \in t
      BY <2>2, <2>8
    <3>2. Max(t) \in t /\ Max(t) >= k
      <4>1. t \in SUBSET (1..k)
        OBVIOUS
      <4> HIDE DEF t
      <4>2. QED
        BY <2>2, <3>1, <4>1, MaxOf
    <3>3. Max(t) = k
      BY <2>2, <3>2
    <3>4. t \ {k} = 1..(k - 1)
      BY <2>2, <2>8
    <3>5. Step(C)[t] = IF HasUsage(lines[k]) THEN lines[k].tokens ELSE C[1..(k - 1)]
      <4> HIDE DEF t
      <4>1. QED
        BY <2>5, <3>1, <3>3, <3>4
    <3>6. Step(W)[t] = IF HasUsage(lines[k]) THEN lines[k].tokens ELSE W[1..(k - 1)]
      <4> HIDE DEF t, W
      <4>1. QED
        BY <2>5, <3>1, <3>3, <3>4
    <3> HIDE DEF Step, W
    <3>7. QED
      BY <2>2, <2>4, <2>6, <2>8, <3>5, <3>6
  <2>9. QED
    BY <2>7, <2>8
<1>7. C[D] = W[D]
  <2> HIDE DEF W
  <2>1. QED
    BY <1>1, <1>6
<1>8. Of(D) = Usages(lines)
  BY <1>1 DEF Usages
<1>9. W[D] = IF Usages(lines) = {} THEN n ELSE lines[Max(Usages(lines))].tokens
  BY <1>8
<1>10. QED
  <2> HIDE DEF W
  <2>1. QED
    BY <1>2, <1>7, <1>9 DEF Usage
-----------------------------------------------------------------------------
(* The bytes of an event: three parts to a line, and a newline.             *)
Bytes == [line : LineSet \cup {Line("newline", 0)}, part : 0..2, lane : BOOLEAN]

LEMMA BytesAssociate ==
  ASSUME NEW p \in Seq(Bytes), NEW q \in Seq(Bytes), NEW r \in Seq(Bytes)
  PROVE  (p \o q) \o r = p \o (q \o r)
BY ConcatAssociative

LEMMA LineBytesType ==
  ASSUME NEW l \in LineSet
  PROVE  /\ LineBytes(l) \in Seq(Bytes) /\ Len(LineBytes(l)) = 3
         /\ LineBytes(l)[1] = Part(l, 1) /\ LineBytes(l)[2] = Part(l, 2)
         /\ LineBytes(l)[3] = Newline
<1>1. Part(l, 1) \in Bytes /\ Part(l, 2) \in Bytes
  BY DEF Part, Bytes
<1>2. Newline \in Bytes
  BY DEF Newline, Part, Bytes
<1>3. QED
  BY <1>1, <1>2 DEF LineBytes

AreTriples(ss) == \A i \in 1..Len(ss) : Len(ss[i]) = 3
IsLayout(s, ss) == /\ Len(s) = 3 * Len(ss)
                   /\ \A i \in 1..Len(ss) : /\ s[3 * i - 2] = ss[i][1]
                                             /\ s[3 * i - 1] = ss[i][2]
                                             /\ s[3 * i] = ss[i][3]

LEMMA FlattenTriples ==
  ASSUME NEW S, NEW ss \in Seq(Seq(S)), AreTriples(ss)
  PROVE  IsLayout(FlattenSeq(ss), ss)
<1> DEFINE Bad == {tt \in Seq(Seq(S)) : AreTriples(tt) /\ ~IsLayout(FlattenSeq(tt), tt)}
<1>1. <<>> \notin Bad
  BY FlattenEmpty DEF IsLayout
<1>2. ASSUME NEW tt \in Seq(Seq(S)), NEW t \in Seq(S), tt \notin Bad
      PROVE  Append(tt, t) \notin Bad
  <2> DEFINE uu == Append(tt, t)
             n == Len(tt)
             f == FlattenSeq(tt)
             g == FlattenSeq(uu)
  <2>1. SUFFICES ASSUME AreTriples(uu) PROVE IsLayout(g, uu)
    OBVIOUS
  <2>2. /\ n \in Nat /\ Len(uu) = n + 1 /\ uu[n + 1] = t
        /\ \A i \in 1..n : uu[i] = tt[i]
    BY LenProperties, AppendProperties
  <2>3. g = f \o t /\ f \in Seq(S)
    BY FlattenAppend, FlattenType
  <2> HIDE DEF uu, n, f, g
  <2>4. Len(t) = 3
    <3>1. n + 1 \in 1..Len(uu)
      BY <2>2
    <3>2. QED
      BY <2>1, <2>2, <3>1 DEF AreTriples
  <2>5. AreTriples(tt)
    BY <2>1, <2>2 DEF AreTriples, n
  <2>6. IsLayout(f, tt)
    BY <1>2, <2>5 DEF f
  <2>7. Len(f) = 3 * n
    BY <2>6 DEF IsLayout, n
  <2>8. Len(g) = 3 * n + 3 /\ \A i \in 1..(3 * n + 3) : g[i] = IF i =< 3 * n THEN f[i] ELSE t[i - 3 * n]
    <3>1. /\ Len(g) = Len(f) + Len(t)
          /\ \A i \in 1..(Len(f) + Len(t)) : g[i] = IF i =< Len(f) THEN f[i] ELSE t[i - Len(f)]
      BY <2>3, ConcatProperties
    <3>2. QED
      BY <2>4, <2>7, <3>1
  <2>9. ASSUME NEW i \in 1..(n + 1)
        PROVE  g[3 * i - 2] = uu[i][1] /\ g[3 * i - 1] = uu[i][2] /\ g[3 * i] = uu[i][3]
    <3>1. CASE i = n + 1
      <4>1. g[3 * n + 1] = t[1] /\ g[3 * n + 2] = t[2] /\ g[3 * n + 3] = t[3]
        BY <2>2, <2>8
      <4>2. 3 * i - 2 = 3 * n + 1 /\ 3 * i - 1 = 3 * n + 2 /\ 3 * i = 3 * n + 3
        BY <2>2, <3>1
      <4>3. QED
        BY <2>2, <3>1, <4>1, <4>2
    <3>2. CASE i # n + 1
      <4>1. i \in 1..n
        BY <2>2, <3>2
      <4>2. f[3 * i - 2] = tt[i][1] /\ f[3 * i - 1] = tt[i][2] /\ f[3 * i] = tt[i][3]
        BY <2>6, <4>1 DEF IsLayout, n
      <4>3. /\ g[3 * i - 2] = f[3 * i - 2] /\ g[3 * i - 1] = f[3 * i - 1]
            /\ g[3 * i] = f[3 * i]
        BY <2>2, <2>8, <4>1
      <4>4. QED
        BY <2>2, <4>1, <4>2, <4>3
    <3>3. QED
      BY <3>1, <3>2
  <2>10. Len(g) = 3 * Len(uu)
    BY <2>2, <2>8
  <2>11. QED
    BY <2>2, <2>9, <2>10 DEF IsLayout
<1>3. Bad = {}
  <2>1. Bad \in SUBSET Seq(Seq(S))
    OBVIOUS
  <2> HIDE DEF Bad
  <2>2. QED
    BY <1>1, <1>2, <2>1, ShortestOf
<1>4. QED
  BY <1>3

LEMMA BlockLayout ==
  ASSUME NEW ss \in Seq(Seq(Bytes)), AreTriples(ss),
         NEW b, b = FlattenSeq(ss) \o <<Newline>>
  PROVE  /\ b \in Seq(Bytes) /\ Len(b) = 3 * Len(ss) + 1 /\ b[3 * Len(ss) + 1] = Newline
         /\ \A i \in 1..Len(ss) : /\ b[3 * i - 2] = ss[i][1] /\ b[3 * i - 1] = ss[i][2]
                                   /\ b[3 * i] = ss[i][3]
<1> DEFINE n == Len(ss)
           f == FlattenSeq(ss)
           end == <<Newline>>
<1>1. n \in Nat
  BY LenProperties
<1>2. f \in Seq(Bytes) /\ IsLayout(f, ss)
  BY FlattenType, FlattenTriples
<1>3. end \in Seq(Bytes) /\ Len(end) = 1 /\ end[1] = Newline
  BY DEF Newline, Part, Bytes
<1> HIDE DEF f, n, end
<1>4. /\ Len(f) = 3 * n
      /\ \A i \in 1..n : /\ f[3 * i - 2] = ss[i][1] /\ f[3 * i - 1] = ss[i][2]
                          /\ f[3 * i] = ss[i][3]
  BY <1>2 DEF IsLayout, n
<1>5. b = f \o end
  BY DEF f, end
<1>6. /\ b \in Seq(Bytes) /\ Len(b) = Len(f) + Len(end)
      /\ \A p \in 1..(Len(f) + Len(end)) : b[p] = IF p =< Len(f) THEN f[p] ELSE end[p - Len(f)]
  <2>1. /\ f \o end \in Seq(Bytes) /\ Len(f \o end) = Len(f) + Len(end)
        /\ \A p \in 1..(Len(f) + Len(end)) :
             (f \o end)[p] = IF p =< Len(f) THEN f[p] ELSE end[p - Len(f)]
    BY <1>2, <1>3, ConcatProperties
  <2>2. QED
    BY <1>5, <2>1
<1>7. /\ Len(b) = 3 * n + 1
      /\ \A p \in 1..(3 * n + 1) : b[p] = IF p =< 3 * n THEN f[p] ELSE end[p - 3 * n]
  BY <1>1, <1>3, <1>4, <1>6
<1>8. b[3 * n + 1] = Newline
  <2>1. 3 * n + 1 \in 1..(3 * n + 1) /\ ~(3 * n + 1 =< 3 * n) /\ (3 * n + 1) - 3 * n = 1
    BY <1>1
  <2>2. QED
    BY <1>3, <1>7, <2>1
<1>9. ASSUME NEW i \in 1..n
      PROVE  b[3 * i - 2] = f[3 * i - 2] /\ b[3 * i - 1] = f[3 * i - 1] /\ b[3 * i] = f[3 * i]
  BY <1>1, <1>7
<1>10. QED
  BY <1>4, <1>6, <1>7, <1>8, <1>9 DEF n

LEMMA EventLayout ==
  ASSUME NEW e \in Seq(LineSet)
  PROVE  /\ EventBytes(e) \in Seq(Bytes)
         /\ Len(EventBytes(e)) = 3 * Len(e) + 1
         /\ EventBytes(e)[3 * Len(e) + 1] = Newline
         /\ \A i \in 1..Len(e) : /\ EventBytes(e)[3 * i - 2] = Part(e[i], 1)
                                  /\ EventBytes(e)[3 * i - 1] = Part(e[i], 2)
                                  /\ EventBytes(e)[3 * i] = Newline
<1> DEFINE n == Len(e)
           ss == [i \in DOMAIN e |-> LineBytes(e[i])]
           b == EventBytes(e)
<1>1. n \in Nat /\ DOMAIN e = 1..n /\ \A i \in 1..n : e[i] \in LineSet
  BY LenProperties, ElementOfSeq
<1>2. \A i \in 1..n : LineBytes(e[i]) \in Seq(Bytes)
  BY <1>1, LineBytesType
<1>3. ss \in Seq(Seq(Bytes)) /\ Len(ss) = n /\ \A i \in 1..n : ss[i] = LineBytes(e[i])
  BY <1>1, <1>2
<1>4. AreTriples(ss)
  BY <1>1, <1>3, LineBytesType DEF AreTriples
<1>5. b = FlattenSeq(ss) \o <<Newline>>
  BY DEF EventBytes
<1> HIDE DEF ss, b, n
<1>6. /\ b \in Seq(Bytes) /\ Len(b) = 3 * n + 1 /\ b[3 * n + 1] = Newline
      /\ \A i \in 1..n : /\ b[3 * i - 2] = ss[i][1] /\ b[3 * i - 1] = ss[i][2]
                          /\ b[3 * i] = ss[i][3]
  BY <1>3, <1>4, <1>5, BlockLayout
<1>7. \A i \in 1..n : /\ b[3 * i - 2] = Part(e[i], 1) /\ b[3 * i - 1] = Part(e[i], 2)
                      /\ b[3 * i] = Newline
  BY <1>1, <1>3, <1>6, LineBytesType
<1>8. QED
  BY <1>6, <1>7 DEF b, n

LEMMA PositionInLine ==
  ASSUME NEW n \in Nat, NEW p \in 1..(3 * n)
  PROVE  \E i \in 1..n : p = 3 * i - 2 \/ p = 3 * i - 1 \/ p = 3 * i
<1> DEFINE i == (p + 2) \div 3
<1>1. i \in Int /\ 3 * i =< p + 2 /\ p + 2 < 3 * i + 3
  OBVIOUS
<1> HIDE DEF i
<1>2. i \in 1..n
  BY <1>1
<1>3. p = 3 * i - 2 \/ p = 3 * i - 1 \/ p = 3 * i
  BY <1>1
<1>4. QED
  BY <1>2, <1>3

(* Two newlines in a row are at the end of an event and nowhere else.       *)
LEMMA EventHasOneEnd ==
  ASSUME NEW e \in Seq(LineSet), e # <<>>
  PROVE  /\ EventBytes(e)[Len(EventBytes(e)) - 1] = Newline
         /\ EventBytes(e)[Len(EventBytes(e))] = Newline
         /\ \A p \in 1..(Len(EventBytes(e)) - 2) :
              ~(EventBytes(e)[p] = Newline /\ EventBytes(e)[p + 1] = Newline)
<1> DEFINE n == Len(e)
           b == EventBytes(e)
<1>1. n \in Nat /\ n >= 1
  BY EmptySeq
<1>2. /\ Len(b) = 3 * n + 1 /\ b[3 * n + 1] = Newline
      /\ \A i \in 1..n : /\ b[3 * i - 2] = Part(e[i], 1) /\ b[3 * i - 1] = Part(e[i], 2)
                          /\ b[3 * i] = Newline
  BY EventLayout
<1> HIDE DEF b, n
<1>3. \A l : Part(l, 1) # Newline /\ Part(l, 2) # Newline
  BY DEF Part, Newline
<1>4. b[3 * n] = Newline
  <2>1. n \in 1..n
    BY <1>1
  <2>2. QED
    BY <1>2, <2>1
<1>5. ASSUME NEW p \in 1..(3 * n - 1), b[p] = Newline, b[p + 1] = Newline
      PROVE  FALSE
  <2>1. p \in 1..(3 * n)
    BY <1>1
  <2>2. PICK i \in 1..n : p = 3 * i - 2 \/ p = 3 * i - 1 \/ p = 3 * i
    BY <1>1, <2>1, PositionInLine
  <2>3. p = 3 * i
    BY <1>2, <1>3, <1>5, <2>2
  <2>4. i + 1 \in 1..n /\ p + 1 = 3 * (i + 1) - 2
    BY <1>1, <2>3
  <2>5. b[p + 1] = Part(e[i + 1], 1)
    BY <1>2, <2>4
  <2>6. QED
    BY <1>3, <1>5, <2>5
<1>6. Len(b) - 1 = 3 * n /\ Len(b) - 2 = 3 * n - 1
  BY <1>1, <1>2
<1>7. QED
  BY <1>2, <1>4, <1>5, <1>6 DEF b
-----------------------------------------------------------------------------
(* What annotate_event makes of an event is what the client is promised.    *)
Byte(l, n, on) == [line |-> l, part |-> n, lane |-> on]
LanePart(l, n) == Byte(l, n, TRUE)

LEMMA LaneReplaced ==
  ASSUME NEW b, NEW l, NEW n, NEW old, NEW new, b = Byte(l, n, old)
  PROVE  [b EXCEPT !.lane = new] = Byte(l, n, new)
BY SMT DEF Byte

LEMMA PartIsByte == \A l, n : Part(l, n) = Byte(l, n, FALSE)
BY DEF Part, Byte

(* The parts of the i-th line of an event, as promised.                     *)
PromisedPart(e, i, k) == IF i = LaneLine(e) THEN LanePart(e[i], k) ELSE Part(e[i], k)

LEMMA PromisedLayout ==
  ASSUME NEW e \in Seq(LineSet)
  PROVE  /\ Promised(e) \in Seq(Bytes)
         /\ Len(Promised(e)) = 3 * Len(e) + 1
         /\ Promised(e)[3 * Len(e) + 1] = Newline
         /\ \A i \in 1..Len(e) : /\ Promised(e)[3 * i - 2] = PromisedPart(e, i, 1)
                                  /\ Promised(e)[3 * i - 1] = PromisedPart(e, i, 2)
                                  /\ Promised(e)[3 * i] = Newline
<1> DEFINE n == Len(e)
           lane == LaneLine(e)
           triple(i) == [k \in 1..3 |-> [LineBytes(e[i])[k] EXCEPT !.lane = (i = lane /\ k < 3)]]
           ss == [i \in DOMAIN e |-> triple(i)]
           b == Promised(e)
<1>1. n \in Nat /\ DOMAIN e = 1..n /\ \A i \in 1..n : e[i] \in LineSet
  BY LenProperties, ElementOfSeq
<1>2. b = FlattenSeq(ss) \o <<Newline>>
  BY DEF Promised
<1> HIDE DEF lane
<1>3. ASSUME NEW i \in 1..n
      PROVE  /\ triple(i)[1] = PromisedPart(e, i, 1) /\ triple(i)[2] = PromisedPart(e, i, 2)
             /\ triple(i)[3] = Newline
  <2> DEFINE l == e[i]
  <2>1. /\ LineBytes(l)[1] = Part(l, 1) /\ LineBytes(l)[2] = Part(l, 2)
        /\ LineBytes(l)[3] = Newline
    BY <1>1, LineBytesType
  <2> DEFINE on(k) == i = lane /\ k < 3
  <2>2. /\ triple(i)[1] = [LineBytes(l)[1] EXCEPT !.lane = on(1)]
        /\ triple(i)[2] = [LineBytes(l)[2] EXCEPT !.lane = on(2)]
        /\ triple(i)[3] = [LineBytes(l)[3] EXCEPT !.lane = on(3)]
    OBVIOUS
  <2>3. on(3) = FALSE /\ (i = lane => on(1) = TRUE /\ on(2) = TRUE)
                     /\ (i # lane => on(1) = FALSE /\ on(2) = FALSE)
    OBVIOUS
  <2> HIDE DEF triple, on
  <2>4. /\ triple(i)[1] = Byte(l, 1, on(1)) /\ triple(i)[2] = Byte(l, 2, on(2))
        /\ triple(i)[3] = Byte(Line("newline", 0), 0, on(3))
    <3>1. /\ LineBytes(l)[1] = Byte(l, 1, FALSE) /\ LineBytes(l)[2] = Byte(l, 2, FALSE)
          /\ LineBytes(l)[3] = Byte(Line("newline", 0), 0, FALSE)
      BY <2>1, PartIsByte, Zenon DEF Newline
    <3> DEFINE off == FALSE
               newline == Line("newline", 0)
    <3>2. /\ LineBytes(l)[1] = Byte(l, 1, off) /\ LineBytes(l)[2] = Byte(l, 2, off)
          /\ LineBytes(l)[3] = Byte(newline, 0, off)
      BY <3>1
    <3> HIDE DEF off, newline
    <3>3. [LineBytes(l)[1] EXCEPT !.lane = on(1)] = Byte(l, 1, on(1))
      BY <3>2, LaneReplaced
    <3>4. [LineBytes(l)[2] EXCEPT !.lane = on(2)] = Byte(l, 2, on(2))
      BY <3>2, LaneReplaced
    <3>5. [LineBytes(l)[3] EXCEPT !.lane = on(3)] = Byte(newline, 0, on(3))
      BY <3>2, LaneReplaced
    <3>6. QED
      BY <2>2, <3>3, <3>4, <3>5 DEF newline
  <2>5. triple(i)[3] = Newline
    BY <2>3, <2>4, PartIsByte, Zenon DEF Newline
  <2>6. CASE i = lane
    <3>1. triple(i)[1] = LanePart(l, 1) /\ triple(i)[2] = LanePart(l, 2)
      BY <2>3, <2>4, <2>6, Zenon DEF LanePart
    <3>2. QED
      BY <2>5, <2>6, <3>1 DEF PromisedPart, lane
  <2>7. CASE i # lane
    <3>1. triple(i)[1] = Part(l, 1) /\ triple(i)[2] = Part(l, 2)
      BY <2>3, <2>4, <2>7, PartIsByte, Zenon
    <3>2. QED
      BY <2>5, <2>7, <3>1 DEF PromisedPart, lane
  <2>8. QED
    BY <2>6, <2>7
<1>4. ASSUME NEW i \in 1..n
      PROVE  triple(i) \in Seq(Bytes) /\ Len(triple(i)) = 3
  <2>1. \A k \in {1, 2} : PromisedPart(e, i, k) \in Bytes
    BY <1>1 DEF PromisedPart, LanePart, Byte, Part, Bytes
  <2>2. Newline \in Bytes
    BY DEF Newline, Part, Bytes
  <2>3. triple(i) = [k \in 1..3 |-> triple(i)[k]]
    OBVIOUS
  <2> HIDE DEF triple
  <2>4. \A k \in 1..3 : triple(i)[k] \in Bytes
    <3>1. \A k \in 1..3 : k = 1 \/ k = 2 \/ k = 3
      OBVIOUS
    <3>2. QED
      BY <1>3, <2>1, <2>2, <3>1
  <2>5. QED
    BY <2>3, <2>4
<1> HIDE DEF triple
<1>5. ss \in Seq(Seq(Bytes)) /\ Len(ss) = n /\ \A i \in 1..n : ss[i] = triple(i)
  BY <1>1, <1>4
<1>6. AreTriples(ss)
  BY <1>4, <1>5 DEF AreTriples
<1> HIDE DEF ss, b, n
<1>7. /\ b \in Seq(Bytes) /\ Len(b) = 3 * n + 1 /\ b[3 * n + 1] = Newline
      /\ \A i \in 1..n : /\ b[3 * i - 2] = ss[i][1] /\ b[3 * i - 1] = ss[i][2]
                          /\ b[3 * i] = ss[i][3]
  BY <1>2, <1>5, <1>6, BlockLayout
<1>8. ASSUME NEW i \in 1..n
      PROVE  /\ b[3 * i - 2] = PromisedPart(e, i, 1) /\ b[3 * i - 1] = PromisedPart(e, i, 2)
             /\ b[3 * i] = Newline
  BY <1>3, <1>5, <1>7
<1>9. QED
  BY <1>7, <1>8 DEF b, n

(* The data lines of an event, and their bytes.                             *)
DataLines(e) == {i \in 1..Len(e) : e[i].kind \in DataKinds}
DataBytes(b) == {p \in 1..Len(b) : b[p].line.kind \in DataKinds}

LEMMA LaneLineIs ==
  ASSUME NEW e \in Seq(LineSet)
  PROVE  LaneLine(e) = IF DataLines(e) # {} /\ e[Min(DataLines(e))].kind \in JsonKinds
                       THEN Min(DataLines(e)) ELSE 0
<1> DEFINE i == SelectInSeq(e, LAMBDA l : l.kind \in DataKinds)
<1>1. i = IF DataLines(e) # {} THEN Min(DataLines(e)) ELSE 0
  BY DEF SelectInSeq, DataLines
<1>2. LaneLine(e) = IF i # 0 /\ e[i].kind \in JsonKinds THEN i ELSE 0
  BY DEF LaneLine
<1>3. DataLines(e) # {} => Min(DataLines(e)) \in 1..Len(e)
  <2>1. Len(e) \in Nat /\ DataLines(e) \in SUBSET Nat /\ DataLines(e) \in SUBSET (1..Len(e))
    BY LenProperties DEF DataLines
  <2>2. QED
    BY <2>1, MinOf
<1> HIDE DEF i
<1>4. QED
  BY <1>1, <1>2, <1>3

LaneAt(b, p)   == [b EXCEPT ![p].lane = TRUE, ![p + 1].lane = TRUE]
WithLane(byte) == [byte EXCEPT !.lane = TRUE]

LEMMA AnnotatedIs ==
  ASSUME NEW b \in Seq(Bytes)
  PROVE  Annotated(b) =
           IF DataBytes(b) = {} \/ b[Min(DataBytes(b))].line.kind \notin JsonKinds THEN b
           ELSE LaneAt(b, Min(DataBytes(b)))
<1> DEFINE i == SelectInSeq(b, LAMBDA byte : byte.line.kind \in DataKinds)
<1>1. i = IF DataBytes(b) # {} THEN Min(DataBytes(b)) ELSE 0
  BY DEF SelectInSeq, DataBytes
<1>2. Annotated(b) = IF i = 0 \/ b[i].line.kind \notin JsonKinds THEN b
                     ELSE LaneAt(b, i)
  BY DEF Annotated, LaneAt
<1>3. DataBytes(b) # {} => Min(DataBytes(b)) \in 1..Len(b)
  <2>1. Len(b) \in Nat /\ DataBytes(b) \in SUBSET Nat /\ DataBytes(b) \in SUBSET (1..Len(b))
    BY LenProperties DEF DataBytes
  <2>2. QED
    BY <2>1, MinOf
<1> HIDE DEF i
<1>4. CASE DataBytes(b) = {}
  BY <1>1, <1>2, <1>4
<1>5. CASE DataBytes(b) # {}
  <2>1. i = Min(DataBytes(b)) /\ i # 0
    BY <1>1, <1>3, <1>5
  <2>2. QED
    BY <1>2, <1>5, <2>1
<1>6. QED
  BY <1>4, <1>5

(* A data line of an event begins at the first byte that is one.            *)
LEMMA DataByteOfLine ==
  ASSUME NEW e \in Seq(LineSet)
  PROVE  /\ DataBytes(EventBytes(e)) = {} <=> DataLines(e) = {}
         /\ DataLines(e) # {} =>
              /\ Min(DataLines(e)) \in 1..Len(e)
              /\ Min(DataBytes(EventBytes(e))) = 3 * Min(DataLines(e)) - 2
<1> DEFINE b == EventBytes(e)
           n == Len(e)
           I == DataBytes(b)
           J == DataLines(e)
<1>1. n \in Nat
  BY LenProperties
<1>2. /\ Len(b) = 3 * n + 1 /\ b[3 * n + 1] = Newline
      /\ \A i \in 1..n : /\ b[3 * i - 2] = Part(e[i], 1) /\ b[3 * i - 1] = Part(e[i], 2)
                          /\ b[3 * i] = Newline
  BY EventLayout
<1>3. J = {i \in 1..n : e[i].kind \in DataKinds}
      /\ I = {p \in 1..(3 * n + 1) : b[p].line.kind \in DataKinds}
  BY <1>2 DEF DataLines, DataBytes
<1>4. Newline.line.kind \notin DataKinds /\ \A l, k : Part(l, k).line = l
  BY DEF Newline, Part, Line, DataKinds, JsonKinds
<1> HIDE DEF b, n, I, J
<1>5. ASSUME NEW i \in J PROVE 3 * i - 2 \in I /\ i \in 1..n
  BY <1>1, <1>2, <1>3, <1>4
<1>6. ASSUME NEW p \in I
      PROVE  \E i \in J : p = 3 * i - 2 \/ p = 3 * i - 1
  <2>1. p # 3 * n + 1
    BY <1>2, <1>3, <1>4
  <2>2. p \in 1..(3 * n)
    BY <1>1, <1>3, <2>1
  <2>3. PICK i \in 1..n : p = 3 * i - 2 \/ p = 3 * i - 1 \/ p = 3 * i
    BY <1>1, <2>2, PositionInLine
  <2>4. p # 3 * i
    BY <1>2, <1>3, <1>4, <2>3
  <2>5. b[p] = Part(e[i], 1) \/ b[p] = Part(e[i], 2)
    BY <1>2, <2>3, <2>4
  <2>6. e[i].kind \in DataKinds
    BY <1>3, <1>4, <2>5
  <2>7. QED
    BY <1>3, <2>3, <2>4, <2>6
<1>7. I = {} <=> J = {}
  BY <1>5, <1>6
<1>8. ASSUME J # {}
      PROVE  Min(J) \in 1..n /\ Min(I) = 3 * Min(J) - 2
  <2>1. J \in SUBSET Nat /\ I \in SUBSET Nat /\ I # {}
    BY <1>3, <1>7, <1>8
  <2>2. Min(J) \in J /\ \A i \in J : Min(J) =< i
    BY <2>1, <1>8, MinOf
  <2>3. Min(I) \in I /\ \A p \in I : Min(I) =< p
    BY <2>1, MinOf
  <2>4. Min(J) \in 1..n /\ Min(I) =< 3 * Min(J) - 2
    BY <1>5, <2>2, <2>3
  <2>5. PICK i \in J : Min(I) = 3 * i - 2 \/ Min(I) = 3 * i - 1
    BY <1>6, <2>3
  <2>6. i \in 1..n /\ Min(J) =< i
    BY <1>5, <2>2
  <2>7. QED
    BY <1>1, <2>4, <2>5, <2>6
<1>9. QED
  BY <1>7, <1>8 DEF b, n, I, J

LEMMA LaneAtIs ==
  ASSUME NEW S, NEW b \in Seq(S), NEW p \in 1..(Len(b) - 1)
  PROVE  /\ LaneAt(b, p) = [q \in 1..Len(b) |-> LaneAt(b, p)[q]]
         /\ \A q \in 1..Len(b) : q # p /\ q # p + 1 => LaneAt(b, p)[q] = b[q]
         /\ LaneAt(b, p)[p] = WithLane(b[p])
         /\ LaneAt(b, p)[p + 1] = WithLane(b[p + 1])
<1>1. Len(b) \in Nat /\ DOMAIN b = 1..Len(b) /\ p \in DOMAIN b /\ p + 1 \in DOMAIN b /\ p # p + 1
  BY LenProperties
<1> DEFINE d == [b EXCEPT ![p].lane = TRUE]
           c == [d EXCEPT ![p + 1].lane = TRUE]
<1>2. DOMAIN d = DOMAIN b
  OBVIOUS
<1>3. d[p] = [b[p] EXCEPT !.lane = TRUE] /\ \A q \in DOMAIN b : q # p => d[q] = b[q]
  BY <1>1
<1> HIDE DEF d
<1>4. DOMAIN c = DOMAIN b
  BY <1>2
<1>5. c[p + 1] = [d[p + 1] EXCEPT !.lane = TRUE] /\ \A q \in DOMAIN b : q # p + 1 => c[q] = d[q]
  BY <1>1, <1>2
<1>6. c = [q \in 1..Len(b) |-> c[q]]
  BY <1>1, <1>4
<1>7. c = LaneAt(b, p)
  BY DEF LaneAt, d
<1> HIDE DEF c
<1>8. \A q \in 1..Len(b) : q # p /\ q # p + 1 => c[q] = b[q]
  BY <1>1, <1>3, <1>5
<1>9. c[p] = WithLane(b[p]) /\ c[p + 1] = WithLane(b[p + 1])
  BY <1>1, <1>3, <1>5 DEF WithLane
<1>10. QED
  BY <1>6, <1>7, <1>8, <1>9

LEMMA LaneWritten ==
  ASSUME NEW b, NEW l, NEW n, b = Part(l, n)
  PROVE  WithLane(b) = LanePart(l, n)
<1> DEFINE off == FALSE
           on == TRUE
<1>1. b = Byte(l, n, off)
  BY PartIsByte
<1>2. WithLane(b) = [b EXCEPT !.lane = on]
  BY DEF WithLane
<1> HIDE DEF off, on
<1>3. [b EXCEPT !.lane = on] = Byte(l, n, on)
  BY <1>1, LaneReplaced
<1>4. QED
  BY <1>2, <1>3 DEF on, LanePart

(* Blocks of as many lines that have the same parts are the same.           *)
IsBlock(n, s) == s = [q \in 1..(3 * n + 1) |-> s[q]]
SameParts(n, s, t) ==
  /\ \A i \in 1..n : /\ s[3 * i - 2] = t[3 * i - 2] /\ s[3 * i - 1] = t[3 * i - 1]
                     /\ s[3 * i] = t[3 * i]
  /\ s[3 * n + 1] = t[3 * n + 1]

LEMMA SameBlock ==
  ASSUME NEW n \in Nat, NEW s, NEW t, IsBlock(n, s), IsBlock(n, t), SameParts(n, s, t)
  PROVE  s = t
<1>1. ASSUME NEW q \in 1..(3 * n + 1) PROVE s[q] = t[q]
  <2>1. CASE q = 3 * n + 1
    BY <2>1 DEF SameParts
  <2>2. CASE q # 3 * n + 1
    <3>1. q \in 1..(3 * n)
      BY <2>2
    <3>2. PICK i \in 1..n : q = 3 * i - 2 \/ q = 3 * i - 1 \/ q = 3 * i
      BY <3>1, PositionInLine
    <3>3. QED
      BY <3>2 DEF SameParts
  <2>3. QED
    BY <2>1, <2>2
<1> DEFINE D == 1..(3 * n + 1)
<1>2. s = [q \in D |-> s[q]] /\ t = [q \in D |-> t[q]]
  BY DEF IsBlock
<1>3. \A q \in D : s[q] = t[q]
  BY <1>1
<1> HIDE DEF D
<1>4. [q \in D |-> s[q]] = [q \in D |-> t[q]]
  BY <1>3
<1>5. QED
  BY <1>2, <1>4

LEMMA AnnotatedIsPromised ==
  ASSUME NEW e \in Seq(LineSet)
  PROVE  Annotated(EventBytes(e)) = Promised(e)
<1> DEFINE b == EventBytes(e)
           c == Promised(e)
           a == Annotated(b)
           n == Len(e)
           j == LaneLine(e)
           J == DataLines(e)
<1>1. n \in Nat
  BY LenProperties
<1>2. /\ b \in Seq(Bytes) /\ Len(b) = 3 * n + 1 /\ b[3 * n + 1] = Newline
      /\ \A i \in 1..n : /\ b[3 * i - 2] = Part(e[i], 1) /\ b[3 * i - 1] = Part(e[i], 2)
                          /\ b[3 * i] = Newline
  BY EventLayout
<1>3. /\ c \in Seq(Bytes) /\ Len(c) = 3 * n + 1 /\ c[3 * n + 1] = Newline
      /\ \A i \in 1..n : /\ c[3 * i - 2] = PromisedPart(e, i, 1)
                          /\ c[3 * i - 1] = PromisedPart(e, i, 2)
                          /\ c[3 * i] = Newline
  BY PromisedLayout
<1>4. IsBlock(n, b) /\ IsBlock(n, c)
  <2> HIDE DEF b, c, n
  <2>1. QED
    BY <1>2, <1>3, LenProperties DEF IsBlock
<1>5. a = IF DataBytes(b) = {} \/ b[Min(DataBytes(b))].line.kind \notin JsonKinds THEN b
          ELSE LaneAt(b, Min(DataBytes(b)))
  BY <1>2, AnnotatedIs
<1>6. /\ DataBytes(b) = {} <=> J = {}
      /\ J # {} => Min(J) \in 1..n /\ Min(DataBytes(b)) = 3 * Min(J) - 2
  BY DataByteOfLine
<1>7. j = IF J # {} /\ e[Min(J)].kind \in JsonKinds THEN Min(J) ELSE 0
  BY LaneLineIs
<1>8. J # {} => b[3 * Min(J) - 2].line = e[Min(J)]
  <2>1. \A l, k : Part(l, k).line = l
    BY DEF Part
  <2> HIDE DEF b, n, J
  <2>2. QED
    BY <1>2, <1>6, <2>1
<1> HIDE DEF a, b, c, n, j, J
<1>9. CASE j = 0
  <2>1. J = {} \/ e[Min(J)].kind \notin JsonKinds
    BY <1>6, <1>7, <1>9
  <2>2. a = b
    BY <1>5, <1>6, <1>8, <2>1
  <2>3. ASSUME NEW i \in 1..n
        PROVE  /\ b[3 * i - 2] = c[3 * i - 2] /\ b[3 * i - 1] = c[3 * i - 1]
               /\ b[3 * i] = c[3 * i]
    <3>1. i # j
      BY <1>9
    <3>2. PromisedPart(e, i, 1) = Part(e[i], 1) /\ PromisedPart(e, i, 2) = Part(e[i], 2)
      BY <3>1 DEF PromisedPart, j
    <3>3. QED
      BY <1>2, <1>3, <3>2
  <2>4. b = c
    <3>1. SameParts(n, b, c)
      BY <1>2, <1>3, <2>3 DEF SameParts
    <3>2. QED
      BY <1>1, <1>4, <3>1, SameBlock
  <2>5. QED
    BY <2>2, <2>4 DEF a, b, c
<1>10. CASE j # 0
  <2> DEFINE p == 3 * j - 2
  <2>1. J # {} /\ e[j].kind \in JsonKinds /\ j = Min(J) /\ j \in 1..n
    BY <1>6, <1>7, <1>10
  <2>2. p \in 1..(Len(b) - 1) /\ Min(DataBytes(b)) = p /\ p + 1 = 3 * j - 1
    BY <1>1, <1>2, <1>6, <2>1
  <2>3. DataBytes(b) # {} /\ b[p].line.kind \in JsonKinds
    BY <1>6, <1>8, <2>1
  <2>4. a = LaneAt(b, p)
    BY <1>5, <2>2, <2>3
  <2> HIDE DEF p
  <2>5. /\ a = [q \in 1..Len(b) |-> a[q]]
        /\ \A q \in 1..Len(b) : q # p /\ q # p + 1 => a[q] = b[q]
        /\ a[p] = WithLane(b[p])
        /\ a[p + 1] = WithLane(b[p + 1])
    <3>1. /\ LaneAt(b, p) = [q \in 1..Len(b) |-> LaneAt(b, p)[q]]
          /\ \A q \in 1..Len(b) : q # p /\ q # p + 1 => LaneAt(b, p)[q] = b[q]
          /\ LaneAt(b, p)[p] = WithLane(b[p])
          /\ LaneAt(b, p)[p + 1] = WithLane(b[p + 1])
      BY <1>2, <2>2, LaneAtIs
    <3>2. QED
      BY <2>4, <3>1
  <2>6. IsBlock(n, a)
    BY <1>2, <2>5 DEF IsBlock
  <2>7. a[p] = LanePart(e[j], 1) /\ a[p + 1] = LanePart(e[j], 2)
    <3>1. b[p] = Part(e[j], 1) /\ b[p + 1] = Part(e[j], 2)
      BY <1>2, <2>1, <2>2 DEF p
    <3>2. QED
      BY <2>5, <3>1, LaneWritten
  <2>8. ASSUME NEW i \in 1..n
        PROVE  /\ a[3 * i - 2] = c[3 * i - 2] /\ a[3 * i - 1] = c[3 * i - 1]
               /\ a[3 * i] = c[3 * i]
    <3>1. 3 * i \in 1..Len(b) /\ 3 * i # p /\ 3 * i # p + 1
      BY <1>1, <1>2, <2>1 DEF p
    <3>2. a[3 * i] = Newline
      BY <1>2, <2>5, <3>1
    <3>3. CASE i = j
      <4>1. PromisedPart(e, i, 1) = LanePart(e[i], 1) /\ PromisedPart(e, i, 2) = LanePart(e[i], 2)
        BY <3>3 DEF PromisedPart, j
      <4>2. 3 * i - 2 = p /\ 3 * i - 1 = p + 1
        BY <2>2, <3>3 DEF p
      <4>3. QED
        BY <1>3, <2>7, <3>2, <3>3, <4>1, <4>2
    <3>4. CASE i # j
      <4>1. PromisedPart(e, i, 1) = Part(e[i], 1) /\ PromisedPart(e, i, 2) = Part(e[i], 2)
        BY <3>4 DEF PromisedPart, j
      <4>2. 3 * i - 2 \in 1..Len(b) /\ 3 * i - 1 \in 1..Len(b)
        BY <1>1, <1>2
      <4>3. 3 * i - 2 # p /\ 3 * i - 2 # p + 1 /\ 3 * i - 1 # p /\ 3 * i - 1 # p + 1
        <5>1. p = 3 * j - 2 /\ i \in Int /\ j \in Int
          BY <2>1 DEF p
        <5>2. QED
          BY <3>4, <5>1
      <4>4. a[3 * i - 2] = Part(e[i], 1) /\ a[3 * i - 1] = Part(e[i], 2)
        BY <1>2, <2>5, <4>2, <4>3
      <4>5. QED
        BY <1>3, <3>2, <4>1, <4>4
    <3>5. QED
      BY <3>3, <3>4
  <2>9. a[3 * n + 1] = c[3 * n + 1]
    <3>1. 3 * n + 1 \in 1..Len(b) /\ 3 * n + 1 # p /\ 3 * n + 1 # p + 1
      BY <1>1, <1>2, <2>1 DEF p
    <3>2. QED
      BY <1>2, <1>3, <2>5, <3>1
  <2>10. a = c
    <3>1. SameParts(n, a, c)
      BY <2>8, <2>9 DEF SameParts
    <3>2. QED
      BY <1>1, <1>4, <2>6, <3>1, SameBlock
  <2>11. QED
    BY <2>10 DEF a, b, c
<1>11. QED
  BY <1>9, <1>10
-----------------------------------------------------------------------------
(* The lines that update_stream_usage reads off bytes.                      *)
Piece(byte) == IF IsPayload(byte) THEN <<byte.line>> ELSE <<>>
Pieces(b)   == [i \in DOMAIN b |-> Piece(b[i])]

LEMMA PayloadsArePieces == \A b : Payloads(b) = FlattenSeq(Pieces(b))
BY DEF Payloads, Pieces, Piece

LEMMA PieceType ==
  ASSUME NEW byte \in Bytes
  PROVE  Piece(byte) \in Seq(LineSet)
<1>1. IsPayload(byte) => byte.line \in LineSet
  BY DEF IsPayload, Bytes, Line, JsonKinds
<1>2. CASE IsPayload(byte)
  BY <1>1, <1>2 DEF Piece
<1>3. CASE ~IsPayload(byte)
  BY <1>3 DEF Piece
<1>4. QED
  BY <1>2, <1>3

LEMMA PiecesType ==
  ASSUME NEW b \in Seq(Bytes)
  PROVE  Pieces(b) \in Seq(Seq(LineSet)) /\ Len(Pieces(b)) = Len(b)
<1>1. Len(b) \in Nat /\ DOMAIN b = 1..Len(b) /\ \A i \in 1..Len(b) : b[i] \in Bytes
  BY LenProperties, ElementOfSeq
<1>2. \A i \in 1..Len(b) : Piece(b[i]) \in Seq(LineSet)
  BY <1>1, PieceType
<1>3. QED
  BY <1>1, <1>2 DEF Pieces

LEMMA PayloadsType ==
  ASSUME NEW b \in Seq(Bytes)
  PROVE  Payloads(b) \in Seq(LineSet)
BY PayloadsArePieces, PiecesType, FlattenType

LEMMA PayloadsOfNothing == Payloads(<<>>) = <<>>
<1>1. Pieces(<<>>) = <<>>
  BY DEF Pieces
<1>2. QED
  BY <1>1, PayloadsArePieces, FlattenEmpty

LEMMA PayloadsAppend ==
  ASSUME NEW b \in Seq(Bytes), NEW byte \in Bytes
  PROVE  Payloads(Append(b, byte)) = Payloads(b) \o Piece(byte)
<1>1. Pieces(b) \in Seq(Seq(LineSet)) /\ Piece(byte) \in Seq(LineSet)
  BY PiecesType, PieceType
<1>2. Pieces(Append(b, byte)) = Append(Pieces(b), Piece(byte))
  <2> DEFINE n == Len(b)
             c == Append(b, byte)
             P == Append(Pieces(b), Piece(byte))
  <2>1. /\ n \in Nat /\ DOMAIN b = 1..n /\ DOMAIN c = 1..(n + 1) /\ c[n + 1] = byte
        /\ \A i \in 1..n : c[i] = b[i]
    BY LenProperties, AppendProperties
  <2>2. Len(Pieces(b)) = n /\ \A i \in 1..n : Pieces(b)[i] = Piece(b[i])
    BY PiecesType, LenProperties DEF Pieces
  <2>3. /\ P \in Seq(Seq(LineSet)) /\ Len(P) = n + 1 /\ P[n + 1] = Piece(byte)
        /\ \A i \in 1..n : P[i] = Piece(b[i])
    BY <1>1, <2>2, AppendProperties
  <2> HIDE DEF P, c, n
  <2>4. DOMAIN P = 1..(n + 1) /\ P = [i \in 1..(n + 1) |-> P[i]]
    BY <2>3, LenProperties
  <2>5. \A i \in 1..(n + 1) : P[i] = Piece(c[i])
    <3>1. \A i \in 1..(n + 1) : i = n + 1 \/ i \in 1..n
      BY <2>1
    <3>2. QED
      BY <2>1, <2>3, <3>1
  <2>6. Pieces(c) = [i \in 1..(n + 1) |-> Piece(c[i])]
    BY <2>1 DEF Pieces
  <2>7. Pieces(c) = P
    BY <2>4, <2>5, <2>6
  <2>8. QED
    BY <2>7 DEF P, c
<1>3. QED
  BY <1>1, <1>2, PayloadsArePieces, FlattenAppend

LEMMA PayloadsConcat ==
  ASSUME NEW s \in Seq(Bytes), NEW t \in Seq(Bytes)
  PROVE  Payloads(s \o t) = Payloads(s) \o Payloads(t)
<1> DEFINE Bad == {u \in Seq(Bytes) : Payloads(s \o u) # Payloads(s) \o Payloads(u)}
<1>1. <<>> \notin Bad
  BY PayloadsType, PayloadsOfNothing, ConcatEmptySeq
<1>2. ASSUME NEW u \in Seq(Bytes), NEW x \in Bytes, u \notin Bad
      PROVE  Append(u, x) \notin Bad
  <2>1. s \o Append(u, x) = Append(s \o u, x)
    OBVIOUS
  <2>2. s \o u \in Seq(Bytes)
    BY ConcatProperties
  <2>3. Payloads(s \o Append(u, x)) = Payloads(s \o u) \o Piece(x)
    BY <2>1, <2>2, PayloadsAppend
  <2>4. Payloads(Append(u, x)) = Payloads(u) \o Piece(x)
    BY PayloadsAppend
  <2>5. Payloads(s \o u) = Payloads(s) \o Payloads(u)
    BY <1>2
  <2>6. Payloads(s) \in Seq(LineSet) /\ Payloads(u) \in Seq(LineSet) /\ Piece(x) \in Seq(LineSet)
    BY PayloadsType, PieceType
  <2>7. (Payloads(s) \o Payloads(u)) \o Piece(x) = Payloads(s) \o (Payloads(u) \o Piece(x))
    BY <2>6, ConcatAssociative
  <2>8. QED
    BY <2>3, <2>4, <2>5, <2>7
<1>3. Bad = {}
  <2>1. Bad \in SUBSET Seq(Bytes)
    OBVIOUS
  <2> HIDE DEF Bad
  <2>2. QED
    BY <1>1, <1>2, <2>1, ShortestOf
<1>4. QED
  BY <1>3

(* An event carries the usage of its lines, with the lane or without.       *)
LEMMA PayloadsOfLine ==
  ASSUME NEW l \in LineSet
  PROVE  Payloads(LineBytes(l)) = IF l.kind \in JsonKinds THEN <<l>> ELSE <<>>
<1> DEFINE p1 == Part(l, 1)
           p2 == Part(l, 2)
           end == Newline
<1>1. p1 \in Bytes /\ p2 \in Bytes /\ end \in Bytes
  BY DEF Newline, Part, Bytes
<1>2. Piece(p1) = <<>> /\ Piece(end) = <<>>
  BY DEF Piece, IsPayload, Newline, Part
<1>3. Piece(p2) = IF l.kind \in JsonKinds THEN <<l>> ELSE <<>>
  BY DEF Piece, IsPayload, Part
<1>4. LineBytes(l) = Append(Append(Append(<<>>, p1), p2), end)
  BY DEF LineBytes
<1> HIDE DEF p1, p2, end
<1>5. <<>> \in Seq(Bytes) /\ Append(<<>>, p1) \in Seq(Bytes) /\ Append(Append(<<>>, p1), p2) \in Seq(Bytes)
  BY <1>1
<1>6. Payloads(Append(<<>>, p1)) = <<>>
  <2>1. Payloads(Append(<<>>, p1)) = <<>> \o <<>>
    BY <1>1, <1>2, <1>5, PayloadsAppend, PayloadsOfNothing
  <2>2. QED
    BY <2>1
<1>7. Payloads(Append(Append(<<>>, p1), p2)) = Piece(p2)
  <2>1. Payloads(Append(Append(<<>>, p1), p2)) = <<>> \o Piece(p2)
    BY <1>1, <1>5, <1>6, PayloadsAppend
  <2>2. Piece(p2) \in Seq(LineSet)
    BY <1>1, PieceType
  <2>3. QED
    BY <2>1, <2>2, ConcatEmptySeq
<1>8. Payloads(LineBytes(l)) = Piece(p2) \o <<>>
  BY <1>1, <1>2, <1>4, <1>5, <1>7, PayloadsAppend
<1>9. QED
  <2>1. Piece(p2) \in Seq(LineSet)
    BY <1>1, PieceType
  <2>2. QED
    BY <1>3, <1>8, <2>1, ConcatEmptySeq

Body(e) == FlattenSeq([i \in DOMAIN e |-> LineBytes(e[i])])

LEMMA BodyAppend ==
  ASSUME NEW e \in Seq(LineSet), NEW l \in LineSet
  PROVE  Body(e) \in Seq(Bytes) /\ Body(Append(e, l)) = Body(e) \o LineBytes(l)
<1> DEFINE n == Len(e)
           c == Append(e, l)
           ss == [i \in DOMAIN e |-> LineBytes(e[i])]
           tt == [i \in DOMAIN c |-> LineBytes(c[i])]
           P == Append(ss, LineBytes(l))
<1>1. /\ n \in Nat /\ DOMAIN e = 1..n /\ DOMAIN c = 1..(n + 1) /\ c[n + 1] = l
      /\ \A i \in 1..n : c[i] = e[i] /\ e[i] \in LineSet
  BY LenProperties, AppendProperties, ElementOfSeq
<1>2. LineBytes(l) \in Seq(Bytes) /\ \A i \in 1..n : LineBytes(e[i]) \in Seq(Bytes)
  BY <1>1, LineBytesType
<1>3. ss \in Seq(Seq(Bytes)) /\ Len(ss) = n /\ \A i \in 1..n : ss[i] = LineBytes(e[i])
  BY <1>1, <1>2
<1>4. tt = [i \in 1..(n + 1) |-> LineBytes(c[i])]
  BY <1>1
<1>5. Body(e) = FlattenSeq(ss) /\ Body(c) = FlattenSeq(tt)
  BY DEF Body
<1> HIDE DEF ss, tt, c, n
<1>6. /\ P \in Seq(Seq(Bytes)) /\ Len(P) = n + 1 /\ P[n + 1] = LineBytes(l)
      /\ \A i \in 1..n : P[i] = LineBytes(e[i])
  BY <1>2, <1>3, AppendProperties
<1>7. FlattenSeq(P) = FlattenSeq(ss) \o LineBytes(l) /\ FlattenSeq(ss) \in Seq(Bytes)
  BY <1>2, <1>3, FlattenAppend, FlattenType
<1> HIDE DEF P
<1>8. P = [i \in 1..(n + 1) |-> P[i]]
  BY <1>6, LenProperties
<1>9. \A i \in 1..(n + 1) : P[i] = LineBytes(c[i])
  <2>1. \A i \in 1..(n + 1) : i = n + 1 \/ i \in 1..n
    BY <1>1
  <2>2. QED
    BY <1>1, <1>6, <2>1
<1>10. tt = P
  BY <1>4, <1>8, <1>9
<1>11. QED
  BY <1>5, <1>7, <1>10 DEF c

LEMMA UsageOfBody ==
  ASSUME NEW e \in Seq(LineSet)
  PROVE  Body(e) \in Seq(Bytes) /\ Usage(Payloads(Body(e))) = Usage(e)
<1> DEFINE Bad == {f \in Seq(LineSet) : ~(Body(f) \in Seq(Bytes) /\ Usage(Payloads(Body(f))) = Usage(f))}
<1>1. <<>> \notin Bad
  <2>1. Body(<<>>) = <<>>
    <3>1. [i \in DOMAIN <<>> |-> LineBytes(<<>>[i])] = <<>>
      OBVIOUS
    <3>2. QED
      BY <3>1, FlattenEmpty DEF Body
  <2>2. <<>> \in Seq(Bytes)
    OBVIOUS
  <2>3. QED
    BY <2>1, <2>2, PayloadsOfNothing
<1>2. ASSUME NEW f \in Seq(LineSet), NEW l \in LineSet, f \notin Bad
      PROVE  Append(f, l) \notin Bad
  <2>1. Body(f) \in Seq(Bytes) /\ Body(Append(f, l)) = Body(f) \o LineBytes(l)
    BY BodyAppend
  <2>2. LineBytes(l) \in Seq(Bytes)
    BY LineBytesType
  <2>3. Payloads(Body(Append(f, l))) = Payloads(Body(f)) \o Payloads(LineBytes(l))
    BY <2>1, <2>2, PayloadsConcat
  <2>4. Usage(Payloads(Body(f))) = Usage(f)
    BY <1>2
  <2>5. Usage(Append(f, l)) = IF HasUsage(l) THEN <<l.tokens>> ELSE Usage(f)
    BY UsageAppend
  <2>6. Payloads(Body(f)) \in Seq(LineSet) /\ Payloads(LineBytes(l)) \in Seq(LineSet)
    BY <2>1, <2>2, PayloadsType
  <2>7. Usage(Payloads(LineBytes(l))) = IF HasUsage(l) THEN <<l.tokens>> ELSE <<>>
    <3>1. CASE l.kind \in JsonKinds
      <4>1. <<>> \in Seq(LineSet) /\ Append(<<>>, l) = <<l>>
        OBVIOUS
      <4>2. Payloads(LineBytes(l)) = Append(<<>>, l)
        BY <3>1, <4>1, PayloadsOfLine
      <4>3. QED
        BY <4>1, <4>2, UsageAppend, UsageOfNone
    <3>2. CASE l.kind \notin JsonKinds
      <4>1. ~HasUsage(l)
        BY <3>2 DEF HasUsage, JsonKinds
      <4>2. QED
        BY <3>2, <4>1, PayloadsOfLine, UsageOfNone
    <3>3. QED
      BY <3>1, <3>2
  <2>8. <<l.tokens>> # <<>>
    OBVIOUS
  <2>9. Usage(Payloads(Body(Append(f, l)))) = Usage(Append(f, l))
    <3>1. Usage(Payloads(Body(Append(f, l)))) =
            IF Usage(Payloads(LineBytes(l))) = <<>> THEN Usage(f) ELSE Usage(Payloads(LineBytes(l)))
      BY <2>3, <2>4, <2>6, UsageConcat
    <3>2. QED
      BY <2>5, <2>7, <2>8, <3>1
  <2>10. Body(Append(f, l)) \in Seq(Bytes)
    BY <2>1, <2>2, ConcatProperties
  <2>11. QED
    BY <2>9, <2>10
<1>3. Bad = {}
  <2>1. Bad \in SUBSET Seq(LineSet)
    OBVIOUS
  <2> HIDE DEF Bad
  <2>2. QED
    BY <1>1, <1>2, <2>1, ShortestOf
<1>4. QED
  BY <1>3

LEMMA SamePayloads ==
  ASSUME NEW s \in Seq(Bytes), NEW t \in Seq(Bytes), Len(s) = Len(t),
         \A p \in 1..Len(s) : s[p].line = t[p].line /\ s[p].part = t[p].part
  PROVE  Payloads(s) = Payloads(t)
<1>1. DOMAIN s = 1..Len(s) /\ DOMAIN t = 1..Len(s)
  BY LenProperties
<1>2. \A p \in 1..Len(s) : Piece(s[p]) = Piece(t[p])
  BY DEF Piece, IsPayload
<1>3. Pieces(s) = Pieces(t)
  BY <1>1, <1>2 DEF Pieces
<1>4. QED
  BY <1>3, PayloadsArePieces

LEMMA UsageOfEvent ==
  ASSUME NEW e \in Seq(LineSet)
  PROVE  Payloads(Promised(e)) \in Seq(LineSet) /\ Usage(Payloads(Promised(e))) = Usage(e)
<1> DEFINE b == EventBytes(e)
           c == Promised(e)
           n == Len(e)
           end == <<Newline>>
<1>1. n \in Nat
  BY LenProperties
<1>2. /\ b \in Seq(Bytes) /\ Len(b) = 3 * n + 1 /\ b[3 * n + 1] = Newline
      /\ \A i \in 1..n : /\ b[3 * i - 2] = Part(e[i], 1) /\ b[3 * i - 1] = Part(e[i], 2)
                          /\ b[3 * i] = Newline
  BY EventLayout
<1>3. /\ c \in Seq(Bytes) /\ Len(c) = 3 * n + 1 /\ c[3 * n + 1] = Newline
      /\ \A i \in 1..n : /\ c[3 * i - 2] = PromisedPart(e, i, 1)
                          /\ c[3 * i - 1] = PromisedPart(e, i, 2)
                          /\ c[3 * i] = Newline
  BY PromisedLayout
<1>4. /\ \A l, k : Part(l, k).line = l /\ Part(l, k).part = k
      /\ \A i, k : PromisedPart(e, i, k).line = e[i] /\ PromisedPart(e, i, k).part = k
  BY DEF Part, PromisedPart, LanePart, Byte
<1>5. b = Body(e) \o end
  BY DEF EventBytes, Body
<1>6. end \in Seq(Bytes) /\ Payloads(end) = <<>>
  <2>1. Newline \in Bytes /\ Piece(Newline) = <<>>
    BY DEF Newline, Part, Bytes, Piece, IsPayload
  <2>2. end = Append(<<>>, Newline) /\ <<>> \in Seq(Bytes) /\ <<>> \o <<>> = <<>>
    OBVIOUS
  <2>3. Payloads(Append(<<>>, Newline)) = Payloads(<<>>) \o Piece(Newline)
    BY <2>1, <2>2, PayloadsAppend
  <2>4. Payloads(end) = <<>>
    BY <2>1, <2>2, <2>3, PayloadsOfNothing
  <2>5. end \in Seq(Bytes)
    BY <2>1
  <2>6. QED
    BY <2>4, <2>5
<1> HIDE DEF b, c, n, end
<1>7. ASSUME NEW p \in 1..(3 * n + 1)
      PROVE  c[p].line = b[p].line /\ c[p].part = b[p].part
  <2>1. CASE p = 3 * n + 1
    BY <1>2, <1>3, <2>1
  <2>2. CASE p # 3 * n + 1
    <3>1. p \in 1..(3 * n)
      BY <1>1, <2>2
    <3>2. PICK i \in 1..n : p = 3 * i - 2 \/ p = 3 * i - 1 \/ p = 3 * i
      BY <1>1, <3>1, PositionInLine
    <3>3. \/ b[p] = Part(e[i], 1) /\ c[p] = PromisedPart(e, i, 1)
          \/ b[p] = Part(e[i], 2) /\ c[p] = PromisedPart(e, i, 2)
          \/ b[p] = Newline /\ c[p] = Newline
      BY <1>2, <1>3, <3>2
    <3>4. CASE b[p] = Part(e[i], 1) /\ c[p] = PromisedPart(e, i, 1)
      BY <1>4, <3>4
    <3>5. CASE b[p] = Part(e[i], 2) /\ c[p] = PromisedPart(e, i, 2)
      BY <1>4, <3>5
    <3>6. CASE b[p] = Newline /\ c[p] = Newline
      BY <3>6
    <3>7. QED
      BY <3>3, <3>4, <3>5, <3>6
  <2>3. QED
    BY <2>1, <2>2
<1>8. Payloads(c) = Payloads(b)
  BY <1>2, <1>3, <1>7, SamePayloads
<1>9. Body(e) \in Seq(Bytes) /\ Usage(Payloads(Body(e))) = Usage(e)
  BY UsageOfBody
<1>10. Payloads(b) = Payloads(Body(e))
  <2>1. Payloads(b) = Payloads(Body(e)) \o <<>>
    BY <1>5, <1>6, <1>9, PayloadsConcat
  <2>2. Payloads(Body(e)) \in Seq(LineSet)
    BY <1>9, PayloadsType
  <2>3. QED
    BY <2>1, <2>2, ConcatEmptySeq
<1>11. QED
  BY <1>3, <1>8, <1>9, <1>10, PayloadsType DEF c
-----------------------------------------------------------------------------
(* The bytes that come after the first k events of s, when t follows them.  *)
LEMMA FlattenCons ==
  ASSUME NEW S, NEW s \in Seq(S), NEW ss \in Seq(Seq(S))
  PROVE  FlattenSeq(<<s>> \o ss) = s \o FlattenSeq(ss)
<1> DEFINE Bad == {uu \in Seq(Seq(S)) : FlattenSeq(<<s>> \o uu) # s \o FlattenSeq(uu)}
<1>1. <<>> \notin Bad
  <2>1. <<s>> \o <<>> = Append(<<>>, s) /\ <<>> \in Seq(Seq(S))
    OBVIOUS
  <2>2. FlattenSeq(Append(<<>>, s)) = FlattenSeq(<<>>) \o s
    BY <2>1, FlattenAppend
  <2>3. <<>> \o s = s /\ s \o <<>> = s
    BY ConcatEmptySeq
  <2>4. QED
    BY <2>1, <2>2, <2>3, FlattenEmpty
<1>2. ASSUME NEW uu \in Seq(Seq(S)), NEW u \in Seq(S), uu \notin Bad
      PROVE  Append(uu, u) \notin Bad
  <2>1. <<s>> \in Seq(Seq(S))
    OBVIOUS
  <2>2. <<s>> \o Append(uu, u) = Append(<<s>> \o uu, u) /\ <<s>> \o uu \in Seq(Seq(S))
    BY <2>1
  <2>3. FlattenSeq(<<s>> \o Append(uu, u)) = FlattenSeq(<<s>> \o uu) \o u
    BY <2>2, FlattenAppend
  <2>4. FlattenSeq(Append(uu, u)) = FlattenSeq(uu) \o u /\ FlattenSeq(uu) \in Seq(S)
    BY FlattenAppend, FlattenType
  <2>5. FlattenSeq(<<s>> \o uu) = s \o FlattenSeq(uu)
    BY <1>2
  <2>6. (s \o FlattenSeq(uu)) \o u = s \o (FlattenSeq(uu) \o u)
    BY <2>4, ConcatAssociative
  <2>7. QED
    BY <2>3, <2>4, <2>5, <2>6
<1>3. Bad = {}
  <2>1. Bad \in SUBSET Seq(Seq(S))
    OBVIOUS
  <2> HIDE DEF Bad
  <2>2. QED
    BY <1>1, <1>2, <2>1, ShortestOf
<1>4. QED
  BY <1>3

RestEvents(s, k) == [i \in 1..(Len(s) - k) |-> EventBytes(s[k + i])]
RestOf(s, t, k)  == FlattenSeq(RestEvents(s, k)) \o t

LEMMA RestEventsType ==
  ASSUME NEW s \in Seq(Seq(LineSet)), NEW k \in 0..Len(s)
  PROVE  RestEvents(s, k) \in Seq(Seq(Bytes))
<1>1. Len(s) \in Nat /\ k \in Nat /\ Len(s) - k \in Nat
  BY LenProperties
<1>2. \A i \in 1..(Len(s) - k) : k + i \in 1..Len(s)
  BY <1>1
<1>3. \A i \in 1..(Len(s) - k) : s[k + i] \in Seq(LineSet)
  BY <1>2, ElementOfSeq
<1>4. \A i \in 1..(Len(s) - k) : EventBytes(s[k + i]) \in Seq(Bytes)
  BY <1>3, EventLayout
<1>5. QED
  BY <1>1, <1>4 DEF RestEvents

LEMMA RestType ==
  ASSUME NEW s \in Seq(Seq(LineSet)), NEW t \in Seq(Bytes), NEW k \in 0..Len(s)
  PROVE  RestOf(s, t, k) \in Seq(Bytes)
<1>1. FlattenSeq(RestEvents(s, k)) \in Seq(Bytes)
  BY RestEventsType, FlattenType
<1>2. QED
  BY <1>1, ConcatProperties DEF RestOf

LEMMA RestAtEnd ==
  ASSUME NEW s \in Seq(Seq(LineSet)), NEW t \in Seq(Bytes)
  PROVE  RestOf(s, t, Len(s)) = t
<1>1. Len(s) \in Nat
  BY LenProperties
<1>2. RestEvents(s, Len(s)) = <<>>
  BY <1>1 DEF RestEvents
<1>3. QED
  BY <1>2, FlattenEmpty, ConcatEmptySeq DEF RestOf

LEMMA RestStep ==
  ASSUME NEW s \in Seq(Seq(LineSet)), NEW t \in Seq(Bytes), NEW k \in 0..(Len(s) - 1)
  PROVE  /\ EventBytes(s[k + 1]) \in Seq(Bytes)
         /\ RestOf(s, t, k + 1) \in Seq(Bytes)
         /\ RestOf(s, t, k) = EventBytes(s[k + 1]) \o RestOf(s, t, k + 1)
<1> DEFINE n == Len(s)
           b == EventBytes(s[k + 1])
           all == RestEvents(s, k)
           rest == RestEvents(s, k + 1)
           P == <<b>> \o rest
<1>1. n \in Nat /\ k \in Nat /\ k < n /\ k + 1 \in 0..n /\ k + 1 \in 1..n /\ k \in 0..n
  BY LenProperties
<1>2. b \in Seq(Bytes)
  BY <1>1, ElementOfSeq, EventLayout
<1>3. all \in Seq(Seq(Bytes)) /\ rest \in Seq(Seq(Bytes))
  BY <1>1, RestEventsType
<1>4. /\ rest = [i \in 1..(n - (k + 1)) |-> EventBytes(s[(k + 1) + i])]
      /\ all = [i \in 1..(n - k) |-> EventBytes(s[k + i])]
  BY DEF RestEvents
<1>5. Len(rest) = n - (k + 1)
  BY <1>1, <1>3, <1>4, LenProperties
<1>6. <<b>> \in Seq(Seq(Bytes)) /\ Len(<<b>>) = 1 /\ <<b>>[1] = b
  BY <1>2
<1> DEFINE one == <<b>>
<1>7. P \in Seq(Seq(Bytes)) /\ Len(P) = n - k
      /\ \A i \in 1..(n - k) : P[i] = IF i =< 1 THEN b ELSE rest[i - 1]
  <2> HIDE DEF n, b, rest
  <2>1. one \in Seq(Seq(Bytes)) /\ Len(one) = 1 /\ one[1] = b
    BY <1>6
  <2> HIDE DEF one
  <2>2. /\ one \o rest \in Seq(Seq(Bytes)) /\ Len(one \o rest) = Len(one) + Len(rest)
        /\ \A i \in 1..(Len(one) + Len(rest)) :
             (one \o rest)[i] = IF i =< Len(one) THEN one[i] ELSE rest[i - Len(one)]
    BY <1>3, <2>1, ConcatProperties
  <2>3. Len(one) + Len(rest) = n - k
    BY <1>1, <1>5, <2>1
  <2>4. \A i \in 1..(n - k) : i =< 1 => i = 1
    BY <1>1
  <2>5. one \o rest = P
    BY DEF one
  <2>6. \A i \in 1..(n - k) : (one \o rest)[i] = IF i =< 1 THEN b ELSE rest[i - 1]
    BY <2>1, <2>2, <2>3, <2>4
  <2> HIDE DEF P
  <2>7. QED
    BY <2>2, <2>3, <2>5, <2>6
<1>8. \A i \in 1..(n - k) : P[i] = EventBytes(s[k + i])
  <2> TAKE i \in 1..(n - k)
  <2> HIDE DEF P, n
  <2>1. CASE i = 1
    BY <1>7, <2>1
  <2>2. CASE i # 1
    <3>1. ~(i =< 1) /\ i - 1 \in 1..(n - (k + 1)) /\ (k + 1) + (i - 1) = k + i
      BY <1>1, <2>2
    <3> HIDE DEF b, rest
    <3>2. P[i] = rest[i - 1]
      BY <1>7, <3>1
    <3>3. rest[i - 1] = EventBytes(s[(k + 1) + (i - 1)])
      BY <1>4, <3>1
    <3>4. QED
      BY <3>1, <3>2, <3>3
  <2>3. QED
    BY <2>1, <2>2
<1>9. all = P
  <2> HIDE DEF P, all, n
  <2>1. P = [i \in 1..(n - k) |-> P[i]]
    BY <1>7, LenProperties
  <2>2. QED
    BY <1>4, <1>8, <2>1
<1>10. FlattenSeq(P) = b \o FlattenSeq(rest) /\ FlattenSeq(rest) \in Seq(Bytes)
  BY <1>2, <1>3, FlattenCons, FlattenType
<1>11. (b \o FlattenSeq(rest)) \o t = b \o (FlattenSeq(rest) \o t)
  <2> DEFINE r == FlattenSeq(rest)
  <2>1. r \in Seq(Bytes)
    BY <1>10
  <2> HIDE DEF b, r
  <2>2. (b \o r) \o t = b \o (r \o t)
    BY <1>2, <2>1, BytesAssociate
  <2>3. QED
    BY <2>2 DEF r
<1>12. RestOf(s, t, k + 1) \in Seq(Bytes)
  BY <1>1, RestType
<1>13. QED
  BY <1>2, <1>9, <1>10, <1>11, <1>12 DEF RestOf
-----------------------------------------------------------------------------
(* A sequence that is cut in two.                                           *)
LEMMA CutInTwo ==
  ASSUME NEW S, NEW s \in Seq(S), NEW n \in 0..Len(s)
  PROVE  /\ SubSeq(s, 1, n) \in Seq(S) /\ SubSeq(s, n + 1, Len(s)) \in Seq(S)
         /\ Len(SubSeq(s, 1, n)) = n /\ \A i \in 1..n : SubSeq(s, 1, n)[i] = s[i]
         /\ SubSeq(s, 1, n) \o SubSeq(s, n + 1, Len(s)) = s
<1> DEFINE f == SubSeq(s, 1, n)
           g == SubSeq(s, n + 1, Len(s))
           L == Len(s)
<1>1. L \in Nat /\ n \in Nat /\ n =< L /\ \A i \in 1..L : s[i] \in S
  BY LenProperties, ElementOfSeq
<1>2. /\ f \in Seq(S) /\ Len(f) = n /\ \A i \in 1..n : f[i] = s[i]
  <2>1. \A i \in 1..n : s[i] \in S
    BY <1>1
  <2>2. /\ f \in Seq(S) /\ Len(f) = IF 1 =< n THEN n - 1 + 1 ELSE 0
        /\ \A i \in 1..(n - 1 + 1) : f[i] = s[1 + i - 1]
    BY <1>1, <2>1, SubSeqProperties
  <2> HIDE DEF f
  <2>3. QED
    BY <1>1, <2>2
<1>3. /\ g \in Seq(S) /\ Len(g) = L - n /\ \A i \in 1..(L - n) : g[i] = s[n + i]
  <2> DEFINE m == n + 1
  <2>1. m \in Int /\ L \in Int /\ \A i \in m..L : s[i] \in S
    BY <1>1
  <2>2. g = SubSeq(s, m, L)
    OBVIOUS
  <2> HIDE DEF m, g, L
  <2>3. /\ g \in Seq(S) /\ Len(g) = IF m =< L THEN L - m + 1 ELSE 0
        /\ \A i \in 1..(L - m + 1) : g[i] = s[m + i - 1]
    BY <2>1, <2>2, SubSeqProperties
  <2>4. Len(g) = L - n
    BY <1>1, <2>3 DEF m
  <2>5. \A i \in 1..(L - n) : i \in 1..(L - m + 1) /\ m + i - 1 = n + i
    BY <1>1 DEF m
  <2>6. QED
    BY <2>3, <2>4, <2>5
<1> HIDE DEF f, g
<1>4. /\ f \o g \in Seq(S) /\ Len(f \o g) = Len(f) + Len(g)
      /\ \A i \in 1..(Len(f) + Len(g)) : (f \o g)[i] = IF i =< Len(f) THEN f[i] ELSE g[i - Len(f)]
  BY <1>2, <1>3, ConcatProperties
<1> HIDE DEF L
<1>5. Len(f \o g) = L /\ \A i \in 1..L : (f \o g)[i] = IF i =< n THEN f[i] ELSE g[i - n]
  BY <1>1, <1>2, <1>3, <1>4
<1>6. \A i \in 1..L : (f \o g)[i] = s[i]
  <2> TAKE i \in 1..L
  <2>1. CASE i =< n
    <3>1. i \in 1..n
      BY <2>1
    <3>2. QED
      BY <1>2, <1>5, <2>1, <3>1
  <2>2. CASE ~(i =< n)
    <3>1. i - n \in 1..(L - n) /\ n + (i - n) = i
      BY <1>1, <2>2
    <3>2. QED
      BY <1>3, <1>5, <2>2, <3>1
  <2>3. QED
    BY <2>1, <2>2
<1>7. f \o g = s
  BY <1>4, <1>5, <1>6, SeqEqual DEF L
<1>8. QED
  BY <1>2, <1>3, <1>7 DEF f, g, L

LEMMA CommonBeginning ==
  ASSUME NEW S, NEW b \in Seq(S), NEW u \in Seq(S), NEW v \in Seq(S), NEW r \in Seq(S),
         b \o u = v \o r
  PROVE  /\ Len(b) \in Nat /\ Len(u) \in Nat /\ Len(v) \in Nat /\ Len(r) \in Nat
         /\ Len(b) + Len(u) = Len(v) + Len(r)
         /\ \A p \in 1..Len(b) : p =< Len(v) => b[p] = v[p]
<1>1. Len(b) \in Nat /\ Len(u) \in Nat /\ Len(v) \in Nat /\ Len(r) \in Nat
  BY LenProperties
<1>2. /\ Len(b \o u) = Len(b) + Len(u)
      /\ \A p \in 1..(Len(b) + Len(u)) : (b \o u)[p] = IF p =< Len(b) THEN b[p] ELSE u[p - Len(b)]
  BY ConcatProperties
<1>3. /\ Len(v \o r) = Len(v) + Len(r)
      /\ \A p \in 1..(Len(v) + Len(r)) : (v \o r)[p] = IF p =< Len(v) THEN v[p] ELSE r[p - Len(v)]
  BY ConcatProperties
<1>4. ASSUME NEW p \in 1..Len(b), p =< Len(v) PROVE b[p] = v[p]
  <2>1. p \in 1..(Len(b) + Len(u)) /\ p =< Len(b)
    BY <1>1
  <2>2. p \in 1..(Len(v) + Len(r))
    BY <1>1, <1>4
  <2>3. QED
    BY <1>2, <1>3, <1>4, <2>1, <2>2
<1>5. QED
  BY <1>1, <1>2, <1>3, <1>4

(* find_event_boundary finds the end of the event that comes next as soon   *)
(* as it is there, and nothing before.                                      *)
BoundariesOf(b) == {i \in 1..(Len(b) - 1) : b[i] = Newline /\ b[i + 1] = Newline}

LEMMA NoBoundaryYet ==
  ASSUME NEW e \in Seq(LineSet), e # <<>>, NEW b \in Seq(Bytes),
         Len(b) < Len(EventBytes(e)), \A p \in 1..Len(b) : b[p] = EventBytes(e)[p]
  PROVE  BoundariesOf(b) = {}
<1> DEFINE v == EventBytes(e)
<1>1. v \in Seq(Bytes) /\ Len(v) \in Nat /\ Len(b) \in Nat
  BY EventLayout, LenProperties
<1>2. \A p \in 1..(Len(v) - 2) : ~(v[p] = Newline /\ v[p + 1] = Newline)
  BY EventHasOneEnd
<1> HIDE DEF v
<1>3. ASSUME NEW i \in 1..(Len(b) - 1) PROVE ~(b[i] = Newline /\ b[i + 1] = Newline)
  <2>1. i \in 1..(Len(v) - 2) /\ i \in 1..Len(b) /\ i + 1 \in 1..Len(b)
    BY <1>1 DEF v
  <2>2. b[i] = v[i] /\ b[i + 1] = v[i + 1]
    BY <2>1 DEF v
  <2>3. QED
    BY <1>2, <2>1, <2>2
<1>4. QED
  BY <1>3 DEF BoundariesOf

LEMMA BoundaryOfEvent ==
  ASSUME NEW e \in Seq(LineSet), e # <<>>, NEW b \in Seq(Bytes), NEW u \in Seq(Bytes),
         NEW r \in Seq(Bytes), b \o u = EventBytes(e) \o r
  PROVE  LET v == EventBytes(e)
             x == SubSeq(b, Len(v) + 1, Len(b))
         IN  /\ BoundariesOf(b) = {} <=> Len(b) < Len(v)
             /\ BoundariesOf(b) # {} => /\ Min(BoundariesOf(b)) + 1 = Len(v)
                                        /\ SubSeq(b, 1, Len(v)) = v
                                        /\ x \in Seq(Bytes) /\ x \o u = r
<1> DEFINE v == EventBytes(e)
           x == SubSeq(b, Len(v) + 1, Len(b))
           B == BoundariesOf(b)
<1>1. v \in Seq(Bytes)
  BY EventLayout
<1>2. /\ v[Len(v) - 1] = Newline /\ v[Len(v)] = Newline
      /\ \A p \in 1..(Len(v) - 2) : ~(v[p] = Newline /\ v[p + 1] = Newline)
  BY EventHasOneEnd
<1>3. Len(v) > 1
  BY EventLayout, EmptySeq
<1> HIDE DEF v
<1>4. b \o u = v \o r
  BY DEF v
<1>5. /\ Len(b) \in Nat /\ Len(u) \in Nat /\ Len(v) \in Nat /\ Len(r) \in Nat
      /\ Len(b) + Len(u) = Len(v) + Len(r)
      /\ \A p \in 1..Len(b) : p =< Len(v) => b[p] = v[p]
  BY <1>1, <1>4, CommonBeginning
<1>6. CASE Len(b) < Len(v)
  <2>1. \A p \in 1..Len(b) : b[p] = v[p]
    BY <1>5, <1>6
  <2>2. B = {}
    BY <1>6, <2>1, NoBoundaryYet DEF v
  <2>3. QED
    BY <1>6, <2>2 DEF v
<1>7. CASE ~(Len(b) < Len(v))
  <2>1. Len(v) - 1 \in 1..(Len(b) - 1) /\ Len(v) - 1 \in 1..Len(b) /\ Len(v) \in 1..Len(b)
        /\ (Len(v) - 1) + 1 = Len(v)
    BY <1>3, <1>5, <1>7
  <2>2. Len(v) - 1 \in B
    <3> DEFINE k == Len(v) - 1
    <3>1. k + 1 = Len(v) /\ k =< Len(v) /\ k \in 1..Len(b) /\ k + 1 \in 1..Len(b)
      BY <1>5, <2>1
    <3>2. v[k] = Newline /\ v[k + 1] = Newline
      BY <1>2, <3>1
    <3>3. k \in 1..(Len(b) - 1)
      BY <2>1
    <3> HIDE DEF k
    <3>4. b[k] = Newline /\ b[k + 1] = Newline
      BY <1>5, <3>1, <3>2
    <3>5. k \in B
      BY <3>3, <3>4 DEF BoundariesOf
    <3>6. QED
      BY <3>5 DEF k
  <2>3. \A i \in B : ~(i \in 1..(Len(v) - 2))
    <3> TAKE i \in B
    <3>1. i \in 1..(Len(b) - 1) /\ b[i] = Newline /\ b[i + 1] = Newline
      BY DEF BoundariesOf
    <3>2. SUFFICES ASSUME i \in 1..(Len(v) - 2) PROVE FALSE
      OBVIOUS
    <3>3. i \in 1..Len(b) /\ i =< Len(v) /\ i + 1 \in 1..Len(b) /\ i + 1 =< Len(v)
      BY <1>5, <1>7, <3>1, <3>2
    <3>4. v[i] = Newline /\ v[i + 1] = Newline
      BY <1>5, <3>1, <3>3
    <3>5. QED
      BY <1>2, <3>2, <3>4
  <2>4. B \in SUBSET Nat /\ B # {}
    <3>1. B \subseteq 1..(Len(b) - 1)
      BY DEF BoundariesOf
    <3> HIDE DEF B
    <3>2. QED
      BY <2>2, <3>1
  <2> HIDE DEF B
  <2>5. Min(B) \in B /\ \A i \in B : Min(B) =< i
    BY <2>4, MinOf
  <2>6. Min(B) \in 1..(Len(b) - 1)
    BY <2>5 DEF B, BoundariesOf
  <2>7. Min(B) + 1 = Len(v)
    BY <1>5, <2>2, <2>3, <2>5, <2>6
  <2>8. /\ SubSeq(b, 1, Len(v)) \in Seq(Bytes) /\ x \in Seq(Bytes)
        /\ Len(SubSeq(b, 1, Len(v))) = Len(v)
        /\ \A i \in 1..Len(v) : SubSeq(b, 1, Len(v))[i] = b[i]
        /\ SubSeq(b, 1, Len(v)) \o x = b
    <3>1. Len(v) \in 0..Len(b)
      BY <2>1
    <3>2. QED
      BY <3>1, CutInTwo
  <2> DEFINE f == SubSeq(b, 1, Len(v))
  <2> HIDE DEF x, f
  <2>9. f = v
    <3>1. \A i \in 1..Len(v) : i \in 1..Len(b) /\ i =< Len(v)
      BY <1>5, <1>7
    <3>2. \A i \in 1..Len(v) : f[i] = v[i]
      BY <1>5, <2>8, <3>1 DEF f
    <3>3. f \in Seq(Bytes) /\ Len(f) = Len(v)
      BY <2>8 DEF f
    <3>4. QED
      BY <1>1, <3>2, <3>3, SeqEqual
  <2>10. x \o u = r
    <3>1. x \in Seq(Bytes) /\ v \o x = b
      BY <2>8, <2>9 DEF f
    <3>2. (v \o x) \o u = v \o (x \o u)
      BY <1>1, <3>1, BytesAssociate
    <3> x \o u \in Seq(Bytes)
      BY <3>1, ConcatProperties
    <3>3. v \o (x \o u) = v \o r
      BY <1>4, <3>1, <3>2
    <3>4. \A s, t, w \in Seq(Bytes) : s \o t = s \o w => t = w
      BY ConcatSimplifications
    <3>5. QED
      BY <1>1, <3>2, <3>3, <3>4
  <2>11. QED
    BY <1>7, <2>4, <2>7, <2>8, <2>9, <2>10 DEF v, x, B, f
<1>8. QED
  BY <1>6, <1>7
-----------------------------------------------------------------------------
(* What a server may leave of an event that it does not finish.             *)
Tails == {<<>>} \cup UNION {Prefixes(Front(EventBytes(e))) : e \in Events}

LEMMA EventsAreLines == Events \subseteq Seq(LineSet) \ {<<>>}
BY StreamAssumption

LEMMA TailHasNoEnd ==
  ASSUME NEW t \in Tails
  PROVE  /\ t \in Seq(Bytes)
         /\ \A b, u \in Seq(Bytes) : b \o u = t => BoundariesOf(b) = {}
<1>1. CASE t = <<>>
  <2>1. t \in Seq(Bytes)
    BY <1>1
  <2>2. ASSUME NEW b \in Seq(Bytes), NEW u \in Seq(Bytes), b \o u = t PROVE BoundariesOf(b) = {}
    <3>1. Len(b) = 0
      <4>1. b = <<>>
        BY <1>1, <2>2, ConcatSimplifications
      <4>2. QED
        BY <4>1
    <3>2. \A i : i \notin 1..(Len(b) - 1)
      BY <3>1
    <3>3. QED
      BY <3>2 DEF BoundariesOf
  <2>3. QED
    BY <2>1, <2>2
<1>2. CASE t # <<>>
  <2>1. PICK e \in Events : t \in Prefixes(Front(EventBytes(e)))
    BY <1>2 DEF Tails
  <2> DEFINE v == EventBytes(e)
             w == Front(v)
  <2>2. e \in Seq(LineSet) /\ e # <<>>
    BY EventsAreLines
  <2>3. v \in Seq(Bytes) /\ Len(v) \in Nat /\ Len(v) >= 1
    BY <2>2, EventLayout, LenProperties
  <2>4. PICK l \in 0..Len(w) : t = SubSeq(w, 1, l)
    BY <2>1 DEF Prefixes
  <2> HIDE DEF v
  <2>5. w \in Seq(Bytes) /\ Len(w) = Len(v) - 1 /\ \A i \in 1..Len(w) : w[i] = v[i]
    <3> DEFINE k == Len(v) - 1
    <3>1. k \in 0..Len(v)
      BY <2>3
    <3>2. w = SubSeq(v, 1, k)
      BY DEF Front
    <3> HIDE DEF k, w
    <3>3. /\ SubSeq(v, 1, k) \in Seq(Bytes) /\ Len(SubSeq(v, 1, k)) = k
          /\ \A i \in 1..k : SubSeq(v, 1, k)[i] = v[i]
      BY <2>3, <3>1, CutInTwo
    <3>4. QED
      BY <3>2, <3>3 DEF k
  <2> HIDE DEF w
  <2>6. t \in Seq(Bytes) /\ Len(t) = l /\ \A i \in 1..l : t[i] = w[i]
    BY <2>4, <2>5, CutInTwo
  <2>7. l \in Nat /\ l < Len(v) /\ l =< Len(w)
    BY <2>3, <2>4, <2>5
  <2>8. ASSUME NEW b \in Seq(Bytes), NEW u \in Seq(Bytes), b \o u = t PROVE BoundariesOf(b) = {}
    <3> DEFINE none == <<>>
    <3>1. b \o u = t \o none /\ none \in Seq(Bytes) /\ Len(none) = 0
      BY <2>6, <2>8, ConcatEmptySeq
    <3> HIDE DEF none
    <3>2. /\ Len(b) \in Nat /\ Len(u) \in Nat /\ Len(b) + Len(u) = Len(t) + Len(none)
          /\ \A p \in 1..Len(b) : p =< Len(t) => b[p] = t[p]
      BY <2>6, <3>1, CommonBeginning
    <3>3. Len(b) =< l
      BY <2>6, <2>7, <3>1, <3>2
    <3>4. \A p \in 1..Len(b) : p \in 1..l /\ p \in 1..Len(w)
      BY <2>7, <3>2, <3>3
    <3>5. ASSUME NEW p \in 1..Len(b) PROVE b[p] = v[p]
      <4>1. p \in 1..l /\ p \in 1..Len(w) /\ p =< Len(t)
        BY <2>6, <3>4
      <4>2. b[p] = t[p]
        BY <3>2, <4>1
      <4>3. t[p] = w[p] /\ w[p] = v[p]
        BY <2>5, <2>6, <4>1
      <4>4. QED
        BY <4>2, <4>3
    <3>6. Len(b) < Len(v)
      BY <2>3, <2>7, <3>2, <3>3
    <3>7. QED
      BY <2>2, <3>5, <3>6, NoBoundaryYet DEF v
  <2>9. QED
    BY <2>6, <2>8
<1>3. QED
  BY <1>1, <1>2

-----------------------------------------------------------------------------
(* The client has had a beginning of what it is promised; the bytes that    *)
(* have arrived and that have not are those of the rest.                    *)
StreamInv ==
  /\ sent \in Seq(Events) /\ tail \in Tails
  /\ buffer \in Seq(Bytes) /\ upstream \in Seq(Bytes)
  /\ out \in Seq(Seq(Bytes)) /\ Len(out) =< Len(Client!events)
  /\ \A i \in 1..Len(out) : out[i] = Client!events[i]
  /\ Len(out) =< Len(sent) => buffer \o upstream = RestOf(sent, tail, Len(out))
  /\ Len(out) > Len(sent) => buffer = <<>> /\ upstream = <<>>
  /\ status = "closed" => buffer = <<>> /\ upstream = <<>> /\ Len(out) = Len(Client!events)

LEMMA WhatIsPromised ==
  ASSUME sent \in Seq(Events), tail \in Tails
  PROVE  /\ sent \in Seq(Seq(LineSet)) /\ Len(sent) \in Nat /\ tail \in Seq(Bytes)
         /\ Client!events \in Seq(Seq(Bytes))
         /\ Len(Client!events) = Len(sent) + (IF tail = <<>> THEN 0 ELSE 1)
         /\ \A i \in 1..Len(sent) : /\ Client!events[i] = Promised(sent[i])
                                     /\ sent[i] \in Seq(LineSet) /\ sent[i] # <<>>
         /\ tail # <<>> => Client!events[Len(sent) + 1] = tail
<1> DEFINE n == Len(sent)
           whole == [i \in DOMAIN sent |-> Promised(sent[i])]
           part == IF tail = <<>> THEN <<>> ELSE <<tail>>
<1>1. n \in Nat /\ DOMAIN sent = 1..n /\ \A i \in 1..n : sent[i] \in Events
  BY LenProperties, ElementOfSeq
<1>2. \A i \in 1..n : sent[i] \in Seq(LineSet) /\ sent[i] # <<>>
  BY <1>1, EventsAreLines
<1>3. \A i \in 1..n : Promised(sent[i]) \in Seq(Bytes)
  BY <1>2, PromisedLayout
<1>4. whole \in Seq(Seq(Bytes)) /\ Len(whole) = n /\ \A i \in 1..n : whole[i] = Promised(sent[i])
  BY <1>1, <1>3
<1>5. tail \in Seq(Bytes)
  BY TailHasNoEnd
<1>6. /\ part \in Seq(Seq(Bytes)) /\ Len(part) = (IF tail = <<>> THEN 0 ELSE 1)
      /\ tail # <<>> => part[1] = tail
  BY <1>5
<1>7. sent \in Seq(Seq(LineSet))
  BY EventsAreLines
<1>8. Client!events = whole \o part
  BY DEF Client!events
<1> HIDE DEF whole, part, n
<1>9. /\ whole \o part \in Seq(Seq(Bytes)) /\ Len(whole \o part) = Len(whole) + Len(part)
      /\ \A i \in 1..(Len(whole) + Len(part)) :
           (whole \o part)[i] = IF i =< Len(whole) THEN whole[i] ELSE part[i - Len(whole)]
  BY <1>4, <1>6, ConcatProperties
<1>10. \A i \in 1..n : i \in 1..(Len(whole) + Len(part)) /\ i =< Len(whole)
  BY <1>1, <1>4, <1>6
<1>11. \A i \in 1..n : (whole \o part)[i] = Promised(sent[i])
  BY <1>4, <1>9, <1>10
<1>12. tail # <<>> => (whole \o part)[n + 1] = tail
  <2> SUFFICES ASSUME tail # <<>> PROVE (whole \o part)[n + 1] = tail
    OBVIOUS
  <2>1. Len(part) = 1 /\ part[1] = tail
    BY <1>6
  <2>2. n + 1 \in 1..(Len(whole) + Len(part)) /\ ~(n + 1 =< Len(whole)) /\ (n + 1) - Len(whole) = 1
    BY <1>1, <1>4, <2>1
  <2>3. QED
    BY <1>9, <2>1, <2>2
<1>13. QED
  BY <1>1, <1>2, <1>4, <1>5, <1>6, <1>7, <1>8, <1>9, <1>11, <1>12 DEF n

(* A block that find_event_boundary cuts off is the event that comes next.  *)
LEMMA NextIsEvent ==
  ASSUME StreamInv, Boundaries # {}
  PROVE  /\ Len(out) \in Nat /\ Len(out) < Len(sent)
         /\ Annotated(SubSeq(buffer, 1, Min(Boundaries) + 1)) = Promised(sent[Len(out) + 1])
         /\ SubSeq(buffer, (Min(Boundaries) + 1) + 1, Len(buffer)) \in Seq(Bytes)
         /\ SubSeq(buffer, (Min(Boundaries) + 1) + 1, Len(buffer)) \o upstream
              = RestOf(sent, tail, Len(out) + 1)
<1> DEFINE m == Len(out)
           n == Len(sent)
<1>1. Boundaries = BoundariesOf(buffer)
  BY DEF Boundaries, BoundariesOf
<1>2. /\ sent \in Seq(Events) /\ tail \in Tails /\ buffer \in Seq(Bytes) /\ upstream \in Seq(Bytes)
      /\ m =< n => buffer \o upstream = RestOf(sent, tail, m)
      /\ m > n => buffer = <<>>
  BY DEF StreamInv
<1>3. m \in Nat /\ n \in Nat /\ sent \in Seq(Seq(LineSet)) /\ tail \in Seq(Bytes)
      /\ \A i \in 1..n : sent[i] \in Seq(LineSet) /\ sent[i] # <<>>
  BY <1>2, WhatIsPromised, LenProperties DEF StreamInv
<1>4. m =< n
  <2>1. BoundariesOf(<<>>) = {}
    <3>1. \A i : i \notin 1..(Len(<<>>) - 1)
      OBVIOUS
    <3>2. QED
      BY <3>1 DEF BoundariesOf
  <2>2. QED
    BY <1>1, <1>2, <1>3, <2>1
<1>5. m # n
  <2>1. SUFFICES ASSUME m = n PROVE FALSE
    OBVIOUS
  <2>2. RestOf(sent, tail, n) = tail
    BY <1>3, RestAtEnd
  <2>3. buffer \o upstream = tail
    BY <1>2, <1>4, <2>1, <2>2
  <2>4. QED
    BY <1>1, <1>2, <2>3, TailHasNoEnd
<1>6. m < n /\ m \in 0..(n - 1) /\ m + 1 \in 1..n
  BY <1>3, <1>4, <1>5
<1> DEFINE e == sent[m + 1]
           r == RestOf(sent, tail, m + 1)
           v == EventBytes(e)
<1>7. e \in Seq(LineSet) /\ e # <<>>
  BY <1>3, <1>6
<1>8. r \in Seq(Bytes) /\ buffer \o upstream = v \o r
  BY <1>2, <1>3, <1>4, <1>6, RestStep
<1> HIDE DEF e, r, m, n, v
<1>9. /\ Min(BoundariesOf(buffer)) + 1 = Len(v)
      /\ SubSeq(buffer, 1, Len(v)) = v
      /\ SubSeq(buffer, Len(v) + 1, Len(buffer)) \in Seq(Bytes)
      /\ SubSeq(buffer, Len(v) + 1, Len(buffer)) \o upstream = r
  BY <1>1, <1>2, <1>7, <1>8, BoundaryOfEvent DEF v
<1>10. Annotated(v) = Promised(e)
  BY <1>7, AnnotatedIsPromised DEF v
<1>11. QED
  BY <1>1, <1>3, <1>6, <1>9, <1>10 DEF e, r, m, n

(* When the server is read again, what has arrived of the next event is not *)
(* the whole of it; when there is nothing more to read, there is only what  *)
(* the server left unfinished.                                              *)
LEMMA NextIsMissing ==
  ASSUME StreamInv, Boundaries = {}, Len(out) < Len(sent)
  PROVE  /\ sent[Len(out) + 1] \in Seq(LineSet)
         /\ Len(buffer) < Len(EventBytes(sent[Len(out) + 1]))
         /\ upstream # <<>>
<1> DEFINE m == Len(out)
           n == Len(sent)
<1>1. Boundaries = BoundariesOf(buffer)
  BY DEF Boundaries, BoundariesOf
<1>2. /\ sent \in Seq(Events) /\ tail \in Tails /\ buffer \in Seq(Bytes) /\ upstream \in Seq(Bytes)
      /\ m =< n => buffer \o upstream = RestOf(sent, tail, m)
  BY DEF StreamInv
<1>3. m \in Nat /\ n \in Nat /\ sent \in Seq(Seq(LineSet)) /\ tail \in Seq(Bytes)
      /\ \A i \in 1..n : sent[i] \in Seq(LineSet) /\ sent[i] # <<>>
  BY <1>2, WhatIsPromised, LenProperties DEF StreamInv
<1>4. m =< n /\ m \in 0..(n - 1) /\ m + 1 \in 1..n
  BY <1>3
<1> DEFINE e == sent[m + 1]
           r == RestOf(sent, tail, m + 1)
           v == EventBytes(e)
<1>5. e \in Seq(LineSet) /\ e # <<>>
  BY <1>3, <1>4
<1>6. v \in Seq(Bytes) /\ r \in Seq(Bytes) /\ buffer \o upstream = v \o r
  BY <1>2, <1>3, <1>4, RestStep
<1> HIDE DEF e, r, m, n, v
<1>7. Len(buffer) < Len(v)
  BY <1>1, <1>2, <1>5, <1>6, BoundaryOfEvent DEF v
<1>8. upstream # <<>>
  <2>1. /\ Len(buffer) \in Nat /\ Len(upstream) \in Nat /\ Len(v) \in Nat /\ Len(r) \in Nat
        /\ Len(buffer) + Len(upstream) = Len(v) + Len(r)
    BY <1>2, <1>6, CommonBeginning
  <2>2. Len(upstream) # 0
    BY <1>7, <2>1
  <2>3. QED
    BY <2>2
<1>9. QED
  BY <1>5, <1>7, <1>8 DEF e, m, v

LEMMA OnlyTailLeft ==
  ASSUME StreamInv, Boundaries = {}, upstream = <<>>
  PROVE  /\ Len(out) >= Len(sent)
         /\ Len(out) = Len(sent) => buffer = tail
         /\ buffer # <<>> => Len(out) = Len(sent)
         /\ buffer = <<>> => Len(out) = Len(Client!events)
<1> DEFINE m == Len(out)
           n == Len(sent)
<1>1. /\ sent \in Seq(Events) /\ tail \in Tails /\ buffer \in Seq(Bytes)
      /\ m =< Len(Client!events)
      /\ m =< n => buffer \o upstream = RestOf(sent, tail, m)
      /\ m > n => buffer = <<>>
  BY DEF StreamInv
<1>2. /\ m \in Nat /\ n \in Nat /\ sent \in Seq(Seq(LineSet)) /\ tail \in Seq(Bytes)
      /\ Len(Client!events) = n + (IF tail = <<>> THEN 0 ELSE 1)
  BY <1>1, WhatIsPromised, LenProperties DEF StreamInv
<1>3. m >= n
  BY <1>2, NextIsMissing
<1>4. m = n => buffer = tail
  <2>1. RestOf(sent, tail, n) = tail
    BY <1>2, RestAtEnd
  <2>2. buffer \o upstream = buffer
    BY <1>1, ConcatEmptySeq
  <2>3. QED
    BY <1>1, <1>2, <2>1, <2>2
<1>5. buffer # <<>> => m = n
  BY <1>1, <1>2, <1>3
<1>6. buffer = <<>> => m = Len(Client!events)
  <2> HIDE DEF m, n
  <2>1. QED
    BY <1>1, <1>2, <1>3, <1>4
<1>7. QED
  BY <1>3, <1>4, <1>5, <1>6

LEMMA StreamStarts == Init => StreamInv
<1> SUFFICES ASSUME Init PROVE StreamInv
  OBVIOUS
<1> DEFINE n == Len(sent)
<1>1. sent \in Seq(Events)
  <2>1. PICK k \in 0..MaxEvents : sent \in [1..k -> Events]
    BY DEF Init, TupleOf
  <2>2. k \in Nat
    BY StreamAssumption
  <2>3. QED
    BY <2>1, <2>2
<1>2. tail \in Tails
  BY DEF Init, Tails
<1>3. /\ n \in Nat /\ sent \in Seq(Seq(LineSet)) /\ tail \in Seq(Bytes)
      /\ Len(Client!events) = n + (IF tail = <<>> THEN 0 ELSE 1)
  BY <1>1, <1>2, WhatIsPromised
<1>4. buffer = <<>> /\ out = <<>> /\ status = "open"
      /\ upstream = FlattenSeq([i \in DOMAIN sent |-> EventBytes(sent[i])]) \o tail
  BY DEF Init
<1>5. Len(out) = 0 /\ buffer \in Seq(Bytes) /\ out \in Seq(Seq(Bytes))
  BY <1>4
<1>6. upstream = RestOf(sent, tail, 0)
  <2>1. DOMAIN sent = 1..n /\ n - 0 = n /\ \A i \in 1..n : 0 + i = i
    BY <1>1, <1>3, LenProperties
  <2>2. RestEvents(sent, 0) = [i \in DOMAIN sent |-> EventBytes(sent[i])]
    BY <2>1 DEF RestEvents
  <2>3. QED
    BY <1>4, <2>2 DEF RestOf
<1>7. upstream \in Seq(Bytes)
  <2>1. 0 \in 0..n
    BY <1>3
  <2>2. QED
    BY <1>3, <1>6, <2>1, RestType
<1>8. buffer \o upstream = upstream
  BY <1>4, <1>7, ConcatEmptySeq
<1>9. Len(out) =< Len(Client!events) /\ ~(Len(out) > Len(sent))
      /\ \A i \in 1..Len(out) : out[i] = Client!events[i]
  BY <1>3, <1>5
<1>10. QED
  BY <1>1, <1>2, <1>4, <1>5, <1>6, <1>7, <1>8, <1>9 DEF StreamInv

(* Another block of those that are promised is given.                       *)
LEMMA NextIsGiven ==
  ASSUME StreamInv, sent' = sent, tail' = tail, Len(out) < Len(Client!events),
         out' = Append(out, Client!events[Len(out) + 1])
  PROVE  /\ Client!events' = Client!events
         /\ out' \in Seq(Seq(Bytes)) /\ Len(out') = Len(out) + 1 /\ Len(out) \in Nat
         /\ Len(out') =< Len(Client!events')
         /\ \A i \in 1..Len(out') : out'[i] = Client!events'[i]
<1> DEFINE ev == Client!events
           m == Len(out)
           block == ev[m + 1]
           longer == Append(out, block)
<1>1. ev' = ev
  BY DEF Client!events
<1>2. /\ out \in Seq(Seq(Bytes)) /\ \A i \in 1..m : out[i] = ev[i]
  BY DEF StreamInv
<1>3. ev \in Seq(Seq(Bytes)) /\ Len(ev) \in Nat /\ m \in Nat
  BY <1>2, WhatIsPromised, LenProperties DEF StreamInv
<1>4. m + 1 \in 1..Len(ev)
  BY <1>3
<1>5. block \in Seq(Bytes)
  <2> HIDE DEF ev, m
  <2>1. QED
    BY <1>3, <1>4, ElementOfSeq
<1> HIDE DEF ev, m, block
<1>6. /\ longer \in Seq(Seq(Bytes)) /\ Len(longer) = m + 1 /\ longer[m + 1] = block
      /\ \A i \in 1..m : longer[i] = out[i]
  BY <1>2, <1>5, AppendProperties DEF m
<1>7. out' = longer
  BY DEF ev, m, block
<1> HIDE DEF longer
<1>8. \A i \in 1..(m + 1) : longer[i] = ev[i]
  <2> TAKE i \in 1..(m + 1)
  <2>1. CASE i = m + 1
    BY <1>6, <2>1 DEF block
  <2>2. CASE i # m + 1
    <3>1. i \in 1..m
      BY <1>3, <2>2
    <3>2. QED
      BY <1>2, <1>6, <3>1
  <2>3. QED
    BY <2>1, <2>2
<1>9. m + 1 =< Len(ev)
  BY <1>3, <1>4
<1>10. QED
  <2>1. Len(out') = m + 1 /\ out' \in Seq(Seq(Bytes)) /\ \A i \in 1..Len(out') : out'[i] = ev[i]
    BY <1>6, <1>7, <1>8
  <2>2. QED
    BY <1>1, <1>3, <1>9, <2>1 DEF ev, m

LEMMA GiveEventIsDeliver ==
  ASSUME StreamInv, GiveEvent, sent' = sent, tail' = tail
  PROVE  Client!Deliver /\ StreamInv'
<1> DEFINE m == Len(out)
           end == Min(Boundaries) + 1
           rest == SubSeq(buffer, end + 1, Len(buffer))
           block == Annotated(SubSeq(buffer, 1, end))
<1>1. status = "open" /\ Boundaries # {} /\ status' = status
      /\ out' = Append(out, block) /\ buffer' = rest /\ upstream' = upstream
  BY DEF GiveEvent, Give
<1>2. /\ m \in Nat /\ m < Len(sent) /\ block = Promised(sent[m + 1])
      /\ rest \in Seq(Bytes) /\ rest \o upstream = RestOf(sent, tail, m + 1)
  BY <1>1, NextIsEvent
<1> HIDE DEF rest, block
<1>3. /\ sent \in Seq(Events) /\ tail \in Tails /\ upstream \in Seq(Bytes)
  BY DEF StreamInv
<1>4. /\ Len(sent) \in Nat /\ Len(Client!events) = Len(sent) + (IF tail = <<>> THEN 0 ELSE 1)
      /\ \A i \in 1..Len(sent) : Client!events[i] = Promised(sent[i])
  BY <1>3, WhatIsPromised
<1>5. m < Len(Client!events) /\ m + 1 \in 1..Len(sent)
  BY <1>2, <1>4
<1>6. out' = Append(out, Client!events[m + 1])
  BY <1>1, <1>2, <1>4, <1>5
<1>7. /\ out' \in Seq(Seq(Bytes)) /\ Len(out') = m + 1
      /\ Len(out') =< Len(Client!events')
      /\ \A i \in 1..Len(out') : out'[i] = Client!events'[i]
  BY <1>5, <1>6, NextIsGiven
<1>8. Client!Deliver
  BY <1>1, <1>5, <1>6 DEF Client!Deliver
<1>9. Len(out') =< Len(sent') /\ ~(Len(out') > Len(sent'))
  BY <1>2, <1>4, <1>7
<1> HIDE DEF m
<1>10. buffer' \o upstream' = RestOf(sent', tail', Len(out'))
  <2>1. rest \o upstream = RestOf(sent, tail, m + 1)
    BY <1>2
  <2>2. QED
    BY <1>1, <1>7, <2>1
<1>11. StreamInv'
  BY <1>1, <1>2, <1>3, <1>7, <1>9, <1>10 DEF StreamInv
<1>12. QED
  BY <1>8, <1>11

LEMMA FlushIsDeliver ==
  ASSUME StreamInv, FlushTrailing, sent' = sent, tail' = tail
  PROVE  Client!Deliver /\ StreamInv'
<1> DEFINE m == Len(out)
<1>1. status = "open" /\ Boundaries = {} /\ upstream = <<>> /\ buffer # <<>> /\ status' = status
      /\ out' = Append(out, buffer) /\ buffer' = <<>> /\ upstream' = upstream
  BY DEF FlushTrailing, AtEnd, Give
<1>2. m = Len(sent) /\ buffer = tail
  BY <1>1, OnlyTailLeft
<1>3. /\ sent \in Seq(Events) /\ tail \in Tails
  BY DEF StreamInv
<1>4. /\ Len(sent) \in Nat /\ Len(Client!events) = Len(sent) + (IF tail = <<>> THEN 0 ELSE 1)
      /\ tail # <<>> => Client!events[Len(sent) + 1] = tail
  BY <1>3, WhatIsPromised
<1>5. m < Len(Client!events) /\ out' = Append(out, Client!events[m + 1])
  BY <1>1, <1>2, <1>4
<1>6. /\ out' \in Seq(Seq(Bytes)) /\ Len(out') = m + 1
      /\ Len(out') =< Len(Client!events')
      /\ \A i \in 1..Len(out') : out'[i] = Client!events'[i]
  BY <1>5, NextIsGiven
<1>7. Client!Deliver
  BY <1>1, <1>5 DEF Client!Deliver
<1>8. Len(out') > Len(sent') /\ ~(Len(out') =< Len(sent'))
  BY <1>2, <1>4, <1>6
<1>9. buffer' \in Seq(Bytes) /\ upstream' \in Seq(Bytes) /\ buffer' = <<>> /\ upstream' = <<>>
  BY <1>1
<1>10. StreamInv'
  BY <1>1, <1>3, <1>6, <1>8, <1>9 DEF StreamInv
<1>11. QED
  BY <1>7, <1>10

LEMMA ReadChunkMoves ==
  ASSUME StreamInv, ReadChunk, sent' = sent, tail' = tail
  PROVE  UNCHANGED Client!vars /\ StreamInv'
<1>1. PICK k \in DOMAIN upstream : /\ buffer' = buffer \o SubSeq(upstream, 1, k)
                                   /\ upstream' = SubSeq(upstream, k + 1, Len(upstream))
  BY DEF ReadChunk
<1>2. out' = out /\ status' = status /\ status = "open"
  BY DEF ReadChunk
<1>3. buffer \in Seq(Bytes) /\ upstream \in Seq(Bytes)
  BY DEF StreamInv
<1>4. k \in 1..Len(upstream) /\ k \in 0..Len(upstream) /\ upstream # <<>>
  <2>1. DOMAIN upstream = 1..Len(upstream) /\ Len(upstream) \in Nat
    BY <1>3, LenProperties
  <2>2. k \in 1..Len(upstream) /\ k \in 0..Len(upstream)
    BY <2>1
  <2>3. Len(upstream) # 0
    BY <2>1, <2>2
  <2>4. QED
    BY <2>2, <2>3
<1> DEFINE f == SubSeq(upstream, 1, k)
           g == SubSeq(upstream, k + 1, Len(upstream))
<1>5. f \in Seq(Bytes) /\ g \in Seq(Bytes) /\ f \o g = upstream
  BY <1>3, <1>4, CutInTwo
<1>6. buffer' = buffer \o f /\ upstream' = g
  BY <1>1
<1> HIDE DEF f, g
<1>7. (buffer \o f) \o g = buffer \o (f \o g) /\ buffer \o f \in Seq(Bytes)
  <2>1. (buffer \o f) \o g = buffer \o (f \o g)
    BY <1>3, <1>5, BytesAssociate
  <2>2. buffer \o f \in Seq(Bytes)
    BY <1>3, <1>5, ConcatProperties
  <2>3. QED
    BY <2>1, <2>2
<1>8. buffer' \o upstream' = buffer \o upstream /\ buffer' \in Seq(Bytes) /\ upstream' \in Seq(Bytes)
  BY <1>5, <1>6, <1>7
<1>9. Client!events' = Client!events
  BY DEF Client!events
<1>10. Len(out) \in Nat /\ Len(sent) \in Nat
  BY LenProperties DEF StreamInv
<1>11. ~(Len(out) > Len(sent))
  BY <1>4 DEF StreamInv
<1>12. StreamInv'
  BY <1>2, <1>8, <1>9, <1>11 DEF StreamInv
<1>13. UNCHANGED Client!vars
  BY <1>2 DEF Client!vars
<1>14. QED
  BY <1>12, <1>13

LEMMA EndIsPromised ==
  ASSUME StreamInv, Close \/ Break \/ Leave, sent' = sent, tail' = tail
  PROVE  (Client!Close \/ Client!Stop) /\ StreamInv'
<1>1. out' = out /\ buffer' = buffer /\ upstream' = upstream /\ status = "open"
  BY DEF Close, Break, Leave, Settle, AtEnd
<1>2. Client!events' = Client!events
  BY DEF Client!events
<1>3. CASE Close
  <2>1. status' = "closed" /\ Boundaries = {} /\ upstream = <<>> /\ buffer = <<>>
    BY <1>3 DEF Close, AtEnd, Settle
  <2>2. Len(out) = Len(Client!events)
    BY <2>1, OnlyTailLeft
  <2>3. out = Client!events
    <3>1. /\ out \in Seq(Seq(Bytes)) /\ \A i \in 1..Len(out) : out[i] = Client!events[i]
      BY DEF StreamInv
    <3>2. Client!events \in Seq(Seq(Bytes))
      BY WhatIsPromised DEF StreamInv
    <3>3. QED
      BY <2>2, <3>1, <3>2, SeqEqual
  <2>4. Client!Close
    BY <1>1, <2>1, <2>3 DEF Client!Close
  <2>5. StreamInv'
    BY <1>1, <1>2, <2>1, <2>2 DEF StreamInv
  <2>6. QED
    BY <2>4, <2>5
<1>4. CASE Break \/ Leave
  <2>1. status' \in {"broken", "left"}
    BY <1>4 DEF Break, Leave, Settle
  <2>2. Client!Stop
    BY <1>1, <2>1 DEF Client!Stop
  <2>3. StreamInv'
    BY <1>1, <1>2, <2>1 DEF StreamInv
  <2>4. QED
    BY <2>2, <2>3
<1>5. QED
  BY <1>3, <1>4

LEMMA StreamStep ==
  ASSUME StreamInv, [Next]_vars
  PROVE  [Client!Next]_(Client!vars) /\ StreamInv'
<1>1. CASE UNCHANGED vars
  <2>1. UNCHANGED <<sent, tail, buffer, upstream, out, status>>
    BY <1>1 DEF vars
  <2>2. Client!events' = Client!events
    BY <2>1 DEF Client!events
  <2>3. StreamInv'
    BY <2>1, <2>2 DEF StreamInv
  <2>4. UNCHANGED Client!vars
    BY <2>1 DEF Client!vars
  <2>5. QED
    BY <2>3, <2>4
<1>2. CASE Next
  <2>1. sent' = sent /\ tail' = tail /\ (Poll \/ Break \/ Leave)
    BY <1>2 DEF Next
  <2>2. CASE GiveEvent
    BY <2>1, <2>2, GiveEventIsDeliver DEF Client!Next
  <2>3. CASE ReadChunk
    BY <2>1, <2>3, ReadChunkMoves
  <2>4. CASE FlushTrailing
    BY <2>1, <2>4, FlushIsDeliver DEF Client!Next
  <2>5. CASE Close \/ Break \/ Leave
    BY <2>1, <2>5, EndIsPromised DEF Client!Next
  <2>6. QED
    BY <2>1, <2>2, <2>3, <2>4, <2>5 DEF Poll
<1>3. QED
  BY <1>1, <1>2

(* LaneAnnotatingStream neither loses nor adds nor moves a byte.            *)
THEOREM StreamInvariant == Spec => []StreamInv
<1>1. Init => StreamInv
  BY StreamStarts
<1>2. StreamInv /\ [Next]_vars => StreamInv'
  BY StreamStep
<1>3. QED
  BY <1>1, <1>2, PTL DEF Spec

(* However an answer is cut into chunks, its client is given what it is     *)
(* promised: LaneAnnotatingStream's poll_next re-emits the server's events  *)
(* one by one, in order, each with the lane in its first data line if that  *)
(* is JSON, then what the server left unfinished, and closes only when all  *)
(* of it has been given.                                                    *)
THEOREM ClientGetsWhatIsPromised ==
  Spec => Client!Init /\ [][Client!Next]_(Client!vars)
<1>1. Init => Client!Init
  BY DEF Init, Client!Init
<1>2. StreamInv /\ [Next]_vars => [Client!Next]_(Client!vars)
  BY StreamStep
<1>3. QED
  BY <1>1, <1>2, StreamInvariant, PTL DEF Spec
-----------------------------------------------------------------------------
(* The bytes of the first k events, and those that come after them.         *)
WireOf(s, k) == FlattenSeq([i \in 1..k |-> EventBytes(s[i])])

LEMMA WireStep ==
  ASSUME NEW s \in Seq(Seq(LineSet)), NEW k \in 0..(Len(s) - 1)
  PROVE  /\ WireOf(s, k) \in Seq(Bytes) /\ EventBytes(s[k + 1]) \in Seq(Bytes)
         /\ WireOf(s, k + 1) = WireOf(s, k) \o EventBytes(s[k + 1])
<1> DEFINE b == EventBytes(s[k + 1])
           ss == [i \in 1..k |-> EventBytes(s[i])]
           tt == [i \in 1..(k + 1) |-> EventBytes(s[i])]
           P == Append(ss, b)
<1>1. Len(s) \in Nat /\ k \in Nat /\ \A i \in 1..(k + 1) : i \in 1..Len(s)
  BY LenProperties
<1>2. \A i \in 1..(k + 1) : EventBytes(s[i]) \in Seq(Bytes)
  BY <1>1, ElementOfSeq, EventLayout
<1>3. ss \in Seq(Seq(Bytes)) /\ Len(ss) = k /\ b \in Seq(Bytes)
      /\ \A i \in 1..k : ss[i] = EventBytes(s[i])
  BY <1>1, <1>2
<1> HIDE DEF ss, b
<1>4. /\ P \in Seq(Seq(Bytes)) /\ Len(P) = k + 1 /\ P[k + 1] = b
      /\ \A i \in 1..k : P[i] = EventBytes(s[i])
  BY <1>3, AppendProperties
<1>5. FlattenSeq(P) = FlattenSeq(ss) \o b /\ FlattenSeq(ss) \in Seq(Bytes)
  BY <1>3, FlattenAppend, FlattenType
<1> HIDE DEF P
<1>6. P = [i \in 1..(k + 1) |-> P[i]]
  BY <1>4, LenProperties
<1>7. \A i \in 1..(k + 1) : P[i] = EventBytes(s[i])
  <2>1. \A i \in 1..(k + 1) : i = k + 1 \/ i \in 1..k
    BY <1>1
  <2>2. QED
    BY <1>4, <2>1 DEF b
<1>8. P = tt
  BY <1>6, <1>7
<1>9. QED
  BY <1>3, <1>5, <1>8 DEF WireOf, ss, b

LEMMA WireAndRest ==
  ASSUME NEW s \in Seq(Seq(LineSet)), NEW t \in Seq(Bytes), NEW k \in 0..Len(s)
  PROVE  WireOf(s, k) \in Seq(Bytes) /\ WireOf(s, k) \o RestOf(s, t, k) = RestOf(s, t, 0)
<1> DEFINE n == Len(s)
           Holds(j) == WireOf(s, j) \in Seq(Bytes) /\ WireOf(s, j) \o RestOf(s, t, j) = RestOf(s, t, 0)
           Bad == {j \in Nat : j =< n /\ ~Holds(j)}
<1>1. n \in Nat
  BY LenProperties
<1>2. Holds(0)
  <2>1. [i \in 1..0 |-> EventBytes(s[i])] = <<>>
    OBVIOUS
  <2>2. WireOf(s, 0) = <<>>
    BY <2>1, FlattenEmpty DEF WireOf
  <2>3. 0 \in 0..n
    BY <1>1
  <2>4. RestOf(s, t, 0) \in Seq(Bytes)
    BY <2>3, RestType
  <2> DEFINE r == RestOf(s, t, 0)
             none == <<>>
  <2>5. none \in Seq(Bytes) /\ none \o r = r
    BY <2>4, ConcatEmptySeq
  <2>6. WireOf(s, 0) = none
    BY <2>2
  <2> HIDE DEF none
  <2>7. QED
    BY <2>5, <2>6
<1>3. ASSUME NEW j \in Nat, j < n, Holds(j) PROVE Holds(j + 1)
  <2>1. j \in 0..(n - 1)
    BY <1>1, <1>3
  <2> DEFINE b == EventBytes(s[j + 1])
             w == WireOf(s, j)
             r == RestOf(s, t, j + 1)
  <2>2. w \in Seq(Bytes) /\ b \in Seq(Bytes) /\ WireOf(s, j + 1) = w \o b
    BY <2>1, WireStep
  <2>3. r \in Seq(Bytes) /\ RestOf(s, t, j) = b \o r
    BY <2>1, RestStep
  <2>4. w \o RestOf(s, t, j) = RestOf(s, t, 0)
    BY <1>3
  <2> HIDE DEF b, w, r
  <2>5. (w \o b) \o r = w \o (b \o r)
    BY <2>2, <2>3, BytesAssociate
  <2>6. w \o b \in Seq(Bytes)
    BY <2>2, ConcatProperties
  <2>7. WireOf(s, j + 1) \o r = RestOf(s, t, 0)
    BY <2>2, <2>3, <2>4, <2>5
  <2>8. QED
    BY <2>2, <2>6, <2>7 DEF r
<1> HIDE DEF Holds
<1>4. Bad = {}
  <2> SUFFICES ASSUME Bad # {} PROVE FALSE
    OBVIOUS
  <2>1. PICK j \in Bad : \A i \in Bad : j =< i
    <3>1. Bad \in SUBSET Nat
      OBVIOUS
    <3> HIDE DEF Bad
    <3>2. QED
      BY <3>1, LeastNumber
  <2>2. j \in Nat /\ j =< n /\ ~Holds(j) /\ j # 0
    BY <1>2, <2>1
  <2>3. j - 1 \in Nat /\ j - 1 < n /\ j - 1 =< n /\ ~(j =< j - 1) /\ (j - 1) + 1 = j
    BY <1>1, <2>2
  <2>4. j - 1 \notin Bad
    <3> HIDE DEF Bad
    <3>1. QED
      BY <2>1, <2>3
  <2>5. Holds(j - 1)
    BY <2>3, <2>4
  <2> DEFINE i == j - 1
  <2> HIDE DEF i
  <2>6. i \in Nat /\ i < n /\ Holds(i) /\ i + 1 = j
    BY <2>3, <2>5 DEF i
  <2>7. QED
    BY <1>3, <2>2, <2>6
<1>5. k \in Nat /\ k =< n
  BY <1>1
<1>6. QED
  <2> HIDE DEF n
  <2>1. Holds(k)
    BY <1>4, <1>5
  <2>2. QED
    BY <2>1 DEF Holds

(* More events leave less of the rest.                                      *)
LEMMA RestShrinks ==
  ASSUME NEW s \in Seq(Seq(LineSet)), NEW t \in Seq(Bytes),
         NEW j \in 0..Len(s), NEW k \in 0..Len(s), j =< k
  PROVE  /\ Len(RestOf(s, t, j)) \in Nat /\ Len(RestOf(s, t, k)) \in Nat
         /\ Len(RestOf(s, t, k)) =< Len(RestOf(s, t, j))
<1> DEFINE n == Len(s)
           R(i) == Len(RestOf(s, t, i))
           Bad == {i \in Nat : j =< i /\ i =< n /\ ~(R(i) =< R(j))}
<1>1. n \in Nat /\ j \in Nat /\ k \in Nat /\ j =< n /\ k =< n
  BY LenProperties
<1>2. \A i \in 0..n : R(i) \in Nat
  BY RestType, LenProperties
<1>3. ASSUME NEW i \in Nat, i < n PROVE R(i + 1) =< R(i)
  <2>1. i \in 0..(n - 1) /\ i + 1 \in 0..n /\ i \in 0..n
    BY <1>1, <1>3
  <2> DEFINE b == EventBytes(s[i + 1])
             r == RestOf(s, t, i + 1)
  <2>2. b \in Seq(Bytes) /\ r \in Seq(Bytes) /\ RestOf(s, t, i) = b \o r
    BY <2>1, RestStep
  <2> HIDE DEF b
  <2>3. Len(b \o r) = Len(b) + Len(r) /\ Len(b) \in Nat /\ Len(r) \in Nat
    BY <2>2, ConcatProperties, LenProperties
  <2>4. QED
    BY <2>2, <2>3
<1> HIDE DEF R
<1>4. Bad = {}
  <2> SUFFICES ASSUME Bad # {} PROVE FALSE
    OBVIOUS
  <2>1. PICK i \in Bad : \A h \in Bad : i =< h
    <3>1. Bad \in SUBSET Nat
      OBVIOUS
    <3> HIDE DEF Bad
    <3>2. QED
      BY <3>1, LeastNumber
  <2>2. i \in Nat /\ j =< i /\ i =< n /\ ~(R(i) =< R(j))
    BY <2>1
  <2>3. R(j) \in Nat /\ i # j
    BY <1>1, <1>2, <2>2
  <2>4. i - 1 \in Nat /\ i - 1 < n /\ j =< i - 1 /\ i - 1 =< n /\ ~(i =< i - 1) /\ (i - 1) + 1 = i
        /\ i - 1 \in 0..n /\ i \in 0..n
    BY <1>1, <2>2, <2>3
  <2>5. i - 1 \notin Bad
    <3> HIDE DEF Bad
    <3>1. QED
      BY <2>1, <2>4
  <2>6. R(i - 1) =< R(j)
    BY <2>4, <2>5
  <2> DEFINE h == i - 1
  <2> HIDE DEF h
  <2>7. h \in Nat /\ h < n /\ h + 1 = i /\ R(h) =< R(j) /\ R(h) \in Nat /\ R(i) \in Nat
    BY <1>2, <2>4, <2>6 DEF h
  <2>8. R(i) =< R(h)
    BY <1>3, <2>7
  <2>9. QED
    BY <2>2, <2>3, <2>7, <2>8
<1>5. R(k) =< R(j)
  <2> HIDE DEF n
  <2>1. QED
    BY <1>1, <1>4
<1>6. QED
  BY <1>2, <1>5 DEF R

LEMMA ReadWhenGiven ==
  ASSUME StreamInv, Boundaries = {}
  PROVE  Len(out) >= WholeEvents
<1> DEFINE m == Len(out)
           n == Len(sent)
           Whole == {k \in DOMAIN sent :
                      Len(FlattenSeq([i \in 1..k |-> EventBytes(sent[i])])) =< Arrived}
<1>1. /\ sent \in Seq(Events) /\ tail \in Tails /\ buffer \in Seq(Bytes) /\ upstream \in Seq(Bytes)
      /\ m =< n => buffer \o upstream = RestOf(sent, tail, m)
  BY DEF StreamInv
<1>2. m \in Nat /\ n \in Nat /\ sent \in Seq(Seq(LineSet)) /\ tail \in Seq(Bytes) /\ DOMAIN sent = 1..n
  BY <1>1, WhatIsPromised, LenProperties DEF StreamInv
<1>3. Arrived = Len(RestOf(sent, tail, 0)) - Len(upstream)
  <2>1. n - 0 = n /\ \A i \in 1..n : 0 + i = i
    BY <1>2
  <2>2. RestEvents(sent, 0) = [i \in DOMAIN sent |-> EventBytes(sent[i])]
    BY <1>2, <2>1 DEF RestEvents
  <2>3. QED
    BY <2>2 DEF Arrived, RestOf
<1>4. ASSUME NEW k \in Whole PROVE k \in 1..m
  <2>1. k \in 1..n /\ Len(WireOf(sent, k)) =< Len(RestOf(sent, tail, 0)) - Len(upstream)
    BY <1>2, <1>3 DEF WireOf
  <2>2. SUFFICES ASSUME m < k PROVE FALSE
    BY <1>2, <2>1
  <2>3. m < n /\ m \in 0..(n - 1) /\ m + 1 \in 0..n /\ k \in 0..n /\ m + 1 =< k
    BY <1>2, <2>1, <2>2
  <2> DEFINE v == EventBytes(sent[m + 1])
             r == RestOf(sent, tail, m + 1)
             w == WireOf(sent, k)
             q == RestOf(sent, tail, k)
             all == RestOf(sent, tail, 0)
  <2>4. Len(buffer) < Len(v)
    BY <2>3, NextIsMissing
  <2>5. v \in Seq(Bytes) /\ r \in Seq(Bytes) /\ buffer \o upstream = v \o r
    <3>1. m =< n
      BY <1>2, <2>3
    <3>2. QED
      BY <1>1, <1>2, <2>3, <3>1, RestStep
  <2>6. w \in Seq(Bytes) /\ w \o q = all
    BY <1>2, <2>3, WireAndRest
  <2>7. Len(r) \in Nat /\ Len(q) \in Nat /\ Len(q) =< Len(r)
    <3> DEFINE j == m + 1
    <3>1. j \in 0..n /\ j =< k
      BY <2>3
    <3> HIDE DEF j
    <3>2. /\ Len(RestOf(sent, tail, j)) \in Nat /\ Len(RestOf(sent, tail, k)) \in Nat
          /\ Len(RestOf(sent, tail, k)) =< Len(RestOf(sent, tail, j))
      BY <1>2, <2>3, <3>1, RestShrinks
    <3>3. QED
      BY <3>2 DEF j
  <2>8. q \in Seq(Bytes)
    BY <1>2, <2>3, RestType
  <2> HIDE DEF v, r, w, q, all
  <2>9. Len(w) + Len(q) = Len(all) /\ Len(w) \in Nat
    <3>1. Len(w \o q) = Len(w) + Len(q)
      BY <2>6, <2>8, ConcatProperties
    <3>2. QED
      BY <2>6, <3>1, LenProperties
  <2>10. /\ Len(buffer) \in Nat /\ Len(upstream) \in Nat /\ Len(v) \in Nat
         /\ Len(buffer) + Len(upstream) = Len(v) + Len(r)
    BY <1>1, <2>5, CommonBeginning
  <2>11. Len(w) =< Len(all) - Len(upstream)
    BY <2>1 DEF w, all
  <2>12. QED
    BY <2>4, <2>7, <2>9, <2>10, <2>11
<1>5. WholeEvents = Cardinality(Whole)
  BY DEF WholeEvents
<1> HIDE DEF Whole, m
<1>6. Cardinality(Whole) \in Nat /\ Cardinality(Whole) =< m
  <2> DEFINE D == 1..m
  <2>1. IsFiniteSet(D) /\ Cardinality(D) = m
    <3>1. 1 \in Int /\ m \in Int /\ (IF 1 > m THEN 0 ELSE m - 1 + 1) = m
      BY <1>2
    <3>2. IsFiniteSet(1..m) /\ Cardinality(1..m) = IF 1 > m THEN 0 ELSE m - 1 + 1
      BY <3>1, FS_Interval
    <3>3. QED
      BY <3>1, <3>2
  <2>2. Whole \subseteq D
    BY <1>4
  <2> HIDE DEF D
  <2>3. IsFiniteSet(Whole) /\ Cardinality(Whole) =< Cardinality(D)
    BY <2>1, <2>2, FS_Subset
  <2>4. QED
    BY <2>1, <2>3, FS_CardinalityType
<1>7. QED
  BY <1>2, <1>5, <1>6 DEF m

(* An event is given as soon as the whole of it has arrived: poll_next      *)
(* drains its buffer before it asks the server again.                       *)
THEOREM NoEventWaits == Spec => EventsDoNotWait
<1>1. StreamInv /\ [Next]_vars => [upstream' # upstream => Len(out) >= WholeEvents]_vars
  <2> SUFFICES ASSUME StreamInv, Next, upstream' # upstream PROVE Len(out) >= WholeEvents
    BY DEF vars
  <2>1. Boundaries = {}
    BY DEF Next, Poll, GiveEvent, ReadChunk, FlushTrailing, Close, Break, Leave
  <2>2. QED
    BY <2>1, ReadWhenGiven
<1>2. QED
  BY <1>1, StreamInvariant, PTL DEF Spec, EventsDoNotWait
-----------------------------------------------------------------------------
(* What GuardedStream has read off the blocks that passed.                  *)
LEMMA LastUsageIs ==
  ASSUME NEW lines \in Seq(LineSet)
  PROVE  /\ LastUsage(lines) = IF Usage(lines) = <<>> THEN 0 ELSE Usage(lines)[1]
         /\ LastUsage(lines) \in Nat
<1> DEFINE U == Usages(lines)
           m == Max(U)
<1>1. Len(lines) \in Nat /\ DOMAIN lines = 1..Len(lines) /\ \A i \in 1..Len(lines) : lines[i] \in LineSet
  BY LenProperties, ElementOfSeq
<1>2. U \in SUBSET (1..Len(lines))
  BY <1>1 DEF Usages
<1>3. CASE U = {}
  BY <1>3 DEF Usage, LastUsage
<1>4. CASE U # {}
  <2> HIDE DEF U
  <2>1. m \in 1..Len(lines)
    BY <1>1, <1>2, <1>4, MaxOf
  <2>2. lines[m].tokens \in Nat
    BY <1>1, <2>1 DEF LineSet
  <2>3. LastUsage(lines) = lines[m].tokens /\ Usage(lines) = <<lines[m].tokens>>
    BY <1>4 DEF LastUsage, Usage, U
  <2> HIDE DEF m
  <2>4. QED
    BY <2>2, <2>3
<1>5. QED
  BY <1>3, <1>4

LEMMA TokensOfBlock ==
  ASSUME NEW f \in Seq(Bytes), NEW b \in Seq(Bytes)
  PROVE  TokensAfter(LastUsage(Payloads(f)), Payloads(b)) = LastUsage(Payloads(f \o b))
<1> DEFINE p == Payloads(f)
           q == Payloads(b)
           all == Payloads(f \o b)
<1>1. p \in Seq(LineSet) /\ q \in Seq(LineSet) /\ f \o b \in Seq(Bytes)
  BY PayloadsType, ConcatProperties
<1>2. all \in Seq(LineSet) /\ all = p \o q
  BY <1>1, PayloadsType, PayloadsConcat
<1> HIDE DEF p, q, all
<1>3. Usage(all) = IF Usage(q) = <<>> THEN Usage(p) ELSE Usage(q)
  BY <1>1, <1>2, UsageConcat
<1>4. LastUsage(p) = IF Usage(p) = <<>> THEN 0 ELSE Usage(p)[1]
  BY <1>1, LastUsageIs
<1>5. LastUsage(all) = IF Usage(all) = <<>> THEN 0 ELSE Usage(all)[1]
  BY <1>2, LastUsageIs
<1>6. TokensAfter(LastUsage(p), q) = IF Usage(q) = <<>> THEN LastUsage(p) ELSE Usage(q)[1]
  BY <1>1, TokensAfterIs
<1>7. TokensAfter(LastUsage(p), q) = LastUsage(all)
  BY <1>3, <1>4, <1>5, <1>6
<1>8. QED
  BY <1>7 DEF p, q, all

AnswersIn(o) == {n \in DOMAIN o : Answers(o[n])}
FirstIn(o)   == IF AnswersIn(o) = {} THEN 0 ELSE Min(AnswersIn(o))

LEMMA FirstOfMore ==
  ASSUME NEW S, NEW o \in Seq(S), NEW b \in S
  PROVE  /\ FirstIn(o) \in 0..Len(o)
         /\ FirstIn(Append(o, b)) = IF FirstIn(o) = 0 /\ Answers(b) THEN Len(o) + 1 ELSE FirstIn(o)
<1> DEFINE n == Len(o)
           c == Append(o, b)
           A == AnswersIn(o)
           B == AnswersIn(c)
<1>1. /\ n \in Nat /\ DOMAIN o = 1..n /\ DOMAIN c = 1..(n + 1) /\ c[n + 1] = b
      /\ \A i \in 1..n : c[i] = o[i]
  BY LenProperties, AppendProperties
<1> HIDE DEF c, n
<1>2. A \subseteq 1..n /\ A \in SUBSET Nat
  BY <1>1 DEF AnswersIn
<1>3. B = A \cup (IF Answers(b) THEN {n + 1} ELSE {})
  <2>1. \A i \in 1..(n + 1) : i = n + 1 \/ i \in 1..n
    BY <1>1
  <2>2. B = {i \in 1..(n + 1) : Answers(c[i])} /\ A = {i \in 1..n : Answers(o[i])}
    BY <1>1 DEF AnswersIn
  <2>3. \A i : i \in B <=> i \in A \/ (Answers(b) /\ i = n + 1)
    BY <1>1, <2>1, <2>2
  <2>4. QED
    BY <2>3
<1> HIDE DEF A, B
<1>4. FirstIn(o) = (IF A = {} THEN 0 ELSE Min(A)) /\ FirstIn(c) = (IF B = {} THEN 0 ELSE Min(B))
  BY DEF FirstIn, A, B
<1>5. A # {} => Min(A) \in A /\ \A x \in A : Min(A) =< x
  BY <1>2, MinOf
<1>6. B # {} => Min(B) \in B /\ \A x \in B : Min(B) =< x
  <2>1. B \in SUBSET Nat
    BY <1>1, <1>2, <1>3
  <2>2. QED
    BY <2>1, MinOf
<1>7. FirstIn(o) \in 0..n /\ (FirstIn(o) = 0 <=> A = {})
  <2>1. A # {} => Min(A) \in 1..n
    BY <1>2, <1>5
  <2>2. CASE A = {}
    BY <1>1, <1>4, <2>2
  <2>3. CASE A # {}
    BY <1>1, <1>4, <2>1, <2>3
  <2>4. QED
    BY <2>2, <2>3
<1>8. CASE A = {}
  <2>1. B = IF Answers(b) THEN {n + 1} ELSE {}
    BY <1>3, <1>8
  <2>2. FirstIn(c) = IF Answers(b) THEN n + 1 ELSE 0
    BY <1>4, <1>6, <2>1
  <2>3. QED
    BY <1>7, <1>8, <2>2 DEF n, c
<1>9. CASE A # {}
  <2> DEFINE a == Min(A)
  <2>1. a \in A /\ a \in 1..n /\ \A x \in A : a =< x
    BY <1>2, <1>5, <1>9
  <2> HIDE DEF a
  <2>2. a \in B /\ \A x \in B : x \in Nat /\ a =< x
    <3>1. \A x \in B : x \in A \/ x = n + 1
      BY <1>3
    <3>2. ASSUME NEW x \in B PROVE x \in Nat /\ a =< x
      <4>1. CASE x \in A
        BY <1>2, <2>1, <4>1
      <4>2. CASE x = n + 1
        BY <1>1, <2>1, <4>2
      <4>3. QED
        BY <3>1, <4>1, <4>2
    <3>3. QED
      BY <1>3, <2>1, <3>2
  <2>3. B # {} /\ Min(B) = Min(A)
    <3>1. B # {}
      BY <2>2
    <3>2. Min(B) \in B /\ Min(B) =< a
      BY <1>6, <2>2, <3>1
    <3>3. a =< Min(B) /\ Min(B) \in Nat
      BY <2>2, <3>2
    <3>4. Min(B) = a
      BY <2>1, <3>2, <3>3
    <3>5. QED
      BY <3>1, <3>4 DEF a
  <2>4. FirstIn(c) = FirstIn(o) /\ FirstIn(o) # 0
    BY <1>4, <1>7, <1>9, <2>3
  <2>5. QED
    BY <1>7, <2>4 DEF n, c
<1>10. QED
  BY <1>8, <1>9

(* All that is promised carries the usage of all the lines that are sent.   *)
PromisedOf(s) == [i \in DOMAIN s |-> Promised(s[i])]

LEMMA PromisedOfMore ==
  ASSUME NEW s \in Seq(Seq(LineSet)), NEW e \in Seq(LineSet)
  PROVE  /\ PromisedOf(s) \in Seq(Seq(Bytes)) /\ Promised(e) \in Seq(Bytes)
         /\ PromisedOf(Append(s, e)) = Append(PromisedOf(s), Promised(e))
<1> DEFINE n == Len(s)
           c == Append(s, e)
           ps == PromisedOf(s)
           b == Promised(e)
           P == Append(ps, b)
<1>1. /\ n \in Nat /\ DOMAIN s = 1..n /\ DOMAIN c = 1..(n + 1) /\ c[n + 1] = e
      /\ \A i \in 1..n : c[i] = s[i] /\ s[i] \in Seq(LineSet)
  BY LenProperties, AppendProperties, ElementOfSeq
<1>2. b \in Seq(Bytes) /\ \A i \in 1..n : Promised(s[i]) \in Seq(Bytes)
  BY <1>1, PromisedLayout
<1>3. ps \in Seq(Seq(Bytes)) /\ Len(ps) = n /\ \A i \in 1..n : ps[i] = Promised(s[i])
  BY <1>1, <1>2 DEF PromisedOf
<1>4. PromisedOf(c) = [i \in 1..(n + 1) |-> Promised(c[i])]
  BY <1>1 DEF PromisedOf
<1> HIDE DEF ps, b, c, n
<1>5. /\ P \in Seq(Seq(Bytes)) /\ Len(P) = n + 1 /\ P[n + 1] = b
      /\ \A i \in 1..n : P[i] = Promised(s[i])
  BY <1>2, <1>3, AppendProperties
<1> HIDE DEF P
<1>6. P = [i \in 1..(n + 1) |-> P[i]]
  BY <1>5, LenProperties
<1>7. \A i \in 1..(n + 1) : P[i] = Promised(c[i])
  <2>1. \A i \in 1..(n + 1) : i = n + 1 \/ i \in 1..n
    BY <1>1
  <2>2. QED
    BY <1>1, <1>5, <2>1 DEF b
<1>8. PromisedOf(c) = P
  BY <1>4, <1>6, <1>7
<1>9. QED
  BY <1>2, <1>3, <1>8 DEF P, c, ps, b

LEMMA UsageOfAll ==
  ASSUME NEW s \in Seq(Seq(LineSet))
  PROVE  /\ FlattenSeq(PromisedOf(s)) \in Seq(Bytes) /\ FlattenSeq(s) \in Seq(LineSet)
         /\ Usage(Payloads(FlattenSeq(PromisedOf(s)))) = Usage(FlattenSeq(s))
<1> DEFINE Holds(r) == Usage(Payloads(FlattenSeq(PromisedOf(r)))) = Usage(FlattenSeq(r))
           Bad == {r \in Seq(Seq(LineSet)) : ~Holds(r)}
<1>1. <<>> \notin Bad
  <2>1. PromisedOf(<<>>) = <<>>
    BY DEF PromisedOf
  <2>2. QED
    BY <2>1, FlattenEmpty, PayloadsOfNothing
<1>2. ASSUME NEW r \in Seq(Seq(LineSet)), NEW e \in Seq(LineSet), r \notin Bad
      PROVE  Append(r, e) \notin Bad
  <2> DEFINE f == FlattenSeq(PromisedOf(r))
             b == Promised(e)
  <2>1. PromisedOf(r) \in Seq(Seq(Bytes)) /\ b \in Seq(Bytes)
        /\ PromisedOf(Append(r, e)) = Append(PromisedOf(r), b)
    BY PromisedOfMore
  <2>2. f \in Seq(Bytes) /\ FlattenSeq(PromisedOf(Append(r, e))) = f \o b
    BY <2>1, FlattenType, FlattenAppend
  <2>3. Payloads(f \o b) = Payloads(f) \o Payloads(b)
    <3> HIDE DEF f, b
    <3>1. QED
      BY <2>1, <2>2, PayloadsConcat
  <2>4. Payloads(f) \in Seq(LineSet) /\ Payloads(b) \in Seq(LineSet) /\ Usage(Payloads(b)) = Usage(e)
    BY <2>2, PayloadsType, UsageOfEvent
  <2>5. FlattenSeq(r) \in Seq(LineSet) /\ FlattenSeq(Append(r, e)) = FlattenSeq(r) \o e
    BY FlattenType, FlattenAppend
  <2>6. Usage(Payloads(f)) = Usage(FlattenSeq(r))
    BY <1>2
  <2> DEFINE p == Payloads(f)
             q == Payloads(b)
             l == FlattenSeq(r)
  <2> HIDE DEF f, b, p, q, l
  <2>7. Usage(p \o q) = IF Usage(q) = <<>> THEN Usage(p) ELSE Usage(q)
    <3>1. p \in Seq(LineSet) /\ q \in Seq(LineSet)
      BY <2>4 DEF p, q
    <3>2. QED
      BY <3>1, UsageConcat
  <2>8. Usage(l \o e) = IF Usage(e) = <<>> THEN Usage(l) ELSE Usage(e)
    <3>1. l \in Seq(LineSet)
      BY <2>5 DEF l
    <3>2. QED
      BY <3>1, UsageConcat
  <2>9. Usage(p \o q) = Usage(l \o e)
    BY <2>4, <2>6, <2>7, <2>8 DEF p, q, l
  <2>10. Holds(Append(r, e))
    BY <2>2, <2>3, <2>5, <2>9 DEF p, q, l
  <2>11. QED
    BY <2>10
<1>3. Bad = {}
  <2>1. Bad \in SUBSET Seq(Seq(LineSet))
    OBVIOUS
  <2> HIDE DEF Bad
  <2>2. QED
    BY <1>1, <1>2, <2>1, ShortestOf
<1>4. FlattenSeq(s) \in Seq(LineSet)
  BY FlattenType
<1>5. FlattenSeq(PromisedOf(s)) \in Seq(Bytes)
  <2>1. <<>> \in Seq(LineSet)
    OBVIOUS
  <2>2. PromisedOf(s) \in Seq(Seq(Bytes))
    BY <2>1, PromisedOfMore
  <2>3. QED
    BY <2>2, FlattenType
<1>6. QED
  BY <1>3, <1>4, <1>5

-----------------------------------------------------------------------------
(* A stream of the local pool knows the usage and the first answer of what  *)
(* has passed; its record is written when it ends.                          *)
RecordInv ==
  /\ status \in {"open", "closed", "broken", "left"} /\ remote \in BOOLEAN
  /\ ~remote => tokens = LastUsage(Payloads(FlattenSeq(out))) /\ first = FirstIn(out)
  /\ remote => tokens = 0 /\ first = 0
  /\ RecordMatchesStream

LEMMA SawIs ==
  \A ok, lines : Saw(ok, lines) = Record(ok, LastUsage(lines), FirstIn(out))
BY DEF Saw, FirstIn, AnswersAt, AnswersIn

LEMMA AllIsRead ==
  ASSUME StreamInv, Len(out) = Len(Client!events)
  PROVE  LastUsage(AllLines) = LastUsage(Payloads(FlattenSeq(out)))
<1> DEFINE whole == PromisedOf(sent)
           w == FlattenSeq(whole)
           l == FlattenSeq(sent)
<1>1. /\ sent \in Seq(Seq(LineSet)) /\ tail \in Seq(Bytes) /\ Client!events \in Seq(Seq(Bytes))
      /\ out \in Seq(Seq(Bytes)) /\ \A i \in 1..Len(out) : out[i] = Client!events[i]
  BY WhatIsPromised DEF StreamInv
<1>2. out = Client!events
  BY <1>1, SeqEqual
<1>3. whole \in Seq(Seq(Bytes))
  <2>1. <<>> \in Seq(LineSet)
    OBVIOUS
  <2>2. QED
    BY <1>1, <2>1, PromisedOfMore
<1>4. w \in Seq(Bytes) /\ l \in Seq(LineSet) /\ Usage(Payloads(w)) = Usage(l)
  BY <1>1, UsageOfAll
<1>5. Client!events = whole \o (IF tail = <<>> THEN <<>> ELSE <<tail>>)
  BY DEF Client!events, PromisedOf
<1> HIDE DEF whole
<1>6. FlattenSeq(out) = w \o tail
  <2>1. CASE tail = <<>>
    <3>1. out = whole
      BY <1>2, <1>3, <1>5, <2>1, ConcatEmptySeq
    <3>2. w \o tail = w
      BY <1>4, <2>1, ConcatEmptySeq
    <3>3. QED
      BY <3>1, <3>2
  <2>2. CASE tail # <<>>
    <3>1. out = Append(whole, tail)
      BY <1>1, <1>2, <1>3, <1>5, <2>2
    <3>2. QED
      BY <1>1, <1>3, <3>1, FlattenAppend
  <2>3. QED
    BY <2>1, <2>2
<1> HIDE DEF w, l
<1>7. Payloads(w \o tail) = Payloads(w) \o Payloads(tail)
  BY <1>1, <1>4, PayloadsConcat
<1>8. Payloads(w) \in Seq(LineSet) /\ Payloads(tail) \in Seq(LineSet)
  BY <1>1, <1>4, PayloadsType
<1>9. Usage(Payloads(w) \o Payloads(tail)) = Usage(l \o Payloads(tail))
  <2> DEFINE p == Payloads(w)
             q == Payloads(tail)
  <2>1. p \in Seq(LineSet) /\ q \in Seq(LineSet)
    BY <1>8
  <2> HIDE DEF p, q
  <2>2. Usage(p \o q) = IF Usage(q) = <<>> THEN Usage(p) ELSE Usage(q)
    BY <2>1, UsageConcat
  <2>3. Usage(l \o q) = IF Usage(q) = <<>> THEN Usage(l) ELSE Usage(q)
    BY <1>4, <2>1, UsageConcat
  <2>4. QED
    BY <1>4, <2>2, <2>3 DEF p, q
<1>10. AllLines = l \o Payloads(tail)
  BY DEF AllLines, l
<1>11. AllLines \in Seq(LineSet) /\ Payloads(FlattenSeq(out)) \in Seq(LineSet)
  <2>1. w \o tail \in Seq(Bytes) /\ l \o Payloads(tail) \in Seq(LineSet)
    BY <1>1, <1>4, <1>8, ConcatProperties
  <2>2. QED
    BY <1>6, <1>10, <2>1, PayloadsType
<1>12. Usage(AllLines) = Usage(Payloads(FlattenSeq(out)))
  BY <1>6, <1>7, <1>9, <1>10
<1>13. QED
  BY <1>11, <1>12, LastUsageIs

LEMMA RecordStarts == Init => RecordInv
<1> SUFFICES ASSUME Init PROVE RecordInv
  OBVIOUS
<1>1. status = "open" /\ remote \in BOOLEAN /\ out = <<>> /\ tokens = 0 /\ first = 0
      /\ records = IF remote THEN <<Record(TRUE, 0, 0)>> ELSE <<>>
  BY DEF Init
<1>2. LastUsage(Payloads(FlattenSeq(out))) = 0
  <2>1. Payloads(FlattenSeq(out)) = <<>> /\ <<>> \in Seq(LineSet)
    BY <1>1, FlattenEmpty, PayloadsOfNothing
  <2>2. QED
    BY <2>1, LastUsageIs, UsageOfNone
<1>3. FirstIn(out) = 0
  BY <1>1 DEF FirstIn, AnswersIn
<1>4. RecordMatchesStream
  BY <1>1 DEF RecordMatchesStream
<1>5. QED
  BY <1>1, <1>2, <1>3, <1>4 DEF RecordInv

LEMMA OpenHasNoRecord ==
  ASSUME RecordInv, status \in {"open", "left"}
  PROVE  records = IF remote THEN <<Record(TRUE, 0, 0)>> ELSE <<>>
BY DEF RecordInv, RecordMatchesStream

LEMMA GivenIsRead ==
  ASSUME StreamInv, RecordInv, status = "open", sent' = sent, tail' = tail, remote' = remote,
         NEW block \in Seq(Bytes), Give(block)
  PROVE  RecordInv'
<1> DEFINE f == FlattenSeq(out)
<1>1. /\ out' = Append(out, block) /\ status' = status /\ records' = records
      /\ remote => tokens' = tokens /\ first' = first
      /\ ~remote => /\ tokens' = TokensAfter(tokens, Payloads(block))
                    /\ first' = IF first = 0 /\ Answers(block) THEN Len(out) + 1 ELSE first
  BY DEF Give
<1>2. out \in Seq(Seq(Bytes)) /\ f \in Seq(Bytes)
  BY FlattenType DEF StreamInv
<1>3. ASSUME ~remote
      PROVE  tokens' = LastUsage(Payloads(FlattenSeq(out'))) /\ first' = FirstIn(out')
  <2>1. tokens = LastUsage(Payloads(f)) /\ first = FirstIn(out)
    BY <1>3 DEF RecordInv
  <2>2. FlattenSeq(out') = f \o block
    BY <1>1, <1>2, FlattenAppend
  <2> HIDE DEF f
  <2>3. TokensAfter(LastUsage(Payloads(f)), Payloads(block)) = LastUsage(Payloads(f \o block))
    BY <1>2, TokensOfBlock
  <2>4. FirstIn(out') = IF FirstIn(out) = 0 /\ Answers(block) THEN Len(out) + 1 ELSE FirstIn(out)
    <3>1. FirstIn(Append(out, block)) =
            IF FirstIn(out) = 0 /\ Answers(block) THEN Len(out) + 1 ELSE FirstIn(out)
      BY <1>2, FirstOfMore
    <3>2. QED
      BY <1>1, <3>1
  <2>5. QED
    BY <1>1, <1>3, <2>1, <2>2, <2>3, <2>4
<1>4. remote => tokens' = 0 /\ first' = 0
  BY <1>1 DEF RecordInv
<1>5. records' = IF remote THEN <<Record(TRUE, 0, 0)>> ELSE <<>>
  BY <1>1, OpenHasNoRecord
<1>6. RecordMatchesStream'
  BY <1>1, <1>5 DEF RecordMatchesStream
<1>7. status' = "open" /\ remote \in BOOLEAN
  BY <1>1 DEF RecordInv
<1>8. QED
  BY <1>3, <1>4, <1>6, <1>7 DEF RecordInv

LEMMA EndIsRecorded ==
  ASSUME StreamInv, RecordInv, Close \/ Break \/ Leave, sent' = sent, tail' = tail, remote' = remote
  PROVE  RecordInv'
<1>1. /\ out' = out /\ tokens' = tokens /\ first' = first /\ status = "open"
      /\ remote => records' = records
  BY DEF Close, Break, Leave, Settle, AtEnd
<1>2. records = IF remote THEN <<Record(TRUE, 0, 0)>> ELSE <<>>
  BY <1>1, OpenHasNoRecord
<1>3. /\ remote \in BOOLEAN
      /\ ~remote => tokens = LastUsage(Payloads(FlattenSeq(out))) /\ first = FirstIn(out)
      /\ remote => tokens = 0 /\ first = 0
  BY DEF RecordInv
<1>4. AllLines' = AllLines
  BY DEF AllLines
<1>5. \A ok, n, k : Append(<<>>, Record(ok, n, k)) = <<Record(ok, n, k)>>
  OBVIOUS
<1>6. \A ok, lines : Saw(ok, lines)' = Saw(ok, lines)
  BY <1>1 DEF Saw, AnswersAt
<1>7. CASE Close
  <2>1. /\ status' = "closed" /\ Boundaries = {} /\ upstream = <<>> /\ buffer = <<>>
        /\ ~remote => records' = Append(records, Record(TRUE, tokens, first))
    BY <1>7 DEF Close, AtEnd, Settle
  <2>2. LastUsage(AllLines) = LastUsage(Payloads(FlattenSeq(out)))
    <3>1. Len(out) = Len(Client!events)
      BY <2>1, OnlyTailLeft
    <3>2. QED
      BY <3>1, AllIsRead
  <2>3. ~remote => records' = <<Saw(TRUE, AllLines)>>
    <3> SUFFICES ASSUME ~remote PROVE records' = <<Saw(TRUE, AllLines)>>
      OBVIOUS
    <3> DEFINE saw == Record(TRUE, tokens, first)
    <3>1. Saw(TRUE, AllLines) = saw
      BY <1>3, <2>2, SawIs
    <3>2. records = <<>> /\ records' = Append(records, saw)
      BY <1>2, <2>1
    <3>3. Append(<<>>, saw) = <<saw>>
      BY <1>5
    <3> HIDE DEF saw
    <3>4. records' = <<saw>>
      BY <3>2, <3>3
    <3>5. QED
      BY <3>1, <3>4, Zenon
  <2>4. ~remote => records' = <<Saw(TRUE, AllLines)'>>
    BY <1>1, <1>4, <2>3 DEF Saw, AnswersAt
  <2>5. RecordMatchesStream'
    <3>1. CASE remote
      BY <1>1, <1>2, <3>1 DEF RecordMatchesStream
    <3>2. CASE ~remote
      BY <2>1, <2>4, <3>2 DEF RecordMatchesStream
    <3>3. QED
      BY <1>3, <3>1, <3>2
  <2>6. status' = "closed" /\ remote' \in BOOLEAN
    BY <1>3, <2>1
  <2>7. QED
    BY <1>1, <1>3, <2>5, <2>6 DEF RecordInv
<1>8. CASE Break
  <2>1. status' = "broken" /\ (~remote => records' = Append(records, Record(FALSE, tokens, first)))
    BY <1>8 DEF Break, Settle
  <2>2. ~remote => records' = <<Saw(FALSE, Payloads(FlattenSeq(out)))>>
    BY <1>2, <1>3, <1>5, <2>1, SawIs
  <2>3. ~remote => records' = <<Saw(FALSE, Payloads(FlattenSeq(out)))'>>
    BY <1>1, <2>2 DEF Saw, AnswersAt
  <2>4. RecordMatchesStream'
    BY <1>1, <1>2, <1>3, <2>1, <2>3 DEF RecordMatchesStream
  <2>5. QED
    BY <1>1, <1>3, <2>1, <2>4 DEF RecordInv
<1>9. CASE Leave
  <2>1. status' = "left" /\ records' = records
    BY <1>9 DEF Leave, Settle
  <2>2. RecordMatchesStream'
    BY <1>2, <1>3, <2>1 DEF RecordMatchesStream
  <2>3. QED
    BY <1>1, <1>3, <2>1, <2>2 DEF RecordInv
<1>10. QED
  BY <1>7, <1>8, <1>9

LEMMA RecordStep ==
  ASSUME StreamInv, RecordInv, [Next]_vars
  PROVE  RecordInv'
<1>1. CASE UNCHANGED vars
  <2>1. UNCHANGED <<sent, tail, out, status, remote, tokens, first, records>>
    BY <1>1 DEF vars
  <2>2. RecordMatchesStream'
    <3>1. RecordMatchesStream
      BY DEF RecordInv
    <3>2. QED
      BY <2>1, <3>1 DEF RecordMatchesStream, Saw, AllLines, AnswersAt
  <2>3. QED
    BY <2>1, <2>2 DEF RecordInv
<1>2. CASE Next
  <2>1. /\ sent' = sent /\ tail' = tail /\ remote' = remote
        /\ Poll \/ Break \/ Leave
    BY <1>2 DEF Next
  <2>2. CASE GiveEvent
    <3> DEFINE block == Annotated(SubSeq(buffer, 1, Min(Boundaries) + 1))
    <3>1. status = "open" /\ Boundaries # {} /\ Give(block)
      BY <2>2 DEF GiveEvent
    <3>2. Len(out) \in Nat /\ Len(out) < Len(sent) /\ block = Promised(sent[Len(out) + 1])
      BY <3>1, NextIsEvent
    <3>3. block \in Seq(Bytes)
      <4>1. Len(sent) \in Nat /\ \A i \in 1..Len(sent) : sent[i] \in Seq(LineSet)
        BY WhatIsPromised DEF StreamInv
      <4>2. Len(out) + 1 \in 1..Len(sent)
        BY <3>2, <4>1
      <4>3. sent[Len(out) + 1] \in Seq(LineSet)
        BY <4>1, <4>2
      <4>4. QED
        BY <3>2, <4>3, PromisedLayout
    <3> HIDE DEF block
    <3>4. QED
      BY <2>1, <3>1, <3>3, GivenIsRead
  <2>3. CASE ReadChunk
    <3>1. UNCHANGED <<out, status, tokens, first, records>> /\ status = "open"
      BY <2>3 DEF ReadChunk
    <3>2. records' = IF remote THEN <<Record(TRUE, 0, 0)>> ELSE <<>>
      BY <3>1, OpenHasNoRecord
    <3>3. RecordMatchesStream'
      BY <2>1, <3>1, <3>2 DEF RecordMatchesStream
    <3>4. QED
      BY <2>1, <3>1, <3>3 DEF RecordInv
  <2>4. CASE FlushTrailing
    <3>1. status = "open" /\ Give(buffer) /\ buffer \in Seq(Bytes)
      BY <2>4 DEF FlushTrailing, AtEnd, StreamInv
    <3>2. QED
      BY <2>1, <3>1, GivenIsRead
  <2>5. CASE Close \/ Break \/ Leave
    BY <2>1, <2>5, EndIsRecorded
  <2>6. QED
    BY <2>1, <2>2, <2>3, <2>4, <2>5 DEF Poll
<1>3. QED
  BY <1>1, <1>2

(* GuardedStream keeps the tokens and the first answer of what passed.      *)
THEOREM RecordInvariant == Spec => []RecordInv
<1>1. Init => RecordInv
  BY RecordStarts
<1>2. StreamInv /\ RecordInv /\ [Next]_vars => RecordInv'
  BY RecordStep
<1>3. QED
  BY <1>1, <1>2, StreamInvariant, PTL DEF Spec

(* What GuardedStream records of a stream depends on what passed and not on *)
(* the chunks in which it came: one record, with the tokens of the last     *)
(* usage and the time of the first answer, of a local stream that ended or  *)
(* broke; none of one that its client left; none more of a remote one.      *)
THEOREM EveryRecordMatches == Spec => []RecordMatchesStream
<1>1. RecordInv => RecordMatchesStream
  BY DEF RecordInv
<1>2. QED
  BY <1>1, RecordInvariant, PTL

(* The values are of their types, one record is the most there can be, and  *)
(* a closed stream has nothing left, for any events in any chunks.          *)
THEOREM StreamTypeCorrect == Spec => []TypeOK
<1>1. StreamInv /\ RecordInv => TypeOK
  <2> SUFFICES ASSUME StreamInv, RecordInv PROVE TypeOK
    OBVIOUS
  <2>1. out \in Seq(Seq(Bytes)) /\ Len(out) \in Nat
    BY LenProperties DEF StreamInv
  <2>2. status \in {"open", "closed", "broken", "left"} /\ remote \in BOOLEAN
    BY DEF RecordInv
  <2>3. tokens \in Nat /\ first \in 0..Len(out)
    <3>1. CASE remote
      BY <2>1, <3>1 DEF RecordInv
    <3>2. CASE ~remote
      <4>1. tokens = LastUsage(Payloads(FlattenSeq(out))) /\ first = FirstIn(out)
        BY <3>2 DEF RecordInv
      <4>2. Payloads(FlattenSeq(out)) \in Seq(LineSet)
        BY <2>1, FlattenType, PayloadsType
      <4>3. <<>> \in Seq(Bytes)
        OBVIOUS
      <4>4. FirstIn(out) \in 0..Len(out)
        BY <2>1, <4>3, FirstOfMore
      <4>5. QED
        BY <4>1, <4>2, <4>4, LastUsageIs
    <3>3. QED
      BY <2>2, <3>1, <3>2
  <2>4. Len(records) =< 1
    <3>1. records = <<>> \/ \E r : records = <<r>>
      BY <2>2 DEF RecordInv, RecordMatchesStream
    <3>2. Len(<<>>) =< 1 /\ \A r : Len(<<r>>) =< 1
      OBVIOUS
    <3>3. QED
      BY <3>1, <3>2, Zenon
  <2>5. status = "closed" => buffer = <<>> /\ upstream = <<>>
    BY DEF StreamInv
  <2>6. QED
    BY <2>2, <2>3, <2>4, <2>5 DEF TypeOK
<1>2. QED
  BY <1>1, StreamInvariant, RecordInvariant, PTL
=============================================================================
