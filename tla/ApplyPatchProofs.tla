---------------------------- MODULE ApplyPatchProofs ----------------------------
(***************************************************************************)
(* apply_patch on the diff of any patch, cut short or not, for any files:   *)
(* as long as none of their lines begins like a header of the diff.        *)
(***************************************************************************)
EXTENDS ApplyPatch, SequenceTheorems, FiniteSetTheorems, WellFoundedInduction, TLAPS

(* The patches and the diffs of files in which no line begins with "-- " or *)
(* "++ ".                                                                   *)
PlainEdit == [at : Nat \ {0}, before : Nat, cut : Nat, adds : Seq(Texts), after : Nat]

PlainSection == [does : {"modify"}, path : Names, edits : Seq(PlainEdit) \ {<<>>}]
                  \cup [does : {"create"}, path : Names, content : Seq(Texts)]
                  \cup [does : {"delete"}, path : Names]

PlainLine ==
  [kind : {"git"}]
    \cup [kind : {"old", "new"}, path : Names \cup {DevNull}, text : {HeaderText}]
    \cup {l \in [kind : {"at"}, start : Nat, counted : BOOLEAN] : l.counted \/ l.start > 0}
    \cup [kind : {"ctx", "del", "add"}, text : Texts]

PlainContent == Seq(Texts \cup {HeaderText})
PlainHunk == [start : Nat \ {0}, lines : Seq(PlainLine)]

PlainTypes == /\ files \in [Names -> {Absent} \cup PlainContent]
              /\ diff \in Seq(PlainLine)
              /\ pos \in 1..(Len(diff) + 1)
              /\ mode \in Modes
              /\ {oldPath, newPath} \subseteq Names \cup {DevNull}
              /\ hunks \in Seq(PlainHunk)
              /\ copy \in PlainContent
              /\ report \subseteq Names
              /\ result \in {"none", "ok", "error"}
              /\ mode \in {"header", "new", "skip", "delete"} => hunks = <<>>

(* The file system does not fail either, and the headers have no time.      *)
PlainFiles(version) == version \in [Names -> {Absent} \cup Seq(Texts)]
Ordinary == /\ PlainFiles(base) /\ PlainFiles(before)
            /\ plan \in Seq(PlainSection)
            /\ \E git \in BOOLEAN : diff \in Prefixes(Unified(base, plan, git))

(* Of finitely many subsets of a finite set one contains no other.          *)
LEMMA LeastSubset ==
  ASSUME NEW S, IsFiniteSet(S), NEW T, T \subseteq SUBSET S, T # {}
  PROVE  \E X \in T : \A Y \in T : Y \subseteq X => Y = X
<1> DEFINE R == StrictSubsetOrdering(S)
<1>1. \A X \in T : IsFiniteSet(X)
  BY FS_Subset
<1>2. T \subseteq FiniteSubsetsOf(S)
  BY <1>1 DEF FiniteSubsetsOf
<1>3. PICK X \in T : \A Y \in T : ~(<<Y, X>> \in R)
  <2>1. IsWellFoundedOn(R, FiniteSubsetsOf(S))
    BY FS_StrictSubsetOrderingWellFounded
  <2> HIDE DEF R
  <2>2. QED
    BY <2>1, <1>2, WFMin
<1>4. QED
  BY <1>3 DEF StrictSubsetOrdering

(* A set of numbers has a least one.                                        *)
LEMMA LeastNumber ==
  ASSUME NEW S \in SUBSET Nat, S # {}
  PROVE  \E n \in S : \A m \in S : n =< m
<1>1. PICK k \in S : TRUE
  OBVIOUS
<1> DEFINE All == 0..k
           T == {0..j : j \in {i \in S : i =< k}}
<1>2. IsFiniteSet(All)
  BY <1>1, FS_Interval
<1>3. PICK X \in T : \A Y \in T : Y \subseteq X => Y = X
  <2>1. T \subseteq SUBSET All
    BY <1>1
  <2>2. 0..k \in T
    BY <1>1
  <2>3. T # {}
    BY <2>2
  <2> HIDE DEF T, All
  <2>4. QED
    BY <1>2, <2>1, <2>3, LeastSubset
<1>4. PICK n \in S : n =< k /\ X = 0..n
  OBVIOUS
<1>5. ASSUME NEW m \in S, m < n PROVE FALSE
  <2>1. 0..m \in T /\ 0..m \subseteq 0..n
    BY <1>4, <1>5
  <2>2. 0..m = 0..n
    BY <2>1, <1>3, <1>4
  <2>3. n \in 0..n /\ n \notin 0..m
    BY <1>5
  <2>4. QED
    BY <2>2, <2>3
<1>6. QED
  BY <1>5

-----------------------------------------------------------------------------
(* FlattenSeq, whose definition is recursive: the sequences unroll.         *)
Unrolls(F, ss, k, S) ==
  /\ F \in [1..k -> Seq(S)]
  /\ \A i \in 1..k : F[i] = IF i = 1 THEN ss[i] ELSE F[i - 1] \o ss[i]

LEMMA UnrollingExists ==
  ASSUME NEW S, NEW ss \in Seq(Seq(S)), NEW k \in 0..Len(ss)
  PROVE  \E F : Unrolls(F, ss, k, S)
<1> DEFINE Bad == {n \in Nat : n =< Len(ss) /\ ~\E F : Unrolls(F, ss, n, S)}
<1>1. SUFFICES ASSUME Bad # {} PROVE FALSE
  OBVIOUS
<1>2. PICK n \in Bad : \A m \in Bad : n =< m
  <2>1. Bad \in SUBSET Nat
    OBVIOUS
  <2> HIDE DEF Bad
  <2>2. QED
    BY <1>1, <2>1, LeastNumber
<1>3. CASE n = 0
  <2>1. Unrolls([i \in 1..0 |-> ss[i]], ss, 0, S)
    BY DEF Unrolls
  <2>2. QED
    BY <1>2, <1>3, <2>1
<1>4. CASE n # 0
  <2>1. n \in Nat /\ n =< Len(ss) /\ n - 1 \in Nat /\ n - 1 =< Len(ss) /\ n - 1 \notin Bad
    <3> Len(ss) \in Nat
      BY LenProperties
    <3>1. n \in Nat /\ n =< Len(ss) /\ n - 1 \in Nat /\ n - 1 =< Len(ss)
      BY <1>2, <1>4
    <3>2. ~(n =< n - 1)
      BY <3>1
    <3> HIDE DEF Bad
    <3>3. QED
      BY <1>2, <3>1, <3>2
  <2>2. PICK F : Unrolls(F, ss, n - 1, S)
    BY <2>1
  <2>3. n \in 1..Len(ss) /\ ss[n] \in Seq(S)
    BY <1>2, <1>4, ElementOfSeq
  <2> DEFINE next == IF n = 1 THEN ss[n] ELSE F[n - 1] \o ss[n]
             G == [i \in 1..n |-> IF i = n THEN next ELSE F[i]]
  <2>4. next \in Seq(S)
    <3>1. CASE n = 1
      BY <3>1, <2>3
    <3>2. CASE n # 1
      <4>1. n - 1 \in 1..(n - 1)
        BY <3>2, <2>3
      <4>2. F[n - 1] \in Seq(S)
        BY <4>1, <2>2 DEF Unrolls
      <4>3. QED
        BY <4>2, <2>3, ConcatProperties
    <3>3. QED
      BY <3>1, <3>2
  <2> HIDE DEF next
  <2>5. \A i \in 1..n : i # n => i \in 1..(n - 1)
    BY <2>3
  <2>6. G \in [1..n -> Seq(S)]
    BY <2>2, <2>4, <2>5 DEF Unrolls
  <2>7. ASSUME NEW i \in 1..n
        PROVE  G[i] = IF i = 1 THEN ss[i] ELSE G[i - 1] \o ss[i]
    <3>1. CASE i = n
      <4>1. G[i] = next
        BY <3>1
      <4>2. i # 1 => G[i - 1] = F[i - 1]
        BY <2>3, <3>1
      <4>3. QED
        BY <3>1, <4>1, <4>2 DEF next
    <3>2. CASE i # n
      <4>1. i \in 1..(n - 1) /\ G[i] = F[i]
        BY <3>2, <2>5
      <4>2. i # 1 => G[i - 1] = F[i - 1]
        BY <2>3, <4>1
      <4>3. F[i] = IF i = 1 THEN ss[i] ELSE F[i - 1] \o ss[i]
        BY <4>1, <2>2 DEF Unrolls
      <4>4. QED
        BY <4>1, <4>2, <4>3
    <3>3. QED
      BY <3>1, <3>2
  <2>8. Unrolls(G, ss, n, S)
    <3> HIDE DEF G
    <3>1. QED
      BY <2>6, <2>7 DEF Unrolls
  <2>9. QED
    BY <1>2, <2>8
<1>5. QED
  BY <1>3, <1>4

(* Two unrollings of sequences with a common beginning agree there.         *)
LEMMA UnrollingIsUnique ==
  ASSUME NEW S, NEW ss, NEW tt, NEW k \in Nat, NEW l \in Nat, NEW F, NEW G, k =< l,
         Unrolls(F, ss, k, S), Unrolls(G, tt, l, S),
         \A i \in 1..k : ss[i] = tt[i]
  PROVE  \A i \in 1..k : F[i] = G[i]
<1> DEFINE Bad == {i \in Nat : i \in 1..k /\ F[i] # G[i]}
<1>1. SUFFICES ASSUME Bad # {} PROVE FALSE
  OBVIOUS
<1>2. PICK n \in Bad : \A m \in Bad : n =< m
  <2>1. Bad \in SUBSET Nat
    OBVIOUS
  <2> HIDE DEF Bad
  <2>2. QED
    BY <1>1, <2>1, LeastNumber
<1>3. n \in 1..k /\ n \in 1..l /\ F[n] # G[n]
  BY <1>2
<1>4. F[n] = IF n = 1 THEN ss[n] ELSE F[n - 1] \o ss[n]
  BY <1>3 DEF Unrolls
<1>5. G[n] = IF n = 1 THEN tt[n] ELSE G[n - 1] \o tt[n]
  BY <1>3 DEF Unrolls
<1>6. n # 1 => F[n - 1] = G[n - 1]
  <2>1. n \in Nat /\ ~(n =< n - 1)
    BY <1>3
  <2>2. n - 1 \notin Bad
    <3> HIDE DEF Bad
    <3>1. QED
      BY <1>2, <2>1
  <2>3. n # 1 => n - 1 \in Nat /\ n - 1 \in 1..k
    BY <1>3
  <2>4. QED
    BY <2>2, <2>3
<1>7. ss[n] = tt[n]
  BY <1>3
<1>8. QED
  BY <1>3, <1>4, <1>5, <1>6, <1>7

LEMMA FlattenUnrolled ==
  ASSUME NEW S, NEW ss \in Seq(Seq(S)), Len(ss) # 0
  PROVE  \E F : Unrolls(F, ss, Len(ss), S) /\ FlattenSeq(ss) = F[Len(ss)]
<1> DEFINE n == Len(ss)
           Bump(h) == [i \in 1..n |-> IF i = 1 THEN ss[i] ELSE h[i - 1] \o ss[i]]
           C == CHOOSE h : h = Bump(h)
<1>1. n \in Nat /\ n \in 0..n
  BY LenProperties
<1>2. PICK F : Unrolls(F, ss, n, S)
  BY <1>1, UnrollingExists
<1>3. F = Bump(F)
  <2>1. DOMAIN F = 1..n /\ F = [i \in 1..n |-> F[i]]
    BY <1>2 DEF Unrolls
  <2>2. \A i \in 1..n : F[i] = IF i = 1 THEN ss[i] ELSE F[i - 1] \o ss[i]
    BY <1>2 DEF Unrolls
  <2>3. QED
    BY <2>1, <2>2
<1>4. C = Bump(C)
  <2> HIDE DEF Bump
  <2>1. QED
    BY <1>3
<1>5. FlattenSeq(ss) = C[n]
  BY DEF FlattenSeq
<1> HIDE DEF C
<1>6. \A i \in 1..n : C[i] = IF i = 1 THEN ss[i] ELSE C[i - 1] \o ss[i]
  BY <1>4
<1> HIDE DEF Bump
<1> DEFINE Bad == {i \in Nat : i \in 1..n /\ C[i] # F[i]}
<1>7. Bad = {}
  <2> SUFFICES ASSUME Bad # {} PROVE FALSE
    OBVIOUS
  <2>1. PICK m \in Bad : \A j \in Bad : m =< j
    <3>1. Bad \in SUBSET Nat
      OBVIOUS
    <3> HIDE DEF Bad
    <3>2. QED
      BY <3>1, LeastNumber
  <2>2. m \in 1..n /\ C[m] # F[m]
    BY <2>1
  <2>3. C[m] = IF m = 1 THEN ss[m] ELSE C[m - 1] \o ss[m]
    BY <1>6, <2>2
  <2>4. F[m] = IF m = 1 THEN ss[m] ELSE F[m - 1] \o ss[m]
    BY <1>2, <2>2 DEF Unrolls
  <2>5. m # 1 => C[m - 1] = F[m - 1]
    <3>1. m \in Nat /\ ~(m =< m - 1)
      BY <2>2
    <3>2. m - 1 \notin Bad
      <4> HIDE DEF Bad
      <4>1. QED
        BY <2>1, <3>1
    <3>3. m # 1 => m - 1 \in Nat /\ m - 1 \in 1..n
      BY <1>1, <2>2
    <3>4. QED
      BY <3>2, <3>3
  <2>6. QED
    BY <2>2, <2>3, <2>4, <2>5
<1>8. C[n] = F[n]
  <2>1. n \in 1..n /\ n \in Nat
    BY <1>1
  <2> HIDE DEF n
  <2>2. QED
    BY <1>7, <2>1
<1>9. QED
  BY <1>2, <1>5, <1>8

(* The equations that are used: of nothing, and of one sequence more.       *)
LEMMA FlattenEmpty == FlattenSeq(<<>>) = <<>>
BY DEF FlattenSeq

LEMMA FlattenType ==
  ASSUME NEW S, NEW ss \in Seq(Seq(S))
  PROVE  FlattenSeq(ss) \in Seq(S)
<1>1. CASE Len(ss) = 0
  <2>1. ss = <<>>
    BY <1>1, EmptySeq
  <2>2. <<>> \in Seq(S)
    OBVIOUS
  <2>3. QED
    BY <2>1, <2>2, FlattenEmpty
<1>2. CASE Len(ss) # 0
  <2>1. PICK F : Unrolls(F, ss, Len(ss), S) /\ FlattenSeq(ss) = F[Len(ss)]
    BY <1>2, FlattenUnrolled
  <2>2. Len(ss) \in 1..Len(ss)
    BY <1>2, LenProperties
  <2>3. QED
    BY <2>1, <2>2 DEF Unrolls
<1>3. QED
  BY <1>1, <1>2

LEMMA FlattenAppend ==
  ASSUME NEW S, NEW ss \in Seq(Seq(S)), NEW s \in Seq(S)
  PROVE  FlattenSeq(Append(ss, s)) = FlattenSeq(ss) \o s
<1> DEFINE tt == Append(ss, s)
           n == Len(ss)
<1>1. /\ n \in Nat /\ tt \in Seq(Seq(S)) /\ Len(tt) = n + 1 /\ tt[n + 1] = s
      /\ \A i \in 1..n : tt[i] = ss[i]
  BY LenProperties, AppendProperties
<1> HIDE DEF tt
<1>2. PICK G : Unrolls(G, tt, n + 1, S) /\ FlattenSeq(tt) = G[n + 1]
  BY <1>1, FlattenUnrolled
<1>3. G[n + 1] = IF n + 1 = 1 THEN s ELSE G[n] \o s
  <2>1. n + 1 \in 1..(n + 1) /\ (n + 1) - 1 = n
    BY <1>1
  <2>2. QED
    BY <1>1, <1>2, <2>1 DEF Unrolls
<1>4. CASE n = 0
  <2>1. ss = <<>>
    BY <1>4, EmptySeq
  <2>2. FlattenSeq(ss) = <<>>
    BY <2>1, FlattenEmpty
  <2>3. <<>> \o s = s
    BY ConcatEmptySeq
  <2>4. QED
    BY <1>2, <1>3, <1>4, <2>2, <2>3 DEF tt
<1>5. CASE n # 0
  <2>1. PICK F : Unrolls(F, ss, n, S) /\ FlattenSeq(ss) = F[n]
    BY <1>5, FlattenUnrolled
  <2>2. n =< n + 1 /\ n + 1 \in Nat /\ n \in 1..n
    BY <1>1, <1>5
  <2>3. \A i \in 1..n : F[i] = G[i]
    <3>1. \A i \in 1..n : ss[i] = tt[i]
      BY <1>1
    <3> DEFINE l == n + 1
    <3>2. n \in Nat /\ l \in Nat /\ n =< l /\ Unrolls(F, ss, n, S) /\ Unrolls(G, tt, l, S)
      BY <1>1, <1>2, <2>1, <2>2
    <3> HIDE DEF l, n
    <3>3. QED
      BY <3>1, <3>2, UnrollingIsUnique
  <2>4. n + 1 # 1
    BY <1>1, <1>5
  <2>5. QED
    BY <1>2, <1>3, <2>1, <2>2, <2>3, <2>4 DEF tt
<1>6. QED
  BY <1>4, <1>5
-----------------------------------------------------------------------------
(* Induction over sequences: a set of them has <<>>, or one whose beginning *)
(* it has not.                                                              *)
LEMMA ShortestOf ==
  ASSUME NEW S, NEW Bad \in SUBSET Seq(S), Bad # {}
  PROVE  <<>> \in Bad \/ \E s \in Seq(S), x \in S : Append(s, x) \in Bad /\ s \notin Bad
<1> DEFINE Lengths == {Len(s) : s \in Bad}
<1>1. Lengths \in SUBSET Nat /\ Lengths # {}
  BY LenProperties
<1>2. PICK n \in Lengths : \A m \in Lengths : n =< m
  <2> HIDE DEF Lengths
  <2>1. QED
    BY <1>1, LeastNumber
<1>3. PICK t \in Bad : Len(t) = n
  OBVIOUS
<1>4. CASE t # <<>>
  <2>1. PICK s \in Seq(S), x \in S : t = Append(s, x)
    BY <1>4, SequenceEmptyOrAppend
  <2>2. Len(t) = Len(s) + 1 /\ Len(s) \in Nat
    BY <2>1, AppendProperties, LenProperties
  <2>3. s \notin Bad
    <3>1. ~(n =< Len(s))
      BY <1>3, <2>2
    <3>2. QED
      BY <1>2, <3>1
  <2>4. QED
    BY <2>1, <2>3
<1>5. QED
  BY <1>3, <1>4

LEMMA MinOf ==
  ASSUME NEW S \in SUBSET Nat, S # {}
  PROVE  Min(S) \in S /\ \A x \in S : Min(S) =< x
BY LeastNumber DEF Min

LEMMA MaxOf ==
  ASSUME NEW n \in Nat, NEW S \in SUBSET (0..n), S # {}
  PROVE  Max(S) \in S /\ \A x \in S : Max(S) >= x
<1> DEFINE Below == {n - x : x \in S}
<1>1. PICK d \in Below : \A e \in Below : d =< e
  <2>1. \A x \in S : x \in Int /\ n - x \in Nat
    OBVIOUS
  <2>2. Below \in SUBSET Nat /\ Below # {}
    BY <2>1
  <2> HIDE DEF Below
  <2>3. QED
    BY <2>2, LeastNumber
<1>2. PICK m \in S : d = n - m
  OBVIOUS
<1>3. \A x \in S : m >= x
  <2> TAKE x \in S
  <2>1. n - x \in Below
    OBVIOUS
  <2>2. n - m =< n - x
    BY <1>1, <1>2, <2>1
  <2>3. QED
    BY <2>2
<1>4. QED
  BY <1>3 DEF Max

LEMMA FunctionIsSeq ==
  ASSUME NEW S, NEW n \in Nat, NEW f \in [1..n -> S]
  PROVE  f \in Seq(S) /\ Len(f) = n
<1>1. f \in Seq(S)
  BY SeqDef
<1>2. DOMAIN f = 1..n /\ DOMAIN f = 1..Len(f) /\ Len(f) \in Nat
  BY <1>1, LenProperties
<1>3. QED
  BY <1>1, <1>2

-----------------------------------------------------------------------------
(***************************** counting lines *******************************)
Del(t) == [kind |-> "del", text |-> t]
Add(t) == [kind |-> "add", text |-> t]

(* The places of a value in a sequence, and how many there are.             *)
PlacesOf(s, v) == {i \in DOMAIN s : s[i] = v}
Occ(s, v) == Cardinality(PlacesOf(s, v))

LEMMA OccType ==
  ASSUME NEW S, NEW s \in Seq(S), NEW v
  PROVE  IsFiniteSet(PlacesOf(s, v)) /\ Occ(s, v) \in Nat
<1>1. Len(s) \in Nat /\ DOMAIN s = 1..Len(s) /\ 1 \in Int /\ Len(s) \in Int
  BY LenProperties
<1>2. IsFiniteSet(1..Len(s))
  BY <1>1, FS_Interval
<1>3. PlacesOf(s, v) \in SUBSET (1..Len(s))
  BY <1>1 DEF PlacesOf
<1>4. IsFiniteSet(PlacesOf(s, v))
  BY <1>2, <1>3, FS_Subset
<1>5. QED
  BY <1>4, FS_CardinalityType DEF Occ

LEMMA OccEmpty == \A v : Occ(<<>>, v) = 0
<1> TAKE v
<1>1. PlacesOf(<<>>, v) = {}
  BY DEF PlacesOf
<1>2. QED
  BY <1>1, FS_EmptySet DEF Occ

LEMMA OccAppend ==
  ASSUME NEW S, NEW s \in Seq(S), NEW x \in S, NEW v
  PROVE  Occ(Append(s, x), v) = Occ(s, v) + (IF x = v THEN 1 ELSE 0)
<1> DEFINE n == Len(s)
           t == Append(s, x)
           P == PlacesOf(s, v)
<1>1. /\ t \in Seq(S) /\ Len(t) = n + 1 /\ \A i \in 1..n : t[i] = s[i]
      /\ t[n + 1] = x /\ n \in Nat /\ DOMAIN s = 1..n
  BY AppendProperties, LenProperties
<1>2. DOMAIN t = 1..(n + 1)
  BY <1>1, LenProperties
<1>3. IsFiniteSet(P) /\ Cardinality(P) \in Nat /\ n + 1 \notin P
  <2>1. n + 1 \notin P
    BY <1>1 DEF PlacesOf
  <2>2. QED
    BY <2>1, OccType DEF Occ
<1> HIDE DEF t
<1>4. PlacesOf(t, v) = IF x = v THEN P \cup {n + 1} ELSE P
  <2>1. \A i : i \in 1..(n + 1) <=> i \in 1..n \/ i = n + 1
    BY <1>1
  <2>2. n + 1 \notin 1..n
    BY <1>1
  <2> HIDE DEF n
  <2>3. QED
    BY <1>1, <1>2, <2>1, <2>2 DEF PlacesOf
<1> HIDE DEF P
<1>5. CASE x = v
  <2>1. Cardinality(P \cup {n + 1}) = Cardinality(P) + 1
    <3> HIDE DEF n
    <3>1. QED
      BY <1>3, FS_AddElement
  <2>2. QED
    BY <1>4, <1>5, <2>1 DEF Occ, P, t
<1>6. CASE x # v
  BY <1>3, <1>4, <1>6 DEF Occ, P, t
<1>7. QED
  BY <1>5, <1>6

LEMMA OccOne ==
  ASSUME NEW x, NEW v
  PROVE  Occ(<<x>>, v) = IF x = v THEN 1 ELSE 0
<1> DEFINE none == <<>>
           one == Append(none, x)
           S == {x}
<1>1. none \in Seq(S) /\ <<x>> = one /\ Occ(none, v) = 0 /\ x \in S
  BY OccEmpty
<1> HIDE DEF none, S
<1>2. Occ(one, v) = Occ(none, v) + (IF x = v THEN 1 ELSE 0)
  BY <1>1, OccAppend
<1> HIDE DEF one
<1>3. QED
  BY <1>1, <1>2

LEMMA OccConcat ==
  ASSUME NEW S, NEW s \in Seq(S), NEW r \in Seq(S), NEW v
  PROVE  Occ(s \o r, v) = Occ(s, v) + Occ(r, v)
<1> DEFINE Bad == {u \in Seq(S) : Occ(s \o u, v) # Occ(s, v) + Occ(u, v)}
<1>1. <<>> \notin Bad
  <2>1. s \o <<>> = s /\ Occ(s, v) \in Nat
    BY ConcatEmptySeq, OccType
  <2>2. QED
    BY <2>1, OccEmpty
<1>2. ASSUME NEW u \in Seq(S), NEW x \in S, u \notin Bad PROVE Append(u, x) \notin Bad
  <2> DEFINE one == <<x>>
             su == s \o u
             add == IF x = v THEN 1 ELSE 0
  <2>1. one \in Seq(S) /\ su \in Seq(S) /\ Append(u, x) = u \o one /\ Append(su, x) = su \o one
    BY ConcatProperties, AppendIsConcat
  <2>2. su \o one = s \o (u \o one)
    <3> HIDE DEF one
    <3>1. QED
      BY <2>1, ConcatAssociative
  <2>3. s \o Append(u, x) = Append(su, x)
    <3> HIDE DEF one, su
    <3>1. QED
      BY <2>1, <2>2
  <2>4. Occ(Append(su, x), v) = Occ(su, v) + add
    <3>1. su \in Seq(S)
      BY <2>1
    <3> HIDE DEF su
    <3>2. QED
      BY <3>1, OccAppend
  <2>5. Occ(Append(u, x), v) = Occ(u, v) + add
    BY OccAppend
  <2>6. /\ Occ(s, v) \in Nat /\ Occ(u, v) \in Nat /\ add \in Nat
        /\ Occ(su, v) = Occ(s, v) + Occ(u, v)
    BY <1>2, OccType
  <2> HIDE DEF su, add
  <2>7. Occ(s \o Append(u, x), v) = Occ(s, v) + Occ(Append(u, x), v)
    BY <2>3, <2>4, <2>5, <2>6
  <2>8. QED
    BY <2>7
<1>3. Bad = {}
  <2> SUFFICES ASSUME Bad # {} PROVE FALSE
    OBVIOUS
  <2>1. Bad \in SUBSET Seq(S)
    OBVIOUS
  <2> HIDE DEF Bad
  <2>2. QED
    BY <1>1, <1>2, <2>1, ShortestOf
<1>4. QED
  BY <1>3

(* Piece by piece as many, altogether as many.                              *)
AsMany(ss, v, tt, w) ==
  Len(ss) = Len(tt) /\ \A i \in 1..Len(ss) : Occ(ss[i], v) = Occ(tt[i], w)

LEMMA OccFlatten ==
  ASSUME NEW S, NEW T, NEW ss \in Seq(Seq(S)), NEW tt \in Seq(Seq(T)), NEW v, NEW w,
         AsMany(ss, v, tt, w)
  PROVE  Occ(FlattenSeq(ss), v) = Occ(FlattenSeq(tt), w)
<1> DEFINE n == Len(ss)
<1>1. n \in Nat /\ n = Len(tt)
  BY LenProperties DEF AsMany
<1>2. CASE n = 0
  <2>1. ss = <<>> /\ tt = <<>>
    BY <1>1, <1>2, EmptySeq
  <2>2. QED
    BY <2>1, FlattenEmpty, OccEmpty
<1>3. CASE n # 0
  <2>1. PICK F : Unrolls(F, ss, n, S) /\ FlattenSeq(ss) = F[n]
    BY <1>3, FlattenUnrolled
  <2>2. PICK G : Unrolls(G, tt, n, T) /\ FlattenSeq(tt) = G[n]
    BY <1>1, <1>3, FlattenUnrolled
  <2> DEFINE Bad == {k \in Nat : k \in 1..n /\ Occ(F[k], v) # Occ(G[k], w)}
  <2>3. Bad = {}
    <3> SUFFICES ASSUME Bad # {} PROVE FALSE
      OBVIOUS
    <3>1. PICK m \in Bad : \A j \in Bad : m =< j
      <4>1. Bad \in SUBSET Nat
        OBVIOUS
      <4> HIDE DEF Bad
      <4>2. QED
        BY <4>1, LeastNumber
    <3>2. m \in 1..n /\ m \in Nat /\ Occ(F[m], v) # Occ(G[m], w)
      BY <3>1
    <3>3. /\ ss[m] \in Seq(S) /\ tt[m] \in Seq(T) /\ Occ(ss[m], v) = Occ(tt[m], w)
      BY <1>1, <3>2, ElementOfSeq DEF AsMany
    <3>4. CASE m = 1
      BY <2>1, <2>2, <3>2, <3>3, <3>4 DEF Unrolls
    <3>5. CASE m # 1
      <4>1. m - 1 \in 1..n /\ m - 1 \in Nat /\ ~(m =< m - 1)
        <5>1. n \in Nat /\ m \in 1..n /\ m # 1
          BY <1>1, <3>2, <3>5
        <5> HIDE DEF n, Bad
        <5>2. QED
          BY <5>1
      <4>2. Occ(F[m - 1], v) = Occ(G[m - 1], w)
        <5>1. m - 1 \notin Bad
          <6> HIDE DEF Bad
          <6>1. QED
            BY <3>1, <4>1
        <5>2. QED
          BY <4>1, <5>1
      <4>3. F[m] = F[m - 1] \o ss[m] /\ G[m] = G[m - 1] \o tt[m]
        BY <2>1, <2>2, <3>2, <3>5 DEF Unrolls
      <4>4. F[m - 1] \in Seq(S) /\ G[m - 1] \in Seq(T)
        BY <2>1, <2>2, <4>1 DEF Unrolls
      <4>5. /\ Occ(F[m], v) = Occ(F[m - 1], v) + Occ(ss[m], v)
            /\ Occ(G[m], w) = Occ(G[m - 1], w) + Occ(tt[m], w)
        BY <3>3, <4>3, <4>4, OccConcat
      <4>6. QED
        BY <3>2, <3>3, <4>2, <4>5
    <3>6. QED
      BY <3>4, <3>5
  <2>4. n \in 1..n /\ n \in Nat
    BY <1>1, <1>3
  <2>5. QED
    BY <2>1, <2>2, <2>3, <2>4
<1>4. QED
  BY <1>2, <1>3

LEMMA FlattenOnes ==
  ASSUME NEW S, NEW s \in Seq(S)
  PROVE  FlattenSeq([i \in DOMAIN s |-> <<s[i]>>]) = s
<1> DEFINE Ones(u) == [i \in DOMAIN u |-> <<u[i]>>]
           Bad == {u \in Seq(S) : FlattenSeq(Ones(u)) # u}
<1>1. <<>> \notin Bad
  <2>1. Ones(<<>>) = <<>>
    OBVIOUS
  <2>2. QED
    BY <2>1, FlattenEmpty
<1>2. ASSUME NEW u \in Seq(S), NEW x \in S, u \notin Bad PROVE Append(u, x) \notin Bad
  <2> DEFINE n == Len(u)
             a == Append(u, x)
  <2>1. /\ n \in Nat /\ DOMAIN u = 1..n /\ \A i \in 1..n : <<u[i]>> \in Seq(S)
    BY LenProperties, ElementOfSeq
  <2>2. Ones(u) \in [1..n -> Seq(S)]
    BY <2>1
  <2>3. Ones(u) \in Seq(Seq(S)) /\ Len(Ones(u)) = n
    <3> HIDE DEF Ones, n
    <3>1. QED
      BY <2>1, <2>2, FunctionIsSeq
  <2>4. /\ Len(a) = n + 1 /\ DOMAIN a = 1..(n + 1) /\ a[n + 1] = x
        /\ \A i \in 1..n : a[i] = u[i]
    <3>1. a \in Seq(S) /\ Len(a) = n + 1 /\ a[n + 1] = x /\ \A i \in 1..n : a[i] = u[i]
      BY AppendProperties
    <3> HIDE DEF a, n
    <3>2. QED
      BY <3>1, LenProperties
  <2>5. <<x>> \in Seq(S)
    OBVIOUS
  <2> DEFINE b == Append(Ones(u), <<x>>)
  <2>6. /\ b \in Seq(Seq(S)) /\ Len(b) = n + 1 /\ b[n + 1] = <<x>>
        /\ \A i \in 1..n : b[i] = Ones(u)[i]
    <3> HIDE DEF Ones
    <3>1. QED
      BY <2>3, <2>5, AppendProperties
  <2>7. DOMAIN b = 1..(n + 1)
    <3> HIDE DEF b
    <3>1. QED
      BY <2>6, LenProperties
  <2>8. Ones(a) = b
    <3>1. DOMAIN Ones(a) = 1..(n + 1)
      BY <2>4
    <3>2. ASSUME NEW i \in 1..(n + 1) PROVE Ones(a)[i] = b[i]
      <4>1. i \in 1..n \/ i = n + 1
        BY <2>1
      <4>2. Ones(a)[i] = <<a[i]>>
        BY <2>4
      <4>3. i \in 1..n => Ones(u)[i] = <<u[i]>>
        BY <2>1
      <4> HIDE DEF Ones, a, b
      <4>4. QED
        BY <2>4, <2>6, <4>1, <4>2, <4>3
    <3>3. Ones(a) = [i \in 1..(n + 1) |-> Ones(a)[i]]
      BY <3>1
    <3>4. b = [i \in 1..(n + 1) |-> b[i]]
      <4>1. b \in [1..Len(b) -> Seq(S)]
        <5> HIDE DEF b
        <5>1. QED
          BY <2>6, LenProperties
      <4> HIDE DEF b, n
      <4>2. QED
        BY <2>6, <4>1
    <3> HIDE DEF Ones, a, b, n
    <3>5. QED
      BY <3>2, <3>3, <3>4
  <2>9. FlattenSeq(b) = FlattenSeq(Ones(u)) \o <<x>>
    <3> HIDE DEF Ones
    <3>1. QED
      BY <2>3, <2>5, FlattenAppend
  <2>10. FlattenSeq(Ones(u)) = u
    BY <1>2
  <2>11. u \o <<x>> = a
    BY AppendIsConcat
  <2> HIDE DEF Ones, b
  <2>12. FlattenSeq(Ones(a)) = a
    BY <2>8, <2>9, <2>10, <2>11
  <2>13. QED
    BY <2>12
<1>3. Bad = {}
  <2> SUFFICES ASSUME Bad # {} PROVE FALSE
    OBVIOUS
  <2>1. Bad \in SUBSET Seq(S)
    OBVIOUS
  <2> HIDE DEF Bad
  <2>2. QED
    BY <1>1, <1>2, <2>1, ShortestOf
<1>4. QED
  BY <1>3
-----------------------------------------------------------------------------
(***************************** what is in a diff ****************************)
LEMMA LinesType ==
  ASSUME NEW S, NEW s \in Seq(S), NEW i \in Nat \ {0}, NEW n \in Nat, i + n - 1 =< Len(s)
  PROVE  Lines(s, i, n) \in Seq(S) /\ Len(Lines(s, i, n)) = n
<1>1. \A j \in i..(i + n - 1) : s[j] \in S
  <2>1. Len(s) \in Nat /\ s \in [1..Len(s) -> S]
    BY LenProperties
  <2>2. QED
    BY <2>1
<1>2. i \in Int /\ i + n - 1 \in Int
  OBVIOUS
<1> DEFINE m == i + n - 1
<1>3. m \in Int /\ \A j \in i..m : s[j] \in S
  BY <1>1, <1>2
<1> HIDE DEF m
<1>4. SubSeq(s, i, m) \in Seq(S) /\ Len(SubSeq(s, i, m)) = IF i =< m THEN m - i + 1 ELSE 0
  BY <1>2, <1>3, SubSeqProperties
<1>5. (IF i =< m THEN m - i + 1 ELSE 0) = n
  BY DEF m
<1>6. QED
  BY <1>4, <1>5 DEF Lines, m

(* The lines of a section after its headers.                                *)
BodyLine == {l \in PlainLine : l.kind \in {"at", "ctx", "del", "add"}}

(* What such a line says does not read as a header.                         *)
LEMMA PlainApart ==
  HeaderText \notin Texts /\ Absent \notin Seq(Texts \cup {HeaderText}) /\ Absent \notin Seq(Texts)
<1>1. Texts \subseteq AllTexts
  BY DEF AllTexts
<1>2. /\ Seq(Texts \cup {HeaderText}) \subseteq Seq(AllTexts \cup {HeaderText})
      /\ Seq(Texts) \subseteq Seq(AllTexts \cup {HeaderText})
  <2>1. /\ Texts \cup {HeaderText} \subseteq AllTexts \cup {HeaderText}
        /\ Texts \subseteq AllTexts \cup {HeaderText}
    BY <1>1
  <2>2. QED
    BY <2>1, SeqMonotonic
<1>3. QED
  BY <1>1, <1>2, DiffAssumption

LEMMA SaysPlainly ==
  ASSUME NEW kind, NEW texts \in Seq(Texts)
  PROVE  Says(kind, texts) = [i \in DOMAIN texts |-> [kind |-> kind, text |-> texts[i]]]
<1>1. \A i \in DOMAIN texts : texts[i] \in Texts
  BY LenProperties, ElementOfSeq
<1>2. \A i \in DOMAIN texts : texts[i] \notin Minuses /\ texts[i] \notin Pluses
  BY <1>1, DiffAssumption
<1>3. QED
  BY <1>2 DEF Says

LEMMA SaysType ==
  ASSUME NEW kind \in {"ctx", "del", "add"}, NEW texts \in Seq(Texts)
  PROVE  Says(kind, texts) \in Seq(BodyLine) /\ Len(Says(kind, texts)) = Len(texts)
<1>1. Len(texts) \in Nat /\ DOMAIN texts = 1..Len(texts) /\ \A i \in 1..Len(texts) : texts[i] \in Texts
  BY LenProperties, ElementOfSeq
<1>2. \A i \in 1..Len(texts) : [kind |-> kind, text |-> texts[i]] \in BodyLine
  BY <1>1 DEF PlainLine, BodyLine
<1>3. Says(kind, texts) \in [1..Len(texts) -> BodyLine]
  BY <1>1, <1>2, SaysPlainly
<1>4. QED
  BY <1>1, <1>3, FunctionIsSeq

LEMMA OneLineType ==
  ASSUME NEW S, NEW l \in S PROVE <<l>> \in Seq(S) /\ <<l>> # <<>> /\ <<l>>[1] = l
OBVIOUS

LEMMA AtType ==
  ASSUME NEW start \in Nat, NEW count \in Nat, count = 1 => start > 0
  PROVE  /\ At(start, count) \in Seq(BodyLine)
         /\ At(start, count) # <<>> /\ At(start, count)[1].kind = "at"
<1> DEFINE l == [kind |-> "at", start |-> start, counted |-> count # 1]
<1>1. l \in BodyLine /\ l.kind = "at" /\ At(start, count) = <<l>>
  BY DEF PlainLine, BodyLine, At
<1> HIDE DEF l
<1>2. QED
  BY <1>1, OneLineType

LEMMA ConcatType ==
  ASSUME NEW S, NEW s \in Seq(S), NEW r \in Seq(S) PROVE s \o r \in Seq(S)
BY ConcatProperties

(* What begins a sequence begins the longer one.                            *)
LEMMA FirstStays ==
  ASSUME NEW S, NEW s \in Seq(S), NEW r \in Seq(S), s # <<>>
  PROVE  s \o r \in Seq(S) /\ s \o r # <<>> /\ (s \o r)[1] = s[1]
<1>1. Len(s) \in Nat \ {0} /\ Len(r) \in Nat
  BY EmptySeq, LenProperties
<1>2. 1 \in 1..(Len(s) + Len(r)) /\ 1 <= Len(s) /\ Len(s) + Len(r) # 0
  BY <1>1
<1>3. s \o r \in Seq(S) /\ Len(s \o r) = Len(s) + Len(r) /\ (s \o r)[1] = s[1]
  BY <1>2, ConcatProperties
<1>4. QED
  BY <1>2, <1>3, EmptySeq

(* The edit of a section that is written for its file.                      *)
EditFits(content, e) == e \in PlainEdit /\ e.at + OldLen(e) - 1 =< Len(content)

LEMMA PartsOfHunk ==
  ASSUME NEW content \in Seq(Texts), NEW e, EditFits(content, e)
  PROVE  /\ Lines(content, e.at, e.before) \in Seq(Texts)
         /\ Lines(content, e.at + e.before, e.cut) \in Seq(Texts)
         /\ e.adds \in Seq(Texts)
         /\ Lines(content, e.at + e.before + e.cut, e.after) \in Seq(Texts)
<1>1. /\ e.at \in Nat \ {0} /\ e.before \in Nat /\ e.cut \in Nat /\ e.after \in Nat
      /\ e.adds \in Seq(Texts) /\ e.at + (e.before + e.cut + e.after) - 1 =< Len(content)
  BY DEF EditFits, PlainEdit, OldLen
<1>2. Len(content) \in Nat
  BY LenProperties
<1> DEFINE at == e.at
           bf == e.before
           ct == e.cut
           af == e.after
           len == Len(content)
           m == at + bf
           n == at + bf + ct
<1>3. /\ at \in Nat \ {0} /\ bf \in Nat /\ ct \in Nat /\ af \in Nat /\ len \in Nat
      /\ at + (bf + ct + af) - 1 =< len
  BY <1>1, <1>2
<1> HIDE DEF at, bf, ct, af, len
<1>4. /\ m \in Nat \ {0} /\ n \in Nat \ {0}
      /\ at + bf - 1 =< len /\ m + ct - 1 =< len /\ n + af - 1 =< len
  BY <1>3
<1> HIDE DEF m, n
<1>5. /\ Lines(content, at, bf) \in Seq(Texts)
      /\ Lines(content, m, ct) \in Seq(Texts)
      /\ Lines(content, n, af) \in Seq(Texts)
  <2> USE DEF len
  <2>1. QED
    BY <1>3, <1>4, LinesType
<1>6. QED
  BY <1>1, <1>5 DEF at, bf, ct, af, m, n

LEMMA AtCount ==
  \A start, count, t : Occ(At(start, count), Del(t)) = 0 /\ Occ(At(start, count), Add(t)) = 0
<1> TAKE start, count, t
<1> DEFINE l == [kind |-> "at", start |-> start, counted |-> count # 1]
<1>1. l.kind = "at" /\ Del(t).kind = "del" /\ Add(t).kind = "add" /\ At(start, count) = <<l>>
  BY DEF Del, Add, At
<1> HIDE DEF l
<1>2. l # Del(t) /\ l # Add(t)
  BY <1>1
<1>3. QED
  BY <1>1, <1>2, OccOne

LEMMA SaysCount ==
  ASSUME NEW texts \in Seq(Texts), NEW t
  PROVE  /\ Occ(Says("del", texts), Del(t)) = Occ(texts, t)
         /\ Occ(Says("add", texts), Add(t)) = Occ(texts, t)
         /\ Occ(Says("del", texts), Add(t)) = 0
         /\ Occ(Says("add", texts), Del(t)) = 0
         /\ Occ(Says("ctx", texts), Del(t)) = 0
         /\ Occ(Says("ctx", texts), Add(t)) = 0
<1>1. ASSUME NEW kind PROVE DOMAIN Says(kind, texts) = DOMAIN texts
  BY DEF Says
<1>2. ASSUME NEW kind, NEW i \in DOMAIN texts
      PROVE  /\ Says(kind, texts)[i] = Del(t) <=> kind = "del" /\ texts[i] = t
             /\ Says(kind, texts)[i] = Add(t) <=> kind = "add" /\ texts[i] = t
  <2>1. /\ Says(kind, texts)[i] = [kind |-> kind, text |-> texts[i]]
        /\ Del(t) = [kind |-> "del", text |-> t] /\ Add(t) = [kind |-> "add", text |-> t]
    BY SaysPlainly DEF Del, Add
  <2>2. \A k1, k2, t1, t2 : [kind |-> k1, text |-> t1] = [kind |-> k2, text |-> t2]
                              <=> k1 = k2 /\ t1 = t2
    OBVIOUS
  <2>3. QED
    BY <2>1, <2>2
<1>3. /\ PlacesOf(Says("del", texts), Del(t)) = PlacesOf(texts, t)
      /\ PlacesOf(Says("add", texts), Add(t)) = PlacesOf(texts, t)
      /\ PlacesOf(Says("del", texts), Add(t)) = {}
      /\ PlacesOf(Says("add", texts), Del(t)) = {}
      /\ PlacesOf(Says("ctx", texts), Del(t)) = {}
      /\ PlacesOf(Says("ctx", texts), Add(t)) = {}
  BY <1>1, <1>2 DEF PlacesOf
<1>4. QED
  BY <1>3, FS_EmptySet DEF Occ

(* A hunk says what its edit cuts and adds.                                 *)
LEMMA HunkType ==
  ASSUME NEW content \in Seq(Texts), NEW edits, NEW i, EditFits(content, edits[i]),
         NewStart(edits, i) \in Nat, NewLen(edits[i]) > 0 => NewStart(edits, i) > 0
  PROVE  LET h == Hunk(content, edits, i)
             e == edits[i]
         IN  /\ h \in Seq(BodyLine) /\ h # <<>> /\ h[1].kind = "at"
             /\ \A t \in Texts :
                  /\ Occ(h, Del(t)) = Occ(Lines(content, e.at + e.before, e.cut), t)
                  /\ Occ(h, Add(t)) = Occ(e.adds, t)
<1> DEFINE e == edits[i]
           kept == Lines(content, e.at, e.before)
           cut == Lines(content, e.at + e.before, e.cut)
           adds == e.adds
           rest == Lines(content, e.at + e.before + e.cut, e.after)
           a == At(NewStart(edits, i), NewLen(e))
           b == Says("ctx", kept)
           c == Says("del", cut)
           d == Says("add", adds)
           f == Says("ctx", rest)
<1>1. a \in Seq(BodyLine) /\ a # <<>> /\ a[1].kind = "at"
  <2>1. NewLen(e) \in Nat
    BY LenProperties DEF NewLen, EditFits, PlainEdit
  <2>2. NewLen(e) = 1 => NewLen(e) > 0
    OBVIOUS
  <2>3. QED
    BY <2>1, <2>2, AtType
<1>2. /\ kept \in Seq(Texts) /\ cut \in Seq(Texts) /\ adds \in Seq(Texts) /\ rest \in Seq(Texts)
  BY PartsOfHunk
<1>3. b \in Seq(BodyLine) /\ c \in Seq(BodyLine) /\ d \in Seq(BodyLine) /\ f \in Seq(BodyLine)
  BY <1>2, SaysType
<1>4. Hunk(content, edits, i) = a \o b \o c \o d \o f
  BY DEF Hunk
<1>5. \A t \in Texts : /\ Occ(a, Del(t)) = 0 /\ Occ(a, Add(t)) = 0
                       /\ Occ(b, Del(t)) = 0 /\ Occ(b, Add(t)) = 0
                       /\ Occ(c, Del(t)) = Occ(cut, t) /\ Occ(c, Add(t)) = 0
                       /\ Occ(d, Del(t)) = 0 /\ Occ(d, Add(t)) = Occ(adds, t)
                       /\ Occ(f, Del(t)) = 0 /\ Occ(f, Add(t)) = 0
                       /\ Occ(cut, t) \in Nat /\ Occ(adds, t) \in Nat
  <2>1. \A t \in Texts : Occ(cut, t) \in Nat /\ Occ(adds, t) \in Nat
    BY <1>2, OccType
  <2>2. \A t \in Texts : Occ(a, Del(t)) = 0 /\ Occ(a, Add(t)) = 0
    BY AtCount
  <2>3. \A t \in Texts : /\ Occ(b, Del(t)) = 0 /\ Occ(b, Add(t)) = 0
                         /\ Occ(f, Del(t)) = 0 /\ Occ(f, Add(t)) = 0
    BY <1>2, SaysCount
  <2>4. \A t \in Texts : /\ Occ(c, Del(t)) = Occ(cut, t) /\ Occ(c, Add(t)) = 0
                         /\ Occ(d, Del(t)) = 0 /\ Occ(d, Add(t)) = Occ(adds, t)
    BY <1>2, SaysCount
  <2> HIDE DEF a, b, c, d, f, cut, adds
  <2>5. QED
    BY <2>1, <2>2, <2>3, <2>4
<1> HIDE DEF a, b, c, d, f, cut, adds, kept, rest
<1> DEFINE ab == a \o b
           abc == ab \o c
           abcd == abc \o d
           h == abcd \o f
<1>6. ab \in Seq(BodyLine) /\ ab # <<>> /\ ab[1].kind = "at"
  BY <1>1, <1>3, FirstStays
<1>7. \A v : Occ(ab, v) = Occ(a, v) + Occ(b, v)
  BY <1>1, <1>3, OccConcat
<1> HIDE DEF ab
<1>8. abc \in Seq(BodyLine) /\ abc # <<>> /\ abc[1].kind = "at"
  BY <1>3, <1>6, FirstStays
<1>9. \A v : Occ(abc, v) = Occ(ab, v) + Occ(c, v)
  BY <1>3, <1>6, OccConcat
<1> HIDE DEF abc
<1>10. abcd \in Seq(BodyLine) /\ abcd # <<>> /\ abcd[1].kind = "at"
  BY <1>3, <1>8, FirstStays
<1>11. \A v : Occ(abcd, v) = Occ(abc, v) + Occ(d, v)
  BY <1>3, <1>8, OccConcat
<1> HIDE DEF abcd
<1>12. h \in Seq(BodyLine) /\ h # <<>> /\ h[1].kind = "at"
  BY <1>3, <1>10, FirstStays
<1>13. \A v : Occ(h, v) = Occ(abcd, v) + Occ(f, v)
  BY <1>3, <1>10, OccConcat
<1>14. Hunk(content, edits, i) = h
  BY <1>4 DEF ab, abc, abcd
<1> HIDE DEF h
<1>15. ASSUME NEW t \in Texts
       PROVE  Occ(h, Del(t)) = Occ(cut, t) /\ Occ(h, Add(t)) = Occ(adds, t)
  BY <1>5, <1>7, <1>9, <1>11, <1>13
<1>16. QED
  BY <1>12, <1>14, <1>15 DEF cut, adds

(* What Init says of a plan and the files it was made for.                  *)
PlanFits(version, patch) ==
  /\ PlainFiles(version) /\ patch \in Seq(PlainSection)
  /\ patch \in Plans /\ WrittenFor(version, patch)

SectionFits(version, section) ==
  /\ section \in PlainSection
  /\ section.does = "create" => version[section.path] = Absent
  /\ section.does = "delete" => version[section.path] \in Seq(Texts)
  /\ section.does = "modify" =>
       /\ version[section.path] \in Seq(Texts)
       /\ section.edits \in Seq(PlainEdit) \ {<<>>}
       /\ \A k \in DOMAIN section.edits : /\ EditFits(version[section.path], section.edits[k])
                                          /\ NewStart(section.edits, k) \in Nat
                                          /\ NewLen(section.edits[k]) > 0
                                               => NewStart(section.edits, k) > 0

LEMMA SectionsFit ==
  ASSUME NEW version, NEW patch, PlanFits(version, patch)
  PROVE  /\ patch \in Seq(PlainSection)
         /\ \A i \in DOMAIN patch : SectionFits(version, patch[i])
<1>1. /\ patch \in Seq(PlainSection) /\ version \in [Names -> {Absent} \cup Seq(Texts)]
      /\ patch \in Plans
  BY DEF PlanFits, PlainFiles
<1>2. ASSUME NEW i \in DOMAIN patch PROVE SectionFits(version, patch[i])
  <2> DEFINE section == patch[i]
             content == version[section.path]
  <2>1. section \in PlainSection
    BY <1>1, LenProperties, ElementOfSeq
  <2>2. section.path \in Names /\ section.does \in {"create", "delete", "modify"}
    BY <2>1 DEF PlainSection
  <2>3. content \in {Absent} \cup Seq(Texts)
    BY <1>1, <2>2
  <2>4. /\ section.does = "create" => content = Absent
        /\ section.does = "delete" => content \notin {Absent, <<>>}
        /\ section.does = "modify" =>
             /\ content # Absent
             /\ \A k \in DOMAIN section.edits :
                  section.edits[k].at + OldLen(section.edits[k]) - 1 =< Len(content)
    BY DEF PlanFits, WrittenFor
  <2>5. section.does = "modify" => section.edits \in Seq(PlainEdit) \ {<<>>}
    BY <2>1 DEF PlainSection
  <2>6. section.does = "modify" =>
          \A k \in DOMAIN section.edits :
            /\ NewStart(section.edits, k) \in Nat
            /\ NewLen(section.edits[k]) > 0 => NewStart(section.edits, k) > 0
    BY <1>1, PatchAssumption
  <2>7. section.does = "modify" => \A k \in DOMAIN section.edits : section.edits[k] \in PlainEdit
    BY <2>5, LenProperties, ElementOfSeq
  <2> HIDE DEF section, content
  <2>8. section.does = "modify" => \A k \in DOMAIN section.edits : EditFits(content, section.edits[k])
    BY <2>4, <2>7 DEF EditFits
  <2>9. SectionFits(version, section)
    BY <2>1, <2>3, <2>4, <2>5, <2>6, <2>8 DEF SectionFits, content
  <2>10. QED
    BY <2>9 DEF section
<1>3. QED
  BY <1>1, <1>2

HunksOf(version, section) ==
  [k \in DOMAIN section.edits |-> Hunk(version[section.path], section.edits, k)]
CutsOf(version, section) ==
  [k \in DOMAIN section.edits |->
     LET e == section.edits[k] IN Lines(version[section.path], e.at + e.before, e.cut)]
AddsOf(section) == [k \in DOMAIN section.edits |-> section.edits[k].adds]

LEMMA HunksType ==
  ASSUME NEW version, NEW section, SectionFits(version, section), section.does = "modify"
  PROVE  LET hh == HunksOf(version, section)
             cuts == CutsOf(version, section)
             adds == AddsOf(section)
             n == Len(section.edits)
         IN  /\ n \in Nat \ {0} /\ Len(hh) = n /\ Len(cuts) = n /\ Len(adds) = n
             /\ hh \in Seq(Seq(BodyLine)) /\ cuts \in Seq(Seq(Texts)) /\ adds \in Seq(Seq(Texts))
             /\ hh[1] # <<>> /\ hh[1][1].kind = "at"
             /\ \A k \in 1..n : \A t \in Texts : /\ Occ(hh[k], Del(t)) = Occ(cuts[k], t)
                                                  /\ Occ(hh[k], Add(t)) = Occ(adds[k], t)
<1> DEFINE edits == section.edits
           content == version[section.path]
           n == Len(edits)
           Cut(k) == Lines(content, edits[k].at + edits[k].before, edits[k].cut)
           hh == [k \in DOMAIN edits |-> Hunk(content, edits, k)]
           cuts == [k \in DOMAIN edits |-> Cut(k)]
           adds == [k \in DOMAIN edits |-> edits[k].adds]
<1>1. edits \in Seq(PlainEdit) /\ edits # <<>> /\ content \in Seq(Texts)
  BY DEF SectionFits
<1>2. n \in Nat \ {0} /\ DOMAIN edits = 1..n
  BY <1>1, LenProperties, EmptySeq
<1>3. ASSUME NEW k \in 1..n
      PROVE  /\ Hunk(content, edits, k) \in Seq(BodyLine) /\ Hunk(content, edits, k) # <<>>
             /\ Hunk(content, edits, k)[1].kind = "at"
             /\ \A t \in Texts : /\ Occ(Hunk(content, edits, k), Del(t)) = Occ(Cut(k), t)
                                  /\ Occ(Hunk(content, edits, k), Add(t)) = Occ(edits[k].adds, t)
             /\ Cut(k) \in Seq(Texts) /\ edits[k].adds \in Seq(Texts)
  <2>1. /\ EditFits(content, edits[k]) /\ NewStart(edits, k) \in Nat
        /\ NewLen(edits[k]) > 0 => NewStart(edits, k) > 0
    BY <1>2 DEF SectionFits
  <2> HIDE DEF edits, content, n
  <2>2. QED
    BY <1>1, <2>1, HunkType, PartsOfHunk
<1> HIDE DEF edits, content
<1>4. /\ hh \in [1..n -> Seq(BodyLine)] /\ cuts \in [1..n -> Seq(Texts)]
      /\ adds \in [1..n -> Seq(Texts)]
  <2> HIDE DEF n, Cut
  <2>1. QED
    BY <1>2, <1>3
<1>5. \A k \in 1..n : hh[k] = Hunk(content, edits, k) /\ cuts[k] = Cut(k) /\ adds[k] = edits[k].adds
  BY <1>2
<1> HIDE DEF hh, cuts, adds, n, Cut
<1>6. /\ hh \in Seq(Seq(BodyLine)) /\ Len(hh) = n /\ cuts \in Seq(Seq(Texts)) /\ Len(cuts) = n
      /\ adds \in Seq(Seq(Texts)) /\ Len(adds) = n
  BY <1>2, <1>4, FunctionIsSeq
<1>7. 1 \in 1..n
  BY <1>2
<1>8. /\ hh[1] # <<>> /\ hh[1][1].kind = "at"
      /\ \A k \in 1..n : \A t \in Texts : /\ Occ(hh[k], Del(t)) = Occ(cuts[k], t)
                                           /\ Occ(hh[k], Add(t)) = Occ(adds[k], t)
  BY <1>3, <1>5, <1>7
<1>9. QED
  BY <1>2, <1>6, <1>8 DEF hh, cuts, adds, n, Cut, edits, content, HunksOf, CutsOf, AddsOf

LEMMA FlattenFirst ==
  ASSUME NEW S, NEW ss \in Seq(Seq(S)), ss # <<>>, ss[1] # <<>>
  PROVE  FlattenSeq(ss) \in Seq(S) /\ FlattenSeq(ss) # <<>> /\ FlattenSeq(ss)[1] = ss[1][1]
<1> DEFINE n == Len(ss)
<1>1. n \in Nat \ {0} /\ n \in 1..n
  BY EmptySeq
<1>2. PICK F : Unrolls(F, ss, n, S) /\ FlattenSeq(ss) = F[n]
  BY <1>1, FlattenUnrolled
<1> DEFINE Good(k) == F[k] \in Seq(S) /\ F[k] # <<>> /\ F[k][1] = ss[1][1]
           Bad == {k \in Nat : k \in 1..n /\ ~Good(k)}
<1>3. Bad = {}
  <2> SUFFICES ASSUME Bad # {} PROVE FALSE
    OBVIOUS
  <2>1. PICK m \in Bad : \A j \in Bad : m =< j
    <3>1. Bad \in SUBSET Nat
      OBVIOUS
    <3> HIDE DEF Bad
    <3>2. QED
      BY <3>1, LeastNumber
  <2>2. m \in 1..n /\ m \in Nat /\ ~Good(m)
    BY <2>1
  <2>3. ss[m] \in Seq(S)
    BY <2>2, ElementOfSeq
  <2>4. CASE m = 1
    BY <1>2, <2>2, <2>3, <2>4 DEF Unrolls
  <2>5. CASE m # 1
    <3>1. m - 1 \in 1..n /\ m - 1 \in Nat /\ ~(m =< m - 1)
      BY <1>1, <2>2, <2>5
    <3>2. m - 1 \notin Bad
      <4> HIDE DEF Bad
      <4>1. QED
        BY <2>1, <3>1
    <3>3. Good(m - 1)
      BY <3>1, <3>2
    <3>4. F[m] = F[m - 1] \o ss[m]
      BY <1>2, <2>2, <2>5 DEF Unrolls
    <3> DEFINE g == F[m - 1]
               h == ss[m]
    <3>5. g \in Seq(S) /\ g # <<>> /\ g[1] = ss[1][1] /\ h \in Seq(S) /\ F[m] = g \o h
      BY <2>3, <3>3, <3>4
    <3> HIDE DEF g, h, Good
    <3>6. g \o h \in Seq(S) /\ g \o h # <<>> /\ (g \o h)[1] = g[1]
      BY <3>5, FirstStays
    <3>7. QED
      BY <2>2, <3>5, <3>6 DEF Good
  <2>6. QED
    BY <2>4, <2>5
<1>4. Good(n)
  BY <1>1, <1>3
<1>5. QED
  BY <1>2, <1>4

(* A section: its headers, and what follows them.                           *)
OldOf(section) == IF section.does = "create" THEN DevNull ELSE section.path
NewOf(section) == IF section.does = "delete" THEN DevNull ELSE section.path
BodyOf(version, section) ==
  CASE section.does = "modify" ->
         FlattenSeq(HunksOf(version, section))
    [] section.does = "create" -> At(1, Len(section.content)) \o Says("add", section.content)
    [] section.does = "delete" -> At(0, 0) \o Says("del", version[section.path])

LEMMA BodyIs ==
  ASSUME NEW version, NEW section, SectionFits(version, section)
  PROVE  LET b == BodyOf(version, section) IN
         /\ b \in Seq(BodyLine) /\ b # <<>> /\ b[1].kind = "at"
         /\ section.does = "modify" =>
              \A t \in Texts : /\ Occ(b, Del(t)) = Occ(CutLines(version, section), t)
                               /\ Occ(b, Add(t)) = Occ(AddedLines(section), t)
<1> DEFINE b == BodyOf(version, section)
<1>1. section.does \in {"create", "delete", "modify"}
  BY DEF SectionFits, PlainSection
<1>2. CASE section.does = "modify"
  <2> DEFINE hh == HunksOf(version, section)
             cuts == CutsOf(version, section)
             adds == AddsOf(section)
             n == Len(section.edits)
  <2>1. /\ n \in Nat \ {0} /\ Len(hh) = n /\ Len(cuts) = n /\ Len(adds) = n
        /\ hh \in Seq(Seq(BodyLine)) /\ cuts \in Seq(Seq(Texts)) /\ adds \in Seq(Seq(Texts))
        /\ hh[1] # <<>> /\ hh[1][1].kind = "at"
        /\ \A k \in 1..n : \A t \in Texts : /\ Occ(hh[k], Del(t)) = Occ(cuts[k], t)
                                             /\ Occ(hh[k], Add(t)) = Occ(adds[k], t)
    BY <1>2, HunksType
  <2>2. /\ b = FlattenSeq(hh) /\ CutLines(version, section) = FlattenSeq(cuts)
        /\ AddedLines(section) = FlattenSeq(adds)
    BY <1>2 DEF BodyOf, CutLines, AddedLines, CutsOf, AddsOf
  <2> HIDE DEF hh, cuts, adds, b, n
  <2>3. b \in Seq(BodyLine) /\ b # <<>> /\ b[1].kind = "at"
    <3>1. hh # <<>>
      BY <2>1, EmptySeq
    <3>2. QED
      BY <2>1, <2>2, <3>1, FlattenFirst
  <2>4. ASSUME NEW t \in Texts
        PROVE  /\ Occ(b, Del(t)) = Occ(CutLines(version, section), t)
               /\ Occ(b, Add(t)) = Occ(AddedLines(section), t)
    <3> DEFINE del == Del(t)
               add == Add(t)
    <3>1. AsMany(hh, del, cuts, t) /\ AsMany(hh, add, adds, t)
      BY <2>1 DEF AsMany
    <3> HIDE DEF del, add
    <3>2. Occ(FlattenSeq(hh), del) = Occ(FlattenSeq(cuts), t)
      BY <2>1, <3>1, OccFlatten
    <3>3. Occ(FlattenSeq(hh), add) = Occ(FlattenSeq(adds), t)
      BY <2>1, <3>1, OccFlatten
    <3>4. QED
      BY <2>2, <3>2, <3>3 DEF del, add
  <2>5. QED
    BY <2>3, <2>4 DEF b
<1>3. CASE section.does = "create"
  <2> DEFINE a == At(1, Len(section.content))
             c == Says("add", section.content)
  <2>1. section.content \in Seq(Texts)
    BY <1>3 DEF SectionFits, PlainSection
  <2>2. Len(section.content) \in Nat /\ 1 \in Nat /\ 1 > 0
    BY <2>1, LenProperties
  <2>3. a \in Seq(BodyLine) /\ a # <<>> /\ a[1].kind = "at" /\ c \in Seq(BodyLine)
    BY <2>1, <2>2, AtType, SaysType
  <2>4. b = a \o c
    BY <1>3 DEF BodyOf
  <2> HIDE DEF a, c, b
  <2>5. b \in Seq(BodyLine) /\ b # <<>> /\ b[1].kind = "at"
    BY <2>3, <2>4, FirstStays
  <2>6. QED
    BY <1>3, <2>5 DEF b
<1>4. CASE section.does = "delete"
  <2> DEFINE a == At(0, 0)
             c == Says("del", version[section.path])
  <2>1. version[section.path] \in Seq(Texts) /\ 0 \in Nat /\ 0 # 1
    BY <1>4 DEF SectionFits
  <2>2. a \in Seq(BodyLine) /\ a # <<>> /\ a[1].kind = "at" /\ c \in Seq(BodyLine)
    BY <2>1, AtType, SaysType
  <2>3. b = a \o c
    BY <1>4 DEF BodyOf
  <2> HIDE DEF a, c, b
  <2>4. b \in Seq(BodyLine) /\ b # <<>> /\ b[1].kind = "at"
    BY <2>2, <2>3, FirstStays
  <2>5. QED
    BY <1>4, <2>4 DEF b
<1>5. QED
  BY <1>1, <1>2, <1>3, <1>4

LEMMA HeadersAre ==
  ASSUME NEW version, NEW section, SectionFits(version, section)
  PROVE  LET h == Header("old", OldOf(section)) \o Header("new", NewOf(section)) IN
         /\ h \in Seq(PlainLine) /\ Len(h) = 2
         /\ h[1].kind = "old" /\ h[1].path = OldOf(section)
         /\ h[2].kind = "new" /\ h[2].path = NewOf(section)
<1> DEFINE x == [kind |-> "old", path |-> OldOf(section), text |-> HeaderText]
           y == [kind |-> "new", path |-> NewOf(section), text |-> HeaderText]
<1>1. OldOf(section) \in Names \cup {DevNull} /\ NewOf(section) \in Names \cup {DevNull}
  BY DEF OldOf, NewOf, SectionFits, PlainSection
<1>2. /\ x \in PlainLine /\ x.kind = "old" /\ x.path = OldOf(section)
      /\ y \in PlainLine /\ y.kind = "new" /\ y.path = NewOf(section)
  BY <1>1 DEF PlainLine
<1>3. Header("old", OldOf(section)) = <<x>> /\ Header("new", NewOf(section)) = <<y>>
  BY DEF Header
<1> HIDE DEF x, y
<1> DEFINE a == <<x>>
           b == <<y>>
<1>4. /\ a \in Seq(PlainLine) /\ b \in Seq(PlainLine) /\ Len(a) = 1 /\ Len(b) = 1
      /\ a[1] = x /\ b[1] = y
  BY <1>2
<1> HIDE DEF a, b
<1>5. /\ a \o b \in Seq(PlainLine) /\ Len(a \o b) = 2
      /\ (a \o b)[1] = x /\ (a \o b)[2] = y
  BY <1>4, ConcatProperties
<1>6. QED
  BY <1>2, <1>3, <1>5 DEF a, b

LEMMA SectionParts ==
  ASSUME NEW version, NEW section, SectionFits(version, section)
  PROVE  /\ SectionLines(version, section) =
              (Header("old", OldOf(section)) \o Header("new", NewOf(section)))
                 \o BodyOf(version, section)
         /\ SectionLines(version, section) \in Seq(PlainLine)
<1> DEFINE h == Header("old", OldOf(section)) \o Header("new", NewOf(section))
           b == BodyOf(version, section)
<1>1. section.does \in {"create", "delete", "modify"}
  BY DEF SectionFits, PlainSection
<1>2. h \in Seq(PlainLine)
  BY HeadersAre
<1>3. b \in Seq(PlainLine)
  <2>1. b \in Seq(BodyLine) /\ BodyLine \subseteq PlainLine
    BY BodyIs DEF BodyLine
  <2> HIDE DEF b
  <2>2. QED
    BY <2>1, SeqMonotonic
<1>4. CASE section.does = "modify"
  <2>1. SectionLines(version, section) = h \o FlattenSeq(HunksOf(version, section))
    BY <1>4 DEF SectionLines, OldOf, NewOf, HunksOf
  <2>2. b = FlattenSeq(HunksOf(version, section))
    BY <1>4 DEF BodyOf
  <2> HIDE DEF h, b
  <2>3. SectionLines(version, section) = h \o b
    BY <2>1, <2>2
  <2>4. QED
    BY <1>2, <1>3, <2>3, ConcatType DEF h, b
<1>5. ASSUME NEW c \in Seq(BodyLine), NEW d \in Seq(BodyLine) PROVE (h \o c) \o d = h \o (c \o d)
  <2>1. c \in Seq(PlainLine) /\ d \in Seq(PlainLine)
    <3>1. BodyLine \subseteq PlainLine
      BY DEF BodyLine
    <3>2. QED
      BY <3>1, SeqMonotonic
  <2> HIDE DEF h
  <2>2. QED
    BY <1>2, <2>1, ConcatAssociative
<1>6. CASE section.does = "create"
  <2> DEFINE a == At(1, Len(section.content))
             c == Says("add", section.content)
  <2>1. section.content \in Seq(Texts)
    BY <1>6 DEF SectionFits, PlainSection
  <2>2. Len(section.content) \in Nat /\ 1 \in Nat /\ 1 > 0
    BY <2>1, LenProperties
  <2>3. a \in Seq(BodyLine) /\ c \in Seq(BodyLine)
    BY <2>1, <2>2, AtType, SaysType
  <2>4. b = a \o c /\ SectionLines(version, section) = h \o a \o c
    BY <1>6 DEF SectionLines, OldOf, NewOf, BodyOf
  <2> HIDE DEF a, c, b, h
  <2>5. SectionLines(version, section) = h \o b
    BY <1>5, <2>3, <2>4
  <2>6. QED
    BY <1>2, <1>3, <2>5, ConcatType DEF h, b
<1>7. CASE section.does = "delete"
  <2> DEFINE a == At(0, 0)
             c == Says("del", version[section.path])
  <2>1. version[section.path] \in Seq(Texts) /\ 0 \in Nat /\ 0 # 1
    BY <1>7 DEF SectionFits
  <2>2. a \in Seq(BodyLine) /\ c \in Seq(BodyLine)
    BY <2>1, AtType, SaysType
  <2>3. b = a \o c /\ SectionLines(version, section) = h \o a \o c
    BY <1>7 DEF SectionLines, OldOf, NewOf, BodyOf
  <2> HIDE DEF a, c, b, h
  <2>4. SectionLines(version, section) = h \o b
    BY <1>5, <2>2, <2>3
  <2>5. QED
    BY <1>2, <1>3, <2>4, ConcatType DEF h, b
<1>8. SectionLines(version, section) = h \o b
  BY <1>1, <1>4, <1>6, <1>7
<1> HIDE DEF h, b
<1>9. QED
  BY <1>2, <1>3, <1>8, ConcatType DEF h, b

(* A section with the line git puts before it.                              *)
Leader(git) == IF git THEN <<[kind |-> "git"]>> ELSE <<>>
BlockOf(version, section, git) == Leader(git) \o SectionLines(version, section)
BlocksOf(version, patch, git) == [i \in DOMAIN patch |-> BlockOf(version, patch[i], git)]

LEMMA LeaderType == \A git \in BOOLEAN : Leader(git) \in Seq(PlainLine)
<1>1. [kind |-> "git"] \in PlainLine
  BY DEF PlainLine
<1>2. <<[kind |-> "git"]>> \in Seq(PlainLine) /\ <<>> \in Seq(PlainLine)
  BY <1>1, OneLineType
<1>3. QED
  BY <1>2 DEF Leader

LEMMA UnifiedIs ==
  \A version, patch, git : Unified(version, patch, git) = FlattenSeq(BlocksOf(version, patch, git))
BY DEF Unified, BlocksOf, BlockOf, Leader

LEMMA BlocksType ==
  ASSUME NEW version, NEW patch, PlanFits(version, patch), NEW git \in BOOLEAN
  PROVE  /\ BlocksOf(version, patch, git) \in Seq(Seq(PlainLine))
         /\ Len(BlocksOf(version, patch, git)) = Len(patch)
<1>1. /\ patch \in Seq(PlainSection)
      /\ \A i \in DOMAIN patch : SectionFits(version, patch[i])
  BY SectionsFit
<1>2. Len(patch) \in Nat /\ DOMAIN patch = 1..Len(patch)
  BY <1>1, LenProperties
<1>3. ASSUME NEW i \in DOMAIN patch PROVE BlockOf(version, patch[i], git) \in Seq(PlainLine)
  <2>1. SectionLines(version, patch[i]) \in Seq(PlainLine)
    BY <1>1, SectionParts
  <2>2. QED
    BY <2>1, LeaderType, ConcatType DEF BlockOf
<1>4. BlocksOf(version, patch, git) \in [1..Len(patch) -> Seq(PlainLine)]
  BY <1>2, <1>3 DEF BlocksOf
<1>5. QED
  BY <1>2, <1>4, FunctionIsSeq

LEMMA UnifiedType ==
  ASSUME NEW version, NEW patch, PlanFits(version, patch), NEW git \in BOOLEAN
  PROVE  Unified(version, patch, git) \in Seq(PlainLine)
BY BlocksType, UnifiedIs, FlattenType

LEMMA BeginningType ==
  ASSUME NEW S, NEW s \in Seq(S), NEW n \in 0..Len(s)
  PROVE  /\ SubSeq(s, 1, n) \in Seq(S) /\ Len(SubSeq(s, 1, n)) = n
         /\ \A i \in 1..n : SubSeq(s, 1, n)[i] = s[i]
<1>1. Len(s) \in Nat
  BY LenProperties
<1>2. \A i \in 1..n : s[i] \in S
  BY <1>1, ElementOfSeq
<1>3. n \in Int /\ 1 \in Int /\ n - 1 + 1 = n /\ (IF 1 =< n THEN n - 1 + 1 ELSE 0) = n
  BY <1>1
<1> DEFINE t == SubSeq(s, 1, n)
<1>4. /\ t \in Seq(S) /\ Len(t) = IF 1 =< n THEN n - 1 + 1 ELSE 0
      /\ \A i \in 1..(n - 1 + 1) : t[i] = s[1 + i - 1]
  BY <1>2, <1>3, SubSeqProperties
<1>5. \A i \in 1..n : t[i] = s[i]
  <2> TAKE i \in 1..n
  <2>1. i \in 1..(n - 1 + 1) /\ 1 + i - 1 = i
    BY <1>1
  <2>2. QED
    BY <1>4, <2>1
<1>6. QED
  BY <1>3, <1>4, <1>5

(* Whatever apply_patch is given is a sequence of such lines.               *)
LEMMA DiffType ==
  ASSUME NEW version, NEW patch, PlanFits(version, patch), NEW git \in BOOLEAN,
         NEW d \in Prefixes(Unified(version, patch, git))
  PROVE  d \in Seq(PlainLine)
<1> DEFINE all == Unified(version, patch, git)
<1>1. all \in Seq(PlainLine)
  BY UnifiedType
<1>2. PICK n \in 0..Len(all) : d = SubSeq(all, 1, n)
  BY DEF Prefixes
<1> HIDE DEF all
<1>3. QED
  BY <1>1, <1>2, BeginningType

-----------------------------------------------------------------------------
(********************** what the steps do to the types **********************)
Line == Texts \cup {HeaderText}

ChangesReported == result # "error" => \A p \in Names : files[p] # before[p] => p \in report

PatchInv == /\ PlainTypes
            /\ PlanFits(base, plan)
            /\ PlainFiles(before)
            /\ \A p \in dos : p \in Names /\ before[p] # Absent
            /\ mode \in {"hunks", "hunk", "create", "read", "patch"} => newPath \in Names
            /\ mode = "hunk" => hunks # <<>>
            /\ result # "none" => mode = "done"
            /\ ChangesReported

LEMMA PatchStarts == Init /\ Ordinary => PatchInv
<1> SUFFICES ASSUME Init, Ordinary PROVE PatchInv
  OBVIOUS
<1>1. PlanFits(base, plan) /\ PlainFiles(before)
  BY DEF Init, Ordinary, PlanFits
<1>2. before \in [Names -> {Absent} \cup Seq(Texts)]
  BY <1>1 DEF PlainFiles
<1>3. files \in [Names -> {Absent} \cup PlainContent]
  <2>1. \A s \in Seq(Texts) : s \in PlainContent
    BY SeqMonotonic DEF PlainContent
  <2>2. files = before
    BY DEF Init
  <2> HIDE DEF PlainContent
  <2>3. QED
    BY <1>2, <2>1, <2>2
<1>4. diff \in Seq(PlainLine)
  <2>1. PICK git \in BOOLEAN : diff \in Prefixes(Unified(base, plan, git))
    BY DEF Ordinary
  <2>2. QED
    BY <1>1, <2>1, DiffType
<1>5. Len(diff) \in Nat /\ 1 \in 1..(Len(diff) + 1)
  <2>1. Len(diff) \in Nat
    BY <1>4, LenProperties
  <2>2. QED
    BY <2>1
<1>6. <<>> \in Seq(PlainHunk) /\ <<>> \in PlainContent
  BY DEF PlainContent
<1>7. PlainTypes
  BY <1>3, <1>4, <1>5, <1>6 DEF Init, PlainTypes, Modes
<1>8. \A p \in dos : p \in Names /\ before[p] # Absent
  <2>1. PICK met \in Ends : before = met[1] /\ dos = met[2]
    BY DEF Init
  <2>2. QED
    BY <2>1, PatchAssumption
<1>9. QED
  BY <1>1, <1>7, <1>8 DEF Init, PatchInv, ChangesReported

(* The next line of some kind, if there is one.                             *)
LEMMA NextHeaderIs ==
  ASSUME diff \in Seq(PlainLine), pos \in 1..(Len(diff) + 1), NextHeader # 0
  PROVE  /\ NextHeader \in pos..Len(diff) /\ diff[NextHeader].kind = "old"
         /\ \A i \in pos..(NextHeader - 1) : diff[i].kind # "old"
<1> DEFINE I == {i \in pos..Len(diff) : diff[i].kind = "old"}
<1>1. NextHeader = IF I # {} THEN Min(I) ELSE 0
  BY DEF NextHeader, SelectInSubSeq
<1>2. Len(diff) \in Nat /\ I \in SUBSET Nat
  BY LenProperties
<1>3. I # {} /\ NextHeader = Min(I)
  BY <1>1
<1>4. Min(I) \in I /\ \A x \in I : Min(I) =< x
  <2> HIDE DEF I
  <2>1. QED
    BY <1>2, <1>3, MinOf
<1>5. NextHeader \in pos..Len(diff) /\ diff[NextHeader].kind = "old"
  BY <1>3, <1>4
<1>6. ASSUME NEW i \in pos..(NextHeader - 1), diff[i].kind = "old" PROVE FALSE
  <2>1. i \in I /\ ~(NextHeader =< i)
    BY <1>2, <1>5, <1>6
  <2>2. QED
    BY <1>3, <1>4, <2>1
<1>7. QED
  BY <1>5, <1>6

LEMMA LineIs ==
  ASSUME NEW l \in PlainLine
  PROVE  /\ l.kind \in {"old", "new", "ctx", "del", "add"} => l.text \in Line
         /\ l.kind \in {"old", "new"} => l.path \in Names \cup {DevNull} /\ l.text = HeaderText
         /\ l.kind \in {"ctx", "del", "add"} => l.text \in Texts
         /\ l.kind = "at" => ParsedStart(l) \in Nat \ {0}
BY DEF PlainLine, Line, ParsedStart

LEMMA ReadLine ==
  ASSUME PlainTypes, ~AtEnd
  PROVE  /\ pos \in 1..Len(diff) /\ pos + 1 \in 1..(Len(diff) + 1)
         /\ diff[pos] \in PlainLine /\ Kind = diff[pos].kind
<1>1. diff \in Seq(PlainLine) /\ pos \in 1..(Len(diff) + 1)
  BY DEF PlainTypes
<1>2. Len(diff) \in Nat
  BY <1>1, LenProperties
<1>3. pos \in 1..Len(diff) /\ pos + 1 \in 1..(Len(diff) + 1)
  BY <1>1, <1>2 DEF AtEnd
<1>4. QED
  BY <1>1, <1>3, ElementOfSeq DEF Kind

LEMMA FindHeaderKeeps == PatchInv /\ FindHeader /\ UNCHANGED argument => PatchInv'
<1> SUFFICES ASSUME PatchInv, FindHeader, UNCHANGED argument PROVE PatchInv'
  OBVIOUS
<1> USE DEF PatchInv
<1>1. diff \in Seq(PlainLine) /\ pos \in 1..(Len(diff) + 1) /\ Len(diff) \in Nat
  <2>1. diff \in Seq(PlainLine) /\ pos \in 1..(Len(diff) + 1)
    BY DEF PlainTypes
  <2>2. QED
    BY <2>1, LenProperties
<1>2. NextHeader \in pos..Len(diff) /\ diff[NextHeader].kind = "old"
  BY <1>1, NextHeaderIs DEF FindHeader
<1>3. NextHeader \in 1..Len(diff) /\ NextHeader + 1 \in 1..(Len(diff) + 1)
  BY <1>1, <1>2
<1>4. diff[NextHeader].path \in Names \cup {DevNull}
  BY <1>1, <1>2, <1>3, ElementOfSeq, LineIs
<1>5. PlainTypes'
  BY <1>3, <1>4 DEF PlainTypes, FindHeader, Goto, argument, Modes
<1>6. QED
  BY <1>5 DEF FindHeader, Goto, argument, ChangesReported

LEMMA ReadNewPathKeeps == PatchInv /\ ReadNewPath /\ UNCHANGED argument => PatchInv'
<1> SUFFICES ASSUME PatchInv, ReadNewPath, UNCHANGED argument PROVE PatchInv'
  OBVIOUS
<1> USE DEF PatchInv
<1>1. ~AtEnd /\ Kind = "new"
  BY DEF ReadNewPath, Kind
<1>2. /\ pos + 1 \in 1..(Len(diff) + 1)
      /\ diff[pos] \in PlainLine /\ diff[pos].kind = "new"
  BY <1>1, ReadLine
<1>3. diff[pos].path \in Names \cup {DevNull}
  BY <1>2, LineIs
<1>4. PlainTypes'
  BY <1>2, <1>3 DEF PlainTypes, ReadNewPath, Goto, argument, Modes
<1>5. QED
  BY <1>4 DEF ReadNewPath, Goto, argument, ChangesReported

LEMMA SkipToHunkKeeps == PatchInv /\ SkipToHunk /\ UNCHANGED argument => PatchInv'
<1> SUFFICES ASSUME PatchInv, SkipToHunk, UNCHANGED argument PROVE PatchInv'
  OBVIOUS
<1> USE DEF PatchInv
<1> DEFINE I == {i \in pos..Len(diff) : diff[i].kind = "at"}
           next == IF I # {} THEN Min(I) ELSE 0
<1>1. pos' = IF next = 0 THEN Len(diff) + 1 ELSE next
  BY DEF SkipToHunk, SelectInSubSeq
<1>2. Len(diff) \in Nat /\ pos \in 1..(Len(diff) + 1)
  <2>1. diff \in Seq(PlainLine) /\ pos \in 1..(Len(diff) + 1)
    BY DEF PlainTypes
  <2>2. QED
    BY <2>1, LenProperties
<1>3. next # 0 => next \in 1..Len(diff)
  <2> SUFFICES ASSUME I # {} PROVE Min(I) \in 1..Len(diff)
    OBVIOUS
  <2>1. I \in SUBSET Nat
    BY <1>2
  <2>2. Min(I) \in I
    <3> HIDE DEF I
    <3>1. QED
      BY <2>1, MinOf
  <2>3. QED
    BY <1>2, <2>2
<1> HIDE DEF next, I
<1>4. pos' \in 1..(Len(diff) + 1)
  BY <1>1, <1>2, <1>3
<1>5. PlainTypes'
  BY <1>4 DEF PlainTypes, SkipToHunk, Goto, argument, Modes
<1>6. newPath' = newPath /\ (mode' = "hunks" => newPath \in Names)
  BY DEF SkipToHunk, Goto, PlainTypes
<1>7. mode' \in {"delete", "hunks"}
  BY DEF SkipToHunk, Goto
<1>8. ChangesReported' /\ result' = "none"
  BY DEF SkipToHunk, Goto, ChangesReported, argument
<1>9. QED
  BY <1>5, <1>6, <1>7, <1>8 DEF argument

LEMMA BeginHunkKeeps == PatchInv /\ BeginHunk /\ UNCHANGED argument => PatchInv'
<1> SUFFICES ASSUME PatchInv, BeginHunk, UNCHANGED argument PROVE PatchInv'
  OBVIOUS
<1> USE DEF PatchInv
<1>1. ~AtEnd /\ Kind = "at"
  BY DEF BeginHunk, Kind
<1>2. /\ pos + 1 \in 1..(Len(diff) + 1)
      /\ diff[pos] \in PlainLine /\ diff[pos].kind = "at"
  BY <1>1, ReadLine
<1> DEFINE hunk == [start |-> ParsedStart(diff[pos]), lines |-> <<>>]
<1>3. hunk \in PlainHunk
  <2>1. <<>> \in Seq(PlainLine)
    OBVIOUS
  <2>2. QED
    BY <1>2, <2>1, LineIs DEF PlainHunk
<1>4. hunks' = Append(hunks, hunk) /\ hunks \in Seq(PlainHunk)
  BY DEF BeginHunk, PlainTypes
<1> HIDE DEF hunk
<1>5. hunks' \in Seq(PlainHunk) /\ hunks' # <<>>
  BY <1>3, <1>4, AppendProperties
<1>6. PlainTypes'
  BY <1>2, <1>5 DEF PlainTypes, BeginHunk, Goto, argument, Modes
<1>7. QED
  BY <1>5, <1>6 DEF BeginHunk, Goto, argument, ChangesReported

(* What HunkLine makes of the last hunk.                                    *)
LEMMA HunkLineIs ==
  ASSUME PatchInv, HunkLine
  PROVE  LET n == Len(hunks) IN
         /\ n \in Nat \ {0} /\ ~AtEnd /\ diff[pos] \in PlainLine
         /\ pos \in 1..Len(diff) /\ pos + 1 \in 1..(Len(diff) + 1)
         /\ hunks' \in Seq(PlainHunk) /\ Len(hunks') = n
         /\ \A i \in 1..n : hunks'[i] = IF i = n
                              THEN [hunks[n] EXCEPT !.lines = Append(@, diff[pos])]
                              ELSE hunks[i]
<1> DEFINE n == Len(hunks)
           hunk == [hunks[n] EXCEPT !.lines = Append(@, diff[pos])]
<1>1. hunks \in Seq(PlainHunk) /\ hunks # <<>> /\ mode = "hunk"
  BY DEF PatchInv, PlainTypes, HunkLine
<1>2. n \in Nat \ {0} /\ n \in 1..n
  BY <1>1, EmptySeq
<1>3. ~AtEnd
  BY DEF HunkLine, Kind
<1>4. /\ pos \in 1..Len(diff) /\ pos + 1 \in 1..(Len(diff) + 1)
      /\ diff[pos] \in PlainLine
  BY <1>3, ReadLine DEF PatchInv
<1>5. hunks[n] \in PlainHunk
  BY <1>1, <1>2, ElementOfSeq
<1>6. hunk \in PlainHunk
  <2>1. hunks[n].lines \in Seq(PlainLine)
    BY <1>5 DEF PlainHunk
  <2>2. Append(hunks[n].lines, diff[pos]) \in Seq(PlainLine)
    BY <1>4, <2>1, AppendProperties
  <2>3. QED
    BY <1>5, <2>2 DEF PlainHunk
<1>7. hunks' = [hunks EXCEPT ![n] = hunk]
  BY DEF HunkLine
<1> HIDE DEF hunk, n
<1>8. /\ hunks' \in Seq(PlainHunk) /\ Len(hunks') = n
      /\ \A i \in 1..n : hunks'[i] = IF i = n THEN hunk ELSE hunks[i]
  <2> USE DEF n
  <2>1. QED
    BY <1>1, <1>2, <1>6, <1>7, ExceptSeq
<1>9. QED
  BY <1>2, <1>3, <1>4, <1>8 DEF hunk, n

LEMMA HunkLineKeeps == PatchInv /\ HunkLine /\ UNCHANGED argument => PatchInv'
<1> SUFFICES ASSUME PatchInv, HunkLine, UNCHANGED argument PROVE PatchInv'
  OBVIOUS
<1>1. /\ Len(hunks) \in Nat \ {0} /\ pos + 1 \in 1..(Len(diff) + 1)
      /\ hunks' \in Seq(PlainHunk) /\ Len(hunks') = Len(hunks)
  BY HunkLineIs
<1> USE DEF PatchInv
<1>2. hunks' # <<>>
  BY <1>1, EmptySeq
<1>3. PlainTypes'
  BY <1>1 DEF PlainTypes, HunkLine, argument, Modes
<1>4. QED
  BY <1>2, <1>3 DEF HunkLine, argument, ChangesReported

LEMMA EndHunkKeeps == PatchInv /\ EndHunk /\ UNCHANGED argument => PatchInv'
<1> SUFFICES ASSUME PatchInv, EndHunk, UNCHANGED argument PROVE PatchInv'
  OBVIOUS
<1> USE DEF PatchInv
<1>1. pos' \in 1..(Len(diff) + 1)
  <2>1. CASE AtEnd
    BY <2>1 DEF EndHunk, Kind, PlainTypes
  <2>2. CASE ~AtEnd
    BY <2>2, ReadLine DEF EndHunk, PlainTypes
  <2>3. QED
    BY <2>1, <2>2
<1>2. PlainTypes'
  BY <1>1 DEF PlainTypes, EndHunk, Goto, argument, Modes
<1>3. QED
  BY <1>2 DEF EndHunk, Goto, argument, ChangesReported

LEMMA SkipLineKeeps == PatchInv /\ SkipLine /\ UNCHANGED argument => PatchInv'
<1> SUFFICES ASSUME PatchInv, SkipLine, UNCHANGED argument PROVE PatchInv'
  OBVIOUS
<1> USE DEF PatchInv
<1>1. ~AtEnd
  BY DEF SkipLine, Kind
<1>2. pos + 1 \in 1..(Len(diff) + 1)
  BY <1>1, ReadLine
<1>3. PlainTypes'
  BY <1>2 DEF PlainTypes, SkipLine, argument, Modes
<1>4. QED
  BY <1>3 DEF SkipLine, argument, ChangesReported

LEMMA AllCollectedKeeps == PatchInv /\ AllCollected /\ UNCHANGED argument => PatchInv'
<1> SUFFICES ASSUME PatchInv, AllCollected, UNCHANGED argument PROVE PatchInv'
  OBVIOUS
<1> USE DEF PatchInv
<1>1. PlainTypes'
  BY DEF PlainTypes, AllCollected, Goto, argument, Modes
<1>2. mode = "hunks" /\ mode' \in {"create", "read"}
  BY DEF AllCollected, Goto
<1>3. QED
  BY <1>1, <1>2 DEF AllCollected, argument, ChangesReported

LEMMA StoppingKeeps ==
  PatchInv /\ (NoMoreHeaders \/ NoNewPath \/ NoFile \/ HunkMisfits) /\ UNCHANGED argument
    => PatchInv'
<1> SUFFICES ASSUME PatchInv, NoMoreHeaders \/ NoNewPath \/ NoFile \/ HunkMisfits,
                    UNCHANGED argument
             PROVE  PatchInv'
  OBVIOUS
<1> USE DEF PatchInv
<1>1. /\ mode # "done" /\ mode' = "done" /\ UNCHANGED <<files, pos, oldPath, newPath, hunks, copy>>
      /\ \/ result' = "error" /\ report' = {}
         \/ result' \in {"ok", "error"} /\ report' = report
  BY DEF NoMoreHeaders, NoNewPath, NoFile, HunkMisfits, Fail, Fails, Return
<1>2. PlainTypes'
  BY <1>1 DEF PlainTypes, argument, Modes
<1>3. ChangesReported'
  BY <1>1 DEF ChangesReported, argument
<1>4. QED
  BY <1>1, <1>2, <1>3 DEF argument

-----------------------------------------------------------------------------
(******************* what the steps do to the files *************************)
LEMMA PiecesType ==
  ASSUME NEW n \in Nat, NEW pieces \in [1..n -> Seq(Line)]
  PROVE  FlattenSeq(pieces) \in Seq(Line)
<1>1. pieces \in Seq(Seq(Line))
  BY FunctionIsSeq
<1>2. QED
  BY <1>1, FlattenType

LEMMA TextsType ==
  ASSUME NEW lines \in Seq(PlainLine)
  PROVE  /\ TextsOf(lines, Removes) \in Seq(Line)
         /\ TextsOf(lines, Adds) \in Seq(Line)
         /\ TextsOf(lines, Keeps) \in Seq(Line)
<1>1. Len(lines) \in Nat /\ DOMAIN lines = 1..Len(lines)
  BY LenProperties
<1>2. \A i \in 1..Len(lines) : lines[i] \in PlainLine
  BY ElementOfSeq
<1>3. ASSUME NEW i \in 1..Len(lines),
             lines[i].kind \in {"old", "new", "ctx", "del", "add"}
      PROVE  <<lines[i].text>> \in Seq(Line)
  BY <1>2, <1>3, LineIs
<1>4. <<>> \in Seq(Line)
  OBVIOUS
<1> DEFINE removed == [i \in DOMAIN lines |-> IF Removes(lines[i]) THEN <<lines[i].text>> ELSE <<>>]
           added == [i \in DOMAIN lines |-> IF Adds(lines[i]) THEN <<lines[i].text>> ELSE <<>>]
           kept == [i \in DOMAIN lines |-> IF Keeps(lines[i]) THEN <<lines[i].text>> ELSE <<>>]
<1>5. removed \in [1..Len(lines) -> Seq(Line)]
  BY <1>1, <1>3, <1>4 DEF Removes
<1>6. added \in [1..Len(lines) -> Seq(Line)]
  BY <1>1, <1>3, <1>4 DEF Adds
<1>7. kept \in [1..Len(lines) -> Seq(Line)]
  BY <1>1, <1>3, <1>4 DEF Keeps
<1>8. /\ TextsOf(lines, Removes) = FlattenSeq(removed)
      /\ TextsOf(lines, Adds) = FlattenSeq(added)
      /\ TextsOf(lines, Keeps) = FlattenSeq(kept)
  BY DEF TextsOf
<1> HIDE DEF removed, added, kept
<1>9. QED
  BY <1>1, <1>5, <1>6, <1>7, <1>8, PiecesType

LEMMA HunkOf ==
  ASSUME PlainTypes, NEW i \in 1..Len(hunks)
  PROVE  hunks[i].start \in Nat \ {0} /\ hunks[i].lines \in Seq(PlainLine)
<1>1. hunks \in Seq(PlainHunk)
  BY DEF PlainTypes
<1>2. hunks[i] \in PlainHunk
  BY <1>1, ElementOfSeq
<1>3. QED
  BY <1>2 DEF PlainHunk

LEMMA DeleteFileKeeps == PatchInv /\ DeleteFile /\ UNCHANGED argument => PatchInv'
<1> SUFFICES ASSUME PatchInv, DeleteFile, UNCHANGED argument PROVE PatchInv'
  OBVIOUS
<1> USE DEF PatchInv
<1>1. oldPath \in Names
  BY DEF DeleteFile, PlainTypes
<1>2. /\ files' = [files EXCEPT ![oldPath] = Absent]
      /\ files[oldPath] # Absent => report' = report \cup {oldPath}
      /\ files[oldPath] = Absent => report' = report
      /\ mode = "delete" /\ mode' = "header"
      /\ UNCHANGED <<pos, oldPath, newPath, hunks, copy, result>>
  BY DEF DeleteFile, Goto, Report
<1>3. files \in [Names -> {Absent} \cup PlainContent]
  BY DEF PlainTypes
<1>4. files' \in [Names -> {Absent} \cup PlainContent]
  <2> HIDE DEF PatchInv
  <2>1. QED
    BY <1>2, <1>3
<1>5. report' \subseteq Names
  BY <1>1, <1>2 DEF PlainTypes
<1>6. PlainTypes'
  BY <1>2, <1>4, <1>5 DEF PlainTypes, argument, Modes
<1>7. ChangesReported'
  BY <1>2, <1>3 DEF ChangesReported, argument
<1>8. QED
  BY <1>2, <1>6, <1>7 DEF argument

(* A file is written and reported.                                          *)
LEMMA WritingKeeps ==
  ASSUME PatchInv, UNCHANGED argument, NEW content \in PlainContent,
         mode \in {"create", "patch"}, mode' = "header",
         files' = [files EXCEPT ![newPath] = content], report' = report \cup {newPath},
         hunks' = <<>>, copy' \in PlainContent, UNCHANGED <<pos, oldPath, newPath, result>>
  PROVE  PatchInv'
<1> USE DEF PatchInv
<1>1. newPath \in Names
  OBVIOUS
<1>2. files \in [Names -> {Absent} \cup PlainContent]
  BY DEF PlainTypes
<1>3. files' \in [Names -> {Absent} \cup PlainContent]
  <2> HIDE DEF PatchInv
  <2>1. QED
    BY <1>2
<1>4. hunks' \in Seq(PlainHunk) /\ report' \subseteq Names
  BY <1>1 DEF PlainTypes
<1>5. PlainTypes'
  BY <1>3, <1>4 DEF PlainTypes, argument, Modes
<1>6. ChangesReported'
  BY <1>2 DEF ChangesReported, argument
<1>7. QED
  BY <1>5, <1>6 DEF argument

LEMMA CreateFileKeeps == PatchInv /\ CreateFile /\ UNCHANGED argument => PatchInv'
<1> SUFFICES ASSUME PatchInv, CreateFile, UNCHANGED argument PROVE PatchInv'
  OBVIOUS
<1> DEFINE pieces == [i \in DOMAIN hunks |-> TextsOf(hunks[i].lines, Adds)]
<1>1. hunks \in Seq(PlainHunk) /\ copy \in PlainContent
  BY DEF PatchInv, PlainTypes
<1>2. Len(hunks) \in Nat /\ DOMAIN hunks = 1..Len(hunks)
  BY <1>1, LenProperties
<1>3. \A i \in 1..Len(hunks) : TextsOf(hunks[i].lines, Adds) \in Seq(Line)
  BY HunkOf, TextsType DEF PatchInv
<1>4. pieces \in [1..Len(hunks) -> Seq(Line)]
  BY <1>2, <1>3
<1> HIDE DEF pieces
<1>5. FlattenSeq(pieces) \in PlainContent
  BY <1>2, <1>4, PiecesType DEF PlainContent, Line
<1>6. /\ files' = [files EXCEPT ![newPath] = FlattenSeq(pieces)]
      /\ report' = report \cup {newPath} /\ hunks' = <<>>
      /\ mode = "create" /\ mode' = "header"
      /\ UNCHANGED <<pos, oldPath, newPath, copy, result>>
  BY DEF CreateFile, Goto, Report, WriteFile, AllAdded, pieces
<1>7. QED
  BY <1>1, <1>5, <1>6, WritingKeeps

LEMMA ReadFileKeeps == PatchInv /\ ReadFile /\ UNCHANGED argument => PatchInv'
<1> SUFFICES ASSUME PatchInv, ReadFile, UNCHANGED argument PROVE PatchInv'
  OBVIOUS
<1> USE DEF PatchInv
<1>1. hunks \in Seq(PlainHunk)
  BY DEF PlainTypes
<1>2. /\ Len(hunks) \in Nat /\ DOMAIN hunks = 1..Len(hunks)
      /\ \A i \in 1..Len(hunks) : hunks[i] \in PlainHunk
  BY <1>1, LenProperties, ElementOfSeq
<1>3. PICK order \in [DOMAIN hunks -> DOMAIN hunks] :
        hunks' = [i \in DOMAIN hunks |-> hunks[order[i]]]
  BY DEF ReadFile, BottomUp
<1>4. hunks' \in [1..Len(hunks) -> PlainHunk]
  BY <1>2, <1>3
<1>5. hunks' \in Seq(PlainHunk)
  BY <1>2, <1>4, FunctionIsSeq
<1>6. copy' \in PlainContent
  <2>1. newPath \in Names /\ files[newPath] # Absent /\ copy' = files[newPath]
    BY DEF ReadFile, Goto
  <2>2. files[newPath] \in {Absent} \cup PlainContent
    BY <2>1 DEF PlainTypes
  <2>3. QED
    BY <2>1, <2>2
<1>7. PlainTypes'
  BY <1>5, <1>6 DEF PlainTypes, ReadFile, Goto, argument, Modes
<1>8. QED
  BY <1>7 DEF ReadFile, Goto, argument, ChangesReported

LEMMA CtxBeforeType ==
  ASSUME NEW lines \in Seq(PlainLine) PROVE CtxBefore(lines) \in Seq(Line)
<1> DEFINE I == {i \in 1..Len(lines) : Removes(lines[i]) \/ Adds(lines[i])}
<1>1. FirstChange(lines) = IF I # {} THEN Min(I) ELSE 0
  BY DEF FirstChange, SelectInSeq
<1>2. Len(lines) \in Nat
  BY LenProperties
<1>3. FirstChange(lines) \in 0..Len(lines)
  <2>1. CASE I = {}
    BY <1>1, <1>2, <2>1
  <2>2. CASE I # {}
    <3>1. I \in SUBSET Nat /\ I \subseteq 1..Len(lines)
      OBVIOUS
    <3>2. Min(I) \in I
      <4> HIDE DEF I
      <4>1. QED
        BY <2>2, <3>1, MinOf
    <3>3. QED
      BY <1>1, <1>2, <2>2, <3>1, <3>2
  <2>3. QED
    BY <2>1, <2>2
<1>4. SubSeq(lines, 1, FirstChange(lines)) \in Seq(PlainLine)
  BY <1>3, BeginningType
<1>5. QED
  BY <1>4, TextsType DEF CtxBefore

LEMMA AnchorsType ==
  ASSUME NEW hunk \in PlainHunk, copy \in PlainContent PROVE Anchors(hunk) \subseteq Nat
<1> DEFINE from == Min({hunk.start - 1, Len(copy)})
           back == Min({from, Reach})
           block == CtxBefore(hunk.lines) \o Removals(hunk.lines) \o CtxAfter(hunk.lines)
           found == {n \in (from - back)..from : StandsAt(block, n)}
<1>1. hunk.start - 1 \in Nat /\ Len(copy) \in Nat /\ Reach \in Nat
  <2>1. Len(copy) \in Nat
    BY LenProperties DEF PlainContent
  <2>2. hunk.start \in Nat \ {0}
    BY DEF PlainHunk
  <2>3. QED
    BY <2>1, <2>2, PatchAssumption
<1>2. from \in Nat
  <2> DEFINE S == {hunk.start - 1, Len(copy)}
  <2>1. S \in SUBSET Nat /\ S # {}
    BY <1>1
  <2>2. Min(S) \in S
    <3> HIDE DEF S
    <3>1. QED
      BY <2>1, MinOf
  <2>3. QED
    BY <2>1, <2>2
<1> HIDE DEF from
<1>3. back \in Nat /\ back =< from
  <2> DEFINE S == {from, Reach}
  <2>1. S \in SUBSET Nat /\ S # {}
    BY <1>1, <1>2
  <2>2. Min(S) \in S /\ \A x \in S : Min(S) =< x
    <3> HIDE DEF S
    <3>1. QED
      BY <2>1, MinOf
  <2>3. QED
    BY <2>1, <2>2
<1> HIDE DEF back
<1>4. found \in SUBSET (0..from)
  BY <1>2, <1>3
<1>5. ASSUME found # {} PROVE Max(found) \in Nat
  <2> HIDE DEF found
  <2>1. Max(found) \in found
    BY <1>2, <1>4, <1>5, MaxOf
  <2>2. \A m \in 0..from : m \in Nat
    BY <1>2
  <2>3. \A m \in found : m \in 0..from
    BY <1>4
  <2>4. QED
    BY <2>1, <2>2, <2>3
<1>6. Anchors(hunk) = IF CtxBefore(hunk.lines) = <<>> THEN {hunk.start - 1}
                      ELSE IF found = {} THEN {} ELSE {Max(found)}
  BY DEF Anchors, from, back
<1> HIDE DEF found
<1>7. QED
  BY <1>1, <1>5, <1>6

(* Where a hunk is put, the lines it removes stand.                         *)
LEMMA PlaceIs ==
  ASSUME NEW hunk \in PlainHunk, copy \in PlainContent, NEW n \in Places(hunk)
  PROVE  LET removed == Removals(hunk.lines) IN
         /\ n \in Nat /\ Len(removed) \in Nat /\ n + Len(removed) =< Len(copy)
         /\ Lines(copy, n + 1, Len(removed)) = removed
<1> DEFINE removed == Removals(hunk.lines)
<1>1. hunk.lines \in Seq(PlainLine)
  BY DEF PlainHunk
<1>2. removed \in Seq(Line) /\ CtxBefore(hunk.lines) \in Seq(Line)
  BY <1>1, TextsType, CtxBeforeType DEF Removals
<1>3. Len(removed) \in Nat /\ Len(CtxBefore(hunk.lines)) \in Nat
  BY <1>2, LenProperties
<1>4. PICK anchor \in Anchors(hunk) : n = anchor + Len(CtxBefore(hunk.lines))
  BY DEF Places
<1>5. anchor \in Nat
  BY AnchorsType
<1>6. StandsAt(removed, n)
  BY DEF Places
<1>7. n \in Nat
  BY <1>3, <1>4, <1>5
<1>8. QED
  BY <1>3, <1>6, <1>7 DEF StandsAt

(* A splice, taken apart.                                                   *)
LEMMA SpliceParts ==
  ASSUME NEW S, NEW s \in Seq(S), NEW n \in Nat, NEW cut \in Nat, n + cut =< Len(s)
  PROVE  LET b == SubSeq(s, 1, n)
             m == Lines(s, n + 1, cut)
             r == SubSeq(s, n + cut + 1, Len(s))
         IN  /\ b \in Seq(S) /\ m \in Seq(S) /\ r \in Seq(S)
             /\ s = b \o m \o r
<1> DEFINE len == Len(s)
           k == n + cut
           b == SubSeq(s, 1, n)
           m == SubSeq(s, n + 1, k)
           r == SubSeq(s, k + 1, len)
<1>1. len \in Nat /\ \A i \in 1..len : s[i] \in S
  BY LenProperties, ElementOfSeq
<1>2. /\ k \in Nat /\ n =< k /\ k =< len /\ k + 1 \in Int /\ n + 1 \in Int /\ n \in Int
      /\ (n + 1) + cut - 1 = k /\ 1 \in Int
  BY <1>1
<1> HIDE DEF k, len
<1>3. /\ \A i \in 1..n : s[i] \in S
      /\ \A i \in (n + 1)..k : s[i] \in S
      /\ \A i \in (k + 1)..len : s[i] \in S
  BY <1>1, <1>2
<1>4. b \in Seq(S) /\ m \in Seq(S) /\ r \in Seq(S)
  BY <1>1, <1>2, <1>3, SubSeqProperties
<1>5. b \o m = SubSeq(s, 1, k)
  <2>1. 1 \in 1..(Len(s) + 1) /\ n \in (1 - 1)..Len(s) /\ k \in n..Len(s)
    BY <1>1, <1>2 DEF len
  <2>2. QED
    BY <2>1, ConcatAdjacentSubSeq
<1>6. SubSeq(s, 1, k) \o r = SubSeq(s, 1, len)
  <2>1. 1 \in 1..(Len(s) + 1) /\ k \in (1 - 1)..Len(s) /\ Len(s) \in k..Len(s)
    BY <1>1, <1>2 DEF len
  <2>2. QED
    BY <2>1, ConcatAdjacentSubSeq DEF len
<1>7. SubSeq(s, 1, len) = s
  BY SubSeqFull DEF len
<1>8. m = Lines(s, n + 1, cut)
  BY <1>2 DEF Lines
<1>9. QED
  BY <1>4, <1>5, <1>6, <1>7, <1>8 DEF k, len

LEMMA PatchHunkIs ==
  ASSUME PatchInv, PatchHunk
  PROVE  LET hunk == Head(hunks)
             removed == Removals(hunk.lines)
             added == Additions(hunk.lines)
         IN  /\ hunk \in PlainHunk /\ removed \in Seq(Line) /\ added \in Seq(Line)
             /\ hunks' \in Seq(PlainHunk)
             /\ \E b, r \in Seq(Line) : copy = b \o removed \o r /\ copy' = b \o added \o r
<1> DEFINE hunk == Head(hunks)
           removed == Removals(hunk.lines)
           added == Additions(hunk.lines)
<1>1. hunks \in Seq(PlainHunk) /\ hunks # <<>> /\ copy \in Seq(Line) /\ copy \in PlainContent
  BY DEF PatchInv, PlainTypes, PatchHunk, PlainContent, Line
<1>2. hunk \in PlainHunk /\ hunks' \in Seq(PlainHunk)
  BY <1>1, HeadTailProperties DEF PatchHunk
<1>3. removed \in Seq(Line) /\ added \in Seq(Line)
  <2>1. hunk.lines \in Seq(PlainLine)
    BY <1>2 DEF PlainHunk
  <2>2. QED
    BY <2>1, TextsType DEF Removals, Additions
<1>4. PICK n \in Places(hunk) : copy' = Splice(copy, n, Len(removed), added)
  BY DEF PatchHunk
<1>5. /\ n \in Nat /\ Len(removed) \in Nat /\ n + Len(removed) =< Len(copy)
      /\ Lines(copy, n + 1, Len(removed)) = removed
  BY <1>1, <1>2, PlaceIs
<1> HIDE DEF hunk, removed, added
<1> DEFINE b == SubSeq(copy, 1, n)
           r == SubSeq(copy, n + Len(removed) + 1, Len(copy))
<1>6. b \in Seq(Line) /\ r \in Seq(Line) /\ copy = b \o removed \o r
  BY <1>1, <1>5, SpliceParts
<1>7. copy' = b \o added \o r
  BY <1>4 DEF Splice
<1>8. QED
  BY <1>2, <1>3, <1>6, <1>7 DEF hunk, removed, added

LEMMA PatchHunkKeeps == PatchInv /\ PatchHunk /\ UNCHANGED argument => PatchInv'
<1> SUFFICES ASSUME PatchInv, PatchHunk, UNCHANGED argument PROVE PatchInv'
  OBVIOUS
<1>1. PICK added \in Seq(Line), b \in Seq(Line), r \in Seq(Line) : copy' = b \o added \o r
  BY PatchHunkIs
<1>2. copy' \in PlainContent
  <2>1. b \o added \in Seq(Line)
    BY ConcatType
  <2>2. QED
    BY <1>1, <2>1, ConcatType DEF PlainContent, Line
<1>3. hunks' \in Seq(PlainHunk)
  BY PatchHunkIs
<1> USE DEF PatchInv
<1>4. PlainTypes'
  BY <1>2, <1>3 DEF PlainTypes, PatchHunk, argument, Modes
<1>5. QED
  BY <1>4 DEF PatchHunk, argument, ChangesReported

LEMMA JoinedType ==
  ASSUME NEW lines \in PlainContent, NEW original PROVE Joined(lines, original) \in PlainContent
<1>1. CASE lines = <<>>
  <2>1. <<>> \in PlainContent /\ <<Blank>> \in PlainContent
    BY PatchAssumption DEF PlainContent
  <2>2. QED
    BY <1>1, <2>1 DEF Joined
<1>2. CASE lines # <<>>
  <2>1. lines \in Seq(Line) /\ Len(lines) \in Nat \ {0}
    BY <1>2, EmptySeq DEF PlainContent, Line
  <2>2. Len(lines) - 1 \in 0..Len(lines)
    BY <2>1
  <2>3. Front(lines) \in Seq(Line)
    BY <2>1, <2>2, BeginningType DEF Front
  <2>4. QED
    BY <1>2, <2>1, <2>3 DEF Joined, PlainContent, Line
<1>3. QED
  BY <1>1, <1>2

LEMMA WriteBackKeeps == PatchInv /\ WriteBack /\ UNCHANGED argument => PatchInv'
<1> SUFFICES ASSUME PatchInv, WriteBack, UNCHANGED argument PROVE PatchInv'
  OBVIOUS
<1> DEFINE content == Joined(copy, files[newPath])
<1>1. copy \in PlainContent
  BY DEF PatchInv, PlainTypes
<1>2. content \in PlainContent
  BY <1>1, JoinedType
<1>3. <<>> \in PlainContent
  BY DEF PlainContent
<1>4. files' = [files EXCEPT ![newPath] = content]
  BY DEF WriteBack, WriteFile
<1> HIDE DEF content
<1>5. /\ report' = report \cup {newPath} /\ hunks' = <<>> /\ copy' \in PlainContent
      /\ mode = "patch" /\ mode' = "header"
      /\ UNCHANGED <<pos, oldPath, newPath, result>>
  BY <1>3 DEF WriteBack, Goto, Report
<1>6. QED
  BY <1>2, <1>4, <1>5, WritingKeeps

(* The steps of a call for which the file system does not fail.             *)
Advance == Step /\ UNCHANGED argument

LEMMA PatchStep == PatchInv /\ Advance => PatchInv'
BY FindHeaderKeeps, ReadNewPathKeeps, SkipToHunkKeeps, BeginHunkKeeps, HunkLineKeeps,
   EndHunkKeeps, SkipLineKeeps, AllCollectedKeeps, StoppingKeeps, DeleteFileKeeps,
   CreateFileKeeps, ReadFileKeeps, PatchHunkKeeps, WriteBackKeeps DEF Advance, Step

-----------------------------------------------------------------------------
(*************************** the text of a hunk ***************************)
(* Every piece has one of v just when u says w there.                       *)
Mark(pieces, v, u, w) ==
  /\ Len(pieces) = Len(u)
  /\ \A i \in 1..Len(u) : Occ(pieces[i], v) = IF u[i] = w THEN 1 ELSE 0

LEMMA PiecesCount ==
  ASSUME NEW S, NEW T, NEW pieces \in Seq(Seq(S)), NEW u \in Seq(T), NEW v, NEW w,
         Mark(pieces, v, u, w)
  PROVE  Occ(FlattenSeq(pieces), v) = Occ(u, w)
<1> DEFINE n == Len(u)
           ones == [i \in DOMAIN u |-> <<u[i]>>]
<1>1. n \in Nat /\ Len(pieces) = n /\ DOMAIN u = 1..n
  BY LenProperties DEF Mark
<1>2. \A i \in 1..n : <<u[i]>> \in Seq(T)
  BY ElementOfSeq
<1>3. ones \in [1..n -> Seq(T)] /\ \A i \in 1..n : ones[i] = <<u[i]>>
  BY <1>1, <1>2
<1>4. FlattenSeq(ones) = u
  BY FlattenOnes
<1> HIDE DEF ones, n
<1>5. ones \in Seq(Seq(T)) /\ Len(ones) = n
  BY <1>1, <1>3, FunctionIsSeq
<1>6. AsMany(pieces, v, ones, w)
  <2>1. ASSUME NEW i \in 1..n PROVE Occ(pieces[i], v) = Occ(ones[i], w)
    <3>1. Occ(pieces[i], v) = IF u[i] = w THEN 1 ELSE 0
      BY DEF Mark, n
    <3>2. Occ(<<u[i]>>, w) = IF u[i] = w THEN 1 ELSE 0
      BY OccOne
    <3>3. ones[i] = <<u[i]>>
      BY <1>3
    <3>4. QED
      BY <3>1, <3>2, <3>3
  <2>2. QED
    BY <1>1, <1>5, <2>1 DEF AsMany
<1>7. Occ(FlattenSeq(pieces), v) = Occ(FlattenSeq(ones), w)
  BY <1>5, <1>6, OccFlatten
<1>8. QED
  BY <1>4, <1>7

LEMMA OccNone ==
  ASSUME NEW T, NEW s \in Seq(T), NEW v, v \notin T
  PROVE  Occ(s, v) = 0
<1>1. PlacesOf(s, v) = {}
  BY LenProperties, ElementOfSeq DEF PlacesOf
<1>2. QED
  BY <1>1, FS_EmptySet DEF Occ

LEMMA OccSome ==
  ASSUME NEW T, NEW s \in Seq(T), NEW i \in DOMAIN s
  PROVE  Occ(s, s[i]) # 0
<1>1. i \in PlacesOf(s, s[i]) /\ IsFiniteSet(PlacesOf(s, s[i]))
  BY OccType DEF PlacesOf
<1>2. QED
  BY <1>1, FS_EmptySet DEF Occ

(* Does a line of this kind stand among them?                               *)
Has(lines, kind) == \E i \in DOMAIN lines : lines[i].kind = kind

(* The text of a line that a hunk removes, or adds.                         *)
LEMMA LineTexts ==
  ASSUME NEW l \in PlainLine, NEW t \in Texts
  PROVE  /\ Occ(IF Removes(l) THEN <<l.text>> ELSE <<>>, t) = IF l = Del(t) THEN 1 ELSE 0
         /\ Occ(IF Adds(l) THEN <<l.text>> ELSE <<>>, t) = IF l = Add(t) THEN 1 ELSE 0
         /\ Occ(IF Removes(l) THEN <<l.text>> ELSE <<>>, HeaderText) =
              IF l.kind = "old" THEN 1 ELSE 0
<1>1. t # HeaderText
  BY PlainApart
<1>2. /\ Del(t).kind = "del" /\ Del(t).text = t
      /\ Add(t).kind = "add" /\ Add(t).text = t
  BY DEF Del, Add
<1>3. CASE l.kind \in {"git", "at", "ctx"}
  <2>1. ~Removes(l) /\ ~Adds(l) /\ l # Del(t) /\ l # Add(t) /\ l.kind # "old"
    BY <1>2, <1>3 DEF Removes, Adds
  <2>2. QED
    BY <2>1, OccEmpty
<1>4. CASE l.kind \in {"old", "new"}
  <2>1. l.text = HeaderText /\ l # Del(t) /\ l # Add(t)
    BY <1>2, <1>4, LineIs
  <2>2. (l.kind = "old" <=> Removes(l)) /\ (l.kind = "new" <=> Adds(l))
    BY <1>4 DEF Removes, Adds
  <2>3. QED
    BY <1>1, <2>1, <2>2, OccEmpty, OccOne
<1>5. CASE l.kind = "del"
  <2>1. l = Del(l.text) /\ l.text \in Texts
    BY <1>5 DEF PlainLine, Del
  <2>2. Removes(l) /\ ~Adds(l) /\ l # Add(t)
    BY <1>2, <1>5 DEF Removes, Adds
  <2>3. l = Del(t) <=> l.text = t
    BY <1>2, <2>1
  <2>4. l.text # HeaderText
    BY <2>1, PlainApart
  <2>5. QED
    BY <1>5, <2>2, <2>3, <2>4, OccEmpty, OccOne
<1>6. CASE l.kind = "add"
  <2>1. l = Add(l.text) /\ l.text \in Texts
    BY <1>6 DEF PlainLine, Add
  <2>2. ~Removes(l) /\ Adds(l) /\ l # Del(t)
    BY <1>2, <1>6 DEF Removes, Adds
  <2>3. l = Add(t) <=> l.text = t
    BY <1>2, <2>1
  <2>5. QED
    BY <1>6, <2>2, <2>3, OccEmpty, OccOne
<1>7. l.kind \in {"git", "at", "ctx", "old", "new", "del", "add"}
  BY DEF PlainLine
<1>8. QED
  BY <1>3, <1>4, <1>5, <1>6, <1>7

(* What a hunk removes and adds is what its lines say.                      *)
LEMMA TextsCount ==
  ASSUME NEW lines \in Seq(PlainLine)
  PROVE  /\ \A t \in Texts : /\ Occ(Removals(lines), t) = Occ(lines, Del(t))
                             /\ Occ(Additions(lines), t) = Occ(lines, Add(t))
         /\ Has(lines, "old") => Removals(lines) \notin Seq(Texts)
         /\ ~Has(lines, "new") => Additions(lines) \in Seq(Texts)
<1> DEFINE n == Len(lines)
           removed == [i \in DOMAIN lines |-> IF Removes(lines[i]) THEN <<lines[i].text>> ELSE <<>>]
           added == [i \in DOMAIN lines |-> IF Adds(lines[i]) THEN <<lines[i].text>> ELSE <<>>]
           kinds == [i \in DOMAIN lines |-> lines[i].kind]
           Kinds == {lines[i].kind : i \in DOMAIN lines}
<1>1. n \in Nat /\ DOMAIN lines = 1..n /\ lines \in [1..n -> PlainLine]
  BY LenProperties
<1>2. \A i \in 1..n : lines[i] \in PlainLine
  BY <1>1
<1>3. Removals(lines) = FlattenSeq(removed) /\ Additions(lines) = FlattenSeq(added)
  BY DEF Removals, Additions, TextsOf
<1>4. ASSUME NEW i \in 1..n,
             lines[i].kind \in {"old", "new", "ctx", "del", "add"}
      PROVE  <<lines[i].text>> \in Seq(Line)
  BY <1>2, <1>4, LineIs
<1>5. <<>> \in Seq(Line) /\ <<>> \in Seq(Texts)
  OBVIOUS
<1>6. removed \in [1..n -> Seq(Line)] /\ added \in [1..n -> Seq(Line)]
  <2>1. removed \in [1..n -> Seq(Line)]
    BY <1>1, <1>4, <1>5 DEF Removes
  <2>2. added \in [1..n -> Seq(Line)]
    BY <1>1, <1>4, <1>5 DEF Adds
  <2>3. QED
    BY <2>1, <2>2
<1>7. kinds \in [1..n -> Kinds] /\ \A i \in 1..n : kinds[i] = lines[i].kind
  BY <1>1
<1>8. \A i \in 1..n : /\ removed[i] = IF Removes(lines[i]) THEN <<lines[i].text>> ELSE <<>>
                      /\ added[i] = IF Adds(lines[i]) THEN <<lines[i].text>> ELSE <<>>
  BY <1>1
<1> HIDE DEF n, removed, added, kinds, Kinds
<1>9. /\ removed \in Seq(Seq(Line)) /\ added \in Seq(Seq(Line)) /\ kinds \in Seq(Kinds)
      /\ Len(removed) = n /\ Len(added) = n /\ Len(kinds) = n
  BY <1>1, <1>6, <1>7, FunctionIsSeq
<1>10. ASSUME NEW t \in Texts
      PROVE  /\ Occ(Removals(lines), t) = Occ(lines, Del(t))
             /\ Occ(Additions(lines), t) = Occ(lines, Add(t))
             /\ Occ(Removals(lines), HeaderText) = Occ(kinds, "old")
  <2> DEFINE del == Del(t)
             add == Add(t)
  <2>1. /\ Mark(removed, t, lines, del) /\ Mark(added, t, lines, add)
        /\ Mark(removed, HeaderText, kinds, "old")
    <3>1. ASSUME NEW i \in 1..n
          PROVE  /\ Occ(removed[i], t) = IF lines[i] = Del(t) THEN 1 ELSE 0
                 /\ Occ(added[i], t) = IF lines[i] = Add(t) THEN 1 ELSE 0
                 /\ Occ(removed[i], HeaderText) = IF kinds[i] = "old" THEN 1 ELSE 0
      <4> DEFINE l == lines[i]
                 r == removed[i]
                 a == added[i]
                 k == kinds[i]
      <4>1. /\ l \in PlainLine /\ k = l.kind
            /\ r = IF Removes(l) THEN <<l.text>> ELSE <<>>
            /\ a = IF Adds(l) THEN <<l.text>> ELSE <<>>
        BY <1>2, <1>7, <1>8
      <4> HIDE DEF l, r, a, k
      <4>2. /\ Occ(r, t) = IF l = Del(t) THEN 1 ELSE 0
            /\ Occ(a, t) = IF l = Add(t) THEN 1 ELSE 0
            /\ Occ(r, HeaderText) = IF k = "old" THEN 1 ELSE 0
        BY <4>1, LineTexts
      <4>3. QED
        BY <4>2 DEF l, r, a, k
    <3>2. QED
      BY <1>9, <3>1 DEF Mark, n
  <2> HIDE DEF del, add
  <2>2. Occ(FlattenSeq(removed), t) = Occ(lines, del)
    BY <1>9, <2>1, PiecesCount
  <2>3. Occ(FlattenSeq(added), t) = Occ(lines, add)
    BY <1>9, <2>1, PiecesCount
  <2>4. Occ(FlattenSeq(removed), HeaderText) = Occ(kinds, "old")
    BY <1>9, <2>1, PiecesCount
  <2>5. QED
    BY <1>3, <2>2, <2>3, <2>4 DEF del, add
<1>11. ASSUME Has(lines, "old") PROVE Removals(lines) \notin Seq(Texts)
  <2>1. PICK i \in 1..n : kinds[i] = "old"
    BY <1>1, <1>7, <1>11 DEF Has
  <2>2. kinds \in Seq(Kinds) /\ DOMAIN kinds = 1..n
    BY <1>1, <1>7, FunctionIsSeq
  <2>3. Occ(kinds, "old") # 0
    BY <2>1, <2>2, OccSome
  <2>4. Occ(Removals(lines), HeaderText) # 0
    BY <1>10, <2>3, PatchAssumption
  <2>5. QED
    BY <2>4, OccNone, PlainApart
<1>12. ASSUME ~Has(lines, "new") PROVE Additions(lines) \in Seq(Texts)
  <2>1. \A i \in 1..n : Adds(lines[i]) => lines[i].text \in Texts
    BY <1>1, <1>2, <1>12, LineIs DEF Has, Adds
  <2>2. ASSUME NEW i \in 1..n PROVE added[i] \in Seq(Texts)
    <3>1. Adds(lines[i]) => <<lines[i].text>> \in Seq(Texts)
      BY <2>1
    <3>2. QED
      BY <1>5, <1>8, <3>1
  <2>3. added \in [1..n -> Seq(Texts)]
    BY <1>6, <2>2
  <2>4. added \in Seq(Seq(Texts))
    BY <1>1, <2>3, FunctionIsSeq
  <2>5. QED
    BY <1>3, <2>4, FlattenType
<1>13. QED
  BY <1>10, <1>11, <1>12

-----------------------------------------------------------------------------
(************************* a section line by line *************************)
(* c is s with r after it.                                                  *)
Concats(c, s, r, S) ==
  /\ c \in Seq(S) /\ Len(c) = Len(s) + Len(r)
  /\ \A i \in 1..(Len(s) + Len(r)) : c[i] = IF i <= Len(s) THEN s[i] ELSE r[i - Len(s)]

LEMMA ConcatIs ==
  ASSUME NEW S, NEW s \in Seq(S), NEW r \in Seq(S)
  PROVE  Concats(s \o r, s, r, S)
BY ConcatProperties DEF Concats

LEMMA OccNowhere ==
  ASSUME NEW S, NEW s \in Seq(S), NEW v, \A i \in 1..Len(s) : s[i] # v
  PROVE  Occ(s, v) = 0
<1>1. PlacesOf(s, v) = {}
  BY LenProperties DEF PlacesOf
<1>2. QED
  BY <1>1, FS_EmptySet DEF Occ

(* A section line by line, after l lines of git's.                          *)
IsBlock(b, l, version, section) ==
  /\ b \in Seq(PlainLine) /\ Len(b) \in Nat /\ l \in Nat /\ l + 3 =< Len(b)
  /\ \A j \in 1..l : b[j].kind = "git"
  /\ b[l + 1].kind = "old" /\ b[l + 1].path = OldOf(section)
  /\ b[l + 2].kind = "new" /\ b[l + 2].path = NewOf(section)
  /\ b[l + 3].kind = "at"
  /\ \A j \in (l + 3)..Len(b) : b[j].kind \in {"at", "ctx", "del", "add"}
  /\ section.does = "modify" =>
       \A t \in Texts : /\ Occ(b, Del(t)) = Occ(CutLines(version, section), t)
                        /\ Occ(b, Add(t)) = Occ(AddedLines(section), t)

LEMMA BlockIs ==
  ASSUME NEW version, NEW section, SectionFits(version, section), NEW git \in BOOLEAN
  PROVE  IsBlock(BlockOf(version, section, git), Len(Leader(git)), version, section)
<1> DEFINE g == Leader(git)
           h == Header("old", OldOf(section)) \o Header("new", NewOf(section))
           c == BodyOf(version, section)
           hc == h \o c
           b == g \o hc
           l == Len(g)
           n == Len(c)
<1>1. /\ g \in Seq(PlainLine) /\ l \in Nat /\ \A j \in 1..l : g[j].kind = "git"
  <2>1. g \in Seq(PlainLine)
    BY LeaderType
  <2>2. CASE git
    <3>1. g = <<[kind |-> "git"]>>
      BY <2>2 DEF Leader
    <3>2. QED
      BY <2>1, <3>1
  <2>3. CASE ~git
    <3>1. g = <<>>
      BY <2>3 DEF Leader
    <3>2. QED
      BY <2>1, <3>1
  <2>4. QED
    BY <2>2, <2>3
<1>2. /\ h \in Seq(PlainLine) /\ Len(h) = 2
      /\ h[1].kind = "old" /\ h[1].path = OldOf(section)
      /\ h[2].kind = "new" /\ h[2].path = NewOf(section)
  BY HeadersAre
<1>3. /\ c \in Seq(PlainLine) /\ n \in Nat \ {0} /\ c[1].kind = "at"
      /\ \A j \in 1..n : c[j].kind \in {"at", "ctx", "del", "add"}
  <2>1. c \in Seq(BodyLine) /\ c # <<>> /\ c[1].kind = "at"
    BY BodyIs
  <2>2. BodyLine \subseteq PlainLine
    BY DEF BodyLine
  <2> HIDE DEF c
  <2>3. c \in Seq(PlainLine) /\ n \in Nat \ {0}
    BY <2>1, <2>2, SeqMonotonic, EmptySeq
  <2>4. \A j \in 1..n : c[j] \in BodyLine
    BY <2>1, ElementOfSeq
  <2>5. QED
    BY <2>1, <2>3, <2>4 DEF BodyLine
<1>4. section.does = "modify" =>
        \A t \in Texts : /\ Occ(c, Del(t)) = Occ(CutLines(version, section), t)
                         /\ Occ(c, Add(t)) = Occ(AddedLines(section), t)
  BY BodyIs
<1>5. BlockOf(version, section, git) = b
  BY SectionParts DEF BlockOf
<1> HIDE DEF g, h, c
<1>6. /\ hc \in Seq(PlainLine) /\ Len(hc) = 2 + n
      /\ \A i \in 1..(2 + n) : hc[i] = IF i <= 2 THEN h[i] ELSE c[i - 2]
  <2>1. Concats(h \o c, h, c, PlainLine)
    BY <1>2, <1>3, ConcatIs
  <2>2. Len(h) = 2 /\ Len(h) + Len(c) = 2 + n
    BY <1>2
  <2>3. hc \in Seq(PlainLine) /\ Len(hc) = 2 + n
    BY <2>1, <2>2 DEF Concats
  <2>4. ASSUME NEW i \in 1..(2 + n) PROVE hc[i] = IF i <= 2 THEN h[i] ELSE c[i - 2]
    <3>1. hc[i] = IF i <= Len(h) THEN h[i] ELSE c[i - Len(h)]
      BY <2>1, <2>2 DEF Concats
    <3>2. QED
      BY <2>2, <3>1
  <2>5. QED
    BY <2>3, <2>4
<1> HIDE DEF hc
<1>7. /\ b \in Seq(PlainLine) /\ Len(b) = l + (2 + n)
      /\ \A i \in 1..(l + (2 + n)) : b[i] = IF i <= l THEN g[i] ELSE hc[i - l]
  <2>1. Concats(g \o hc, g, hc, PlainLine)
    BY <1>1, <1>6, ConcatIs
  <2>2. Len(hc) = 2 + n
    BY <1>6
  <2> HIDE DEF n
  <2>3. QED
    BY <2>1, <2>2, Zenon DEF Concats
<1>8. \A v : Occ(b, v) = Occ(g, v) + (Occ(h, v) + Occ(c, v))
  <2>1. \A v : Occ(hc, v) = Occ(h, v) + Occ(c, v)
    BY <1>2, <1>3, OccConcat DEF hc
  <2>2. \A v : Occ(b, v) = Occ(g, v) + Occ(hc, v)
    BY <1>1, <1>6, OccConcat
  <2>3. QED
    BY <2>1, <2>2
<1> HIDE DEF b, l, n
<1>9. /\ \A j \in 1..l : b[j] = g[j]
      /\ b[l + 1] = h[1] /\ b[l + 2] = h[2]
      /\ \A j \in (l + 3)..Len(b) : j - (l + 2) \in 1..n /\ b[j] = c[j - (l + 2)]
  <2>1. \A j \in 1..l : b[j] = g[j]
    BY <1>1, <1>3, <1>7
  <2>2. b[l + 1] = hc[1] /\ b[l + 2] = hc[2]
    <3>1. /\ l + 1 \in 1..(l + (2 + n)) /\ l + 2 \in 1..(l + (2 + n))
          /\ ~(l + 1 <= l) /\ ~(l + 2 <= l) /\ (l + 1) - l = 1 /\ (l + 2) - l = 2
      BY <1>1, <1>3
    <3>2. QED
      BY <1>7, <3>1
  <2>3. hc[1] = h[1] /\ hc[2] = h[2]
    BY <1>3, <1>6
  <2>4. ASSUME NEW j \in (l + 3)..Len(b)
        PROVE  j - (l + 2) \in 1..n /\ b[j] = c[j - (l + 2)]
    <3>1. /\ j \in 1..(l + (2 + n)) /\ ~(j <= l) /\ j - l \in 1..(2 + n) /\ ~(j - l <= 2)
          /\ (j - l) - 2 = j - (l + 2) /\ j - (l + 2) \in 1..n
      BY <1>1, <1>3, <1>7
    <3>2. b[j] = hc[j - l] /\ hc[j - l] = c[(j - l) - 2]
      BY <1>6, <1>7, <3>1
    <3>3. QED
      BY <3>1, <3>2
  <2>5. QED
    BY <2>1, <2>2, <2>3, <2>4
<1>10. /\ Len(b) \in Nat /\ l + 3 =< Len(b) /\ l + 3 \in (l + 3)..Len(b)
       /\ (l + 3) - (l + 2) = 1
  BY <1>1, <1>3, <1>7
<1>11. /\ \A j \in 1..l : b[j].kind = "git"
       /\ b[l + 1].kind = "old" /\ b[l + 1].path = OldOf(section)
       /\ b[l + 2].kind = "new" /\ b[l + 2].path = NewOf(section)
       /\ b[l + 3].kind = "at"
  <2>1. b[l + 3] = c[1]
    BY <1>9, <1>10
  <2>2. QED
    BY <1>1, <1>2, <1>3, <1>9, <2>1
<1>12. \A j \in (l + 3)..Len(b) : b[j].kind \in {"at", "ctx", "del", "add"}
  BY <1>3, <1>9
<1>13. ASSUME section.does = "modify", NEW t \in Texts
       PROVE  /\ Occ(b, Del(t)) = Occ(CutLines(version, section), t)
              /\ Occ(b, Add(t)) = Occ(AddedLines(section), t)
  <2> DEFINE del == Del(t)
             add == Add(t)
  <2>1. del.kind = "del" /\ add.kind = "add"
    BY DEF Del, Add
  <2>2. \A j \in 1..l : g[j] # del /\ g[j] # add
    BY <1>1, <2>1
  <2>3. \A j \in 1..Len(h) : h[j] # del /\ h[j] # add
    <3>1. \A j \in 1..Len(h) : j = 1 \/ j = 2
      BY <1>2
    <3>2. QED
      BY <1>2, <2>1, <3>1
  <2> HIDE DEF del, add
  <2>4. Occ(g, del) = 0 /\ Occ(g, add) = 0 /\ Occ(h, del) = 0 /\ Occ(h, add) = 0
    BY <1>1, <1>2, <2>2, <2>3, OccNowhere DEF l
  <2>5. Occ(c, del) \in Nat /\ Occ(c, add) \in Nat
    BY <1>3, OccType
  <2>6. Occ(b, del) = Occ(c, del) /\ Occ(b, add) = Occ(c, add)
    BY <1>8, <2>4, <2>5
  <2>7. QED
    BY <1>4, <1>13, <2>6 DEF del, add
<1>14. IsBlock(b, l, version, section)
  BY <1>1, <1>7, <1>10, <1>11, <1>12, <1>13 DEF IsBlock
<1>15. QED
  BY <1>5, <1>14 DEF l, g

-----------------------------------------------------------------------------
(************************ where the sections stand ************************)
(* Where the sections of a diff begin, how often a line stands from one on  *)
(* up to line e, and whether no other section begins in between.            *)
Olds(d) == {o \in 1..Len(d) : d[o].kind = "old"}
Within(d, o, e, v) == {q \in (o + 1)..e : d[q] = v}
OccIn(d, o, e, v) == Cardinality(Within(d, o, e, v))
InSection(d, o, e) == \A q \in (o + 1)..e : d[q].kind # "old"

Bounded(d, o, version, section) ==
  section.does = "modify" =>
    \A t \in Texts, e \in o..Len(d) : InSection(d, o, e) =>
      /\ OccIn(d, o, e, Del(t)) =< Occ(CutLines(version, section), t)
      /\ OccIn(d, o, e, Add(t)) =< Occ(AddedLines(section), t)

Heads(d, o, section) ==
  /\ d[o].path = OldOf(section)
  /\ o + 1 =< Len(d) => d[o + 1].kind = "new" /\ d[o + 1].path = NewOf(section)
  /\ o + 2 =< Len(d) => d[o + 2].kind = "at"

(* The sections of the patch one by one, as far as the diff goes.           *)
Laid(d, version, patch, sec) ==
  /\ sec \in [Olds(d) -> DOMAIN patch]
  /\ \A o, q \in Olds(d) : sec[o] = sec[q] => o = q
  /\ \A o \in Olds(d) : Heads(d, o, patch[sec[o]]) /\ Bounded(d, o, version, patch[sec[o]])
  /\ \A q \in 1..Len(d) : d[q].kind = "new" => q > 1 /\ d[q - 1].kind = "old"

LEMMA WithinFinite ==
  ASSUME NEW d, NEW o \in Nat, NEW e \in Nat, NEW v
  PROVE  IsFiniteSet(Within(d, o, e, v)) /\ OccIn(d, o, e, v) \in Nat
<1>1. IsFiniteSet((o + 1)..e)
  BY FS_Interval
<1>2. Within(d, o, e, v) \in SUBSET ((o + 1)..e)
  BY DEF Within
<1>3. IsFiniteSet(Within(d, o, e, v))
  BY <1>1, <1>2, FS_Subset
<1>4. QED
  BY <1>3, FS_CardinalityType DEF OccIn

(* The lines that stand there stand in the sequence moved there.            *)
LEMMA OccInMoved ==
  ASSUME NEW S, NEW b \in Seq(S), NEW d, NEW D \in Nat, NEW o \in Nat, NEW e \in Nat, NEW v,
         \A q \in (o + 1)..e : q - D \in 1..Len(b) /\ d[q] = b[q - D]
  PROVE  OccIn(d, o, e, v) =< Occ(b, v)
<1> DEFINE A == Within(d, o, e, v)
           B == PlacesOf(b, v)
           f == [q \in A |-> q - D]
<1>1. A \subseteq (o + 1)..e /\ \A q \in A : q \in Nat /\ d[q] = v
  BY DEF Within
<1>2. \A q \in A : q - D \in B
  BY <1>1, LenProperties DEF PlacesOf
<1>3. \A p, q \in A : p - D = q - D => p = q
  BY <1>1
<1>4. IsFiniteSet(B)
  BY OccType
<1> HIDE DEF A, B
<1>5. f \in Injection(A, B)
  BY <1>2, <1>3 DEF Injection, IsInjective
<1> HIDE DEF f
<1>6. Cardinality(A) <= Cardinality(B)
  BY <1>4, <1>5, FS_Injection
<1>7. QED
  BY <1>6 DEF A, B, OccIn, Occ

(* One section more.                                                        *)
Complete(d, version, patch, sec, m) ==
  /\ d \in Seq(PlainLine)
  /\ Laid(d, version, patch, sec)
  /\ \A o \in Olds(d) : sec[o] \in 1..m /\ o + 2 =< Len(d)

(* dd is d with a section after it, which begins at N.                      *)
Joint(d, b, l, section, dd, D, N) ==
  /\ D \in Nat /\ N \in Nat /\ l \in Nat /\ Len(b) \in Nat /\ l + 3 =< Len(b)
  /\ D = Len(d) /\ N = D + l + 1
  /\ dd \in Seq(PlainLine) /\ Len(dd) = D + Len(b)
  /\ \A q \in 1..D : dd[q] = d[q]
  /\ \A q \in (D + 1)..(D + Len(b)) : dd[q] = b[q - D]
  /\ \A q \in (D + 1)..(N - 1) : dd[q].kind = "git"
  /\ dd[N].kind = "old" /\ dd[N].path = OldOf(section)
  /\ dd[N + 1].kind = "new" /\ dd[N + 1].path = NewOf(section)
  /\ dd[N + 2].kind = "at"
  /\ \A q \in (N + 2)..(D + Len(b)) : dd[q].kind \in {"at", "ctx", "del", "add"}
  /\ Olds(dd) = Olds(d) \cup {N}

LEMMA LinesOfConcat ==
  ASSUME NEW d \in Seq(PlainLine), NEW b, NEW l, NEW version, NEW section,
         IsBlock(b, l, version, section)
  PROVE  Joint(d, b, l, section, d \o b, Len(d), Len(d) + l + 1)
<1> DEFINE dd == d \o b
           D == Len(d)
           n == Len(b)
           N == D + l + 1
<1>1. /\ D \in Nat /\ N \in Nat /\ l \in Nat /\ n \in Nat /\ l + 3 =< n /\ b \in Seq(PlainLine)
  BY LenProperties DEF IsBlock
<1>2. /\ dd \in Seq(PlainLine) /\ Len(dd) = D + n
      /\ \A i \in 1..(D + n) : dd[i] = IF i <= D THEN d[i] ELSE b[i - D]
  BY <1>1, ConcatProperties
<1>3. /\ \A j \in 1..l : b[j].kind = "git"
      /\ b[l + 1].kind = "old" /\ b[l + 1].path = OldOf(section)
      /\ b[l + 2].kind = "new" /\ b[l + 2].path = NewOf(section)
      /\ b[l + 3].kind = "at"
      /\ \A j \in (l + 3)..n : b[j].kind \in {"at", "ctx", "del", "add"}
  BY DEF IsBlock
<1> HIDE DEF dd, D, n
<1>4. \A q \in 1..D : q \in 1..(D + n) /\ dd[q] = d[q]
  BY <1>1, <1>2
<1>5. \A q \in (D + 1)..(D + n) : dd[q] = b[q - D]
  BY <1>1, <1>2
<1>6. /\ N \in (D + 1)..(D + n) /\ N + 1 \in (D + 1)..(D + n) /\ N + 2 \in (D + 1)..(D + n)
      /\ N - D = l + 1 /\ (N + 1) - D = l + 2 /\ (N + 2) - D = l + 3
  BY <1>1
<1>7. /\ dd[N].kind = "old" /\ dd[N].path = OldOf(section)
      /\ dd[N + 1].kind = "new" /\ dd[N + 1].path = NewOf(section)
      /\ dd[N + 2].kind = "at"
  <2> HIDE DEF N
  <2>1. dd[N] = b[l + 1] /\ dd[N + 1] = b[l + 2] /\ dd[N + 2] = b[l + 3]
    BY <1>5, <1>6
  <2>2. QED
    BY <1>3, <2>1
<1>8. ASSUME NEW q \in (D + 1)..(N - 1) PROVE dd[q].kind = "git"
  <2>1. q \in (D + 1)..(D + n) /\ q - D \in 1..l
    BY <1>1
  <2>2. QED
    BY <1>3, <1>5, <2>1
<1>9. ASSUME NEW q \in (N + 2)..(D + n) PROVE dd[q].kind \in {"at", "ctx", "del", "add"}
  <2>1. q \in (D + 1)..(D + n) /\ q - D \in (l + 3)..n
    BY <1>1
  <2>2. QED
    BY <1>3, <1>5, <2>1
<1>10. Olds(dd) = Olds(d) \cup {N}
  <2>1. ASSUME NEW q \in 1..(D + n) PROVE dd[q].kind = "old" <=> q \in Olds(d) \/ q = N
    <3>1. \/ q \in 1..D \/ q \in (D + 1)..(N - 1) \/ q = N \/ q = N + 1
          \/ q \in (N + 2)..(D + n)
      BY <1>1
    <3>2. q \in 1..D => q # N
      BY <1>1
    <3>3. q \notin 1..D => q \notin Olds(d)
      BY DEF Olds, D
    <3>4. q \in 1..D => (q \in Olds(d) <=> d[q].kind = "old")
      BY DEF Olds, D
    <3>5. q \in (D + 1)..(N - 1) => q # N /\ q \notin 1..D
      BY <1>1
    <3>6. N \notin 1..D /\ N + 1 \notin 1..D /\ N + 1 # N
      BY <1>1
    <3>7. q \in (N + 2)..(D + n) => q # N /\ q \notin 1..D
      BY <1>1
    <3> HIDE DEF N
    <3>8. CASE q \in 1..D
      BY <1>4, <3>2, <3>4, <3>8
    <3>9. CASE q \in (D + 1)..(N - 1)
      BY <1>8, <3>3, <3>5, <3>9
    <3>10. CASE q \in (N + 2)..(D + n)
      BY <1>9, <3>3, <3>7, <3>10
    <3>11. CASE q = N \/ q = N + 1
      BY <1>7, <3>3, <3>6, <3>11
    <3>12. QED
      BY <3>1, <3>8, <3>9, <3>10, <3>11
  <2>2. \A q \in Olds(d) : q \in 1..(D + n)
    BY <1>4 DEF Olds, D
  <2>3. N \in 1..(D + n)
    BY <1>1
  <2> HIDE DEF N
  <2>4. QED
    BY <1>2, <2>1, <2>2, <2>3 DEF Olds
<1>11. QED
  BY <1>1, <1>2, <1>4, <1>5, <1>7, <1>8, <1>9, <1>10 DEF Joint, dd, D, n

(* The sections that were there stay as they were.                          *)
LEMMA EarlierStay ==
  ASSUME NEW d \in Seq(PlainLine), NEW b, NEW l, NEW version, NEW section,
         IsBlock(b, l, version, section),
         NEW o \in Olds(d), o + 2 =< Len(d), NEW s, Heads(d, o, s), Bounded(d, o, version, s)
  PROVE  Heads(d \o b, o, s) /\ Bounded(d \o b, o, version, s)
<1> DEFINE dd == d \o b
           D == Len(d)
           n == Len(b)
           N == D + l + 1
<1>0. Joint(d, b, l, section, dd, D, N)
  BY LinesOfConcat
<1> HIDE DEF dd, D
<1>1. /\ D \in Nat /\ N \in Nat /\ l \in Nat /\ n \in Nat /\ l + 3 =< n
      /\ Len(dd) = D + n
      /\ \A q \in 1..D : dd[q] = d[q]
      /\ \A q \in (D + 1)..(N - 1) : dd[q].kind = "git"
      /\ dd[N].kind = "old"
  <2> HIDE DEF N
  <2>1. QED
    BY <1>0 DEF Joint
<1>2. o \in 1..D /\ o + 2 =< D
  BY DEF Olds, D
<1> HIDE DEF n
<1>3. o \in Nat /\ o + 1 \in 1..D /\ o + 2 \in 1..D
  BY <1>1, <1>2
<1>4. Heads(dd, o, s)
  <2>1. Heads(d, o, s) /\ o + 1 =< Len(d) /\ o + 2 =< Len(d)
    BY <1>1, <1>2, <1>3 DEF D
  <2>2. dd[o] = d[o] /\ dd[o + 1] = d[o + 1] /\ dd[o + 2] = d[o + 2]
    BY <1>1, <1>2, <1>3
  <2>3. QED
    BY <2>1, <2>2 DEF Heads
<1>5. Bounded(dd, o, version, s)
  <2> SUFFICES ASSUME s.does = "modify", NEW t \in Texts, NEW e \in o..Len(dd),
                      InSection(dd, o, e)
               PROVE  /\ OccIn(dd, o, e, Del(t)) =< Occ(CutLines(version, s), t)
                      /\ OccIn(dd, o, e, Add(t)) =< Occ(AddedLines(s), t)
    BY DEF Bounded
  <2> DEFINE f == IF e =< D THEN e ELSE D
  <2>1. e \in Nat /\ e < N
    <3>1. e \in Nat
      BY <1>1, <1>2
    <3>2. N \in (o + 1)..e => dd[N].kind # "old"
      BY DEF InSection
    <3>3. N > o
      BY <1>1, <1>2
    <3> HIDE DEF N
    <3>4. QED
      BY <1>1, <1>3, <3>1, <3>2, <3>3
  <2>2. f \in o..D /\ f \in Nat /\ f =< e
    BY <1>1, <1>2, <2>1
  <2>3. \A q \in (o + 1)..f : q \in (o + 1)..e /\ q \in 1..D
    BY <1>1, <1>3, <2>1, <2>2
  <2>4. \A q \in (o + 1)..e : q \in (o + 1)..f \/ q \in (D + 1)..(N - 1)
    BY <1>1, <1>2, <2>1
  <2> HIDE DEF f, N
  <2>5. InSection(d, o, f)
    BY <1>1, <2>3 DEF InSection
  <2>6. ASSUME NEW v, v.kind # "git" PROVE OccIn(dd, o, e, v) = OccIn(d, o, f, v)
    <3>1. Within(dd, o, e, v) = Within(d, o, f, v)
      BY <1>1, <2>3, <2>4, <2>6 DEF Within
    <3>2. QED
      BY <3>1 DEF OccIn
  <2>7. Del(t).kind # "git" /\ Add(t).kind # "git"
    BY DEF Del, Add
  <2>8. /\ OccIn(d, o, f, Del(t)) =< Occ(CutLines(version, s), t)
        /\ OccIn(d, o, f, Add(t)) =< Occ(AddedLines(s), t)
    BY <2>2, <2>5 DEF Bounded, D
  <2>9. /\ OccIn(dd, o, e, Del(t)) = OccIn(d, o, f, Del(t))
        /\ OccIn(dd, o, e, Add(t)) = OccIn(d, o, f, Add(t))
    BY <2>6, <2>7
  <2>10. QED
    BY <2>8, <2>9
<1>6. QED
  BY <1>4, <1>5 DEF dd

LEMMA NewOneStands ==
  ASSUME NEW d \in Seq(PlainLine), NEW b, NEW l, NEW version, NEW section,
         IsBlock(b, l, version, section)
  PROVE  LET N == Len(d) + l + 1
         IN  Heads(d \o b, N, section) /\ Bounded(d \o b, N, version, section)
<1> DEFINE dd == d \o b
           D == Len(d)
           n == Len(b)
           N == D + l + 1
<1>0. Joint(d, b, l, section, dd, D, N)
  BY LinesOfConcat
<1> HIDE DEF dd, D
<1>1. /\ D \in Nat /\ N \in Nat /\ l \in Nat /\ n \in Nat /\ l + 3 =< n
      /\ Len(dd) = D + n
      /\ \A q \in (D + 1)..(D + n) : dd[q] = b[q - D]
      /\ dd[N].kind = "old" /\ dd[N].path = OldOf(section)
      /\ dd[N + 1].kind = "new" /\ dd[N + 1].path = NewOf(section)
      /\ dd[N + 2].kind = "at"
  <2> HIDE DEF N
  <2>1. QED
    BY <1>0 DEF Joint
<1> HIDE DEF n
<1>2. Heads(dd, N, section)
  BY <1>1 DEF Heads
<1>3. Bounded(dd, N, version, section)
  <2> SUFFICES ASSUME section.does = "modify", NEW t \in Texts, NEW e \in N..Len(dd)
               PROVE  /\ OccIn(dd, N, e, Del(t)) =< Occ(CutLines(version, section), t)
                      /\ OccIn(dd, N, e, Add(t)) =< Occ(AddedLines(section), t)
    BY DEF Bounded
  <2>1. /\ Occ(b, Del(t)) = Occ(CutLines(version, section), t)
        /\ Occ(b, Add(t)) = Occ(AddedLines(section), t)
        /\ b \in Seq(PlainLine)
    BY DEF IsBlock
  <2>2. e \in Nat /\ \A q \in (N + 1)..e : q \in (D + 1)..(D + n) /\ q - D \in 1..n
    BY <1>1
  <2>3. \A q \in (N + 1)..e : q - D \in 1..Len(b) /\ dd[q] = b[q - D]
    BY <1>1, <2>2 DEF n
  <2> HIDE DEF N
  <2>4. \A v : OccIn(dd, N, e, v) =< Occ(b, v)
    BY <1>1, <2>1, <2>2, <2>3, OccInMoved
  <2>5. QED
    BY <2>1, <2>4
<1>4. QED
  BY <1>2, <1>3 DEF dd, D

(* sec2 is sec, and says of the section at N that it is the i-th.           *)
OneMore(sec2, sec, d, N, i) == sec2[N] = i /\ \A o \in Olds(d) : sec2[o] = sec[o]

LEMMA LaidExtends ==
  ASSUME NEW d, NEW b, NEW l, NEW version, NEW patch, NEW sec, NEW m \in Nat,
         m + 1 \in DOMAIN patch, Complete(d, version, patch, sec, m),
         IsBlock(b, l, version, patch[m + 1])
  PROVE  \E sec2 : /\ Complete(d \o b, version, patch, sec2, m + 1)
                   /\ OneMore(sec2, sec, d, Len(d) + l + 1, m + 1)
<1> DEFINE dd == d \o b
           D == Len(d)
           n == Len(b)
           N == D + l + 1
           sec2 == [o \in Olds(dd) |-> IF o = N THEN m + 1 ELSE sec[o]]
<1>1. d \in Seq(PlainLine)
  BY DEF Complete
<1>2. Joint(d, b, l, patch[m + 1], dd, D, N)
  BY <1>1, LinesOfConcat
<1> HIDE DEF dd, D
<1>3. /\ D \in Nat /\ N \in Nat /\ l \in Nat /\ n \in Nat /\ l + 3 =< n
      /\ dd \in Seq(PlainLine) /\ Len(dd) = D + n
      /\ \A q \in 1..D : dd[q] = d[q]
      /\ \A q \in (D + 1)..(N - 1) : dd[q].kind = "git"
      /\ dd[N].kind = "old" /\ dd[N + 1].kind = "new"
      /\ \A q \in (N + 2)..(D + n) : dd[q].kind \in {"at", "ctx", "del", "add"}
      /\ Olds(dd) = Olds(d) \cup {N}
  <2> HIDE DEF N
  <2>1. QED
    BY <1>2 DEF Joint
<1>4. /\ sec \in [Olds(d) -> DOMAIN patch]
      /\ \A o, q \in Olds(d) : sec[o] = sec[q] => o = q
      /\ \A o \in Olds(d) : sec[o] \in 1..m /\ o + 2 =< D
      /\ \A q \in 1..D : d[q].kind = "new" => q > 1 /\ d[q - 1].kind = "old"
  BY DEF Complete, Laid, D
<1>5. \A o \in Olds(d) : o \in 1..D
  BY DEF Olds, D
<1>6. N \notin Olds(d)
  BY <1>3, <1>5
<1>7. \A o \in Olds(d) : Heads(dd, o, patch[sec[o]]) /\ Bounded(dd, o, version, patch[sec[o]])
  <2> TAKE o \in Olds(d)
  <2>1. /\ Heads(d, o, patch[sec[o]]) /\ Bounded(d, o, version, patch[sec[o]])
        /\ o + 2 =< Len(d)
    BY DEF Complete, Laid
  <2>2. QED
    BY <1>1, <2>1, EarlierStay DEF dd
<1>8. Heads(dd, N, patch[m + 1]) /\ Bounded(dd, N, version, patch[m + 1])
  BY <1>1, NewOneStands DEF dd, D
<1> HIDE DEF n
<1>9. ASSUME NEW q \in 1..(D + n), dd[q].kind = "new" PROVE q > 1 /\ dd[q - 1].kind = "old"
  <2>1. \/ q \in 1..D \/ q \in (D + 1)..(N - 1) \/ q = N \/ q = N + 1
        \/ q \in (N + 2)..(D + n)
    BY <1>3
  <2>2. CASE q \in 1..D
    <3>1. d[q].kind = "new"
      BY <1>3, <1>9, <2>2
    <3>2. q > 1 /\ d[q - 1].kind = "old"
      BY <1>4, <2>2, <3>1
    <3>3. q - 1 \in 1..D
      BY <1>3, <2>2, <3>2
    <3>4. QED
      BY <1>3, <3>2, <3>3
  <2>3. CASE q = N + 1
    <3>1. q - 1 = N /\ q > 1
      BY <1>3, <2>3
    <3>2. QED
      BY <1>3, <3>1
  <2> HIDE DEF N
  <2>4. CASE q \in (D + 1)..(N - 1)
    BY <1>3, <1>9, <2>4
  <2>5. CASE q \in (N + 2)..(D + n)
    BY <1>3, <1>9, <2>5
  <2>6. CASE q = N
    BY <1>3, <1>9, <2>6
  <2>7. QED
    BY <2>1, <2>2, <2>3, <2>4, <2>5, <2>6
<1>10. \A o \in Olds(dd) : sec2[o] = IF o = N THEN m + 1 ELSE sec[o]
  OBVIOUS
<1>11. sec2 \in [Olds(dd) -> DOMAIN patch]
  <2> HIDE DEF N
  <2>1. \A o \in Olds(dd) : (IF o = N THEN m + 1 ELSE sec[o]) \in DOMAIN patch
    BY <1>3, <1>4
  <2>2. QED
    BY <2>1
<1>12. N + 2 =< D + n
  BY <1>3
<1>13. m + 1 \notin 1..m /\ m + 1 \in 1..(m + 1) /\ \A i \in 1..m : i \in 1..(m + 1)
  OBVIOUS
<1> HIDE DEF sec2, N
<1>14. \A o, q \in Olds(dd) : sec2[o] = sec2[q] => o = q
  BY <1>3, <1>4, <1>10, <1>13
<1>15. \A o \in Olds(dd) : /\ Heads(dd, o, patch[sec2[o]])
                           /\ Bounded(dd, o, version, patch[sec2[o]])
  <2> TAKE o \in Olds(dd)
  <2>1. CASE o = N
    BY <1>8, <1>10, <2>1
  <2>2. CASE o # N
    <3>1. o \in Olds(d) /\ sec2[o] = sec[o]
      BY <1>3, <1>10, <2>2
    <3>2. QED
      BY <1>7, <3>1
  <2>3. QED
    BY <2>1, <2>2
<1>16. Laid(dd, version, patch, sec2)
  BY <1>3, <1>9, <1>11, <1>14, <1>15 DEF Laid
<1>17. ASSUME NEW o \in Olds(dd) PROVE sec2[o] \in 1..(m + 1) /\ o + 2 =< Len(dd)
  <2>1. CASE o = N
    BY <1>3, <1>10, <1>12, <1>13, <2>1
  <2>2. CASE o # N
    <3>1. o \in Olds(d) /\ sec2[o] = sec[o]
      BY <1>3, <1>10, <2>2
    <3>2. o \in 1..D /\ o + 2 =< D /\ sec[o] \in 1..m
      BY <1>4, <1>5, <3>1
    <3>3. o + 2 =< D + n
      BY <1>3, <3>2
    <3>4. QED
      BY <1>3, <1>13, <3>1, <3>2, <3>3
  <2>3. QED
    BY <2>1, <2>2
<1>18. Complete(dd, version, patch, sec2, m + 1)
  BY <1>3, <1>16, <1>17 DEF Complete
<1>19. OneMore(sec2, sec, d, N, m + 1)
  BY <1>3, <1>6, <1>10 DEF OneMore
<1>20. QED
  BY <1>18, <1>19 DEF dd, D, N

(* The lines b stand after the headers of the section at o, and then comes  *)
(* another section or nothing.                                              *)
Follows(d, o, b) ==
  /\ o + 1 + Len(b) =< Len(d)
  /\ \A j \in 1..Len(b) : d[o + 1 + j] = b[j]
  /\ o + 2 + Len(b) =< Len(d) => d[o + 2 + Len(b)].kind \in {"git", "old"}

Led(d, o, git) == git => o > 1 /\ d[o - 1].kind = "git"

(* The first m sections of the patch, each with all its lines.              *)
Built(d, version, patch, git, sec, m) ==
  /\ \A i \in 1..m : \E o \in Olds(d) : sec[o] = i
  /\ \A o \in Olds(d) : /\ Follows(d, o, BodyOf(version, patch[sec[o]]))
                        /\ Led(d, o, git)
  /\ \A q \in 1..Len(d) : d[q].kind = "git" => git /\ q + 1 \in Olds(d)

(* A block and the lines it ends with.                                      *)
EndsWith(b, l, c) ==
  Len(c) \in Nat /\ Len(b) = l + 2 + Len(c) /\ \A j \in 1..Len(c) : b[l + 2 + j] = c[j]

LEMMA BlockEnds ==
  ASSUME NEW version, NEW section, SectionFits(version, section), NEW git \in BOOLEAN
  PROVE  /\ EndsWith(BlockOf(version, section, git), Len(Leader(git)), BodyOf(version, section))
         /\ Len(Leader(git)) = IF git THEN 1 ELSE 0
<1> DEFINE g == Leader(git)
           h == Header("old", OldOf(section)) \o Header("new", NewOf(section))
           c == BodyOf(version, section)
           hc == h \o c
           b == g \o hc
           l == Len(g)
           n == Len(c)
<1>1. g \in Seq(PlainLine) /\ l \in Nat /\ l = IF git THEN 1 ELSE 0
  <2>1. g \in Seq(PlainLine)
    BY LeaderType
  <2>2. CASE git
    <3>1. g = <<[kind |-> "git"]>>
      BY <2>2 DEF Leader
    <3>2. QED
      BY <2>1, <2>2, <3>1
  <2>3. CASE ~git
    <3>1. g = <<>>
      BY <2>3 DEF Leader
    <3>2. QED
      BY <2>1, <2>3, <3>1
  <2>4. QED
    BY <2>2, <2>3
<1>2. h \in Seq(PlainLine) /\ Len(h) = 2
  BY HeadersAre
<1>3. c \in Seq(PlainLine) /\ n \in Nat
  <2>1. c \in Seq(BodyLine) /\ BodyLine \subseteq PlainLine
    BY BodyIs DEF BodyLine
  <2> HIDE DEF c
  <2>2. c \in Seq(PlainLine)
    BY <2>1, SeqMonotonic
  <2>3. QED
    BY <2>2, LenProperties
<1>4. BlockOf(version, section, git) = b
  BY SectionParts DEF BlockOf
<1> HIDE DEF g, h, c, l, n
<1>5. Concats(hc, h, c, PlainLine)
  BY <1>2, <1>3, ConcatIs
<1>6. /\ hc \in Seq(PlainLine) /\ Len(hc) = 2 + n
      /\ \A j \in 1..(2 + n) : hc[j] = IF j <= 2 THEN h[j] ELSE c[j - 2]
  BY <1>2, <1>5 DEF Concats, n
<1> HIDE DEF hc
<1>7. Concats(b, g, hc, PlainLine)
  BY <1>1, <1>6, ConcatIs
<1>8. /\ Len(b) = l + (2 + n)
      /\ \A j \in 1..(l + (2 + n)) : b[j] = IF j <= l THEN g[j] ELSE hc[j - l]
  BY <1>6, <1>7 DEF Concats, l
<1> HIDE DEF b
<1>9. ASSUME NEW j \in 1..n PROVE b[l + 2 + j] = c[j]
  <2> DEFINE k == l + 2 + j
             i == 2 + j
  <2>1. k \in 1..(l + (2 + n)) /\ ~(k <= l) /\ k - l = i /\ i \in 1..(2 + n) /\ ~(i <= 2) /\ i - 2 = j
    BY <1>1, <1>3
  <2> HIDE DEF k, i
  <2>2. b[k] = c[j]
    BY <1>6, <1>8, <2>1
  <2>3. QED
    BY <2>2 DEF k
<1>10. Len(b) = l + 2 + n
  BY <1>1, <1>3, <1>8
<1>11. QED
  BY <1>1, <1>3, <1>4, <1>9, <1>10 DEF EndsWith, g, l, c, n

LEMMA BuiltExtends ==
  ASSUME NEW d \in Seq(PlainLine), NEW b, NEW l, NEW version, NEW patch, NEW sec, NEW sec2, NEW m \in Nat,
         NEW git \in BOOLEAN, l = (IF git THEN 1 ELSE 0),
         IsBlock(b, l, version, patch[m + 1]), EndsWith(b, l, BodyOf(version, patch[m + 1])),
         \A o \in Olds(d) : Len(BodyOf(version, patch[sec[o]])) \in Nat,
         Built(d, version, patch, git, sec, m),
         OneMore(sec2, sec, d, Len(d) + l + 1, m + 1)
  PROVE  Built(d \o b, version, patch, git, sec2, m + 1)
<1> DEFINE dd == d \o b
           D == Len(d)
           n == Len(b)
           N == D + l + 1
           c == BodyOf(version, patch[m + 1])
           k == Len(c)
<1>1. Joint(d, b, l, patch[m + 1], dd, D, N)
  BY LinesOfConcat
<1> HIDE DEF dd, D, c
<1>2. /\ D \in Nat /\ N \in Nat /\ l \in Nat /\ n \in Nat /\ l + 3 =< n
      /\ dd \in Seq(PlainLine) /\ Len(dd) = D + n
      /\ \A q \in 1..D : dd[q] = d[q]
      /\ \A q \in (D + 1)..(D + n) : dd[q] = b[q - D]
      /\ \A q \in (D + 1)..(N - 1) : dd[q].kind = "git"
      /\ dd[N].kind = "old" /\ dd[N + 1].kind = "new"
      /\ \A q \in (N + 2)..(D + n) : dd[q].kind \in {"at", "ctx", "del", "add"}
      /\ Olds(dd) = Olds(d) \cup {N}
  <2> HIDE DEF N
  <2>1. QED
    BY <1>1 DEF Joint
<1>3. k \in Nat /\ n = l + 2 + k /\ \A j \in 1..k : b[l + 2 + j] = c[j]
  BY DEF EndsWith, c
<1>4. \A o \in Olds(d) : o \in 1..D /\ o \in Nat
  BY DEF Olds, D
<1>5. sec2[N] = m + 1 /\ \A o \in Olds(d) : sec2[o] = sec[o]
  BY DEF OneMore, D
<1>6. D + 1 =< Len(dd) /\ dd[D + 1].kind \in {"git", "old"}
  <2>1. D + 1 \in (D + 1)..(N - 1) \/ D + 1 = N
    BY <1>2
  <2>2. D + 1 =< D + n
    BY <1>2
  <2> HIDE DEF N
  <2>3. QED
    BY <1>2, <2>1, <2>2
<1> HIDE DEF n, k
<1>7. ASSUME NEW o \in Olds(d), NEW s, Len(BodyOf(version, s)) \in Nat,
             Follows(d, o, BodyOf(version, s)), Led(d, o, git)
      PROVE  Follows(dd, o, BodyOf(version, s)) /\ Led(dd, o, git)
  <2> DEFINE x == BodyOf(version, s)
             z == Len(x)
             E == o + 1 + z
  <2>1. /\ z \in Nat /\ E =< D /\ \A j \in 1..z : d[o + 1 + j] = x[j]
        /\ o + 2 + z =< D => d[o + 2 + z].kind \in {"git", "old"}
    BY <1>7 DEF Follows, D
  <2> HIDE DEF x, z
  <2>2. o \in 1..D /\ o \in Nat
    BY <1>4
  <2>3. E =< D + n /\ E \in Nat /\ o + 2 + z = E + 1
    BY <1>2, <2>1, <2>2
  <2>4. \A j \in 1..z : o + 1 + j \in 1..D
    BY <1>2, <2>1, <2>2
  <2>5. \A j \in 1..z : dd[o + 1 + j] = x[j]
    BY <1>2, <2>1, <2>4
  <2>6. dd[o + 2 + z].kind \in {"git", "old"}
    <3>1. CASE E = D
      BY <1>6, <2>3, <3>1
    <3>2. CASE E < D
      <4>1. E + 1 \in 1..D /\ o + 2 + z =< D
        BY <1>2, <2>1, <2>3, <3>2
      <4>2. QED
        BY <1>2, <2>1, <2>3, <4>1
    <3>3. QED
      BY <1>2, <2>1, <2>3, <3>1, <3>2
  <2>7. Follows(dd, o, x)
    BY <1>2, <2>3, <2>5, <2>6 DEF Follows, z
  <2>8. Led(dd, o, git)
    <3>1. ASSUME git PROVE o > 1 /\ dd[o - 1].kind = "git"
      <4>1. o > 1 /\ d[o - 1].kind = "git"
        BY <1>7, <3>1 DEF Led
      <4>2. o - 1 \in 1..D
        BY <1>2, <2>2, <4>1
      <4>3. QED
        BY <1>2, <4>1, <4>2
    <3>2. QED
      BY <3>1 DEF Led
  <2>9. QED
    BY <2>7, <2>8 DEF x
<1>8. Follows(dd, N, c) /\ Led(dd, N, git)
  <2>1. N + 1 + k = D + n /\ ~(N + 2 + k =< D + n)
    BY <1>2, <1>3
  <2>2. ASSUME NEW j \in 1..k PROVE dd[N + 1 + j] = c[j]
    <3>1. N + 1 + j \in (D + 1)..(D + n) /\ (N + 1 + j) - D = l + 2 + j
      BY <1>2, <1>3
    <3> DEFINE i == N + 1 + j
    <3> HIDE DEF i
    <3>2. i \in (D + 1)..(D + n) /\ i - D = l + 2 + j
      BY <3>1 DEF i
    <3>3. dd[i] = b[i - D]
      BY <1>2, <3>2
    <3>4. b[l + 2 + j] = c[j]
      BY <1>3
    <3>5. dd[i] = c[j]
      BY <3>2, <3>3, <3>4
    <3>6. QED
      BY <3>5 DEF i
  <2>3. Follows(dd, N, c)
    <3>1. N + 1 + k =< D + n
      BY <1>2, <2>1
    <3> HIDE DEF N
    <3>2. QED
      BY <1>2, <2>1, <2>2, <3>1 DEF Follows, k
  <2>4. ASSUME git PROVE N > 1 /\ dd[N - 1].kind = "git"
    <3>1. l = 1
      BY <2>4
    <3>2. N > 1 /\ N - 1 \in (D + 1)..(N - 1)
      BY <1>2, <3>1
    <3> HIDE DEF N
    <3>3. QED
      BY <1>2, <3>2
  <2>5. QED
    BY <2>3, <2>4 DEF Led
<1>9. ASSUME NEW q \in 1..(D + n), dd[q].kind = "git" PROVE git /\ q + 1 \in Olds(dd)
  <2>1. \/ q \in 1..D \/ q \in (D + 1)..(N - 1) \/ q = N \/ q = N + 1
        \/ q \in (N + 2)..(D + n)
    BY <1>2
  <2>2. CASE q \in 1..D
    <3>1. d[q].kind = "git"
      BY <1>2, <1>9, <2>2
    <3>2. git /\ q + 1 \in Olds(d)
      BY <2>2, <3>1 DEF Built, D
    <3>3. QED
      BY <1>2, <3>2
  <2>3. CASE q \in (D + 1)..(N - 1)
    <3>1. git /\ q + 1 = N
      BY <1>2, <2>3
    <3> HIDE DEF N
    <3>2. QED
      BY <1>2, <3>1
  <2> HIDE DEF N
  <2>4. CASE q \in (N + 2)..(D + n) \/ q = N \/ q = N + 1
    BY <1>2, <1>9, <2>4
  <2>5. QED
    BY <2>1, <2>2, <2>3, <2>4
<1>10. ASSUME NEW i \in 1..(m + 1) PROVE \E o \in Olds(dd) : sec2[o] = i
  <2>1. i \in 1..m \/ i = m + 1
    OBVIOUS
  <2> HIDE DEF N
  <2>2. CASE i = m + 1
    BY <1>2, <1>5, <2>2
  <2>3. CASE i \in 1..m
    <3>1. PICK o \in Olds(d) : sec[o] = i
      BY <2>3 DEF Built
    <3>2. QED
      BY <1>2, <1>5, <3>1
  <2>4. QED
    BY <2>1, <2>2, <2>3
<1> HIDE DEF N
<1>11. ASSUME NEW o \in Olds(dd)
       PROVE  Follows(dd, o, BodyOf(version, patch[sec2[o]])) /\ Led(dd, o, git)
  <2>1. CASE o = N
    BY <1>5, <1>8, <2>1 DEF c
  <2>2. CASE o # N
    <3>1. o \in Olds(d) /\ sec2[o] = sec[o]
      BY <1>2, <1>5, <2>2
    <3>2. Follows(d, o, BodyOf(version, patch[sec[o]])) /\ Led(d, o, git)
      BY <3>1 DEF Built
    <3>3. Follows(dd, o, BodyOf(version, patch[sec[o]])) /\ Led(dd, o, git)
      BY <1>7, <3>1, <3>2
    <3>4. QED
      BY <3>1, <3>3
  <2>3. QED
    BY <2>1, <2>2
<1>12. Built(dd, version, patch, git, sec2, m + 1)
  BY <1>2, <1>9, <1>10, <1>11 DEF Built
<1>13. QED
  BY <1>12 DEF dd

LEMMA NothingIsLaid ==
  \A version, patch : \E sec : Complete(<<>>, version, patch, sec, 0)
<1> TAKE version, patch
<1> DEFINE none == <<>>
           sec == [o \in {} |-> 0]
<1>1. none \in Seq(PlainLine) /\ Len(none) = 0
  BY EmptySeq
<1> HIDE DEF none
<1>2. Olds(none) = {} /\ 1..Len(none) = {}
  BY <1>1 DEF Olds
<1>3. sec \in [Olds(none) -> DOMAIN patch]
  BY <1>2
<1> HIDE DEF sec
<1>4. Complete(none, version, patch, sec, 0)
  BY <1>1, <1>2, <1>3 DEF Complete, Laid
<1>5. QED
  BY <1>4 DEF none

(* A whole diff: its sections are the patch's, each with all its lines.      *)
Placed(d, version, patch, git, sec) ==
  Laid(d, version, patch, sec) /\ Built(d, version, patch, git, sec, Len(patch))

LEMMA UnifiedIsPlaced ==
  ASSUME NEW version, NEW patch, PlanFits(version, patch), NEW git \in BOOLEAN
  PROVE  \E sec : Placed(Unified(version, patch, git), version, patch, git, sec)
<1> DEFINE ss == BlocksOf(version, patch, git)
           n == Len(patch)
           l == Len(Leader(git))
           So(d, sec, k) == Complete(d, version, patch, sec, k) /\ Built(d, version, patch, git, sec, k)
           Good(F, k) == \E sec : So(F[k], sec, k)
<1>1. /\ ss \in Seq(Seq(PlainLine)) /\ Len(ss) = n
      /\ n \in Nat /\ DOMAIN patch = 1..n
      /\ \A i \in 1..n : SectionFits(version, patch[i])
  <2>1. /\ patch \in Seq(PlainSection)
        /\ \A i \in DOMAIN patch : SectionFits(version, patch[i])
    BY SectionsFit
  <2>2. ss \in Seq(Seq(PlainLine)) /\ Len(ss) = n
    BY BlocksType
  <2>3. n \in Nat /\ DOMAIN patch = 1..n
    BY <2>1, LenProperties
  <2>4. QED
    BY <2>1, <2>2, <2>3
<1>2. ASSUME NEW i \in 1..n
      PROVE  /\ IsBlock(ss[i], l, version, patch[i])
             /\ EndsWith(ss[i], l, BodyOf(version, patch[i]))
             /\ l = IF git THEN 1 ELSE 0
  <2>1. ss[i] = BlockOf(version, patch[i], git)
    BY <1>1 DEF BlocksOf
  <2>2. QED
    BY <1>1, <2>1, BlockIs, BlockEnds
<1>3. Unified(version, patch, git) = FlattenSeq(ss)
  BY UnifiedIs
<1>4. ASSUME NEW d, NEW m \in Nat, m + 1 \in 1..n, \E sec : So(d, sec, m)
      PROVE  \E sec : So(d \o ss[m + 1], sec, m + 1)
  <2> DEFINE b == ss[m + 1]
  <2>1. PICK sec : So(d, sec, m)
    BY <1>4
  <2>2. /\ IsBlock(b, l, version, patch[m + 1]) /\ EndsWith(b, l, BodyOf(version, patch[m + 1]))
        /\ l = (IF git THEN 1 ELSE 0) /\ m + 1 \in DOMAIN patch
    BY <1>1, <1>2, <1>4
  <2> HIDE DEF b, l, n
  <2>3. PICK sec2 : /\ Complete(d \o b, version, patch, sec2, m + 1)
                    /\ OneMore(sec2, sec, d, Len(d) + l + 1, m + 1)
    BY <2>1, <2>2, LaidExtends
  <2>4. d \in Seq(PlainLine) /\ \A o \in Olds(d) : sec[o] \in DOMAIN patch
    BY <2>1 DEF Complete, Laid
  <2>5. ASSUME NEW o \in Olds(d) PROVE Len(BodyOf(version, patch[sec[o]])) \in Nat
    <3>1. BodyOf(version, patch[sec[o]]) \in Seq(BodyLine)
      BY <1>1, <2>4, BodyIs
    <3>2. QED
      BY <3>1, LenProperties
  <2>6. Built(d \o b, version, patch, git, sec2, m + 1)
    BY <2>1, <2>2, <2>3, <2>4, <2>5, BuiltExtends
  <2>7. QED
    BY <2>3, <2>6 DEF b
<1>5. \E sec : So(<<>>, sec, 0)
  <2>1. PICK sec : Complete(<<>>, version, patch, sec, 0)
    BY NothingIsLaid
  <2>2. <<>> \in Seq(PlainLine) /\ Len(<<>>) = 0
    OBVIOUS
  <2> DEFINE none == <<>>
  <2> HIDE DEF none
  <2>3. Olds(none) = {} /\ 1..Len(none) = {} /\ 1..0 = {}
    BY <2>2 DEF Olds, none
  <2>4. Built(none, version, patch, git, sec, 0)
    BY <2>3 DEF Built
  <2>5. QED
    BY <2>1, <2>4 DEF none
<1> HIDE DEF ss, l, So
<1>6. CASE n = 0
  <2>1. FlattenSeq(ss) = <<>>
    <3>1. ss = <<>>
      BY <1>1, <1>6, EmptySeq
    <3>2. QED
      BY <3>1, FlattenEmpty
  <2>2. QED
    BY <1>3, <1>6, <1>5, <2>1 DEF Complete, Placed, So
<1>7. CASE n # 0
  <2>1. PICK F : Unrolls(F, ss, n, PlainLine) /\ FlattenSeq(ss) = F[n]
    BY <1>1, <1>7, FlattenUnrolled
  <2> DEFINE Bad == {k \in Nat : k \in 1..n /\ ~Good(F, k)}
  <2>2. Bad = {}
    <3> SUFFICES ASSUME Bad # {} PROVE FALSE
      OBVIOUS
    <3>1. PICK m \in Bad : \A j \in Bad : m =< j
      <4>1. Bad \in SUBSET Nat
        OBVIOUS
      <4> HIDE DEF Bad
      <4>2. QED
        BY <4>1, LeastNumber
    <3>2. m \in 1..n /\ m \in Nat /\ ~Good(F, m)
      BY <3>1
    <3>3. F[m] = IF m = 1 THEN ss[m] ELSE F[m - 1] \o ss[m]
      BY <2>1, <3>2 DEF Unrolls
    <3>4. CASE m = 1
      <4>1. 0 + 1 = m /\ 0 \in Nat
        BY <3>4
      <4>2. ss[m] \in Seq(PlainLine)
        BY <1>1, <3>2, ElementOfSeq
      <4>3. <<>> \o ss[m] = F[m]
        BY <3>3, <3>4, <4>2, ConcatEmptySeq
      <4>4. \E sec : So(<<>> \o ss[0 + 1], sec, 0 + 1)
        BY <1>4, <1>5, <3>2, <4>1
      <4>5. QED
        BY <3>2, <4>1, <4>3, <4>4
    <3>5. CASE m # 1
      <4> DEFINE k == m - 1
      <4>1. k \in 1..n /\ k \in Nat /\ ~(m =< k) /\ k + 1 = m
        BY <1>1, <3>2, <3>5
      <4> HIDE DEF k
      <4>2. Good(F, k)
        <5>1. k \notin Bad
          <6> HIDE DEF Bad
          <6>1. QED
            BY <3>1, <4>1
        <5>2. QED
          BY <4>1, <5>1
      <4>3. F[m] = F[k] \o ss[k + 1]
        BY <3>3, <3>5, <4>1 DEF k
      <4>4. \E sec : So(F[k] \o ss[k + 1], sec, k + 1)
        BY <1>4, <3>2, <4>1, <4>2
      <4>5. QED
        BY <3>2, <4>1, <4>3, <4>4
    <3>6. QED
      BY <3>4, <3>5
  <2>3. Good(F, n)
    BY <1>1, <1>7, <2>2
  <2>4. QED
    BY <1>3, <2>1, <2>3 DEF Complete, Placed, So
<1>8. QED
  BY <1>6, <1>7

LEMMA UnifiedIsLaid ==
  ASSUME NEW version, NEW patch, PlanFits(version, patch), NEW git \in BOOLEAN
  PROVE  \E sec : Laid(Unified(version, patch, git), version, patch, sec)
BY UnifiedIsPlaced DEF Placed

(* What is cut off does not matter.                                         *)
LEMMA LaidPrefix ==
  ASSUME NEW d \in Seq(PlainLine), NEW version, NEW patch, NEW sec, Laid(d, version, patch, sec),
         NEW n \in 0..Len(d)
  PROVE  \E sec2 : Laid(SubSeq(d, 1, n), version, patch, sec2)
<1> DEFINE c == SubSeq(d, 1, n)
           sec2 == [o \in Olds(c) |-> sec[o]]
<1>1. /\ n \in Nat /\ Len(d) \in Nat /\ n =< Len(d) /\ Len(c) = n
      /\ \A q \in 1..n : c[q] = d[q]
  BY BeginningType, LenProperties
<1> HIDE DEF c
<1>2. \A o \in Olds(c) : o \in Olds(d) /\ o \in 1..n /\ o \in Nat /\ o =< n
  BY <1>1 DEF Olds
<1>3. \A o \in Olds(c) : sec2[o] = sec[o]
  OBVIOUS
<1>4. sec2 \in [Olds(c) -> DOMAIN patch]
  BY <1>2 DEF Laid
<1> HIDE DEF sec2
<1>5. \A o, q \in Olds(c) : sec2[o] = sec2[q] => o = q
  BY <1>2, <1>3 DEF Laid
<1>6. ASSUME NEW o \in Olds(c), NEW s, Heads(d, o, s), Bounded(d, o, version, s)
      PROVE  Heads(c, o, s) /\ Bounded(c, o, version, s)
  <2>1. o \in 1..n /\ o \in Nat /\ o =< n
    BY <1>2
  <2>2. Heads(c, o, s)
    <3>1. c[o] = d[o]
      BY <1>1, <2>1
    <3>2. o + 1 =< n => o + 1 =< Len(d) /\ c[o + 1] = d[o + 1]
      BY <1>1, <2>1
    <3>3. o + 2 =< n => o + 2 =< Len(d) /\ c[o + 2] = d[o + 2]
      BY <1>1, <2>1
    <3>4. QED
      BY <1>1, <1>6, <3>1, <3>2, <3>3 DEF Heads
  <2>3. Bounded(c, o, version, s)
    <3> SUFFICES ASSUME s.does = "modify", NEW t \in Texts, NEW e \in o..Len(c),
                        InSection(c, o, e)
                 PROVE  /\ OccIn(c, o, e, Del(t)) =< Occ(CutLines(version, s), t)
                        /\ OccIn(c, o, e, Add(t)) =< Occ(AddedLines(s), t)
      BY DEF Bounded
    <3>1. e \in o..Len(d) /\ \A q \in (o + 1)..e : q \in 1..n
      BY <1>1, <2>1
    <3>2. InSection(d, o, e)
      BY <1>1, <3>1 DEF InSection
    <3>3. \A v : OccIn(c, o, e, v) = OccIn(d, o, e, v)
      <4>1. \A v : Within(c, o, e, v) = Within(d, o, e, v)
        BY <1>1, <3>1 DEF Within
      <4>2. QED
        BY <4>1 DEF OccIn
    <3>4. QED
      BY <1>6, <3>1, <3>2, <3>3 DEF Bounded
  <2>4. QED
    BY <2>2, <2>3
<1>7. \A o \in Olds(c) : Heads(c, o, patch[sec2[o]]) /\ Bounded(c, o, version, patch[sec2[o]])
  BY <1>2, <1>3, <1>6 DEF Laid
<1>8. ASSUME NEW q \in 1..n, c[q].kind = "new" PROVE q > 1 /\ c[q - 1].kind = "old"
  <2>1. q \in 1..Len(d) /\ d[q].kind = "new"
    BY <1>1, <1>8
  <2>2. q > 1 /\ d[q - 1].kind = "old"
    BY <2>1 DEF Laid
  <2>3. q - 1 \in 1..n
    BY <1>1, <2>2
  <2>4. QED
    BY <1>1, <2>2, <2>3
<1>9. Laid(c, version, patch, sec2)
  BY <1>1, <1>4, <1>5, <1>7, <1>8 DEF Laid
<1>10. QED
  BY <1>9 DEF c

LEMMA DiffIsLaid ==
  ASSUME NEW version, NEW patch, PlanFits(version, patch), NEW git \in BOOLEAN,
         NEW d \in Prefixes(Unified(version, patch, git))
  PROVE  \E sec : Laid(d, version, patch, sec)
<1> DEFINE all == Unified(version, patch, git)
<1>1. all \in Seq(PlainLine)
  BY UnifiedType
<1>2. PICK sec : Laid(all, version, patch, sec)
  BY UnifiedIsLaid
<1>3. PICK n \in 0..Len(all) : d = SubSeq(all, 1, n)
  BY DEF Prefixes
<1> HIDE DEF all
<1>4. QED
  BY <1>1, <1>2, <1>3, LaidPrefix

-----------------------------------------------------------------------------
(************************** what the hunks hold ***************************)
(* How often a line stands in the hunks: the places, a hunk and one in it.  *)
HunkLines(hh, v) == {x \in (1..Len(hh)) \X Nat : x[2] \in PlacesOf(hh[x[1]].lines, v)}
Tally(hh, v) == Cardinality(HunkLines(hh, v))
TallyIs(hh, v, n) == IsFiniteSet(HunkLines(hh, v)) /\ Tally(hh, v) = n /\ n \in Nat

LEMMA TallyNothing == \A v : TallyIs(<<>>, v, 0)
<1> TAKE v
<1>1. HunkLines(<<>>, v) = {}
  BY DEF HunkLines
<1>2. QED
  BY <1>1, FS_EmptySet DEF Tally, TallyIs

LEMMA TallyAppend ==
  ASSUME NEW hh \in Seq(PlainHunk), NEW h \in PlainHunk, NEW v, NEW n, TallyIs(hh, v, n)
  PROVE  TallyIs(Append(hh, h), v, n + Occ(h.lines, v)) /\ Occ(h.lines, v) \in Nat
<1> DEFINE m == Len(hh)
           a == Append(hh, h)
           P == HunkLines(hh, v)
           B == PlacesOf(h.lines, v)
           Q == {m + 1} \X B
<1>1. /\ m \in Nat /\ Len(a) = m + 1 /\ a[m + 1] = h /\ \A i \in 1..m : a[i] = hh[i]
  BY LenProperties, AppendProperties
<1>2. h.lines \in Seq(PlainLine)
  BY DEF PlainHunk
<1>3. IsFiniteSet(B) /\ Cardinality(B) \in Nat /\ B \subseteq Nat /\ Occ(h.lines, v) = Cardinality(B)
  <2>1. B \subseteq Nat
    BY <1>2, LenProperties DEF PlacesOf
  <2>2. QED
    BY <1>2, <2>1, OccType DEF Occ
<1>4. IsFiniteSet(P) /\ Cardinality(P) = n /\ n \in Nat
  BY DEF TallyIs, Tally
<1>5. IsFiniteSet(Q) /\ Cardinality(Q) = Cardinality(B)
  <2> DEFINE one == {m + 1}
  <2>1. IsFiniteSet(one) /\ Cardinality(one) = 1
    BY FS_Singleton
  <2> HIDE DEF one, B
  <2>2. IsFiniteSet(one \X B) /\ Cardinality(one \X B) = 1 * Cardinality(B)
    BY <1>3, <2>1, FS_Product
  <2>3. QED
    BY <1>3, <2>2 DEF one
<1> HIDE DEF a
<1>6. HunkLines(a, v) = P \cup Q
  <2>1. ASSUME NEW i \in 1..(m + 1), NEW k \in Nat
        PROVE  k \in PlacesOf(a[i].lines, v)
                 <=> \/ i \in 1..m /\ k \in PlacesOf(hh[i].lines, v)
                     \/ i = m + 1 /\ k \in B
    <3>1. i \in 1..m \/ i = m + 1
      BY <1>1
    <3>2. m + 1 \notin 1..m
      BY <1>1
    <3> HIDE DEF m
    <3>3. CASE i \in 1..m
      BY <1>1, <3>2, <3>3
    <3>4. CASE i = m + 1
      BY <1>1, <3>2, <3>4
    <3>5. QED
      BY <3>1, <3>3, <3>4
  <2>2. \A i \in 1..m : i \in 1..(m + 1)
    BY <1>1
  <2>3. m + 1 \in 1..(m + 1)
    BY <1>1
  <2> DEFINE M == m + 1
  <2>4. HunkLines(a, v) = {x \in (1..M) \X Nat : x[2] \in PlacesOf(a[x[1]].lines, v)}
    BY <1>1 DEF HunkLines
  <2>5. P = {x \in (1..m) \X Nat : x[2] \in PlacesOf(hh[x[1]].lines, v)}
    BY DEF HunkLines
  <2> HIDE DEF M, m, B, P
  <2>6. \A i, k : <<i, k>> \in HunkLines(a, v) <=> <<i, k>> \in P \cup ({M} \X B)
    <3> USE DEF M
    <3>1. QED
      BY <1>3, <2>1, <2>2, <2>3, <2>4, <2>5
  <2>7. \A x \in HunkLines(a, v) : x = <<x[1], x[2]>>
    BY <2>4
  <2>8. \A x \in P \cup ({M} \X B) : x = <<x[1], x[2]>>
    BY <2>5
  <2>9. HunkLines(a, v) = P \cup ({M} \X B)
    BY <2>6, <2>7, <2>8
  <2>10. QED
    BY <2>9 DEF M
<1>7. P \cap Q = {}
  <2>1. \A x \in P : x[1] \in 1..m
    BY DEF HunkLines
  <2>2. \A x \in Q : x[1] = m + 1
    OBVIOUS
  <2>3. m + 1 \notin 1..m
    BY <1>1
  <2> HIDE DEF P, Q, m
  <2>4. QED
    BY <2>1, <2>2, <2>3
<1> HIDE DEF P, Q, B
<1>8. /\ IsFiniteSet(P \cup Q)
      /\ Cardinality(P \cup Q) = Cardinality(P) + Cardinality(Q) - Cardinality(P \cap Q)
  BY <1>4, <1>5, FS_Union
<1>9. Cardinality(P \cap Q) = 0
  BY <1>7, FS_EmptySet
<1>10. Cardinality(P \cup Q) = n + Occ(h.lines, v) /\ n + Occ(h.lines, v) \in Nat
  BY <1>3, <1>4, <1>5, <1>8, <1>9
<1>11. QED
  BY <1>3, <1>6, <1>8, <1>10 DEF TallyIs, Tally, a

LEMMA TallyType ==
  ASSUME NEW hh \in Seq(PlainHunk), NEW v
  PROVE  IsFiniteSet(HunkLines(hh, v)) /\ Tally(hh, v) \in Nat /\ TallyIs(hh, v, Tally(hh, v))
<1> DEFINE Bad == {u \in Seq(PlainHunk) : ~\E n : TallyIs(u, v, n)}
<1>1. <<>> \notin Bad
  BY TallyNothing
<1>2. ASSUME NEW u \in Seq(PlainHunk), NEW x \in PlainHunk, u \notin Bad PROVE Append(u, x) \notin Bad
  <2>1. PICK n : TallyIs(u, v, n)
    BY <1>2
  <2>2. TallyIs(Append(u, x), v, n + Occ(x.lines, v))
    BY <2>1, TallyAppend
  <2>3. QED
    BY <2>2
<1>3. Bad = {}
  <2> SUFFICES ASSUME Bad # {} PROVE FALSE
    OBVIOUS
  <2>1. Bad \in SUBSET Seq(PlainHunk)
    OBVIOUS
  <2> HIDE DEF Bad
  <2>2. QED
    BY <1>1, <1>2, <2>1, ShortestOf
<1>4. PICK n : TallyIs(hh, v, n)
  BY <1>3
<1>5. QED
  BY <1>4 DEF TallyIs

LEMMA TallyOneMore ==
  ASSUME NEW hh \in Seq(PlainHunk), NEW h \in PlainHunk, NEW v
  PROVE  /\ Tally(Append(hh, h), v) = Tally(hh, v) + Occ(h.lines, v)
         /\ Occ(h.lines, v) \in Nat
BY TallyType, TallyAppend DEF TallyIs

LEMMA TallyConcat ==
  ASSUME NEW s \in Seq(PlainHunk), NEW r \in Seq(PlainHunk), NEW v
  PROVE  Tally(s \o r, v) = Tally(s, v) + Tally(r, v)
<1> DEFINE Bad == {u \in Seq(PlainHunk) : Tally(s \o u, v) # Tally(s, v) + Tally(u, v)}
<1>1. <<>> \notin Bad
  <2>1. s \o <<>> = s /\ Tally(s, v) \in Nat /\ Tally(<<>>, v) = 0
    BY ConcatEmptySeq, TallyType, TallyNothing DEF TallyIs
  <2>2. QED
    BY <2>1
<1>2. ASSUME NEW u \in Seq(PlainHunk), NEW x \in PlainHunk, u \notin Bad PROVE Append(u, x) \notin Bad
  <2> DEFINE one == <<x>>
             su == s \o u
             add == Occ(x.lines, v)
  <2>1. one \in Seq(PlainHunk) /\ su \in Seq(PlainHunk) /\ Append(u, x) = u \o one
    BY ConcatProperties, AppendIsConcat
  <2>2. su \o one = s \o (u \o one)
    <3> HIDE DEF one
    <3>1. QED
      BY <2>1, ConcatAssociative
  <2>3. Append(su, x) = su \o one
    <3>1. su \in Seq(PlainHunk)
      BY <2>1
    <3> HIDE DEF su
    <3>2. QED
      BY <3>1, AppendIsConcat
  <2>4. s \o Append(u, x) = Append(su, x)
    <3> HIDE DEF one, su
    <3>1. QED
      BY <2>1, <2>2, <2>3
  <2>5. Tally(Append(su, x), v) = Tally(su, v) + add
    <3>1. su \in Seq(PlainHunk)
      BY <2>1
    <3> HIDE DEF su
    <3>2. QED
      BY <3>1, TallyOneMore
  <2>6. Tally(Append(u, x), v) = Tally(u, v) + add
    BY TallyOneMore
  <2>7. /\ Tally(s, v) \in Nat /\ Tally(u, v) \in Nat /\ add \in Nat
        /\ Tally(su, v) = Tally(s, v) + Tally(u, v)
    BY <1>2, TallyType, TallyOneMore
  <2> HIDE DEF su, add
  <2>8. Tally(s \o Append(u, x), v) = Tally(s, v) + Tally(Append(u, x), v)
    BY <2>4, <2>5, <2>6, <2>7
  <2>9. QED
    BY <2>8
<1>3. Bad = {}
  <2> SUFFICES ASSUME Bad # {} PROVE FALSE
    OBVIOUS
  <2>1. Bad \in SUBSET Seq(PlainHunk)
    OBVIOUS
  <2> HIDE DEF Bad
  <2>2. QED
    BY <1>1, <1>2, <2>1, ShortestOf
<1>4. QED
  BY <1>3

(* The hunk that is applied is one less.                                    *)
LEMMA TallyTail ==
  ASSUME NEW hh \in Seq(PlainHunk), hh # <<>>, NEW v
  PROVE  /\ Tally(hh, v) = Occ(Head(hh).lines, v) + Tally(Tail(hh), v)
         /\ Occ(Head(hh).lines, v) \in Nat
<1> DEFINE h == Head(hh)
           t == Tail(hh)
           none == <<>>
           one == Append(none, h)
<1>1. h \in PlainHunk /\ t \in Seq(PlainHunk) /\ none \in Seq(PlainHunk)
  BY HeadTailProperties, EmptySeq
<1>2. one \in Seq(PlainHunk) /\ hh = one \o t
  <2>1. one = <<h>>
    OBVIOUS
  <2>2. hh = <<h>> \o t
    OBVIOUS
  <2>3. one \in Seq(PlainHunk)
    <3> HIDE DEF h, none
    <3>1. QED
      BY <1>1, AppendProperties
  <2>4. QED
    BY <2>1, <2>2, <2>3
<1>3. Tally(none, v) = 0
  BY TallyNothing DEF TallyIs
<1> HIDE DEF none, h, t
<1>4. Tally(one, v) = Tally(none, v) + Occ(h.lines, v) /\ Occ(h.lines, v) \in Nat
  BY <1>1, TallyOneMore
<1> HIDE DEF one
<1>5. Tally(one \o t, v) = Tally(one, v) + Tally(t, v)
  BY <1>1, <1>2, TallyConcat
<1>6. Tally(one, v) = Occ(h.lines, v)
  BY <1>3, <1>4
<1>7. Tally(hh, v) = Occ(h.lines, v) + Tally(t, v)
  BY <1>2, <1>5, <1>6
<1>8. QED
  BY <1>4, <1>7 DEF h, t

(* Sorting loses no hunk and counts none twice.                             *)
LEMMA TallySorted ==
  ASSUME NEW hh \in Seq(PlainHunk), NEW n, n = Len(hh), NEW order \in [1..n -> 1..n],
         \A i, j \in 1..n : order[i] = order[j] => i = j, NEW v
  PROVE  /\ Tally([i \in 1..n |-> hh[order[i]]], v) =< Tally(hh, v)
         /\ \A i \in 1..n : \E j \in 1..n : order[j] = i
<1> DEFINE ss == [i \in 1..n |-> hh[order[i]]]
           A == HunkLines(ss, v)
           B == HunkLines(hh, v)
           f == [x \in A |-> <<order[x[1]], x[2]>>]
<1>1. n \in Nat /\ IsFiniteSet(B)
  BY LenProperties, TallyType
<1>2. Len(ss) = n
  <2>1. \A i \in 1..n : hh[order[i]] \in PlainHunk
    BY ElementOfSeq
  <2>2. ss \in [1..n -> PlainHunk]
    BY <2>1
  <2> HIDE DEF ss
  <2>3. QED
    BY <1>1, <2>2, FunctionIsSeq
<1>3. A = {x \in (1..n) \X Nat : x[2] \in PlacesOf(ss[x[1]].lines, v)}
  BY <1>2 DEF HunkLines
<1>4. B = {x \in (1..n) \X Nat : x[2] \in PlacesOf(hh[x[1]].lines, v)}
  BY DEF HunkLines
<1> HIDE DEF A, B
<1>5. \A x \in A : x[1] \in 1..n /\ x[2] \in Nat /\ x = <<x[1], x[2]>>
                   /\ x[2] \in PlacesOf(hh[order[x[1]]].lines, v)
  BY <1>3
<1>6. \A x \in A : <<order[x[1]], x[2]>> \in B
  BY <1>4, <1>5
<1>7. f \in [A -> B]
  BY <1>6
<1>8. ASSUME NEW x \in A, NEW y \in A, f[x] = f[y] PROVE x = y
  <2>1. order[x[1]] = order[y[1]] /\ x[2] = y[2]
    BY <1>8
  <2>2. QED
    BY <1>5, <2>1
<1> HIDE DEF f
<1>9. f \in Injection(A, B)
  BY <1>7, <1>8 DEF Injection, IsInjective
<1>10. Cardinality(A) <= Cardinality(B)
  BY <1>1, <1>9, FS_Injection
<1>11. \A i \in 1..n : \E j \in 1..n : order[j] = i
  <2> DEFINE I == 1..n
  <2>1. IsFiniteSet(I)
    BY <1>1, FS_Interval
  <2>2. order \in [I -> I] /\ \A i, j \in I : order[i] = order[j] => i = j
    OBVIOUS
  <2> HIDE DEF I
  <2>3. order \in Injection(I, I)
    BY <2>2 DEF Injection, IsInjective
  <2>4. order \in Surjection(I, I)
    BY <2>1, <2>3, FS_Injection
  <2>5. QED
    BY <2>4 DEF Surjection, I
<1>12. QED
  BY <1>10, <1>11 DEF A, B, Tally

-----------------------------------------------------------------------------
(********************** every line is accounted for ***********************)
(* A hunk that has swallowed the next section's headers: it removes them.   *)
SaysOld(hh) == \E i \in 1..Len(hh) : Has(hh[i].lines, "old")
HeadersInPairs ==
  /\ \A i \in 1..Len(hunks) : Has(hunks[i].lines, "new") => Has(hunks[i].lines, "old")
  /\ mode = "hunk" =>
       pos > 1 /\ (diff[pos - 1].kind = "old" => Has(hunks[Len(hunks)].lines, "old"))

(* The files of the sections from line q on are as they were.               *)
Untouched(sec, q) ==
  \A r \in Olds(diff) : r >= q => files[plan[sec[r]].path] = before[plan[sec[r]].path]

(* The hunks say no more than was read of the section that begins at o.     *)
Collected(o) ==
  \A t \in Texts : /\ Tally(hunks, Del(t)) =< OccIn(diff, o, pos - 1, Del(t))
                   /\ Tally(hunks, Add(t)) =< OccIn(diff, o, pos - 1, Add(t))

(* Nor does the copy with what the hunks will still make of it.             *)
Patching(o) ==
  /\ copy \in Seq(Texts) /\ files[newPath] \in Seq(Texts)
  /\ \A t \in Texts :
       /\ Occ(copy, t) + Tally(hunks, Add(t))
            =< Occ(files[newPath], t) + OccIn(diff, o, pos - 1, Add(t))
       /\ Occ(files[newPath], t) + Tally(hunks, Del(t))
            =< Occ(copy, t) + OccIn(diff, o, pos - 1, Del(t))

InHand(sec, o) ==
  /\ o \in Olds(diff) /\ o < pos /\ Untouched(sec, o)
  /\ oldPath = OldOf(plan[sec[o]])
  /\ mode = "new" => pos = o + 1
  /\ mode = "skip" => pos = o + 2
  /\ mode # "new" => newPath = NewOf(plan[sec[o]])
  /\ mode = "delete" => newPath = DevNull
  /\ mode = "create" => oldPath = DevNull
  /\ mode \in {"hunks", "hunk", "read", "patch"} =>
       InSection(diff, o, pos - 1) \/ SaysOld(hunks)
  /\ mode \in {"hunks", "hunk", "read"} => Collected(o)
  /\ mode = "patch" => Patching(o)

Where(sec) == /\ mode = "header" => Untouched(sec, pos)
              /\ mode \notin {"header", "done"} => \E o \in Olds(diff) : InHand(sec, o)

(* What a section may do to its file.                                       *)
Accounted(content, k) ==
  plan[k].does = "modify" =>
    \A text \in Texts \ {Blank} :
      Count(content, text) - Count(before[plan[k].path], text)
        \in -Count(CutLines(base, plan[k]), text)..Count(AddedLines(plan[k]), text)

Account == \A i \in DOMAIN plan : Accounted(files[plan[i].path], i)

(* The file of the hunk that does not fit.                                  *)
FileLeftAlone == result = "error" /\ hunks # <<>> => files[newPath] = before[newPath]

LinesInv == /\ HeadersInPairs
            /\ \E sec : Laid(diff, base, plan, sec) /\ Where(sec)
            /\ Account /\ FileLeftAlone

LEMMA OccInNext ==
  ASSUME NEW d, NEW o \in Nat, NEW p \in Nat, o < p
  PROVE  /\ \A v : /\ OccIn(d, o, p, v) = OccIn(d, o, p - 1, v) + (IF d[p] = v THEN 1 ELSE 0)
                   /\ OccIn(d, o, p - 1, v) \in Nat
         /\ InSection(d, o, p - 1) /\ d[p].kind # "old" => InSection(d, o, p)
<1> DEFINE e == p - 1
<1>1. e \in Nat /\ p \notin (o + 1)..e /\ \A q : q \in (o + 1)..p <=> q \in (o + 1)..e \/ q = p
  <2>1. \A q : q \in (o + 1)..p <=> q \in Int /\ o + 1 =< q /\ q =< p
    OBVIOUS
  <2>2. QED
    OBVIOUS
<1> HIDE DEF e
<1>2. ASSUME NEW v
      PROVE  /\ OccIn(d, o, p, v) = OccIn(d, o, e, v) + (IF d[p] = v THEN 1 ELSE 0)
             /\ OccIn(d, o, e, v) \in Nat
  <2> DEFINE W == Within(d, o, e, v)
  <2>1. IsFiniteSet(W) /\ Cardinality(W) \in Nat /\ p \notin W
    <3>1. IsFiniteSet(W) /\ Cardinality(W) \in Nat
      BY <1>1, WithinFinite DEF OccIn
    <3>2. p \notin W
      BY <1>1 DEF Within
    <3>3. QED
      BY <3>1, <3>2
  <2>2. Within(d, o, p, v) = IF d[p] = v THEN W \cup {p} ELSE W
    BY <1>1 DEF Within
  <2> HIDE DEF W
  <2>3. CASE d[p] = v
    <3>1. Cardinality(W \cup {p}) = Cardinality(W) + 1
      BY <2>1, FS_AddElement
    <3>2. QED
      BY <2>1, <2>2, <2>3, <3>1 DEF OccIn, W
  <2>4. CASE d[p] # v
    BY <2>1, <2>2, <2>4 DEF OccIn, W
  <2>5. QED
    BY <2>3, <2>4
<1>3. ASSUME InSection(d, o, e), d[p].kind # "old" PROVE InSection(d, o, p)
  BY <1>1, <1>3 DEF InSection
<1>4. QED
  BY <1>2, <1>3 DEF e

(* Where apply_patch is, when it is in a section.                           *)
LEMMA HandIs ==
  ASSUME PatchInv, NEW sec, Laid(diff, base, plan, sec), NEW o \in Olds(diff)
  PROVE  LET s == plan[sec[o]] IN
         /\ o \in 1..Len(diff) /\ o \in Nat /\ Len(diff) \in Nat /\ pos \in Nat
         /\ sec[o] \in DOMAIN plan /\ SectionFits(base, s) /\ s.path \in Names
         /\ s.does \in {"create", "delete", "modify"}
         /\ Heads(diff, o, s) /\ Bounded(diff, o, base, s)
         /\ DevNull \notin Names
<1>1. diff \in Seq(PlainLine) /\ pos \in 1..(Len(diff) + 1)
  BY DEF PatchInv, PlainTypes
<1>2. Len(diff) \in Nat
  BY <1>1, LenProperties
<1>3. o \in 1..Len(diff) /\ o \in Nat /\ pos \in Nat
  BY <1>1, <1>2 DEF Olds
<1>4. /\ sec[o] \in DOMAIN plan
      /\ Heads(diff, o, plan[sec[o]]) /\ Bounded(diff, o, base, plan[sec[o]])
  BY DEF Laid
<1>5. SectionFits(base, plan[sec[o]])
  <2>1. PlanFits(base, plan)
    BY DEF PatchInv
  <2>2. QED
    BY <1>4, <2>1, SectionsFit
<1>6. /\ plan[sec[o]].path \in Names
      /\ plan[sec[o]].does \in {"create", "delete", "modify"}
  BY <1>5 DEF SectionFits, PlainSection
<1>7. QED
  BY <1>2, <1>3, <1>4, <1>5, <1>6, DiffAssumption

-----------------------------------------------------------------------------
(************************ reading on, line by line **************************)
LEMMA AccountStays ==
  ASSUME Account, UNCHANGED files, UNCHANGED argument
  PROVE  Account'
BY DEF Account, Accounted, argument

Takes(hh, more, l, v) == /\ Tally(more, v) \in Nat
                         /\ Tally(more, v) =< Tally(hh, v) + (IF l = v THEN 1 ELSE 0)

LEMMA ReadOn ==
  ASSUME PatchInv, NEW sec, NEW o \in Olds(diff), InHand(sec, o),
         mode \in {"hunks", "hunk"}, mode' \in {"hunks", "hunk"},
         pos \in 1..Len(diff), pos' = pos + 1,
         UNCHANGED <<files, oldPath, newPath>>, UNCHANGED argument,
         diff[pos].kind = "old" \/ SaysOld(hunks) => SaysOld(hunks'),
         \A v : Takes(hunks, hunks', diff[pos], v)
  PROVE  InHand(sec, o)'
<1>1. diff \in Seq(PlainLine) /\ hunks \in Seq(PlainHunk)
  BY DEF PatchInv, PlainTypes
<1>2. Len(diff) \in Nat
  BY <1>1, LenProperties
<1>3. o \in Nat /\ pos \in Nat /\ o < pos /\ (pos + 1) - 1 = pos
  BY <1>2 DEF InHand, Olds
<1>4. InSection(diff, o, pos) \/ SaysOld(hunks')
  BY <1>3, OccInNext DEF InHand
<1>5. ASSUME NEW t \in Texts
      PROVE  /\ Tally(hunks', Del(t)) =< OccIn(diff, o, pos, Del(t))
             /\ Tally(hunks', Add(t)) =< OccIn(diff, o, pos, Add(t))
  <2> DEFINE del == Del(t)
             add == Add(t)
  <2>1. /\ Tally(hunks, del) =< OccIn(diff, o, pos - 1, del)
        /\ Tally(hunks, add) =< OccIn(diff, o, pos - 1, add)
    BY DEF InHand, Collected
  <2>2. /\ Tally(hunks', del) \in Nat /\ Tally(hunks', add) \in Nat
        /\ Tally(hunks', del) =< Tally(hunks, del) + (IF diff[pos] = del THEN 1 ELSE 0)
        /\ Tally(hunks', add) =< Tally(hunks, add) + (IF diff[pos] = add THEN 1 ELSE 0)
    BY DEF Takes
  <2> HIDE DEF del, add
  <2>3. /\ Tally(hunks, del) \in Nat /\ Tally(hunks, add) \in Nat
        /\ OccIn(diff, o, pos - 1, del) \in Nat /\ OccIn(diff, o, pos - 1, add) \in Nat
        /\ OccIn(diff, o, pos, del) = OccIn(diff, o, pos - 1, del) + (IF diff[pos] = del THEN 1 ELSE 0)
        /\ OccIn(diff, o, pos, add) = OccIn(diff, o, pos - 1, add) + (IF diff[pos] = add THEN 1 ELSE 0)
    <3>1. Tally(hunks, del) \in Nat /\ Tally(hunks, add) \in Nat
      BY <1>1, TallyType
    <3>2. \A v : /\ OccIn(diff, o, pos, v) = OccIn(diff, o, pos - 1, v) + (IF diff[pos] = v THEN 1 ELSE 0)
                 /\ OccIn(diff, o, pos - 1, v) \in Nat
      BY <1>3, OccInNext
    <3>3. QED
      BY <3>1, <3>2
  <2>4. Tally(hunks', del) =< OccIn(diff, o, pos, del)
    BY <2>1, <2>2, <2>3
  <2>5. Tally(hunks', add) =< OccIn(diff, o, pos, add)
    BY <2>1, <2>2, <2>3
  <2>6. QED
    BY <2>4, <2>5 DEF del, add
<1>6. diff' = diff /\ plan' = plan /\ before' = before /\ pos' - 1 = pos /\ o < pos'
  BY <1>3 DEF argument
<1>7. Untouched(sec, o)'
  BY <1>6 DEF InHand, Untouched
<1>8. Collected(o)'
  BY <1>5, <1>6 DEF Collected
<1>9. InSection(diff, o, pos - 1)' \/ SaysOld(hunks)'
  BY <1>4, <1>6
<1>10. QED
  BY <1>6, <1>7, <1>8, <1>9 DEF InHand

(* What an action has to show.                                              *)
Carries(sec) == HeadersInPairs /\ Where(sec)

LEMMA HunksNow ==
  ASSUME PatchInv
  PROVE  /\ hunks \in Seq(PlainHunk) /\ diff \in Seq(PlainLine) /\ Len(diff) \in Nat /\ Len(hunks) \in Nat
         /\ pos \in 1..(Len(diff) + 1)
         /\ \A i \in 1..Len(hunks) : hunks[i] \in PlainHunk /\ hunks[i].lines \in Seq(PlainLine)
         /\ mode \in {"header", "new", "skip", "delete"} => hunks = <<>>
<1>1. hunks \in Seq(PlainHunk) /\ diff \in Seq(PlainLine) /\ pos \in 1..(Len(diff) + 1)
  BY DEF PatchInv, PlainTypes
<1>2. Len(diff) \in Nat /\ Len(hunks) \in Nat
  BY <1>1, LenProperties
<1>3. ASSUME NEW i \in 1..Len(hunks)
      PROVE  hunks[i] \in PlainHunk /\ hunks[i].lines \in Seq(PlainLine)
  <2>1. hunks[i] \in PlainHunk
    BY <1>1, ElementOfSeq
  <2>2. QED
    BY <2>1 DEF PlainHunk
<1>4. mode \in {"header", "new", "skip", "delete"} => hunks = <<>>
  BY DEF PatchInv, PlainTypes
<1>5. QED
  BY <1>1, <1>2, <1>3, <1>4

LEMMA FindHeaderCarries ==
  ASSUME PatchInv, NEW sec, Laid(diff, base, plan, sec), Carries(sec),
         FindHeader, UNCHANGED argument
  PROVE  Carries(sec)'
<1>1. diff \in Seq(PlainLine) /\ pos \in 1..(Len(diff) + 1) /\ hunks = <<>> /\ Len(diff) \in Nat
  BY HunksNow DEF FindHeader, Goto
<1>2. PICK o \in pos..Len(diff) : o = NextHeader /\ diff[o].kind = "old"
  BY <1>1, NextHeaderIs DEF FindHeader
<1>3. /\ mode = "header" /\ mode' = "new" /\ oldPath' = diff[o].path /\ pos' = o + 1
      /\ UNCHANGED <<files, newPath, hunks>>
  BY <1>2 DEF FindHeader, Goto
<1>4. o \in Nat /\ o \in Olds(diff) /\ o >= pos /\ o < o + 1
  BY <1>1, <1>2 DEF Olds
<1>5. Untouched(sec, pos)
  BY <1>3 DEF Carries, Where
<1>6. diff' = diff /\ plan' = plan /\ before' = before
  BY DEF argument
<1>7. Untouched(sec, o)'
  <2>1. \A r \in Olds(diff) : r \in Nat
    BY <1>1 DEF Olds
  <2>2. \A r \in Olds(diff) : r >= o => r >= pos
    BY <1>1, <1>4, <2>1
  <2>3. QED
    BY <1>3, <1>5, <1>6, <2>2 DEF Untouched
<1>8. oldPath' = OldOf(plan[sec[o]])
  BY <1>3, <1>4, HandIs DEF Heads
<1>9. InHand(sec, o)'
  BY <1>3, <1>4, <1>6, <1>7, <1>8 DEF InHand
<1>10. Where(sec)'
  BY <1>3, <1>4, <1>6, <1>9 DEF Where
<1>11. HeadersInPairs'
  BY <1>1, <1>3 DEF HeadersInPairs
<1>12. QED
  BY <1>10, <1>11 DEF Carries

(* The section in hand, in the modes that have one.                         *)
LEMMA HandOf ==
  ASSUME NEW sec, Carries(sec), mode \notin {"header", "done"}
  PROVE  \E o \in Olds(diff) : InHand(sec, o)
BY DEF Carries, Where

LEMMA ReadNewPathCarries ==
  ASSUME PatchInv, NEW sec, Laid(diff, base, plan, sec), Carries(sec),
         ReadNewPath, UNCHANGED argument
  PROVE  Carries(sec)'
<1>1. /\ mode = "new" /\ mode' = "skip" /\ newPath' = diff[pos].path /\ pos' = pos + 1
      /\ UNCHANGED <<files, oldPath, hunks>>
  BY DEF ReadNewPath, Goto
<1>2. PICK o \in Olds(diff) : InHand(sec, o)
  BY <1>1, HandOf
<1>3. /\ o \in Nat /\ pos \in Nat /\ Len(diff) \in Nat /\ Heads(diff, o, plan[sec[o]])
  BY HandIs
<1>4. pos = o + 1 /\ pos =< Len(diff)
  <2>1. ~AtEnd
    BY DEF ReadNewPath, Kind
  <2>2. QED
    BY <1>1, <1>2, <1>3, <2>1 DEF InHand, AtEnd
<1>5. newPath' = NewOf(plan[sec[o]])
  BY <1>1, <1>3, <1>4 DEF Heads
<1>6. diff' = diff /\ plan' = plan /\ before' = before /\ pos' = o + 2 /\ o < pos'
  BY <1>1, <1>3, <1>4 DEF argument
<1>7. Untouched(sec, o)'
  BY <1>1, <1>2, <1>6 DEF InHand, Untouched
<1>8. InHand(sec, o)'
  BY <1>1, <1>2, <1>5, <1>6, <1>7 DEF InHand
<1>9. Where(sec)'
  BY <1>1, <1>6, <1>8 DEF Where
<1>10. hunks = <<>>
  BY <1>1, HunksNow
<1>11. HeadersInPairs'
  BY <1>1, <1>10 DEF HeadersInPairs
<1>12. QED
  BY <1>9, <1>11 DEF Carries

(* The first hunk follows the headers.                                      *)
LEMMA NothingSkipped ==
  ASSUME PatchInv, NEW sec, Laid(diff, base, plan, sec), SkipToHunk,
         NEW o \in Olds(diff), InHand(sec, o)
  PROVE  pos = o + 2 /\ pos' = pos
<1> DEFINE I == {i \in pos..Len(diff) : diff[i].kind = "at"}
           next == IF I # {} THEN Min(I) ELSE 0
<1>1. mode = "skip"
  BY DEF SkipToHunk, Goto
<1>2. pos' = IF next = 0 THEN Len(diff) + 1 ELSE next
  BY DEF SkipToHunk, SelectInSubSeq
<1>3. /\ o \in Nat /\ pos \in Nat /\ Len(diff) \in Nat /\ Heads(diff, o, plan[sec[o]])
      /\ o \in 1..Len(diff)
  BY HandIs
<1>4. pos = o + 2 /\ pos =< Len(diff) + 1
  BY <1>1, HunksNow DEF InHand
<1>5. CASE pos =< Len(diff)
  <2>1. diff[pos].kind = "at" /\ pos \in pos..Len(diff)
    BY <1>3, <1>4, <1>5 DEF Heads
  <2>2. I # {} /\ I \in SUBSET Nat /\ pos \in I /\ \A i \in I : pos =< i
    BY <1>3, <2>1
  <2>3. Min(I) \in I /\ \A i \in I : Min(I) =< i
    <3> HIDE DEF I
    <3>1. QED
      BY <2>2, MinOf
  <2>4. Min(I) = pos
    <3> HIDE DEF I
    <3>1. Min(I) =< pos /\ pos =< Min(I) /\ Min(I) \in Nat
      BY <2>2, <2>3
    <3>2. QED
      BY <1>3, <3>1
  <2>5. pos # 0
    BY <1>3, <1>4
  <2> HIDE DEF I
  <2>6. QED
    BY <1>2, <1>4, <2>2, <2>4, <2>5
<1>6. CASE pos > Len(diff)
  <2>1. I = {}
    BY <1>3, <1>6
  <2> HIDE DEF I
  <2>2. pos' = Len(diff) + 1
    BY <1>2, <2>1
  <2>3. QED
    BY <1>3, <1>4, <1>6, <2>2
<1>7. QED
  BY <1>3, <1>5, <1>6

LEMMA SkipToHunkCarries ==
  ASSUME PatchInv, NEW sec, Laid(diff, base, plan, sec), Carries(sec),
         SkipToHunk, UNCHANGED argument
  PROVE  Carries(sec)'
<1>1. /\ mode = "skip" /\ mode' = (IF newPath = DevNull THEN "delete" ELSE "hunks")
      /\ UNCHANGED <<files, oldPath, newPath, hunks>>
  BY DEF SkipToHunk, Goto
<1>2. PICK o \in Olds(diff) : InHand(sec, o)
  BY <1>1, HandOf
<1>3. /\ o \in Nat /\ pos \in Nat /\ Len(diff) \in Nat /\ Heads(diff, o, plan[sec[o]])
      /\ o \in 1..Len(diff)
  BY HandIs
<1>4. pos = o + 2 /\ pos =< Len(diff) + 1
  BY <1>1, <1>2, HunksNow DEF InHand
<1>5. pos' = pos
  BY <1>2, NothingSkipped
<1>6. diff' = diff /\ plan' = plan /\ before' = before /\ pos' = pos /\ o < pos
  BY <1>3, <1>4, <1>5 DEF argument
<1>7. Untouched(sec, o)'
  BY <1>1, <1>2, <1>6 DEF InHand, Untouched
<1>8. InSection(diff, o, pos - 1)
  <2>1. pos - 1 = o + 1 /\ o + 1 =< Len(diff)
    BY <1>3, <1>4
  <2>2. diff[o + 1].kind = "new"
    BY <1>3, <2>1 DEF Heads
  <2>3. \A q \in (o + 1)..(o + 1) : q = o + 1
    BY <1>3
  <2>4. QED
    BY <2>1, <2>2, <2>3 DEF InSection
<1>9. hunks = <<>>
  BY <1>1, HunksNow
<1>10. \A v : Tally(hunks, v) = 0 /\ OccIn(diff, o, pos - 1, v) \in Nat
  <2>1. pos - 1 \in Nat
    BY <1>3, <1>4
  <2>2. QED
    BY <1>3, <1>9, <2>1, TallyNothing, WithinFinite DEF TallyIs
<1>11. \A v : Tally(hunks, v) =< OccIn(diff, o, pos - 1, v)
  BY <1>10
<1>12. Collected(o)'
  BY <1>1, <1>6, <1>11 DEF Collected
<1>13. InSection(diff, o, pos - 1)'
  BY <1>6, <1>8
<1>14. InHand(sec, o)'
  BY <1>1, <1>2, <1>6, <1>7, <1>12, <1>13 DEF InHand
<1>15. Where(sec)'
  BY <1>1, <1>6, <1>14 DEF Where
<1>16. HeadersInPairs'
  BY <1>1, <1>9 DEF HeadersInPairs
<1>17. QED
  BY <1>15, <1>16 DEF Carries

LEMMA LastReplaced ==
  ASSUME NEW S, NEW s \in Seq(S), NEW x \in S, NEW y \in S
  PROVE  [Append(s, x) EXCEPT ![Len(s) + 1] = y] = Append(s, y)
<1> DEFINE n == Len(s) + 1
           a == Append(s, x)
           b == Append(s, y)
<1>1. /\ a \in Seq(S) /\ b \in Seq(S) /\ Len(a) = n /\ Len(b) = n
      /\ \A i \in 1..Len(s) : a[i] = s[i] /\ b[i] = s[i]
      /\ b[n] = y /\ Len(s) \in Nat
  BY AppendProperties, LenProperties
<1> HIDE DEF a, b
<1>2. a \in [1..n -> S] /\ b \in [1..n -> S]
  BY <1>1, LenProperties
<1>3. \A i \in 1..n : i \in 1..Len(s) \/ i = n
  BY <1>1
<1> HIDE DEF n
<1>4. [a EXCEPT ![n] = y] = b
  BY <1>1, <1>2, <1>3
<1>5. QED
  BY <1>4 DEF a, b, n

(* A line more in the last hunk.                                            *)
LEMMA TallyLine ==
  ASSUME NEW hh \in Seq(PlainHunk), hh # <<>>, NEW l \in PlainLine, NEW more, NEW v,
         more = [hh EXCEPT ![Len(hh)].lines = Append(@, l)]
  PROVE  Takes(hh, more, l, v)
<1>1. PICK s \in Seq(PlainHunk), x \in PlainHunk : hh = Append(s, x)
  BY SequenceEmptyOrAppend
<1> DEFINE y == [x EXCEPT !.lines = Append(@, l)]
<1>2. x.lines \in Seq(PlainLine) /\ y \in PlainHunk /\ y.lines = Append(x.lines, l)
  <2>1. x \in [start : Nat \ {0}, lines : Seq(PlainLine)]
    BY DEF PlainHunk
  <2>2. x.lines \in Seq(PlainLine)
    BY <2>1
  <2>3. Append(x.lines, l) \in Seq(PlainLine)
    BY <2>2, AppendProperties
  <2>4. y \in [start : Nat \ {0}, lines : Seq(PlainLine)] /\ y.lines = Append(x.lines, l)
    BY <2>1, <2>3
  <2>5. QED
    BY <2>2, <2>4 DEF PlainHunk
<1>3. Len(hh) = Len(s) + 1 /\ hh[Len(hh)] = x
  BY <1>1, AppendProperties
<1>4. more = [hh EXCEPT ![Len(hh)] = y]
  BY <1>3
<1> HIDE DEF y
<1>5. more = Append(s, y)
  BY <1>1, <1>2, <1>3, <1>4, LastReplaced
<1>6. /\ Tally(more, v) = Tally(s, v) + Occ(y.lines, v)
      /\ Tally(hh, v) = Tally(s, v) + Occ(x.lines, v)
      /\ Occ(x.lines, v) \in Nat
  <2>1. Tally(Append(s, y), v) = Tally(s, v) + Occ(y.lines, v)
    BY <1>2, TallyOneMore
  <2>2. /\ Tally(Append(s, x), v) = Tally(s, v) + Occ(x.lines, v)
        /\ Occ(x.lines, v) \in Nat
    BY TallyOneMore
  <2>3. QED
    BY <1>1, <1>5, <2>1, <2>2
<1>7. Occ(y.lines, v) = Occ(x.lines, v) + (IF l = v THEN 1 ELSE 0)
  BY <1>2, OccAppend
<1>8. Tally(s, v) \in Nat
  BY TallyType
<1>9. QED
  BY <1>6, <1>7, <1>8 DEF Takes

LEMMA TakesNothing ==
  ASSUME NEW hh \in Seq(PlainHunk), NEW l, NEW v
  PROVE  Takes(hh, hh, l, v)
<1>1. Tally(hh, v) \in Nat
  BY TallyType
<1>2. QED
  BY <1>1 DEF Takes

LEMMA BeginHunkCarries ==
  ASSUME PatchInv, NEW sec, Laid(diff, base, plan, sec), Carries(sec),
         BeginHunk, UNCHANGED argument
  PROVE  Carries(sec)'
<1> DEFINE h == [start |-> ParsedStart(diff[pos]), lines |-> <<>>]
           n == Len(hunks)
<1>1. /\ mode = "hunks" /\ mode' = "hunk" /\ pos' = pos + 1 /\ hunks' = Append(hunks, h)
      /\ UNCHANGED <<files, oldPath, newPath>>
  BY DEF BeginHunk, Goto
<1>2. ~AtEnd /\ Kind = "at"
  BY DEF BeginHunk, Kind
<1>3. /\ pos \in 1..Len(diff) /\ diff[pos] \in PlainLine /\ diff[pos].kind = "at"
  BY <1>2, ReadLine DEF PatchInv
<1>4. h \in PlainHunk /\ h.lines = <<>> /\ DOMAIN h.lines = {}
  <2>1. <<>> \in Seq(PlainLine)
    OBVIOUS
  <2>2. ParsedStart(diff[pos]) \in Nat \ {0}
    BY <1>3, LineIs
  <2>3. QED
    BY <2>1, <2>2 DEF PlainHunk
<1> HIDE DEF h
<1>5. /\ hunks \in Seq(PlainHunk) /\ n \in Nat /\ Len(hunks') = n + 1 /\ hunks'[n + 1] = h
      /\ \A i \in 1..n : hunks'[i] = hunks[i]
  BY <1>1, <1>4, HunksNow, AppendProperties
<1>6. \A v : Takes(hunks, hunks', diff[pos], v)
  <2> TAKE v
  <2>1. Tally(hunks', v) = Tally(hunks, v) + Occ(h.lines, v) /\ Tally(hunks, v) \in Nat
    BY <1>1, <1>4, <1>5, TallyOneMore, TallyType
  <2>2. Occ(h.lines, v) = 0
    BY <1>4, OccEmpty
  <2>3. QED
    BY <2>1, <2>2 DEF Takes
<1>7. SaysOld(hunks) => SaysOld(hunks')
  <2>1. \A i \in 1..n : i \in 1..(n + 1)
    BY <1>5
  <2>2. QED
    BY <1>5, <2>1 DEF SaysOld
<1>8. PICK o \in Olds(diff) : InHand(sec, o)
  BY <1>1, HandOf
<1>9. InHand(sec, o)'
  BY <1>1, <1>3, <1>6, <1>7, <1>8, ReadOn
<1>10. Where(sec)'
  <2>1. diff' = diff
    BY DEF argument
  <2>2. QED
    BY <1>1, <1>9, <2>1 DEF Where
<1>11. HeadersInPairs'
  <2>1. ASSUME NEW i \in 1..(n + 1), Has(hunks'[i].lines, "new")
        PROVE  Has(hunks'[i].lines, "old")
    <3>1. i \in 1..n \/ i = n + 1
      BY <1>5
    <3>2. i # n + 1
      BY <1>4, <1>5, <2>1 DEF Has
    <3>3. i \in 1..n /\ hunks'[i] = hunks[i]
      BY <1>5, <3>1, <3>2
    <3>4. QED
      BY <2>1, <3>3 DEF Carries, HeadersInPairs
  <2>2. diff' = diff /\ pos' - 1 = pos /\ pos' > 1
    BY <1>1, <1>3 DEF argument
  <2>3. diff[pos].kind # "old"
    BY <1>3
  <2>4. QED
    BY <1>5, <2>1, <2>2, <2>3 DEF HeadersInPairs
<1>12. QED
  BY <1>10, <1>11 DEF Carries

LEMMA HunkLineCarries ==
  ASSUME PatchInv, NEW sec, Laid(diff, base, plan, sec), Carries(sec),
         HunkLine, UNCHANGED argument
  PROVE  Carries(sec)'
<1> DEFINE n == Len(hunks)
           l == diff[pos]
<1>1. /\ mode = "hunk" /\ mode' = "hunk" /\ pos' = pos + 1
      /\ hunks' = [hunks EXCEPT ![n].lines = Append(@, l)]
      /\ UNCHANGED <<files, oldPath, newPath>>
  BY DEF HunkLine
<1>2. /\ n \in Nat \ {0} /\ l \in PlainLine /\ pos \in 1..Len(diff) /\ Len(hunks') = n
      /\ \A i \in 1..n : hunks'[i] = IF i = n
           THEN [hunks[n] EXCEPT !.lines = Append(@, l)] ELSE hunks[i]
  BY HunkLineIs
<1>3. /\ hunks \in Seq(PlainHunk) /\ hunks # <<>> /\ hunks[n] \in PlainHunk
      /\ hunks[n].lines \in Seq(PlainLine) /\ n \in 1..n
  <2>1. hunks \in Seq(PlainHunk) /\ n \in 1..n
    BY <1>2, HunksNow
  <2>2. hunks[n] \in PlainHunk /\ hunks[n].lines \in Seq(PlainLine)
    BY <2>1, HunksNow
  <2>3. hunks # <<>>
    BY <1>1 DEF PatchInv
  <2>4. QED
    BY <2>1, <2>2, <2>3
<1>4. \A v : Takes(hunks, hunks', l, v)
  BY <1>1, <1>2, <1>3, TallyLine
<1> DEFINE was == hunks[n].lines
           now == hunks'[n].lines
<1>5. now = Append(was, l)
  BY <1>2, <1>3 DEF PlainHunk
<1>6. /\ Len(now) = Len(was) + 1 /\ \A k \in 1..Len(was) : now[k] = was[k]
      /\ now[Len(was) + 1] = l
      /\ DOMAIN now = 1..(Len(was) + 1) /\ DOMAIN was = 1..Len(was) /\ Len(was) \in Nat
  <2>1. was \in Seq(PlainLine) /\ l \in PlainLine
    BY <1>2, <1>3
  <2> HIDE DEF was, now, l
  <2>2. /\ Append(was, l) \in Seq(PlainLine)
        /\ Len(Append(was, l)) = Len(was) + 1
        /\ \A k \in 1..Len(was) : Append(was, l)[k] = was[k]
        /\ Append(was, l)[Len(was) + 1] = l
    BY <2>1, AppendProperties
  <2>3. QED
    BY <1>5, <2>1, <2>2, LenProperties
<1> HIDE DEF was, now
<1>7. \A kind : Has(now, kind) <=> Has(was, kind) \/ l.kind = kind
  <2> TAKE kind
  <2>1. /\ \A k : k \in 1..(Len(was) + 1) <=> k \in 1..Len(was) \/ k = Len(was) + 1
    BY <1>6
  <2>2. QED
    BY <1>6, <2>1 DEF Has
<1> HIDE DEF l
<1>8. \A i \in 1..n : i # n => hunks'[i] = hunks[i]
  BY <1>2
<1>9. l.kind = "old" \/ SaysOld(hunks) => SaysOld(hunks')
  <2>1. ASSUME l.kind = "old" PROVE SaysOld(hunks')
    BY <1>2, <1>3, <1>7, <2>1 DEF SaysOld, now
  <2>2. ASSUME SaysOld(hunks) PROVE SaysOld(hunks')
    <3>1. PICK i \in 1..n : Has(hunks[i].lines, "old")
      BY <2>2 DEF SaysOld
    <3>2. CASE i = n
      BY <1>2, <1>3, <1>7, <3>1, <3>2 DEF SaysOld, now, was
    <3>3. CASE i # n
      BY <1>2, <1>8, <3>1, <3>3 DEF SaysOld
    <3>4. QED
      BY <3>2, <3>3
  <2>3. QED
    BY <2>1, <2>2
<1>10. PICK o \in Olds(diff) : InHand(sec, o)
  BY <1>1, HandOf
<1>11. InHand(sec, o)'
  BY <1>1, <1>2, <1>4, <1>9, <1>10, ReadOn DEF l
<1>12. Where(sec)'
  <2>1. diff' = diff
    BY DEF argument
  <2>2. QED
    BY <1>1, <1>11, <2>1 DEF Where
<1>13. HeadersInPairs'
  <2>1. /\ \A i \in 1..n : Has(hunks[i].lines, "new") => Has(hunks[i].lines, "old")
        /\ pos > 1 /\ (diff[pos - 1].kind = "old" => Has(hunks[n].lines, "old"))
    BY <1>1 DEF Carries, HeadersInPairs
  <2>2. l.kind = "new" => diff[pos - 1].kind = "old"
    BY <1>2 DEF Laid, l
  <2>3. Has(now, "new") => Has(now, "old")
    BY <1>3, <1>7, <2>1, <2>2 DEF was
  <2>4. l.kind = "old" => Has(now, "old")
    BY <1>7
  <2>5. ASSUME NEW i \in 1..n, Has(hunks'[i].lines, "new") PROVE Has(hunks'[i].lines, "old")
    BY <1>8, <2>1, <2>3, <2>5 DEF now
  <2>6. diff' = diff /\ pos' - 1 = pos /\ pos' > 1
    BY <1>1, <1>2 DEF argument
  <2>7. QED
    BY <1>2, <2>4, <2>5, <2>6 DEF HeadersInPairs, now, l
<1>14. QED
  BY <1>12, <1>13 DEF Carries

LEMMA SkipLineCarries ==
  ASSUME PatchInv, NEW sec, Laid(diff, base, plan, sec), Carries(sec),
         SkipLine, UNCHANGED argument
  PROVE  Carries(sec)'
<1>1. /\ mode = "hunks" /\ mode' = mode /\ pos' = pos + 1
      /\ UNCHANGED <<files, oldPath, newPath, hunks>>
  BY DEF SkipLine
<1>2. ~AtEnd
  BY DEF SkipLine, Kind
<1>3. pos \in 1..Len(diff) /\ diff[pos].kind # "old"
  BY <1>2, ReadLine DEF PatchInv, SkipLine
<1>4. \A v : Takes(hunks, hunks', diff[pos], v)
  BY <1>1, HunksNow, TakesNothing
<1>5. diff[pos].kind = "old" \/ SaysOld(hunks) => SaysOld(hunks')
  BY <1>1, <1>3
<1>6. PICK o \in Olds(diff) : InHand(sec, o)
  BY <1>1, HandOf
<1>7. InHand(sec, o)'
  BY <1>1, <1>3, <1>4, <1>5, <1>6, ReadOn
<1>8. diff' = diff
  BY DEF argument
<1>9. QED
  BY <1>1, <1>7, <1>8 DEF Where, Carries, HeadersInPairs

LEMMA EndHunkCarries ==
  ASSUME PatchInv, NEW sec, Laid(diff, base, plan, sec), Carries(sec),
         EndHunk, UNCHANGED argument
  PROVE  Carries(sec)'
<1>1. /\ mode = "hunk" /\ mode' = "hunks" /\ Kind \in {"at", "git", "end"}
      /\ pos' = IF Kind = "end" THEN pos ELSE pos + 1
      /\ UNCHANGED <<files, oldPath, newPath, hunks>>
  BY DEF EndHunk, Goto
<1>2. PICK o \in Olds(diff) : InHand(sec, o)
  BY <1>1, HandOf
<1>3. diff' = diff /\ plan' = plan /\ before' = before
  BY DEF argument
<1>4. CASE AtEnd
  <2>1. pos' = pos
    BY <1>1, <1>4 DEF Kind
  <2>2. Untouched(sec, o)' /\ Collected(o)'
    BY <1>1, <1>2, <1>3, <2>1 DEF InHand, Untouched, Collected
  <2>3. InHand(sec, o)'
    BY <1>1, <1>2, <1>3, <2>1, <2>2 DEF InHand
  <2>4. QED
    BY <1>1, <1>3, <2>3 DEF Where, Carries, HeadersInPairs
<1>5. CASE ~AtEnd
  <2>1. pos \in 1..Len(diff) /\ Kind = diff[pos].kind
    BY <1>5, ReadLine DEF PatchInv
  <2>2. Kind # "end"
    <3>1. diff[pos] \in PlainLine
      BY <1>5, ReadLine DEF PatchInv
    <3>2. diff[pos].kind # "end"
      BY <3>1 DEF PlainLine
    <3>3. QED
      BY <2>1, <3>2
  <2>3. pos' = pos + 1 /\ diff[pos].kind # "old"
    BY <1>1, <2>1, <2>2
  <2>4. \A v : Takes(hunks, hunks', diff[pos], v)
    BY <1>1, HunksNow, TakesNothing
  <2>5. diff[pos].kind = "old" \/ SaysOld(hunks) => SaysOld(hunks')
    BY <1>1, <2>3
  <2>6. InHand(sec, o)'
    BY <1>1, <1>2, <2>1, <2>3, <2>4, <2>5, ReadOn
  <2>7. QED
    BY <1>1, <1>3, <2>6 DEF Where, Carries, HeadersInPairs
<1>6. QED
  BY <1>4, <1>5

LEMMA AllCollectedCarries ==
  ASSUME PatchInv, NEW sec, Laid(diff, base, plan, sec), Carries(sec),
         AllCollected, UNCHANGED argument
  PROVE  Carries(sec)'
<1>1. /\ mode = "hunks" /\ mode' = (IF oldPath = DevNull THEN "create" ELSE "read")
      /\ UNCHANGED <<files, pos, oldPath, newPath, hunks>>
  BY DEF AllCollected, Goto
<1>2. PICK o \in Olds(diff) : InHand(sec, o)
  BY <1>1, HandOf
<1>3. diff' = diff /\ plan' = plan /\ before' = before
  BY DEF argument
<1>4. Untouched(sec, o)' /\ Collected(o)'
  BY <1>1, <1>2, <1>3 DEF InHand, Untouched, Collected
<1>5. InHand(sec, o)'
  BY <1>1, <1>2, <1>3, <1>4 DEF InHand
<1>6. QED
  BY <1>1, <1>3, <1>5 DEF Where, Carries, HeadersInPairs

-----------------------------------------------------------------------------
(**************************** the file is read ****************************)
(* The order the hunks are sorted in takes every one of them once.          *)
LEMMA SortedOnce ==
  ASSUME PatchInv, ReadFile
  PROVE  LET n == Len(hunks) IN
         \E order \in [1..n -> 1..n] :
           /\ hunks' = [i \in 1..n |-> hunks[order[i]]]
           /\ \A i, j \in 1..n : order[i] = order[j] => i = j
<1> DEFINE n == Len(hunks)
           above(i, j) == \/ hunks[i].start > hunks[j].start
                          \/ (hunks[i].start = hunks[j].start /\ i < j)
<1>1. n \in Nat /\ DOMAIN hunks = 1..n /\ hunks \in Seq(PlainHunk)
  BY HunksNow, LenProperties
<1>2. PICK order \in [1..n -> 1..n] :
        /\ hunks' = [i \in 1..n |-> hunks[order[i]]]
        /\ \A i, j \in 1..n : i < j => above(order[i], order[j])
  BY <1>1 DEF ReadFile, BottomUp
<1>3. \A i \in 1..n : hunks[i].start \in Nat
  BY <1>1, HunksNow DEF PlainHunk
<1>4. \A i \in 1..n : ~above(i, i)
  BY <1>3
<1> HIDE DEF above
<1>5. ASSUME NEW i \in 1..n, NEW j \in 1..n, order[i] = order[j] PROVE i = j
  <2>1. order[i] \in 1..n
    OBVIOUS
  <2>2. ~(i < j) /\ ~(j < i)
    BY <1>2, <1>4, <1>5, <2>1
  <2>3. i \in Int /\ j \in Int
    OBVIOUS
  <2> HIDE DEF n
  <2>4. QED
    BY <2>2, <2>3
<1>6. QED
  BY <1>2, <1>5

(* The file that is read is the one the section is about.                   *)
LEMMA HandFile ==
  ASSUME PatchInv, NEW sec, Laid(diff, base, plan, sec), NEW o, InHand(sec, o),
         newPath \in Names, mode \notin {"header", "new", "done"}
  PROVE  newPath = plan[sec[o]].path /\ sec[o] \in DOMAIN plan
<1>1. /\ newPath = NewOf(plan[sec[o]]) /\ DevNull \notin Names /\ sec[o] \in DOMAIN plan
  BY HandIs DEF InHand, PatchInv, PlainTypes, Modes
<1>2. QED
  BY <1>1 DEF NewOf

LEMMA ReadFileCarries ==
  ASSUME PatchInv, NEW sec, Laid(diff, base, plan, sec), Carries(sec),
         ReadFile, UNCHANGED argument
  PROVE  Carries(sec)'
<1> DEFINE n == Len(hunks)
<1>1. /\ mode = "read" /\ mode' = "patch" /\ files[newPath] # Absent /\ copy' = files[newPath]
      /\ UNCHANGED <<files, pos, oldPath, newPath>>
  BY DEF ReadFile, Goto
<1>2. PICK order \in [1..n -> 1..n] :
        /\ hunks' = [i \in 1..n |-> hunks[order[i]]]
        /\ \A i, j \in 1..n : order[i] = order[j] => i = j
  BY SortedOnce
<1>3. n \in Nat /\ hunks \in Seq(PlainHunk) /\ \A i \in 1..n : hunks[i] \in PlainHunk
  BY HunksNow
<1>4. hunks' \in Seq(PlainHunk) /\ Len(hunks') = n /\ \A i \in 1..n : hunks'[i] = hunks[order[i]]
  <2>1. hunks' \in [1..n -> PlainHunk]
    BY <1>2, <1>3
  <2> HIDE DEF n
  <2>2. QED
    BY <1>2, <1>3, <2>1, FunctionIsSeq
<1>5. /\ \A v : Tally(hunks', v) =< Tally(hunks, v) /\ Tally(hunks', v) \in Nat
                /\ Tally(hunks, v) \in Nat
      /\ \A i \in 1..n : \E j \in 1..n : order[j] = i
  <2>1. \A v : Tally(hunks', v) =< Tally(hunks, v)
    BY <1>2, <1>3, TallySorted
  <2>2. \A i \in 1..n : \E j \in 1..n : order[j] = i
    BY <1>2, <1>3, TallySorted
  <2>3. \A v : Tally(hunks', v) \in Nat /\ Tally(hunks, v) \in Nat
    BY <1>3, <1>4, TallyType
  <2>4. QED
    BY <2>1, <2>2, <2>3
<1>6. SaysOld(hunks) => SaysOld(hunks')
  <2>1. SUFFICES ASSUME NEW i \in 1..n, Has(hunks[i].lines, "old") PROVE SaysOld(hunks')
    BY DEF SaysOld
  <2>2. PICK j \in 1..n : order[j] = i
    BY <1>5
  <2>3. hunks'[j] = hunks[i]
    BY <1>4, <2>2
  <2>4. QED
    BY <1>4, <2>1, <2>3 DEF SaysOld
<1>7. PICK o \in Olds(diff) : InHand(sec, o)
  BY <1>1, HandOf
<1>8. diff' = diff /\ plan' = plan /\ before' = before
  BY DEF argument
<1>9. files[newPath] \in Seq(Texts)
  <2>1. newPath \in Names /\ before \in [Names -> {Absent} \cup Seq(Texts)]
    BY <1>1 DEF PatchInv, PlainFiles
  <2>2. newPath = plan[sec[o]].path
    BY <1>1, <1>7, <2>1, HandFile
  <2>3. o >= o
    BY <1>7, HandIs
  <2>4. files[newPath] = before[newPath]
    BY <1>7, <2>2, <2>3 DEF InHand, Untouched
  <2>5. before[newPath] \in {Absent} \cup Seq(Texts)
    BY <2>1
  <2>6. QED
    BY <1>1, <2>4, <2>5
<1>10. Patching(o)'
  <2>1. ASSUME NEW t \in Texts
        PROVE  /\ Occ(copy', t) + Tally(hunks', Add(t))
                    =< Occ(files[newPath], t) + OccIn(diff, o, pos - 1, Add(t))
               /\ Occ(files[newPath], t) + Tally(hunks', Del(t))
                    =< Occ(copy', t) + OccIn(diff, o, pos - 1, Del(t))
    <3> DEFINE add == Add(t)
               del == Del(t)
    <3>1. /\ Tally(hunks, del) =< OccIn(diff, o, pos - 1, del)
          /\ Tally(hunks, add) =< OccIn(diff, o, pos - 1, add)
      BY <1>1, <1>7 DEF InHand, Collected
    <3>2. Occ(files[newPath], t) \in Nat /\ copy' = files[newPath]
      BY <1>1, <1>9, OccType
    <3>3. OccIn(diff, o, pos - 1, del) \in Nat /\ OccIn(diff, o, pos - 1, add) \in Nat
      <4>1. o \in Nat /\ pos - 1 \in Nat
        BY <1>7, HandIs DEF InHand
      <4>2. QED
        BY <4>1, WithinFinite
    <3>4. /\ Tally(hunks', del) =< Tally(hunks, del) /\ Tally(hunks', add) =< Tally(hunks, add)
          /\ Tally(hunks', del) \in Nat /\ Tally(hunks', add) \in Nat
          /\ Tally(hunks, del) \in Nat /\ Tally(hunks, add) \in Nat
      BY <1>5
    <3> HIDE DEF add, del
    <3>5. /\ Occ(copy', t) + Tally(hunks', add)
               =< Occ(files[newPath], t) + OccIn(diff, o, pos - 1, add)
          /\ Occ(files[newPath], t) + Tally(hunks', del)
               =< Occ(copy', t) + OccIn(diff, o, pos - 1, del)
      BY <3>1, <3>2, <3>3, <3>4
    <3>6. QED
      BY <3>5 DEF add, del
  <2>2. QED
    BY <1>1, <1>8, <1>9, <2>1 DEF Patching
<1>11. Untouched(sec, o)'
  BY <1>1, <1>7, <1>8 DEF InHand, Untouched
<1>12. InHand(sec, o)'
  BY <1>1, <1>6, <1>7, <1>8, <1>10, <1>11 DEF InHand
<1>13. Where(sec)'
  BY <1>1, <1>7, <1>8, <1>12 DEF Where
<1>14. HeadersInPairs'
  BY <1>1, <1>2, <1>4 DEF HeadersInPairs, Carries
<1>15. QED
  BY <1>13, <1>14 DEF Carries

(* The parts of a file that is all text are.                                *)
LEMMA PartsOfConcat ==
  ASSUME NEW S, NEW T, NEW a \in Seq(S), NEW b \in Seq(S), a \o b \in Seq(T)
  PROVE  a \in Seq(T) /\ b \in Seq(T)
<1>1. /\ Len(a) \in Nat /\ Len(b) \in Nat /\ Len(a \o b) = Len(a) + Len(b)
      /\ \A i \in 1..(Len(a) + Len(b)) : (a \o b)[i] = IF i <= Len(a) THEN a[i] ELSE b[i - Len(a)]
      /\ a \in [1..Len(a) -> S] /\ b \in [1..Len(b) -> S]
  BY LenProperties, ConcatProperties
<1> DEFINE c == a \o b
           m == Len(a)
           k == Len(b)
<1>2. \A i \in 1..(m + k) : c[i] \in T
  BY <1>1, ElementOfSeq
<1> HIDE DEF c, m, k
<1>3. \A i \in 1..m : i \in 1..(m + k) /\ c[i] = a[i]
  BY <1>1 DEF c, m, k
<1>4. \A i \in 1..k : i + m \in 1..(m + k) /\ c[i + m] = b[i]
  BY <1>1 DEF c, m, k
<1>5. a \in [1..m -> T]
  BY <1>1, <1>2, <1>3 DEF m
<1>6. b \in [1..k -> T]
  BY <1>1, <1>2, <1>4 DEF k
<1>7. QED
  BY <1>1, <1>5, <1>6, FunctionIsSeq DEF m, k

(* A hunk with the headers of a section in it fits nowhere in such a file.  *)
LEMMA HunkIsClean ==
  ASSUME PatchInv, PatchHunk, copy \in Seq(Texts), HeadersInPairs
  PROVE  /\ ~Has(hunks[1].lines, "old") /\ 1 \in 1..Len(hunks) /\ Head(hunks) = hunks[1]
         /\ copy' \in Seq(Texts)
         /\ \A t \in Texts : \E n \in Nat :
              /\ Occ(copy, t) = n + Occ(Head(hunks).lines, Del(t))
              /\ Occ(copy', t) = n + Occ(Head(hunks).lines, Add(t))
<1> DEFINE hunk == Head(hunks)
           removed == Removals(hunk.lines)
           added == Additions(hunk.lines)
<1>1. PICK b \in Seq(Line), r \in Seq(Line) : copy = b \o removed \o r /\ copy' = b \o added \o r
  BY PatchHunkIs
<1>2. hunk \in PlainHunk /\ removed \in Seq(Line) /\ added \in Seq(Line)
  BY PatchHunkIs
<1>3. /\ hunks \in Seq(PlainHunk) /\ hunks # <<>> /\ Len(hunks) \in Nat
      /\ 1 \in 1..Len(hunks) /\ hunk = hunks[1]
  <2>1. hunks \in Seq(PlainHunk) /\ hunks # <<>> /\ Len(hunks) \in Nat
    BY HunksNow DEF PatchHunk
  <2>2. Len(hunks) # 0
    BY <2>1, EmptySeq
  <2>3. 1 \in 1..Len(hunks) /\ Head(hunks) = hunks[1]
    BY <2>1, <2>2
  <2>4. QED
    BY <2>1, <2>3
<1>4. hunk.lines \in Seq(PlainLine)
  BY <1>2 DEF PlainHunk
<1>5. /\ \A t \in Texts : /\ Occ(removed, t) = Occ(hunk.lines, Del(t))
                          /\ Occ(added, t) = Occ(hunk.lines, Add(t))
      /\ Has(hunk.lines, "old") => removed \notin Seq(Texts)
      /\ ~Has(hunk.lines, "new") => added \in Seq(Texts)
  BY <1>4, TextsCount
<1> HIDE DEF hunk, removed, added
<1> DEFINE br == b \o removed
           ba == b \o added
<1>6. br \in Seq(Line) /\ copy = br \o r
  BY <1>1, <1>2, ConcatType
<1>7. b \in Seq(Texts) /\ removed \in Seq(Texts) /\ r \in Seq(Texts) /\ br \in Seq(Texts)
  <2>1. br \in Seq(Texts) /\ r \in Seq(Texts)
    <3> HIDE DEF br
    <3>1. br \o r \in Seq(Texts)
      BY <1>6
    <3>2. QED
      BY <1>6, <3>1, PartsOfConcat
  <2>2. b \in Seq(Texts) /\ removed \in Seq(Texts)
    BY <1>2, <2>1, PartsOfConcat
  <2>3. QED
    BY <2>1, <2>2
<1>8. ~Has(hunk.lines, "old")
  BY <1>5, <1>7
<1>9. ~Has(hunk.lines, "new")
  BY <1>3, <1>8 DEF HeadersInPairs
<1>10. added \in Seq(Texts) /\ ba \in Seq(Texts) /\ copy' = ba \o r
  <2>1. added \in Seq(Texts)
    BY <1>5, <1>9
  <2>2. QED
    BY <1>1, <1>7, <2>1, ConcatProperties
<1>11. copy' \in Seq(Texts)
  <2> HIDE DEF ba
  <2>1. ba \o r \in Seq(Texts)
    BY <1>7, <1>10, ConcatProperties
  <2>2. QED
    BY <1>10, <2>1
<1>12. ASSUME NEW t \in Texts
       PROVE  \E n \in Nat : /\ Occ(copy, t) = n + Occ(hunk.lines, Del(t))
                             /\ Occ(copy', t) = n + Occ(hunk.lines, Add(t))
  <2>1. Occ(br, t) = Occ(b, t) + Occ(removed, t) /\ Occ(ba, t) = Occ(b, t) + Occ(added, t)
    BY <1>7, <1>10, OccConcat
  <2>2. /\ Occ(b, t) \in Nat /\ Occ(r, t) \in Nat
        /\ Occ(removed, t) \in Nat /\ Occ(added, t) \in Nat
    BY <1>7, <1>10, OccType
  <2>3. /\ Occ(removed, t) = Occ(hunk.lines, Del(t))
        /\ Occ(added, t) = Occ(hunk.lines, Add(t))
    BY <1>5
  <2> HIDE DEF br, ba
  <2>4. Occ(copy, t) = Occ(br, t) + Occ(r, t)
    BY <1>6, <1>7, OccConcat
  <2>5. Occ(copy', t) = Occ(ba, t) + Occ(r, t)
    <3>1. Occ(ba \o r, t) = Occ(ba, t) + Occ(r, t)
      BY <1>7, <1>10, OccConcat
    <3>2. QED
      BY <1>10, <3>1
  <2> DEFINE n == Occ(b, t) + Occ(r, t)
  <2>6. n \in Nat /\ Occ(copy, t) = n + Occ(removed, t) /\ Occ(copy', t) = n + Occ(added, t)
    BY <2>1, <2>2, <2>4, <2>5
  <2> HIDE DEF n
  <2>7. QED
    BY <2>3, <2>6
<1>13. QED
  BY <1>3, <1>8, <1>11, <1>12 DEF hunk

LEMMA PatchHunkCarries ==
  ASSUME PatchInv, NEW sec, Laid(diff, base, plan, sec), Carries(sec),
         PatchHunk, UNCHANGED argument
  PROVE  Carries(sec)'
<1> DEFINE n == Len(hunks)
           h == Head(hunks)
<1>1. /\ mode = "patch" /\ mode' = mode /\ hunks # <<>> /\ hunks' = Tail(hunks)
      /\ UNCHANGED <<files, pos, oldPath, newPath>>
  BY DEF PatchHunk
<1>2. PICK o \in Olds(diff) : InHand(sec, o)
  BY <1>1, HandOf
<1>3. Patching(o)
  BY <1>1, <1>2 DEF InHand
<1>4. /\ ~Has(hunks[1].lines, "old") /\ 1 \in 1..n /\ h = hunks[1] /\ copy' \in Seq(Texts)
      /\ \A t \in Texts : \E k \in Nat : /\ Occ(copy, t) = k + Occ(h.lines, Del(t))
                                         /\ Occ(copy', t) = k + Occ(h.lines, Add(t))
  BY <1>3, HunkIsClean DEF Patching, Carries
<1>5. hunks \in Seq(PlainHunk) /\ n \in Nat
  BY HunksNow
<1>6. /\ hunks' \in Seq(PlainHunk) /\ Len(hunks') = n - 1
      /\ \A i \in 1..(n - 1) : i + 1 \in 1..n /\ hunks'[i] = hunks[i + 1]
  <2>1. /\ Tail(hunks) \in Seq(PlainHunk) /\ Len(Tail(hunks)) = n - 1
        /\ \A i \in 1..Len(Tail(hunks)) : Tail(hunks)[i] = hunks[i + 1]
    BY <1>1, <1>5, HeadTailProperties
  <2>2. \A i \in 1..(n - 1) : i + 1 \in 1..n
    BY <1>5
  <2>3. QED
    BY <1>1, <2>1, <2>2
<1>7. \A v : /\ Tally(hunks, v) = Occ(h.lines, v) + Tally(hunks', v)
             /\ Occ(h.lines, v) \in Nat /\ Tally(hunks', v) \in Nat
  <2> TAKE v
  <2>1. Tally(hunks, v) = Occ(h.lines, v) + Tally(Tail(hunks), v) /\ Occ(h.lines, v) \in Nat
    BY <1>1, <1>5, TallyTail
  <2>2. Tally(hunks', v) \in Nat
    BY <1>6, TallyType
  <2>3. QED
    BY <1>1, <2>1, <2>2
<1> HIDE DEF h
<1>8. ASSUME NEW t \in Texts
      PROVE  /\ Occ(copy', t) + Tally(hunks', Add(t))
                  =< Occ(files[newPath], t) + OccIn(diff, o, pos - 1, Add(t))
             /\ Occ(files[newPath], t) + Tally(hunks', Del(t))
                  =< Occ(copy', t) + OccIn(diff, o, pos - 1, Del(t))
  <2> DEFINE add == Add(t)
             del == Del(t)
             f == Occ(files[newPath], t)
             oa == OccIn(diff, o, pos - 1, add)
             od == OccIn(diff, o, pos - 1, del)
  <2>1. Occ(copy, t) + Tally(hunks, add) =< f + oa /\ f + Tally(hunks, del) =< Occ(copy, t) + od
    BY <1>3 DEF Patching
  <2>2. f \in Nat
    BY <1>3, OccType DEF Patching
  <2>3. oa \in Nat /\ od \in Nat
    <3>1. o \in Nat /\ pos - 1 \in Nat
      BY <1>2, HandIs DEF InHand
    <3>2. QED
      BY <3>1, WithinFinite
  <2>4. PICK k \in Nat : /\ Occ(copy, t) = k + Occ(h.lines, del)
                         /\ Occ(copy', t) = k + Occ(h.lines, add)
    BY <1>4
  <2>5. /\ Tally(hunks, del) = Occ(h.lines, del) + Tally(hunks', del)
        /\ Tally(hunks, add) = Occ(h.lines, add) + Tally(hunks', add)
        /\ Occ(h.lines, del) \in Nat /\ Tally(hunks', del) \in Nat
        /\ Occ(h.lines, add) \in Nat /\ Tally(hunks', add) \in Nat
    BY <1>7
  <2> HIDE DEF add, del, f, oa, od
  <2>6. Occ(copy', t) + Tally(hunks', add) =< f + oa
    BY <2>1, <2>2, <2>3, <2>4, <2>5
  <2>7. f + Tally(hunks', del) =< Occ(copy', t) + od
    BY <2>1, <2>2, <2>3, <2>4, <2>5
  <2>8. QED
    BY <2>6, <2>7 DEF add, del, f, oa, od
<1>9. diff' = diff /\ plan' = plan /\ before' = before
  BY DEF argument
<1>10. Patching(o)'
  <2>1. files[newPath] \in Seq(Texts)
    BY <1>3 DEF Patching
  <2>2. QED
    BY <1>1, <1>4, <1>8, <1>9, <2>1 DEF Patching
<1>11. SaysOld(hunks) => SaysOld(hunks')
  <2>1. SUFFICES ASSUME NEW i \in 1..n, Has(hunks[i].lines, "old") PROVE SaysOld(hunks')
    BY DEF SaysOld
  <2>2. i # 1
    BY <1>4, <2>1
  <2>3. i - 1 \in 1..(n - 1) /\ (i - 1) + 1 = i
    BY <1>5, <2>2
  <2>4. hunks'[i - 1] = hunks[i]
    BY <1>6, <2>3
  <2>5. QED
    BY <1>6, <2>1, <2>3, <2>4 DEF SaysOld
<1>12. Untouched(sec, o)'
  BY <1>1, <1>2, <1>9 DEF InHand, Untouched
<1>13. InHand(sec, o)'
  BY <1>1, <1>2, <1>9, <1>10, <1>11, <1>12 DEF InHand
<1>14. Where(sec)'
  BY <1>1, <1>2, <1>9, <1>13 DEF Where
<1>15. HeadersInPairs'
  BY <1>1, <1>6 DEF HeadersInPairs, Carries
<1>16. QED
  BY <1>14, <1>15 DEF Carries

LEMMA StoppingCarries ==
  ASSUME NEW sec, Carries(sec), NoMoreHeaders \/ NoNewPath \/ NoFile \/ HunkMisfits
  PROVE  Carries(sec)' /\ UNCHANGED files
<1>1. mode' = "done" /\ UNCHANGED <<files, hunks>>
  BY DEF NoMoreHeaders, NoNewPath, NoFile, HunkMisfits, Fail, Fails, Return
<1>2. QED
  BY <1>1 DEF Carries, HeadersInPairs, Where

-----------------------------------------------------------------------------
(************************** the file is written ***************************)
(* A file is written: the sections still to be read are about others.       *)
LEMMA WritingCarries ==
  ASSUME PatchInv, NEW sec, Laid(diff, base, plan, sec),
         NEW o \in Olds(diff), InHand(sec, o), UNCHANGED argument,
         NEW content, files' = [files EXCEPT ![plan[sec[o]].path] = content],
         mode' = "header", UNCHANGED pos, hunks' = <<>>
  PROVE  Carries(sec)'
<1>1. ASSUME NEW r \in Olds(diff), r >= pos
      PROVE  files'[plan[sec[r]].path] = before[plan[sec[r]].path]
  <2>1. o < pos /\ o \in Nat /\ r \in Nat /\ pos \in Nat
    BY HandIs DEF InHand
  <2>2. r >= o /\ r # o
    BY <1>1, <2>1
  <2>3. sec[r] # sec[o] /\ sec[r] \in DOMAIN plan /\ sec[o] \in DOMAIN plan
    BY <2>2 DEF Laid
  <2>4. plan[sec[r]].path # plan[sec[o]].path
    BY <2>3 DEF PatchInv, PlanFits, WrittenFor
  <2>5. files'[plan[sec[r]].path] = files[plan[sec[r]].path]
    <3>1. plan[sec[r]].path \in Names
      BY HandIs
    <3>2. files \in [Names -> {Absent} \cup PlainContent]
      BY DEF PatchInv, PlainTypes
    <3>3. QED
      BY <2>4, <3>1, <3>2
  <2>6. files[plan[sec[r]].path] = before[plan[sec[r]].path]
    BY <2>2 DEF InHand, Untouched
  <2>7. QED
    BY <2>5, <2>6
<1>2. diff' = diff /\ plan' = plan /\ before' = before
  BY DEF argument
<1>3. Where(sec)'
  BY <1>1, <1>2 DEF Where, Untouched
<1>4. HeadersInPairs'
  BY DEF HeadersInPairs
<1>5. QED
  BY <1>3, <1>4 DEF Carries

LEMMA WritingAccounts ==
  ASSUME PatchInv, Account, UNCHANGED argument, NEW k \in DOMAIN plan, NEW content,
         files' = [files EXCEPT ![plan[k].path] = content], Accounted(content, k)
  PROVE  Account'
<1>1. ASSUME NEW i \in DOMAIN plan PROVE Accounted(files'[plan[i].path], i)
  <2>1. plan[i].path \in Names
    BY SectionsFit DEF PatchInv, SectionFits, PlainSection
  <2>2. files \in [Names -> {Absent} \cup PlainContent]
    BY DEF PatchInv, PlainTypes
  <2>3. CASE i = k
    <3>1. files'[plan[i].path] = content
      BY <2>1, <2>2, <2>3
    <3>2. QED
      BY <2>3, <3>1
  <2>4. CASE i # k
    <3>1. plan[i].path # plan[k].path
      BY <2>4 DEF PatchInv, PlanFits, WrittenFor
    <3>2. files'[plan[i].path] = files[plan[i].path]
      BY <2>1, <2>2, <3>1
    <3>3. Accounted(files[plan[i].path], i)
      BY DEF Account
    <3>4. QED
      BY <3>2, <3>3
  <2>5. QED
    BY <2>3, <2>4
<1>2. plan' = plan /\ before' = before /\ base' = base
  BY DEF argument
<1>3. \A i \in DOMAIN plan : Accounted(files[plan[i].path], i)'
  BY <1>1, <1>2 DEF Accounted
<1>4. QED
  BY <1>2, <1>3 DEF Account, Accounted

(* A section that makes a file, or takes it away, has no lines to account.  *)
LEMMA DeleteFileCarries ==
  ASSUME PatchInv, NEW sec, Laid(diff, base, plan, sec), Carries(sec), Account,
         DeleteFile, UNCHANGED argument
  PROVE  Carries(sec)' /\ Account'
<1>1. /\ mode = "delete" /\ mode' = "header" /\ oldPath # DevNull
      /\ files' = [files EXCEPT ![oldPath] = Absent] /\ UNCHANGED <<pos, hunks>>
  BY DEF DeleteFile, Goto
<1>2. PICK o \in Olds(diff) : InHand(sec, o)
  BY <1>1, HandOf
<1> DEFINE s == plan[sec[o]]
<1>3. /\ sec[o] \in DOMAIN plan /\ s.path \in Names /\ DevNull \notin Names
      /\ s.does \in {"create", "delete", "modify"}
  BY HandIs
<1>4. NewOf(s) = DevNull /\ oldPath = OldOf(s)
  BY <1>1, <1>2 DEF InHand
<1>5. s.does = "delete" /\ oldPath = s.path
  BY <1>3, <1>4 DEF NewOf, OldOf
<1>6. hunks' = <<>>
  BY <1>1, HunksNow
<1>7. Accounted(Absent, sec[o])
  BY <1>5 DEF Accounted
<1>8. Carries(sec)'
  BY <1>1, <1>2, <1>5, <1>6, WritingCarries
<1>9. Account'
  BY <1>1, <1>3, <1>5, <1>7, WritingAccounts
<1>10. QED
  BY <1>8, <1>9

LEMMA CreateFileCarries ==
  ASSUME PatchInv, NEW sec, Laid(diff, base, plan, sec), Carries(sec), Account,
         CreateFile, UNCHANGED argument
  PROVE  Carries(sec)' /\ Account'
<1> DEFINE content == AllAdded
<1>1. /\ mode = "create" /\ mode' = "header" /\ hunks' = <<>> /\ UNCHANGED pos
      /\ files' = [files EXCEPT ![newPath] = content]
  BY DEF CreateFile, Goto, WriteFile
<1> HIDE DEF content
<1>2. PICK o \in Olds(diff) : InHand(sec, o)
  BY <1>1, HandOf
<1> DEFINE s == plan[sec[o]]
<1>3. /\ sec[o] \in DOMAIN plan /\ s.path \in Names /\ DevNull \notin Names
      /\ s.does \in {"create", "delete", "modify"}
  BY HandIs
<1>4. newPath \in Names
  BY <1>1 DEF PatchInv
<1>5. newPath = s.path /\ OldOf(s) = DevNull
  BY <1>1, <1>2, <1>4, HandFile DEF InHand
<1>6. s.does = "create"
  BY <1>3, <1>5 DEF OldOf
<1>7. Accounted(content, sec[o])
  BY <1>6 DEF Accounted
<1>8. Carries(sec)'
  BY <1>1, <1>2, <1>5, WritingCarries
<1>9. Account'
  BY <1>1, <1>3, <1>5, <1>7, WritingAccounts
<1>10. QED
  BY <1>8, <1>9

(* What is written back differs from the copy in a blank line at most.      *)
LEMMA JoinedCount ==
  ASSUME NEW lines \in Seq(Texts), NEW original, NEW t \in Texts \ {Blank}
  PROVE  Joined(lines, original) \in Seq(Texts) /\ Occ(Joined(lines, original), t) = Occ(lines, t)
<1>1. CASE lines = <<>>
  <2>1. <<>> \in Seq(Texts) /\ <<Blank>> \in Seq(Texts)
    BY PatchAssumption
  <2>2. Occ(<<>>, t) = 0 /\ Occ(<<Blank>>, t) = 0
    BY OccEmpty, OccOne
  <2>3. Joined(lines, original) = <<>> \/ Joined(lines, original) = <<Blank>>
    BY <1>1 DEF Joined
  <2>4. QED
    BY <1>1, <2>1, <2>2, <2>3
<1>2. CASE lines # <<>>
  <2>1. PICK s \in Seq(Texts), x \in Texts : lines = Append(s, x)
    BY <1>2, SequenceEmptyOrAppend
  <2>2. Front(lines) = s /\ Last(lines) = x
    BY <2>1 DEF Front, Last
  <2>3. Occ(lines, t) = Occ(s, t) + (IF x = t THEN 1 ELSE 0) /\ Occ(s, t) \in Nat
    BY <2>1, OccAppend, OccType
  <2>4. x = Blank => Occ(lines, t) = Occ(s, t)
    BY <2>3
  <2>5. Joined(lines, original) = lines \/ (x = Blank /\ Joined(lines, original) = s)
    BY <1>2, <2>2 DEF Joined
  <2>6. QED
    BY <2>1, <2>4, <2>5
<1>3. QED
  BY <1>1, <1>2

LEMMA CountIsOcc ==
  ASSUME NEW content \in Seq(Texts), NEW t PROVE Count(content, t) = Occ(content, t)
<1>1. content \in Seq(Texts \cup {HeaderText})
  BY SeqMonotonic
<1>2. content # Absent
  BY <1>1, PlainApart
<1>3. QED
  BY <1>2 DEF Count, Occ, PlacesOf

LEMMA ChangesType ==
  ASSUME NEW version, NEW section, SectionFits(version, section), section.does = "modify"
  PROVE  CutLines(version, section) \in Seq(Texts) /\ AddedLines(section) \in Seq(Texts)
<1>1. CutsOf(version, section) \in Seq(Seq(Texts)) /\ AddsOf(section) \in Seq(Seq(Texts))
  BY HunksType
<1>2. /\ CutLines(version, section) = FlattenSeq(CutsOf(version, section))
      /\ AddedLines(section) = FlattenSeq(AddsOf(section))
  BY DEF CutLines, AddedLines, CutsOf, AddsOf
<1>3. QED
  BY <1>1, <1>2, FlattenType

LEMMA WriteBackCarries ==
  ASSUME PatchInv, NEW sec, Laid(diff, base, plan, sec), Carries(sec), Account,
         WriteBack, UNCHANGED argument
  PROVE  Carries(sec)' /\ Account'
<1> DEFINE was == files[newPath]
           content == Joined(copy, was)
<1>1. /\ mode = "patch" /\ mode' = "header" /\ hunks = <<>> /\ UNCHANGED <<pos, hunks>>
      /\ files' = [files EXCEPT ![newPath] = content]
  BY DEF WriteBack, Goto, WriteFile
<1>2. PICK o \in Olds(diff) : InHand(sec, o)
  BY <1>1, HandOf
<1> DEFINE s == plan[sec[o]]
<1>3. /\ sec[o] \in DOMAIN plan /\ SectionFits(base, s) /\ Bounded(diff, o, base, s)
      /\ o \in Nat /\ pos \in Nat /\ Len(diff) \in Nat
  BY HandIs
<1>4. newPath = s.path
  <2>1. newPath \in Names
    BY <1>1 DEF PatchInv
  <2>2. QED
    BY <1>1, <1>2, <2>1, HandFile
<1>5. was = before[s.path]
  BY <1>2, <1>3, <1>4 DEF InHand, Untouched
<1>6. Patching(o)
  BY <1>1, <1>2 DEF InHand
<1>7. was \in Seq(Texts) /\ copy \in Seq(Texts)
  BY <1>6 DEF Patching
<1>8. InSection(diff, o, pos - 1)
  <2>1. ~SaysOld(hunks)
    <3>1. 1..Len(<<>>) = {}
      OBVIOUS
    <3>2. QED
      BY <1>1, <3>1 DEF SaysOld
  <2>2. QED
    BY <1>1, <1>2, <2>1 DEF InHand
<1>9. pos - 1 \in o..Len(diff) /\ pos - 1 \in Nat
  <2>1. o < pos /\ pos \in 1..(Len(diff) + 1)
    BY <1>2, HunksNow DEF InHand
  <2>2. QED
    BY <1>3, <2>1
<1>10. Accounted(content, sec[o])
  <2> SUFFICES ASSUME s.does = "modify", NEW t \in Texts \ {Blank}
               PROVE  Count(content, t) - Count(before[s.path], t)
                        \in -Count(CutLines(base, s), t)..Count(AddedLines(s), t)
    BY DEF Accounted
  <2> DEFINE cuts == CutLines(base, s)
             adds == AddedLines(s)
             oa == OccIn(diff, o, pos - 1, Add(t))
             od == OccIn(diff, o, pos - 1, Del(t))
  <2>1. cuts \in Seq(Texts) /\ adds \in Seq(Texts)
    BY <1>3, ChangesType
  <2>2. od =< Occ(cuts, t) /\ oa =< Occ(adds, t)
    BY <1>3, <1>8, <1>9 DEF Bounded
  <2>3. Tally(hunks, Add(t)) = 0 /\ Tally(hunks, Del(t)) = 0
    BY <1>1, TallyNothing DEF TallyIs
  <2>4. /\ Occ(copy, t) + 0 =< Occ(was, t) + oa
        /\ Occ(was, t) + 0 =< Occ(copy, t) + od
    BY <1>6, <2>3 DEF Patching
  <2>5. content \in Seq(Texts) /\ Occ(content, t) = Occ(copy, t)
    BY <1>7, JoinedCount
  <2>6. od \in Nat /\ oa \in Nat
    BY <1>3, <1>9, WithinFinite
  <2>7. Count(before[s.path], t) = Occ(was, t)
    BY <1>5, <1>7, CountIsOcc
  <2> HIDE DEF content, was, cuts, adds, oa, od, s
  <2>8. Count(content, t) = Occ(copy, t)
    BY <2>5, CountIsOcc
  <2>9. Count(cuts, t) = Occ(cuts, t) /\ Count(adds, t) = Occ(adds, t)
    BY <2>1, CountIsOcc
  <2>10. /\ Occ(was, t) \in Nat /\ Occ(copy, t) \in Nat
         /\ Occ(cuts, t) \in Nat /\ Occ(adds, t) \in Nat
    BY <1>7, <2>1, OccType
  <2>11. Occ(copy, t) - Occ(was, t) \in (-Occ(cuts, t))..Occ(adds, t)
    BY <2>2, <2>4, <2>6, <2>10
  <2>12. QED
    BY <2>7, <2>8, <2>9, <2>11 DEF cuts, adds
<1> HIDE DEF content, was
<1>11. Carries(sec)'
  BY <1>1, <1>2, <1>4, WritingCarries
<1>12. Account'
  BY <1>1, <1>3, <1>4, <1>10, WritingAccounts
<1>13. QED
  BY <1>11, <1>12

LEMMA LinesStart == Init /\ Ordinary => LinesInv
<1> SUFFICES ASSUME Init, Ordinary PROVE LinesInv
  OBVIOUS
<1>1. PatchInv
  BY PatchStarts
<1>2. \E sec : Laid(diff, base, plan, sec)
  <2>1. PICK git \in BOOLEAN : diff \in Prefixes(Unified(base, plan, git))
    BY DEF Ordinary
  <2>2. QED
    BY <1>1, <2>1, DiffIsLaid DEF PatchInv
<1>3. mode = "header" /\ hunks = <<>> /\ files = before
  BY DEF Init
<1>4. HeadersInPairs
  BY <1>3 DEF HeadersInPairs
<1>5. \A sec : Where(sec)
  BY <1>3 DEF Where, Untouched
<1>6. ASSUME NEW k \in DOMAIN plan PROVE Accounted(files[plan[k].path], k)
  <2> DEFINE s == plan[k]
  <2> SUFFICES ASSUME s.does = "modify", NEW t \in Texts \ {Blank}
               PROVE  Count(before[s.path], t) - Count(before[s.path], t)
                        \in -Count(CutLines(base, s), t)..Count(AddedLines(s), t)
    BY <1>3 DEF Accounted
  <2>1. SectionFits(base, s)
    BY <1>1, SectionsFit DEF PatchInv
  <2> DEFINE cuts == CutLines(base, s)
             adds == AddedLines(s)
  <2>2. cuts \in Seq(Texts) /\ adds \in Seq(Texts)
    BY <2>1, ChangesType
  <2>3. before[s.path] \in {Absent} \cup Seq(Texts)
    <3>1. s.path \in Names /\ before \in [Names -> {Absent} \cup Seq(Texts)]
      BY <1>1, <2>1 DEF SectionFits, PlainSection, PatchInv, PlainFiles
    <3>2. QED
      BY <3>1
  <2>4. Count(before[s.path], t) \in Nat
    <3> DEFINE c == before[s.path]
    <3>1. CASE c = Absent
      BY <3>1 DEF Count
    <3>2. CASE c \in Seq(Texts)
      <4> HIDE DEF c
      <4>1. Count(c, t) = Occ(c, t) /\ Occ(c, t) \in Nat
        BY <3>2, CountIsOcc, OccType
      <4>2. QED
        BY <4>1 DEF c
    <3>3. QED
      BY <2>3, <3>1, <3>2
  <2> HIDE DEF cuts, adds
  <2>5. Count(cuts, t) \in Nat /\ Count(adds, t) \in Nat
    BY <2>2, CountIsOcc, OccType
  <2> DEFINE m == Count(cuts, t)
             n == Count(adds, t)
             c == Count(before[s.path], t)
  <2> HIDE DEF s
  <2>6. c - c \in (-m)..n
    <3> HIDE DEF m, n, c
    <3>1. m \in Nat /\ n \in Nat /\ c \in Nat
      BY <2>4, <2>5 DEF m, n, c
    <3>2. QED
      BY <3>1
  <2>7. QED
    BY <2>6 DEF cuts, adds, s
<1>7. Account
  BY <1>6 DEF Account
<1>8. FileLeftAlone
  BY DEF Init, FileLeftAlone
<1>9. QED
  BY <1>2, <1>4, <1>5, <1>7, <1>8 DEF LinesInv

LEMMA CarriesNext ==
  ASSUME PatchInv, NEW sec, Laid(diff, base, plan, sec), Carries(sec), Account, Advance
  PROVE  Carries(sec)' /\ Account'
<1>1. UNCHANGED argument
  BY DEF Advance
<1>2. CASE FindHeader
  <2>1. UNCHANGED files
    BY <1>2 DEF FindHeader
  <2>2. QED
    BY <1>1, <1>2, <2>1, FindHeaderCarries, AccountStays
<1>3. CASE ReadNewPath
  <2>1. UNCHANGED files
    BY <1>3 DEF ReadNewPath
  <2>2. QED
    BY <1>1, <1>3, <2>1, ReadNewPathCarries, AccountStays
<1>4. CASE SkipToHunk
  <2>1. UNCHANGED files
    BY <1>4 DEF SkipToHunk
  <2>2. QED
    BY <1>1, <1>4, <2>1, SkipToHunkCarries, AccountStays
<1>5. CASE BeginHunk
  <2>1. UNCHANGED files
    BY <1>5 DEF BeginHunk
  <2>2. QED
    BY <1>1, <1>5, <2>1, BeginHunkCarries, AccountStays
<1>6. CASE HunkLine
  <2>1. UNCHANGED files
    BY <1>6 DEF HunkLine
  <2>2. QED
    BY <1>1, <1>6, <2>1, HunkLineCarries, AccountStays
<1>7. CASE EndHunk
  <2>1. UNCHANGED files
    BY <1>7 DEF EndHunk
  <2>2. QED
    BY <1>1, <1>7, <2>1, EndHunkCarries, AccountStays
<1>8. CASE SkipLine
  <2>1. UNCHANGED files
    BY <1>8 DEF SkipLine
  <2>2. QED
    BY <1>1, <1>8, <2>1, SkipLineCarries, AccountStays
<1>9. CASE AllCollected
  <2>1. UNCHANGED files
    BY <1>9 DEF AllCollected
  <2>2. QED
    BY <1>1, <1>9, <2>1, AllCollectedCarries, AccountStays
<1>10. CASE ReadFile
  <2>1. UNCHANGED files
    BY <1>10 DEF ReadFile
  <2>2. QED
    BY <1>1, <1>10, <2>1, ReadFileCarries, AccountStays
<1>11. CASE PatchHunk
  <2>1. UNCHANGED files
    BY <1>11 DEF PatchHunk
  <2>2. QED
    BY <1>1, <1>11, <2>1, PatchHunkCarries, AccountStays
<1>12. CASE NoMoreHeaders \/ NoNewPath \/ NoFile \/ HunkMisfits
  BY <1>1, <1>12, StoppingCarries, AccountStays
<1>13. CASE DeleteFile
  BY <1>1, <1>13, DeleteFileCarries
<1>14. CASE CreateFile
  BY <1>1, <1>14, CreateFileCarries
<1>15. CASE WriteBack
  BY <1>1, <1>15, WriteBackCarries
<1>16. QED
  BY <1>2, <1>3, <1>4, <1>5, <1>6, <1>7, <1>8, <1>9, <1>10, <1>11, <1>12, <1>13,
     <1>14, <1>15 DEF Advance, Step

(* A call that ends with an error in the middle of a file has not begun it. *)
LEMMA LeavesAlone ==
  ASSUME PatchInv, NEW sec, Laid(diff, base, plan, sec), Where(sec), FileLeftAlone, Advance
  PROVE  FileLeftAlone'
<1>1. /\ UNCHANGED argument
      /\ mode \in Modes /\ (mode \in {"header", "new"} => hunks = <<>>)
  BY DEF Advance, PatchInv, PlainTypes
<1>2. CASE NoMoreHeaders \/ NoNewPath
  <2>1. mode' = "done" /\ hunks' = <<>>
    BY <1>1, <1>2 DEF NoMoreHeaders, NoNewPath, Fail, Fails, Return
  <2>2. QED
    BY <2>1 DEF FileLeftAlone
<1>3. CASE NoFile \/ HunkMisfits
  <2>1. /\ mode \in {"read", "patch"} /\ mode' = "done"
        /\ UNCHANGED <<files, newPath, hunks>>
    BY <1>3 DEF NoFile, HunkMisfits, Fail, Fails, Return
  <2>2. PICK o \in Olds(diff) : InHand(sec, o)
    BY <2>1 DEF Where
  <2>3. newPath \in Names
    BY <2>1 DEF PatchInv
  <2>4. newPath = plan[sec[o]].path /\ o >= o
    BY <2>1, <2>2, <2>3, HandFile, HandIs
  <2>5. files[newPath] = before[newPath]
    BY <2>2, <2>4 DEF InHand, Untouched
  <2>6. QED
    BY <1>1, <2>1, <2>5 DEF FileLeftAlone, argument
<1>4. CASE ~(NoMoreHeaders \/ NoNewPath \/ NoFile \/ HunkMisfits)
  <2>1. mode # "done" /\ UNCHANGED result
    BY <1>4 DEF Advance, Step, FindHeader, ReadNewPath, SkipToHunk, BeginHunk, HunkLine, EndHunk,
                SkipLine, AllCollected, DeleteFile, CreateFile, ReadFile, PatchHunk, WriteBack, Goto
  <2>2. result = "none"
    BY <2>1 DEF PatchInv
  <2>3. QED
    BY <2>1, <2>2 DEF FileLeftAlone
<1>5. QED
  BY <1>2, <1>3, <1>4

(* Of what apply_patch reads, what it holds and what it has made of the     *)
(* file in hand, nothing is more than the diff says of that file.           *)
LEMMA LinesStep == PatchInv /\ LinesInv /\ Advance => LinesInv'
<1> SUFFICES ASSUME PatchInv, LinesInv, Advance PROVE LinesInv'
  OBVIOUS
<1>1. PICK sec : Laid(diff, base, plan, sec) /\ Carries(sec)
  BY DEF LinesInv, Carries
<1>2. Carries(sec)' /\ Account'
  BY <1>1, CarriesNext DEF LinesInv
<1>3. Laid(diff, base, plan, sec)'
  BY <1>1 DEF Advance, argument
<1>4. FileLeftAlone'
  BY <1>1, LeavesAlone DEF LinesInv, Carries
<1>5. QED
  BY <1>2, <1>3, <1>4 DEF LinesInv, Carries

-----------------------------------------------------------------------------
(************************* what a hunk is made of **************************)
(* A sequence one element more, and a run of pieces flattened.              *)
LEMMA OneMoreOf ==
  ASSUME NEW S, NEW c \in Seq(S), NEW k \in Nat, k + 1 =< Len(c)
  PROVE  SubSeq(c, 1, k) \o <<c[k + 1]>> = SubSeq(c, 1, k + 1)
<1> DEFINE l == k + 1
<1>1. Len(c) \in Nat /\ l \in 1..Len(c)
  BY LenProperties
<1>2. 1 \in 1..(Len(c) + 1) /\ k \in (1 - 1)..Len(c) /\ l \in k..Len(c)
  BY <1>1
<1>3. SubSeq(c, 1, k) \o SubSeq(c, l, l) = SubSeq(c, 1, l)
  BY <1>2, ConcatAdjacentSubSeq
<1>4. SubSeq(c, l, l) = <<c[l]>>
  <2>1. c[l] \in S
    BY <1>1, ElementOfSeq
  <2>2. l \in Int /\ \A i \in l..l : c[i] \in S
    BY <1>1, <2>1
  <2> HIDE DEF l
  <2>3. /\ SubSeq(c, l, l) \in Seq(S)
        /\ Len(SubSeq(c, l, l)) = IF l =< l THEN l - l + 1 ELSE 0
        /\ \A i \in 1..(l - l + 1) : SubSeq(c, l, l)[i] = c[l + i - 1]
    BY <2>2, SubSeqProperties
  <2>4. l - l + 1 = 1 /\ l =< l /\ l + 1 - 1 = l
    BY <2>2
  <2>5. Len(SubSeq(c, l, l)) = 1 /\ SubSeq(c, l, l)[1] = c[l]
    BY <2>3, <2>4
  <2>6. <<c[l]>> \in Seq(S) /\ Len(<<c[l]>>) = 1 /\ <<c[l]>>[1] = c[l]
    BY <2>1
  <2>7. \A i \in 1..1 : i = 1
    OBVIOUS
  <2>8. QED
    BY <2>3, <2>5, <2>6, <2>7, SeqEqual
<1>5. QED
  BY <1>3, <1>4

(* Of a sequence the first u elements, g times nothing, and the others: put *)
(* together they are that sequence.                                         *)
Runs(P, c, u, g) ==
  \A i \in 1..Len(P) : P[i] = IF i <= u THEN <<c[i]>>
                              ELSE IF i <= u + g THEN <<>>
                              ELSE IF i <= Len(c) + g THEN <<c[i - g]>> ELSE <<>>

LEMMA FlattenRuns ==
  ASSUME NEW S, NEW c \in Seq(S), NEW u \in 0..Len(c), NEW g \in Nat,
         NEW P \in Seq(Seq(S)), Len(c) + g =< Len(P), Runs(P, c, u, g)
  PROVE  FlattenSeq(P) = c
<1> DEFINE n == Len(P)
           m == Len(c)
           Upto(k) == IF k <= u THEN k ELSE IF k <= u + g THEN u
                      ELSE IF k <= m + g THEN k - g ELSE m
<1>1. n \in Nat /\ m \in Nat /\ u \in Nat /\ u =< m /\ m + g =< n
  BY LenProperties
<1>2. \A i \in 1..n : P[i] = IF i <= u THEN <<c[i]>>
                             ELSE IF i <= u + g THEN <<>>
                             ELSE IF i <= m + g THEN <<c[i - g]>> ELSE <<>>
  BY DEF Runs
<1>3. SubSeq(c, 1, m) = c /\ SubSeq(c, 1, 0) = <<>>
  <2>1. SubSeq(c, 1, m) = c
    BY SubSeqFull
  <2>2. SubSeq(c, 1, 0) = <<>>
    <3>1. 0 \in 0..Len(c)
      BY <1>1
    <3>2. Len(SubSeq(c, 1, 0)) = 0 /\ SubSeq(c, 1, 0) \in Seq(S)
      BY <3>1, BeginningType
    <3>3. QED
      BY <3>2, EmptySeq
  <2>3. QED
    BY <2>1, <2>2
<1> HIDE DEF n, m
<1>4. ASSUME NEW k \in 1..n PROVE SubSeq(c, 1, Upto(k - 1)) \o P[k] = SubSeq(c, 1, Upto(k))
  <2>1. CASE k <= u \/ (u + g < k /\ k <= m + g)
    <3> DEFINE j == Upto(k - 1)
    <3>1. j \in Nat /\ j + 1 =< m /\ Upto(k) = j + 1 /\ P[k] = <<c[j + 1]>>
      <4>1. CASE k <= u
        <5>1. j = k - 1 /\ Upto(k) = k
          BY <1>1, <4>1
        <5>2. P[k] = <<c[k]>>
          BY <1>2, <4>1
        <5> HIDE DEF j, Upto
        <5>3. k \in Nat /\ k > 0
          BY <1>1
        <5>4. j \in Nat /\ j + 1 = k /\ k =< m
          BY <1>1, <4>1, <5>1, <5>3
        <5>5. QED
          BY <5>1, <5>2, <5>4
      <4>2. CASE u + g < k /\ k <= m + g
        <5>1. ~(k <= u) /\ ~(k <= u + g) /\ Upto(k) = k - g /\ j = (k - g) - 1
          BY <1>1, <4>2
        <5>2. P[k] = <<c[k - g]>>
          BY <1>2, <4>2, <5>1
        <5> HIDE DEF j, Upto
        <5>3. k \in Nat /\ k > 0
          BY <1>1
        <5>4. j \in Nat /\ j + 1 = k - g /\ k - g =< m
          BY <1>1, <4>2, <5>1, <5>3
        <5>5. QED
          BY <5>1, <5>2, <5>4
      <4>3. QED
        BY <2>1, <4>1, <4>2
    <3> HIDE DEF j, Upto
    <3>2. SubSeq(c, 1, j) \o <<c[j + 1]>> = SubSeq(c, 1, j + 1)
      <4>1. j \in Nat /\ j + 1 =< Len(c)
        BY <3>1 DEF m
      <4>2. QED
        BY <4>1, OneMoreOf
    <3>3. QED
      BY <3>1, <3>2 DEF j
  <2>2. CASE ~(k <= u \/ (u + g < k /\ k <= m + g))
    <3>1. Upto(k) = Upto(k - 1) /\ Upto(k) \in 0..Len(c)
      <4>1. CASE k <= u + g
        <5>1. u < k /\ k - 1 >= u /\ k - 1 <= u + g /\ k - 1 \in Nat
          BY <1>1, <2>2, <4>1
        <5>2. Upto(k) = u /\ Upto(k - 1) = u
          BY <1>1, <4>1, <5>1
        <5>3. QED
          BY <1>1, <5>2 DEF m
      <4>2. CASE ~(k <= u + g)
        <5>1. u + g < k /\ m + g < k /\ k - 1 >= m + g /\ k - 1 >= u + g /\ k - 1 \in Nat
          BY <1>1, <2>2, <4>2
        <5>2. Upto(k) = m
          BY <1>1, <5>1
        <5>3. Upto(k - 1) = m
          BY <1>1, <5>1
        <5> HIDE DEF Upto
        <5>4. m \in 0..m
          BY <1>1
        <5>5. QED
          BY <5>2, <5>3, <5>4 DEF m
      <4>3. QED
        BY <4>1, <4>2
    <3>2. P[k] = <<>>
      <4>1. ~(k <= u) /\ (k <= u + g \/ ~(k <= m + g))
        BY <1>1, <2>2
      <4>2. QED
        BY <1>2, <4>1
    <3> HIDE DEF Upto
    <3>3. SubSeq(c, 1, Upto(k)) \in Seq(S)
      BY <3>1, BeginningType
    <3>4. SubSeq(c, 1, Upto(k)) \o <<>> = SubSeq(c, 1, Upto(k))
      BY <3>3, ConcatEmptySeq
    <3>5. QED
      BY <3>1, <3>2, <3>4
  <2>3. QED
    BY <2>1, <2>2
<1>5. Upto(0) = 0 /\ Upto(n) = m
  <2>1. 0 <= u
    BY <1>1
  <2>2. Upto(0) = 0
    BY <2>1
  <2>3. Upto(n) = m
    <3>1. CASE n <= m + g
      <4>1. n = m + g /\ n - g = m /\ (n <= u => n = m) /\ (n <= u + g => u = m)
        BY <1>1, <3>1
      <4>2. QED
        BY <3>1, <4>1
    <3>2. CASE ~(n <= m + g)
      <4>1. ~(n <= u) /\ ~(n <= u + g)
        BY <1>1, <3>2
      <4>2. QED
        BY <3>2, <4>1
    <3>3. QED
      BY <3>1, <3>2
  <2>4. QED
    BY <2>2, <2>3
<1> HIDE DEF Upto
<1>6. CASE n = 0
  <2>1. P = <<>> /\ c = <<>>
    BY <1>1, <1>6, EmptySeq DEF n, m
  <2>2. QED
    BY <2>1, FlattenEmpty
<1>7. CASE n # 0
  <2>1. PICK F : Unrolls(F, P, n, S) /\ FlattenSeq(P) = F[n]
    BY <1>7, FlattenUnrolled DEF n
  <2> DEFINE Bad == {k \in Nat : k \in 1..n /\ F[k] # SubSeq(c, 1, Upto(k))}
  <2>2. Bad = {}
    <3> SUFFICES ASSUME Bad # {} PROVE FALSE
      OBVIOUS
    <3>1. PICK k \in Bad : \A j \in Bad : k =< j
      <4>1. Bad \in SUBSET Nat
        OBVIOUS
      <4> HIDE DEF Bad
      <4>2. QED
        BY <4>1, LeastNumber
    <3>2. k \in 1..n /\ k \in Nat /\ F[k] # SubSeq(c, 1, Upto(k))
      BY <3>1
    <3>3. F[k] = IF k = 1 THEN P[k] ELSE F[k - 1] \o P[k]
      BY <2>1, <3>2 DEF Unrolls
    <3>4. SubSeq(c, 1, Upto(k - 1)) \o P[k] = SubSeq(c, 1, Upto(k))
      BY <1>4, <3>2
    <3>5. CASE k = 1
      <4>1. SubSeq(c, 1, Upto(k - 1)) = <<>>
        BY <1>3, <1>5, <3>5
      <4>2. P[k] \in Seq(S)
        BY <3>2, ElementOfSeq DEF n
      <4>3. <<>> \o P[k] = P[k]
        BY <4>2, ConcatEmptySeq
      <4>4. QED
        BY <3>2, <3>3, <3>4, <3>5, <4>1, <4>3
    <3>6. CASE k # 1
      <4>1. k - 1 \in Nat /\ k - 1 \in 1..n /\ ~(k =< k - 1)
        BY <1>1, <3>2, <3>6
      <4>2. k - 1 \notin Bad
        <5> HIDE DEF Bad
        <5>1. QED
          BY <3>1, <4>1
      <4>3. F[k - 1] = SubSeq(c, 1, Upto(k - 1))
        BY <4>1, <4>2
      <4>4. QED
        BY <3>2, <3>3, <3>4, <3>6, <4>3
    <3>7. QED
      BY <3>5, <3>6
  <2>3. n \in Nat /\ n \in 1..n
    BY <1>1, <1>7
  <2>4. F[n] = SubSeq(c, 1, Upto(n))
    <3> HIDE DEF n
    <3>1. QED
      BY <2>2, <2>3
  <2>5. QED
    BY <1>3, <1>5, <2>1, <2>4
<1>8. QED
  BY <1>6, <1>7

(* The lines of a hunk: those kept, those removed, those added and those    *)
(* kept after them.                                                         *)
Made(lines, B, C, A, D) ==
  /\ B \in Seq(Texts) /\ C \in Seq(Texts) /\ A \in Seq(Texts) /\ D \in Seq(Texts)
  /\ lines \in Seq(PlainLine) /\ Len(lines) = Len(B) + Len(C) + Len(A) + Len(D)
  /\ \A i \in 1..Len(lines) :
       IF i <= Len(B) THEN lines[i] = [kind |-> "ctx", text |-> B[i]]
       ELSE IF i <= Len(B) + Len(C) THEN lines[i] = [kind |-> "del", text |-> C[i - Len(B)]]
       ELSE IF i <= Len(B) + Len(C) + Len(A)
              THEN lines[i] = [kind |-> "add", text |-> A[i - (Len(B) + Len(C))]]
       ELSE lines[i] = [kind |-> "ctx", text |-> D[i - (Len(C) + Len(A) + Len(B))]]

LEMMA MadeLengths ==
  ASSUME NEW lines, NEW B, NEW C, NEW A, NEW D, Made(lines, B, C, A, D)
  PROVE  /\ Len(B) \in Nat /\ Len(C) \in Nat /\ Len(A) \in Nat /\ Len(D) \in Nat
         /\ Len(lines) = Len(B) + Len(C) + Len(A) + Len(D)
         /\ Len(lines) \in Nat /\ DOMAIN lines = 1..Len(lines)
         /\ \A i \in 1..Len(B) : B[i] \in Texts
         /\ \A i \in 1..Len(C) : C[i] \in Texts
         /\ \A i \in 1..Len(A) : A[i] \in Texts
         /\ \A i \in 1..Len(D) : D[i] \in Texts
BY LenProperties, ElementOfSeq DEF Made

(* Line by line.                                                            *)
LEMMA MadeLine ==
  ASSUME NEW lines, NEW B, NEW C, NEW A, NEW D, Made(lines, B, C, A, D), NEW i \in 1..Len(lines)
  PROVE  /\ i <= Len(B) => lines[i].kind = "ctx" /\ lines[i].text = B[i]
         /\ Len(B) < i /\ i <= Len(B) + Len(C)
              => lines[i].kind = "del" /\ lines[i].text = C[i - Len(B)]
         /\ Len(B) + Len(C) < i /\ i <= Len(B) + Len(C) + Len(A)
              => lines[i].kind = "add" /\ lines[i].text = A[i - (Len(B) + Len(C))]
         /\ Len(B) + Len(C) + Len(A) < i
              => lines[i].kind = "ctx" /\ lines[i].text = D[i - (Len(C) + Len(A) + Len(B))]
<1> DEFINE b == Len(B)
           c == Len(C)
           a == Len(A)
<1>1. b \in Nat /\ c \in Nat /\ a \in Nat /\ i \in Nat
  BY MadeLengths
<1>2. IF i <= b THEN lines[i] = [kind |-> "ctx", text |-> B[i]]
      ELSE IF i <= b + c THEN lines[i] = [kind |-> "del", text |-> C[i - b]]
      ELSE IF i <= b + c + a THEN lines[i] = [kind |-> "add", text |-> A[i - (b + c)]]
      ELSE lines[i] = [kind |-> "ctx", text |-> D[i - (c + a + b)]]
  BY DEF Made
<1> HIDE DEF b, c, a
<1>3. /\ i <= b => lines[i].kind = "ctx" /\ lines[i].text = B[i]
      /\ b < i /\ i <= b + c => lines[i].kind = "del" /\ lines[i].text = C[i - b]
      /\ b + c < i /\ i <= b + c + a => lines[i].kind = "add" /\ lines[i].text = A[i - (b + c)]
      /\ b + c + a < i => lines[i].kind = "ctx" /\ lines[i].text = D[i - (c + a + b)]
  <2>1. CASE i <= b
    BY <1>1, <1>2, <2>1
  <2>2. CASE b < i /\ i <= b + c
    BY <1>1, <1>2, <2>2
  <2>3. CASE b + c < i /\ i <= b + c + a
    BY <1>1, <1>2, <2>3
  <2>4. CASE b + c + a < i
    BY <1>1, <1>2, <2>4
  <2>5. QED
    BY <1>1, <2>1, <2>2, <2>3, <2>4
<1>4. QED
  BY <1>3 DEF b, c, a

(* FlattenRuns, of pieces given one by one.                                 *)
LEMMA PiecesAre ==
  ASSUME NEW n \in Nat, NEW P, DOMAIN P = 1..n, P = [i \in 1..n |-> P[i]],
         NEW c \in Seq(Texts), NEW u \in 0..Len(c), NEW g \in Nat, Len(c) + g =< n,
         \A i \in 1..n : /\ i <= u => P[i] = <<c[i]>>
                         /\ u < i /\ i <= u + g => P[i] = <<>>
                         /\ u + g < i /\ i <= Len(c) + g => P[i] = <<c[i - g]>>
                         /\ Len(c) + g < i => P[i] = <<>>
  PROVE  FlattenSeq(P) = c
<1> DEFINE m == Len(c)
<1>1. m \in Nat /\ u \in Nat /\ u <= m /\ \A i \in 1..m : c[i] \in Texts
  BY LenProperties, ElementOfSeq
<1>2. \A i \in 1..n : /\ i <= u => P[i] = <<c[i]>>
                      /\ u < i /\ i <= u + g => P[i] = <<>>
                      /\ u + g < i /\ i <= m + g => P[i] = <<c[i - g]>>
                      /\ m + g < i => P[i] = <<>>
  OBVIOUS
<1> HIDE DEF m
<1>3. ASSUME NEW i \in 1..n
      PROVE  /\ P[i] = IF i <= u THEN <<c[i]>>
                       ELSE IF i <= u + g THEN <<>>
                       ELSE IF i <= m + g THEN <<c[i - g]>> ELSE <<>>
             /\ P[i] \in Seq(Texts)
  <2>1. CASE i <= u
    <3>1. P[i] = <<c[i]>> /\ c[i] \in Texts
      BY <1>1, <1>2, <2>1
    <3>2. <<c[i]>> \in Seq(Texts)
      BY <3>1, OneLineType
    <3>3. QED
      BY <2>1, <3>1, <3>2
  <2>2. CASE u < i /\ i <= u + g
    <3>1. P[i] = <<>> /\ ~(i <= u)
      BY <1>1, <1>2, <2>2
    <3>2. QED
      BY <2>2, <3>1
  <2>3. CASE u + g < i /\ i <= m + g
    <3>1. ~(i <= u) /\ ~(i <= u + g) /\ i - g \in 1..m
      BY <1>1, <2>3
    <3>2. P[i] = <<c[i - g]>> /\ c[i - g] \in Texts
      BY <1>1, <1>2, <2>3, <3>1
    <3>3. <<c[i - g]>> \in Seq(Texts)
      BY <3>2, OneLineType
    <3>4. QED
      BY <2>3, <3>1, <3>2, <3>3
  <2>4. CASE m + g < i
    <3>1. ~(i <= u) /\ ~(i <= u + g) /\ ~(i <= m + g)
      BY <1>1, <2>4
    <3>2. P[i] = <<>>
      BY <1>2, <2>4
    <3>3. QED
      BY <3>1, <3>2
  <2>5. QED
    BY <1>1, <2>1, <2>2, <2>3, <2>4
<1>4. P \in Seq(Seq(Texts)) /\ Len(P) = n
  <2>1. P \in [1..n -> Seq(Texts)]
    BY <1>3
  <2>2. QED
    BY <2>1, FunctionIsSeq
<1>5. FlattenSeq(P) = c
  <2>1. Runs(P, c, u, g)
    BY <1>3, <1>4 DEF m, Runs
  <2>2. Len(c) + g =< Len(P)
    BY <1>4
  <2>3. QED
    BY <1>4, <2>1, <2>2, FlattenRuns
<1>6. QED
  BY <1>5

LEMMA RemovalsAre ==
  ASSUME NEW lines, NEW B, NEW C, NEW A, NEW D, Made(lines, B, C, A, D)
  PROVE  TextsOf(lines, Removes) = C
<1> DEFINE P == [i \in DOMAIN lines |-> IF Removes(lines[i]) THEN <<lines[i].text>> ELSE <<>>]
           n == Len(lines)
           b == Len(B)
           c == Len(C)
           a == Len(A)
<1>1. /\ b \in Nat /\ c \in Nat /\ a \in Nat /\ n \in Nat /\ b + c <= n
      /\ DOMAIN lines = 1..n
  BY MadeLengths
<1>2. \A i \in 1..n :
         /\ i <= b => lines[i].kind = "ctx"
         /\ b < i /\ i <= b + c => lines[i].kind = "del" /\ lines[i].text = C[i - b]
         /\ b + c < i /\ i <= b + c + a => lines[i].kind = "add"
         /\ b + c + a < i => lines[i].kind = "ctx"
  BY MadeLine
<1>3. \A i \in 1..n : P[i] = IF Removes(lines[i]) THEN <<lines[i].text>> ELSE <<>>
  BY <1>1
<1>4. DOMAIN P = 1..n /\ P = [i \in 1..n |-> P[i]]
  BY <1>1
<1>5. TextsOf(lines, Removes) = FlattenSeq(P)
  BY DEF TextsOf
<1>6. C \in Seq(Texts) /\ 0 \in 0..c /\ c + b <= n
  BY <1>1 DEF Made
<1> HIDE DEF n, b, a, P
<1>7. ASSUME NEW i \in 1..n
      PROVE  /\ i <= 0 => P[i] = <<C[i]>>
             /\ 0 < i /\ i <= 0 + b => P[i] = <<>>
             /\ 0 + b < i /\ i <= c + b => P[i] = <<C[i - b]>>
             /\ c + b < i => P[i] = <<>>
  <2> HIDE DEF c
  <2>1. ~(i <= 0) /\ 0 + b = b /\ c + b = b + c /\ i \in Nat
    BY <1>1
  <2>2. CASE i <= b
    <3>1. ~(b < i) /\ ~(b + c < i)
      BY <1>1, <2>1, <2>2
    <3>2. P[i] = <<>>
      BY <1>2, <1>3, <2>2 DEF Removes
    <3>3. QED
      BY <2>1, <3>1, <3>2
  <2>3. CASE b < i /\ i <= b + c
    <3>1. P[i] = <<C[i - b]>>
      BY <1>2, <1>3, <2>3 DEF Removes
    <3>2. ~(i <= b) /\ ~(b + c < i)
      BY <1>1, <2>1, <2>3
    <3>3. QED
      BY <2>1, <3>1, <3>2
  <2>4. CASE b + c < i
    <3>1. b + c + a < i \/ i <= b + c + a
      BY <1>1, <2>1
    <3>2. P[i] = <<>>
      BY <1>2, <1>3, <2>4, <3>1 DEF Removes
    <3>3. ~(i <= b) /\ ~(i <= b + c)
      BY <1>1, <2>1, <2>4
    <3>4. QED
      BY <2>1, <3>2, <3>3
  <2>5. QED
    BY <1>1, <2>1, <2>2, <2>3, <2>4
<1>8. FlattenSeq(P) = C
  BY <1>1, <1>4, <1>6, <1>7, PiecesAre
<1>9. QED
  BY <1>5, <1>8

LEMMA AdditionsAre ==
  ASSUME NEW lines, NEW B, NEW C, NEW A, NEW D, Made(lines, B, C, A, D)
  PROVE  TextsOf(lines, Adds) = A
<1> DEFINE P == [i \in DOMAIN lines |-> IF Adds(lines[i]) THEN <<lines[i].text>> ELSE <<>>]
           n == Len(lines)
           b == Len(B)
           c == Len(C)
           a == Len(A)
           g == b + c
<1>1. /\ b \in Nat /\ c \in Nat /\ a \in Nat /\ n \in Nat /\ b + c + a <= n
      /\ DOMAIN lines = 1..n
  <2>1. Len(D) \in Nat
    BY MadeLengths
  <2>2. QED
    BY <2>1, MadeLengths
<1>2. \A i \in 1..n :
         /\ i <= b => lines[i].kind = "ctx"
         /\ b < i /\ i <= b + c => lines[i].kind = "del"
         /\ b + c < i /\ i <= b + c + a => lines[i].kind = "add" /\ lines[i].text = A[i - (b + c)]
         /\ b + c + a < i => lines[i].kind = "ctx"
  BY MadeLine
<1>3. \A i \in 1..n : P[i] = IF Adds(lines[i]) THEN <<lines[i].text>> ELSE <<>>
  BY <1>1
<1>4. DOMAIN P = 1..n /\ P = [i \in 1..n |-> P[i]]
  BY <1>1
<1>5. TextsOf(lines, Adds) = FlattenSeq(P)
  BY DEF TextsOf
<1>6. A \in Seq(Texts) /\ 0 \in 0..a /\ a + g <= n /\ g \in Nat
  BY <1>1 DEF Made
<1> HIDE DEF n, b, c, P
<1>7. ASSUME NEW i \in 1..n
      PROVE  /\ i <= 0 => P[i] = <<A[i]>>
             /\ 0 < i /\ i <= 0 + g => P[i] = <<>>
             /\ 0 + g < i /\ i <= a + g => P[i] = <<A[i - g]>>
             /\ a + g < i => P[i] = <<>>
  <2> HIDE DEF a
  <2>1. ~(i <= 0) /\ 0 + g = b + c /\ a + g = b + c + a /\ i \in Nat
    BY <1>1
  <2>2. CASE i <= b + c
    <3>1. ~(b + c < i) /\ ~(b + c + a < i)
      BY <1>1, <2>1, <2>2
    <3>2. i <= b \/ b < i
      BY <1>1, <2>1
    <3>3. P[i] = <<>>
      BY <1>2, <1>3, <2>2, <3>2 DEF Adds
    <3> HIDE DEF g
    <3>4. QED
      BY <2>1, <3>1, <3>3
  <2>3. CASE b + c < i /\ i <= b + c + a
    <3>1. P[i] = <<A[i - g]>>
      BY <1>2, <1>3, <2>3 DEF Adds
    <3>2. ~(i <= b + c) /\ ~(b + c + a < i)
      BY <1>1, <2>1, <2>3
    <3> HIDE DEF g
    <3>3. QED
      BY <2>1, <3>1, <3>2
  <2>4. CASE b + c + a < i
    <3>1. P[i] = <<>>
      BY <1>2, <1>3, <2>4 DEF Adds
    <3>2. ~(i <= b + c) /\ ~(i <= b + c + a)
      BY <1>1, <2>1, <2>4
    <3> HIDE DEF g
    <3>3. QED
      BY <2>1, <3>1, <3>2
  <2>5. QED
    BY <1>1, <2>1, <2>2, <2>3, <2>4
<1> HIDE DEF g
<1>8. FlattenSeq(P) = A
  BY <1>1, <1>4, <1>6, <1>7, PiecesAre
<1>9. QED
  BY <1>5, <1>8

(* What the code reads of such a hunk: its context, before and after.       *)
LEMMA KeptAre ==
  ASSUME NEW lines, NEW B, NEW C, NEW A, NEW D, Made(lines, B, C, A, D)
  PROVE  TextsOf(lines, Keeps) = B \o D
<1> DEFINE P == [i \in DOMAIN lines |-> IF Keeps(lines[i]) THEN <<lines[i].text>> ELSE <<>>]
           n == Len(lines)
           b == Len(B)
           c == Len(C)
           a == Len(A)
           d == Len(D)
           g == c + a
           t == B \o D
<1>1. /\ b \in Nat /\ c \in Nat /\ a \in Nat /\ d \in Nat /\ n \in Nat /\ n = b + c + a + d
      /\ DOMAIN lines = 1..n
  BY MadeLengths
<1>2. \A i \in 1..n :
         /\ i <= b => lines[i].kind = "ctx" /\ lines[i].text = B[i]
         /\ b < i /\ i <= b + c => lines[i].kind = "del"
         /\ b + c < i /\ i <= b + c + a => lines[i].kind = "add"
         /\ b + c + a < i => lines[i].kind = "ctx" /\ lines[i].text = D[i - (c + a + b)]
  BY MadeLine
<1>3. \A i \in 1..n : P[i] = IF Keeps(lines[i]) THEN <<lines[i].text>> ELSE <<>>
  BY <1>1
<1>4. DOMAIN P = 1..n /\ P = [i \in 1..n |-> P[i]]
  BY <1>1
<1>5. TextsOf(lines, Keeps) = FlattenSeq(P)
  BY DEF TextsOf
<1>6. Concats(t, B, D, Texts)
  BY ConcatIs DEF Made
<1>7. /\ t \in Seq(Texts) /\ Len(t) = b + d
      /\ \A i \in 1..(b + d) : t[i] = IF i <= b THEN B[i] ELSE D[i - b]
  BY <1>6 DEF Concats
<1>8. b \in 0..Len(t) /\ Len(t) + g <= n /\ g \in Nat
  BY <1>1, <1>7
<1> HIDE DEF n, b, c, a, d, t, P
<1>9. ASSUME NEW i \in 1..n
      PROVE  /\ i <= b => P[i] = <<t[i]>>
             /\ b < i /\ i <= b + g => P[i] = <<>>
             /\ b + g < i /\ i <= Len(t) + g => P[i] = <<t[i - g]>>
             /\ Len(t) + g < i => P[i] = <<>>
  <2>1. b + g = b + c + a /\ Len(t) + g = n /\ i \in Nat
    BY <1>1, <1>7
  <2>2. CASE i <= b
    <3>1. ~(b < i) /\ ~(b + c + a < i) /\ ~(n < i) /\ i \in 1..(b + d)
      BY <1>1, <2>1, <2>2
    <3>2. P[i] = <<B[i]>> /\ t[i] = B[i]
      BY <1>2, <1>3, <1>7, <2>2, <3>1 DEF Keeps
    <3> HIDE DEF g
    <3>3. QED
      BY <2>1, <3>1, <3>2
  <2>3. CASE b < i /\ i <= b + c + a
    <3>1. (i <= b + c \/ b + c < i) /\ ~(i <= b) /\ ~(b + c + a < i) /\ ~(n < i)
      BY <1>1, <2>1, <2>3
    <3>2. P[i] = <<>>
      BY <1>2, <1>3, <2>3, <3>1 DEF Keeps
    <3> HIDE DEF g
    <3>3. QED
      BY <2>1, <3>1, <3>2
  <2>4. CASE b + c + a < i
    <3> DEFINE j == i - g
    <3>1. /\ j \in 1..(b + d) /\ ~(j <= b) /\ j - b = i - (c + a + b)
          /\ ~(i <= b) /\ ~(i <= b + c + a) /\ ~(n < i)
      BY <1>1, <2>1, <2>4
    <3>2. P[i] = <<D[i - (c + a + b)]>>
      BY <1>2, <1>3, <2>4 DEF Keeps
    <3> HIDE DEF j
    <3>3. t[j] = D[i - (c + a + b)]
      BY <1>7, <3>1
    <3>4. t[i - g] = D[i - (c + a + b)]
      BY <3>3 DEF j
    <3> HIDE DEF g
    <3>5. QED
      BY <2>1, <3>1, <3>2, <3>4
  <2>5. QED
    BY <1>1, <2>1, <2>2, <2>3, <2>4
<1> HIDE DEF g
<1>10. FlattenSeq(P) = t
  BY <1>1, <1>4, <1>7, <1>8, <1>9, PiecesAre
<1>11. QED
  BY <1>5, <1>10 DEF t

(* The lines kept before a change are read as they are.                     *)
LEMMA BeginningKept ==
  ASSUME NEW lines, NEW B, NEW C, NEW A, NEW D, Made(lines, B, C, A, D),
         Len(C) + Len(A) # 0
  PROVE  TextsOf(SubSeq(lines, 1, Len(B) + 1), Keeps) = B
<1> DEFINE b == Len(B)
           m == b + 1
           l == SubSeq(lines, 1, m)
           P == [i \in DOMAIN l |-> IF Keeps(l[i]) THEN <<l[i].text>> ELSE <<>>]
<1>1. /\ b \in Nat /\ m \in Nat /\ m \in 0..Len(lines) /\ Len(lines) \in Nat
      /\ Len(C) \in Nat /\ Len(A) \in Nat /\ m <= Len(B) + Len(C) + Len(A)
  BY MadeLengths
<1>2. \A i \in 1..m : i \in 1..Len(lines) /\ (i <= b \/ i = m)
  BY <1>1
<1>3. /\ l \in Seq(PlainLine) /\ Len(l) = m
      /\ \A i \in 1..m : l[i] = lines[i]
  <2>1. lines \in Seq(PlainLine)
    BY DEF Made
  <2> HIDE DEF m
  <2>2. QED
    BY <1>1, <2>1, BeginningType
<1>4. DOMAIN l = 1..m
  BY <1>3, LenProperties
<1>5. \A i \in 1..m : i <= b => l[i].kind = "ctx" /\ l[i].text = B[i]
  BY <1>2, <1>3, MadeLine
<1>6. l[m].kind # "ctx"
  <2>1. m \in 1..Len(lines) /\ m \in 1..m /\ Len(B) < m
    BY <1>1
  <2>2. /\ Len(B) < m /\ m <= Len(B) + Len(C) => lines[m].kind = "del"
        /\ Len(B) + Len(C) < m /\ m <= Len(B) + Len(C) + Len(A) => lines[m].kind = "add"
    BY <2>1, MadeLine
  <2>3. m <= Len(B) + Len(C) \/ Len(B) + Len(C) < m
    BY <1>1
  <2>4. lines[m].kind \in {"del", "add"}
    BY <1>1, <2>1, <2>2, <2>3
  <2>5. QED
    BY <1>3, <2>1, <2>4
<1>7. DOMAIN P = 1..m /\ P = [i \in 1..m |-> P[i]]
  BY <1>4
<1>8. \A i \in 1..m : P[i] = IF Keeps(l[i]) THEN <<l[i].text>> ELSE <<>>
  BY <1>4
<1>9. TextsOf(l, Keeps) = FlattenSeq(P)
  BY DEF TextsOf
<1>10. B \in Seq(Texts) /\ b \in 0..b /\ 0 \in Nat /\ b + 0 <= m
  BY <1>1 DEF Made
<1> HIDE DEF P, l
<1>11. ASSUME NEW i \in 1..m
       PROVE  /\ i <= b => P[i] = <<B[i]>>
              /\ b < i /\ i <= b + 0 => P[i] = <<>>
              /\ b + 0 < i /\ i <= b + 0 => P[i] = <<B[i - 0]>>
              /\ b + 0 < i => P[i] = <<>>
  <2>1. b + 0 = b /\ i \in Nat /\ (b < i => i = m /\ ~(i <= b))
    BY <1>1
  <2>2. i <= b => P[i] = <<B[i]>>
    BY <1>5, <1>8 DEF Keeps
  <2>3. i = m => P[i] = <<>>
    BY <1>6, <1>8 DEF Keeps
  <2> HIDE DEF b, m
  <2>4. QED
    BY <2>1, <2>2, <2>3
<1> HIDE DEF m
<1>12. FlattenSeq(P) = B
  BY <1>1, <1>7, <1>10, <1>11, PiecesAre
<1>13. QED
  BY <1>9, <1>12 DEF l, m

(* What a hunk made of these lines says.                                    *)
LEMMA HunkSays ==
  ASSUME NEW lines, NEW B, NEW C, NEW A, NEW D, Made(lines, B, C, A, D)
  PROVE  /\ Removals(lines) = C /\ Additions(lines) = A
         /\ Len(C) + Len(A) # 0 => CtxBefore(lines) = B /\ CtxAfter(lines) = D
         /\ Len(C) + Len(A) = 0 => CtxBefore(lines) = B \o D /\ CtxAfter(lines) = <<>>
<1> DEFINE I == {i \in 1..Len(lines) : Removes(lines[i]) \/ Adds(lines[i])}
           b == Len(B)
<1>1. FirstChange(lines) = IF I # {} THEN Min(I) ELSE 0
  BY DEF FirstChange, SelectInSeq
<1>2. /\ b \in Nat /\ Len(C) \in Nat /\ Len(A) \in Nat /\ Len(D) \in Nat /\ Len(lines) \in Nat
      /\ Len(lines) = b + Len(C) + Len(A) + Len(D)
  BY MadeLengths
<1>3. TextsOf(lines, Keeps) = B \o D
  BY KeptAre
<1>4. /\ B \o D \in Seq(Texts) /\ Len(B \o D) = b + Len(D)
      /\ \A i \in 1..(b + Len(D)) : (B \o D)[i] = IF i <= b THEN B[i] ELSE D[i - b]
  <2>1. Concats(B \o D, B, D, Texts)
    BY ConcatIs DEF Made
  <2>2. QED
    BY <2>1 DEF Concats
<1>5. ASSUME Len(C) + Len(A) # 0 PROVE CtxBefore(lines) = B /\ CtxAfter(lines) = D
  <2>1. \A i \in I : i > b
    <3> TAKE i \in I
    <3>1. i <= b => lines[i].kind = "ctx"
      BY MadeLine
    <3>2. ~(i <= b)
      BY <3>1 DEF Removes, Adds
    <3>3. QED
      BY <1>2, <3>2
  <2>2. b + 1 \in I
    <3> DEFINE m == b + 1
    <3>1. m \in 1..Len(lines) /\ b < m /\ m <= b + Len(C) + Len(A)
      BY <1>2, <1>5
    <3>2. m <= b + Len(C) \/ b + Len(C) < m
      BY <1>2
    <3>3. lines[m].kind \in {"del", "add"}
      BY <3>1, <3>2, MadeLine
    <3> HIDE DEF m, b
    <3>4. QED
      BY <3>1, <3>3 DEF Removes, Adds, m
  <2>3. Min(I) = b + 1
    <3>1. I \in SUBSET Nat /\ I # {}
      BY <2>2
    <3> HIDE DEF I
    <3>2. Min(I) \in I /\ \A x \in I : Min(I) =< x
      BY <3>1, MinOf
    <3> DEFINE k == Min(I)
    <3>3. k =< b + 1 /\ k > b /\ k \in Nat
      BY <2>1, <2>2, <3>1, <3>2
    <3> HIDE DEF k, b
    <3>4. k = b + 1
      BY <1>2, <3>3
    <3>5. QED
      BY <3>4 DEF k
  <2>4. FirstChange(lines) = b + 1 /\ FirstChange(lines) # 0
    <3>1. I # {} /\ b + 1 # 0
      BY <1>2, <2>2
    <3> HIDE DEF I
    <3>2. QED
      BY <1>1, <2>3, <3>1
  <2>5. CtxBefore(lines) = B
    BY <1>5, <2>4, BeginningKept DEF CtxBefore
  <2>6. CtxAfter(lines) = SubSeq(B \o D, b + 1, b + Len(D))
    BY <1>3, <1>4, <2>5 DEF CtxAfter
  <2>7. SubSeq(B \o D, b + 1, b + Len(D)) = D
    <3> DEFINE t == B \o D
               d == Len(D)
               s == SubSeq(t, b + 1, b + d)
    <3>1. b + 1 \in Int /\ b + d \in Int /\ d \in Nat /\ D \in Seq(Texts)
      BY <1>2 DEF Made
    <3>2. \A i \in (b + 1)..(b + d) : t[i] \in Texts
      <4>1. \A i \in (b + 1)..(b + d) : i \in 1..Len(t)
        BY <1>2, <1>4
      <4> HIDE DEF t, d, b
      <4>2. QED
        BY <1>4, <4>1, ElementOfSeq DEF t
    <3>3. \A i \in 1..(b + d) : t[i] = IF i <= b THEN B[i] ELSE D[i - b]
      BY <1>4
    <3> HIDE DEF t
    <3>4. /\ s \in Seq(Texts)
          /\ Len(s) = IF b + 1 =< b + d THEN b + d - (b + 1) + 1 ELSE 0
          /\ \A i \in 1..(b + d - (b + 1) + 1) : s[i] = t[b + 1 + i - 1]
      BY <3>1, <3>2, SubSeqProperties
    <3>5. b + d - (b + 1) + 1 = d /\ Len(s) = d
      BY <1>2, <3>1, <3>4
    <3>6. \A i \in 1..d : s[i] = D[i]
      <4> TAKE i \in 1..d
      <4>1. /\ i \in 1..(b + d - (b + 1) + 1) /\ b + 1 + i - 1 = b + i
            /\ b + i \in 1..(b + d) /\ ~(b + i <= b) /\ (b + i) - b = i
        BY <1>2, <3>1
      <4> HIDE DEF s, b, d
      <4>2. s[i] = t[b + i]
        BY <3>4, <4>1
      <4>3. t[b + i] = D[(b + i) - b]
        BY <3>3, <4>1
      <4>4. QED
        BY <4>1, <4>2, <4>3
    <3> HIDE DEF s
    <3>7. s = D
      BY <3>1, <3>4, <3>5, <3>6, SeqEqual
    <3>8. QED
      BY <3>7 DEF s, t
  <2>8. QED
    BY <2>5, <2>6, <2>7
<1>6. ASSUME Len(C) + Len(A) = 0 PROVE CtxBefore(lines) = B \o D /\ CtxAfter(lines) = <<>>
  <2>1. I = {}
    <3> SUFFICES ASSUME NEW i \in I PROVE FALSE
      OBVIOUS
    <3>1. i <= b \/ b + Len(C) + Len(A) < i
      BY <1>2, <1>6
    <3>2. lines[i].kind = "ctx"
      BY <3>1, MadeLine
    <3>3. QED
      BY <3>2 DEF Removes, Adds
  <2>2. FirstChange(lines) = 0
    BY <1>1, <2>1
  <2>3. CtxBefore(lines) = B \o D
    BY <1>3, <2>2 DEF CtxBefore
  <2> DEFINE t == B \o D
             n == Len(t)
  <2>4. CtxAfter(lines) = SubSeq(t, n + 1, n)
    BY <1>3, <2>3 DEF CtxAfter
  <2>5. SubSeq(t, n + 1, n) = <<>>
    <3>1. n \in Nat /\ n + 1 \in Int /\ n \in Int /\ ~(n + 1 =< n)
      BY <1>2, <1>4
    <3>2. \A i \in (n + 1)..n : t[i] \in Texts
      BY <3>1
    <3>3. SubSeq(t, n + 1, n) \in Seq(Texts) /\ Len(SubSeq(t, n + 1, n)) = 0
      <4> HIDE DEF t, n
      <4>1. QED
        BY <3>1, <3>2, SubSeqProperties
    <3>4. QED
      BY <3>3, EmptySeq
  <2>6. QED
    BY <2>3, <2>4, <2>5
<1>7. Removals(lines) = C /\ Additions(lines) = A
  BY RemovalsAre, AdditionsAre DEF Removals, Additions
<1>8. QED
  BY <1>5, <1>6, <1>7

-----------------------------------------------------------------------------
(*********************** what a patch makes of files ***********************)
(* The folds of UnifiedDiff, whose definitions are recursive: of one edit,  *)
(* and of none.                                                             *)
LEMMA EditedOnce ==
  ASSUME NEW content, NEW e
  PROVE  Edited(content, <<e>>) = Splice(content, e.at + e.before - 1, e.cut, e.adds)
<1> DEFINE S == {1}
           r == Splice(content, e.at + e.before - 1, e.cut, e.adds)
           Op(d, c) == Splice(c, d.at + d.before - 1, d.cut, d.adds)
           Bump(h) == [s \in SUBSET S |-> IF s = {} THEN content
                                          ELSE Op(<<e>>[Min(s)], h[s \ {Min(s)}])]
           C == CHOOSE h : h = Bump(h)
           F == [s \in SUBSET S |-> IF s = {} THEN content ELSE r]
<1>1. Edited(content, <<e>>) = C[S]
  <2>1. DOMAIN <<e>> = S
    OBVIOUS
  <2>2. QED
    BY <2>1 DEF Edited, FoldRight, MapThenFoldSet
<1>2. SUBSET S = {{}, S} /\ S # {} /\ Min(S) = 1 /\ S \ {1} = {} /\ <<e>>[1] = e
  <2>1. Min(S) = 1
    <3>1. S \in SUBSET Nat /\ S # {}
      OBVIOUS
    <3>2. Min(S) \in S
      BY <3>1, MinOf
    <3>3. QED
      BY <3>2
  <2>2. QED
    BY <2>1
<1>3. F = Bump(F)
  <2>1. ASSUME NEW s \in SUBSET S PROVE F[s] = Bump(F)[s]
    <3>1. CASE s = {}
      BY <3>1
    <3>2. CASE s = S
      <4>1. F[s] = r
        BY <1>2, <3>2
      <4>2. Bump(F)[s] = Op(<<e>>[Min(s)], F[s \ {Min(s)}])
        BY <1>2, <3>2
      <4>3. <<e>>[Min(s)] = e /\ s \ {Min(s)} = {} /\ F[{}] = content
        BY <1>2, <3>2
      <4>4. Bump(F)[s] = Op(e, content)
        BY <4>2, <4>3
      <4>5. QED
        BY <4>1, <4>4
    <3>3. QED
      BY <1>2, <3>1, <3>2
  <2>2. Bump(F) = [s \in SUBSET S |-> Bump(F)[s]] /\ F = [s \in SUBSET S |-> F[s]]
    OBVIOUS
  <2> HIDE DEF F, Bump
  <2>3. QED
    BY <2>1, <2>2
<1>4. C = Bump(C)
  <2> HIDE DEF Bump
  <2>1. QED
    BY <1>3
<1> HIDE DEF C
<1>5. \A s \in SUBSET S : C[s] = IF s = {} THEN content
                                 ELSE Op(<<e>>[Min(s)], C[s \ {Min(s)}])
  BY <1>4
<1>6. C[S] = Op(e, C[{}]) /\ C[{}] = content
  <2>1. S \in SUBSET S /\ {} \in SUBSET S
    OBVIOUS
  <2> HIDE DEF S, Op, Bump
  <2>2. QED
    BY <1>2, <1>5, <2>1
<1>7. QED
  BY <1>1, <1>6

(* One edit is said to begin where it begins, or a line before.             *)
LEMMA StartsOnce ==
  ASSUME NEW e \in PlainEdit, NewLen(e) \in Nat
  PROVE  NewStart(<<e>>, 1) = e.at - (IF NewLen(e) = 0 THEN 1 ELSE 0)
<1> DEFINE z == SubSeq(<<e>>, 1, 1 - 1)
           Op(n, d) == n + NewLen(d) - OldLen(d)
           S == DOMAIN z
           Bump(h) == [s \in SUBSET S |-> IF s = {} THEN 0
                                          ELSE Op(h[s \ {Max(s)}], z[Max(s)])]
           C == CHOOSE h : h = Bump(h)
           F == [s \in SUBSET S |-> 0]
<1>1. S = {} /\ SUBSET S = {{}}
  <2>1. z = <<>>
    OBVIOUS
  <2>2. QED
    BY <2>1
<1>2. FoldLeft(LAMBDA n, d : n + NewLen(d) - OldLen(d), 0, z) = C[S]
  BY DEF FoldLeft, MapThenFoldSet
<1> HIDE DEF z, S
<1>3. F = Bump(F)
  BY <1>1
<1>4. C = Bump(C)
  <2> HIDE DEF Bump
  <2>1. QED
    BY <1>3
<1> HIDE DEF C
<1>5. C[S] = 0
  BY <1>1, <1>4
<1>6. NewStart(<<e>>, 1) = e.at - (IF NewLen(e) = 0 THEN 1 ELSE 0) + C[S]
  BY <1>2 DEF NewStart, z
<1>7. e.at \in Nat
  BY DEF PlainEdit
<1>8. QED
  BY <1>5, <1>6, <1>7

(* What a section makes of files.                                           *)
LEMMA SectionMakes ==
  ASSUME NEW f, DOMAIN f = Names, f = [p \in Names |-> f[p]],
         NEW section, section.path \in Names, section.does \in {"create", "delete", "modify"}
  PROVE  LET g == SectionResult(f, section)
             q == section.path
         IN  /\ DOMAIN g = Names /\ g = [p \in Names |-> g[p]]
             /\ \A p \in Names : p # q => g[p] = f[p]
             /\ section.does = "modify" => g[q] = Edited(f[q], section.edits)
             /\ section.does = "create" => g[q] = section.content
             /\ section.does = "delete" => g[q] = Absent
<1> DEFINE q == section.path
           v == CASE section.does = "modify" -> Edited(f[q], section.edits)
                  [] section.does = "create" -> section.content
                  [] section.does = "delete" -> Absent
           g == SectionResult(f, section)
<1>1. g = [f EXCEPT ![q] = v]
  BY DEF SectionResult
<1>2. /\ section.does = "modify" => v = Edited(f[q], section.edits)
      /\ section.does = "create" => v = section.content
      /\ section.does = "delete" => v = Absent
  OBVIOUS
<1> HIDE DEF v, g, q
<1>3. /\ DOMAIN g = Names /\ g = [p \in Names |-> g[p]]
      /\ \A p \in Names : p # q => g[p] = f[p]
  BY <1>1
<1>4. g[q] = v
  BY <1>1 DEF q
<1>5. QED
  BY <1>2, <1>3, <1>4 DEF g, q

(* What a patch makes of its files, file by file: of each of them what its  *)
(* section makes of it, and of the others nothing.                          *)
LEMMA IntendedIs ==
  ASSUME NEW version, NEW patch, PlanFits(version, patch)
  PROVE  /\ Intended(version, patch) \in [Names -> {Intended(version, patch)[p] : p \in Names}]
         /\ \A i \in DOMAIN patch :
              Intended(version, patch)[patch[i].path]
                = SectionResult(version, patch[i])[patch[i].path]
         /\ \A p \in Names : (\A i \in DOMAIN patch : patch[i].path # p)
                                => Intended(version, patch)[p] = version[p]
<1> DEFINE S == DOMAIN patch
           Makes(i) == SectionResult(version, patch[i])[patch[i].path]
           Of(s, p) == IF \E i \in s : patch[i].path = p
                         THEN Makes(CHOOSE i \in s : patch[i].path = p) ELSE version[p]
           F == [s \in SUBSET S |-> [p \in Names |-> Of(s, p)]]
           Bump(h) == [s \in SUBSET S |-> IF s = {} THEN version
                                          ELSE SectionResult(h[s \ {Max(s)}], patch[Max(s)])]
           C == CHOOSE h : h = Bump(h)
<1>1. /\ patch \in Seq(PlainSection) /\ version \in [Names -> {Absent} \cup Seq(Texts)]
      /\ \A i \in S : patch[i] \in PlainSection /\ patch[i].path \in Names
      /\ \A i \in S : patch[i].does \in {"create", "delete", "modify"}
      /\ \A i, j \in S : patch[i].path = patch[j].path => i = j
  <2>1. version \in [Names -> {Absent} \cup Seq(Texts)]
    BY DEF PlanFits, PlainFiles
  <2>2. \A i \in S : SectionFits(version, patch[i])
    BY SectionsFit
  <2>3. \A i \in S : patch[i] \in PlainSection
    BY <2>2 DEF SectionFits
  <2>4. \A i, j \in S : patch[i].path = patch[j].path => i = j
    BY DEF PlanFits, WrittenFor
  <2>5. patch \in Seq(PlainSection)
    BY SectionsFit
  <2>6. \A i \in S : patch[i].path \in Names /\ patch[i].does \in {"create", "delete", "modify"}
    BY <2>3 DEF PlainSection
  <2>7. QED
    BY <2>1, <2>3, <2>4, <2>5, <2>6
<1>2. Intended(version, patch) = C[S]
  BY DEF Intended, FoldLeft, MapThenFoldSet
<1>3. IsFiniteSet(S) /\ \E n \in Nat : S = 1..n
  <2>1. Len(patch) \in Nat /\ S = 1..Len(patch)
    BY <1>1, LenProperties
  <2> HIDE DEF S
  <2>2. QED
    BY <2>1, FS_Interval
<1>4. ASSUME NEW s \in SUBSET S, s # {} PROVE Max(s) \in s
  <2>1. PICK n \in Nat : S = 1..n
    BY <1>3
  <2>2. s \in SUBSET (0..n)
    BY <2>1
  <2>3. QED
    BY <1>4, <2>2, MaxOf
<1> HIDE DEF S
<1>5. ASSUME NEW s \in SUBSET S, NEW i \in s PROVE Of(s, patch[i].path) = Makes(i)
  <2>1. \E j \in s : patch[j].path = patch[i].path
    OBVIOUS
  <2> DEFINE j == CHOOSE j \in s : patch[j].path = patch[i].path
  <2>2. j \in s /\ patch[j].path = patch[i].path
    BY <2>1
  <2>3. j = i
    BY <1>1, <2>2
  <2> HIDE DEF j
  <2>4. Of(s, patch[i].path) = Makes(j)
    BY <2>1 DEF j
  <2>5. QED
    BY <2>3, <2>4
(* One section more.                                                        *)
<1>6. ASSUME NEW s \in SUBSET S, NEW i \in s
      PROVE  SectionResult([p \in Names |-> Of(s \ {i}, p)], patch[i]) = [p \in Names |-> Of(s, p)]
  <2> DEFINE less == [p \in Names |-> Of(s \ {i}, p)]
             q == patch[i].path
             now == SectionResult(less, patch[i])
  <2>1. q \in Names /\ i \in S
    BY <1>1
  <2>2. less[q] = version[q]
    <3>1. ~\E j \in s \ {i} : patch[j].path = q
      BY <1>1
    <3>2. QED
      BY <2>1, <3>1
  <2>3. DOMAIN less = Names /\ less = [p \in Names |-> less[p]] /\ DOMAIN version = Names
    BY <1>1
  <2>4. \A p \in Names : p # q => less[p] = Of(s, p)
    <3> TAKE p \in Names
    <3> HAVE p # q
    <3>1. \A j : j \in s /\ patch[j].path = p <=> j \in s \ {i} /\ patch[j].path = p
      OBVIOUS
    <3>2. (\E j \in s : patch[j].path = p) <=> (\E j \in s \ {i} : patch[j].path = p)
      BY <3>1
    <3>3. (CHOOSE j \in s : patch[j].path = p) = (CHOOSE j \in s \ {i} : patch[j].path = p)
      BY <3>1
    <3>4. Of(s, p) = Of(s \ {i}, p)
      BY <3>2, <3>3
    <3>5. QED
      BY <3>4
  <2> HIDE DEF less
  <2>5. now[q] = Makes(i)
    <3>1. version = [p \in Names |-> version[p]] /\ patch[i].does \in {"create", "delete", "modify"}
      BY <1>1, <2>1
    <3> DEFINE made == SectionResult(version, patch[i])
    <3>2. /\ patch[i].does = "modify" => now[q] = Edited(less[q], patch[i].edits)
          /\ patch[i].does = "create" => now[q] = patch[i].content
          /\ patch[i].does = "delete" => now[q] = Absent
      BY <2>1, <2>3, <3>1, SectionMakes
    <3>3. /\ patch[i].does = "modify" => made[q] = Edited(version[q], patch[i].edits)
          /\ patch[i].does = "create" => made[q] = patch[i].content
          /\ patch[i].does = "delete" => made[q] = Absent
      BY <2>1, <2>3, <3>1, SectionMakes
    <3>4. Makes(i) = made[q]
      OBVIOUS
    <3> HIDE DEF now, made, Makes, q
    <3>5. QED
      BY <2>2, <3>1, <3>2, <3>3, <3>4
  <2>6. (\A p \in Names : p # q => now[p] = less[p]) /\ now = [p \in Names |-> now[p]]
    <3>1. patch[i].does \in {"create", "delete", "modify"}
      BY <1>1, <2>1
    <3>2. QED
      BY <2>1, <2>3, <3>1, SectionMakes
  <2>7. Of(s, q) = Makes(i)
    BY <1>5
  <2> HIDE DEF now, Of, Makes
  <2>8. \A p \in Names : now[p] = Of(s, p)
    BY <2>4, <2>5, <2>6, <2>7
  <2>9. now = [p \in Names |-> Of(s, p)]
    BY <2>6, <2>8
  <2>10. QED
    BY <2>9 DEF now, less
<1>7. [p \in Names |-> Of({}, p)] = version
  <2>1. \A p \in Names : Of({}, p) = version[p]
    OBVIOUS
  <2>2. QED
    BY <1>1, <2>1
<1> HIDE DEF Of, Makes
<1>8. \A s \in SUBSET S : F[s] = IF s = {} THEN version
                                ELSE SectionResult(F[s \ {Max(s)}], patch[Max(s)])
  <2> TAKE s \in SUBSET S
  <2>1. CASE s = {}
    BY <1>7, <2>1
  <2>2. CASE s # {}
    <3> DEFINE m == Max(s)
    <3>1. m \in s
      BY <1>4, <2>2
    <3> HIDE DEF m
    <3>2. s \ {m} \in SUBSET S
      OBVIOUS
    <3>3. F[s] = [p \in Names |-> Of(s, p)] /\ F[s \ {m}] = [p \in Names |-> Of(s \ {m}, p)]
      BY <3>2
    <3> HIDE DEF F
    <3>4. SectionResult(F[s \ {m}], patch[m]) = F[s]
      BY <1>6, <3>1, <3>3
    <3>5. QED
      BY <2>2, <3>4 DEF m
  <2>3. QED
    BY <2>1, <2>2
<1>9. F = Bump(F)
  <2>1. F = [s \in SUBSET S |-> F[s]]
    OBVIOUS
  <2> HIDE DEF F
  <2>2. QED
    BY <1>8, <2>1
<1>10. C = Bump(C)
  <2> HIDE DEF Bump, F
  <2>1. QED
    BY <1>9
<1> HIDE DEF C, F
<1>11. \A s \in SUBSET S : C[s] = IF s = {} THEN version
                                 ELSE SectionResult(C[s \ {Max(s)}], patch[Max(s)])
  BY <1>10
<1> DEFINE Bad == {s \in SUBSET S : C[s] # F[s]}
<1>12. Bad = {}
  <2> SUFFICES ASSUME Bad # {} PROVE FALSE
    OBVIOUS
  <2>1. PICK s \in Bad : \A t \in Bad : t \subseteq s => t = s
    <3>1. Bad \subseteq SUBSET S
      OBVIOUS
    <3> HIDE DEF Bad
    <3>2. IsFiniteSet(S)
      BY <1>3
    <3>3. Bad # {}
      OBVIOUS
    <3>4. QED
      BY <3>1, <3>2, <3>3, LeastSubset
  <2>2. s \in SUBSET S /\ C[s] # F[s]
    BY <2>1
  <2> DEFINE m == Max(s)
  <2>3. s # {}
    BY <1>8, <1>11, <2>2
  <2>4. m \in s
    BY <1>4, <2>2, <2>3
  <2>5. C[s \ {m}] = F[s \ {m}]
    <3> HIDE DEF m
    <3>1. s \ {m} \in SUBSET S /\ s \ {m} # s /\ s \ {m} \subseteq s
      BY <2>2, <2>4
    <3>2. s \ {m} \notin Bad
      <4> HIDE DEF Bad
      <4>1. QED
        BY <2>1, <3>1
    <3>3. QED
      BY <3>1, <3>2
  <2>6. C[s] = SectionResult(C[s \ {m}], patch[m]) /\ F[s] = SectionResult(F[s \ {m}], patch[m])
    BY <1>8, <1>11, <2>2, <2>3
  <2> HIDE DEF m
  <2>7. QED
    BY <2>2, <2>5, <2>6
<1>13. C[S] = [p \in Names |-> Of(S, p)]
  <2>1. C[S] = F[S]
    <3>1. S \in SUBSET S
      OBVIOUS
    <3>2. QED
      BY <1>12, <3>1
  <2>2. QED
    BY <2>1 DEF F
<1>14. \A p \in Names : Intended(version, patch)[p] = Of(S, p)
  BY <1>2, <1>13
<1>15. \A i \in S : Of(S, patch[i].path) = Makes(i)
  BY <1>5
<1>16. \A p \in Names : (\A i \in S : patch[i].path # p) => Of(S, p) = version[p]
  BY DEF Of
<1>17. \A i \in S : Intended(version, patch)[patch[i].path] = Makes(i)
  BY <1>1, <1>14, <1>15
<1>18. \A p \in Names : (\A i \in S : patch[i].path # p) => Intended(version, patch)[p] = version[p]
  BY <1>14, <1>16
<1>19. QED
  BY <1>2, <1>13, <1>17, <1>18 DEF S, Makes

(* What is written back is what was made, but for a blank line at the end.  *)
LEMMA JoinedIsSame ==
  ASSUME NEW lines \in PlainContent, NEW original PROVE Same(Joined(lines, original), lines)
<1> DEFINE made == Joined(lines, original)
<1>1. lines \in Seq(Line) /\ made \in Seq(Line) /\ Blank \in Line
  BY JoinedType, PatchAssumption DEF PlainContent, Line
<1>2. Absent \notin {made, lines}
  BY <1>1, PlainApart DEF Line
<1>3. CASE lines = <<>>
  <2>1. made = <<>> \/ made = <<Blank>>
    BY <1>3 DEF Joined
  <2>2. Append(lines, Blank) = <<Blank>>
    BY <1>3
  <2> HIDE DEF made
  <2>3. made = lines \/ made = Append(lines, Blank)
    BY <1>3, <2>1, <2>2, Zenon
  <2>4. QED
    BY <1>2, <2>3 DEF Same, made
<1>4. CASE lines # <<>> /\ ~(Len(lines) > 1 /\ Last(lines) = Blank)
  BY <1>4 DEF Joined, Same
<1>5. CASE lines # <<>> /\ Len(lines) > 1 /\ Last(lines) = Blank
  <2>1. made = Front(lines)
    BY <1>5 DEF Joined
  <2>2. Len(lines) \in Nat /\ Len(lines) - 1 \in Nat /\ (Len(lines) - 1) + 1 =< Len(lines)
    BY <1>1, <1>5, LenProperties
  <2> DEFINE k == Len(lines) - 1
  <2>3. k \in 0..Len(lines) /\ k + 1 = Len(lines)
    BY <2>2
  <2>4. SubSeq(lines, 1, k) \in Seq(Line) /\ SubSeq(lines, 1, k) = made
    BY <1>1, <2>1, <2>3, BeginningType DEF Front
  <2> HIDE DEF k, made
  <2>5. SubSeq(lines, 1, k) \o <<lines[k + 1]>> = SubSeq(lines, 1, k + 1)
    BY <1>1, <2>3, OneMoreOf
  <2>6. lines[k + 1] = Blank /\ SubSeq(lines, 1, k + 1) = lines
    BY <1>1, <1>5, <2>3, SubSeqFull DEF Last
  <2>7. made \o <<Blank>> = lines
    BY <2>4, <2>5, <2>6
  <2>8. made \o <<Blank>> = Append(made, Blank)
    BY <1>1, AppendIsConcat
  <2>9. QED
    BY <1>2, <2>7, <2>8 DEF Same, made
<1>6. QED
  BY <1>3, <1>4, <1>5

LEMMA SpliceNothing ==
  ASSUME NEW S, NEW c \in Seq(S), NEW n \in 0..Len(c)
  PROVE  Splice(c, n, 0, <<>>) = c
<1> DEFINE b == SubSeq(c, 1, n)
           m == Lines(c, n + 1, 0)
           r == SubSeq(c, n + 0 + 1, Len(c))
<1>1. n \in Nat /\ 0 \in Nat /\ n + 0 =< Len(c) /\ Len(c) \in Nat
  BY LenProperties
<1>2. /\ b \in Seq(S) /\ m \in Seq(S) /\ r \in Seq(S)
      /\ c = b \o m \o r
  BY <1>1, SpliceParts
<1>3. m = <<>>
  <2>1. n + 1 \in Nat \ {0} /\ n + 1 + 0 - 1 =< Len(c)
    BY <1>1
  <2>2. Len(m) = 0
    BY <1>1, <2>1, LinesType
  <2> HIDE DEF m
  <2>3. QED
    BY <1>2, <2>2, EmptySeq
<1>4. Splice(c, n, 0, <<>>) = b \o <<>> \o r
  BY DEF Splice
<1> HIDE DEF b, m, r
<1>5. QED
  BY <1>2, <1>3, <1>4

(* The lines of an edit one after the other are lines of its file.          *)
LEMMA PartsTogether ==
  ASSUME NEW content \in Seq(Texts), NEW e, EditFits(content, e)
  PROVE  LET B == Lines(content, e.at, e.before)
             C == Lines(content, e.at + e.before, e.cut)
             D == Lines(content, e.at + e.before + e.cut, e.after)
         IN  /\ B \o C \o D = Lines(content, e.at, OldLen(e))
             /\ Len(B) = e.before /\ Len(C) = e.cut /\ Len(D) = e.after
<1> DEFINE at == e.at
           b == e.before
           c == e.cut
           d == e.after
           len == Len(content)
           i == at + b
           j == at + b + c
<1>1. /\ at \in Nat \ {0} /\ b \in Nat /\ c \in Nat /\ d \in Nat /\ len \in Nat
      /\ at + (b + c + d) - 1 =< len
  <2>1. len \in Nat
    BY LenProperties
  <2>2. QED
    BY <2>1 DEF EditFits, PlainEdit, OldLen
<1> HIDE DEF at, b, c, d, len
<1>2. /\ i \in Nat \ {0} /\ j \in Nat \ {0}
      /\ at + b - 1 =< len /\ i + c - 1 =< len /\ j + d - 1 =< len
      /\ at + b - 1 + 1 = i /\ i + c - 1 + 1 = j
      /\ j + d - 1 = at + (b + c + d) - 1
      /\ at \in 1..(len + 1) /\ at + b - 1 \in (at - 1)..len /\ i + c - 1 \in (at + b - 1)..len
      /\ i + c - 1 \in (at - 1)..len /\ j + d - 1 \in (i + c - 1)..len
  BY <1>1
<1> HIDE DEF i, j
<1>3. /\ Len(Lines(content, at, b)) = b
      /\ Len(Lines(content, i, c)) = c
      /\ Len(Lines(content, j, d)) = d
  BY <1>1, <1>2, LinesType DEF len
<1>4. Lines(content, at, b) \o Lines(content, i, c) = SubSeq(content, at, i + c - 1)
  <2> DEFINE k == at + b - 1
             l == i + c - 1
  <2>1. k + 1 = i /\ at \in 1..(len + 1) /\ k \in (at - 1)..len /\ l \in k..len
    BY <1>2
  <2> HIDE DEF k, l
  <2>2. SubSeq(content, at, k) \o SubSeq(content, k + 1, l) = SubSeq(content, at, l)
    BY <2>1, ConcatAdjacentSubSeq DEF len
  <2>3. QED
    BY <2>1, <2>2 DEF Lines, k, l
<1>5. SubSeq(content, at, i + c - 1) \o Lines(content, j, d) = SubSeq(content, at, at + (b + c + d) - 1)
  <2> DEFINE k == i + c - 1
             l == j + d - 1
  <2>1. k + 1 = j /\ at \in 1..(len + 1) /\ k \in (at - 1)..len /\ l \in k..len
    BY <1>2
  <2>2. l = at + (b + c + d) - 1
    BY <1>2
  <2> HIDE DEF k, l
  <2>3. SubSeq(content, at, k) \o SubSeq(content, k + 1, l) = SubSeq(content, at, l)
    BY <2>1, ConcatAdjacentSubSeq DEF len
  <2>4. QED
    BY <2>1, <2>2, <2>3 DEF Lines, k, l
<1>6. Lines(content, at, b) \o Lines(content, i, c) \o Lines(content, j, d)
        = SubSeq(content, at, at + (b + c + d) - 1)
  BY <1>4, <1>5
<1>7. QED
  BY <1>3, <1>6 DEF at, b, c, d, i, j, OldLen, Lines

-----------------------------------------------------------------------------
(*************************** where a hunk is put ***************************)
(* What a hunk put after line n makes of the copy.                          *)
Place(hunk, n) == Splice(copy, n, Len(Removals(hunk.lines)), Additions(hunk.lines))

(* All the lines of a hunk that are in the file.                            *)
Old(lines) == CtxBefore(lines) \o Removals(lines) \o CtxAfter(lines)
Chain(B, C, D) == B \o C \o D

(* Where the whole of a hunk stands: all the lines it was made from.        *)
LEMMA WholeBlock ==
  ASSUME NEW lines, NEW B, NEW C, NEW A, NEW D, Made(lines, B, C, A, D)
  PROVE  /\ Old(lines) = Chain(B, C, D)
         /\ Chain(B, C, D) \in Seq(Texts)
         /\ Len(Chain(B, C, D)) = Len(B) + Len(C) + Len(D)
<1> DEFINE before1 == CtxBefore(lines)
           gone == Removals(lines)
           after1 == CtxAfter(lines)
<1>1. B \in Seq(Texts) /\ C \in Seq(Texts) /\ A \in Seq(Texts) /\ D \in Seq(Texts)
  BY DEF Made
<1>2. Len(C) \in Nat /\ Len(A) \in Nat /\ Len(B) \in Nat /\ Len(D) \in Nat
  BY <1>1, LenProperties
<1>3. /\ gone = C
      /\ Len(C) + Len(A) # 0 => before1 = B /\ after1 = D
      /\ Len(C) + Len(A) = 0 => before1 = B \o D /\ after1 = <<>>
  BY HunkSays
<1> HIDE DEF before1, gone, after1
<1>4. /\ B \o C \in Seq(Texts) /\ Len(B \o C) = Len(B) + Len(C)
      /\ B \o C \o D \in Seq(Texts) /\ Len(B \o C \o D) = Len(B) + Len(C) + Len(D)
      /\ B \o D \in Seq(Texts)
  <2> DEFINE bc == B \o C
  <2>1. bc \in Seq(Texts) /\ Len(bc) = Len(B) + Len(C)
    BY <1>1, ConcatProperties
  <2> HIDE DEF bc
  <2>2. bc \o D \in Seq(Texts) /\ Len(bc \o D) = Len(bc) + Len(D)
    BY <1>1, <2>1, ConcatProperties
  <2>3. B \o D \in Seq(Texts)
    BY <1>1, ConcatProperties
  <2>4. QED
    BY <2>1, <2>2, <2>3 DEF bc
<1>5. before1 \o gone \o after1 = B \o C \o D
  <2>1. CASE Len(C) + Len(A) # 0
    BY <1>3, <2>1
  <2>2. CASE Len(C) + Len(A) = 0
    <3>1. C = <<>>
      BY <1>1, <1>2, <2>2, EmptySeq
    <3>2. before1 = B \o D /\ gone = <<>> /\ after1 = <<>>
      BY <1>3, <2>2, <3>1
    <3>3. B \o D \o <<>> = B \o D /\ B \o <<>> = B
      BY <1>1, <1>4, ConcatEmptySeq
    <3>4. QED
      BY <3>1, <3>2, <3>3
  <2>3. QED
    BY <2>1, <2>2
<1>6. QED
  BY <1>4, <1>5 DEF before1, gone, after1, Old, Chain

LEMMA AnchorStands ==
  ASSUME NEW hunk \in PlainHunk, copy \in PlainContent, CtxBefore(hunk.lines) # <<>>,
         NEW n \in Anchors(hunk)
  PROVE  /\ n \in Nat
         /\ StandsAt(CtxBefore(hunk.lines) \o Removals(hunk.lines) \o CtxAfter(hunk.lines), n)
<1> DEFINE from == Min({hunk.start - 1, Len(copy)})
           back == Min({from, Reach})
           block == CtxBefore(hunk.lines) \o Removals(hunk.lines) \o CtxAfter(hunk.lines)
           found == {k \in (from - back)..from : StandsAt(block, k)}
<1>1. n \in Nat
  BY AnchorsType
<1>2. found # {} /\ n = Max(found)
  BY DEF Anchors
<1>3. hunk.start - 1 \in Nat /\ Len(copy) \in Nat /\ Reach \in Nat
  <2>1. Len(copy) \in Nat
    BY LenProperties DEF PlainContent
  <2>2. hunk.start \in Nat \ {0}
    BY DEF PlainHunk
  <2>3. QED
    BY <2>1, <2>2, PatchAssumption
<1>4. from \in Nat
  <2> DEFINE S == {hunk.start - 1, Len(copy)}
  <2>1. S \in SUBSET Nat /\ S # {}
    BY <1>3
  <2>2. Min(S) \in S
    <3> HIDE DEF S
    <3>1. QED
      BY <2>1, MinOf
  <2>3. QED
    BY <2>1, <2>2
<1> HIDE DEF from
<1>5. back \in Nat /\ back =< from
  <2> DEFINE S == {from, Reach}
  <2>1. S \in SUBSET Nat /\ S # {}
    BY <1>3, <1>4
  <2>2. Min(S) \in S /\ \A x \in S : Min(S) =< x
    <3> HIDE DEF S
    <3>1. QED
      BY <2>1, MinOf
  <2>3. QED
    BY <2>1, <2>2
<1> HIDE DEF back
<1>6. found \in SUBSET (0..from)
  BY <1>4, <1>5
<1>7. n \in found
  <2> HIDE DEF found
  <2>1. QED
    BY <1>2, <1>4, <1>6, MaxOf
<1>8. QED
  BY <1>1, <1>7

(* x is the content, with A in place of `cut` lines after the first b of a  *)
(* block that stands somewhere in it.                                       *)
PutAt(x, content, block, n, b, cut, A) ==
  \E k \in 0..(Len(content) - n) :
    /\ Lines(content, k + 1, n) = block
    /\ x = Splice(content, k + b, cut, A)

(* Wherever a hunk with context before it goes, its lines stand; one that   *)
(* changes nothing changes nothing.                                         *)
LEMMA PlacedWhereItStands ==
  ASSUME NEW hunk \in PlainHunk, copy \in PlainContent,
         NEW B, NEW C, NEW A, NEW D, Made(hunk.lines, B, C, A, D), NEW n \in Places(hunk)
  PROVE  \/ Place(hunk, n) = copy
         \/ B # <<>> =>
              PutAt(Place(hunk, n), copy, Chain(B, C, D), Len(B) + Len(C) + Len(D),
                    Len(B), Len(C), A)
<1> DEFINE ctx == CtxBefore(hunk.lines)
           len == Len(B) + Len(C) + Len(D)
<1>1. /\ Len(C) \in Nat /\ Len(A) \in Nat /\ Len(B) \in Nat /\ Len(D) \in Nat
      /\ A \in Seq(Texts) /\ C \in Seq(Texts)
  BY MadeLengths DEF Made
<1>2. Removals(hunk.lines) = C /\ Additions(hunk.lines) = A
  BY HunkSays
<1>3. n \in Nat /\ n + Len(C) =< Len(copy) /\ Len(copy) \in Nat
  <2>1. n \in Nat /\ n + Len(C) =< Len(copy)
    BY <1>2, PlaceIs
  <2>2. QED
    BY <2>1, LenProperties DEF PlainContent
<1>4. CASE Len(C) + Len(A) = 0
  <2>1. C = <<>> /\ A = <<>> /\ Len(C) = 0 /\ n \in 0..Len(copy)
    BY <1>1, <1>3, <1>4, EmptySeq
  <2>2. Splice(copy, n, 0, <<>>) = copy
    BY <2>1, SpliceNothing DEF PlainContent
  <2>3. QED
    BY <1>2, <2>1, <2>2 DEF Place
<1>5. CASE Len(C) + Len(A) # 0 /\ B # <<>>
  <2>1. ctx = B
    BY <1>5, HunkSays
  <2>2. PICK k \in Anchors(hunk) : n = k + Len(ctx)
    BY DEF Places
  <2>3. k \in Nat /\ StandsAt(ctx \o Removals(hunk.lines) \o CtxAfter(hunk.lines), k)
    BY <1>5, <2>1, AnchorStands
  <2> DEFINE block == B \o C \o D
  <2>4. /\ ctx \o Removals(hunk.lines) \o CtxAfter(hunk.lines) = block
        /\ Len(block) = len
    <3>1. Old(hunk.lines) = Chain(B, C, D) /\ Len(Chain(B, C, D)) = Len(B) + Len(C) + Len(D)
      BY WholeBlock
    <3>2. QED
      BY <3>1 DEF Old, Chain
  <2> HIDE DEF block, len, ctx
  <2>5. k + len =< Len(copy) /\ Lines(copy, k + 1, len) = block
    BY <2>3, <2>4 DEF StandsAt
  <2>6. k \in 0..(Len(copy) - len)
    BY <1>1, <1>3, <2>3, <2>5 DEF len
  <2>7. Place(hunk, n) = Splice(copy, k + Len(B), Len(C), A)
    BY <1>2, <2>1, <2>2 DEF Place
  <2>8. PutAt(Place(hunk, n), copy, block, len, Len(B), Len(C), A)
    BY <2>5, <2>6, <2>7 DEF PutAt
  <2>9. QED
    BY <2>8 DEF len, block, Chain
<1>6. QED
  BY <1>4, <1>5

(* The lines of an edit, as its hunk says them.                             *)
MadeFor(lines, content, e) ==
  Made(lines, Lines(content, e.at, e.before), Lines(content, e.at + e.before, e.cut),
       e.adds, Lines(content, e.at + e.before + e.cut, e.after))

(* The anchor, when the whole block stands where the header says.           *)
LEMMA AnchorIs ==
  ASSUME NEW hunk \in PlainHunk, copy \in PlainContent, hunk.start - 1 =< Len(copy),
         StandsAt(Old(hunk.lines), hunk.start - 1)
  PROVE  Anchors(hunk) = {hunk.start - 1}
<1> DEFINE m == hunk.start - 1
           S == {m, Len(copy)}
           from == Min(S)
           back == Min({from, Reach})
           found == {k \in (from - back)..from : StandsAt(Old(hunk.lines), k)}
<1>1. m \in Nat /\ Len(copy) \in Nat /\ Reach \in Nat /\ m =< Len(copy)
  <2>1. Len(copy) \in Nat
    BY LenProperties DEF PlainContent
  <2>2. hunk.start \in Nat \ {0}
    BY DEF PlainHunk
  <2>3. QED
    BY <2>1, <2>2, PatchAssumption
<1>2. Anchors(hunk) = IF CtxBefore(hunk.lines) = <<>> THEN {m}
                      ELSE IF found = {} THEN {} ELSE {Max(found)}
  BY DEF Anchors, Old
<1>3. StandsAt(Old(hunk.lines), m)
  OBVIOUS
<1> HIDE DEF m
<1>4. from = m
  <2>1. S \in SUBSET Nat /\ S # {} /\ \A x \in S : x = m \/ x = Len(copy)
    BY <1>1
  <2>2. m \in S
    OBVIOUS
  <2> HIDE DEF S
  <2>3. Min(S) \in S /\ \A x \in S : Min(S) =< x
    BY <2>1, MinOf
  <2> DEFINE k == Min(S)
  <2>4. k =< m /\ (k = m \/ k = Len(copy))
    BY <2>1, <2>2, <2>3
  <2> HIDE DEF k
  <2>5. k = m
    BY <1>1, <2>4
  <2>6. QED
    BY <2>5 DEF k
<1> HIDE DEF from
<1>5. back \in Nat /\ back =< from
  <2> DEFINE T == {from, Reach}
  <2>1. T \in SUBSET Nat /\ T # {}
    BY <1>1, <1>4
  <2>2. Min(T) \in T /\ \A x \in T : Min(T) =< x
    <3> HIDE DEF T
    <3>1. QED
      BY <2>1, MinOf
  <2>3. QED
    BY <2>1, <2>2
<1> HIDE DEF back
<1>6. found \in SUBSET (0..m) /\ m \in found
  BY <1>1, <1>3, <1>4, <1>5
<1>7. Max(found) = m
  <2>1. \A x \in found : x \in Nat /\ x =< m
    BY <1>1, <1>6
  <2> HIDE DEF found
  <2>2. found # {}
    BY <1>6
  <2>3. Max(found) \in found /\ \A x \in found : Max(found) >= x
    BY <1>1, <1>6, <2>2, MaxOf
  <2> DEFINE k == Max(found)
  <2>4. k \in Nat /\ k =< m /\ k >= m
    BY <1>6, <2>1, <2>3
  <2> HIDE DEF k
  <2>5. k = m
    BY <1>1, <2>4
  <2>6. QED
    BY <2>5 DEF k
<1>8. found # {}
  BY <1>6
<1> HIDE DEF found
<1>9. QED
  BY <1>2, <1>7, <1>8 DEF m

(* In the file it was made for, a hunk whose header says so goes where its  *)
(* author meant it to.                                                      *)
LEMMA GoesWhereMeant ==
  ASSUME NEW hunk \in PlainHunk, copy \in Seq(Texts), NEW e, EditFits(copy, e),
         hunk.start = e.at, MadeFor(hunk.lines, copy, e)
  PROVE  /\ Places(hunk) # {}
         /\ \A n \in Places(hunk) :
              Place(hunk, n) = Splice(copy, e.at + e.before - 1, e.cut, e.adds)
<1> DEFINE at == e.at
           b == e.before
           c == e.cut
           d == e.after
           A == e.adds
           len == Len(copy)
           B == Lines(copy, at, b)
           C == Lines(copy, at + b, c)
           D == Lines(copy, at + b + c, d)
           ctx == CtxBefore(hunk.lines)
<1>1. /\ at \in Nat \ {0} /\ b \in Nat /\ c \in Nat /\ d \in Nat /\ len \in Nat
      /\ at + (b + c + d) - 1 =< len /\ A \in Seq(Texts)
  <2>1. len \in Nat
    BY LenProperties
  <2>2. QED
    BY <2>1 DEF EditFits, PlainEdit, OldLen
<1>2. Made(hunk.lines, B, C, A, D)
  BY DEF MadeFor
<1>3. /\ Chain(B, C, D) = Lines(copy, at, b + c + d)
      /\ Len(B) = b /\ Len(C) = c /\ Len(D) = d
  BY PartsTogether DEF Chain, OldLen
<1>4. copy \in PlainContent
  <2>1. Texts \subseteq Texts \cup {HeaderText}
    OBVIOUS
  <2>2. QED
    BY <2>1, SeqMonotonic DEF PlainContent
<1>5. hunk.start = at /\ B \in Seq(Texts) /\ C \in Seq(Texts) /\ D \in Seq(Texts)
  BY <1>2 DEF Made
<1> HIDE DEF B, C, D
<1>6. Old(hunk.lines) = Chain(B, C, D) /\ Len(Chain(B, C, D)) = b + c + d
  <2>1. Old(hunk.lines) = Chain(B, C, D) /\ Len(Chain(B, C, D)) = Len(B) + Len(C) + Len(D)
    BY <1>2, WholeBlock
  <2>2. QED
    BY <1>3, <2>1
<1>7. /\ Removals(hunk.lines) = C /\ Additions(hunk.lines) = A
      /\ Len(C) + Len(A) # 0 => ctx = B
      /\ Len(C) + Len(A) = 0 => ctx = B \o D
  BY <1>2, HunkSays
<1>8. Len(A) \in Nat
  BY <1>1, LenProperties
<1> HIDE DEF at, b, c, d, A, len, ctx
<1>9. Anchors(hunk) = {at - 1}
  <2>1. StandsAt(Old(hunk.lines), at - 1)
    <3>1. at - 1 + (b + c + d) =< len /\ (at - 1) + 1 = at
      BY <1>1
    <3>2. QED
      BY <1>3, <1>6, <3>1 DEF StandsAt, len
  <2>2. at - 1 =< len
    BY <1>1
  <2>3. QED
    BY <1>4, <1>5, <2>1, <2>2, AnchorIs DEF len
<1>10. \A n : n \in Places(hunk) <=> n = at - 1 + Len(ctx) /\ StandsAt(C, n)
  BY <1>7, <1>9 DEF Places, ctx
<1>11. CASE Len(C) + Len(A) # 0
  <2>1. ctx = B /\ Len(ctx) = b /\ Len(C) = c
    BY <1>3, <1>7, <1>11
  <2> DEFINE n == at + b - 1
  <2>2. n = at - 1 + Len(ctx) /\ n + 1 = at + b /\ n + c =< len
    BY <1>1, <2>1
  <2> HIDE DEF n
  <2>3. StandsAt(C, n)
    BY <1>3, <2>2 DEF StandsAt, C, len
  <2>4. n \in Places(hunk) /\ \A k \in Places(hunk) : k = n
    BY <1>10, <2>2, <2>3
  <2>5. Place(hunk, n) = Splice(copy, n, c, A)
    BY <1>7, <2>1 DEF Place
  <2>6. QED
    BY <2>4, <2>5 DEF n, at, b, c, A
<1>12. CASE Len(C) + Len(A) = 0
  <2>1. c = 0 /\ C = <<>> /\ A = <<>> /\ Len(C) = 0
    BY <1>1, <1>3, <1>5, <1>8, <1>12, EmptySeq
  <2>2. ctx = B \o D /\ Len(B \o D) = b + d
    BY <1>3, <1>5, <1>7, <1>12, ConcatProperties
  <2> DEFINE n == at - 1 + Len(ctx)
             k == at + b - 1
  <2>3. n \in 0..len /\ k \in 0..len /\ n + 0 =< len
    BY <1>1, <2>1, <2>2
  <2> HIDE DEF n, k
  <2>4. StandsAt(C, n)
    <3>1. Lines(copy, n + 1, 0) = <<>>
      <4>1. n + 1 \in Int /\ n + 1 + 0 - 1 \in Int /\ n + 1 + 0 - 1 < n + 1
        BY <1>1, <2>3
      <4>2. QED
        BY <4>1, SubSeqEmpty DEF Lines
    <3>2. QED
      BY <2>1, <2>3, <3>1 DEF StandsAt, len
  <2>5. n \in Places(hunk)
    BY <1>10, <2>4 DEF n
  <2>6. \A l \in Places(hunk) : l = n
    BY <1>10 DEF n
  <2>7. Place(hunk, n) = copy
    <3>1. Splice(copy, n, 0, <<>>) = copy
      BY <2>3, SpliceNothing DEF len
    <3>2. QED
      BY <1>7, <2>1, <3>1 DEF Place
  <2>8. Splice(copy, k, c, A) = copy
    <3>1. Splice(copy, k, 0, <<>>) = copy
      BY <2>3, SpliceNothing DEF len
    <3>2. QED
      BY <2>1, <3>1
  <2>9. QED
    BY <2>5, <2>6, <2>7, <2>8 DEF k, at, b, c, A
<1>13. QED
  BY <1>11, <1>12

-----------------------------------------------------------------------------
(************************* a section with one hunk *************************)
(* A hunk: its header, and its lines.                                       *)
HunkOfParts(x, B, C, A, D) ==
  <<x>> \o Says("ctx", B) \o Says("del", C) \o Says("add", A) \o Says("ctx", D)
OneHunk(b, x, B, C, A, D) ==
  /\ b \in Seq(PlainLine) /\ Len(b) \in Nat \ {0} /\ b[1] = x
  /\ Made(SubSeq(b, 2, Len(b)), B, C, A, D)
  /\ \A j \in 2..Len(b) : b[j].kind \in {"ctx", "del", "add"}

LEMMA SaysLine ==
  ASSUME NEW kind \in {"ctx", "del", "add"}, NEW texts \in Seq(Texts)
  PROVE  /\ Says(kind, texts) \in Seq(PlainLine) /\ Len(Says(kind, texts)) = Len(texts)
         /\ \A i \in 1..Len(texts) : Says(kind, texts)[i] = [kind |-> kind, text |-> texts[i]]
<1>1. Says(kind, texts) \in Seq(BodyLine) /\ Len(Says(kind, texts)) = Len(texts)
  BY SaysType
<1>2. BodyLine \subseteq PlainLine
  BY DEF BodyLine
<1>3. Says(kind, texts) \in Seq(PlainLine)
  BY <1>1, <1>2, SeqMonotonic
<1>4. DOMAIN texts = 1..Len(texts)
  BY LenProperties
<1>5. \A i \in 1..Len(texts) : Says(kind, texts)[i] = [kind |-> kind, text |-> texts[i]]
  BY <1>4, SaysPlainly
<1>6. QED
  BY <1>1, <1>3, <1>5

LEMMA PartsOfOneHunk ==
  ASSUME NEW x \in PlainLine, NEW B \in Seq(Texts), NEW C \in Seq(Texts), NEW A \in Seq(Texts),
         NEW D \in Seq(Texts)
  PROVE  OneHunk(HunkOfParts(x, B, C, A, D), x, B, C, A, D)
<1> DEFINE h == <<x>>
           s == Says("ctx", B)
           t == Says("del", C)
           u == Says("add", A)
           v == Says("ctx", D)
           hs == h \o s
           hst == hs \o t
           hstu == hst \o u
           all == hstu \o v
           b == Len(B)
           c == Len(C)
           a == Len(A)
           d == Len(D)
           n == b + c + a + d
           rest == SubSeq(all, 2, Len(all))
<1>1. b \in Nat /\ c \in Nat /\ a \in Nat /\ d \in Nat
  BY LenProperties
<1>2. h \in Seq(PlainLine) /\ Len(h) = 1 /\ h[1] = x
  OBVIOUS
<1>3. /\ s \in Seq(PlainLine) /\ Len(s) = b /\ \A i \in 1..b : s[i] = [kind |-> "ctx", text |-> B[i]]
      /\ t \in Seq(PlainLine) /\ Len(t) = c /\ \A i \in 1..c : t[i] = [kind |-> "del", text |-> C[i]]
      /\ u \in Seq(PlainLine) /\ Len(u) = a /\ \A i \in 1..a : u[i] = [kind |-> "add", text |-> A[i]]
      /\ v \in Seq(PlainLine) /\ Len(v) = d /\ \A i \in 1..d : v[i] = [kind |-> "ctx", text |-> D[i]]
  BY SaysLine
<1>4. HunkOfParts(x, B, C, A, D) = all
  BY DEF HunkOfParts
<1> HIDE DEF h, s, t, u, v, b, c, a, d
<1>5. /\ hs \in Seq(PlainLine) /\ Len(hs) = 1 + b
      /\ \A i \in 1..(1 + b) : hs[i] = IF i <= 1 THEN x ELSE s[i - 1]
  <2>1. Concats(hs, h, s, PlainLine)
    BY <1>2, <1>3, ConcatIs
  <2>2. \A i \in 1..(1 + b) : hs[i] = IF i <= 1 THEN h[i] ELSE s[i - 1]
    BY <1>2, <1>3, <2>1 DEF Concats
  <2>3. \A i \in 1..(1 + b) : i <= 1 => h[i] = x
    <3>1. \A i \in 1..(1 + b) : i <= 1 => i = 1
      BY <1>1
    <3>2. QED
      BY <1>2, <3>1
  <2>4. QED
    BY <1>2, <1>3, <2>1, <2>2, <2>3 DEF Concats
<1> HIDE DEF hs
<1>6. /\ hst \in Seq(PlainLine) /\ Len(hst) = 1 + b + c
      /\ \A i \in 1..(1 + b + c) : hst[i] = IF i <= 1 + b THEN hs[i] ELSE t[i - (1 + b)]
  <2>1. Concats(hst, hs, t, PlainLine)
    BY <1>3, <1>5, ConcatIs
  <2>2. QED
    BY <1>3, <1>5, <2>1 DEF Concats
<1> HIDE DEF hst
<1>7. /\ hstu \in Seq(PlainLine) /\ Len(hstu) = 1 + b + c + a
      /\ \A i \in 1..(1 + b + c + a) : hstu[i] = IF i <= 1 + b + c THEN hst[i] ELSE u[i - (1 + b + c)]
  <2>1. Concats(hstu, hst, u, PlainLine)
    BY <1>3, <1>6, ConcatIs
  <2>2. QED
    BY <1>3, <1>6, <2>1 DEF Concats
<1> HIDE DEF hstu
<1>8. /\ all \in Seq(PlainLine) /\ Len(all) = 1 + b + c + a + d
      /\ \A i \in 1..(1 + b + c + a + d) :
           all[i] = IF i <= 1 + b + c + a THEN hstu[i] ELSE v[i - (1 + b + c + a)]
  <2>1. Concats(all, hstu, v, PlainLine)
    BY <1>3, <1>7, ConcatIs
  <2>2. QED
    BY <1>3, <1>7, <2>1 DEF Concats
<1> HIDE DEF all
<1>9. all[1] = x
  <2>1. /\ 1 \in 1..(1 + b) /\ 1 \in 1..(1 + b + c) /\ 1 \in 1..(1 + b + c + a)
        /\ 1 \in 1..(1 + b + c + a + d)
        /\ 1 <= 1 /\ 1 <= 1 + b /\ 1 <= 1 + b + c /\ 1 <= 1 + b + c + a
    BY <1>1
  <2>2. QED
    BY <1>5, <1>6, <1>7, <1>8, <2>1
<1>10. ASSUME NEW i \in 1..n
       PROVE  IF i <= b THEN all[i + 1] = [kind |-> "ctx", text |-> B[i]]
              ELSE IF i <= b + c THEN all[i + 1] = [kind |-> "del", text |-> C[i - b]]
              ELSE IF i <= b + c + a THEN all[i + 1] = [kind |-> "add", text |-> A[i - (b + c)]]
              ELSE all[i + 1] = [kind |-> "ctx", text |-> D[i - (c + a + b)]]
  <2> DEFINE j == i + 1
  <2>1. CASE i <= b
    <3>1. /\ j \in 1..(1 + b) /\ j \in 1..(1 + b + c) /\ j \in 1..(1 + b + c + a)
          /\ j \in 1..(1 + b + c + a + d)
          /\ ~(j <= 1) /\ j <= 1 + b /\ j <= 1 + b + c /\ j <= 1 + b + c + a
          /\ j - 1 = i /\ i \in 1..b
      BY <1>1, <2>1
    <3> HIDE DEF j
    <3>2. all[j] = s[i]
      BY <1>5, <1>6, <1>7, <1>8, <3>1
    <3>3. all[j] = [kind |-> "ctx", text |-> B[i]]
      BY <1>3, <3>1, <3>2
    <3>4. QED
      BY <2>1, <3>3 DEF j
  <2>2. CASE b < i /\ i <= b + c
    <3>1. /\ j \in 1..(1 + b + c) /\ j \in 1..(1 + b + c + a)
          /\ j \in 1..(1 + b + c + a + d)
          /\ ~(j <= 1 + b) /\ j <= 1 + b + c /\ j <= 1 + b + c + a
          /\ j - (1 + b) = i - b /\ i - b \in 1..c /\ ~(i <= b)
      BY <1>1, <2>2
    <3> HIDE DEF j
    <3>2. all[j] = t[i - b]
      BY <1>6, <1>7, <1>8, <3>1
    <3>3. all[j] = [kind |-> "del", text |-> C[i - b]]
      BY <1>3, <3>1, <3>2
    <3>4. QED
      BY <2>2, <3>1, <3>3 DEF j
  <2>3. CASE b + c < i /\ i <= b + c + a
    <3>1. /\ j \in 1..(1 + b + c + a) /\ j \in 1..(1 + b + c + a + d)
          /\ ~(j <= 1 + b + c) /\ j <= 1 + b + c + a
          /\ j - (1 + b + c) = i - (b + c) /\ i - (b + c) \in 1..a
          /\ ~(i <= b) /\ ~(i <= b + c)
      BY <1>1, <2>3
    <3> HIDE DEF j
    <3>2. all[j] = u[i - (b + c)]
      BY <1>7, <1>8, <3>1
    <3>3. all[j] = [kind |-> "add", text |-> A[i - (b + c)]]
      BY <1>3, <3>1, <3>2
    <3>4. QED
      BY <2>3, <3>1, <3>3 DEF j
  <2>4. CASE b + c + a < i
    <3>1. /\ j \in 1..(1 + b + c + a + d) /\ ~(j <= 1 + b + c + a)
          /\ j - (1 + b + c + a) = i - (c + a + b) /\ i - (c + a + b) \in 1..d
          /\ ~(i <= b) /\ ~(i <= b + c) /\ ~(i <= b + c + a)
      BY <1>1, <2>4
    <3> HIDE DEF j
    <3>2. all[j] = v[i - (c + a + b)]
      BY <1>8, <3>1
    <3>3. all[j] = [kind |-> "ctx", text |-> D[i - (c + a + b)]]
      BY <1>3, <3>1, <3>2
    <3>4. QED
      BY <3>1, <3>3 DEF j
  <2>5. QED
    BY <1>1, <2>1, <2>2, <2>3, <2>4
<1>11. /\ rest \in Seq(PlainLine) /\ Len(rest) = n
       /\ \A i \in 1..n : rest[i] = all[i + 1]
  <2> DEFINE l == Len(all)
  <2>1. l = 1 + n /\ n \in Nat /\ l \in Int /\ 2 \in Int
    BY <1>1, <1>8
  <2>2. \A i \in 2..l : all[i] \in PlainLine
    <3>1. \A i \in 2..l : i \in 1..Len(all)
      BY <2>1
    <3>2. QED
      BY <1>8, <3>1, ElementOfSeq
  <2>3. rest = SubSeq(all, 2, l)
    OBVIOUS
  <2> HIDE DEF l, n, rest
  <2>4. /\ rest \in Seq(PlainLine) /\ Len(rest) = IF 2 =< l THEN l - 2 + 1 ELSE 0
        /\ \A i \in 1..(l - 2 + 1) : rest[i] = all[2 + i - 1]
    BY <2>1, <2>2, <2>3, SubSeqProperties
  <2>5. (IF 2 =< l THEN l - 2 + 1 ELSE 0) = n /\ l - 2 + 1 = n
    BY <2>1
  <2>6. \A i \in 1..n : 2 + i - 1 = i + 1
    BY <2>1
  <2>7. QED
    BY <2>4, <2>5, <2>6
<1> HIDE DEF rest
<1>12. Made(rest, B, C, A, D)
  <2>1. \A i \in 1..n : IF i <= b THEN rest[i] = [kind |-> "ctx", text |-> B[i]]
              ELSE IF i <= b + c THEN rest[i] = [kind |-> "del", text |-> C[i - b]]
              ELSE IF i <= b + c + a THEN rest[i] = [kind |-> "add", text |-> A[i - (b + c)]]
              ELSE rest[i] = [kind |-> "ctx", text |-> D[i - (c + a + b)]]
    <3> HIDE DEF n
    <3>1. QED
      BY <1>10, <1>11
  <2>2. QED
    BY <1>11, <2>1 DEF Made, b, c, a, d
<1>13. \A j \in 2..Len(all) : all[j].kind \in {"ctx", "del", "add"}
  <2> TAKE j \in 2..Len(all)
  <2> DEFINE i == j - 1
  <2>1. i \in 1..n /\ i + 1 = j /\ i \in Nat
    BY <1>1, <1>8
  <2>2. (b < i \/ i <= b) /\ (i <= b + c \/ b + c < i) /\ (i <= b + c + a \/ b + c + a < i)
    BY <1>1, <2>1
  <2> HIDE DEF i, n
  <2>3. all[j] = rest[i] /\ i \in 1..Len(rest)
    BY <1>11, <2>1
  <2>4. rest[i].kind \in {"ctx", "del", "add"}
    BY <1>12, <2>2, <2>3, MadeLine DEF b, c, a
  <2>5. QED
    BY <2>3, <2>4
<1>14. Len(all) \in Nat \ {0}
  BY <1>1, <1>8
<1>15. QED
  BY <1>4, <1>8, <1>9, <1>12, <1>13, <1>14 DEF OneHunk, rest

(* A section with at most one hunk, and the lines of one.                   *)
OneEdit(section) == section.does = "modify" => Len(section.edits) = 1
Plain(b) == /\ b \in Seq(PlainLine) /\ Len(b) \in Nat \ {0} /\ b[1].kind = "at"
            /\ \A j \in 2..Len(b) : b[j].kind \in {"ctx", "del", "add"}

LEMMA AloneIs ==
  ASSUME NEW S, NEW s \in Seq(S), Len(s) = 1
  PROVE  s = <<s[1]>> /\ s[1] \in S
<1>1. s[1] \in S
  <2>1. 1 \in 1..Len(s)
    OBVIOUS
  <2>2. QED
    BY <2>1, ElementOfSeq
<1> DEFINE x == s[1]
           t == <<x>>
<1>2. t \in Seq(S) /\ Len(t) = 1 /\ t[1] = x
  BY <1>1
<1> HIDE DEF t
<1>3. \A i \in 1..Len(s) : s[i] = t[i]
  <2>1. \A i \in 1..1 : i = 1
    OBVIOUS
  <2>2. QED
    BY <1>2, <2>1
<1>4. s = t
  BY <1>2, <1>3, SeqEqual
<1>5. QED
  BY <1>1, <1>4 DEF t

LEMMA FlattenAlone ==
  ASSUME NEW S, NEW s \in Seq(S)
  PROVE  FlattenSeq(<<s>>) = s
<1>1. <<>> \in Seq(Seq(S)) /\ Append(<<>>, s) = <<s>>
  OBVIOUS
<1>2. FlattenSeq(Append(<<>>, s)) = FlattenSeq(<<>>) \o s
  BY <1>1, FlattenAppend
<1>3. <<>> \o s = s
  BY ConcatEmptySeq
<1>4. QED
  BY <1>1, <1>2, <1>3, FlattenEmpty

(* The header of a hunk that is understood.                                 *)
LEMMA HeaderIs ==
  ASSUME NEW e \in PlainEdit
  PROVE  LET x == [kind |-> "at", start |-> NewStart(<<e>>, 1), counted |-> NewLen(e) # 1]
         IN  /\ At(NewStart(<<e>>, 1), NewLen(e)) = <<x>>
             /\ e.at = 1 \/ NewLen(e) = 1 => ParsedStart(x) = e.at
<1>1. NewLen(e) \in Nat /\ e.at \in Nat
  <2>1. e.before \in Nat /\ e.after \in Nat /\ e.adds \in Seq(Texts) /\ e.at \in Nat
    BY DEF PlainEdit
  <2>2. Len(e.adds) \in Nat
    BY <2>1, LenProperties
  <2>3. QED
    BY <2>1, <2>2 DEF NewLen
<1>2. NewStart(<<e>>, 1) = e.at - (IF NewLen(e) = 0 THEN 1 ELSE 0)
  BY <1>1, StartsOnce
<1> DEFINE n == NewLen(e)
           t == NewStart(<<e>>, 1)
           x == [kind |-> "at", start |-> t, counted |-> n # 1]
<1>3. n = 1 => t = e.at
  BY <1>1, <1>2
<1> HIDE DEF n, t
<1>4. ParsedStart(x) = IF n # 1 THEN 1 ELSE t
  BY DEF ParsedStart
<1>5. e.at = 1 \/ n = 1 => ParsedStart(x) = e.at
  BY <1>3, <1>4
<1>6. At(t, n) = <<x>>
  BY DEF At
<1>7. QED
  BY <1>5, <1>6 DEF n, t

LEMMA SimpleBody ==
  ASSUME NEW version, NEW section, SectionFits(version, section), OneEdit(section),
         section.does # "delete"
  PROVE  LET b == BodyOf(version, section)
             e == section.edits[1]
         IN  /\ Plain(b)
             /\ section.does = "modify" =>
                  /\ MadeFor(SubSeq(b, 2, Len(b)), version[section.path], e)
                  /\ Understood(section) => ParsedStart(b[1]) = e.at
             /\ section.does = "create" =>
                  Made(SubSeq(b, 2, Len(b)), <<>>, <<>>, section.content, <<>>)
<1> DEFINE b == BodyOf(version, section)
           e == section.edits[1]
<1>1. section.does \in {"create", "modify"}
  BY DEF SectionFits, PlainSection
<1>2. ASSUME NEW x \in PlainLine, x.kind = "at", NEW B, NEW C, NEW A, NEW D, OneHunk(b, x, B, C, A, D)
      PROVE  Plain(b) /\ Made(SubSeq(b, 2, Len(b)), B, C, A, D) /\ b[1] = x
  BY <1>2 DEF OneHunk, Plain
<1>3. CASE section.does = "modify"
  <2> DEFINE content == version[section.path]
             edits == section.edits
             B == Lines(content, e.at, e.before)
             C == Lines(content, e.at + e.before, e.cut)
             A == e.adds
             D == Lines(content, e.at + e.before + e.cut, e.after)
             x == [kind |-> "at", start |-> NewStart(<<e>>, 1), counted |-> NewLen(e) # 1]
  <2>1. content \in Seq(Texts) /\ edits \in Seq(PlainEdit) /\ Len(edits) = 1
    BY <1>3 DEF SectionFits, OneEdit
  <2>2. edits = <<e>> /\ e \in PlainEdit
    BY <2>1, AloneIs
  <2>3. DOMAIN edits = {1}
    <3>1. DOMAIN edits = 1..1
      BY <2>1, LenProperties
    <3>2. QED
      BY <3>1
  <2>4. /\ EditFits(content, e) /\ NewStart(edits, 1) \in Nat
        /\ NewLen(e) > 0 => NewStart(edits, 1) > 0
    BY <1>3, <2>3 DEF SectionFits
  <2>5. NewStart(edits, 1) = NewStart(<<e>>, 1) /\ Hunk(content, edits, 1) = Hunk(content, <<e>>, 1)
    BY <2>2
  <2>6. B \in Seq(Texts) /\ C \in Seq(Texts) /\ A \in Seq(Texts) /\ D \in Seq(Texts)
    BY <2>1, <2>4, PartsOfHunk
  <2>7. /\ At(NewStart(<<e>>, 1), NewLen(e)) = <<x>>
        /\ e.at = 1 \/ NewLen(e) = 1 => ParsedStart(x) = e.at
    BY <2>2, HeaderIs
  <2>8. x \in PlainLine /\ x.kind = "at"
    <3> DEFINE n == NewLen(e)
               t == NewStart(<<e>>, 1)
    <3>1. t \in Nat /\ (n > 0 => t > 0)
      BY <2>4, <2>5
    <3>2. n = 1 => n > 0
      OBVIOUS
    <3> HIDE DEF n, t
    <3>3. [kind |-> "at", start |-> t, counted |-> n # 1] \in PlainLine
      BY <3>1, <3>2 DEF PlainLine
    <3>4. QED
      BY <3>3 DEF n, t
  <2>9. HunksOf(version, section) = <<Hunk(content, edits, 1)>>
    <3> DEFINE h == Hunk(content, edits, 1)
               hh == HunksOf(version, section)
    <3>1. hh = [k \in {1} |-> h]
      <4>1. hh = [k \in {1} |-> Hunk(content, edits, k)]
        BY <2>3 DEF HunksOf
      <4>2. QED
        BY <4>1
    <3> HIDE DEF h, hh
    <3>2. [k \in {1} |-> h] = <<h>>
      OBVIOUS
    <3>3. QED
      BY <3>1, <3>2 DEF h, hh
  <2>10. b = Hunk(content, edits, 1) /\ Hunk(content, edits, 1) = HunkOfParts(x, B, C, A, D)
    <3>1. Hunk(content, edits, 1) \in Seq(BodyLine)
      BY <2>1, <2>4, HunkType
    <3>2. b = FlattenSeq(<<Hunk(content, edits, 1)>>)
      BY <1>3, <2>9 DEF BodyOf
    <3>3. FlattenSeq(<<Hunk(content, edits, 1)>>) = Hunk(content, edits, 1)
      BY <3>1, FlattenAlone
    <3>4. Hunk(content, edits, 1) = At(NewStart(edits, 1), NewLen(e)) \o Says("ctx", B)
                                       \o Says("del", C) \o Says("add", A) \o Says("ctx", D)
      BY DEF Hunk
    <3> HIDE DEF b, B, C, A, D, x, content
    <3>5. At(NewStart(edits, 1), NewLen(e)) = <<x>>
      BY <2>5, <2>7
    <3>6. Hunk(content, edits, 1) = HunkOfParts(x, B, C, A, D)
      BY <3>4, <3>5 DEF HunkOfParts
    <3>7. QED
      BY <3>2, <3>3, <3>6
  <2> HIDE DEF B, C, A, D, x, b
  <2>11. OneHunk(b, x, B, C, A, D)
    <3>1. OneHunk(HunkOfParts(x, B, C, A, D), x, B, C, A, D)
      BY <2>6, <2>8, PartsOfOneHunk
    <3>2. QED
      BY <2>10, <3>1
  <2>12. Plain(b) /\ Made(SubSeq(b, 2, Len(b)), B, C, A, D) /\ b[1] = x
    BY <1>2, <2>8, <2>11
  <2>13. Understood(section) => ParsedStart(b[1]) = e.at
    <3>1. Understood(section) => e.at = 1 \/ NewLen(e) = 1
      BY <1>3 DEF Understood
    <3>2. QED
      BY <2>7, <2>12, <3>1 DEF x
  <2>14. MadeFor(SubSeq(b, 2, Len(b)), content, e)
    BY <2>12 DEF MadeFor, B, C, A, D
  <2>15. QED
    BY <1>3, <2>12, <2>13, <2>14 DEF b
<1>4. CASE section.does = "create"
  <2> DEFINE A == section.content
             x == [kind |-> "at", start |-> 1, counted |-> Len(A) # 1]
             u == Says("add", A)
             none == Says("ctx", <<>>)
  <2>1. A \in Seq(Texts)
    BY <1>4 DEF SectionFits, PlainSection
  <2>2. x \in PlainLine /\ x.kind = "at"
    <3> DEFINE n == Len(A)
    <3> HIDE DEF n
    <3>1. [kind |-> "at", start |-> 1, counted |-> n # 1] \in PlainLine
      BY DEF PlainLine
    <3>2. QED
      BY <3>1 DEF n
  <2>3. b = <<x>> \o u
    BY <1>4 DEF BodyOf, At
  <2>4. Says("ctx", <<>>) = <<>> /\ Says("del", <<>>) = <<>>
    <3>1. ASSUME NEW kind PROVE Says(kind, <<>>) = <<>>
      BY DEF Says
    <3>2. QED
      BY <3>1
  <2>5. u \in Seq(PlainLine)
    BY <2>1, SaysLine
  <2> DEFINE h == <<x>>
  <2>6. h \in Seq(PlainLine)
    BY <2>2
  <2>7. HunkOfParts(x, <<>>, <<>>, A, <<>>) = h \o <<>> \o <<>> \o u \o <<>>
    BY <2>4 DEF HunkOfParts
  <2> HIDE DEF h, u, x, b
  <2>8. h \o <<>> \o <<>> \o u \o <<>> = h \o u
    <3>1. h \o <<>> = h
      BY <2>6, ConcatEmptySeq
    <3>2. h \o u \in Seq(PlainLine)
      BY <2>5, <2>6, ConcatType
    <3> DEFINE r == h \o u
    <3>3. r \o <<>> = r
      <4> HIDE DEF r
      <4>1. QED
        BY <3>2, ConcatEmptySeq DEF r
    <3>4. QED
      BY <3>1, <3>3
  <2>9. b = HunkOfParts(x, <<>>, <<>>, A, <<>>)
    BY <2>3, <2>7, <2>8 DEF h
  <2>10. OneHunk(b, x, <<>>, <<>>, A, <<>>)
    <3>1. <<>> \in Seq(Texts)
      OBVIOUS
    <3>2. QED
      BY <2>1, <2>2, <2>9, <3>1, PartsOfOneHunk
  <2>11. QED
    BY <1>2, <1>4, <2>2, <2>10 DEF b
<1>5. QED
  BY <1>1, <1>3, <1>4

-----------------------------------------------------------------------------
(*************************** the section in hand ***************************)
(* The headers of a section tell it from the others of the patch.           *)
LEMMA OnePath ==
  ASSUME NEW version, NEW patch, PlanFits(version, patch),
         NEW i \in DOMAIN patch, NEW j \in DOMAIN patch,
         OldOf(patch[i]) = OldOf(patch[j]), NewOf(patch[i]) = NewOf(patch[j])
  PROVE  i = j
<1>1. SectionFits(version, patch[i]) /\ SectionFits(version, patch[j])
  BY SectionsFit
<1>2. /\ patch[i].path \in Names /\ patch[i].does \in {"create", "delete", "modify"}
      /\ patch[j].path \in Names /\ patch[j].does \in {"create", "delete", "modify"}
  BY <1>1 DEF SectionFits, PlainSection
<1>3. patch[i].path = patch[j].path
  BY <1>2, DiffAssumption DEF OldOf, NewOf
<1>4. QED
  BY <1>3 DEF PlanFits, WrittenFor

LEMMA OneFile ==
  ASSUME NEW version, NEW patch, PlanFits(version, patch),
         NEW i \in DOMAIN patch, NEW j \in DOMAIN patch, patch[i].path = patch[j].path
  PROVE  i = j
BY DEF PlanFits, WrittenFor

(* The lines of the section that begins at o, one by one.                   *)
BodyAt(d, o, b) ==
  /\ Plain(b) /\ o \in Nat /\ Len(d) \in Nat /\ o + 1 + Len(b) =< Len(d)
  /\ d[o + 2] = b[1]
  /\ \A q \in (o + 3)..(o + 1 + Len(b)) :
       d[q] = b[q - (o + 1)] /\ d[q].kind \in {"ctx", "del", "add"}
  /\ o + 2 + Len(b) =< Len(d) => d[o + 2 + Len(b)].kind \in {"git", "old"}

LEMMA BodyStands ==
  ASSUME NEW d \in Seq(PlainLine), NEW o \in Nat, NEW b, Plain(b), Follows(d, o, b)
  PROVE  BodyAt(d, o, b)
<1> DEFINE m == Len(b)
<1>1. /\ m \in Nat \ {0} /\ Len(d) \in Nat /\ o + 1 + m =< Len(d)
      /\ \A j \in 1..m : d[o + 1 + j] = b[j]
      /\ \A j \in 2..m : b[j].kind \in {"ctx", "del", "add"}
  BY LenProperties DEF Plain, Follows
<1> HIDE DEF m
<1>2. d[o + 2] = b[1]
  <2>1. 1 \in 1..m /\ o + 1 + 1 = o + 2
    BY <1>1
  <2>2. d[o + 1 + 1] = b[1]
    BY <1>1, <2>1
  <2>3. QED
    BY <2>1, <2>2
<1>3. ASSUME NEW q \in (o + 3)..(o + 1 + m)
      PROVE  d[q] = b[q - (o + 1)] /\ d[q].kind \in {"ctx", "del", "add"}
  <2> DEFINE j == q - (o + 1)
  <2>1. j \in 2..m /\ j \in 1..m /\ o + 1 + j = q
    BY <1>1
  <2> HIDE DEF j
  <2>2. d[o + 1 + j] = b[j] /\ b[j].kind \in {"ctx", "del", "add"}
    BY <1>1, <2>1
  <2>3. d[q] = b[j]
    BY <2>1, <2>2
  <2>4. QED
    BY <2>2, <2>3 DEF j
<1>4. QED
  BY <1>1, <1>2, <1>3 DEF BodyAt, Follows, m

(* The section in hand, as its headers say.                                 *)
HandOn(sec, o) == oldPath = OldOf(plan[sec[o]]) /\ newPath = NewOf(plan[sec[o]])

(* It is s, with the lines b, and has one hunk.                             *)
Hand(sec, o, s, b) ==
  /\ InHand(sec, o) /\ o \in Nat /\ pos \in Nat
  /\ sec[o] \in DOMAIN plan /\ s = plan[sec[o]] /\ b = BodyOf(base, s)
  /\ OneEdit(s) /\ SectionFits(base, s)
  /\ s.does \in {"create", "delete", "modify"} /\ s.path \in Names
  /\ s.does # "delete" => BodyAt(diff, o, b)

LEMMA TheHand ==
  ASSUME PatchInv, NEW git \in BOOLEAN, NEW sec, Placed(diff, base, plan, git, sec), Where(sec),
         mode \notin {"header", "new", "done"},
         NEW o \in Olds(diff), HandOn(sec, o), OneEdit(plan[sec[o]])
  PROVE  Hand(sec, o, plan[sec[o]], BodyOf(base, plan[sec[o]]))
<1> DEFINE s == plan[sec[o]]
           b == BodyOf(base, s)
<1>1. Laid(diff, base, plan, sec) /\ Follows(diff, o, b) /\ PlanFits(base, plan)
  BY DEF Placed, Built, PatchInv
<1>2. /\ o \in Nat /\ Len(diff) \in Nat /\ pos \in Nat /\ diff \in Seq(PlainLine)
      /\ sec[o] \in DOMAIN plan /\ SectionFits(base, s) /\ s.path \in Names
      /\ s.does \in {"create", "delete", "modify"}
  BY <1>1, HandIs DEF PatchInv, PlainTypes
<1>3. PICK r \in Olds(diff) : InHand(sec, r)
  BY DEF Where
<1>4. HandOn(sec, r) /\ sec[r] \in DOMAIN plan
  BY <1>1, <1>3 DEF InHand, HandOn, Laid
<1>5. sec[o] = sec[r]
  BY <1>1, <1>2, <1>4, OnePath DEF HandOn
<1>6. o = r
  BY <1>1, <1>3, <1>5 DEF Laid
<1>7. s.does # "delete" => BodyAt(diff, o, b)
  <2>1. SUFFICES ASSUME s.does # "delete" PROVE BodyAt(diff, o, b)
    OBVIOUS
  <2>2. Plain(b)
    BY <1>2, <2>1, SimpleBody
  <2> HIDE DEF b
  <2>3. QED
    BY <1>1, <1>2, <2>2, BodyStands
<1>8. QED
  BY <1>2, <1>3, <1>6, <1>7 DEF Hand

(* What the mode says of the section in hand.                               *)
LEMMA HandKnows ==
  ASSUME PatchInv, NEW sec, NEW o, NEW s, NEW b, Hand(sec, o, s, b),
         mode \in {"hunks", "hunk", "create", "read", "patch"}
  PROVE  /\ s.does \in {"create", "modify"} /\ newPath = s.path /\ newPath \in Names
         /\ oldPath = DevNull <=> s.does = "create"
         /\ BodyAt(diff, o, b) /\ Plain(b)
         /\ files[s.path] = before[s.path]
<1>1. newPath \in Names
  BY DEF PatchInv
<1>2. newPath = NewOf(s) /\ oldPath = OldOf(s) /\ DevNull \notin Names
  BY DiffAssumption DEF Hand, InHand
<1>3. s.does \in {"create", "modify"} /\ newPath = s.path
  BY <1>1, <1>2 DEF Hand, NewOf
<1>4. oldPath = DevNull <=> s.does = "create"
  BY <1>1, <1>2, <1>3 DEF OldOf
<1>5. BodyAt(diff, o, b)
  BY <1>3 DEF Hand
<1>6. files[s.path] = before[s.path]
  <2>1. o \in Olds(diff) /\ o >= o /\ Untouched(sec, o) /\ s = plan[sec[o]]
    BY DEF Hand, InHand
  <2>2. QED
    BY <2>1 DEF Untouched
<1>7. QED
  BY <1>1, <1>3, <1>4, <1>5, <1>6 DEF BodyAt

(* The first e lines of the body b, as they were collected.                 *)
OnlyHunk(b, e) == hunks = <<[start |-> ParsedStart(b[1]), lines |-> SubSeq(b, 2, e)]>>

SaysBody(o, b) ==
  /\ mode = "hunk" => pos \in (o + 3)..(o + 2 + Len(b)) /\ OnlyHunk(b, pos - (o + 2))
  /\ mode \in {"hunks", "create", "read", "patch"} /\ hunks # <<>> => OnlyHunk(b, Len(b))
  /\ mode = "hunks" /\ hunks # <<>> => Kind \in {"old", "end"}
  /\ mode = "patch" /\ hunks # <<>> => copy = files[newPath]

(* What has become of the file that is patched.                             *)
Outcome(s) ==
  LET e == s.edits[1]
      was == before[s.path]
  IN  /\ \/ copy = was
         \/ e.before > 0 =>
              \E n \in 0..(Len(was) - OldLen(e)) :
                /\ Lines(was, n + 1, OldLen(e)) = Lines(base[s.path], e.at, OldLen(e))
                /\ copy = Splice(was, n + e.before, e.cut, e.adds)
      /\ base = before /\ Understood(s) => copy = Edited(was, s.edits)

ReadSoFar(o, s, b) ==
  /\ mode \in {"skip", "delete"} => pos = o + 2
  /\ mode = "hunks" /\ hunks = <<>> => pos = o + 2
  /\ mode \in {"create", "read"} => hunks # <<>>
  /\ mode \in {"read", "patch"} => oldPath # DevNull
  /\ ~SaysOld(hunks) => SaysBody(o, b)
  /\ mode = "patch" /\ hunks = <<>> => Outcome(s)

Reading(sec) ==
  mode \notin {"header", "new", "done"} =>
    \A o \in Olds(diff) : HandOn(sec, o) /\ OneEdit(plan[sec[o]]) =>
      \E s, b : s = plan[sec[o]] /\ b = BodyOf(base, s) /\ ReadSoFar(o, s, b)

LEMMA NothingOld == ~SaysOld(<<>>)
<1>1. Len(<<>>) = 0 /\ 1..0 = {}
  OBVIOUS
<1>2. QED
  BY <1>1 DEF SaysOld

LEMMA BeginHunkReads ==
  ASSUME PatchInv, NEW sec, NEW o, NEW s, NEW b, Hand(sec, o, s, b), ReadSoFar(o, s, b),
         BeginHunk, UNCHANGED argument
  PROVE  ReadSoFar(o, s, b)'
<1> DEFINE h == [start |-> ParsedStart(diff[pos]), lines |-> <<>>]
<1>1. /\ mode = "hunks" /\ mode' = "hunk" /\ Kind = "at" /\ pos' = pos + 1
      /\ hunks' = Append(hunks, h)
  BY DEF BeginHunk, Goto
<1>2. BodyAt(diff, o, b)
  BY <1>1, HandKnows
<1>3. /\ o \in Nat /\ Len(b) \in Nat \ {0} /\ b \in Seq(PlainLine) /\ diff[o + 2] = b[1]
      /\ o + 1 + Len(b) =< Len(diff) /\ Len(diff) \in Nat
  BY <1>2 DEF BodyAt, Plain
<1>4. hunks \in Seq(PlainHunk) /\ Len(hunks) \in Nat
  BY HunksNow
<1>5. CASE SaysOld(hunks)
  <2>1. PICK i \in 1..Len(hunks) : Has(hunks[i].lines, "old")
    BY <1>5 DEF SaysOld
  <2>2. h \in PlainHunk
    <3>1. ~AtEnd
      BY <1>1 DEF Kind
    <3>2. diff[pos] \in PlainLine /\ diff[pos].kind = "at"
      BY <1>1, <3>1, ReadLine DEF PatchInv
    <3>3. ParsedStart(diff[pos]) \in Nat \ {0}
      BY <3>2, LineIs
    <3>4. QED
      BY <3>3 DEF PlainHunk
  <2> HIDE DEF h
  <2>3. /\ Len(hunks') = Len(hunks) + 1
        /\ hunks'[i] = hunks[i] /\ i \in 1..Len(hunks')
    BY <1>1, <1>4, <2>1, <2>2, AppendProperties
  <2>4. SaysOld(hunks')
    BY <2>1, <2>3 DEF SaysOld
  <2>5. QED
    BY <1>1, <2>4 DEF ReadSoFar
<1>6. CASE ~SaysOld(hunks)
  <2>1. hunks = <<>>
    BY <1>1, <1>6 DEF ReadSoFar, SaysBody
  <2>2. pos = o + 2
    BY <1>1, <2>1 DEF ReadSoFar
  <2>3. hunks' = <<h>>
    BY <1>1, <2>1
  <2>4. SubSeq(b, 2, 1) = <<>>
    BY SubSeqEmpty
  <2> DEFINE m == Len(b)
             k == pos'
  <2>5. k - (o + 2) = 1 /\ k \in (o + 3)..(o + 2 + m)
    <3>1. k = o + 3 /\ m \in Nat \ {0}
      <4>1. pos' = (o + 2) + 1
        BY <1>1, <2>2
      <4>2. QED
        BY <1>3, <4>1
    <3> HIDE DEF k, m
    <3>2. QED
      BY <1>3, <3>1
  <2>6. OnlyHunk(b, 1)'
    BY <1>3, <2>2, <2>3, <2>4 DEF OnlyHunk
  <2>7. OnlyHunk(b, pos - (o + 2))'
    BY <2>5, <2>6 DEF OnlyHunk
  <2>8. QED
    BY <1>1, <2>5, <2>7 DEF ReadSoFar, SaysBody
<1>7. QED
  BY <1>5, <1>6

LEMMA OneMoreLine ==
  ASSUME NEW S, NEW b \in Seq(S), NEW e \in Nat, e >= 1, e + 1 =< Len(b)
  PROVE  /\ SubSeq(b, 2, e) \in Seq(S)
         /\ Append(SubSeq(b, 2, e), b[e + 1]) = SubSeq(b, 2, e + 1)
<1> DEFINE c == SubSeq(b, 2, e)
           d == SubSeq(b, 2, e + 1)
           x == b[e + 1]
           a == Append(c, x)
<1>1. Len(b) \in Nat
  BY LenProperties
<1>2. \A i \in 2..(e + 1) : b[i] \in S
  BY <1>1, ElementOfSeq
<1>3. \A i \in 2..e : b[i] \in S
  BY <1>2
<1>4. /\ c \in Seq(S) /\ Len(c) = (IF 2 =< e THEN e - 2 + 1 ELSE 0)
      /\ \A i \in 1..(e - 2 + 1) : c[i] = b[2 + i - 1]
  BY <1>3, SubSeqProperties
<1>5. /\ d \in Seq(S) /\ Len(d) = (IF 2 =< e + 1 THEN (e + 1) - 2 + 1 ELSE 0)
      /\ \A i \in 1..((e + 1) - 2 + 1) : d[i] = b[2 + i - 1]
  BY <1>2, SubSeqProperties
<1>6. x \in S
  BY <1>1, <1>2
<1> HIDE DEF c, d, x
<1>7. /\ Len(c) = e - 1 /\ Len(d) = e /\ \A i \in 1..(e - 1) : c[i] = b[i + 1]
      /\ \A i \in 1..e : d[i] = b[i + 1]
  <2>1. Len(c) = e - 1 /\ Len(d) = e /\ e - 2 + 1 = e - 1 /\ (e + 1) - 2 + 1 = e
    BY <1>4, <1>5
  <2>2. \A i \in Nat : 2 + i - 1 = i + 1
    OBVIOUS
  <2>3. QED
    BY <1>4, <1>5, <2>1, <2>2
<1>8. /\ a \in Seq(S) /\ Len(a) = (e - 1) + 1 /\ a[(e - 1) + 1] = x
      /\ \A i \in 1..(e - 1) : a[i] = c[i]
  BY <1>4, <1>6, <1>7, AppendProperties
<1> HIDE DEF a
<1>9. (e - 1) + 1 = e /\ \A i \in 1..e : i \in 1..(e - 1) \/ i = e
  OBVIOUS
<1>10. \A i \in 1..e : a[i] = d[i]
  <2>1. ASSUME NEW i \in 1..(e - 1) PROVE a[i] = b[i + 1]
    BY <1>7, <1>8
  <2>2. a[e] = b[e + 1]
    BY <1>8, <1>9 DEF x
  <2>3. QED
    BY <1>7, <1>9, <2>1, <2>2
<1>11. Len(a) = Len(d) /\ Len(a) = e
  BY <1>7, <1>8, <1>9
<1>12. a = d
  BY <1>5, <1>8, <1>10, <1>11, SeqEqual
<1>13. QED
  BY <1>4, <1>12 DEF a, c, d, x

(* Line by line, what was read of the section stays what it was made of.    *)
LEMMA HunkLineReads ==
  ASSUME PatchInv, NEW sec, NEW o, NEW s, NEW b, Hand(sec, o, s, b), ReadSoFar(o, s, b),
         HunkLine, UNCHANGED argument
  PROVE  ReadSoFar(o, s, b)'
<1> DEFINE n == Len(hunks)
           l == diff[pos]
           new == [hunks[n] EXCEPT !.lines = Append(@, l)]
           m == Len(b)
           e == pos - (o + 2)
<1>1. /\ mode = "hunk" /\ mode' = "hunk" /\ pos' = pos + 1 /\ Kind \notin {"at", "git", "end"}
  BY DEF HunkLine
<1>2. /\ n \in Nat \ {0} /\ l \in PlainLine /\ pos \in 1..Len(diff) /\ Kind = l.kind
      /\ hunks' \in Seq(PlainHunk) /\ Len(hunks') = n
      /\ \A i \in 1..n : hunks'[i] = IF i = n THEN new ELSE hunks[i]
      /\ hunks[n].lines \in Seq(PlainLine) /\ new.lines = Append(hunks[n].lines, l)
  <2>1. n \in Nat \ {0} /\ ~AtEnd
    BY HunkLineIs
  <2>2. n \in 1..n
    BY <2>1
  <2>3. hunks[n].lines \in Seq(PlainLine) /\ hunks[n] \in PlainHunk
    <3> HIDE DEF n
    <3>1. QED
      BY <2>2, HunksNow DEF n
  <2>4. Kind = l.kind
    BY <2>1 DEF Kind
  <2>5. new.lines = Append(hunks[n].lines, l)
    <3> DEFINE h == hunks[n]
    <3>1. h \in PlainHunk
      BY <2>3
    <3> HIDE DEF h, l
    <3>2. [h EXCEPT !.lines = Append(@, l)].lines = Append(h.lines, l)
      BY <3>1 DEF PlainHunk
    <3>3. QED
      BY <3>2 DEF h
  <2>6. QED
    BY <2>1, <2>3, <2>4, <2>5, HunkLineIs
<1>3. /\ o \in Nat /\ m \in Nat \ {0} /\ b \in Seq(PlainLine)
      /\ o + 1 + m =< Len(diff) /\ Len(diff) \in Nat /\ pos \in Nat
      /\ \A q \in (o + 3)..(o + 1 + m) : diff[q] = b[q - (o + 1)]
      /\ o + 2 + m =< Len(diff) => diff[o + 2 + m].kind \in {"git", "old"}
  BY <1>1, HandKnows DEF BodyAt, Plain, Hand
<1>4. CASE SaysOld(hunks')
  BY <1>1, <1>4 DEF ReadSoFar
<1>5. CASE ~SaysOld(hunks')
  <2>1. ~SaysOld(hunks)
    <3>1. SUFFICES ASSUME NEW i \in 1..n, Has(hunks[i].lines, "old") PROVE SaysOld(hunks')
      BY <1>5 DEF SaysOld
    <3>2. CASE i # n
      <4>1. hunks'[i] = hunks[i] /\ i \in 1..Len(hunks')
        BY <1>2, <3>2
      <4>2. QED
        BY <3>1, <4>1 DEF SaysOld
    <3>3. CASE i = n
      <4>1. hunks'[i].lines = Append(hunks[n].lines, l) /\ i \in 1..Len(hunks')
        BY <1>2, <3>3
      <4>2. PICK k \in DOMAIN hunks[n].lines : hunks[n].lines[k].kind = "old"
        BY <3>1, <3>3 DEF Has
      <4> DEFINE ll == hunks[n].lines
      <4>3. ll \in Seq(PlainLine) /\ k \in DOMAIN ll /\ ll[k].kind = "old"
        BY <1>2, <4>2
      <4> HIDE DEF ll, l
      <4>4. k \in DOMAIN Append(ll, l) /\ Append(ll, l)[k] = ll[k]
        <5>1. k \in 1..Len(ll) /\ Len(ll) \in Nat
          BY <4>3, LenProperties
        <5>2. k \in 1..(Len(ll) + 1)
          BY <5>1
        <5>3. /\ Append(ll, l) \in Seq(PlainLine) /\ Len(Append(ll, l)) = Len(ll) + 1
              /\ Append(ll, l)[k] = ll[k]
          BY <1>2, <4>3, <5>1, AppendProperties
        <5>4. QED
          BY <5>2, <5>3, LenProperties
      <4>5. Has(hunks'[i].lines, "old")
        BY <4>1, <4>3, <4>4 DEF Has, ll
      <4>6. QED
        BY <4>1, <4>5 DEF SaysOld
    <3>4. QED
      BY <3>2, <3>3
  <2>2. pos \in (o + 3)..(o + 2 + m) /\ OnlyHunk(b, e)
    BY <1>1, <2>1 DEF ReadSoFar, SaysBody
  <2>3. n = 1 /\ hunks[1] = [start |-> ParsedStart(b[1]), lines |-> SubSeq(b, 2, e)]
    BY <2>2 DEF OnlyHunk
  <2>4. hunks'[1] = new /\ Len(hunks') = 1
    BY <1>2, <2>3
  <2>5. pos # o + 2 + m
    <3> SUFFICES ASSUME pos = o + 2 + m PROVE FALSE
      OBVIOUS
    <3>1. l.kind \in {"git", "old"}
      <4>1. o + 2 + m =< Len(diff)
        BY <1>2
      <4>2. QED
        BY <1>3, <4>1
    <3>2. l.kind = "old"
      BY <1>1, <1>2, <3>1
    <3> DEFINE ll == hunks[n].lines
    <3>3. hunks'[1].lines = Append(ll, l) /\ ll \in Seq(PlainLine)
      BY <1>2, <2>3, <2>4
    <3> HIDE DEF ll, l
    <3>4. Len(ll) \in Nat /\ Append(ll, l) \in Seq(PlainLine)
          /\ Len(Append(ll, l)) = Len(ll) + 1 /\ Append(ll, l)[Len(ll) + 1] = l
      BY <1>2, <3>3, LenProperties, AppendProperties
    <3>5. Len(ll) + 1 \in DOMAIN Append(ll, l)
      <4>1. Len(ll) + 1 \in 1..(Len(ll) + 1)
        BY <3>4
      <4>2. QED
        BY <3>4, <4>1, LenProperties
    <3>6. Has(hunks'[1].lines, "old")
      BY <3>2, <3>3, <3>4, <3>5 DEF Has
    <3>7. 1 \in 1..Len(hunks')
      BY <2>4
    <3>8. QED
      BY <1>5, <3>6, <3>7 DEF SaysOld
  <2>6. /\ e \in Nat /\ e >= 1 /\ e + 1 =< m /\ e + 1 = pos - (o + 1)
        /\ pos \in (o + 3)..(o + 1 + m) /\ (pos + 1) - (o + 2) = e + 1
        /\ pos + 1 \in (o + 3)..(o + 2 + m)
    BY <1>3, <2>2, <2>5
  <2>7. l = b[e + 1]
    BY <1>3, <2>6
  <2> HIDE DEF e, l
  <2>8. Append(SubSeq(b, 2, e), b[e + 1]) = SubSeq(b, 2, e + 1)
    BY <1>3, <2>6, OneMoreLine
  <2> DEFINE start == ParsedStart(b[1])
  <2>9. new = [start |-> start, lines |-> SubSeq(b, 2, e + 1)]
    <3>1. new = [hunks[1] EXCEPT !.lines = Append(@, l)]
      BY <2>3
    <3>2. hunks[1] = [start |-> start, lines |-> SubSeq(b, 2, e)]
      BY <2>3
    <3> HIDE DEF new, start
    <3> DEFINE c == SubSeq(b, 2, e)
               d == SubSeq(b, 2, e + 1)
    <3>3. hunks[1] = [start |-> start, lines |-> c] /\ Append(c, l) = d
      BY <2>7, <2>8, <3>2
    <3> HIDE DEF c, d
    <3>4. [[start |-> start, lines |-> c] EXCEPT !.lines = Append(@, l)]
             = [start |-> start, lines |-> Append(c, l)]
      OBVIOUS
    <3>5. new = [start |-> start, lines |-> d]
      BY <3>1, <3>3, <3>4
    <3>6. QED
      BY <3>5 DEF d
  <2>10. hunks' = <<new>>
    <3> DEFINE hh == hunks'
    <3> HIDE DEF hh, new
    <3>1. hh \in Seq(PlainHunk) /\ Len(hh) = 1 /\ hh[1] = new
      BY <1>2, <2>4 DEF hh
    <3>2. hh = <<hh[1]>>
      BY <3>1, AloneIs
    <3>3. QED
      BY <3>1, <3>2 DEF hh
  <2>11. OnlyHunk(b, pos - (o + 2))' /\ pos' \in (o + 3)..(o + 2 + Len(b))
    <3>1. pos' - (o + 2) = e + 1
      BY <1>1, <2>6
    <3>2. hunks' = <<[start |-> ParsedStart(b[1]), lines |-> SubSeq(b, 2, e + 1)]>>
      BY <2>9, <2>10
    <3>3. QED
      BY <1>1, <2>6, <3>1, <3>2 DEF OnlyHunk
  <2>12. QED
    BY <1>1, <2>11 DEF ReadSoFar, SaysBody
<1>6. QED
  BY <1>4, <1>5

LEMMA EndHunkReads ==
  ASSUME PatchInv, NEW git \in BOOLEAN, NEW sec, Placed(diff, base, plan, git, sec),
         NEW o, NEW s, NEW b, Hand(sec, o, s, b), ReadSoFar(o, s, b),
         EndHunk, UNCHANGED argument
  PROVE  ReadSoFar(o, s, b)'
<1> DEFINE m == Len(b)
<1>1. /\ mode = "hunk" /\ mode' = "hunks" /\ hunks' = hunks /\ Kind \in {"at", "git", "end"}
      /\ pos' = (IF Kind = "end" THEN pos ELSE pos + 1) /\ hunks # <<>>
  BY DEF EndHunk, Goto, PatchInv
<1>2. /\ o \in Nat /\ m \in Nat \ {0} /\ b \in Seq(PlainLine)
      /\ o + 1 + m =< Len(diff) /\ Len(diff) \in Nat /\ pos \in Nat
      /\ \A q \in (o + 3)..(o + 1 + m) : diff[q].kind \in {"ctx", "del", "add"}
      /\ o + 2 + m =< Len(diff) => diff[o + 2 + m].kind \in {"git", "old"}
  BY <1>1, HandKnows DEF BodyAt, Plain, Hand
<1>3. CASE SaysOld(hunks)
  BY <1>1, <1>3 DEF ReadSoFar
<1>4. CASE ~SaysOld(hunks)
  <2>1. pos \in (o + 3)..(o + 2 + m) /\ OnlyHunk(b, pos - (o + 2))
    BY <1>1, <1>4 DEF ReadSoFar, SaysBody
  <2>2. pos = o + 2 + m
    <3> SUFFICES ASSUME pos # o + 2 + m PROVE FALSE
      OBVIOUS
    <3>1. pos \in (o + 3)..(o + 1 + m) /\ pos =< Len(diff)
      <4>1. /\ o \in Nat /\ m \in Nat /\ pos \in Nat /\ Len(diff) \in Nat
            /\ o + 1 + m =< Len(diff)
        BY <1>2
      <4>2. pos \in (o + 3)..(o + 2 + m)
        BY <2>1
      <4> HIDE DEF m
      <4>3. QED
        BY <4>1, <4>2
    <3>2. Kind \in {"ctx", "del", "add"}
      <4>1. Kind = diff[pos].kind
        BY <1>2, <3>1 DEF Kind, AtEnd
      <4>2. QED
        BY <1>2, <3>1, <4>1
    <3>3. QED
      BY <1>1, <3>2
  <2>3. OnlyHunk(b, m)'
    <3>1. pos - (o + 2) = m
      BY <1>2, <2>2
    <3>2. QED
      BY <1>1, <2>1, <3>1 DEF OnlyHunk
  <2>4. Kind' \in {"old", "end"}
    <3>1. CASE pos > Len(diff)
      <4>1. Kind = "end"
        BY <3>1 DEF Kind, AtEnd
      <4>2. pos' = pos /\ diff' = diff
        BY <1>1, <4>1 DEF argument
      <4>3. QED
        BY <3>1, <4>2 DEF Kind, AtEnd
    <3>2. CASE pos =< Len(diff)
      <4>1. Kind = diff[pos].kind /\ diff[pos].kind = "git"
        <5>1. Kind = diff[pos].kind
          BY <1>2, <3>2 DEF Kind, AtEnd
        <5>2. diff[pos].kind \in {"git", "old"}
          BY <1>2, <2>2, <3>2
        <5>3. QED
          BY <1>1, <5>1, <5>2
      <4>2. pos + 1 \in Olds(diff)
        <5>1. pos \in 1..Len(diff)
          BY <1>2, <2>2, <3>2
        <5>2. QED
          BY <4>1, <5>1 DEF Placed, Built
      <4>3. pos + 1 \in 1..Len(diff) /\ diff[pos + 1].kind = "old"
        BY <4>2 DEF Olds
      <4>4. pos' = pos + 1 /\ diff' = diff
        BY <1>1, <4>1 DEF argument
      <4>5. ~(pos + 1 > Len(diff))
        BY <1>2, <4>3
      <4>6. QED
        BY <4>3, <4>4, <4>5 DEF Kind, AtEnd
    <3>3. QED
      BY <1>2, <3>1, <3>2
  <2>5. QED
    BY <1>1, <2>3, <2>4 DEF ReadSoFar, SaysBody
<1>5. QED
  BY <1>3, <1>4

(* In a section, what is not a hunk is read only after lines of another.    *)
LEMMA HunksKind ==
  ASSUME PatchInv, NEW sec, NEW o, NEW s, NEW b, Hand(sec, o, s, b), ReadSoFar(o, s, b),
         mode = "hunks"
  PROVE  hunks = <<>> => Kind = "at"
<1>1. SUFFICES ASSUME hunks = <<>> PROVE Kind = "at"
  OBVIOUS
<1>2. BodyAt(diff, o, b)
  BY HandKnows
<1>3. pos = o + 2
  BY <1>1 DEF ReadSoFar
<1>4. /\ Len(b) \in Nat \ {0} /\ o \in Nat /\ Len(diff) \in Nat
      /\ o + 1 + Len(b) =< Len(diff) /\ diff[o + 2] = b[1] /\ b[1].kind = "at"
  BY <1>2 DEF BodyAt, Plain
<1>5. ~(pos > Len(diff))
  BY <1>3, <1>4
<1>6. QED
  BY <1>3, <1>4, <1>5 DEF Kind, AtEnd

LEMMA SkipLineReads ==
  ASSUME PatchInv, NEW sec, NEW o, NEW s, NEW b, Hand(sec, o, s, b), ReadSoFar(o, s, b),
         SkipLine, UNCHANGED argument
  PROVE  ReadSoFar(o, s, b)'
<1>1. /\ mode = "hunks" /\ mode' = mode /\ hunks' = hunks
      /\ Kind \notin {"at", "git", "old", "end"}
  BY DEF SkipLine
<1>2. hunks # <<>>
  BY <1>1, HunksKind
<1>3. SaysOld(hunks)
  BY <1>1, <1>2 DEF ReadSoFar, SaysBody
<1>4. QED
  BY <1>1, <1>2, <1>3 DEF ReadSoFar

LEMMA AllCollectedReads ==
  ASSUME PatchInv, NEW sec, NEW o, NEW s, NEW b, Hand(sec, o, s, b), ReadSoFar(o, s, b),
         AllCollected, UNCHANGED argument
  PROVE  ReadSoFar(o, s, b)'
<1>1. /\ mode = "hunks" /\ hunks' = hunks /\ oldPath' = oldPath
      /\ mode' = (IF oldPath = DevNull THEN "create" ELSE "read")
      /\ Kind \in {"git", "old", "end"}
  BY DEF AllCollected, Goto
<1>2. hunks # <<>>
  BY <1>1, HunksKind
<1>3. mode' = "read" => oldPath # DevNull
  BY <1>1
<1>4. ~SaysOld(hunks) => OnlyHunk(b, Len(b))
  BY <1>1, <1>2 DEF ReadSoFar, SaysBody
<1>5. OnlyHunk(b, Len(b)) => OnlyHunk(b, Len(b))'
  BY <1>1 DEF OnlyHunk
<1>6. mode' \in {"create", "read"}
  BY <1>1
<1>7. QED
  BY <1>1, <1>2, <1>3, <1>4, <1>5, <1>6 DEF ReadSoFar, SaysBody

(* From the headers the code goes to the first hunk: nothing is between.    *)
LEMMA SkipToHunkReads ==
  ASSUME PatchInv, NEW git \in BOOLEAN, NEW sec, Placed(diff, base, plan, git, sec),
         NEW o \in Olds(diff), NEW s, NEW b, Hand(sec, o, s, b), ReadSoFar(o, s, b),
         SkipToHunk, UNCHANGED argument
  PROVE  ReadSoFar(o, s, b)'
<1>1. /\ mode = "skip" /\ mode' \in {"delete", "hunks"} /\ hunks' = hunks
  BY DEF SkipToHunk, Goto
<1>2. hunks = <<>>
  BY <1>1, HunksNow
<1>3. pos' = o + 2
  <2>1. InHand(sec, o) /\ Laid(diff, base, plan, sec)
    BY DEF Hand, Placed
  <2>2. QED
    BY <2>1, NothingSkipped
<1>4. QED
  BY <1>1, <1>2, <1>3 DEF ReadSoFar, SaysBody

(* Sorted, they are the same hunks.                                         *)
LEMMA SameHunks ==
  ASSUME PatchInv, ReadFile
  PROVE  /\ hunks' \in Seq(PlainHunk) /\ Len(hunks') = Len(hunks)
         /\ SaysOld(hunks) => SaysOld(hunks')
         /\ Len(hunks) = 1 => hunks' = hunks
<1> DEFINE n == Len(hunks)
<1>1. PICK order \in [1..n -> 1..n] :
        /\ hunks' = [i \in 1..n |-> hunks[order[i]]]
        /\ \A i, j \in 1..n : order[i] = order[j] => i = j
  BY SortedOnce
<1>2. n \in Nat /\ hunks \in Seq(PlainHunk) /\ \A i \in 1..n : hunks[i] \in PlainHunk
  BY HunksNow
<1>3. hunks' \in Seq(PlainHunk) /\ Len(hunks') = n /\ \A i \in 1..n : hunks'[i] = hunks[order[i]]
  <2>1. hunks' \in [1..n -> PlainHunk]
    BY <1>1, <1>2
  <2> HIDE DEF n
  <2>2. QED
    BY <1>1, <1>2, <2>1, FunctionIsSeq
<1>4. SaysOld(hunks) => SaysOld(hunks')
  <2>1. SUFFICES ASSUME NEW i \in 1..n, Has(hunks[i].lines, "old") PROVE SaysOld(hunks')
    BY DEF SaysOld
  <2>2. PICK j \in 1..n : order[j] = i
    BY <1>1, <1>2, TallySorted
  <2>3. hunks'[j] = hunks[i]
    BY <1>3, <2>2
  <2>4. QED
    BY <1>3, <2>1, <2>3 DEF SaysOld
<1>5. ASSUME n = 1 PROVE hunks' = hunks
  <2>1. order[1] = 1 /\ 1 \in 1..n
    BY <1>1, <1>5
  <2>2. hunks'[1] = hunks[1]
    BY <1>3, <2>1
  <2> DEFINE hh == hunks'
  <2>3. hh \in Seq(PlainHunk) /\ Len(hh) = 1 /\ hh[1] = hunks[1] /\ Len(hunks) = 1
    BY <1>3, <1>5, <2>2
  <2> HIDE DEF hh
  <2>4. hunks = <<hunks[1]>> /\ hh = <<hh[1]>>
    BY <1>2, <2>3, AloneIs
  <2>5. QED
    BY <2>3, <2>4 DEF hh
<1>6. QED
  BY <1>3, <1>4, <1>5

LEMMA ReadFileReads ==
  ASSUME PatchInv, NEW sec, NEW o, NEW s, NEW b, Hand(sec, o, s, b), ReadSoFar(o, s, b),
         ReadFile, UNCHANGED argument
  PROVE  ReadSoFar(o, s, b)'
<1>1. /\ mode = "read" /\ mode' = "patch" /\ copy' = files[newPath] /\ files' = files
      /\ newPath' = newPath /\ oldPath' = oldPath
  BY DEF ReadFile, Goto
<1>2. oldPath # DevNull /\ hunks # <<>>
  BY <1>1 DEF ReadSoFar
<1>3. hunks' # <<>>
  <2>1. Len(hunks) # 0
    BY <1>2, HunksNow, EmptySeq
  <2>2. Len(hunks') # 0
    BY <2>1, SameHunks
  <2>3. Len(<<>>) = 0
    OBVIOUS
  <2>4. QED
    BY <2>2, <2>3
<1>4. ~SaysOld(hunks') => OnlyHunk(b, Len(b))'
  <2>1. SUFFICES ASSUME ~SaysOld(hunks') PROVE OnlyHunk(b, Len(b))'
    OBVIOUS
  <2>2. ~SaysOld(hunks)
    BY <2>1, SameHunks
  <2>3. OnlyHunk(b, Len(b))
    BY <1>1, <1>2, <2>2 DEF ReadSoFar, SaysBody
  <2>4. Len(hunks) = 1
    BY <2>3 DEF OnlyHunk
  <2>5. hunks' = hunks
    BY <2>4, SameHunks
  <2>6. QED
    BY <2>3, <2>5 DEF OnlyHunk
<1>5. QED
  BY <1>1, <1>2, <1>3, <1>4 DEF ReadSoFar, SaysBody

(* The only hunk of a section says what its edit does.                      *)
LEMMA TheHunk ==
  ASSUME PatchInv, NEW sec, NEW o, NEW s, NEW b, Hand(sec, o, s, b), OnlyHunk(b, Len(b))
  PROVE  LET e == s.edits[1] IN
         /\ Len(hunks) = 1 /\ Head(hunks) = hunks[1] /\ Tail(hunks) = <<>>
         /\ hunks[1] \in PlainHunk
         /\ s.does = "modify" =>
              /\ base[s.path] \in Seq(Texts) /\ s.edits = <<e>> /\ EditFits(base[s.path], e)
              /\ MadeFor(hunks[1].lines, base[s.path], e)
              /\ Understood(s) => hunks[1].start = e.at
         /\ s.does = "create" => Made(hunks[1].lines, <<>>, <<>>, s.content, <<>>)
<1> DEFINE h == [start |-> ParsedStart(b[1]), lines |-> SubSeq(b, 2, Len(b))]
           e == s.edits[1]
<1>1. hunks = <<h>>
  BY DEF OnlyHunk
<1>2. hunks[1] = h /\ h.lines = SubSeq(b, 2, Len(b)) /\ h.start = ParsedStart(b[1])
  BY <1>1
<1> HIDE DEF h
<1>3. Len(hunks) = 1 /\ Head(hunks) = hunks[1] /\ Tail(hunks) = <<>>
  BY <1>1
<1>4. hunks[1] \in PlainHunk
  BY <1>3, HunksNow
<1>5. /\ SectionFits(base, s) /\ OneEdit(s) /\ b = BodyOf(base, s)
  BY DEF Hand
<1>6. ASSUME s.does = "modify"
      PROVE  /\ base[s.path] \in Seq(Texts) /\ s.edits = <<e>> /\ EditFits(base[s.path], e)
             /\ MadeFor(hunks[1].lines, base[s.path], e)
             /\ Understood(s) => hunks[1].start = e.at
  <2>1. base[s.path] \in Seq(Texts) /\ s.edits \in Seq(PlainEdit) /\ Len(s.edits) = 1
    BY <1>5, <1>6 DEF SectionFits, OneEdit
  <2>2. s.edits = <<e>>
    BY <2>1, AloneIs
  <2>3. 1 \in DOMAIN s.edits
    <3>1. DOMAIN s.edits = 1..1
      BY <2>1, LenProperties
    <3>2. QED
      BY <3>1
  <2>4. EditFits(base[s.path], e)
    BY <1>5, <1>6, <2>3 DEF SectionFits
  <2>5. /\ MadeFor(SubSeq(b, 2, Len(b)), base[s.path], e)
        /\ Understood(s) => ParsedStart(b[1]) = e.at
    BY <1>5, <1>6, SimpleBody
  <2>6. QED
    BY <1>2, <2>1, <2>2, <2>4, <2>5
<1>7. ASSUME s.does = "create" PROVE Made(hunks[1].lines, <<>>, <<>>, s.content, <<>>)
  <2>1. Made(SubSeq(b, 2, Len(b)), <<>>, <<>>, s.content, <<>>)
    BY <1>5, <1>7, SimpleBody
  <2>2. QED
    BY <1>2, <2>1
<1>8. QED
  BY <1>3, <1>4, <1>6, <1>7

(* A hunk that says old is not the one that was placed.                     *)
LEMMA StillOld ==
  ASSUME PatchInv, HeadersInPairs, PatchHunk, copy \in Seq(Texts), SaysOld(hunks)
  PROVE  SaysOld(hunks')
<1>1. ~Has(hunks[1].lines, "old") /\ hunks' = Tail(hunks) /\ hunks # <<>>
  BY HunkIsClean DEF PatchHunk
<1>2. hunks \in Seq(PlainHunk) /\ Len(hunks) \in Nat
  BY HunksNow
<1>3. PICK i \in 1..Len(hunks) : Has(hunks[i].lines, "old")
  BY DEF SaysOld
<1>4. i # 1
  BY <1>1, <1>3
<1>5. Len(Tail(hunks)) = Len(hunks) - 1 /\ \A j \in 1..(Len(hunks) - 1) : Tail(hunks)[j] = hunks[j + 1]
  BY <1>1, <1>2, HeadTailProperties
<1> DEFINE j == i - 1
<1>6. j \in 1..(Len(hunks) - 1) /\ j + 1 = i
  BY <1>2, <1>4
<1> HIDE DEF j
<1>7. hunks'[j] = hunks[i] /\ j \in 1..Len(hunks')
  BY <1>1, <1>5, <1>6
<1>8. QED
  BY <1>3, <1>7 DEF SaysOld

(* What the only hunk of a section makes of the file.                       *)
LEMMA OneHunkOutcome ==
  ASSUME PatchInv, NEW sec, NEW o, NEW s, NEW b, Hand(sec, o, s, b), OnlyHunk(b, Len(b)),
         mode = "patch", s.does = "modify", copy \in Seq(Texts), copy = before[s.path],
         PatchHunk, UNCHANGED argument
  PROVE  Outcome(s)'
<1> DEFINE e == s.edits[1]
           c == base[s.path]
           h == hunks[1]
           B == Lines(c, e.at, e.before)
           C == Lines(c, e.at + e.before, e.cut)
           A == e.adds
           D == Lines(c, e.at + e.before + e.cut, e.after)
           N == Len(B) + Len(C) + Len(D)
<1>1. /\ Head(hunks) = h /\ h \in PlainHunk /\ c \in Seq(Texts) /\ s.edits = <<e>> /\ EditFits(c, e)
      /\ MadeFor(h.lines, c, e) /\ (Understood(s) => h.start = e.at)
  BY TheHunk
<1>2. PICK n \in Places(h) : copy' = Place(h, n)
  <2>1. \E n \in Places(Head(hunks)) :
          copy' = Splice(copy, n, Len(Removals(Head(hunks).lines)), Additions(Head(hunks).lines))
    BY DEF PatchHunk
  <2> HIDE DEF h
  <2>2. QED
    BY <1>1, <2>1 DEF Place
<1>3. /\ base' = base /\ before' = before
      /\ Understood(s)' <=> Understood(s)
  BY DEF argument, Understood
<1>4. copy \in PlainContent
  <2>1. Texts \subseteq Texts \cup {HeaderText}
    OBVIOUS
  <2>2. QED
    BY <2>1, SeqMonotonic DEF PlainContent
<1>5. /\ B \o C \o D = Lines(c, e.at, OldLen(e))
      /\ Len(B) = e.before /\ Len(C) = e.cut /\ Len(D) = e.after
  BY <1>1, PartsTogether
<1>6. N = OldLen(e) /\ e.before \in Nat
  <2>1. e.before \in Nat /\ e.cut \in Nat /\ e.after \in Nat
    BY <1>1 DEF EditFits, PlainEdit
  <2>2. QED
    BY <1>5, <2>1 DEF OldLen
<1>7. \/ copy' = copy
      \/ e.before > 0 =>
           \E k \in 0..(Len(copy) - OldLen(e)) :
             /\ Lines(copy, k + 1, OldLen(e)) = Lines(c, e.at, OldLen(e))
             /\ copy' = Splice(copy, k + e.before, e.cut, e.adds)
  <2>1. Made(h.lines, B, C, A, D)
    BY <1>1 DEF MadeFor
  <2> HIDE DEF B, C, A, D, h, e
  <2>2. \/ Place(h, n) = copy
        \/ B # <<>> => PutAt(Place(h, n), copy, Chain(B, C, D), N, Len(B), Len(C), A)
    BY <1>1, <1>2, <1>4, <2>1, PlacedWhereItStands
  <2>3. e.before > 0 => B # <<>>
    <3>1. B = <<>> => Len(B) = 0
      OBVIOUS
    <3>2. QED
      BY <1>5, <1>6, <3>1
  <2>4. Chain(B, C, D) = Lines(c, e.at, OldLen(e))
    BY <1>5 DEF Chain
  <2> HIDE DEF N
  <2>5. \/ Place(h, n) = copy
        \/ e.before > 0 => PutAt(Place(h, n), copy, Lines(c, e.at, OldLen(e)), OldLen(e),
                                 e.before, e.cut, A)
    BY <1>5, <1>6, <2>2, <2>3, <2>4
  <2>6. QED
    BY <1>2, <2>5 DEF A, PutAt
<1>8. base = before /\ Understood(s) => copy' = Edited(copy, s.edits)
  <2> SUFFICES ASSUME base = before, Understood(s) PROVE copy' = Edited(copy, s.edits)
    OBVIOUS
  <2>1. copy = c
    OBVIOUS
  <2>2. h.start = e.at /\ MadeFor(h.lines, copy, e) /\ EditFits(copy, e)
    BY <1>1, <2>1
  <2> HIDE DEF c, h, e
  <2>3. Place(h, n) = Splice(copy, e.at + e.before - 1, e.cut, e.adds)
    BY <1>1, <1>2, <2>2, GoesWhereMeant
  <2>4. Edited(copy, <<e>>) = Splice(copy, e.at + e.before - 1, e.cut, e.adds)
    BY EditedOnce
  <2>5. QED
    BY <1>1, <1>2, <2>3, <2>4
<1>9. QED
  BY <1>3, <1>7, <1>8 DEF Outcome, c, e

LEMMA PatchHunkReads ==
  ASSUME PatchInv, HeadersInPairs, NEW sec, NEW o, NEW s, NEW b,
         Hand(sec, o, s, b), ReadSoFar(o, s, b), PatchHunk, UNCHANGED argument
  PROVE  ReadSoFar(o, s, b)'
<1>1. /\ mode = "patch" /\ mode' = "patch" /\ hunks # <<>> /\ hunks' = Tail(hunks)
      /\ oldPath' = oldPath
  BY DEF PatchHunk
<1>2. copy \in Seq(Texts)
  BY <1>1 DEF Hand, InHand, Patching
<1>3. oldPath # DevNull
  BY <1>1 DEF ReadSoFar
<1>4. CASE SaysOld(hunks)
  <2>1. SaysOld(hunks')
    BY <1>2, <1>4, StillOld
  <2>2. hunks' # <<>>
    BY <2>1, NothingOld
  <2>3. QED
    BY <1>1, <1>3, <2>1, <2>2 DEF ReadSoFar
<1>5. CASE ~SaysOld(hunks)
  <2>1. OnlyHunk(b, Len(b)) /\ copy = files[newPath]
    BY <1>1, <1>5 DEF ReadSoFar, SaysBody
  <2>2. hunks' = <<>>
    BY <1>1, <2>1, TheHunk
  <2>3. s.does = "modify" /\ copy = before[s.path]
    <3>1. /\ s.does \in {"create", "modify"} /\ newPath = s.path
          /\ oldPath = DevNull <=> s.does = "create"
          /\ files[s.path] = before[s.path]
      BY <1>1, HandKnows
    <3>2. QED
      BY <1>3, <2>1, <3>1
  <2>4. Outcome(s)'
    BY <1>1, <1>2, <2>1, <2>3, OneHunkOutcome
  <2>5. QED
    BY <1>1, <1>3, <2>2, <2>4 DEF ReadSoFar, SaysBody
<1>6. QED
  BY <1>4, <1>5

(* Together: what was read of the section in hand, after every step.        *)
LEMMA ReadingSame ==
  ASSUME PatchInv, NEW git \in BOOLEAN, NEW sec, Placed(diff, base, plan, git, sec), Where(sec),
         Reading(sec), mode \notin {"header", "new", "done"},
         UNCHANGED <<oldPath, newPath>>, UNCHANGED argument,
         \A o \in Olds(diff) : \A s, b : Hand(sec, o, s, b) /\ ReadSoFar(o, s, b) => ReadSoFar(o, s, b)'
  PROVE  Reading(sec)'
<1>1. diff' = diff /\ base' = base /\ plan' = plan
  BY DEF argument
<1>2. ASSUME NEW o \in Olds(diff), HandOn(sec, o), OneEdit(plan[sec[o]])
      PROVE  \E s, b : s = plan'[sec[o]] /\ b = BodyOf(base', s) /\ ReadSoFar(o, s, b)'
  <2>1. PICK s, b : s = plan[sec[o]] /\ b = BodyOf(base, s) /\ ReadSoFar(o, s, b)
    BY <1>2 DEF Reading
  <2>2. Hand(sec, o, s, b)
    BY <1>2, <2>1, TheHand
  <2>3. ReadSoFar(o, s, b)'
    BY <2>1, <2>2
  <2>4. QED
    BY <1>1, <2>1, <2>3
<1>3. QED
  BY <1>1, <1>2 DEF Reading, HandOn

LEMMA ReadNewPathHeads ==
  ASSUME PatchInv, NEW git \in BOOLEAN, NEW sec, Placed(diff, base, plan, git, sec),
         ReadNewPath, UNCHANGED argument, Where(sec)'
  PROVE  \A o \in Olds(diff) : HandOn(sec, o)' => pos' = o + 2
<1>1. /\ mode = "new" /\ mode' = "skip" /\ hunks' = hunks /\ hunks = <<>>
  BY HunksNow DEF ReadNewPath, Goto
<1>2. diff' = diff /\ base' = base /\ plan' = plan
  BY DEF argument
<1>3. PICK r \in Olds(diff) :
        /\ oldPath' = OldOf(plan[sec[r]]) /\ newPath' = NewOf(plan[sec[r]]) /\ pos' = r + 2
  <2>1. \E r \in Olds(diff) : InHand(sec, r)'
    BY <1>1, <1>2 DEF Where
  <2>2. QED
    BY <1>1, <1>2, <2>1 DEF InHand
<1>4. /\ PlanFits(base, plan) /\ sec \in [Olds(diff) -> DOMAIN plan]
      /\ \A o, q \in Olds(diff) : sec[o] = sec[q] => o = q
  BY DEF PatchInv, Placed, Laid
<1>5. ASSUME NEW o \in Olds(diff), HandOn(sec, o)' PROVE pos' = o + 2
  <2>1. oldPath' = OldOf(plan[sec[o]]) /\ newPath' = NewOf(plan[sec[o]])
    BY <1>2, <1>5 DEF HandOn
  <2>2. sec[o] = sec[r]
    <3>1. sec[o] \in DOMAIN plan /\ sec[r] \in DOMAIN plan
      BY <1>4
    <3>2. QED
      BY <1>3, <1>4, <2>1, <3>1, OnePath
  <2>3. QED
    BY <1>3, <1>4, <2>2
<1>6. QED
  BY <1>5

LEMMA ReadNewPathReads ==
  ASSUME PatchInv, NEW git \in BOOLEAN, NEW sec, Placed(diff, base, plan, git, sec),
         ReadNewPath, UNCHANGED argument, Where(sec)'
  PROVE  Reading(sec)'
<1>1. /\ mode' = "skip" /\ hunks' = hunks /\ hunks = <<>>
  BY HunksNow DEF ReadNewPath, Goto
<1>2. diff' = diff /\ base' = base /\ plan' = plan
  BY DEF argument
<1>3. ASSUME NEW o \in Olds(diff), NEW s, NEW b, pos' = o + 2 PROVE ReadSoFar(o, s, b)'
  BY <1>1, <1>3 DEF ReadSoFar, SaysBody
<1>4. ASSUME NEW o \in Olds(diff), HandOn(sec, o)'
      PROVE  \E s, b : s = plan'[sec[o]] /\ b = BodyOf(base', s) /\ ReadSoFar(o, s, b)'
  BY <1>3, <1>4, ReadNewPathHeads
<1>5. QED
  BY <1>2, <1>4 DEF Reading

LEMMA ReadingNext ==
  ASSUME PatchInv, HeadersInPairs, NEW git \in BOOLEAN, NEW sec,
         Placed(diff, base, plan, git, sec), Where(sec), Reading(sec), Advance, Where(sec)'
  PROVE  Reading(sec)'
<1>1. UNCHANGED argument
  BY DEF Advance
<1>2. CASE FindHeader \/ NoMoreHeaders \/ NoNewPath \/ DeleteFile \/ CreateFile \/ NoFile
           \/ HunkMisfits \/ WriteBack
  <2>1. mode' \in {"new", "done", "header"}
    BY <1>2 DEF FindHeader, NoMoreHeaders, NoNewPath, DeleteFile, CreateFile, NoFile, HunkMisfits,
                WriteBack, Goto, Fail, Fails, Return
  <2>2. QED
    BY <2>1 DEF Reading
<1>3. CASE ReadNewPath
  BY <1>1, <1>3, ReadNewPathReads
<1>4. CASE SkipToHunk
  <2>1. mode = "skip" /\ UNCHANGED <<oldPath, newPath>>
    BY <1>4 DEF SkipToHunk, Goto
  <2>2. \A o \in Olds(diff) : \A s, b : Hand(sec, o, s, b) /\ ReadSoFar(o, s, b) => ReadSoFar(o, s, b)'
    BY <1>1, <1>4, SkipToHunkReads
  <2>3. QED
    BY <1>1, <2>1, <2>2, ReadingSame
<1>5. CASE BeginHunk
  <2>1. mode = "hunks" /\ UNCHANGED <<oldPath, newPath>>
    BY <1>5 DEF BeginHunk, Goto
  <2>2. \A o \in Olds(diff) : \A s, b : Hand(sec, o, s, b) /\ ReadSoFar(o, s, b) => ReadSoFar(o, s, b)'
    BY <1>1, <1>5, BeginHunkReads
  <2>3. QED
    BY <1>1, <2>1, <2>2, ReadingSame
<1>6. CASE HunkLine
  <2>1. mode = "hunk" /\ UNCHANGED <<oldPath, newPath>>
    BY <1>6 DEF HunkLine
  <2>2. \A o \in Olds(diff) : \A s, b : Hand(sec, o, s, b) /\ ReadSoFar(o, s, b) => ReadSoFar(o, s, b)'
    BY <1>1, <1>6, HunkLineReads
  <2>3. QED
    BY <1>1, <2>1, <2>2, ReadingSame
<1>7. CASE EndHunk
  <2>1. mode = "hunk" /\ UNCHANGED <<oldPath, newPath>>
    BY <1>7 DEF EndHunk, Goto
  <2>2. \A o \in Olds(diff) : \A s, b : Hand(sec, o, s, b) /\ ReadSoFar(o, s, b) => ReadSoFar(o, s, b)'
    BY <1>1, <1>7, EndHunkReads
  <2>3. QED
    BY <1>1, <2>1, <2>2, ReadingSame
<1>8. CASE SkipLine
  <2>1. mode = "hunks" /\ UNCHANGED <<oldPath, newPath>>
    BY <1>8 DEF SkipLine
  <2>2. \A o \in Olds(diff) : \A s, b : Hand(sec, o, s, b) /\ ReadSoFar(o, s, b) => ReadSoFar(o, s, b)'
    BY <1>1, <1>8, SkipLineReads
  <2>3. QED
    BY <1>1, <2>1, <2>2, ReadingSame
<1>9. CASE AllCollected
  <2>1. mode = "hunks" /\ UNCHANGED <<oldPath, newPath>>
    BY <1>9 DEF AllCollected, Goto
  <2>2. \A o \in Olds(diff) : \A s, b : Hand(sec, o, s, b) /\ ReadSoFar(o, s, b) => ReadSoFar(o, s, b)'
    BY <1>1, <1>9, AllCollectedReads
  <2>3. QED
    BY <1>1, <2>1, <2>2, ReadingSame
<1>10. CASE ReadFile
  <2>1. mode = "read" /\ UNCHANGED <<oldPath, newPath>>
    BY <1>10 DEF ReadFile, Goto
  <2>2. \A o \in Olds(diff) : \A s, b : Hand(sec, o, s, b) /\ ReadSoFar(o, s, b) => ReadSoFar(o, s, b)'
    BY <1>1, <1>10, ReadFileReads
  <2>3. QED
    BY <1>1, <2>1, <2>2, ReadingSame
<1>11. CASE PatchHunk
  <2>1. mode = "patch" /\ UNCHANGED <<oldPath, newPath>>
    BY <1>11 DEF PatchHunk
  <2>2. \A o \in Olds(diff) : \A s, b : Hand(sec, o, s, b) /\ ReadSoFar(o, s, b) => ReadSoFar(o, s, b)'
    BY <1>1, <1>11, PatchHunkReads
  <2>3. QED
    BY <1>1, <2>1, <2>2, ReadingSame
<1>12. QED
  BY <1>2, <1>3, <1>4, <1>5, <1>6, <1>7, <1>8, <1>9, <1>10, <1>11 DEF Advance, Step

-----------------------------------------------------------------------------
(******************** a file is changed where it stands ********************)
(* Who writes a file, and what: a section, its own.                         *)
Writes(sec, o, content) ==
  /\ o \in Olds(diff) /\ InHand(sec, o) /\ HandOn(sec, o) /\ sec[o] \in DOMAIN plan
  /\ plan[sec[o]].path \in Names
  /\ files' = [files EXCEPT ![plan[sec[o]].path] = content]

LEMMA DeleteFileWrites ==
  ASSUME PatchInv, NEW sec, Laid(diff, base, plan, sec), Where(sec), DeleteFile
  PROVE  \E o : Writes(sec, o, Absent) /\ plan[sec[o]].does = "delete"
<1>1. /\ mode = "delete" /\ oldPath # DevNull /\ files' = [files EXCEPT ![oldPath] = Absent]
  BY DEF DeleteFile, Goto
<1>2. PICK o \in Olds(diff) : InHand(sec, o)
  BY <1>1 DEF Where
<1> DEFINE s == plan[sec[o]]
<1>3. /\ sec[o] \in DOMAIN plan /\ s.path \in Names /\ DevNull \notin Names
      /\ s.does \in {"create", "delete", "modify"}
  BY HandIs
<1>4. NewOf(s) = DevNull /\ oldPath = OldOf(s) /\ HandOn(sec, o)
  BY <1>1, <1>2 DEF InHand, HandOn
<1>5. s.does = "delete" /\ oldPath = s.path
  BY <1>3, <1>4 DEF NewOf, OldOf
<1>6. QED
  BY <1>1, <1>2, <1>3, <1>4, <1>5 DEF Writes

LEMMA CreateFileWrites ==
  ASSUME PatchInv, NEW sec, Laid(diff, base, plan, sec), Where(sec), CreateFile
  PROVE  \E o : Writes(sec, o, AllAdded) /\ plan[sec[o]].does = "create"
<1>1. mode = "create" /\ files' = [files EXCEPT ![newPath] = AllAdded]
  BY DEF CreateFile, Goto, WriteFile
<1>2. PICK o \in Olds(diff) : InHand(sec, o)
  BY <1>1 DEF Where
<1> DEFINE s == plan[sec[o]]
<1>3. /\ sec[o] \in DOMAIN plan /\ s.path \in Names /\ DevNull \notin Names
      /\ s.does \in {"create", "delete", "modify"}
  BY HandIs
<1>4. newPath \in Names
  BY <1>1 DEF PatchInv
<1>5. newPath = s.path /\ OldOf(s) = DevNull /\ HandOn(sec, o)
  BY <1>1, <1>2, <1>4, HandFile DEF InHand, HandOn
<1>6. s.does = "create"
  BY <1>3, <1>5 DEF OldOf
<1>7. QED
  BY <1>1, <1>2, <1>3, <1>5, <1>6 DEF Writes

LEMMA WriteBackWrites ==
  ASSUME PatchInv, NEW sec, Laid(diff, base, plan, sec), Where(sec), WriteBack
  PROVE  \E o : \E was : /\ Writes(sec, o, Joined(copy, was)) /\ was = before[plan[sec[o]].path]
                         /\ copy \in Seq(Texts) /\ was \in Seq(Texts)
<1>1. mode = "patch" /\ files' = [files EXCEPT ![newPath] = Joined(copy, files[newPath])]
  BY DEF WriteBack, Goto, WriteFile
<1>2. PICK o \in Olds(diff) : InHand(sec, o)
  BY <1>1 DEF Where
<1> DEFINE s == plan[sec[o]]
<1>3. /\ sec[o] \in DOMAIN plan /\ s.path \in Names
  BY HandIs
<1>4. newPath \in Names
  BY <1>1 DEF PatchInv
<1>5. newPath = s.path /\ HandOn(sec, o)
  BY <1>1, <1>2, <1>4, HandFile DEF InHand, HandOn
<1>6. files[s.path] = before[s.path] /\ Patching(o)
  <2>1. o \in Nat /\ o >= o
    BY HandIs
  <2>2. QED
    BY <1>1, <1>2, <2>1 DEF InHand, Untouched
<1>7. QED
  BY <1>1, <1>2, <1>3, <1>5, <1>6 DEF Writes, Patching

(* Only that file is another then.                                          *)
LEMMA WrittenIs ==
  ASSUME PatchInv, NEW sec, NEW o, NEW content, Writes(sec, o, content)
  PROVE  /\ files'[plan[sec[o]].path] = content
         /\ \A p \in Names : p # plan[sec[o]].path => files'[p] = files[p]
         /\ \A i \in DOMAIN plan : i # sec[o] => /\ plan[i].path \in Names
                                                 /\ plan[i].path # plan[sec[o]].path
                                                 /\ files'[plan[i].path] = files[plan[i].path]
<1>1. /\ files' = [files EXCEPT ![plan[sec[o]].path] = content]
      /\ plan[sec[o]].path \in Names /\ sec[o] \in DOMAIN plan
  BY DEF Writes
<1>2. files \in [Names -> {Absent} \cup PlainContent] /\ PlanFits(base, plan)
  BY DEF PatchInv, PlainTypes
<1>3. /\ files'[plan[sec[o]].path] = content
      /\ \A p \in Names : p # plan[sec[o]].path => files'[p] = files[p]
  BY <1>1, <1>2
<1>4. ASSUME NEW i \in DOMAIN plan, i # sec[o]
      PROVE  plan[i].path \in Names /\ plan[i].path # plan[sec[o]].path
  <2>1. plan[i].path \in Names
    BY <1>2, SectionsFit DEF SectionFits, PlainSection
  <2>2. QED
    BY <1>1, <1>2, <1>4, <2>1, OneFile
<1>5. QED
  BY <1>3, <1>4

(* What the property says of one section.                                   *)
Standing(content, k) ==
  LET e == plan[k].edits[1]
      p == plan[k].path
  IN  /\ plan[k].does = "modify" /\ Len(plan[k].edits) = 1
      /\ e.before > 0
      /\ ~Same(content, before[p])
      => \E n \in 0..(Len(before[p]) - OldLen(e)) :
           /\ Lines(before[p], n + 1, OldLen(e)) = Lines(base[p], e.at, OldLen(e))
           /\ Same(content, Splice(before[p], n + e.before, e.cut, e.adds))

AllStand == \A i \in DOMAIN plan : Standing(files[plan[i].path], i)

LEMMA StandingStarts == files = before => AllStand
<1>1. \A c : Same(c, c)
  BY DEF Same
<1>2. QED
  BY <1>1 DEF AllStand, Standing

LEMMA StandingStays == AllStand /\ UNCHANGED <<files, argument>> => AllStand'
BY DEF AllStand, Standing, argument

LEMMA WritingStands ==
  ASSUME PatchInv, AllStand, UNCHANGED argument, NEW sec, NEW o, NEW content,
         Writes(sec, o, content), Standing(content, sec[o])
  PROVE  AllStand'
<1>1. ASSUME NEW i \in DOMAIN plan PROVE Standing(files'[plan[i].path], i)
  <2>1. CASE i = sec[o]
    BY <2>1, WrittenIs
  <2>2. CASE i # sec[o]
    <3>1. files'[plan[i].path] = files[plan[i].path]
      BY <2>2, WrittenIs
    <3>2. QED
      BY <3>1 DEF AllStand
  <2>3. QED
    BY <2>1, <2>2
<1>2. plan' = plan /\ before' = before /\ base' = base
  BY DEF argument
<1>3. QED
  BY <1>1, <1>2 DEF AllStand, Standing

LEMMA AsRead ==
  ASSUME PatchInv, NEW git \in BOOLEAN, NEW sec, Placed(diff, base, plan, git, sec), Where(sec),
         Reading(sec), mode \notin {"header", "new", "done"},
         NEW o \in Olds(diff), HandOn(sec, o), OneEdit(plan[sec[o]])
  PROVE  \E s, b : /\ s = plan[sec[o]] /\ b = BodyOf(base, s)
                   /\ Hand(sec, o, s, b) /\ ReadSoFar(o, s, b)
<1>1. PICK s, b : s = plan[sec[o]] /\ b = BodyOf(base, s) /\ ReadSoFar(o, s, b)
  BY DEF Reading
<1>2. QED
  BY <1>1, TheHand

LEMMA WriteBackStands ==
  ASSUME PatchInv, NEW git \in BOOLEAN, NEW sec, Placed(diff, base, plan, git, sec), Where(sec),
         Reading(sec), WriteBack, NEW o, NEW was, Writes(sec, o, Joined(copy, was)),
         was = before[plan[sec[o]].path], copy \in Seq(Texts)
  PROVE  Standing(Joined(copy, was), sec[o])
<1> DEFINE content == Joined(copy, was)
<1>1. SUFFICES ASSUME plan[sec[o]].does = "modify", Len(plan[sec[o]].edits) = 1,
                      plan[sec[o]].edits[1].before > 0, ~Same(content, was)
               PROVE  \E n \in 0..(Len(was) - OldLen(plan[sec[o]].edits[1])) :
                        /\ Lines(was, n + 1, OldLen(plan[sec[o]].edits[1]))
                             = Lines(base[plan[sec[o]].path], plan[sec[o]].edits[1].at,
                                     OldLen(plan[sec[o]].edits[1]))
                        /\ Same(content, Splice(was, n + plan[sec[o]].edits[1].before,
                                                plan[sec[o]].edits[1].cut,
                                                plan[sec[o]].edits[1].adds))
  BY DEF Standing
<1>2. mode = "patch" /\ hunks = <<>>
  BY DEF WriteBack, Goto, WriteFile
<1>3. o \in Olds(diff) /\ HandOn(sec, o) /\ OneEdit(plan[sec[o]])
  BY <1>1 DEF Writes, OneEdit
<1>4. PICK s, b : s = plan[sec[o]] /\ ReadSoFar(o, s, b)
  BY <1>2, <1>3, AsRead
<1>5. Outcome(s)
  BY <1>2, <1>4 DEF ReadSoFar
<1>6. Same(content, copy)
  <2>1. Texts \subseteq Texts \cup {HeaderText}
    OBVIOUS
  <2>2. copy \in PlainContent
    BY <2>1, SeqMonotonic DEF PlainContent
  <2>3. QED
    BY <2>2, JoinedIsSame
<1> DEFINE e == s.edits[1]
<1>7. copy # was
  BY <1>1, <1>6
<1>8. PICK n \in 0..(Len(was) - OldLen(e)) :
        /\ Lines(was, n + 1, OldLen(e)) = Lines(base[s.path], e.at, OldLen(e))
        /\ copy = Splice(was, n + e.before, e.cut, e.adds)
  BY <1>1, <1>4, <1>5, <1>7 DEF Outcome
<1>9. QED
  BY <1>4, <1>6, <1>8

LEMMA StandingNext ==
  ASSUME PatchInv, NEW git \in BOOLEAN, NEW sec, Placed(diff, base, plan, git, sec), Where(sec),
         Reading(sec), AllStand, Advance
  PROVE  AllStand'
<1>1. UNCHANGED argument
  BY DEF Advance
<1>2. Laid(diff, base, plan, sec)
  BY DEF Placed
<1>3. CASE DeleteFile
  <2>1. PICK o : Writes(sec, o, Absent) /\ plan[sec[o]].does = "delete"
    BY <1>2, <1>3, DeleteFileWrites
  <2>2. Standing(Absent, sec[o])
    BY <2>1 DEF Standing
  <2>3. QED
    BY <1>1, <2>1, <2>2, WritingStands
<1>4. CASE CreateFile
  <2>1. PICK o : Writes(sec, o, AllAdded) /\ plan[sec[o]].does = "create"
    BY <1>2, <1>4, CreateFileWrites
  <2>2. Standing(AllAdded, sec[o])
    BY <2>1 DEF Standing
  <2>3. QED
    BY <1>1, <2>1, <2>2, WritingStands
<1>5. CASE WriteBack
  <2>1. PICK o, was : /\ Writes(sec, o, Joined(copy, was)) /\ was = before[plan[sec[o]].path]
                      /\ copy \in Seq(Texts)
    BY <1>2, <1>5, WriteBackWrites
  <2>2. Standing(Joined(copy, was), sec[o])
    BY <1>5, <2>1, WriteBackStands
  <2>3. QED
    BY <1>1, <2>1, <2>2, WritingStands
<1>6. CASE ~(DeleteFile \/ CreateFile \/ WriteBack)
  <2>1. UNCHANGED files
    BY <1>6 DEF Advance, Step, FindHeader, NoMoreHeaders, ReadNewPath, NoNewPath, SkipToHunk,
                BeginHunk, HunkLine, EndHunk, SkipLine, AllCollected, ReadFile, NoFile,
                PatchHunk, HunkMisfits, Fail, Fails
  <2>2. QED
    BY <1>1, <2>1, StandingStays
<1>7. QED
  BY <1>3, <1>4, <1>5, <1>6

-----------------------------------------------------------------------------
(*********************** a patch that is understood ************************)
(* A patch for the files it meets, whose sections the code understands.     *)
MeantForThese == /\ base = before /\ plan # <<>>
                 /\ \A i \in DOMAIN plan : /\ Understood(plan[i])
                                           /\ plan[i].does = "modify" => plan[i].path \notin dos
                 /\ Len(plan) > 1 => diff[1].kind = "git"

(* The sections before line q have made of their files what they should.    *)
Settled(sec, q) ==
  \A r \in Olds(diff) : r < q =>
    Same(files[plan[sec[r]].path], SectionResult(base, plan[sec[r]])[plan[sec[r]].path])

SettledBefore(sec, o) == Settled(sec, o) /\ (mode = "create" => InSection(diff, o, pos - 1))

OthersStay == \A p \in Names : (\A i \in DOMAIN plan : plan[i].path # p) => files[p] = before[p]

AsMeant == result = "ok" /\ \A p \in Names : Same(files[p], Intended(base, plan)[p])

Going(sec) ==
  /\ ~SaysOld(hunks) /\ OthersStay
  /\ IF mode = "done" THEN AsMeant ELSE result = "none"
  /\ mode = "header" => Settled(sec, pos) /\ (pos > 1 => report # {})
  /\ mode = "new" => \E q \in Nat : pos = q + 1 /\ Settled(sec, q)
  /\ mode \notin {"header", "new", "done"} =>
       \A o \in Olds(diff) : HandOn(sec, o) => SettledBefore(sec, o)

LEMMA MeantKnows ==
  ASSUME PatchInv, NEW git \in BOOLEAN, NEW sec, Placed(diff, base, plan, git, sec), MeantForThese
  PROVE  /\ \A i \in DOMAIN plan : OneEdit(plan[i]) /\ (\E o \in Olds(diff) : sec[o] = i)
         /\ \A o, r \in Olds(diff) : o # r => git
         /\ \E o \in Olds(diff) : TRUE
<1>1. /\ \A i \in 1..Len(plan) : \E o \in Olds(diff) : sec[o] = i
      /\ sec \in [Olds(diff) -> DOMAIN plan]
      /\ \A o, q \in Olds(diff) : sec[o] = sec[q] => o = q
      /\ \A q \in 1..Len(diff) : diff[q].kind = "git" => git
  BY DEF Placed, Built, Laid
<1>2. plan \in Seq(PlainSection) /\ DOMAIN plan = 1..Len(plan) /\ Len(plan) \in Nat
  <2>1. plan \in Seq(PlainSection)
    BY SectionsFit DEF PatchInv
  <2>2. QED
    BY <2>1, LenProperties
<1>3. Len(plan) # 0
  BY <1>2, EmptySeq DEF MeantForThese
<1>4. \E o \in Olds(diff) : TRUE
  <2>1. 1 \in 1..Len(plan)
    BY <1>2, <1>3
  <2>2. QED
    BY <1>1, <2>1
<1>5. ASSUME NEW o \in Olds(diff), NEW r \in Olds(diff), o # r PROVE git
  <2>1. sec[o] # sec[r] /\ sec[o] \in 1..Len(plan) /\ sec[r] \in 1..Len(plan)
    BY <1>1, <1>2, <1>5
  <2>2. Len(plan) > 1
    BY <1>2, <2>1
  <2>3. diff[1].kind = "git"
    BY <2>2 DEF MeantForThese
  <2>4. 1 \in 1..Len(diff)
    <3>1. diff \in Seq(PlainLine) /\ o \in 1..Len(diff)
      BY DEF PatchInv, PlainTypes, Olds
    <3>2. Len(diff) \in Nat
      BY <3>1, LenProperties
    <3>3. QED
      BY <3>1, <3>2
  <2>5. QED
    BY <1>1, <2>3, <2>4
<1>6. \A i \in DOMAIN plan : OneEdit(plan[i])
  BY DEF MeantForThese, Understood, OneEdit
<1>7. QED
  BY <1>1, <1>2, <1>4, <1>5, <1>6

LEMMA SettledStays ==
  ASSUME NEW sec, NEW q, Settled(sec, q), UNCHANGED files, UNCHANGED argument
  PROVE  /\ \A r \in Olds(diff) : r < q =>
              Same(files'[plan[sec[r]].path], SectionResult(base, plan[sec[r]])[plan[sec[r]].path])
         /\ Settled(sec, q)'
BY DEF Settled, argument

LEMMA OthersStayThere == OthersStay /\ UNCHANGED <<files, argument>> => OthersStay'
BY DEF OthersStay, argument

(* A step that reads on.                                                    *)
LEMMA ReadsOn ==
  ASSUME NEW sec, Going(sec), UNCHANGED <<files, oldPath, newPath, result>>, UNCHANGED argument,
         mode \notin {"header", "new", "done"}, mode' \notin {"header", "new", "done"},
         ~SaysOld(hunks'),
         mode' = "create" =>
           \A o \in Olds(diff) : HandOn(sec, o) => InSection(diff, o, pos' - 1)
  PROVE  Going(sec)'
<1>1. OthersStay'
  BY OthersStayThere DEF Going
<1>2. diff' = diff /\ plan' = plan
  BY DEF argument
<1>3. ASSUME NEW o \in Olds(diff), HandOn(sec, o)' PROVE SettledBefore(sec, o)'
  <2>1. HandOn(sec, o)
    BY <1>2, <1>3 DEF HandOn
  <2>2. Settled(sec, o)
    BY <2>1 DEF Going, SettledBefore
  <2>3. Settled(sec, o)'
    BY <2>2, SettledStays
  <2>4. (mode = "create")' => InSection(diff, o, pos - 1)'
    BY <1>2, <2>1 DEF InSection
  <2>5. QED
    BY <2>3, <2>4 DEF SettledBefore
<1>4. result' = "none"
  BY DEF Going
<1>5. QED
  BY <1>1, <1>2, <1>3, <1>4 DEF Going

LEMMA FindHeaderGoes ==
  ASSUME PatchInv, NEW sec, Going(sec), FindHeader, UNCHANGED argument
  PROVE  Going(sec)'
<1>1. /\ mode = "header" /\ mode' = "new" /\ pos' = NextHeader + 1
      /\ UNCHANGED <<files, hunks, result>> /\ NextHeader # 0
  BY DEF FindHeader, Goto
<1>2. diff \in Seq(PlainLine) /\ pos \in 1..(Len(diff) + 1) /\ Len(diff) \in Nat
  BY LenProperties DEF PatchInv, PlainTypes
<1>3. /\ NextHeader \in pos..Len(diff)
      /\ \A i \in pos..(NextHeader - 1) : diff[i].kind # "old"
  BY <1>1, <1>2, NextHeaderIs
<1>4. PICK n \in Nat : n = NextHeader
  BY <1>2, <1>3
<1>5. Settled(sec, n)
  <2> SUFFICES ASSUME NEW r \in Olds(diff), r < n
               PROVE  Same(files[plan[sec[r]].path],
                           SectionResult(base, plan[sec[r]])[plan[sec[r]].path])
    BY DEF Settled
  <2>1. r \in 1..Len(diff) /\ diff[r].kind = "old"
    BY DEF Olds
  <2>2. r < pos
    <3>1. r >= pos => r \in pos..(n - 1)
      BY <1>2, <1>3, <1>4, <2>1
    <3>2. QED
      BY <1>2, <1>3, <1>4, <2>1, <3>1
  <2>3. QED
    BY <1>1, <2>2 DEF Going, Settled
<1>6. Settled(sec, n)'
  BY <1>1, <1>5, SettledStays
<1>7. pos' = n + 1
  BY <1>1, <1>4
<1>8. QED
  <2>1. OthersStay'
    BY <1>1, OthersStayThere DEF Going
  <2>2. QED
    BY <1>1, <1>4, <1>6, <1>7, <2>1 DEF Going

(* There is no header left, and every section of the patch was read.        *)
LEMMA NoHeader ==
  ASSUME diff \in Seq(PlainLine), pos \in 1..(Len(diff) + 1), NextHeader = 0
  PROVE  \A i \in pos..Len(diff) : diff[i].kind # "old"
<1> DEFINE I == {i \in pos..Len(diff) : diff[i].kind = "old"}
<1>1. NextHeader = IF I # {} THEN Min(I) ELSE 0
  BY DEF NextHeader, SelectInSubSeq
<1>2. Len(diff) \in Nat /\ pos \in Nat \ {0}
  BY LenProperties
<1>3. I \in SUBSET Nat /\ 0 \notin I
  BY <1>2
<1>4. I = {}
  <2> HIDE DEF I
  <2>1. I # {} => Min(I) \in I
    BY <1>3, MinOf
  <2>2. QED
    BY <1>1, <1>3, <2>1
<1>5. QED
  BY <1>4

LEMMA NoMoreHeadersGoes ==
  ASSUME PatchInv, NEW git \in BOOLEAN, NEW sec, Placed(diff, base, plan, git, sec),
         MeantForThese, Going(sec), NoMoreHeaders, UNCHANGED argument
  PROVE  Going(sec)'
<1>1. /\ mode = "header" /\ mode' = "done" /\ NextHeader = 0
      /\ UNCHANGED <<files, hunks>> /\ result' = (IF report = {} THEN "error" ELSE "ok")
  BY DEF NoMoreHeaders, Return
<1>2. /\ diff \in Seq(PlainLine) /\ pos \in 1..(Len(diff) + 1) /\ Len(diff) \in Nat
      /\ PlanFits(base, plan)
  BY LenProperties DEF PatchInv, PlainTypes
<1>3. \A i \in pos..Len(diff) : diff[i].kind # "old"
  BY <1>1, <1>2, NoHeader
<1>4. ASSUME NEW o \in Olds(diff) PROVE o < pos /\ o >= 1
  <2>1. o \in 1..Len(diff) /\ diff[o].kind = "old"
    BY DEF Olds
  <2>2. ~(o \in pos..Len(diff))
    BY <1>3, <2>1
  <2>3. QED
    BY <1>2, <2>1, <2>2
<1>5. result' = "ok"
  <2>1. PICK o \in Olds(diff) : TRUE
    BY MeantKnows
  <2>2. o \in Nat /\ pos > 1
    <3>1. o \in 1..Len(diff)
      BY DEF Olds
    <3>2. QED
      BY <1>2, <1>4, <3>1
  <2>3. QED
    BY <1>1, <2>2 DEF Going
<1>6. ASSUME NEW p \in Names PROVE Same(files[p], Intended(base, plan)[p])
  <2>1. CASE \E i \in DOMAIN plan : plan[i].path = p
    <3>1. PICK i \in DOMAIN plan : plan[i].path = p
      BY <2>1
    <3>2. PICK o \in Olds(diff) : sec[o] = i
      BY MeantKnows
    <3>3. Same(files[plan[sec[o]].path], SectionResult(base, plan[sec[o]])[plan[sec[o]].path])
      BY <1>1, <1>4 DEF Going, Settled
    <3>4. Intended(base, plan)[plan[i].path] = SectionResult(base, plan[i])[plan[i].path]
      BY <1>2, IntendedIs
    <3>5. QED
      BY <3>1, <3>2, <3>3, <3>4
  <2>2. CASE \A i \in DOMAIN plan : plan[i].path # p
    <3>1. files[p] = before[p] /\ base = before
      BY <2>2 DEF Going, OthersStay, MeantForThese
    <3>2. Intended(base, plan)[p] = base[p]
      BY <1>2, <2>2, IntendedIs
    <3>3. QED
      BY <3>1, <3>2 DEF Same
  <2>3. QED
    BY <2>1, <2>2
<1>7. AsMeant'
  BY <1>1, <1>5, <1>6 DEF AsMeant, argument
<1>8. OthersStay' /\ ~SaysOld(hunks)'
  BY <1>1, OthersStayThere DEF Going
<1>9. QED
  BY <1>1, <1>7, <1>8 DEF Going

LEMMA ReadNewPathGoes ==
  ASSUME PatchInv, NEW git \in BOOLEAN, NEW sec, Placed(diff, base, plan, git, sec),
         Going(sec), ReadNewPath, UNCHANGED argument, Where(sec)'
  PROVE  Going(sec)'
<1>1. /\ mode = "new" /\ mode' = "skip" /\ UNCHANGED <<files, hunks, result>> /\ pos' = pos + 1
  BY DEF ReadNewPath, Goto
<1>2. PICK q \in Nat : pos = q + 1 /\ Settled(sec, q)
  BY <1>1 DEF Going
<1>3. ASSUME NEW o \in Olds(diff), HandOn(sec, o)' PROVE SettledBefore(sec, o)'
  <2>1. o = q
    <3>1. pos' = o + 2
      BY <1>3, ReadNewPathHeads
    <3>2. o \in Nat
      BY DEF Olds
    <3>3. QED
      BY <1>1, <1>2, <3>1, <3>2
  <2>2. Settled(sec, o)'
    BY <1>1, <1>2, <2>1, SettledStays
  <2>3. QED
    BY <1>1, <2>2 DEF SettledBefore
<1>4. OthersStay' /\ diff' = diff
  BY <1>1, OthersStayThere DEF Going, argument
<1>5. QED
  BY <1>1, <1>3, <1>4 DEF Going

LEMMA NoNewPathNever ==
  ASSUME PatchInv, NEW git \in BOOLEAN, NEW sec, Placed(diff, base, plan, git, sec),
         Where(sec), NoNewPath
  PROVE  FALSE
<1>1. mode = "new" /\ Kind # "new"
  BY DEF NoNewPath
<1>2. PICK o \in Olds(diff) : InHand(sec, o)
  BY <1>1 DEF Where
<1>3. pos = o + 1 /\ Heads(diff, o, plan[sec[o]]) /\ Follows(diff, o, BodyOf(base, plan[sec[o]]))
  BY <1>1, <1>2 DEF InHand, Placed, Laid, Built
<1> DEFINE b == BodyOf(base, plan[sec[o]])
<1>4. Len(b) \in Nat /\ Len(diff) \in Nat /\ o \in Nat
  <2>1. SectionFits(base, plan[sec[o]]) /\ o \in Nat /\ Len(diff) \in Nat
    BY HandIs DEF Placed
  <2>2. b \in Seq(BodyLine)
    BY <2>1, BodyIs
  <2>3. QED
    BY <2>1, <2>2, LenProperties
<1>5. o + 1 =< Len(diff)
  <2>1. o + 1 + Len(b) =< Len(diff)
    BY <1>3 DEF Follows
  <2> HIDE DEF b
  <2>2. QED
    BY <1>4, <2>1
<1>6. diff[pos].kind = "new"
  BY <1>3, <1>5 DEF Heads
<1>7. ~(pos > Len(diff))
  <2> HIDE DEF b
  <2>1. pos = o + 1
    BY <1>3
  <2>2. QED
    BY <1>4, <1>5, <2>1
<1>8. QED
  BY <1>1, <1>6, <1>7 DEF Kind, AtEnd

(* The section in hand, which is understood and was read so far.            *)
LEMMA TheOne ==
  ASSUME PatchInv, NEW git \in BOOLEAN, NEW sec, Placed(diff, base, plan, git, sec), Where(sec),
         Reading(sec), MeantForThese, mode \notin {"header", "new", "done"}
  PROVE  \E o \in Olds(diff) : \E s, b :
           /\ HandOn(sec, o) /\ s = plan[sec[o]] /\ b = BodyOf(base, s)
           /\ Hand(sec, o, s, b) /\ ReadSoFar(o, s, b) /\ Understood(s)
<1>1. PICK o \in Olds(diff) : InHand(sec, o)
  BY DEF Where
<1>2. HandOn(sec, o)
  BY <1>1 DEF InHand, HandOn
<1>3. sec[o] \in DOMAIN plan
  BY DEF Placed, Laid
<1>4. OneEdit(plan[sec[o]]) /\ Understood(plan[sec[o]])
  BY <1>3, MeantKnows DEF MeantForThese
<1>5. PICK s, b : /\ s = plan[sec[o]] /\ b = BodyOf(base, s)
                  /\ Hand(sec, o, s, b) /\ ReadSoFar(o, s, b)
  BY <1>2, <1>4, AsRead
<1>6. QED
  BY <1>2, <1>4, <1>5

LEMMA BeginHunkGoes ==
  ASSUME PatchInv, NEW sec, Going(sec), BeginHunk, UNCHANGED argument
  PROVE  Going(sec)'
<1> DEFINE h == [start |-> ParsedStart(diff[pos]), lines |-> <<>>]
<1>1. /\ mode = "hunks" /\ mode' = "hunk" /\ UNCHANGED <<files, oldPath, newPath, result>>
      /\ hunks' = Append(hunks, h)
  BY DEF BeginHunk, Goto
<1>2. hunks \in Seq(PlainHunk) /\ Len(hunks) \in Nat
  BY HunksNow
<1>3. ~Has(h.lines, "old")
  <2>1. h.lines = <<>> /\ DOMAIN <<>> = {}
    OBVIOUS
  <2>2. QED
    BY <2>1 DEF Has
<1>4. h \in [start : {ParsedStart(diff[pos])}, lines : {<<>>}]
  OBVIOUS
<1> HIDE DEF h
<1>5. ~SaysOld(hunks')
  <2>1. SUFFICES ASSUME NEW i \in 1..Len(hunks'), Has(hunks'[i].lines, "old") PROVE FALSE
    BY DEF SaysOld
  <2>2. /\ Len(hunks') = Len(hunks) + 1 /\ hunks'[Len(hunks) + 1] = h
        /\ \A k \in 1..Len(hunks) : hunks'[k] = hunks[k]
    BY <1>1, <1>2
  <2>3. i \in 1..Len(hunks)
    BY <1>2, <1>3, <2>1, <2>2
  <2>4. QED
    BY <2>1, <2>2, <2>3 DEF SaysOld, Going
<1>6. QED
  BY <1>1, <1>5, ReadsOn

(* In a hunk that ends no header of another file is read.                   *)
LEMMA NoOldInHunk ==
  ASSUME PatchInv, NEW git \in BOOLEAN, NEW sec, Placed(diff, base, plan, git, sec), Where(sec),
         Reading(sec), MeantForThese, Going(sec), HunkLine
  PROVE  Kind # "old"
<1>1. /\ mode = "hunk" /\ Kind \notin {"at", "git", "end"}
  BY DEF HunkLine
<1>2. PICK o, s, b : o \in Olds(diff) /\ Hand(sec, o, s, b) /\ ReadSoFar(o, s, b)
  BY <1>1, TheOne
<1> DEFINE m == Len(b)
<1>3. pos \in (o + 3)..(o + 2 + m)
  BY <1>1, <1>2 DEF Going, ReadSoFar, SaysBody
<1>4. /\ o \in Nat /\ m \in Nat \ {0} /\ diff[o + 2] = b[1] /\ b[1].kind = "at"
      /\ \A q \in (o + 3)..(o + 1 + m) : diff[q].kind \in {"ctx", "del", "add"}
      /\ Len(diff) \in Nat
  BY <1>1, <1>2, HandKnows DEF BodyAt, Plain
<1>5. /\ pos \in 1..Len(diff) /\ Kind = diff[pos].kind
  <2>1. ~AtEnd
    BY HunkLineIs
  <2>2. QED
    BY <2>1, HunkLineIs DEF Kind
<1> HIDE DEF m
<1>6. CASE pos \in (o + 3)..(o + 1 + m)
  BY <1>4, <1>5, <1>6
<1>7. CASE pos = o + 2 + m
  <2>1. SUFFICES ASSUME Kind = "old" PROVE FALSE
    OBVIOUS
  <2>2. pos \in Olds(diff) /\ pos # o
    BY <1>4, <1>5, <1>7, <2>1 DEF Olds
  <2>3. git
    BY <1>2, <2>2, MeantKnows
  <2>4. diff[pos - 1].kind = "git"
    BY <2>2, <2>3 DEF Placed, Built, Led
  <2>5. CASE m = 1
    <3>1. pos - 1 = o + 2
      BY <1>4, <1>7, <2>5
    <3>2. QED
      BY <1>4, <2>4, <3>1
  <2>6. CASE m # 1
    <3>1. pos - 1 \in (o + 3)..(o + 1 + m)
      BY <1>4, <1>7, <2>6
    <3>2. QED
      BY <1>4, <2>4, <3>1
  <2>7. QED
    BY <2>5, <2>6
<1>8. QED
  BY <1>3, <1>4, <1>6, <1>7

LEMMA HunkLineGoes ==
  ASSUME PatchInv, NEW sec, Going(sec), HunkLine, Kind # "old", UNCHANGED argument
  PROVE  Going(sec)'
<1> DEFINE n == Len(hunks)
           l == diff[pos]
           new == [hunks[n] EXCEPT !.lines = Append(@, l)]
<1>1. mode = "hunk" /\ mode' = "hunk" /\ UNCHANGED <<files, oldPath, newPath, result>>
  BY DEF HunkLine
<1>2. /\ n \in Nat \ {0} /\ l \in PlainLine /\ Len(hunks') = n
      /\ \A i \in 1..n : hunks'[i] = IF i = n THEN new ELSE hunks[i]
      /\ l.kind # "old"
  <2>1. ~AtEnd
    BY HunkLineIs
  <2>2. l.kind # "old"
    BY <2>1 DEF Kind
  <2>3. QED
    BY <2>2, HunkLineIs
<1>3. n \in 1..n /\ hunks[n].lines \in Seq(PlainLine)
  <2>1. n \in 1..n
    BY <1>2
  <2>2. hunks[n] \in PlainHunk
    BY <2>1, HunksNow
  <2>3. QED
    BY <2>1, <2>2 DEF PlainHunk
<1>4. new.lines = Append(hunks[n].lines, l)
  <2> DEFINE h == hunks[n]
  <2>1. h \in PlainHunk
    BY <1>3, HunksNow
  <2> HIDE DEF h, l
  <2>2. [h EXCEPT !.lines = Append(@, l)].lines = Append(h.lines, l)
    BY <2>1 DEF PlainHunk
  <2>3. QED
    BY <2>2 DEF h
<1> HIDE DEF new
<1>5. ~Has(new.lines, "old")
  <2> DEFINE ll == hunks[n].lines
  <2>1. ll \in Seq(PlainLine) /\ new.lines = Append(ll, l) /\ ~Has(ll, "old")
    BY <1>2, <1>3, <1>4 DEF Going, SaysOld
  <2> HIDE DEF ll, l
  <2>2. /\ Append(ll, l) \in Seq(PlainLine) /\ Len(Append(ll, l)) = Len(ll) + 1
        /\ Append(ll, l)[Len(ll) + 1] = l
        /\ \A k \in 1..Len(ll) : Append(ll, l)[k] = ll[k]
        /\ Len(ll) \in Nat
    BY <1>2, <2>1, AppendProperties, LenProperties
  <2>3. DOMAIN Append(ll, l) = 1..(Len(ll) + 1) /\ DOMAIN ll = 1..Len(ll)
    BY <2>1, <2>2, LenProperties
  <2>4. QED
    BY <1>2, <2>1, <2>2, <2>3 DEF Has, l
<1>6. ~SaysOld(hunks')
  <2>1. SUFFICES ASSUME NEW i \in 1..n, Has(hunks'[i].lines, "old") PROVE FALSE
    BY <1>2 DEF SaysOld
  <2>2. QED
    BY <1>2, <1>5, <2>1 DEF SaysOld, Going
<1>7. QED
  BY <1>1, <1>6, ReadsOn

(* The hunk has been read, and so has all of the section.                   *)
LEMMA AllCollectedGoes ==
  ASSUME PatchInv, NEW git \in BOOLEAN, NEW sec, Placed(diff, base, plan, git, sec), Where(sec),
         MeantForThese, Going(sec), AllCollected, UNCHANGED argument
  PROVE  Going(sec)'
<1>1. /\ mode = "hunks" /\ mode' \in {"create", "read"}
      /\ UNCHANGED <<files, pos, oldPath, newPath, hunks, result>>
  BY DEF AllCollected, Goto
<1>2. ASSUME NEW o \in Olds(diff), HandOn(sec, o) PROVE InSection(diff, o, pos' - 1)
  <2>1. sec[o] \in DOMAIN plan
    BY DEF Placed, Laid
  <2>2. InHand(sec, o)
    <3>1. OneEdit(plan[sec[o]])
      BY <2>1, MeantKnows
    <3>2. QED
      BY <1>1, <1>2, <3>1, TheHand DEF Hand
  <2>3. InSection(diff, o, pos - 1)
    BY <1>1, <2>2 DEF InHand, Going
  <2>4. QED
    BY <1>1, <2>3
<1>3. ~SaysOld(hunks')
  BY <1>1 DEF Going
<1>4. QED
  BY <1>1, <1>2, <1>3, ReadsOn

(* The other steps that read on.                                            *)
LEMMA QuietGoes ==
  ASSUME NEW sec, Going(sec), SkipToHunk \/ EndHunk \/ SkipLine, UNCHANGED argument
  PROVE  Going(sec)'
<1>1. /\ mode \in {"skip", "hunk", "hunks"} /\ mode' \in {"delete", "hunks"}
      /\ UNCHANGED <<files, oldPath, newPath, result>> /\ hunks' = hunks
  BY DEF SkipToHunk, EndHunk, SkipLine, Goto
<1>2. ~SaysOld(hunks')
  BY <1>1 DEF Going
<1>3. QED
  BY <1>1, <1>2, ReadsOn

(* Of a section that is understood there is one hunk to apply.              *)
LEMMA OneToApply ==
  ASSUME PatchInv, NEW git \in BOOLEAN, NEW sec, Placed(diff, base, plan, git, sec), Where(sec),
         Reading(sec), MeantForThese, Going(sec), mode \in {"create", "read", "patch"},
         hunks # <<>>
  PROVE  \E o \in Olds(diff) : \E s, b :
           /\ HandOn(sec, o) /\ s = plan[sec[o]] /\ Understood(s)
           /\ Hand(sec, o, s, b) /\ ReadSoFar(o, s, b) /\ OnlyHunk(b, Len(b))
<1>1. PICK o, s, b : /\ o \in Olds(diff) /\ HandOn(sec, o) /\ s = plan[sec[o]]
                     /\ Hand(sec, o, s, b) /\ ReadSoFar(o, s, b) /\ Understood(s)
  BY TheOne
<1>2. OnlyHunk(b, Len(b))
  BY <1>1 DEF Going, ReadSoFar, SaysBody
<1>3. QED
  BY <1>1, <1>2

LEMMA ReadFileGoes ==
  ASSUME PatchInv, NEW git \in BOOLEAN, NEW sec, Placed(diff, base, plan, git, sec), Where(sec),
         Reading(sec), MeantForThese, Going(sec), ReadFile, UNCHANGED argument
  PROVE  Going(sec)'
<1>1. /\ mode = "read" /\ mode' = "patch" /\ UNCHANGED <<files, oldPath, newPath, result>>
  BY DEF ReadFile, Goto
<1>2. hunks # <<>>
  <2>1. PICK o, s, b : ReadSoFar(o, s, b)
    BY <1>1, TheOne
  <2>2. QED
    BY <1>1, <2>1 DEF ReadSoFar
<1>3. Len(hunks) = 1
  <2>1. PICK b : OnlyHunk(b, Len(b))
    BY <1>1, <1>2, OneToApply
  <2>2. QED
    BY <2>1 DEF OnlyHunk
<1>4. ~SaysOld(hunks')
  <2>1. hunks' = hunks
    BY <1>3, SameHunks
  <2>2. QED
    BY <2>1 DEF Going
<1>5. QED
  BY <1>1, <1>4, ReadsOn

LEMMA PatchHunkGoes ==
  ASSUME PatchInv, NEW git \in BOOLEAN, NEW sec, Placed(diff, base, plan, git, sec), Where(sec),
         Reading(sec), MeantForThese, Going(sec), PatchHunk, UNCHANGED argument
  PROVE  Going(sec)'
<1>1. /\ mode = "patch" /\ mode' = "patch" /\ UNCHANGED <<files, oldPath, newPath, result>>
      /\ hunks # <<>> /\ hunks' = Tail(hunks)
  BY DEF PatchHunk
<1>2. Tail(hunks) = <<>>
  <2>1. PICK o, s, b : Hand(sec, o, s, b) /\ OnlyHunk(b, Len(b))
    BY <1>1, OneToApply
  <2>2. QED
    BY <2>1, TheHunk
<1>3. QED
  BY <1>1, <1>2, NothingOld, ReadsOn

LEMMA NoFileNever ==
  ASSUME PatchInv, NEW git \in BOOLEAN, NEW sec, Placed(diff, base, plan, git, sec), Where(sec),
         Reading(sec), MeantForThese, NoFile
  PROVE  FALSE
<1>1. mode = "read" /\ files[newPath] = Absent
  BY DEF NoFile
<1>2. PICK o, s, b : Hand(sec, o, s, b) /\ ReadSoFar(o, s, b)
  BY <1>1, TheOne
<1>3. /\ s.does \in {"create", "modify"} /\ newPath = s.path /\ (oldPath = DevNull <=> s.does = "create")
      /\ files[s.path] = before[s.path]
  BY <1>1, <1>2, HandKnows
<1>4. oldPath # DevNull
  BY <1>1, <1>2 DEF ReadSoFar
<1>5. base[s.path] \in Seq(Texts)
  BY <1>2, <1>3, <1>4 DEF Hand, SectionFits
<1>6. Absent \in Seq(Texts)
  BY <1>1, <1>3, <1>5 DEF MeantForThese
<1>7. QED
  BY <1>6, PlainApart

LEMMA HunkMisfitsNever ==
  ASSUME PatchInv, NEW git \in BOOLEAN, NEW sec, Placed(diff, base, plan, git, sec), Where(sec),
         Reading(sec), MeantForThese, Going(sec), HunkMisfits
  PROVE  FALSE
<1>1. mode = "patch" /\ hunks # <<>> /\ Places(Head(hunks)) = {}
  BY DEF HunkMisfits
<1>2. PICK o, s, b : /\ Hand(sec, o, s, b) /\ ReadSoFar(o, s, b) /\ OnlyHunk(b, Len(b))
                     /\ Understood(s)
  BY <1>1, OneToApply
<1>3. /\ s.does \in {"create", "modify"} /\ newPath = s.path /\ (oldPath = DevNull <=> s.does = "create")
      /\ files[s.path] = before[s.path]
  BY <1>1, <1>2, HandKnows
<1>4. oldPath # DevNull /\ copy = files[newPath]
  BY <1>1, <1>2 DEF ReadSoFar, SaysBody, Going
<1>5. copy = base[s.path] /\ s.does = "modify"
  BY <1>3, <1>4 DEF MeantForThese
<1> DEFINE e == s.edits[1]
           h == hunks[1]
<1>6. /\ Head(hunks) = h /\ h \in PlainHunk /\ base[s.path] \in Seq(Texts)
      /\ EditFits(base[s.path], e) /\ MadeFor(h.lines, base[s.path], e) /\ h.start = e.at
  BY <1>2, <1>5, TheHunk
<1> HIDE DEF e, h
<1>7. Places(h) # {}
  BY <1>5, <1>6, GoesWhereMeant
<1>8. QED
  BY <1>1, <1>6, <1>7

(* The file of a section becomes what the section makes of it.              *)
LEMMA WritingGoes ==
  ASSUME PatchInv, NEW git \in BOOLEAN, NEW sec, Placed(diff, base, plan, git, sec), Going(sec),
         mode \notin {"header", "new", "done"}, NEW o, NEW content, Writes(sec, o, content),
         Same(content, SectionResult(base, plan[sec[o]])[plan[sec[o]].path]),
         InSection(diff, o, pos - 1), UNCHANGED argument,
         mode' = "header", UNCHANGED <<pos, result>>, hunks' = hunks \/ hunks' = <<>>,
         report' # {}
  PROVE  Going(sec)'
<1>1. /\ o \in Olds(diff) /\ HandOn(sec, o) /\ sec[o] \in DOMAIN plan
      /\ plan[sec[o]].path \in Names
  BY DEF Writes
<1>2. /\ diff' = diff /\ plan' = plan /\ base' = base /\ before' = before /\ pos' = pos
  BY DEF argument
<1>3. Settled(sec, o)
  BY <1>1 DEF Going, SettledBefore
<1>4. ASSUME NEW r \in Olds(diff), r < pos
      PROVE  Same(files'[plan[sec[r]].path],
                  SectionResult(base, plan[sec[r]])[plan[sec[r]].path])
  <2>1. CASE r = o
    <3>1. files'[plan[sec[o]].path] = content
      BY WrittenIs
    <3>2. QED
      BY <2>1, <3>1
  <2>2. CASE r # o
    <3>1. sec[r] # sec[o] /\ sec[r] \in DOMAIN plan
      BY <1>1, <2>2 DEF Placed, Laid
    <3>2. files'[plan[sec[r]].path] = files[plan[sec[r]].path]
      BY <3>1, WrittenIs
    <3>3. r < o
      <4>1. r \in Nat /\ o \in Nat /\ pos \in Nat /\ diff[r].kind = "old"
        BY <1>1, HunksNow DEF Olds
      <4>2. ~(r \in (o + 1)..(pos - 1))
        BY <4>1 DEF InSection
      <4>3. QED
        BY <1>4, <2>2, <4>1, <4>2
    <3>4. QED
      BY <1>3, <3>2, <3>3 DEF Settled
  <2>3. QED
    BY <2>1, <2>2
<1>5. Settled(sec, pos)'
  BY <1>2, <1>4 DEF Settled
<1>6. OthersStay'
  <2>1. ASSUME NEW p \in Names, \A i \in DOMAIN plan : plan[i].path # p
        PROVE  files'[p] = before[p]
    <3>1. p # plan[sec[o]].path
      BY <1>1, <2>1
    <3>2. files'[p] = files[p]
      BY <3>1, WrittenIs
    <3>3. files[p] = before[p]
      BY <2>1 DEF Going, OthersStay
    <3>4. QED
      BY <3>2, <3>3
  <2>2. QED
    BY <1>2, <2>1 DEF OthersStay
<1>7. ~SaysOld(hunks') /\ result' = "none"
  BY NothingOld DEF Going
<1>8. QED
  BY <1>5, <1>6, <1>7 DEF Going

LEMMA DeleteFileGoes ==
  ASSUME PatchInv, NEW git \in BOOLEAN, NEW sec, Placed(diff, base, plan, git, sec), Where(sec),
         Reading(sec), MeantForThese, Going(sec), DeleteFile, UNCHANGED argument
  PROVE  Going(sec)'
<1>1. /\ mode = "delete" /\ mode' = "header" /\ UNCHANGED <<pos, hunks, result>>
      /\ oldPath # DevNull
      /\ IF files[oldPath] # Absent THEN Report(oldPath) ELSE UNCHANGED report
  BY DEF DeleteFile, Goto
<1>2. Laid(diff, base, plan, sec)
  BY DEF Placed
<1>3. PICK o : Writes(sec, o, Absent) /\ plan[sec[o]].does = "delete"
  BY <1>2, DeleteFileWrites
<1>4. /\ o \in Olds(diff) /\ InHand(sec, o) /\ HandOn(sec, o) /\ sec[o] \in DOMAIN plan
      /\ plan[sec[o]].path \in Names
  BY <1>3 DEF Writes
<1>5. OneEdit(plan[sec[o]])
  BY <1>3 DEF OneEdit
<1>6. pos = o + 2
  <2>1. PICK s, b : ReadSoFar(o, s, b)
    BY <1>1, <1>4, <1>5, AsRead
  <2>2. QED
    BY <1>1, <2>1 DEF ReadSoFar
<1>7. o \in Nat /\ SectionFits(base, plan[sec[o]]) /\ Heads(diff, o, plan[sec[o]]) /\ Len(diff) \in Nat
  BY <1>2, <1>4, HandIs
<1>8. InSection(diff, o, pos - 1)
  <2>1. SUFFICES ASSUME NEW q \in (o + 1)..(pos - 1) PROVE diff[q].kind # "old"
    BY DEF InSection
  <2>2. q = o + 1
    BY <1>6, <1>7, <2>1
  <2>3. o + 1 =< Len(diff)
    <3>1. pos \in 1..(Len(diff) + 1)
      BY DEF PatchInv, PlainTypes
    <3>2. QED
      BY <1>6, <1>7, <3>1
  <2>4. QED
    BY <1>7, <2>2, <2>3 DEF Heads
<1>9. Same(Absent, SectionResult(base, plan[sec[o]])[plan[sec[o]].path])
  <2>1. base \in [Names -> {Absent} \cup Seq(Texts)]
    BY DEF PatchInv, PlanFits, PlainFiles
  <2>2. DOMAIN base = Names /\ base = [p \in Names |-> base[p]]
    BY <2>1
  <2>3. SectionResult(base, plan[sec[o]])[plan[sec[o]].path] = Absent
    BY <1>3, <1>4, <2>2, SectionMakes
  <2>4. QED
    BY <2>3 DEF Same
<1>10. report' # {}
  <2>1. oldPath = plan[sec[o]].path
    BY <1>3, <1>4 DEF HandOn, OldOf
  <2>2. files[plan[sec[o]].path] = before[plan[sec[o]].path]
    BY <1>4, <1>7 DEF InHand, Untouched
  <2>3. files[oldPath] \in Seq(Texts)
    BY <1>3, <1>7, <2>1, <2>2 DEF SectionFits, MeantForThese
  <2>4. Absent \notin Seq(Texts)
    <3>1. Texts \subseteq Texts \cup {HeaderText}
      OBVIOUS
    <3>2. Seq(Texts) \subseteq Seq(Texts \cup {HeaderText})
      BY <3>1, SeqMonotonic
    <3>3. QED
      BY <3>2, PlainApart
  <2>5. report' = report \cup {oldPath}
    BY <1>1, <2>3, <2>4 DEF Report
  <2>6. QED
    BY <2>5
<1>11. QED
  BY <1>1, <1>3, <1>8, <1>9, <1>10, WritingGoes

LEMMA CreateFileGoes ==
  ASSUME PatchInv, NEW git \in BOOLEAN, NEW sec, Placed(diff, base, plan, git, sec), Where(sec),
         Reading(sec), MeantForThese, Going(sec), CreateFile, UNCHANGED argument
  PROVE  Going(sec)'
<1>1. /\ mode = "create" /\ mode' = "header" /\ UNCHANGED <<pos, result>> /\ hunks' = <<>>
      /\ report' # {}
  BY DEF CreateFile, Goto, Report
<1>2. Laid(diff, base, plan, sec)
  BY DEF Placed
<1>3. PICK o : Writes(sec, o, AllAdded) /\ plan[sec[o]].does = "create"
  BY <1>2, CreateFileWrites
<1>4. /\ o \in Olds(diff) /\ HandOn(sec, o) /\ sec[o] \in DOMAIN plan
      /\ plan[sec[o]].path \in Names
  BY <1>3 DEF Writes
<1>5. OneEdit(plan[sec[o]])
  BY <1>3 DEF OneEdit
<1>6. PICK s, b : s = plan[sec[o]] /\ Hand(sec, o, s, b) /\ ReadSoFar(o, s, b)
  BY <1>1, <1>4, <1>5, AsRead
<1>7. OnlyHunk(b, Len(b))
  BY <1>1, <1>6 DEF ReadSoFar, SaysBody, Going
<1>8. Len(hunks) = 1 /\ Made(hunks[1].lines, <<>>, <<>>, s.content, <<>>)
  BY <1>3, <1>6, <1>7, TheHunk
<1>9. AllAdded = s.content
  <2> DEFINE F == [i \in DOMAIN hunks |-> TextsOf(hunks[i].lines, Adds)]
             c == s.content
  <2>1. TextsOf(hunks[1].lines, Adds) = c /\ c \in Seq(Texts)
    BY <1>8, AdditionsAre DEF Made
  <2>2. DOMAIN hunks = {1}
    <3>1. hunks \in Seq(PlainHunk)
      BY HunksNow
    <3>2. DOMAIN hunks = 1..1
      BY <1>8, <3>1, LenProperties
    <3>3. QED
      BY <3>2
  <2>3. F = [i \in {1} |-> c]
    BY <2>1, <2>2
  <2> HIDE DEF c, F
  <2>4. F = <<c>>
    BY <2>3
  <2>5. FlattenSeq(<<c>>) = c
    BY <2>1, FlattenAlone
  <2>6. AllAdded = FlattenSeq(F)
    BY DEF AllAdded, F
  <2>7. QED
    BY <2>4, <2>5, <2>6 DEF c
<1>10. Same(AllAdded, SectionResult(base, plan[sec[o]])[plan[sec[o]].path])
  <2>1. base \in [Names -> {Absent} \cup Seq(Texts)]
    BY DEF PatchInv, PlanFits, PlainFiles
  <2>2. DOMAIN base = Names /\ base = [p \in Names |-> base[p]]
    BY <2>1
  <2>3. SectionResult(base, plan[sec[o]])[plan[sec[o]].path] = plan[sec[o]].content
    BY <1>3, <1>4, <2>2, SectionMakes
  <2>4. QED
    BY <1>6, <1>9, <2>3 DEF Same
<1>11. InSection(diff, o, pos - 1)
  BY <1>1, <1>4 DEF Going, SettledBefore
<1>12. QED
  BY <1>1, <1>3, <1>10, <1>11, WritingGoes

LEMMA WriteBackGoes ==
  ASSUME PatchInv, NEW git \in BOOLEAN, NEW sec, Placed(diff, base, plan, git, sec), Where(sec),
         Reading(sec), MeantForThese, Going(sec), WriteBack, UNCHANGED argument
  PROVE  Going(sec)'
<1>1. /\ mode = "patch" /\ mode' = "header" /\ UNCHANGED <<pos, result, hunks>> /\ hunks = <<>>
      /\ report' # {}
  BY DEF WriteBack, Goto, Report
<1>2. Laid(diff, base, plan, sec)
  BY DEF Placed
<1>3. PICK o, was : /\ Writes(sec, o, Joined(copy, was)) /\ was = before[plan[sec[o]].path]
                    /\ copy \in Seq(Texts) /\ was \in Seq(Texts)
  BY <1>2, WriteBackWrites
<1>4. /\ o \in Olds(diff) /\ InHand(sec, o) /\ HandOn(sec, o) /\ sec[o] \in DOMAIN plan
      /\ plan[sec[o]].path \in Names
  BY <1>3 DEF Writes
<1>5. OneEdit(plan[sec[o]]) /\ Understood(plan[sec[o]])
  BY <1>4, MeantKnows DEF MeantForThese
<1>6. PICK s, b : s = plan[sec[o]] /\ Hand(sec, o, s, b) /\ ReadSoFar(o, s, b)
  BY <1>1, <1>4, <1>5, AsRead
<1>7. copy = Edited(before[s.path], s.edits)
  BY <1>1, <1>5, <1>6 DEF ReadSoFar, Outcome, MeantForThese
<1>8. s.does = "modify"
  <2>1. /\ s.does \in {"create", "modify"} /\ (oldPath = DevNull <=> s.does = "create")
    BY <1>1, <1>6, HandKnows
  <2>2. oldPath # DevNull
    BY <1>1, <1>6 DEF ReadSoFar
  <2>3. QED
    BY <2>1, <2>2
<1>9. Same(Joined(copy, was), copy)
  <2>1. Texts \subseteq Texts \cup {HeaderText}
    OBVIOUS
  <2>2. copy \in PlainContent
    BY <1>3, <2>1, SeqMonotonic DEF PlainContent
  <2>3. QED
    BY <2>2, JoinedIsSame
<1>10. Same(Joined(copy, was), SectionResult(base, plan[sec[o]])[plan[sec[o]].path])
  <2>1. base \in [Names -> {Absent} \cup Seq(Texts)]
    BY DEF PatchInv, PlanFits, PlainFiles
  <2>2. DOMAIN base = Names /\ base = [p \in Names |-> base[p]]
    BY <2>1
  <2>3. SectionResult(base, plan[sec[o]])[plan[sec[o]].path]
          = Edited(base[plan[sec[o]].path], plan[sec[o]].edits)
    BY <1>4, <1>6, <1>8, <2>2, SectionMakes
  <2>4. SectionResult(base, plan[sec[o]])[plan[sec[o]].path] = copy
    BY <1>6, <1>7, <2>3 DEF MeantForThese
  <2>5. QED
    BY <1>9, <2>4
<1>11. InSection(diff, o, pos - 1)
  BY <1>1, <1>4 DEF InHand, Going
<1>12. QED
  BY <1>1, <1>3, <1>10, <1>11, WritingGoes

-----------------------------------------------------------------------------
(*********************** the whole diff is followed ************************)
(* Every step leaves the patch on its way.                                  *)
LEMMA GoingNext ==
  ASSUME PatchInv, NEW git \in BOOLEAN, NEW sec, Placed(diff, base, plan, git, sec), Where(sec),
         Reading(sec), MeantForThese, Going(sec), Advance, Where(sec)'
  PROVE  Going(sec)'
<1>1. UNCHANGED argument
  BY DEF Advance
<1>2. CASE FindHeader
  BY <1>1, <1>2, FindHeaderGoes
<1>3. CASE NoMoreHeaders
  BY <1>1, <1>3, NoMoreHeadersGoes
<1>4. CASE ReadNewPath
  BY <1>1, <1>4, ReadNewPathGoes
<1>5. CASE NoNewPath
  BY <1>5, NoNewPathNever
<1>6. CASE SkipToHunk \/ EndHunk \/ SkipLine
  BY <1>1, <1>6, QuietGoes
<1>7. CASE BeginHunk
  BY <1>1, <1>7, BeginHunkGoes
<1>8. CASE HunkLine
  <2>1. Kind # "old"
    BY <1>8, NoOldInHunk
  <2>2. QED
    BY <1>1, <1>8, <2>1, HunkLineGoes
<1>9. CASE AllCollected
  BY <1>1, <1>9, AllCollectedGoes
<1>10. CASE DeleteFile
  BY <1>1, <1>10, DeleteFileGoes
<1>11. CASE CreateFile
  BY <1>1, <1>11, CreateFileGoes
<1>12. CASE ReadFile
  BY <1>1, <1>12, ReadFileGoes
<1>13. CASE NoFile
  BY <1>13, NoFileNever
<1>14. CASE PatchHunk
  BY <1>1, <1>14, PatchHunkGoes
<1>15. CASE HunkMisfits
  BY <1>15, HunkMisfitsNever
<1>16. CASE WriteBack
  BY <1>1, <1>16, WriteBackGoes
<1>17. QED
  BY <1>2, <1>3, <1>4, <1>5, <1>6, <1>7, <1>8, <1>9, <1>10, <1>11, <1>12, <1>13, <1>14,
     <1>15, <1>16 DEF Advance, Step

(* The files that are still there have the ends of line they had.           *)
EndsKept == crlf = {p \in dos : files[p] # Absent}

(* What is written had none of CRLF: it was not there, or is patched.       *)
LEMMA WrittenWithLF ==
  ASSUME PatchInv, NEW git \in BOOLEAN, NEW sec, Placed(diff, base, plan, git, sec), Where(sec),
         MeantForThese, mode \in {"create", "patch"}
  PROVE  newPath \in Names /\ newPath \notin dos
<1>1. Laid(diff, base, plan, sec)
  BY DEF Placed
<1>2. PICK o \in Olds(diff) : InHand(sec, o)
  BY DEF Where
<1> DEFINE s == plan[sec[o]]
<1>3. /\ sec[o] \in DOMAIN plan /\ SectionFits(base, s) /\ DevNull \notin Names
      /\ s.does \in {"create", "delete", "modify"}
  BY <1>1, HandIs
<1>4. newPath \in Names
  BY DEF PatchInv
<1>5. newPath = s.path /\ newPath = NewOf(s)
  BY <1>1, <1>2, <1>4, HandFile DEF InHand
<1>6. CASE s.does = "modify"
  BY <1>3, <1>4, <1>5, <1>6 DEF MeantForThese
<1>7. CASE s.does = "create"
  <2>1. before[newPath] = Absent
    BY <1>3, <1>5, <1>7 DEF SectionFits, MeantForThese
  <2>2. QED
    BY <1>4, <2>1 DEF PatchInv
<1>8. CASE s.does = "delete"
  BY <1>3, <1>4, <1>5, <1>8 DEF NewOf
<1>9. QED
  BY <1>3, <1>6, <1>7, <1>8

LEMMA EndsNext ==
  ASSUME PatchInv, NEW git \in BOOLEAN, NEW sec, Placed(diff, base, plan, git, sec), Where(sec),
         MeantForThese, EndsKept, Advance
  PROVE  EndsKept'
<1>1. dos' = dos /\ \A p \in dos : p \in Names
  BY DEF Advance, argument, PatchInv
<1>2. files \in [Names -> {Absent} \cup PlainContent]
  BY DEF PatchInv, PlainTypes
<1>3. CASE DeleteFile
  <2>1. /\ files' = [files EXCEPT ![oldPath] = Absent] /\ crlf' = crlf \ {oldPath}
        /\ oldPath \in Names
    BY <1>3 DEF DeleteFile, PatchInv, PlainTypes
  <2>2. files'[oldPath] = Absent /\ \A p \in Names : p # oldPath => files'[p] = files[p]
    BY <1>2, <2>1
  <2>3. QED
    BY <1>1, <2>1, <2>2 DEF EndsKept
<1>4. CASE CreateFile \/ WriteBack
  <2>1. newPath \in Names /\ newPath \notin dos
    BY <1>4, WrittenWithLF DEF CreateFile, WriteBack, Goto
  <2>2. PICK content : files' = [files EXCEPT ![newPath] = content]
    BY <1>4 DEF CreateFile, WriteBack, WriteFile
  <2>3. crlf' = crlf \ {newPath}
    BY <1>4 DEF CreateFile, WriteBack, WriteFile
  <2>4. \A p \in Names : p # newPath => files'[p] = files[p]
    BY <1>2, <2>2
  <2>5. QED
    BY <1>1, <2>1, <2>3, <2>4 DEF EndsKept
<1>5. CASE ~(DeleteFile \/ CreateFile \/ WriteBack)
  <2>1. UNCHANGED <<files, crlf>>
    BY <1>5 DEF Advance, Step, FindHeader, NoMoreHeaders, ReadNewPath, NoNewPath, SkipToHunk,
                BeginHunk, HunkLine, EndHunk, SkipLine, AllCollected, ReadFile, NoFile,
                PatchHunk, HunkMisfits, Fail
  <2>2. QED
    BY <1>1, <2>1 DEF EndsKept
<1>6. QED
  BY <1>3, <1>4, <1>5

(* The whole diff is read as it was written, section after section.         *)
Followed(git, sec) == /\ Placed(diff, base, plan, git, sec) /\ Where(sec) /\ Reading(sec)
                      /\ MeantForThese => Going(sec) /\ EndsKept

FollowInv == Whole => AllStand /\ \E git \in BOOLEAN : \E sec : Followed(git, sec)

LEMMA FollowStarts == Init /\ Ordinary => FollowInv
<1> SUFFICES ASSUME Init, Ordinary, Whole
             PROVE  AllStand /\ \E git \in BOOLEAN : \E sec : Followed(git, sec)
  BY DEF FollowInv
<1>1. PatchInv
  BY PatchStarts
<1>2. PICK git \in BOOLEAN : diff = Unified(base, plan, git)
  BY DEF Whole
<1>3. PICK sec : Placed(diff, base, plan, git, sec)
  BY <1>1, <1>2, UnifiedIsPlaced DEF PatchInv
<1>4. files = before /\ mode = "header" /\ pos = 1 /\ hunks = <<>> /\ result = "none" /\ crlf = dos
  BY DEF Init
<1>5. Where(sec) /\ Reading(sec)
  BY <1>4 DEF Where, Untouched, Reading
<1>6. Settled(sec, pos)
  <2>1. \A r \in Olds(diff) : ~(r < 1)
    BY DEF Olds
  <2>2. QED
    BY <1>4, <2>1 DEF Settled
<1>7. Going(sec)
  BY <1>4, <1>6, NothingOld DEF Going, OthersStay
<1>8. EndsKept
  BY <1>1, <1>4 DEF PatchInv, EndsKept
<1>9. QED
  BY <1>3, <1>4, <1>5, <1>7, <1>8, StandingStarts DEF Followed

(* The whole diff is read as its author wrote it: at every header the       *)
(* sections before it are dealt with, in a section with one hunk the lines  *)
(* held are those of this hunk, and what becomes of a file is what the hunk *)
(* says, at a place where all its lines stand, or nothing.                  *)
LEMMA FollowStep == PatchInv /\ LinesInv /\ FollowInv /\ Advance => FollowInv'
<1> SUFFICES ASSUME PatchInv, LinesInv, FollowInv, Advance, Whole'
             PROVE  AllStand' /\ \E git \in BOOLEAN : \E sec : Followed(git, sec)'
  BY DEF FollowInv
<1>1. diff' = diff /\ base' = base /\ plan' = plan /\ before' = before /\ dos' = dos
  BY DEF Advance, argument
<1>2. Whole
  BY <1>1 DEF Whole
<1>3. PICK git, sec : git \in BOOLEAN /\ Followed(git, sec)
  BY <1>2 DEF FollowInv
<1>4. /\ Placed(diff, base, plan, git, sec) /\ Where(sec) /\ Reading(sec)
      /\ Laid(diff, base, plan, sec) /\ HeadersInPairs /\ Account
  BY <1>3 DEF Followed, Placed, LinesInv
<1>5. Where(sec)'
  <2>1. Carries(sec)
    BY <1>4 DEF Carries
  <2>2. Carries(sec)'
    BY <1>4, <2>1, CarriesNext
  <2>3. QED
    BY <2>2 DEF Carries
<1>6. Reading(sec)'
  BY <1>3, <1>4, <1>5, ReadingNext
<1>7. AllStand'
  BY <1>2, <1>3, <1>4, StandingNext DEF FollowInv
<1>8. MeantForThese' => Going(sec)' /\ EndsKept'
  <2>1. MeantForThese' => MeantForThese
    BY <1>1 DEF MeantForThese, Understood
  <2>2. QED
    BY <1>3, <1>4, <1>5, <2>1, GoingNext, EndsNext DEF Followed
<1>9. Placed(diff, base, plan, git, sec)'
  BY <1>1, <1>4
<1>10. QED
  BY <1>3, <1>5, <1>6, <1>7, <1>8, <1>9 DEF Followed

-----------------------------------------------------------------------------
(***************************** what holds **********************************)
(* Until the file system fails, which ends the call.                        *)
FileSystemFailed == result = "ioError" /\ mode = "done"
PatchHolds == Ordinary => FileSystemFailed \/ (PatchInv /\ LinesInv /\ FollowInv)

LEMMA SameThroughout == UNCHANGED argument => (Ordinary' <=> Ordinary)
BY DEF Ordinary, argument

LEMMA HoldsUnchanged == PatchInv /\ LinesInv /\ FollowInv /\ UNCHANGED vars
                          => (PatchInv /\ LinesInv /\ FollowInv)'
<1>1. PatchInv /\ UNCHANGED vars => PatchInv'
  BY DEF PatchInv, PlainTypes, ChangesReported, vars
<1>2. LinesInv /\ UNCHANGED vars => LinesInv'
  BY DEF LinesInv, HeadersInPairs, Where, InHand, Untouched, Collected, Patching,
         Account, Accounted, FileLeftAlone, vars
<1>3. FollowInv /\ UNCHANGED vars => FollowInv'
  <2> SUFFICES ASSUME FollowInv, UNCHANGED vars, Whole'
               PROVE  AllStand' /\ \E git \in BOOLEAN : \E sec : Followed(git, sec)'
    BY DEF FollowInv
  <2>1. Whole /\ UNCHANGED <<files, argument>>
    BY DEF Whole, vars, argument
  <2>2. PICK git, sec : git \in BOOLEAN /\ Followed(git, sec)
    BY <2>1 DEF FollowInv
  <2>3. AllStand'
    BY <2>1, StandingStays DEF FollowInv
  <2>4. Where(sec)' /\ Placed(diff, base, plan, git, sec)'
    BY <2>2 DEF Followed, vars, Where, InHand, Untouched, Collected, Patching
  <2>5. Reading(sec)'
    BY <2>2 DEF Followed, vars, Reading, HandOn, ReadSoFar, SaysBody, OnlyHunk, Outcome,
                Understood, Kind, AtEnd
  <2>6. (MeantForThese => Going(sec) /\ EndsKept)'
    BY <2>2 DEF Followed, vars, MeantForThese, Understood, Going, OthersStay, AsMeant, Settled,
                SettledBefore, HandOn, EndsKept
  <2>7. QED
    BY <2>2, <2>3, <2>4, <2>5, <2>6 DEF Followed
<1>4. QED
  BY <1>1, <1>2, <1>3

LEMMA PatchKeeps == PatchHolds /\ [Next]_vars => PatchHolds'
<1> SUFFICES ASSUME PatchHolds, [Next]_vars, Ordinary'
             PROVE  FileSystemFailed' \/ (PatchInv /\ LinesInv /\ FollowInv)'
  BY DEF PatchHolds
<1>1. UNCHANGED argument
  BY DEF Next, vars, argument
<1>2. FileSystemFailed \/ (PatchInv /\ LinesInv /\ FollowInv)
  BY <1>1, SameThroughout DEF PatchHolds
<1>3. CASE UNCHANGED vars
  <2>1. FileSystemFailed => FileSystemFailed'
    BY <1>3 DEF FileSystemFailed, vars
  <2>2. QED
    BY <1>2, <1>3, <2>1, HoldsUnchanged
<1>4. CASE IoFails \/ WriteFails
  BY <1>4 DEF IoFails, WriteFails, Fails, Return, FileSystemFailed
<1>5. CASE Step
  <2>1. mode # "done"
    BY <1>5 DEF Step, FindHeader, NoMoreHeaders, ReadNewPath, NoNewPath, SkipToHunk, BeginHunk,
                HunkLine, EndHunk, SkipLine, AllCollected, DeleteFile, CreateFile, ReadFile,
                NoFile, PatchHunk, HunkMisfits, WriteBack, Goto
  <2>2. PatchInv /\ LinesInv /\ FollowInv /\ Advance
    BY <1>1, <1>2, <1>5, <2>1 DEF FileSystemFailed, Advance
  <2>3. QED
    BY <2>2, PatchStep, LinesStep, FollowStep
<1>6. QED
  BY <1>3, <1>4, <1>5 DEF Next

(* What the theorems below follow from: until the file system fails, of     *)
(* what apply_patch reads, holds and has written nothing is more than the   *)
(* diff says of the file in hand, and a whole diff is read as it was        *)
(* written.                                                                 *)
THEOREM PatchInvariant == Spec => []PatchHolds
<1>1. Init => PatchHolds
  BY PatchStarts, LinesStart, FollowStarts DEF PatchHolds
<1>2. QED
  BY <1>1, PatchKeeps, PTL DEF Spec

(* A line that begins like a header is in no ordinary file.                 *)
LEMMA NoSuchLine ==
  ASSUME NEW content, content \in {Absent} \cup PlainContent, NEW t \in AllTexts \ Texts
  PROVE  Count(content, t) = 0
<1>1. CASE content = Absent
  BY <1>1 DEF Count
<1>2. CASE content \in PlainContent
  <2>1. \A i \in DOMAIN content : content[i] \in Texts \cup {HeaderText}
    BY <1>2, LenProperties, ElementOfSeq DEF PlainContent
  <2>2. {i \in DOMAIN content : content[i] = t} = {}
    BY <2>1, DiffAssumption
  <2>3. Cardinality({}) = 0
    BY FS_EmptySet
  <2>4. QED
    BY <2>2, <2>3 DEF Count
<1>3. QED
  BY <1>1, <1>2

LEMMA AllAccounted ==
  ASSUME PatchInv, LinesInv PROVE LinesAccountedFor
<1> SUFFICES ASSUME NEW k \in DOMAIN plan, plan[k].does = "modify", NEW t \in AllTexts \ {Blank}
             PROVE  Count(files[plan[k].path], t) - Count(before[plan[k].path], t)
                      \in -Count(CutLines(base, plan[k]), t)..Count(AddedLines(plan[k]), t)
  BY DEF LinesAccountedFor
<1>1. CASE t \in Texts
  <2>1. Accounted(files[plan[k].path], k)
    BY DEF LinesInv, Account
  <2>2. QED
    BY <1>1, <2>1 DEF Accounted
<1>2. CASE t \notin Texts
  <2>1. SectionFits(base, plan[k]) /\ plan[k].path \in Names
    BY SectionsFit DEF PatchInv, SectionFits, PlainSection
  <2>2. \A s \in Seq(Texts) : s \in PlainContent
    BY SeqMonotonic DEF PlainContent
  <2>3. /\ CutLines(base, plan[k]) \in Seq(Texts) /\ AddedLines(plan[k]) \in Seq(Texts)
    BY <2>1, ChangesType
  <2>4. files[plan[k].path] \in {Absent} \cup PlainContent
    BY <2>1 DEF PatchInv, PlainTypes
  <2>5. before[plan[k].path] \in {Absent} \cup PlainContent
    BY <2>1, <2>2 DEF PatchInv, PlainFiles
  <2>6. /\ Count(files[plan[k].path], t) = 0 /\ Count(before[plan[k].path], t) = 0
        /\ Count(CutLines(base, plan[k]), t) = 0 /\ Count(AddedLines(plan[k]), t) = 0
    BY <1>2, <2>2, <2>3, <2>4, <2>5, NoSuchLine
  <2>7. QED
    BY <2>6
<1>3. QED
  BY <1>1, <1>2

(* Of files without lines that begin with "-- " or "++ ", and a patch that  *)
(* adds none: whatever version of them the patch meets, whether or not the  *)
(* diff is cut short, wherever its hunks are put and however the call ends, *)
(* but for a failure of the file system, no line is lost that the diff does *)
(* not remove, and none turns up that it does not add.                      *)
THEOREM EveryLineIsAccountedFor == Spec => [](Ordinary => LinesAccountedFor)
<1>1. PatchHolds => (Ordinary => LinesAccountedFor)
  BY AllAccounted DEF PatchHolds, FileSystemFailed, LinesAccountedFor
<1>2. QED
  BY <1>1, PatchInvariant, PTL

(* Of such files and patches: an answer that is ok names every file that    *)
(* has changed, and when a hunk does not fit its file is as it was, also    *)
(* when others of its hunks did.                                            *)
THEOREM AnswersAreComplete == Spec => [](Ordinary => NoUnsaidChange)
<1>1. PatchHolds => (Ordinary => NoUnsaidChange)
  <2> SUFFICES ASSUME PatchHolds, Ordinary PROVE NoUnsaidChange
    OBVIOUS
  <2>1. CASE FileSystemFailed
    BY <2>1 DEF FileSystemFailed, NoUnsaidChange
  <2>2. CASE PatchInv /\ LinesInv
    <3>1. ChangesReported /\ FileLeftAlone
      BY <2>2 DEF PatchInv, LinesInv
    <3>2. QED
      BY <3>1 DEF ChangesReported, FileLeftAlone, NoUnsaidChange
  <2>3. QED
    BY <2>1, <2>2 DEF PatchHolds
<1>2. QED
  BY <1>1, PatchInvariant, PTL

(* Whatever files such a whole patch meets: a file with one hunk, one that  *)
(* begins with context, is changed only where the file says all the hunk    *)
(* says, context and removed lines, and then as the hunk says.              *)
THEOREM PatchesGoWhereTheyStand == Spec => [](Ordinary => ChangedWhereItStands)
<1>1. FollowInv => ChangedWhereItStands
  BY DEF FollowInv, AllStand, Standing, ChangedWhereItStands
<1>2. PatchHolds => (Ordinary => ChangedWhereItStands)
  BY <1>1 DEF PatchHolds, FileSystemFailed, ChangedWhereItStands
<1>3. QED
  BY <1>2, PatchInvariant, PTL

(* Such a whole patch whose hunks the code understands, one to a file, that *)
(* meets the files it was made for, those it modifies with LF: the answer   *)
(* is ok unless the file system fails, every file is what the patch makes   *)
(* of it, but for a blank line at the end, and has the ends of line it had. *)
THEOREM UnderstoodPatchesApply == Spec => [](Ordinary => UnderstoodDiffApplies)
<1>1. PatchInv /\ FollowInv => UnderstoodDiffApplies
  <2> SUFFICES ASSUME PatchInv, FollowInv, result \in {"ok", "error"}, base = before, Whole,
                      plan # <<>>,
                      \A i \in DOMAIN plan : /\ Understood(plan[i])
                                             /\ plan[i].does = "modify" => plan[i].path \notin dos,
                      Len(plan) > 1 => diff[1].kind = "git"
               PROVE  AsIntended
    BY DEF UnderstoodDiffApplies
  <2>1. MeantForThese
    BY DEF MeantForThese
  <2>2. PICK git, sec : git \in BOOLEAN /\ Followed(git, sec)
    BY DEF FollowInv
  <2>3. Going(sec) /\ EndsKept
    BY <2>1, <2>2 DEF Followed
  <2>4. QED
    BY <2>3 DEF Going, AsMeant, EndsKept, AsIntended
<1>2. PatchHolds => (Ordinary => UnderstoodDiffApplies)
  BY <1>1 DEF PatchHolds, FileSystemFailed, UnderstoodDiffApplies
<1>3. QED
  BY <1>2, PatchInvariant, PTL
=============================================================================
