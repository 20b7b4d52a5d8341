-------------------------- MODULE PoptConfigProofs --------------------------
(* Proofs about the reading of configuration files (module PoptConfig),    *)
(* for any name of a program and any file.                                 *)
EXTENDS PoptConfig, FiniteSetTheorems, SequenceTheorems, TLAPS

-----------------------------------------------------------------------------
(* Extreme numbers *)

LEMMA LeastNat ==
    ASSUME NEW S \in SUBSET Nat, S # {}
    PROVE  \E m \in S : \A n \in S : m <= n
<1> DEFINE T == {0..n : n \in S}
           U == FiniteSubsetsOf(Nat)
<1>1. IsWellFoundedOn(StrictSubsetOrdering(Nat), U)
  BY FS_StrictSubsetOrderingWellFounded
<1>2. T \subseteq U /\ T # {}
  <2>1. \A n \in S : 0..n \in U
    <3> TAKE n \in S
    <3>1. IsFiniteSet(0..n)
      BY FS_Interval
    <3> QED BY <3>1 DEF FiniteSubsetsOf
  <2> QED BY <2>1
<1>3. PICK t \in T : \A u \in T : <<u, t>> \notin StrictSubsetOrdering(Nat)
  <2> HIDE DEF T, U
  <2> QED BY <1>1, <1>2, WFMin
<1>4. PICK m \in S : t = 0..m
  OBVIOUS
<1>5. ASSUME NEW n \in S, n < m PROVE FALSE
  <2>1. 0..n \in T /\ 0..n \in SUBSET Nat /\ 0..m \in SUBSET Nat
    OBVIOUS
  <2>2. 0..n \subseteq 0..m /\ m \notin 0..n /\ m \in 0..m
    BY <1>5
  <2>3. <<0..n, 0..m>> \in StrictSubsetOrdering(Nat)
    BY <2>1, <2>2 DEF StrictSubsetOrdering
  <2> QED BY <1>3, <1>4, <2>1, <2>3
<1> QED BY <1>5

LEMMA GreatestNat ==
    ASSUME NEW n \in Nat, NEW S \in SUBSET (0..n), S # {}
    PROVE  Max(S) \in S /\ \A i \in S : i <= Max(S)
<1> DEFINE T == {n - i : i \in S}
<1>1. T \in SUBSET Nat /\ T # {}
  <2>1. \A i \in S : i \in 0..n /\ n - i \in Nat
    OBVIOUS
  <2> QED BY <2>1
<1>2. PICK m \in T : \A k \in T : m <= k
  <2> HIDE DEF T
  <2> QED BY <1>1, LeastNat
<1>3. PICK g \in S : m = n - g
  OBVIOUS
<1>4. \A i \in S : g >= i
  <2> TAKE i \in S
  <2>1. n - g <= n - i
    BY <1>2, <1>3
  <2>2. i \in 0..n /\ g \in 0..n
    OBVIOUS
  <2> HIDE DEF T
  <2> QED BY <2>1, <2>2
<1> QED BY <1>4 DEF Max

LEMMA Extrema ==
    ASSUME NEW n \in Nat, NEW S \in SUBSET (0..n), S # {}
    PROVE  /\ Max(S) \in S /\ \A i \in S : i <= Max(S)
           /\ Min(S) \in S /\ \A i \in S : Min(S) <= i
<1>1. \E m \in S : \A i \in S : m <= i
  BY LeastNat
<1> QED BY <1>1, GreatestNat DEF Min

-----------------------------------------------------------------------------
(* Sequences of sequences, one behind the other *)

\* What FlattenSeq computes of the first n.
Fills(f, q, n) == f = [i \in 1..n |-> IF i = 1 THEN q[i] ELSE f[i - 1] \o q[i]]

LEMMA FillsUpTo == \A n \in Nat : \A q : \E f : Fills(f, q, n)
<1> TAKE n \in Nat
<1> TAKE q
<1>1. \A m \in 0..n : \E f : Fills(f, q, m)
  <2> DEFINE Bad == {m \in 0..n : ~ \E f : Fills(f, q, m)}
  <2>1. ASSUME Bad # {} PROVE FALSE
    <3>1. PICK m \in Bad : \A k \in Bad : m <= k
      <4>1. Bad \in SUBSET Nat
        OBVIOUS
      <4> HIDE DEF Bad
      <4> QED BY <2>1, <4>1, LeastNat
    <3>2. m # 0
      <4>1. Fills(<< >>, q, 0)
        BY DEF Fills
      <4> QED BY <4>1
    <3>3. PICK f : Fills(f, q, m - 1)
      <4>1. m - 1 \in 0..n /\ m - 1 \notin Bad
        BY <3>1, <3>2
      <4> QED BY <4>1
    <3> DEFINE g == [i \in 1..m |-> IF i < m THEN f[i] ELSE IF i = 1 THEN q[i] ELSE f[i - 1] \o q[i]]
    <3>4. \A i \in 1..m : g[i] = IF i = 1 THEN q[i] ELSE g[i - 1] \o q[i]
      <4>1. m \in Nat \ {0}
        BY <3>2
      <4>2. \A i \in 1..(m - 1) : f[i] = IF i = 1 THEN q[i] ELSE f[i - 1] \o q[i]
        BY <4>1, <3>3 DEF Fills
      <4> HIDE DEF Bad
      <4>3. TAKE i \in 1..m
      <4>4. CASE i < m
        <5>1. i \in 1..(m - 1) /\ (i # 1 => i - 1 \in 1..m /\ i - 1 < m)
          BY <4>1, <4>4
        <5>2. g[i] = f[i] /\ (i # 1 => g[i - 1] = f[i - 1])
          BY <4>4, <5>1
        <5> QED BY <4>2, <5>1, <5>2
      <4>5. CASE i = m
        <5>1. i # 1 => i - 1 \in 1..m /\ i - 1 < m
          BY <4>1, <4>5
        <5>2. i # 1 => g[i - 1] = f[i - 1]
          BY <5>1
        <5> QED BY <4>1, <4>5, <5>2
      <4> QED BY <4>1, <4>4, <4>5
    <3>5. g = [i \in 1..m |-> IF i = 1 THEN q[i] ELSE g[i - 1] \o q[i]]
      <4>1. g = [i \in 1..m |-> g[i]]
        OBVIOUS
      <4> HIDE DEF g
      <4> QED BY <3>4, <4>1
    <3> HIDE DEF g
    <3>6. Fills(g, q, m)
      BY <3>5 DEF Fills
    <3> QED BY <3>1, <3>6
  <2> QED BY <2>1
<1> QED BY <1>1

LEMMA FillsAgree ==
    ASSUME NEW S, NEW q \in Seq(Seq(S)), NEW r, \A i \in 1..Len(q) : r[i] = q[i],
           NEW f, NEW g, NEW m \in Len(q)..(Len(q) + 1), Fills(f, q, Len(q)), Fills(g, r, m)
    PROVE  \A i \in 1..Len(q) : f[i] \in Seq(S) /\ f[i] = g[i]
<1> DEFINE n == Len(q)
<1>0. /\ n \in Nat /\ m \in n..(n + 1) /\ Fills(f, q, n)
      /\ \A i \in 1..n : q[i] \in Seq(S) /\ r[i] = q[i]
  BY ElementOfSeq
<1> HIDE DEF n
<1> DEFINE Bad == {k \in 1..n : ~(f[k] \in Seq(S) /\ f[k] = g[k])}
<1>1. ASSUME Bad # {} PROVE FALSE
  <2>1. PICK k \in Bad : \A j \in Bad : k <= j
    <3>1. Bad \in SUBSET Nat
      BY <1>0
    <3> HIDE DEF Bad
    <3> QED BY <1>1, <3>1, LeastNat
  <2>2. f[k] = (IF k = 1 THEN q[k] ELSE f[k - 1] \o q[k]) /\ g[k] = (IF k = 1 THEN r[k] ELSE g[k - 1] \o r[k])
    <3>1. k \in 1..n /\ k \in 1..m
      BY <1>0
    <3> HIDE DEF Bad
    <3> QED BY <1>0, <3>1 DEF Fills
  <2>3. CASE k = 1
    BY <1>0, <2>2, <2>3
  <2>4. CASE k # 1
    <3>1. k - 1 \in 1..n /\ k - 1 \notin Bad
      BY <1>0, <2>1, <2>4
    <3>2. f[k - 1] \in Seq(S) /\ f[k - 1] = g[k - 1] /\ q[k] \in Seq(S)
      BY <1>0, <3>1
    <3>3. f[k - 1] \o q[k] \in Seq(S)
      BY <3>2, ConcatProperties
    <3> QED BY <1>0, <2>1, <2>2, <2>4, <3>2, <3>3
  <2> QED BY <2>3, <2>4
<1> QED BY <1>1 DEF n

LEMMA FillsOneMore ==
    ASSUME NEW S, NEW q \in Seq(Seq(S)), NEW r, Len(r) = Len(q) + 1, \A i \in 1..Len(q) : r[i] = q[i],
           NEW f, NEW g, Fills(f, q, Len(q)), Fills(g, r, Len(r))
    PROVE  g[Len(r)] = IF q = << >> THEN r[Len(r)] ELSE f[Len(q)] \o r[Len(r)]
<1> DEFINE n == Len(r)
<1>1. Len(q) \in Nat /\ n - 1 = Len(q) /\ n \in 1..n /\ (q = << >> <=> n = 1) /\ n \in Len(q)..(Len(q) + 1)
  BY EmptySeq
<1>2. \A i \in 1..Len(q) : f[i] \in Seq(S) /\ f[i] = g[i]
  <2>1. n \in Len(q)..(Len(q) + 1) /\ Fills(g, r, n) /\ Fills(f, q, Len(q))
    BY <1>1
  <2> HIDE DEF n
  <2> QED BY <2>1, FillsAgree, SMTT(60)
<1>3. g[n] = IF n = 1 THEN r[n] ELSE g[n - 1] \o r[n]
  <2>1. Fills(g, r, n)
    OBVIOUS
  <2> HIDE DEF n
  <2> QED BY <1>1, <2>1 DEF Fills
<1>4. n # 1 => f[n - 1] = g[n - 1]
  <2> HIDE DEF n
  <2> QED BY <1>1, <1>2
<1> QED BY <1>1, <1>3, <1>4

LEMMA Flattened ==
    ASSUME NEW S, NEW q \in Seq(Seq(S))
    PROVE  /\ FlattenSeq(q) \in Seq(S)
           /\ FlattenSeq(<< >>) = << >>
           /\ \A t \in Seq(S) : FlattenSeq(Append(q, t)) = FlattenSeq(q) \o t
<1> DEFINE flat(s) == CHOOSE f : Fills(f, s, Len(s))
<1>1. ASSUME NEW s \in Seq(Seq(S))
      PROVE  /\ Len(s) \in Nat /\ \A i \in 1..Len(s) : s[i] \in Seq(S)
             /\ Fills(flat(s), s, Len(s))
             /\ FlattenSeq(s) = IF Len(s) = 0 THEN s ELSE flat(s)[Len(s)]
  <2>1. Len(s) \in Nat /\ \A i \in 1..Len(s) : s[i] \in Seq(S)
    BY ElementOfSeq
  <2>2. \E f : Fills(f, s, Len(s))
    BY <2>1, FillsUpTo
  <2>3. FlattenSeq(s) = IF Len(s) = 0 THEN s ELSE flat(s)[Len(s)]
    BY DEF FlattenSeq, Fills
  <2> QED BY <2>1, <2>2, <2>3
<1>2. FlattenSeq(<< >>) = << >>
  BY DEF FlattenSeq
<1> HIDE DEF flat
<1>3. FlattenSeq(q) \in Seq(S)
  <2>1. CASE Len(q) = 0
    BY <1>1, <2>1, EmptySeq
  <2>2. CASE Len(q) # 0
    <3>1. Len(q) \in 1..Len(q) /\ Len(q) \in Len(q)..(Len(q) + 1)
      BY <1>1, <2>2
    <3>2. flat(q)[Len(q)] \in Seq(S)
      BY <1>1, <3>1, FillsAgree
    <3> QED BY <1>1, <2>2, <3>2
  <2> QED BY <2>1, <2>2
<1>4. ASSUME NEW t \in Seq(S) PROVE FlattenSeq(Append(q, t)) = FlattenSeq(q) \o t
  <2> DEFINE r == Append(q, t)
  <2>1. /\ r \in Seq(Seq(S)) /\ Len(r) = Len(q) + 1 /\ Len(q) \in Nat
        /\ r[Len(r)] = t /\ \A i \in 1..Len(q) : r[i] = q[i]
    OBVIOUS
  <2> HIDE DEF r
  <2>2. /\ Fills(flat(q), q, Len(q)) /\ FlattenSeq(q) = IF Len(q) = 0 THEN q ELSE flat(q)[Len(q)]
        /\ Fills(flat(r), r, Len(r)) /\ FlattenSeq(r) = flat(r)[Len(r)]
    BY <1>1, <2>1
  <2>3. flat(r)[Len(r)] = IF q = << >> THEN r[Len(r)] ELSE flat(q)[Len(q)] \o r[Len(r)]
    BY <2>1, <2>2, FillsOneMore
  <2>4. CASE q = << >>
    BY <2>1, <2>2, <2>3, <2>4, EmptySeq, ConcatEmptySeq DEF r
  <2>5. CASE q # << >>
    BY <2>1, <2>2, <2>3, <2>5, EmptySeq DEF r
  <2> QED BY <2>4, <2>5
<1> QED BY <1>2, <1>3, <1>4

-----------------------------------------------------------------------------
(* The places of a set in their order *)

Below(S, i) == {j \in S : j < i}
Nth(S, k)   == CHOOSE i \in S : Cardinality(Below(S, i)) = k - 1

\* Counting the numbers of a set that are below one of them.
LEMMA InBelow ==
    ASSUME NEW n \in Nat, NEW S \in SUBSET (1..n), NEW i \in Int
    PROVE  Below(S, i) \in SUBSET (1..n) /\ \A j \in 1..n : j \in Below(S, i) <=> j \in S /\ j < i
BY DEF Below

LEMMA Counted ==
    ASSUME NEW n \in Nat, NEW S \in SUBSET (1..n)
    PROVE  /\ IsFiniteSet(S) /\ Cardinality(S) \in Nat
           /\ \A i \in S : /\ IsFiniteSet(Below(S, i))
                           /\ Cardinality(Below(S, i)) \in Nat
                           /\ Cardinality(Below(S, i)) < Cardinality(S)
<1>1. \A T \in SUBSET (1..n) : IsFiniteSet(T) /\ Cardinality(T) \in Nat
  <2> TAKE T \in SUBSET (1..n)
  <2>1. IsFiniteSet(1..n)
    BY FS_Interval
  <2> QED BY <2>1, FS_Subset, FS_CardinalityType
<1>2. ASSUME NEW i \in S
      PROVE  Cardinality(Below(S, i)) < Cardinality(S)
  <2>1. Below(S, i) \in SUBSET S /\ Below(S, i) # S
    BY DEF Below
  <2>2. Below(S, i) \in SUBSET (1..n)
    BY <2>1
  <2>3. Cardinality(Below(S, i)) <= Cardinality(S) /\ (Cardinality(S) = Cardinality(Below(S, i)) => S = Below(S, i))
    BY <1>1, <2>1, FS_Subset
  <2> HIDE DEF Below
  <2> QED BY <1>1, <2>1, <2>2, <2>3
<1>3. \A i : Below(S, i) \in SUBSET (1..n)
  BY DEF Below
<1> QED BY <1>1, <1>2, <1>3

LEMMA FurtherCounted ==
    ASSUME NEW n \in Nat, NEW S \in SUBSET (1..n), NEW i \in S, NEW j \in S, i < j
    PROVE  Cardinality(Below(S, i)) < Cardinality(Below(S, j))
<1> DEFINE A == Below(S, i)
           B == Below(S, j)
<1>0. \A k \in S : k \in Nat
  OBVIOUS
<1>1. A \cup {i} \in SUBSET B /\ i \notin A
  <2>1. /\ i \in 1..n /\ j \in 1..n
        /\ A \in SUBSET (1..n) /\ \A k \in 1..n : k \in A <=> k \in S /\ k < i
        /\ B \in SUBSET (1..n) /\ \A k \in 1..n : k \in B <=> k \in S /\ k < j
    BY <1>0, InBelow
  <2> HIDE DEF A, B
  <2>2. \A k \in 1..n : k \in A => k \in B
    BY <2>1
  <2>3. i \in B /\ i \notin A
    BY <2>1
  <2> QED BY <2>1, <2>2, <2>3
<1>2. IsFiniteSet(A) /\ IsFiniteSet(B) /\ Cardinality(A) \in Nat /\ Cardinality(B) \in Nat
  BY Counted
<1> HIDE DEF A, B
<1>3. Cardinality(A \cup {i}) = Cardinality(A) + 1
  BY <1>1, <1>2, FS_AddElement
<1>4. Cardinality(A \cup {i}) <= Cardinality(B)
  BY <1>1, <1>2, FS_Subset
<1>5. Cardinality(A) < Cardinality(B)
  BY <1>2, <1>3, <1>4
<1> QED BY <1>5 DEF A, B

\* There is one number of a set below which there are k - 1 of it.
LEMMA NthUnique ==
    ASSUME NEW n \in Nat, NEW S \in SUBSET (1..n), NEW k,
           NEW i \in S, Cardinality(Below(S, i)) = k - 1
    PROVE  Nth(S, k) = i
<1>1. \A j \in S : Cardinality(Below(S, j)) = k - 1 => j = i
  <2> TAKE j \in S
  <2> HAVE Cardinality(Below(S, j)) = k - 1
  <2>1. \/ i < j \/ j < i \/ i = j
    OBVIOUS
  <2>2. Cardinality(Below(S, i)) \in Nat /\ Cardinality(Below(S, j)) \in Nat
    BY Counted
  <2>3. i < j => Cardinality(Below(S, i)) < Cardinality(Below(S, j))
    BY FurtherCounted
  <2>4. j < i => Cardinality(Below(S, j)) < Cardinality(Below(S, i))
    BY FurtherCounted
  <2> QED BY <2>1, <2>2, <2>3, <2>4
<1> QED BY <1>1 DEF Nth

LEMMA NthPlace ==
    ASSUME NEW n \in Nat, NEW S \in SUBSET (1..n), NEW k \in 1..Cardinality(S)
    PROVE  Nth(S, k) \in S /\ Cardinality(Below(S, Nth(S, k))) = k - 1
<1>0. IsFiniteSet(S) /\ Cardinality(S) \in Nat
  BY Counted
<1>00. k \in Nat \ {0} /\ k <= Cardinality(S) /\ \A i \in S : i \in Nat /\ i <= n
  BY <1>0
<1> DEFINE T == {i \in S : Cardinality(Below(S, i)) >= k - 1}
<1>1. T # {}
  <2>1. S # {}
    BY <1>0, <1>00, FS_EmptySet
  <2>2. PICK m \in S : \A j \in S : j <= m
    <3>1. S \in SUBSET (0..n)
      OBVIOUS
    <3> QED BY <2>1, <3>1, Extrema
  <2> DEFINE U == Below(S, m)
  <2>3. S = U \cup {m} /\ m \notin U
    <3>1. m \in 1..n /\ U \in SUBSET (1..n) /\ \A j \in 1..n : j \in U <=> j \in S /\ j < m
      BY <1>00, InBelow
    <3> HIDE DEF U
    <3>2. \A j \in 1..n : j \in S => j \in U \/ j = m
      BY <2>2, <3>1
    <3>3. \A j \in U : j \in S
      BY <3>1
    <3>4. m \notin U
      BY <3>1
    <3> QED BY <3>2, <3>3, <3>4
  <2>4. IsFiniteSet(U) /\ Cardinality(U) \in Nat
    BY Counted
  <2> HIDE DEF U
  <2>5. Cardinality(S) = Cardinality(U) + 1
    BY <2>3, <2>4, FS_AddElement
  <2>6. Cardinality(U) >= k - 1
    BY <1>0, <1>00, <2>4, <2>5
  <2> QED BY <2>6 DEF U
<1>2. PICK m \in T : \A j \in T : m <= j
  <2>1. T \in SUBSET Nat
    BY <1>00
  <2> HIDE DEF T
  <2> QED BY <1>1, <2>1, LeastNat
<1>3. m \in S /\ Cardinality(Below(S, m)) >= k - 1
  BY <1>2
<1>4. Cardinality(Below(S, m)) = k - 1
  <2> SUFFICES ASSUME Cardinality(Below(S, m)) # k - 1 PROVE FALSE
    OBVIOUS
  <2> DEFINE U == Below(S, m)
  <2>1. IsFiniteSet(U) /\ Cardinality(U) \in Nat
    BY <1>3, Counted
  <2>2. Cardinality(U) >= k
    BY <1>0, <1>00, <1>3, <2>1
  <2>3. U # {}
    <3> HIDE DEF U
    <3> QED BY <1>0, <1>00, <2>1, <2>2, FS_EmptySet
  <2>4. PICK g \in U : \A j \in U : j <= g
    <3>1. m \in Int
      BY <1>00, <1>3
    <3>2. U \in SUBSET (1..n)
      BY <3>1, InBelow
    <3> HIDE DEF U
    <3>3. U \in SUBSET (0..n)
      BY <3>2
    <3> QED BY <2>3, <3>3, Extrema
  <2> DEFINE V == Below(S, g)
  <2>5. g \in S /\ g < m /\ U = V \cup {g} /\ g \notin V
    <3>1. m \in 1..n /\ U \in SUBSET (1..n) /\ \A j \in 1..n : j \in U <=> j \in S /\ j < m
      BY <1>00, <1>3, InBelow
    <3>2. g \in 1..n /\ g \in S /\ g < m
      <4> HIDE DEF U, V
      <4> QED BY <2>4, <3>1
    <3>3. V \in SUBSET (1..n) /\ \A j \in 1..n : j \in V <=> j \in S /\ j < g
      BY <3>2, InBelow
    <3> HIDE DEF U, V
    <3>4. \A j \in 1..n : j \in V => j \in U
      BY <3>1, <3>2, <3>3
    <3>5. \A j \in 1..n : j \in U => j \in V \/ j = g
      BY <2>4, <3>1, <3>2, <3>3
    <3>6. g \notin V
      BY <3>2, <3>3
    <3> QED BY <2>4, <3>1, <3>2, <3>3, <3>4, <3>5, <3>6
  <2>6. IsFiniteSet(V) /\ Cardinality(V) \in Nat
    BY <2>5, Counted
  <2>7. Cardinality(U) = Cardinality(V) + 1
    <3>1. U = V \cup {g} /\ g \notin V
      BY <2>5
    <3> HIDE DEF U, V
    <3> QED BY <2>6, <3>1, FS_AddElement
  <2>8. Cardinality(V) >= k - 1
    <3> HIDE DEF U, V
    <3> QED BY <1>0, <1>00, <2>1, <2>2, <2>6, <2>7
  <2>9. g \in T
    BY <2>5, <2>8
  <2>10. g \in Nat /\ m \in Nat
    BY <1>3, <2>5
  <2> QED BY <1>2, <2>5, <2>9, <2>10
<1> QED BY <1>3, <1>4 DEF Nth

-----------------------------------------------------------------------------
(* The words of an expansion *)

\* The provers do not know that a literal is in STRING.
Letters == (STRING \cup {"\\", " "} \cup Quote) \ {NUL}
Word    == Seq(Letters) \ {<< >>}

\* What poptParseArgvString has of an expansion.
At(w, argv, quote) == [quote |-> quote, escaped |-> FALSE, word |-> w, argv |-> argv]
Begun              == At(<< >>, << >>, NUL)

Reads(f, s, n) == f = [i \in 0..n |-> IF i = 0 THEN Begun ELSE Char(f[i - 1], s[i])]
ReadOf(s)      == (CHOOSE f : Reads(f, s, Len(s)))[Len(s)]

LEMMA ReadsUpTo == \A n \in Nat : \A s : \E f : Reads(f, s, n)
<1> TAKE n \in Nat
<1> TAKE s
<1> DEFINE Bad == {m \in 0..n : ~ \E f : Reads(f, s, m)}
<1>1. ASSUME Bad # {} PROVE FALSE
  <2>1. PICK m \in Bad : \A k \in Bad : m <= k
    <3>1. Bad \in SUBSET Nat
      OBVIOUS
    <3> HIDE DEF Bad
    <3> QED BY <1>1, <3>1, LeastNat
  <2>2. m # 0
    <3> DEFINE g == [i \in 0..0 |-> Begun]
    <3>1. g = [i \in 0..0 |-> IF i = 0 THEN Begun ELSE Char(g[i - 1], s[i])]
      OBVIOUS
    <3> HIDE DEF g
    <3>2. Reads(g, s, 0)
      BY <3>1 DEF Reads
    <3> QED BY <3>2
  <2>3. m \in Nat \ {0} /\ m - 1 \in 0..n /\ m - 1 \notin Bad
    BY <2>1, <2>2
  <2>4. PICK f : Reads(f, s, m - 1)
    BY <2>3
  <2> DEFINE g == [i \in 0..m |-> IF i < m THEN f[i] ELSE Char(f[i - 1], s[i])]
  <2>5. \A i \in 0..m : g[i] = IF i = 0 THEN Begun ELSE Char(g[i - 1], s[i])
    <3>1. \A i \in 0..(m - 1) : f[i] = IF i = 0 THEN Begun ELSE Char(f[i - 1], s[i])
      BY <2>3, <2>4 DEF Reads
    <3> HIDE DEF Bad
    <3> TAKE i \in 0..m
    <3>2. i # 0 => i - 1 \in 0..m /\ i - 1 < m
      BY <2>3
    <3>3. i # 0 => g[i - 1] = f[i - 1]
      BY <3>2
    <3>4. CASE i < m
      <4>1. i \in 0..(m - 1) /\ g[i] = f[i]
        BY <2>3, <3>4
      <4> QED BY <3>1, <3>3, <4>1
    <3>5. CASE i = m
      BY <2>3, <3>3, <3>5
    <3> QED BY <2>3, <3>4, <3>5
  <2>6. g = [i \in 0..m |-> IF i = 0 THEN Begun ELSE Char(g[i - 1], s[i])]
    <3>1. g = [i \in 0..m |-> g[i]]
      OBVIOUS
    <3> HIDE DEF g
    <3> QED BY <2>5, <3>1
  <2> HIDE DEF g
  <2>7. Reads(g, s, m)
    BY <2>6 DEF Reads
  <2> QED BY <2>1, <2>7
<1>2. n \in 0..n
  OBVIOUS
<1> QED BY <1>1, <1>2

LEMMA ReadsAt ==
    ASSUME NEW n \in Nat, NEW k \in 0..n, NEW s, NEW f, Reads(f, s, n)
    PROVE  f[k] = IF k = 0 THEN Begun ELSE Char(f[k - 1], s[k])
BY DEF Reads

\* What is read of the same characters is the same.
LEMMA ReadsAgree ==
    ASSUME NEW n \in Nat, NEW m \in Nat, m >= n, NEW s, NEW r, \A i \in 1..n : r[i] = s[i],
           NEW f, NEW g, Reads(f, s, n), Reads(g, r, m)
    PROVE  \A i \in 0..n : f[i] = g[i]
<1> DEFINE Bad == {k \in 0..n : f[k] # g[k]}
<1>1. ASSUME Bad # {} PROVE FALSE
  <2>1. PICK k \in Bad : \A j \in Bad : k <= j
    <3>1. Bad \in SUBSET Nat
      OBVIOUS
    <3> HIDE DEF Bad
    <3> QED BY <1>1, <3>1, LeastNat
  <2>2. k \in 0..n /\ k \in 0..m
    OBVIOUS
  <2>3. /\ f[k] = IF k = 0 THEN Begun ELSE Char(f[k - 1], s[k])
        /\ g[k] = IF k = 0 THEN Begun ELSE Char(g[k - 1], r[k])
    <3> HIDE DEF Bad
    <3> QED BY <2>2, ReadsAt
  <2>4. k # 0
    BY <2>3
  <2>5. k - 1 \in 0..n /\ k - 1 \notin Bad /\ k \in 1..n
    BY <2>1, <2>4
  <2>6. f[k - 1] = g[k - 1] /\ r[k] = s[k]
    BY <2>5
  <2> QED BY <2>1, <2>3, <2>4, <2>6
<1> QED BY <1>1

LEMMA ReadOn ==
    ASSUME NEW S, NEW s \in Seq(S)
    PROVE  /\ ReadOf(<< >>) = Begun
           /\ \A c \in S : ReadOf(Append(s, c)) = Char(ReadOf(s), c)
<1>1. ASSUME NEW r, Len(r) \in Nat
      PROVE  \E f : Reads(f, r, Len(r)) /\ ReadOf(r) = f[Len(r)]
  <2>1. \E f : Reads(f, r, Len(r))
    BY <1>1, ReadsUpTo
  <2> QED BY <2>1 DEF ReadOf
<1>2. ReadOf(<< >>) = Begun
  <2>1. Len(<< >>) = 0
    OBVIOUS
  <2>2. PICK f : Reads(f, << >>, 0) /\ ReadOf(<< >>) = f[0]
    BY <1>1, <2>1
  <2> QED BY <2>2 DEF Reads
<1>3. ASSUME NEW c \in S PROVE ReadOf(Append(s, c)) = Char(ReadOf(s), c)
  <2> DEFINE r == Append(s, c)
             n == Len(s)
             k == n + 1
  <2>1. /\ n \in Nat /\ k \in Nat /\ k - 1 = n /\ k # 0 /\ k >= n
        /\ Len(r) = k /\ r[k] = c /\ \A i \in 1..n : r[i] = s[i]
    BY LenProperties
  <2> HIDE DEF r, k, n
  <2>2. PICK f : Reads(f, s, n) /\ ReadOf(s) = f[n]
    BY <1>1, <2>1 DEF n
  <2>3. PICK g : Reads(g, r, k) /\ ReadOf(r) = g[k]
    BY <1>1, <2>1
  <2>4. n \in 0..n /\ k \in 0..k
    BY <2>1
  <2>5. f[n] = g[n]
    BY <2>1, <2>2, <2>3, <2>4, ReadsAgree
  <2>6. g[k] = IF k = 0 THEN Begun ELSE Char(g[k - 1], r[k])
    BY <2>1, <2>3, <2>4, ReadsAt
  <2> QED BY <2>1, <2>2, <2>3, <2>5, <2>6 DEF r
<1> QED BY <1>2, <1>3

LEMMA ParsedIs ==
    ASSUME NEW s
    PROVE  ParseArgvString(s) =
              [bad  |-> ReadOf(s).escaped,
               argv |-> IF ReadOf(s).word = << >> THEN ReadOf(s).argv ELSE Append(ReadOf(s).argv, ReadOf(s).word)]
BY DEF ParseArgvString, ReadOf, Reads, Begun, At

\* Words are made of the characters of the expansion.
ReadTypes == [quote : {NUL} \cup Quote, escaped : BOOLEAN, word : Seq(Letters), argv : Seq(Word)]

LEMMA CharTyped ==
    ASSUME NEW st \in ReadTypes, NEW c \in Letters
    PROVE  Char(st, c) \in ReadTypes
<1> DEFINE emit(cs) == [st EXCEPT !.word = @ \o cs, !.escaped = FALSE]
<1>1. "\\" \in Letters /\ <<"\\", c>> \in Seq(Letters) /\ <<c>> \in Seq(Letters)
  <2>1. "\\" \in Letters
    BY DEF Letters, NUL
  <2> QED BY <2>1
<1>2. \A cs \in Seq(Letters) : emit(cs) \in ReadTypes
  <2> TAKE cs \in Seq(Letters)
  <2>1. st.word \o cs \in Seq(Letters)
    BY ConcatProperties DEF ReadTypes
  <2> QED BY <2>1 DEF ReadTypes
<1>3. [st EXCEPT !.quote = NUL] \in ReadTypes /\ [st EXCEPT !.escaped = TRUE] \in ReadTypes
  BY DEF ReadTypes
<1>4. c \in Quote => [st EXCEPT !.quote = c] \in ReadTypes
  BY DEF ReadTypes
<1>5. st.word # << >> => [st EXCEPT !.argv = Append(@, st.word), !.word = << >>] \in ReadTypes
  <2>1. st.word # << >> => Append(st.argv, st.word) \in Seq(Word)
    BY AppendProperties DEF ReadTypes, Word
  <2> QED BY <2>1, EmptySeq DEF ReadTypes
<1>6. Char(st, c) \in
        {emit(<<"\\", c>>), emit(<<c>>), [st EXCEPT !.quote = NUL], [st EXCEPT !.escaped = TRUE], st}
        \cup (IF c \in Quote THEN {[st EXCEPT !.quote = c]} ELSE {})
        \cup (IF st.word # << >> THEN {[st EXCEPT !.argv = Append(@, st.word), !.word = << >>]} ELSE {})
  BY DEF Char
<1> HIDE DEF emit
<1> QED BY <1>1, <1>2, <1>3, <1>4, <1>5, <1>6

\* A sequence is empty or has a last element.
LEMMA LastOne ==
    ASSUME NEW S, NEW s \in Seq(S), Len(s) # 0
    PROVE  \E r \in Seq(S), c \in S : s = Append(r, c) /\ Len(r) = Len(s) - 1
<1> DEFINE n == Len(s) - 1
           r == SubSeq(s, 1, n)
           c == s[n + 1]
<1>1. n \in Nat /\ Len(s) = n + 1 /\ Len(s) \in Nat /\ \A i \in 1..Len(s) : s[i] \in S
  BY ElementOfSeq, LenProperties
<1>2. r \in Seq(S) /\ Len(r) = n /\ \A i \in 1..n : r[i] = s[i]
  <2>1. \A i \in 1..n : s[i] \in S
    BY <1>1
  <2> HIDE DEF n
  <2> QED BY <1>1, <2>1, SubSeqProperties
<1>3. c \in S
  BY <1>1
<1> HIDE DEF n, r, c
<1>4. s = Append(r, c)
  <2>1. /\ Append(r, c) \in Seq(S) /\ Len(Append(r, c)) = n + 1
        /\ \A i \in 1..n : Append(r, c)[i] = r[i]
        /\ Append(r, c)[n + 1] = c
    BY <1>1, <1>2, <1>3
  <2>2. \A i \in 1..Len(s) : s[i] = Append(r, c)[i]
    <3> TAKE i \in 1..Len(s)
    <3>1. i \in 1..n \/ i = n + 1
      BY <1>1
    <3> QED BY <1>1, <1>2, <2>1, <3>1 DEF c
  <2> QED BY <1>1, <2>1, <2>2, SeqEqual
<1> QED BY <1>1, <1>2, <1>3, <1>4

LEMMA ParsedTyped ==
    ASSUME NEW s \in Seq(Letters)
    PROVE  ReadOf(s) \in ReadTypes /\ ParseArgvString(s).argv \in Seq(Word)
<1> DEFINE Bad == {n \in Nat : \E r \in Seq(Letters) : Len(r) = n /\ ReadOf(r) \notin ReadTypes}
<1>1. ASSUME Bad # {} PROVE FALSE
  <2>1. PICK n \in Bad : \A k \in Bad : n <= k
    <3>1. Bad \in SUBSET Nat
      OBVIOUS
    <3> HIDE DEF Bad
    <3> QED BY <1>1, <3>1, LeastNat
  <2>2. PICK r \in Seq(Letters) : Len(r) = n /\ ReadOf(r) \notin ReadTypes
    BY <2>1
  <2>3. CASE n = 0
    <3>1. r = << >>
      BY <2>2, <2>3, EmptySeq
    <3>2. ReadOf(r) = Begun
      BY <2>2, <3>1, ReadOn
    <3> QED BY <2>2, <3>2, EmptySeq DEF ReadTypes, Begun, At
  <2>4. CASE n # 0
    <3>1. PICK q \in Seq(Letters), c \in Letters : r = Append(q, c) /\ Len(q) = n - 1
      <4>1. r \in Seq(Letters) /\ Len(r) # 0 /\ Len(r) = n
        BY <2>2, <2>4
      <4> HIDE DEF Bad
      <4> QED BY <4>1, LastOne
    <3>2. n - 1 \in Nat /\ n - 1 \notin Bad
      BY <2>1, <2>4
    <3>3. ReadOf(q) \in ReadTypes
      BY <3>1, <3>2
    <3> HIDE DEF Bad
    <3> QED BY <2>2, <3>1, <3>3, ReadOn, CharTyped
  <2> QED BY <2>3, <2>4
<1>2. ReadOf(s) \in ReadTypes
  BY <1>1, LenProperties
<1> DEFINE e == ReadOf(s)
<1> HIDE DEF e
<1>3. ParseArgvString(s).argv = IF e.word = << >> THEN e.argv ELSE Append(e.argv, e.word)
  BY ParsedIs DEF e
<1>4. e.argv \in Seq(Word) /\ (e.word # << >> => e.word \in Word)
  BY <1>2 DEF e, ReadTypes, Word
<1>5. ParseArgvString(s).argv \in Seq(Word)
  BY <1>3, <1>4, AppendProperties
<1> QED BY <1>2, <1>5

\* What a character does to a word.
LEMMA CharMoves ==
    ASSUME NEW w, NEW argv, NEW c \in Letters
    PROVE  /\ c \notin Space \cup Quote \cup {"\\"} =>
                  Char(At(w, argv, NUL), c) = At(w \o <<c>>, argv, NUL)
           /\ Char(Char(At(w, argv, NUL), "\\"), c) = At(w \o <<c>>, argv, NUL)
           /\ c \in Quote =>
                /\ Char(At(w, argv, NUL), c) = At(w, argv, c)
                /\ Char(At(w, argv, c), c) = At(w, argv, NUL)
                /\ Char(Char(At(w, argv, c), "\\"), c) = At(w \o <<c>>, argv, c)
           /\ w # << >> => Char(At(w, argv, NUL), " ") = At(<< >>, Append(argv, w), NUL)
<1> DEFINE escaped(q) == [quote |-> q, escaped |-> TRUE, word |-> w, argv |-> argv]
<1>1. c # NUL /\ NUL \notin Quote /\ "\\" \notin Quote /\ "\\" # NUL
      /\ "\\" \notin Space /\ " " \notin Quote /\ " " \in Space /\ " " # "\\" /\ " " # NUL
      /\ \A q \in Quote : q \notin Space
  BY DEF Letters, NUL, Quote, Space
<1>2. \A q \in Quote \cup {NUL} : Char(At(w, argv, q), "\\") = escaped(q)
  BY <1>1 DEF Char, At
<1>3. \A q \in {c, NUL} : Char(escaped(q), c) = At(w \o <<c>>, argv, q)
  BY DEF Char, At
<1> HIDE DEF escaped
<1>4. c \notin Space \cup Quote \cup {"\\"} =>
          Char(At(w, argv, NUL), c) = At(w \o <<c>>, argv, NUL)
  BY <1>1 DEF Char, At
<1>5. c \in Quote =>
        /\ Char(At(w, argv, NUL), c) = At(w, argv, c)
        /\ Char(At(w, argv, c), c) = At(w, argv, NUL)
  BY <1>1 DEF Char, At
<1>6. w # << >> => Char(At(w, argv, NUL), " ") = At(<< >>, Append(argv, w), NUL)
  BY <1>1 DEF Char, At
<1> QED BY <1>1, <1>2, <1>3, <1>4, <1>5, <1>6

LEMMA QuotedMove ==
    ASSUME NEW w, NEW argv, NEW c \in Letters, NEW q \in Quote, c # q, c # "\\"
    PROVE  Char(At(w, argv, q), c) = At(w \o <<c>>, argv, q)
<1>1. q # NUL
  BY DEF Quote, NUL
<1> QED BY <1>1 DEF Char, At

\* A character as it is written with a backslash before the special ones.
Shield(c, S) == IF c \in S THEN <<"\\", c>> ELSE <<c>>

LEMMA OneOrTwo == \A S : \A c, d \in S : <<c>> \in Seq(S) /\ <<c, d>> \in Seq(S)
OBVIOUS

LEMMA ShieldTyped ==
    /\ "\\" \in Letters /\ " " \in Letters /\ Quote \subseteq Letters
    /\ \A c \in Letters : \A S : Shield(c, S) \in Seq(Letters)
<1>1. "\\" \in Letters /\ " " \in Letters /\ Quote \subseteq Letters
  BY DEF Letters, NUL, Quote
<1>2. ASSUME NEW c \in Letters, NEW S PROVE Shield(c, S) \in Seq(Letters)
  <2>1. <<"\\", c>> \in Seq(Letters) /\ <<c>> \in Seq(Letters)
    BY <1>1, OneOrTwo
  <2> QED BY <2>1 DEF Shield
<1> QED BY <1>1, <1>2

LEMMA ShieldedMore ==
    ASSUME NEW w \in Seq(Letters), NEW S
    PROVE  /\ Shielded(<< >>, S) = << >>
           /\ Shielded(w, S) \in Seq(Letters)
           /\ \A c \in Letters : Shielded(Append(w, c), S) = Shielded(w, S) \o Shield(c, S)
<1> DEFINE each(v) == [k \in DOMAIN v |-> Shield(v[k], S)]
<1>1. \A v : Shielded(v, S) = FlattenSeq(each(v))
  BY DEF Shielded, FlattenSeq, FlattenSeq, Shield
<1>2. \A v \in Seq(Letters) : each(v) \in Seq(Seq(Letters)) /\ Len(each(v)) = Len(v) /\ Len(v) \in Nat
  <2> TAKE v \in Seq(Letters)
  <2>1. DOMAIN v = 1..Len(v) /\ Len(v) \in Nat /\ \A k \in 1..Len(v) : v[k] \in Letters
    BY ElementOfSeq, LenProperties
  <2>2. \A k \in 1..Len(v) : Shield(v[k], S) \in Seq(Letters)
    BY <2>1, ShieldTyped
  <2> QED BY <2>1, <2>2
<1>3. each(<< >>) = << >>
  OBVIOUS
<1>4. ASSUME NEW c \in Letters PROVE each(Append(w, c)) = Append(each(w), Shield(c, S))
  <2> DEFINE v == Append(w, c)
             x == each(v)
             y == Append(each(w), Shield(c, S))
             n == Len(w)
  <2>1. /\ v \in Seq(Letters) /\ Len(v) = n + 1 /\ n \in Nat /\ v[n + 1] = c
        /\ \A i \in 1..n : v[i] = w[i]
        /\ DOMAIN v = 1..(n + 1) /\ DOMAIN w = 1..n
    BY LenProperties
  <2> HIDE DEF v, n
  <2>2. Shield(c, S) \in Seq(Letters)
    BY ShieldTyped
  <2>3. /\ x \in Seq(Seq(Letters)) /\ Len(x) = n + 1
        /\ each(w) \in Seq(Seq(Letters)) /\ Len(each(w)) = n
    BY <1>2, <2>1 DEF n
  <2>4. \A i \in 1..(n + 1) : x[i] = Shield(v[i], S)
    BY <2>1
  <2>5. \A i \in 1..n : each(w)[i] = Shield(w[i], S)
    BY <2>1
  <2> HIDE DEF x, each
  <2>6. /\ y \in Seq(Seq(Letters)) /\ Len(y) = n + 1 /\ y[n + 1] = Shield(c, S)
        /\ \A i \in 1..n : y[i] = each(w)[i]
    BY <2>1, <2>2, <2>3
  <2> HIDE DEF y
  <2>7. \A i \in 1..(n + 1) : x[i] = y[i]
    <3> TAKE i \in 1..(n + 1)
    <3>1. i \in 1..n \/ i = n + 1
      BY <2>1
    <3> QED BY <2>1, <2>4, <2>5, <2>6, <3>1
  <2>8. x = y
    BY <2>3, <2>6, <2>7, SeqEqual
  <2> QED BY <2>8 DEF x, y, v
<1> HIDE DEF each
<1>5. FlattenSeq(each(w)) \in Seq(Letters) /\ FlattenSeq(<< >>) = << >>
  BY <1>2, Flattened
<1>6. ASSUME NEW c \in Letters PROVE FlattenSeq(Append(each(w), Shield(c, S))) = FlattenSeq(each(w)) \o Shield(c, S)
  <2>1. each(w) \in Seq(Seq(Letters)) /\ Shield(c, S) \in Seq(Letters)
    BY <1>2, ShieldTyped
  <2> QED BY <2>1, Flattened
<1> QED BY <1>1, <1>3, <1>4, <1>5, <1>6

\* Characters one by one.
LEMMA ConcatOne ==
    ASSUME NEW S, NEW p \in Seq(S), NEW s \in Seq(S), NEW c \in S, NEW d \in S
    PROVE  /\ p \o (s \o <<c>>) = Append(p \o s, c)
           /\ p \o (s \o <<d, c>>) = Append(Append(p \o s, d), c)
           /\ p \o s \in Seq(S) /\ Append(p \o s, d) \in Seq(S)
<1>1. p \o s \in Seq(S) /\ <<c>> \in Seq(S) /\ <<d>> \in Seq(S) /\ <<d, c>> = <<d>> \o <<c>>
  BY ConcatProperties
<1>2. Append(p \o s, d) \in Seq(S)
  BY <1>1, AppendProperties
<1>3. p \o (s \o <<c>>) = Append(p \o s, c)
  <2>1. (p \o s) \o <<c>> = p \o (s \o <<c>>)
    BY <1>1, ConcatAssociative
  <2> QED BY <1>1, <2>1, AppendIsConcat
<1>4. p \o (s \o <<d, c>>) = Append(Append(p \o s, d), c)
  <2>1. s \o <<d, c>> = (s \o <<d>>) \o <<c>> /\ s \o <<d>> \in Seq(S)
    <3>1. (s \o <<d>>) \o <<c>> = s \o (<<d>> \o <<c>>)
      BY <1>1, ConcatAssociative
    <3> QED BY <1>1, <3>1, ConcatProperties
  <2>2. p \o ((s \o <<d>>) \o <<c>>) = (p \o (s \o <<d>>)) \o <<c>>
    BY <1>1, <2>1, ConcatAssociative
  <2>3. p \o (s \o <<d>>) = Append(p \o s, d)
    <3>1. (p \o s) \o <<d>> = p \o (s \o <<d>>)
      BY <1>1, ConcatAssociative
    <3> QED BY <1>1, <3>1, AppendIsConcat
  <2>4. Append(p \o s, d) \o <<c>> = Append(Append(p \o s, d), c)
    BY <1>2, AppendIsConcat
  <2> QED BY <2>1, <2>2, <2>3, <2>4
<1> QED BY <1>1, <1>2, <1>3, <1>4

\* Each character is read as itself.
ReadPlainly(W, S, argv, q) ==
    \A c \in W : \A v :
        IF c \in S THEN Char(Char(At(v, argv, q), "\\"), c) = At(v \o <<c>>, argv, q)
        ELSE Char(At(v, argv, q), c) = At(v \o <<c>>, argv, q)

LEMMA ShieldedRead ==
    ASSUME NEW p \in Seq(Letters), NEW argv, NEW q, ReadOf(p) = At(<< >>, argv, q),
           NEW S, NEW W \in SUBSET Letters, ReadPlainly(W, S, argv, q), NEW w \in Seq(W)
    PROVE  ReadOf(p \o Shielded(w, S)) = At(w, argv, q)
<1> DEFINE Bad == {n \in Nat : \E v \in Seq(W) : Len(v) = n /\ ReadOf(p \o Shielded(v, S)) # At(v, argv, q)}
<1>1. ASSUME Bad # {} PROVE FALSE
  <2>1. PICK n \in Bad : \A k \in Bad : n <= k
    <3>1. Bad \in SUBSET Nat
      OBVIOUS
    <3> HIDE DEF Bad
    <3> QED BY <1>1, <3>1, LeastNat
  <2>2. PICK v \in Seq(W) : Len(v) = n /\ ReadOf(p \o Shielded(v, S)) # At(v, argv, q)
    BY <2>1
  <2>3. CASE n = 0
    <3>1. v = << >>
      BY <2>2, <2>3, EmptySeq
    <3>2. p \o Shielded(v, S) = p
      <4>1. Shielded(<< >>, S) = << >>
        BY ShieldedMore
      <4> QED BY <3>1, <4>1, ConcatEmptySeq
    <3> QED BY <2>2, <3>1, <3>2
  <2>4. CASE n # 0
    <3>1. PICK u \in Seq(W), c \in W : v = Append(u, c) /\ Len(u) = n - 1
      <4>1. v \in Seq(W) /\ Len(v) # 0 /\ Len(v) = n
        BY <2>2, <2>4
      <4> HIDE DEF Bad
      <4>2. \A T : \A t \in Seq(T) :
               Len(t) # 0 => \E u \in Seq(T), c \in T : t = Append(u, c) /\ Len(u) = Len(t) - 1
        BY LastOne
      <4> QED BY <4>1, <4>2, Zenon
    <3>2. n - 1 \in Nat /\ n - 1 \notin Bad
      BY <2>1, <2>4
    <3>3. ReadOf(p \o Shielded(u, S)) = At(u, argv, q)
      BY <3>1, <3>2
    <3> HIDE DEF Bad
    <3> DEFINE s == Shielded(u, S)
    <3>4. u \in Seq(Letters) /\ c \in Letters /\ "\\" \in Letters
      BY SeqMonotonic, ShieldTyped
    <3>5. s \in Seq(Letters) /\ Shielded(v, S) = s \o Shield(c, S)
      BY <3>1, <3>4, ShieldedMore
    <3> HIDE DEF s
    <3>6. /\ p \o (s \o <<c>>) = Append(p \o s, c)
          /\ p \o (s \o <<"\\", c>>) = Append(Append(p \o s, "\\"), c)
          /\ p \o s \in Seq(Letters) /\ Append(p \o s, "\\") \in Seq(Letters)
      BY <3>4, <3>5, ConcatOne
    <3>7. /\ ReadOf(Append(p \o s, c)) = Char(ReadOf(p \o s), c)
          /\ ReadOf(Append(Append(p \o s, "\\"), c)) = Char(Char(ReadOf(p \o s), "\\"), c)
      <4>1. ReadOf(Append(p \o s, c)) = Char(ReadOf(p \o s), c)
        BY <3>4, <3>6, ReadOn
      <4>2. ReadOf(Append(p \o s, "\\")) = Char(ReadOf(p \o s), "\\")
        BY <3>4, <3>6, ReadOn
      <4>3. ReadOf(Append(Append(p \o s, "\\"), c)) = Char(ReadOf(Append(p \o s, "\\")), c)
        BY <3>4, <3>6, ReadOn
      <4> QED BY <4>1, <4>2, <4>3
    <3>8. Append(u, c) = u \o <<c>>
      BY AppendIsConcat
    <3>9. ReadOf(p \o s) = At(u, argv, q)
      BY <3>3 DEF s
    <3>10. CASE c \in S
      BY <2>2, <3>1, <3>5, <3>6, <3>7, <3>8, <3>9, <3>10 DEF Shield, ReadPlainly
    <3>11. CASE c \notin S
      BY <2>2, <3>1, <3>5, <3>6, <3>7, <3>8, <3>9, <3>11 DEF Shield, ReadPlainly
    <3> QED BY <3>10, <3>11
  <2> QED BY <2>3, <2>4
<1> QED BY <1>1, LenProperties

\* The ways to write a word.
Writings(w) == {Escape(w)} \cup
                  (IF "\\" \in Range(w) THEN {} ELSE {InQuotes(q, w) : q \in Quote})

\* A word is read as it was before it was written.
LEMMA WordRead ==
    ASSUME NEW p \in Seq(Letters), NEW argv, ReadOf(p) = At(<< >>, argv, NUL),
           NEW w \in Word, NEW how \in Writings(w)
    PROVE  /\ how \in Seq(Letters)
           /\ ReadOf(p \o how) = At(w, argv, NUL)
           /\ ReadOf(p \o (how \o <<" ">>)) = At(<< >>, Append(argv, w), NUL)
<1>1. w \in Seq(Letters) /\ w # << >>
  BY DEF Word
<1>2. how \in Seq(Letters) /\ ReadOf(p \o how) = At(w, argv, NUL)
  <2>1. CASE how = Escape(w)
    <3> DEFINE S == Space \cup Quote \cup {"\\"}
    <3>1. ReadPlainly(Letters, S, argv, NUL)
      BY CharMoves DEF ReadPlainly
    <3>2. how = Shielded(w, S)
      BY <2>1 DEF Escape
    <3> HIDE DEF S
    <3>3. ReadOf(p \o how) = At(w, argv, NUL)
      BY <1>1, <3>1, <3>2, ShieldedRead
    <3>4. how \in Seq(Letters)
      BY <1>1, <3>2, ShieldedMore
    <3> QED BY <3>3, <3>4
  <2>2. CASE "\\" \notin Range(w) /\ \E q \in Quote : how = InQuotes(q, w)
    <3>1. PICK q \in Quote : how = InQuotes(q, w)
      BY <2>2
    <3> DEFINE W == Letters \ {"\\"}
               S == {q}
               s == Shielded(w, S)
    <3>2. q \in Letters /\ q # "\\" /\ <<q>> \in Seq(Letters)
      <4>1. q \in Letters
        BY ShieldTyped
      <4>2. q # "\\"
        BY DEF Quote
      <4> QED BY <4>1, <4>2, OneOrTwo
    <3>3. w \in Seq(W)
      <4>1. DOMAIN w = 1..Len(w) /\ Len(w) \in Nat /\ \A i \in 1..Len(w) : w[i] \in Letters
        BY <1>1, ElementOfSeq, LenProperties
      <4>2. \A i \in 1..Len(w) : w[i] # "\\"
        BY <2>2, <4>1 DEF Range
      <4>3. w = [i \in 1..Len(w) |-> w[i]]
        BY <1>1, <4>1
      <4> HIDE DEF W
      <4>4. \A i \in 1..Len(w) : w[i] \in W
        BY <4>1, <4>2 DEF W
      <4> QED BY <4>1, <4>3, <4>4, IsASeq
    <3>4. ReadPlainly(W, S, argv, q)
      <4> SUFFICES ASSUME NEW c \in W, NEW v
                   PROVE  IF c \in S THEN Char(Char(At(v, argv, q), "\\"), c) = At(v \o <<c>>, argv, q)
                          ELSE Char(At(v, argv, q), c) = At(v \o <<c>>, argv, q)
        BY DEF ReadPlainly
      <4>1. c \in Letters /\ c # "\\" /\ (c \in S <=> c = q)
        OBVIOUS
      <4> HIDE DEF W, S
      <4>2. CASE c = q
        <5>1. c \in Quote
          BY <4>2
        <5>2. Char(Char(At(v, argv, c), "\\"), c) = At(v \o <<c>>, argv, c)
          BY <4>1, <5>1, CharMoves
        <5> QED BY <4>1, <4>2, <5>2
      <4>3. CASE c # q
        <5>1. Char(At(v, argv, q), c) = At(v \o <<c>>, argv, q)
          BY <4>1, <4>3, QuotedMove
        <5> QED BY <4>1, <4>3, <5>1
      <4> QED BY <4>2, <4>3
    <3>5. s \in Seq(Letters)
      BY <1>1, ShieldedMore
    <3>6. how = <<q>> \o s \o <<q>>
      BY <3>1 DEF InQuotes
    <3>7. p \o <<q>> \in Seq(Letters) /\ ReadOf(p \o <<q>>) = At(<< >>, argv, q)
      <4>1. p \o <<q>> = Append(p, q) /\ Append(p, q) \in Seq(Letters)
        BY <3>2, AppendIsConcat, AppendProperties
      <4>2. ReadOf(Append(p, q)) = Char(ReadOf(p), q)
        BY <3>2, ReadOn
      <4>3. Char(At(<< >>, argv, NUL), q) = At(<< >>, argv, q)
        BY <3>2, CharMoves
      <4> QED BY <4>1, <4>2, <4>3
    <3>8. ReadOf((p \o <<q>>) \o s) = At(w, argv, q)
      <4>1. W \in SUBSET Letters
        OBVIOUS
      <4> DEFINE r == p \o <<q>>
      <4>2. r \in Seq(Letters) /\ ReadOf(r) = At(<< >>, argv, q)
        BY <3>7
      <4> HIDE DEF W, S, r
      <4>3. ReadOf(r \o Shielded(w, S)) = At(w, argv, q)
        BY <3>3, <3>4, <4>1, <4>2, ShieldedRead
      <4> QED BY <4>3 DEF r
    <3> HIDE DEF W, S, s
    <3>9. how \in Seq(Letters) /\ p \o how = Append((p \o <<q>>) \o s, q) /\ (p \o <<q>>) \o s \in Seq(Letters)
      <4>1. <<q>> \o s \in Seq(Letters)
        BY <3>2, <3>5, ConcatProperties
      <4>2. (<<q>> \o s) \o <<q>> \in Seq(Letters)
        BY <3>2, <4>1, ConcatProperties
      <4>3. p \o ((<<q>> \o s) \o <<q>>) = Append(p \o (<<q>> \o s), q) /\ p \o (<<q>> \o s) \in Seq(Letters)
        BY <3>2, <4>1, ConcatOne
      <4>4. p \o (<<q>> \o s) = (p \o <<q>>) \o s
        BY <3>2, <3>5, ConcatAssociative
      <4> QED BY <3>6, <4>2, <4>3, <4>4
    <3>10. Char(At(w, argv, q), q) = At(w, argv, NUL)
      BY <3>2, CharMoves
    <3>11. ReadOf(Append((p \o <<q>>) \o s, q)) = Char(ReadOf((p \o <<q>>) \o s), q)
      BY <3>2, <3>9, ReadOn
    <3> QED BY <3>8, <3>9, <3>10, <3>11
  <2> QED BY <2>1, <2>2 DEF Writings
<1>3. " " \in Letters
  BY ShieldTyped
<1>4. p \o (how \o <<" ">>) = Append(p \o how, " ") /\ p \o how \in Seq(Letters)
  <2> DEFINE c == " "
  <2>1. c \in Letters
    BY <1>3
  <2> HIDE DEF c
  <2>2. p \o (how \o <<c>>) = Append(p \o how, c) /\ p \o how \in Seq(Letters)
    BY <1>2, <2>1, ConcatOne
  <2> QED BY <2>2 DEF c
<1>5. ReadOf(Append(p \o how, " ")) = Char(ReadOf(p \o how), " ")
  BY <1>3, <1>4, ReadOn
<1>6. Char(At(w, argv, NUL), " ") = At(<< >>, Append(argv, w), NUL)
  BY <1>1, <1>3, CharMoves
<1> QED BY <1>2, <1>4, <1>5, <1>6

LEMMA OneMore ==
    ASSUME NEW S, NEW s \in Seq(S), NEW m \in 1..Len(s)
    PROVE  /\ m \in Nat \ {0} /\ m - 1 \in 0..Len(s) /\ Len(s) \in Nat /\ s[m] \in S
           /\ SubSeq(s, 1, m - 1) \in Seq(S) /\ Len(SubSeq(s, 1, m - 1)) = m - 1
           /\ SubSeq(s, 1, m) = Append(SubSeq(s, 1, m - 1), s[m])
<1>1. m \in Nat \ {0} /\ m - 1 \in 0..Len(s) /\ Len(s) \in Nat /\ \A i \in 1..Len(s) : s[i] \in S
  BY ElementOfSeq, LenProperties
<1>2. ASSUME NEW k \in 0..Len(s)
      PROVE  SubSeq(s, 1, k) \in Seq(S) /\ Len(SubSeq(s, 1, k)) = k /\ \A i \in 1..k : SubSeq(s, 1, k)[i] = s[i]
  <2>1. \A i \in 1..k : s[i] \in S
    BY <1>1
  <2> QED BY <1>1, <2>1, SubSeqProperties
<1> DEFINE a == SubSeq(s, 1, m - 1)
           b == SubSeq(s, 1, m)
           c == s[m]
           d == Append(a, c)
<1>3. /\ a \in Seq(S) /\ Len(a) = m - 1 /\ \A i \in 1..(m - 1) : a[i] = s[i]
      /\ b \in Seq(S) /\ Len(b) = m /\ \A i \in 1..m : b[i] = s[i]
      /\ c \in S /\ s[m] = c
  <2>1. m \in 0..Len(s)
    BY <1>1
  <2> QED BY <1>1, <1>2, <2>1
<1> HIDE DEF a, b, c
<1>4. d \in Seq(S) /\ Len(d) = m /\ d[m] = c /\ \A i \in 1..(m - 1) : d[i] = a[i]
  BY <1>1, <1>3
<1> HIDE DEF d
<1>5. \A i \in 1..m : b[i] = d[i]
  <2> TAKE i \in 1..m
  <2>1. i \in 1..(m - 1) \/ i = m
    BY <1>1
  <2> QED BY <1>1, <1>3, <1>4, <2>1
<1>6. b = d
  BY <1>3, <1>4, <1>5, SeqEqual
<1> QED BY <1>1, <1>3, <1>6 DEF a, b, c, d

\* Words that are written one behind the other are read as they were.
LEMMA WordsRead ==
    ASSUME NEW argv \in Seq(Word), NEW hows, \A k \in 1..Len(argv) : hows[k] \in Writings(argv[k])
    PROVE  ParseArgvString(FlattenSeq([k \in DOMAIN argv |-> hows[k] \o <<" ">>])).argv = argv
<1> DEFINE n == Len(argv)
           q == [k \in 1..n |-> hows[k] \o <<" ">>]
           read(m) == /\ FlattenSeq(SubSeq(q, 1, m)) \in Seq(Letters)
                      /\ ReadOf(FlattenSeq(SubSeq(q, 1, m))) = At(<< >>, SubSeq(argv, 1, m), NUL)
           Bad == {m \in 0..n : ~read(m)}
<1>1. n \in Nat /\ DOMAIN argv = 1..n /\ \A k \in 1..n : argv[k] \in Word
  BY ElementOfSeq, LenProperties
<1>2. \A k \in 1..n : hows[k] \o <<" ">> \in Seq(Letters)
  <2> TAKE k \in 1..n
  <2>1. argv[k] \in Word /\ hows[k] \in Writings(argv[k])
    BY <1>1
  <2>2. << >> \in Seq(Letters) /\ ReadOf(<< >>) = At(<< >>, << >>, NUL)
    BY ReadOn, EmptySeq DEF Begun
  <2>3. hows[k] \in Seq(Letters)
    BY <2>1, <2>2, WordRead
  <2>4. <<" ">> \in Seq(Letters)
    BY ShieldTyped, OneOrTwo
  <2> QED BY <2>3, <2>4, ConcatProperties
<1>3. q \in Seq(Seq(Letters)) /\ Len(q) = n
  <2> DEFINE T(k) == hows[k] \o <<" ">>
  <2>1. n \in Nat /\ \A k \in 1..n : T(k) \in Seq(Letters)
    BY <1>1, <1>2
  <2> HIDE DEF n, T
  <2>2. [k \in 1..n |-> T(k)] \in Seq(Seq(Letters)) /\ Len([k \in 1..n |-> T(k)]) = n
    BY <2>1
  <2> QED BY <2>2 DEF n, T
<1>4. \A k \in 1..n : q[k] = hows[k] \o <<" ">>
  OBVIOUS
<1> HIDE DEF q
<1>5. read(0)
  <2>1. SubSeq(q, 1, 0) = << >> /\ SubSeq(argv, 1, 0) = << >>
    BY SubSeqEmpty
  <2>2. FlattenSeq(<< >>) = << >>
    BY <1>3, Flattened
  <2>3. ReadOf(<< >>) = At(<< >>, << >>, NUL) /\ << >> \in Seq(Letters)
    BY ReadOn, EmptySeq DEF Begun
  <2> QED BY <2>1, <2>2, <2>3
<1>6. ASSUME NEW m \in 1..n, read(m - 1) PROVE read(m)
  <2> DEFINE a == SubSeq(q, 1, m - 1)
             v == SubSeq(argv, 1, m - 1)
             p == FlattenSeq(a)
             w == argv[m]
             how == hows[m]
  <2>1. a \in Seq(Seq(Letters)) /\ SubSeq(q, 1, m) = Append(a, q[m]) /\ q[m] \in Seq(Letters)
    BY <1>3, OneMore
  <2>2. v \in Seq(Word) /\ SubSeq(argv, 1, m) = Append(v, w) /\ w \in Word
    BY OneMore
  <2>3. p \in Seq(Letters) /\ ReadOf(p) = At(<< >>, v, NUL)
    BY <1>6
  <2>4. q[m] = how \o <<" ">> /\ how \in Writings(w)
    BY <1>1, <1>4
  <2>5. FlattenSeq(Append(a, q[m])) = p \o q[m]
    <3> HIDE DEF a
    <3> QED BY <2>1, Flattened
  <2> HIDE DEF a, v, p, w, how
  <2>6. ReadOf(p \o (how \o <<" ">>)) = At(<< >>, Append(v, w), NUL)
    BY <2>2, <2>3, <2>4, WordRead
  <2>7. p \o q[m] \in Seq(Letters)
    BY <2>1, <2>3, ConcatProperties
  <2> QED BY <2>1, <2>2, <2>4, <2>5, <2>6, <2>7
<1>7. ASSUME Bad # {} PROVE FALSE
  <2>1. PICK m \in Bad : \A k \in Bad : m <= k
    <3>1. Bad \in SUBSET Nat
      BY <1>1
    <3> HIDE DEF Bad
    <3> QED BY <1>7, <3>1, LeastNat
  <2> HIDE DEF read
  <2>2. m # 0
    BY <1>5
  <2>3. m \in 1..n /\ m - 1 \in 0..n /\ m - 1 \notin Bad
    BY <1>1, <2>1, <2>2
  <2>4. read(m - 1)
    BY <2>3
  <2> QED BY <1>6, <2>1, <2>3, <2>4
<1>8. read(n)
  <2>1. n \in 0..n
    BY <1>1
  <2> HIDE DEF read
  <2> QED BY <1>7, <2>1
<1>9. SubSeq(q, 1, n) = q /\ SubSeq(argv, 1, n) = argv
  BY <1>1, <1>3, SubSeqFull
<1>10. ReadOf(FlattenSeq(q)) = At(<< >>, argv, NUL)
  BY <1>8, <1>9
<1>11. FlattenSeq([k \in DOMAIN argv |-> hows[k] \o <<" ">>]) = FlattenSeq(q)
  BY <1>1 DEF q, FlattenSeq, FlattenSeq
<1> HIDE DEF read, Bad
<1>12. ParseArgvString(FlattenSeq(q)).argv =
          IF ReadOf(FlattenSeq(q)).word = << >> THEN ReadOf(FlattenSeq(q)).argv
          ELSE Append(ReadOf(FlattenSeq(q)).argv, ReadOf(FlattenSeq(q)).word)
  BY ParsedIs
<1>13. ReadOf(FlattenSeq(q)).word = << >> /\ ReadOf(FlattenSeq(q)).argv = argv
  BY <1>10 DEF At
<1> QED BY <1>11, <1>12, <1>13

\* What the entries of aliases hold.
ArgvsTyped == \A i \in DOMAIN entries : entries[i].kind = "alias" => entries[i].argv \in Seq(Word)

LEMMA WordsSurvive == ArgvsTyped => WordsKept
<1> SUFFICES ASSUME ArgvsTyped, NEW i \in DOMAIN entries, NEW j \in DOMAIN entries[i].argv,
                    entries[i].kind = "alias"
             PROVE  LET e == entries[i]
                        w == e.argv[j]
                        Written(how) == [k \in DOMAIN e.argv |-> IF k = j THEN how ELSE Escape(e.argv[k])]
                    IN  /\ ParseArgvString(Escape(w)).argv = <<w>>
                        /\ "\\" \notin Range(w) =>
                              \A q \in Quote : ParseArgvString(InQuotes(q, w)).argv = <<w>>
                        /\ \A how \in {Escape(w)} \cup
                                      (IF "\\" \in Range(w) THEN {} ELSE {InQuotes(q, w) : q \in Quote}) :
                              ParseArgvString(FlattenSeq([k \in DOMAIN e.argv |-> Written(how)[k] \o <<" ">>])).argv
                                 = e.argv
  BY DEF WordsKept
<1> DEFINE argv == entries[i].argv
           w    == argv[j]
           hows(how) == [k \in DOMAIN argv |-> IF k = j THEN how ELSE Escape(argv[k])]
<1>1. argv \in Seq(Word) /\ DOMAIN argv = 1..Len(argv) /\ w \in Word
  <2>1. argv \in Seq(Word)
    BY DEF ArgvsTyped
  <2> HIDE DEF argv
  <2> QED BY <2>1, ElementOfSeq, LenProperties DEF argv
<1> HIDE DEF argv
<1>2. ASSUME NEW how \in Writings(w) PROVE ParseArgvString(how).argv = <<w>>
  <2>1. << >> \in Seq(Letters) /\ ReadOf(<< >>) = At(<< >>, << >>, NUL)
    BY ReadOn, EmptySeq DEF Begun
  <2> HIDE DEF w
  <2>2. how \in Seq(Letters) /\ ReadOf(<< >> \o how) = At(w, << >>, NUL)
    BY <1>1, <2>1, WordRead
  <2>3. << >> \o how = how
    BY <2>2, ConcatEmptySeq
  <2>4. Append(<< >>, w) = <<w>> /\ w # << >>
    BY <1>1 DEF Word
  <2> QED BY <2>2, <2>3, <2>4, ParsedIs DEF At
<1>3. ASSUME NEW how \in Writings(w)
      PROVE  ParseArgvString(FlattenSeq([k \in DOMAIN argv |-> hows(how)[k] \o <<" ">>])).argv = argv
  <2>1. \A k \in 1..Len(argv) : hows(how)[k] \in Writings(argv[k])
    BY <1>1 DEF Writings
  <2> DEFINE h == hows(how)
  <2> HIDE DEF h
  <2>2. ParseArgvString(FlattenSeq([k \in DOMAIN argv |-> h[k] \o <<" ">>])).argv = argv
    <3>1. \A k \in 1..Len(argv) : h[k] \in Writings(argv[k])
      BY <2>1 DEF h
    <3> QED BY <1>1, <3>1, WordsRead
  <2> QED BY <2>2 DEF h
<1>4. Escape(w) \in Writings(w)
  BY DEF Writings
<1>5. "\\" \notin Range(w) => \A q \in Quote : InQuotes(q, w) \in Writings(w)
  BY DEF Writings
<1>6. {Escape(w)} \cup
          (IF "\\" \in Range(w) THEN {} ELSE {InQuotes(q, w) : q \in Quote}) = Writings(w)
  BY DEF Writings
<1> QED BY <1>2, <1>3, <1>4, <1>5, <1>6 DEF argv

-----------------------------------------------------------------------------
(* The buffer for a line *)

Chars == STRING \ {NUL, UNSET}

\* Of a buffer for n characters the first m were written, by this line or by
\* longer ones, and there a string ends.
Filled(b, n, m) ==
    /\ n \in Nat /\ m \in 1..n
    /\ DOMAIN b = 1..n
    /\ b[m] = NUL
    /\ \A j \in 1..n : IF j <= m THEN b[j] \in Chars \cup {NUL} ELSE b[j] = UNSET

LEMMA Marks ==
    /\ NUL \notin Space /\ UNSET \notin Space /\ NUL # UNSET
    /\ "#" \notin Space /\ "#" # NUL /\ Chars \subseteq Letters
    /\ \A c \in Chars : c # NUL /\ c # UNSET
BY DEF NUL, UNSET, Space, Chars, Letters

LEMMA ConfigLeast ==
    ASSUME NEW S \in SUBSET Nat, S # {}
    PROVE  Min(S) \in S /\ \A i \in S : Min(S) <= i
BY LeastNat DEF Min

LEMMA SkipTo ==
    ASSUME NEW b, NEW n, NEW m, Filled(b, n, m), NEW i \in 1..m
    PROVE  /\ Skip(b, i) \in i..m
           /\ b[Skip(b, i)] \notin Space
           /\ \A k \in i..(Skip(b, i) - 1) : b[k] \in Space
           /\ \A p \in i..m : b[p] \notin Space /\ (\A k \in i..(p - 1) : b[k] \in Space)
                                 => p = Skip(b, i)
<1> DEFINE S == {j \in DOMAIN b : j >= i /\ b[j] \notin Space}
           p == Skip(b, i)
<1>1. n \in Nat /\ m \in 1..n /\ DOMAIN b = 1..n /\ b[m] \notin Space
  BY Marks DEF Filled
<1>2. m \in S /\ S \in SUBSET Nat /\ p = Min(S)
  BY <1>1 DEF Skip
<1>3. \A j : j \in S <=> j \in 1..n /\ j >= i /\ b[j] \notin Space
  BY <1>1
<1> HIDE DEF S, p
<1>4. p \in S /\ \A j \in S : p <= j
  BY <1>2, ConfigLeast
<1>5. p \in i..m /\ b[p] \notin Space
  BY <1>1, <1>2, <1>3, <1>4
<1>6. \A k \in i..(p - 1) : b[k] \in Space
  <2> TAKE k \in i..(p - 1)
  <2>1. k \in 1..n /\ k >= i /\ ~(p <= k)
    BY <1>1, <1>5
  <2> QED BY <1>3, <1>4, <2>1
<1>7. ASSUME NEW q \in i..m, b[q] \notin Space, \A k \in i..(q - 1) : b[k] \in Space
      PROVE  q = p
  <2>1. q \in S
    BY <1>1, <1>3, <1>7
  <2>2. p <= q /\ ~(p < q)
    <3>1. p < q => p \in i..(q - 1)
      BY <1>5, <1>7
    <3> QED BY <1>4, <1>5, <1>7, <2>1, <3>1
  <2> QED BY <1>5, <1>7, <2>2
<1> QED BY <1>5, <1>6, <1>7 DEF p

\* A field ends at a white space that was written.
LEMMA PastPlace ==
    ASSUME NEW b, NEW n, NEW m, Filled(b, n, m), NEW i \in 1..m
    PROVE  /\ Past(b, i) # {} =>
                /\ Min(Past(b, i)) \in i..(m - 1)
                /\ b[Min(Past(b, i))] \in Space
           /\ \A p \in i..m : b[p] \in Space /\ (\A k \in i..(p - 1) : b[k] \notin Space)
                                 => Past(b, i) # {} /\ Min(Past(b, i)) = p
<1> DEFINE S == Past(b, i)
           p == Min(S)
<1>1. /\ n \in Nat /\ m \in 1..n /\ DOMAIN b = 1..n /\ b[m] \notin Space
      /\ \A j \in 1..n : j <= m => b[j] # UNSET
      /\ \A j \in 1..n : j > m => b[j] = UNSET
  BY Marks DEF Filled
<1>2. \A j : j \in S <=> /\ j \in 1..n /\ j >= i /\ b[j] \in Space
                         /\ \A k \in i..(j - 1) : b[k] \notin Space \cup {UNSET}
  BY <1>1 DEF Past
<1> HIDE DEF S
<1>3. \A j \in S : j \in i..(m - 1) /\ b[j] \in Space
  <2> TAKE j \in S
  <2>1. j \in 1..n /\ j >= i /\ b[j] \in Space
    BY <1>2
  <2>2. ~(j > m)
    BY <1>1, <2>1, Marks
  <2>3. j # m
    BY <1>1, <2>1
  <2> QED BY <1>1, <2>1, <2>2, <2>3
<1>4. S # {} => p \in S /\ \A j \in S : p <= j
  <2>1. S \in SUBSET Nat
    BY <1>1, <1>2
  <2> QED BY <2>1, ConfigLeast
<1> HIDE DEF p
<1>5. ASSUME NEW q \in i..m, b[q] \in Space, \A k \in i..(q - 1) : b[k] \notin Space
      PROVE  S # {} /\ p = q
  <2>1. q \in 1..n /\ \A k \in i..(q - 1) : k \in 1..n /\ k <= m
    BY <1>1, <1>5
  <2>2. \A k \in i..(q - 1) : b[k] # UNSET
    BY <1>1, <2>1
  <2>3. q \in S
    BY <1>2, <1>5, <2>1, <2>2
  <2>4. p \in i..(m - 1) /\ b[p] \in Space /\ p <= q
    BY <1>3, <1>4, <2>3
  <2>5. ~(p < q)
    <3>1. p < q => p \in i..(q - 1)
      BY <1>5, <2>4
    <3> QED BY <1>5, <2>4, <3>1
  <2> QED BY <1>5, <2>3, <2>4, <2>5
<1> QED BY <1>3, <1>4, <1>5 DEF S, p

LEMMA TextPlace ==
    ASSUME NEW b, NEW n, NEW m, Filled(b, n, m), NEW i \in 1..m
    PROVE  /\ Text(b, i) \in Seq(Chars)
           /\ i + Len(Text(b, i)) <= m
           /\ \A z \in i..m : b[z] = NUL /\ (\A k \in i..(z - 1) : b[k] # NUL)
                                 => Text(b, i) = SubSeq(b, i, z - 1)
<1> DEFINE S == {j \in DOMAIN b : j >= i /\ b[j] = NUL}
           z == Min(S)
<1>1. /\ n \in Nat /\ m \in 1..n /\ DOMAIN b = 1..n /\ b[m] = NUL
      /\ \A j \in 1..m : b[j] \in Chars \cup {NUL}
  BY Marks DEF Filled
<1>2. \A j : j \in S <=> j \in 1..n /\ j >= i /\ b[j] = NUL
  BY <1>1
<1>3. Text(b, i) = SubSeq(b, i, z - 1)
  BY DEF Text
<1> HIDE DEF S
<1>4. z \in S /\ \A j \in S : z <= j
  <2>1. m \in S /\ S \in SUBSET Nat
    BY <1>1, <1>2
  <2> QED BY <2>1, ConfigLeast
<1> HIDE DEF z
<1>5. z \in i..m /\ b[z] = NUL
  <2>1. m \in S
    BY <1>1, <1>2
  <2> QED BY <1>1, <1>2, <1>4, <2>1
<1>6. \A k \in i..(z - 1) : b[k] \in Chars
  <2> TAKE k \in i..(z - 1)
  <2>1. k \in 1..m /\ k \in 1..n /\ k >= i /\ ~(z <= k)
    BY <1>1, <1>5
  <2>2. b[k] # NUL
    BY <1>2, <1>4, <2>1
  <2> QED BY <1>1, <2>1, <2>2
<1>7. SubSeq(b, i, z - 1) \in Seq(Chars) /\ Len(SubSeq(b, i, z - 1)) = z - i
  <2> DEFINE e == z - 1
  <2>1. i \in Int /\ e \in Int /\ e - i + 1 = z - i /\ (i <= e \/ z - i = 0)
    BY <1>5
  <2>2. \A k \in i..e : b[k] \in Chars
    BY <1>6
  <2> HIDE DEF e
  <2>3. SubSeq(b, i, e) \in Seq(Chars) /\ Len(SubSeq(b, i, e)) = IF i <= e THEN e - i + 1 ELSE 0
    BY <2>1, <2>2, SubSeqProperties
  <2>4. Len(SubSeq(b, i, e)) = z - i
    BY <2>1, <2>3, <1>5
  <2> QED BY <2>3, <2>4 DEF e
<1>8. ASSUME NEW y \in i..m, b[y] = NUL, \A k \in i..(y - 1) : b[k] # NUL
      PROVE  y = z
  <2>1. y \in S
    BY <1>1, <1>2, <1>8
  <2>2. z <= y /\ (z < y => z \in i..(y - 1))
    BY <1>4, <1>5, <1>8, <2>1
  <2> QED BY <1>5, <1>8, <2>2
<1> QED BY <1>3, <1>5, <1>7, <1>8

LEMMA CutFilled ==
    ASSUME NEW b, NEW n, NEW m, Filled(b, n, m), NEW p \in 1..m
    PROVE  Filled([b EXCEPT ![p] = NUL], n, m)
<1> DEFINE c == [b EXCEPT ![p] = NUL]
<1>1. n \in Nat /\ m \in 1..n /\ DOMAIN b = 1..n /\ b[m] = NUL
  BY DEF Filled
<1>2. DOMAIN c = 1..n /\ \A j \in 1..n : c[j] = IF j = p THEN NUL ELSE b[j]
  BY <1>1
<1>3. \A j \in 1..n : IF j <= m THEN b[j] \in Chars \cup {NUL} ELSE b[j] = UNSET
  BY DEF Filled
<1> HIDE DEF c
<1>4. \A j \in 1..n : IF j <= m THEN c[j] \in Chars \cup {NUL} ELSE c[j] = UNSET
  BY <1>1, <1>2, <1>3
<1> QED BY <1>1, <1>2, <1>4 DEF Filled

AppLong ==
    /\ App \in Seq(STRING) /\ Len(App) \in Nat /\ Len(App) >= 1
    /\ \A k \in 1..Len(App) : App[k] \notin Space \cup {NUL, UNSET}
    /\ App[1] # "#"

LEMMA AppIsLong == PoptConfigAssumption => AppLong
<1> SUFFICES ASSUME PoptConfigAssumption PROVE AppLong
  OBVIOUS
<1> DEFINE C == STRING \ (Space \cup {NUL, UNSET})
<1>1. App \in Seq(C) \ {<< >>} /\ App[1] # "#"
  BY DEF PoptConfigAssumption
<1>2. C \in SUBSET STRING /\ \A c \in C : c \notin Space \cup {NUL, UNSET}
  OBVIOUS
<1> HIDE DEF C
<1>3. App \in Seq(C) /\ Len(App) \in Nat /\ \A k \in 1..Len(App) : App[k] \in C
  BY <1>1, LenProperties, ElementOfSeq
<1>4. Len(App) # 0
  BY <1>1, <1>3, EmptySeq
<1>5. App \in Seq(STRING)
  <2>1. \A S, T : S \subseteq T => Seq(S) \subseteq Seq(T)
    OBVIOUS
  <2>2. C \subseteq STRING
    BY <1>2
  <2> QED BY <1>3, <2>1, <2>2
<1>6. \A k \in 1..Len(App) : App[k] \notin Space \cup {NUL, UNSET}
  BY <1>2, <1>3
<1>7. Len(App) \in Nat /\ Len(App) >= 1
  BY <1>3, <1>4
<1> QED BY <1>1, <1>5, <1>6, <1>7 DEF AppLong

\* What an alias or an exec is.
IsEntry(e) == e.kind \in {"alias", "exec"} /\ (e.kind = "alias" => e.argv \in Seq(Word))

LEMMA AddedTyped ==
    ASSUME NEW b, NEW n, NEW m, Filled(b, n, m), NEW type, NEW opt, NEW tail \in 1..m
    PROVE  \/ Added(b, type, opt, tail) = << >>
           \/ \E e : Added(b, type, opt, tail) = <<e>> /\ IsEntry(e)
<1> DEFINE kind == Text(b, type)
           expansion == Text(b, tail)
           entry(argv) == [kind |-> kind[1], key |-> Key(Text(b, opt)), text |-> expansion, argv |-> argv]
           added == Added(b, type, opt, tail)
<1>1. expansion \in Seq(Letters)
  <2>1. expansion \in Seq(Chars)
    BY TextPlace
  <2>2. \A S, T : S \subseteq T => Seq(S) \subseteq Seq(T)
    OBVIOUS
  <2> HIDE DEF expansion
  <2> QED BY <2>1, <2>2, Marks
<1>2. CASE kind = <<"alias">>
  <2>1. added = << >> \/ added = <<entry(ParseArgvString(expansion).argv)>>
    BY <1>2 DEF Added
  <2>2. ParseArgvString(expansion).argv \in Seq(Word)
    <3> HIDE DEF expansion
    <3> QED BY <1>1, ParsedTyped
  <2>3. IsEntry(entry(ParseArgvString(expansion).argv))
    BY <1>2, <2>2 DEF IsEntry
  <2> QED BY <2>1, <2>3
<1>3. CASE kind = <<"exec">>
  <2>1. added = <<entry(<<expansion>>)>>
    BY <1>3 DEF Added
  <2>2. IsEntry(entry(<<expansion>>))
    BY <1>3 DEF IsEntry
  <2> QED BY <2>1, <2>2
<1>4. CASE kind \notin {<<"alias">>, <<"exec">>}
  <2>1. added = << >>
    BY <1>4 DEF Added
  <2> QED BY <2>1
<1> QED BY <1>2, <1>3, <1>4

\* A line that is looked at is cut behind its start.
LEMMA LineKeeps ==
    ASSUME AppLong, NEW b, NEW n, NEW m, Filled(b, n, m), NEW line \in 1..m
    PROVE  LET found == ConfigLine(b, line)
           IN  /\ Filled(found.buf, n, m)
               /\ \A j \in 1..line : found.buf[j] = b[j]
               /\ found.added = << >> \/ \E e : found.added = <<e>> /\ IsEntry(e)
               /\ found.wild \in BOOLEAN
<1> DEFINE h    == line + Len(App)
           type == Skip(b, h)
           p1   == Min(Past(b, type))
           b1   == [b EXCEPT ![p1] = NUL]
           opt  == Skip(b1, p1 + 1)
           p2   == Min(Past(b1, opt))
           b2   == [b1 EXCEPT ![p2] = NUL]
           tail == Skip(b2, p2 + 1)
           found == ConfigLine(b, line)
           Good(r) == /\ Filled(r.buf, n, m)
                      /\ \A j \in 1..line : r.buf[j] = b[j]
                      /\ r.added = << >> \/ \E e : r.added = <<e>> /\ IsEntry(e)
                      /\ r.wild \in BOOLEAN
<1>0. \A c, a, w : /\ Result(c, a, w).buf = c
                   /\ Result(c, a, w).added = a
                   /\ Result(c, a, w).wild = w
  BY DEF Result
<1>1. found = IF ~IsPrefix(App, Text(b, line)) \/ b[h] \notin Space
              THEN Result(b, << >>, FALSE)
              ELSE IF Past(b, type) = {} THEN Result(b, << >>, TRUE)
              ELSE IF b1[opt] = NUL THEN Result(b1, << >>, FALSE)
              ELSE IF Past(b1, opt) = {} THEN Result(b1, << >>, TRUE)
              ELSE IF b2[tail] = NUL THEN Result(b2, << >>, FALSE)
              ELSE Result(b2, Added(b2, type, opt, tail), FALSE)
  BY DEF ConfigLine
<1>2. n \in Nat /\ m \in 1..n /\ DOMAIN b = 1..n
  BY DEF Filled
<1> HIDE DEF found, type, opt, tail, p1, p2, b1, b2
<1>3. \A w \in BOOLEAN : Good(Result(b, << >>, w))
  <2> TAKE w \in BOOLEAN
  <2> DEFINE r == Result(b, << >>, w)
  <2> HIDE DEF r
  <2>1. r.buf = b /\ r.added = << >> /\ r.wild = w
    BY <1>0 DEF r
  <2>2. Good(r)
    BY <2>1
  <2> QED BY <2>2 DEF r
<1>4. CASE ~IsPrefix(App, Text(b, line)) \/ b[h] \notin Space
  <2>1. found = Result(b, << >>, FALSE)
    BY <1>1, <1>4, Zenon
  <2> QED BY <1>3, <2>1 DEF found
<1>5. CASE IsPrefix(App, Text(b, line)) /\ b[h] \in Space
  <2>1. h \in (line + 1)..m
    <3>1. Text(b, line) \in Seq(Chars) /\ line + Len(Text(b, line)) <= m
      BY TextPlace
    <3> DEFINE t == Text(b, line)
    <3>2. Len(App) <= Len(t) \/ Len(App) = 0
      BY <1>5 DEF IsPrefix
    <3>3. Len(t) \in Nat
      BY <3>1, LenProperties
    <3> HIDE DEF t
    <3> QED BY <1>2, <3>1, <3>2, <3>3 DEF AppLong, t
  <2>2. type \in h..m
    BY <1>2, <2>1, SkipTo DEF type
  <2>3. CASE Past(b, type) = {}
    <3>1. found = Result(b, << >>, TRUE)
      BY <1>1, <1>5, <2>3, Zenon
    <3> QED BY <1>3, <3>1 DEF found
  <2>4. CASE Past(b, type) # {}
    <3>1. p1 \in type..(m - 1) /\ p1 \in (line + 1)..(m - 1)
      <4>1. type \in 1..m
        BY <1>2, <2>1, <2>2
      <4>2. p1 \in type..(m - 1)
        BY <2>4, <4>1, PastPlace DEF p1
      <4> QED BY <1>2, <2>1, <2>2, <4>2
    <3>2. Filled(b1, n, m) /\ \A j \in 1..line : b1[j] = b[j]
      <4>1. p1 \in 1..m
        BY <1>2, <3>1
      <4>2. Filled(b1, n, m)
        BY <4>1, CutFilled DEF b1
      <4>3. \A j \in 1..line : j \in 1..n /\ j # p1
        BY <1>2, <3>1
      <4> QED BY <1>2, <4>2, <4>3 DEF b1
    <3>3. opt \in (p1 + 1)..m /\ opt \in 1..m
      <4>1. p1 + 1 \in 1..m
        BY <1>2, <3>1
      <4>2. opt \in (p1 + 1)..m
        BY <3>2, <4>1, SkipTo DEF opt
      <4> QED BY <4>1, <4>2
    <3>4. \A w \in BOOLEAN : Good(Result(b1, << >>, w))
      <4> TAKE w \in BOOLEAN
      <4> DEFINE r == Result(b1, << >>, w)
      <4> HIDE DEF r
      <4>1. r.buf = b1 /\ r.added = << >> /\ r.wild = w
        BY <1>0 DEF r
      <4>2. Good(r)
        BY <3>2, <4>1
      <4> QED BY <4>2 DEF r
    <3>5. CASE b1[opt] = NUL
      <4>1. found = Result(b1, << >>, FALSE)
        BY <1>1, <1>5, <2>4, <3>5, Zenon
      <4> QED BY <3>4, <4>1 DEF found
    <3>6. CASE b1[opt] # NUL /\ Past(b1, opt) = {}
      <4>1. found = Result(b1, << >>, TRUE)
        BY <1>1, <1>5, <2>4, <3>6, Zenon
      <4> QED BY <3>4, <4>1 DEF found
    <3>7. CASE b1[opt] # NUL /\ Past(b1, opt) # {}
      <4>1. p2 \in opt..(m - 1)
        BY <3>2, <3>3, <3>7, PastPlace DEF p2
      <4>2. Filled(b2, n, m) /\ \A j \in 1..line : b2[j] = b[j]
        <5>1. p2 \in 1..m
          BY <1>2, <3>3, <4>1
        <5>2. Filled(b2, n, m)
          BY <3>2, <5>1, CutFilled DEF b2
        <5>3. \A j \in 1..line : j \in 1..n /\ j # p2
          BY <1>2, <3>1, <3>3, <4>1
        <5>4. DOMAIN b1 = 1..n
          BY <3>2 DEF Filled
        <5> QED BY <3>2, <5>2, <5>3, <5>4 DEF b2
      <4>3. tail \in 1..m
        <5>1. p2 + 1 \in 1..m
          BY <1>2, <3>3, <4>1
        <5>2. tail \in (p2 + 1)..m
          BY <4>2, <5>1, SkipTo DEF tail
        <5> QED BY <5>1, <5>2
      <4>4. PICK a : /\ found = Result(b2, a, FALSE)
                     /\ a = << >> \/ \E e : a = <<e>> /\ IsEntry(e)
        <5>1. CASE b2[tail] = NUL
          <6>1. found = Result(b2, << >>, FALSE)
            BY <1>1, <1>5, <2>4, <3>7, <5>1, Zenon
          <6> QED BY <6>1
        <5>2. CASE b2[tail] # NUL
          <6>1. found = Result(b2, Added(b2, type, opt, tail), FALSE)
            BY <1>1, <1>5, <2>4, <3>7, <5>2, Zenon
          <6> DEFINE a == Added(b2, type, opt, tail)
          <6>2. a = << >> \/ \E e : a = <<e>> /\ IsEntry(e)
            BY <4>2, <4>3, AddedTyped
          <6> HIDE DEF a
          <6>3. found = Result(b2, a, FALSE)
            BY <6>1 DEF a
          <6> QED BY <6>2, <6>3
        <5> QED BY <5>1, <5>2
      <4>5. found.buf = b2 /\ found.added = a /\ found.wild = FALSE
        <5> DEFINE r == Result(b2, a, FALSE)
        <5>1. r.buf = b2 /\ r.added = a /\ r.wild = FALSE
          BY DEF Result
        <5> HIDE DEF r
        <5>2. found = r
          BY <4>4 DEF r
        <5> QED BY <5>1, <5>2
      <4>6. Good(found)
        BY <4>2, <4>4, <4>5
      <4> QED BY <4>6 DEF found
    <3> QED BY <3>5, <3>6, <3>7
  <2> QED BY <2>3, <2>4
<1> QED BY <1>4, <1>5

-----------------------------------------------------------------------------
(* Reading a configuration file *)

\* Of the buffer the first m were written by the lines before this one, where
\* a string ends, and this line has come to dst.
Held(m) ==
    /\ \A j \in 1..(Len(file) + 1) : IF j < dst \/ j <= m THEN buf[j] \in Chars \cup {NUL}
                                     ELSE buf[j] = UNSET
    /\ m >= dst => buf[m] = NUL

\* While the file is read, the place where the next character goes is not
\* behind the place where it comes from.
IInv ==
    /\ AppLong
    /\ file \in Files /\ file \in Seq(Chars)
    /\ chptr \in 1..(Len(file) + 1)
    /\ DOMAIN buf = 1..(Len(file) + 1)
    /\ dst \in 1..chptr
    /\ \E m \in 0..(Len(file) + 1) : Held(m)
    /\ \E S : entries \in Seq(S) /\ \A e \in S : IsEntry(e)
    /\ status \in {"reading", "done", "wild"}

LEMMA FileTyped ==
    file \in Seq(Chars) => /\ Len(file) \in Nat /\ DOMAIN file = 1..Len(file)
                           /\ \A i \in 1..Len(file) : file[i] \in Chars
BY ElementOfSeq, LenProperties

LEMMA ConfigInit == PoptConfigAssumption /\ Init => IInv
<1> SUFFICES ASSUME PoptConfigAssumption, Init PROVE IInv
  OBVIOUS
<1>0. AppLong /\ file \in Seq(Chars)
  BY AppIsLong DEF Init, PoptConfigAssumption, Chars
<1>1. Len(file) \in Nat
  BY <1>0, FileTyped
<1>2. entries \in Seq({}) /\ \A e \in {} : IsEntry(e)
  BY EmptySeq DEF Init
<1>3. Held(0) /\ 0 \in 0..(Len(file) + 1)
  BY <1>1 DEF Held, Init
<1>4. /\ file \in Files /\ chptr = 1 /\ DOMAIN buf = 1..(Len(file) + 1) /\ dst = 1
      /\ status = "reading"
  BY DEF Init
<1>5. \E S : entries \in Seq(S) /\ \A e \in S : IsEntry(e)
  BY <1>2
<1> QED BY <1>0, <1>1, <1>3, <1>4, <1>5 DEF IInv

\* When a line is complete, the buffer holds a string.
LEMMA LineComplete ==
    ASSUME IInv, chptr <= Len(file)
    PROVE  LET b == [buf EXCEPT ![dst] = NUL]
           IN  /\ \E m \in dst..(Len(file) + 1) : Filled(b, Len(file) + 1, m)
               /\ Skip(b, 1) \in 1..dst
<1> DEFINE b == [buf EXCEPT ![dst] = NUL]
           n == Len(file) + 1
<1>1. Len(file) \in Nat /\ n \in Nat /\ dst \in 1..n /\ DOMAIN buf = 1..n
  BY FileTyped DEF IInv
<1>2. PICK m \in 0..n : Held(m)
  BY DEF IInv
<1>3. \A j \in 1..n : b[j] = IF j = dst THEN NUL ELSE buf[j]
  BY <1>1
<1>4. DOMAIN b = 1..n
  BY <1>1
<1>5. \A j \in 1..n : IF j < dst \/ j <= m THEN buf[j] \in Chars \cup {NUL} ELSE buf[j] = UNSET
  BY <1>2 DEF Held
<1>6. m >= dst => buf[m] = NUL
  BY <1>2 DEF Held
<1> DEFINE h == IF m >= dst THEN m ELSE dst
<1> HIDE DEF b, n
<1>7. h \in dst..n /\ h >= dst /\ h >= m /\ h \in 1..n
  BY <1>1, <1>2
<1>8. b[h] = NUL
  BY <1>1, <1>2, <1>3, <1>6
<1>9. \A j \in 1..n : IF j <= h THEN b[j] \in Chars \cup {NUL} ELSE b[j] = UNSET
  BY <1>1, <1>2, <1>3, <1>5
<1> HIDE DEF h
<1>10. Filled(b, n, h)
  BY <1>1, <1>4, <1>7, <1>8, <1>9 DEF Filled
<1>11. Skip(b, 1) \in 1..dst
  <2> DEFINE p == Skip(b, 1)
  <2>1. p \in 1..h /\ \A k \in 1..(p - 1) : b[k] \in Space
    <3>1. 1 \in 1..h
      BY <1>1, <1>7
    <3> QED BY <1>10, <3>1, SkipTo
  <2> HIDE DEF p
  <2>2. b[dst] \notin Space
    BY <1>1, <1>3, Marks
  <2>3. ~(dst \in 1..(p - 1))
    BY <2>1, <2>2
  <2> QED BY <1>1, <1>7, <2>1, <2>3 DEF p
<1> QED BY <1>7, <1>10, <1>11 DEF b, n

\* What a line adds is looked at after the comment and the empty line.
Found(b, line) ==
    IF b[line] \in {NUL, "#"} THEN Result(b, << >>, FALSE) ELSE ConfigLine(b, line)

LEMMA FoundKeeps ==
    ASSUME AppLong, NEW b, NEW n, NEW m, Filled(b, n, m), NEW line \in 1..m
    PROVE  LET found == Found(b, line)
           IN  /\ Filled(found.buf, n, m)
               /\ \A j \in 1..line : found.buf[j] = b[j]
               /\ found.added = << >> \/ \E e : found.added = <<e>> /\ IsEntry(e)
               /\ found.wild \in BOOLEAN
<1>1. CASE b[line] \in {NUL, "#"}
  <2> DEFINE r == Result(b, << >>, FALSE)
  <2>1. r.buf = b /\ r.added = << >> /\ r.wild = FALSE
    BY DEF Result
  <2> HIDE DEF r
  <2>2. Found(b, line) = r
    BY <1>1 DEF Found, r
  <2> QED BY <2>1, <2>2
<1>2. CASE b[line] \notin {NUL, "#"}
  <2>1. Found(b, line) = ConfigLine(b, line)
    BY <1>2 DEF Found
  <2> QED BY <2>1, LineKeeps
<1> QED BY <1>1, <1>2

\* The end of a line.
LEMMA NewlineStep ==
    ASSUME IInv, Newline
    PROVE  LET b    == [buf EXCEPT ![dst] = NUL]
               line == Skip(b, 1)
           IN  /\ buf' = Found(b, line).buf /\ dst' = line /\ entries' = entries \o Found(b, line).added
               /\ status' = (IF Found(b, line).wild THEN "wild" ELSE status)
               /\ chptr' = chptr + 1 /\ UNCHANGED file /\ chptr <= Len(file) /\ file[chptr] = "\n"
               /\ status = "reading"
<1> DEFINE b     == [buf EXCEPT ![dst] = NUL]
           line  == Skip(b, 1)
<1>1. Found(b, line) = IF b[line] \in {NUL, "#"} THEN Result(b, << >>, FALSE)
                       ELSE ConfigLine(b, line)
  BY DEF Found
<1> QED BY <1>1 DEF Newline, Reading

\* The other turns put what they take.
LEMMA PutStep ==
    ASSUME IInv, Backslash \/ Other
    PROVE  /\ chptr <= Len(file) /\ file[chptr] # "\n" /\ status = "reading"
           /\ \/ Put(<<file[chptr]>>, 1) /\ (file[chptr] = "\\" => chptr = Len(file))
              \/ /\ file[chptr] = "\\" /\ chptr < Len(file)
                 /\ file[chptr + 1] = "\n"
                 /\ Put(<< >>, 2)
              \/ /\ file[chptr] = "\\" /\ chptr < Len(file)
                 /\ file[chptr + 1] # "\n"
                 /\ Put(<<file[chptr], file[chptr + 1]>>, 2)
<1>1. Len(file) \in Nat /\ chptr \in Nat
  BY FileTyped DEF IInv
<1>2. CASE Backslash
  <2>1. chptr <= Len(file) /\ file[chptr] = "\\" /\ status = "reading"
    BY <1>2 DEF Backslash, Reading
  <2>2. CASE chptr = Len(file)
    <3>1. Put(<<"\\">>, 1)
      BY <1>2, <2>2 DEF Backslash
    <3> QED BY <2>1, <2>2, <3>1
  <2>3. CASE chptr # Len(file) /\ file[chptr + 1] = "\n"
    <3>1. Put(<< >>, 2)
      BY <1>2, <2>3 DEF Backslash
    <3> QED BY <1>1, <2>1, <2>3, <3>1
  <2>4. CASE chptr # Len(file) /\ file[chptr + 1] # "\n"
    <3>1. Put(<<"\\", file[chptr + 1]>>, 2)
      BY <1>2, <2>4 DEF Backslash
    <3> QED BY <1>1, <2>1, <2>4, <3>1
  <2> QED BY <2>2, <2>3, <2>4
<1>3. CASE Other
  <2>1. PICK c \in Range(file) \ {"\n", "\\"} : Reading(c) /\ Put(<<c>>, 1)
    BY <1>3 DEF Other
  <2>2. chptr <= Len(file) /\ file[chptr] = c /\ status = "reading"
    BY <2>1 DEF Reading
  <2> QED BY <2>1, <2>2
<1> QED BY <1>2, <1>3

LEMMA ConfigStep == IInv /\ [Next]_vars => IInv'
<1> SUFFICES ASSUME IInv, [Next]_vars PROVE IInv'
  OBVIOUS
<1> DEFINE n == Len(file) + 1
<1>1. n \in Nat /\ Len(file) \in Nat /\ n = Len(file) + 1 /\ \A i \in 1..Len(file) : file[i] \in Chars
  BY FileTyped DEF IInv
<1>2. chptr \in 1..n /\ dst \in 1..chptr /\ DOMAIN buf = 1..n
  BY DEF IInv
<1>3. ASSUME NEW cs, NEW consumed \in {1, 2}, Put(cs, consumed),
             NEW k \in 0..consumed, Len(cs) = k, \A i \in 1..k : cs[i] \in Chars,
             chptr + consumed <= n
      PROVE  IInv'
  <2>1. chptr' = chptr + consumed /\ dst' = dst + k /\ UNCHANGED <<file, entries, status>>
    BY <1>3 DEF Put
  <2>2. DOMAIN buf' = 1..n /\ \A j \in 1..n : buf'[j] = IF j \in dst..(dst + k - 1) THEN cs[j - dst + 1] ELSE buf[j]
    BY <1>2, <1>3 DEF Put
  <2>3. dst' \in 1..chptr' /\ chptr' \in 1..(Len(file') + 1)
    BY <1>1, <1>2, <1>3, <2>1
  <2>4. \E m \in 0..(Len(file') + 1) : Held(m)'
    <3>1. PICK m \in 0..n : Held(m)
      BY DEF IInv
    <3>2. \A j \in 1..n : IF j < dst \/ j <= m THEN buf[j] \in Chars \cup {NUL} ELSE buf[j] = UNSET
      BY <3>1 DEF Held
    <3>3. m >= dst => buf[m] = NUL
      BY <3>1 DEF Held
    <3> HIDE DEF n
    <3>4. \A j \in 1..n : IF j < dst' \/ j <= m THEN buf'[j] \in Chars \cup {NUL} ELSE buf'[j] = UNSET
      <4> TAKE j \in 1..n
      <4>1. CASE j \in dst..(dst + k - 1)
        <5>1. j - dst + 1 \in 1..k /\ buf'[j] = cs[j - dst + 1] /\ j < dst'
          BY <1>1, <1>2, <1>3, <2>1, <2>2, <4>1
        <5> QED BY <1>3, <5>1
      <4>2. CASE j \notin dst..(dst + k - 1)
        <5>1. buf'[j] = buf[j] /\ (j < dst' <=> j < dst)
          BY <1>1, <1>2, <1>3, <2>1, <2>2, <4>2
        <5> QED BY <3>2, <5>1
      <4> QED BY <4>1, <4>2
    <3>5. m >= dst' => buf'[m] = NUL
      BY <1>1, <1>2, <1>3, <2>1, <2>2, <3>1, <3>3
    <3>6. Len(file') + 1 = n
      BY <1>1, <2>1
    <3> QED BY <3>4, <3>5, <3>6 DEF Held
  <2> QED BY <1>1, <2>1, <2>2, <2>3, <2>4 DEF IInv
<1>4. CASE Newline
  <2> DEFINE b     == [buf EXCEPT ![dst] = NUL]
             line  == Skip(b, 1)
             found == Found(b, line)
  <2>1. /\ buf' = found.buf /\ dst' = line /\ entries' = entries \o found.added
        /\ status' = (IF found.wild THEN "wild" ELSE status)
        /\ chptr' = chptr + 1 /\ UNCHANGED file /\ chptr <= Len(file)
    BY <1>4, NewlineStep
  <2>2. /\ \E m \in dst..(Len(file) + 1) : Filled(b, Len(file) + 1, m)
        /\ line \in 1..dst
    BY <2>1, LineComplete
  <2> HIDE DEF b, line
  <2>3. PICK m \in dst..n : Filled(b, n, m)
    BY <2>2
  <2>4. line \in 1..m /\ line <= m
    BY <1>2, <2>2, <2>3
  <2>5. /\ Filled(found.buf, n, m)
        /\ found.added = << >> \/ \E e : found.added = <<e>> /\ IsEntry(e)
    BY <2>3, <2>4, FoundKeeps DEF IInv
  <2> HIDE DEF found
  <2>6. \E S : entries' \in Seq(S) /\ \A e \in S : IsEntry(e)
    <3>1. PICK S : entries \in Seq(S) /\ \A e \in S : IsEntry(e)
      BY DEF IInv
    <3>2. CASE found.added = << >>
      BY <2>1, <3>1, <3>2, ConcatEmptySeq
    <3>3. CASE \E e : found.added = <<e>> /\ IsEntry(e)
      <4>1. PICK e : found.added = <<e>> /\ IsEntry(e)
        BY <3>3
      <4> DEFINE T == S \cup {e}
      <4>2. entries \in Seq(T) /\ <<e>> \in Seq(T)
        BY <3>1, SeqMonotonic
      <4>3. entries' \in Seq(T)
        BY <2>1, <4>1, <4>2, ConcatProperties
      <4>4. \A x \in T : IsEntry(x)
        BY <3>1, <4>1
      <4> QED BY <4>3, <4>4
    <3> QED BY <2>5, <3>2, <3>3
  <2>7. dst' \in 1..chptr' /\ chptr' \in 1..(Len(file') + 1)
    BY <1>1, <1>2, <2>1, <2>2
  <2>8. status' \in {"reading", "done", "wild"}
    BY <2>1 DEF IInv
  <2>9. DOMAIN buf' = 1..(Len(file') + 1) /\ \E h \in 0..(Len(file') + 1) : Held(h)'
    <3>1. /\ n \in Nat /\ m \in 1..n /\ DOMAIN buf' = 1..n /\ buf'[m] = NUL
          /\ \A j \in 1..n : IF j <= m THEN buf'[j] \in Chars \cup {NUL} ELSE buf'[j] = UNSET
      BY <2>1, <2>5 DEF Filled
    <3>2. Len(file') + 1 = n
      BY <2>1
    <3> HIDE DEF n
    <3>3. \A j \in 1..n : IF j < dst' \/ j <= m THEN buf'[j] \in Chars \cup {NUL} ELSE buf'[j] = UNSET
      BY <2>1, <2>4, <3>1
    <3>4. Held(m)'
      BY <3>1, <3>2, <3>3 DEF Held
    <3>5. m \in 0..n
      BY <3>1
    <3> QED BY <3>1, <3>2, <3>4, <3>5
  <2> QED BY <2>1, <2>6, <2>7, <2>8, <2>9 DEF IInv
<1>5. CASE Backslash \/ Other
  <2>1. chptr <= Len(file) /\ file[chptr] \in Chars
    BY <1>1, <1>2, <1>5, PutStep
  <2>2. CASE Put(<<file[chptr]>>, 1)
    BY <1>1, <1>2, <1>3, <2>1, <2>2
  <2>3. CASE chptr < Len(file) /\ Put(<< >>, 2)
    <3>1. chptr + 2 <= n /\ Len(<< >>) = 0
      BY <1>1, <1>2, <2>3
    <3> QED BY <1>3, <2>3, <3>1
  <2>4. CASE chptr < Len(file) /\ Put(<<file[chptr], file[chptr + 1]>>, 2)
    <3> DEFINE cs == <<file[chptr], file[chptr + 1]>>
    <3>1. chptr + 2 <= n /\ Len(cs) = 2 /\ file[chptr + 1] \in Chars
      BY <1>1, <1>2, <2>4
    <3>2. \A i \in 1..2 : cs[i] \in Chars
      BY <2>1, <3>1
    <3>3. Put(cs, 2)
      BY <2>4
    <3> HIDE DEF cs
    <3> QED BY <1>3, <3>1, <3>2, <3>3
  <2> QED BY <1>5, <2>2, <2>3, <2>4, PutStep
<1>6. CASE EndOfFile \/ UNCHANGED vars
  <2>1. UNCHANGED <<file, chptr, buf, dst, entries>> /\ status' \in {"reading", "done", "wild"}
    BY <1>6 DEF EndOfFile, vars, IInv
  <2>2. \E m \in 0..(Len(file') + 1) : Held(m)'
    BY <2>1 DEF Held, IInv
  <2> QED BY <2>1, <2>2 DEF IInv
<1> QED BY <1>4, <1>5, <1>6 DEF Next

LEMMA ConfigMeans == IInv => TypeOK /\ WordsKept
<1> SUFFICES ASSUME IInv PROVE TypeOK /\ WordsKept
  OBVIOUS
<1>1. Len(file) \in Nat
  BY FileTyped DEF IInv
<1>2. PICK S : entries \in Seq(S) /\ \A e \in S : IsEntry(e)
  BY DEF IInv
<1>3. \A i \in DOMAIN entries : IsEntry(entries[i])
  BY <1>2, ElementOfSeq, LenProperties
<1>4. dst \in DOMAIN buf
  BY <1>1 DEF IInv
<1>5. TypeOK
  BY <1>3, <1>4 DEF IInv, TypeOK, IsEntry
<1>6. WordsKept
  BY <1>3, WordsSurvive DEF ArgvsTyped, IsEntry
<1> QED BY <1>5, <1>6

-----------------------------------------------------------------------------
(* The fields of a line *)

FieldStarts(t) == {k \in DOMAIN t : t[k] \notin Space /\ (k = 1 \/ t[k - 1] \in Space)}
FieldEnd(t, i) == Min({j \in i..Len(t) : t[j] \in Space} \cup {Len(t) + 1})
Field(t, k)    == SubSeq(t, Nth(FieldStarts(t), k), FieldEnd(t, Nth(FieldStarts(t), k)) - 1)

LEMMA FieldPlaces ==
    ASSUME NEW t \in Seq(Chars)
    PROVE  /\ Len(t) \in Nat /\ FieldStarts(t) \in SUBSET (1..Len(t))
           /\ Cardinality(FieldStarts(t)) \in Nat
           /\ \A k \in 1..Len(t) : /\ t[k] \in Chars
                                   /\ k \in FieldStarts(t) <=> t[k] \notin Space /\ (k = 1 \/ t[k - 1] \in Space)
<1>1. Len(t) \in Nat /\ DOMAIN t = 1..Len(t) /\ \A k \in 1..Len(t) : t[k] \in Chars
  BY LenProperties, ElementOfSeq
<1>2. FieldStarts(t) \in SUBSET (1..Len(t))
  BY <1>1 DEF FieldStarts
<1>3. Cardinality(FieldStarts(t)) \in Nat
  BY <1>1, <1>2, Counted
<1>4. \A k \in 1..Len(t) : k \in FieldStarts(t) <=> t[k] \notin Space /\ (k = 1 \/ t[k - 1] \in Space)
  BY <1>1 DEF FieldStarts
<1> QED BY <1>1, <1>2, <1>3, <1>4

LEMMA FieldEnds ==
    ASSUME NEW t \in Seq(Chars), NEW i \in 1..Len(t)
    PROVE  /\ FieldEnd(t, i) \in i..(Len(t) + 1)
           /\ \A j \in i..(FieldEnd(t, i) - 1) : t[j] \notin Space
           /\ FieldEnd(t, i) <= Len(t) => t[FieldEnd(t, i)] \in Space
           /\ \A e \in i..Len(t) : t[e] \in Space /\ (\A j \in i..(e - 1) : t[j] \notin Space)
                                      => FieldEnd(t, i) = e
<1> DEFINE S == {j \in i..Len(t) : t[j] \in Space} \cup {Len(t) + 1}
           e == FieldEnd(t, i)
<1>1. Len(t) \in Nat
  BY LenProperties
<1>2. S \in SUBSET Nat /\ Len(t) + 1 \in S
  BY <1>1
<1>3. e = Min(S)
  BY DEF FieldEnd
<1>4. \A j : j \in S <=> (j \in i..Len(t) /\ t[j] \in Space) \/ j = Len(t) + 1
  OBVIOUS
<1> HIDE DEF S, e
<1>5. e \in S /\ \A j \in S : e <= j
  BY <1>2, <1>3, ConfigLeast
<1>6. e \in i..(Len(t) + 1) /\ (e <= Len(t) => t[e] \in Space)
  BY <1>1, <1>4, <1>5
<1>7. \A j \in i..(e - 1) : t[j] \notin Space
  <2> TAKE j \in i..(e - 1)
  <2>1. j \in i..Len(t) /\ ~(e <= j)
    BY <1>1, <1>6
  <2> QED BY <1>4, <1>5, <2>1
<1>8. ASSUME NEW d \in i..Len(t), t[d] \in Space, \A j \in i..(d - 1) : t[j] \notin Space
      PROVE  e = d
  <2>1. d \in S
    BY <1>4, <1>8
  <2>2. e <= d /\ e <= Len(t) /\ e \in i..(Len(t) + 1)
    BY <1>1, <1>5, <1>6, <1>8, <2>1
  <2>3. ~(e \in i..(d - 1))
    BY <1>6, <1>8, <2>2
  <2> QED BY <1>1, <1>8, <2>2, <2>3
<1> QED BY <1>6, <1>7, <1>8 DEF e

\* The first field begins behind white space.
LEMMA FirstField ==
    ASSUME NEW t \in Seq(Chars)
    PROVE  /\ FieldStarts(t) = {} => \A j \in 1..Len(t) : t[j] \in Space
           /\ Cardinality(FieldStarts(t)) > 0 <=> FieldStarts(t) # {}
           /\ FieldStarts(t) # {} =>
                 /\ Nth(FieldStarts(t), 1) \in 1..Len(t)
                 /\ t[Nth(FieldStarts(t), 1)] \notin Space
                 /\ \A j \in 1..(Nth(FieldStarts(t), 1) - 1) : t[j] \in Space
<1> DEFINE S == FieldStarts(t)
           n == Len(t)
<1>1. /\ n \in Nat /\ S \in SUBSET (1..n) /\ Cardinality(S) \in Nat
      /\ \A k \in 1..n : k \in S <=> t[k] \notin Space /\ (k = 1 \/ t[k - 1] \in Space)
  BY FieldPlaces
<1> HIDE DEF S, n
\* The first character that is no white space begins a field.
<1>2. ASSUME NEW j \in 1..n, t[j] \notin Space
      PROVE  \E k \in 1..j : k \in S
  <2> DEFINE W == {k \in 1..j : t[k] \notin Space}
  <2>1. PICK k \in W : \A i \in W : k <= i
    <3>1. W \in SUBSET Nat /\ j \in W
      BY <1>1, <1>2
    <3> HIDE DEF W
    <3> QED BY <3>1, LeastNat
  <2>2. k \in 1..j /\ k \in 1..n /\ t[k] \notin Space
    BY <1>1, <1>2
  <2>3. k # 1 => t[k - 1] \in Space
    <3>1. k # 1 => k - 1 \in 1..j /\ ~(k <= k - 1)
      BY <1>1, <2>2
    <3>2. k # 1 => k - 1 \notin W
      BY <2>1, <3>1
    <3> QED BY <3>1, <3>2
  <2> QED BY <1>1, <2>2, <2>3
<1>3. S = {} => \A j \in 1..n : t[j] \in Space
  BY <1>2
<1>4. Cardinality(S) > 0 <=> S # {}
  <2>1. IsFiniteSet(S)
    BY <1>1, Counted
  <2>2. Cardinality(S) = 0 <=> S = {}
    BY <2>1, FS_EmptySet
  <2>3. \A c \in Nat : c > 0 <=> c # 0
    OBVIOUS
  <2> QED BY <1>1, <2>2, <2>3
<1>5. ASSUME S # {}
      PROVE  /\ Nth(S, 1) \in 1..n /\ t[Nth(S, 1)] \notin Space
             /\ \A j \in 1..(Nth(S, 1) - 1) : t[j] \in Space
  <2> DEFINE p == Nth(S, 1)
  <2>1. p \in S /\ Cardinality(Below(S, p)) = 0
    <3>1. 1 \in 1..Cardinality(S)
      BY <1>1, <1>4, <1>5
    <3>2. p \in S /\ Cardinality(Below(S, p)) = 1 - 1
      BY <1>1, <3>1, NthPlace
    <3> QED BY <3>2
  <2> HIDE DEF p
  <2>2. p \in 1..n /\ t[p] \notin Space
    BY <1>1, <2>1
  <2>3. ASSUME NEW j \in 1..(p - 1), t[j] \notin Space PROVE FALSE
    <3>1. j \in 1..n
      BY <1>1, <2>2
    <3>2. PICK k \in 1..j : k \in S
      BY <1>2, <2>3, <3>1
    <3>3. k < p
      BY <1>1, <2>2, <2>3, <3>1, <3>2
    <3>4. Cardinality(Below(S, k)) < Cardinality(Below(S, p)) /\ Cardinality(Below(S, k)) \in Nat
      BY <1>1, <2>1, <3>2, <3>3, Counted, FurtherCounted
    <3> QED BY <2>1, <3>4
  <2> QED BY <2>2, <2>3 DEF p
<1> QED BY <1>3, <1>4, <1>5 DEF S, n

\* A field that is not the last one is ended, and then white space leads to
\* the next one.
LEMMA NextField ==
    ASSUME NEW t \in Seq(Chars), NEW k \in Nat \ {0}, k + 1 \in 1..Cardinality(FieldStarts(t))
    PROVE  LET s == Nth(FieldStarts(t), k)
               e == FieldEnd(t, s)
               u == Nth(FieldStarts(t), k + 1)
           IN  /\ s \in 1..Len(t) /\ u \in 1..Len(t) /\ e \in (s + 1)..(u - 1)
               /\ t[s] \notin Space /\ t[u] \notin Space /\ t[e] \in Space
               /\ \A j \in s..(e - 1) : t[j] \notin Space
               /\ \A j \in e..(u - 1) : t[j] \in Space
<1> DEFINE S == FieldStarts(t)
           n == Len(t)
           s == Nth(S, k)
           u == Nth(S, k + 1)
           e == FieldEnd(t, s)
<1>1. /\ n \in Nat /\ S \in SUBSET (1..n) /\ Cardinality(S) \in Nat
      /\ \A j \in 1..n : j \in S <=> t[j] \notin Space /\ (j = 1 \/ t[j - 1] \in Space)
  BY FieldPlaces
<1>2. k \in 1..Cardinality(S) /\ k + 1 \in 1..Cardinality(S)
  BY <1>1
<1> HIDE DEF S
<1>3. s \in S /\ Cardinality(Below(S, s)) = k - 1 /\ u \in S /\ Cardinality(Below(S, u)) = k
  <2>1. n \in Nat /\ k + 1 - 1 = k
    BY <1>1
  <2> HIDE DEF n
  <2>2. s \in S /\ Cardinality(Below(S, s)) = k - 1
    BY <1>1, <1>2, NthPlace
  <2> DEFINE h == k + 1
  <2>3. h \in 1..Cardinality(S) /\ h - 1 = k /\ u = Nth(S, h)
    BY <1>2, <2>1
  <2> HIDE DEF h, u
  <2>4. u \in S /\ Cardinality(Below(S, u)) = k
    BY <1>1, <2>3, NthPlace
  <2> QED BY <2>2, <2>4
<1> HIDE DEF s, u, n
<1>4. s \in 1..n /\ u \in 1..n /\ t[s] \notin Space /\ t[u] \notin Space
  BY <1>1, <1>3
<1>5. s < u
  <2>1. s # u
    BY <1>3
  <2>2. ~(u < s)
    <3>1. u < s => Cardinality(Below(S, u)) < Cardinality(Below(S, s))
      BY <1>1, <1>3, FurtherCounted
    <3> QED BY <1>3, <3>1
  <2> QED BY <1>4, <2>1, <2>2
<1>6. u - 1 \in s..n /\ t[u - 1] \in Space
  <2>1. u # 1 /\ u - 1 \in s..n
    BY <1>1, <1>4, <1>5
  <2> QED BY <1>1, <1>3, <1>4, <2>1
<1>7. /\ e \in s..(n + 1)
      /\ \A j \in s..(e - 1) : t[j] \notin Space
      /\ e <= n => t[e] \in Space
  BY <1>4, FieldEnds DEF n
<1> HIDE DEF e
<1>8. e \in (s + 1)..(u - 1) /\ t[e] \in Space
  <2>1. ~(u - 1 \in s..(e - 1))
    BY <1>6, <1>7
  <2>2. e <= u - 1
    BY <1>1, <1>4, <1>6, <1>7, <2>1
  <2>3. t[e] \in Space
    BY <1>1, <1>4, <1>7, <2>2
  <2>4. e # s
    BY <1>4, <2>3
  <2> QED BY <1>1, <1>4, <1>7, <2>2, <2>3, <2>4
<1>9. ASSUME NEW j \in e..(u - 1), t[j] \notin Space PROVE FALSE
  <2> DEFINE W == {i \in e..j : t[i] \notin Space}
  <2>1. PICK i \in W : \A h \in W : i <= h
    <3>1. W \in SUBSET Nat /\ j \in W
      BY <1>4, <1>8, <1>9
    <3> HIDE DEF W
    <3> QED BY <3>1, LeastNat
  <2>2. i \in e..j /\ t[i] \notin Space /\ i # e
    BY <1>8
  <2>3. i - 1 \in e..j /\ ~(i <= i - 1)
    BY <1>4, <1>8, <1>9, <2>2
  <2>4. t[i - 1] \in Space
    BY <2>1, <2>3
  <2>5. i \in 1..n /\ s < i /\ i < u
    BY <1>1, <1>4, <1>8, <1>9, <2>2
  <2>6. i \in S
    BY <1>1, <2>2, <2>4, <2>5
  <2>7. /\ Cardinality(Below(S, s)) < Cardinality(Below(S, i))
        /\ Cardinality(Below(S, i)) < Cardinality(Below(S, u))
        /\ Cardinality(Below(S, i)) \in Nat
    BY <1>1, <1>3, <2>5, <2>6, FurtherCounted, Counted
  <2> QED BY <1>3, <2>7
<1> QED BY <1>4, <1>7, <1>8, <1>9 DEF s, u, e, n, S

\* What a line says, and what it adds.
SaysOf(t) ==
    [ours     |-> /\ Cardinality(FieldStarts(t)) > 0 /\ Field(t, 1) = App
                  /\ Len(t) >= Nth(FieldStarts(t), 1) + Len(App),
     complete |-> Cardinality(FieldStarts(t)) >= 4,
     kind     |-> IF Cardinality(FieldStarts(t)) >= 4 THEN Field(t, 2) ELSE << >>,
     key      |-> IF Cardinality(FieldStarts(t)) >= 4 THEN Key(Field(t, 3)) ELSE << >>,
     text     |-> IF Cardinality(FieldStarts(t)) >= 4 THEN SubSeq(t, Nth(FieldStarts(t), 4), Len(t)) ELSE << >>]

AddedOf(t) ==
    LET said == SaysOf(t) IN
    IF ~said.ours \/ ~said.complete \/ said.kind \notin {<<"alias">>, <<"exec">>} THEN << >>
    ELSE IF said.kind = <<"alias">> /\ ParseArgvString(said.text).bad THEN << >>
    ELSE <<[kind |-> said.kind[1], key |-> said.key, text |-> said.text]>>

Stripped(q) == [i \in DOMAIN q |-> [kind |-> q[i].kind, key |-> q[i].key, text |-> q[i].text]]

\* From base on the buffer holds a text.
Stands(b, base, t, i, j) == \A k \in i..j : b[base + k - 1] = t[k]

LEMMA TextStands ==
    ASSUME NEW b, NEW n, NEW m, Filled(b, n, m), NEW t \in Seq(Chars), NEW base \in 1..m,
           NEW i \in 1..(Len(t) + 1), NEW j \in (i - 1)..Len(t), base + j <= m,
           Stands(b, base, t, i, j), b[base + j] = NUL
    PROVE  Text(b, base + i - 1) = SubSeq(t, i, j)
<1> DEFINE f == base + i - 1
           z == base + j
<1>1. /\ m \in Nat /\ base \in Nat /\ i \in Nat /\ j \in Int /\ Len(t) \in Nat
      /\ \A k \in 1..Len(t) : t[k] \in Chars
  BY LenProperties, ElementOfSeq DEF Filled
<1>2. f \in 1..m /\ z \in f..m /\ z - 1 \in Int /\ f \in Int
  BY <1>1
<1>3. \A k \in f..(z - 1) : k - base + 1 \in i..j /\ b[k] = t[k - base + 1] /\ t[k - base + 1] \in Chars
  <2> TAKE k \in f..(z - 1)
  <2>1. k - base + 1 \in i..j /\ base + (k - base + 1) - 1 = k /\ k - base + 1 \in 1..Len(t)
    BY <1>1
  <2> QED BY <1>1, <2>1 DEF Stands
<1>4. b[z] = NUL
  OBVIOUS
<1>5. z - 1 - f + 1 = j - i + 1
  BY <1>1
<1>6. \A h \in 1..(j - i + 1) : f + h - 1 \in f..(z - 1) /\ f + h - 1 - base + 1 = i + h - 1
  BY <1>1
<1> HIDE DEF f, z
<1>7. Text(b, f) = SubSeq(b, f, z - 1)
  <2>1. \A k \in f..(z - 1) : b[k] # NUL
    BY <1>3, Marks
  <2> QED BY <1>2, <1>4, <2>1, TextPlace
<1> DEFINE y == z - 1
           x == SubSeq(b, f, y)
           w == SubSeq(t, i, j)
           h == IF i <= j THEN j - i + 1 ELSE 0
<1>8. x \in Seq(Chars) /\ Len(x) = h /\ \A k \in 1..h : x[k] = b[f + k - 1]
  <2>1. \A k \in f..y : b[k] \in Chars
    BY <1>3
  <2>2. y \in Int /\ f \in Int
    BY <1>2
  <2>3. y - f + 1 = j - i + 1 /\ (f <= y <=> i <= j)
    BY <1>1, <1>2, <1>5
  <2>4. i > j => j - i + 1 = 0
    BY <1>1
  <2> HIDE DEF y
  <2>5. x \in Seq(Chars) /\ Len(x) = (IF f <= y THEN y - f + 1 ELSE 0) /\ \A k \in 1..(y - f + 1) : x[k] = b[f + k - 1]
    BY <2>1, <2>2, SubSeqProperties
  <2> QED BY <1>1, <2>3, <2>4, <2>5
<1>9. w \in Seq(Chars) /\ Len(w) = h /\ \A k \in 1..h : w[k] = t[i + k - 1]
  <2>1. \A k \in i..j : t[k] \in Chars
    BY <1>1
  <2>2. i > j => j - i + 1 = 0
    BY <1>1
  <2>3. w \in Seq(Chars) /\ Len(w) = (IF i <= j THEN j - i + 1 ELSE 0) /\ \A k \in 1..(j - i + 1) : w[k] = t[i + k - 1]
    BY <1>1, <2>1, SubSeqProperties
  <2> QED BY <1>1, <2>2, <2>3
<1>10. \A k \in 1..h : x[k] = w[k]
  <2> TAKE k \in 1..h
  <2>1. k \in 1..(j - i + 1)
    BY <1>1
  <2>2. f + k - 1 \in f..(z - 1) /\ f + k - 1 - base + 1 = i + k - 1
    BY <1>6, <2>1
  <2>3. b[f + k - 1] = t[i + k - 1]
    <3> DEFINE p == f + k - 1
               o == p - base + 1
    <3>1. p \in f..(z - 1) /\ o = i + k - 1
      BY <1>1, <1>2, <2>1, <2>2
    <3>2. b[p] = t[p - base + 1]
      <4> HIDE DEF p
      <4> QED BY <1>3, <3>1
    <3>3. b[p] = t[o]
      BY <3>2
    <3> HIDE DEF o
    <3>4. b[p] = t[i + k - 1]
      BY <3>1, <3>3
    <3> QED BY <3>4
  <2> HIDE DEF x, w, h
  <2> QED BY <1>8, <1>9, <2>3
<1> HIDE DEF x, w, h
<1>11. x = w
  BY <1>8, <1>9, <1>10, SeqEqual
<1> QED BY <1>7, <1>11 DEF x, w, y, f

LEMMA PartTyped ==
    ASSUME NEW t \in Seq(Chars), NEW i \in 1..(Len(t) + 1), NEW j \in (i - 1)..Len(t)
    PROVE  /\ SubSeq(t, i, j) \in Seq(Chars) /\ Len(SubSeq(t, i, j)) = j - i + 1
           /\ \A k \in 1..(j - i + 1) : SubSeq(t, i, j)[k] = t[i + k - 1]
<1>1. Len(t) \in Nat /\ \A k \in 1..Len(t) : t[k] \in Chars
  BY LenProperties, ElementOfSeq
<1>2. \A k \in i..j : t[k] \in Chars
  BY <1>1
<1>3. i \in Int /\ j \in Int /\ (IF i <= j THEN j - i + 1 ELSE 0) = j - i + 1
  BY <1>1
<1> QED BY <1>2, <1>3, SubSeqProperties

\* A line is one of the application exactly when its first field is its name,
\* and white space follows.
LEMMA OursMeans ==
    ASSUME AppLong, NEW t \in Seq(Chars), FieldStarts(t) # {}
    PROVE  LET s == Nth(FieldStarts(t), 1)
           IN  /\ SaysOf(t).ours <=> /\ IsPrefix(App, SubSeq(t, s, Len(t)))
                                     /\ s + Len(App) <= Len(t) /\ t[s + Len(App)] \in Space
               /\ SaysOf(t).ours => FieldEnd(t, s) = s + Len(App) /\ App[1] = t[s]
<1> DEFINE s == Nth(FieldStarts(t), 1)
           e == FieldEnd(t, s)
           n == Len(t)
           a == Len(App)
           tail == SubSeq(t, s, n)
           field == SubSeq(t, s, e - 1)
<1>1. s \in 1..n /\ n \in Nat /\ Cardinality(FieldStarts(t)) > 0
  BY FirstField, FieldPlaces
<1>2. SaysOf(t).ours <=> field = App /\ n >= s + a
  BY <1>1 DEF SaysOf, Field
<1>3. App \in Seq(STRING) /\ a \in Nat /\ a >= 1 /\ \A k \in 1..a : App[k] \notin Space
  BY DEF AppLong
<1> HIDE DEF s
<1>4. /\ e \in s..(n + 1) /\ \A j \in s..(e - 1) : t[j] \notin Space
      /\ e <= n => t[e] \in Space
      /\ \A d \in s..n : t[d] \in Space /\ (\A j \in s..(d - 1) : t[j] \notin Space) => e = d
  BY <1>1, FieldEnds
<1> HIDE DEF e
<1>5. tail \in Seq(Chars) /\ Len(tail) = n - s + 1 /\ \A k \in 1..(n - s + 1) : tail[k] = t[s + k - 1]
  BY <1>1, PartTyped
<1>6. field \in Seq(Chars) /\ Len(field) = e - s /\ \A k \in 1..(e - s) : field[k] = t[s + k - 1]
  <2> DEFINE j == e - 1
  <2>1. j \in (s - 1)..n /\ s \in 1..(n + 1) /\ j - s + 1 = e - s
    BY <1>1, <1>4
  <2> HIDE DEF j
  <2>2. /\ SubSeq(t, s, j) \in Seq(Chars) /\ Len(SubSeq(t, s, j)) = j - s + 1
        /\ \A k \in 1..(j - s + 1) : SubSeq(t, s, j)[k] = t[s + k - 1]
    BY <2>1, PartTyped
  <2> QED BY <2>1, <2>2 DEF j
<1>7. IsPrefix(App, tail) <=> a <= Len(tail) /\ \A k \in 1..a : App[k] = tail[k]
  <2> HIDE DEF tail
  <2>1. IsPrefix(App, tail) <=> a <= Len(tail) /\ SubSeq(App, 1, a) = SubSeq(tail, 1, a)
    BY DEF IsPrefix
  <2>2. SubSeq(App, 1, a) = App
    BY <1>3, SubSeqFull
  <2>3. ASSUME a <= Len(tail)
        PROVE  SubSeq(tail, 1, a) \in Seq(Chars) /\ Len(SubSeq(tail, 1, a)) = a /\ \A k \in 1..a : SubSeq(tail, 1, a)[k] = tail[k]
    <3>1. 1 \in 1..(Len(tail) + 1) /\ a \in (1 - 1)..Len(tail) /\ a - 1 + 1 = a
      BY <1>1, <1>3, <1>5, <2>3
    <3>2. \A k \in 1..a : 1 + k - 1 = k
      BY <1>3
    <3> HIDE DEF a
    <3> QED BY <1>5, <3>1, <3>2, PartTyped
  <2>4. ASSUME a <= Len(tail), \A k \in 1..a : App[k] = tail[k]
        PROVE  SubSeq(tail, 1, a) = App
    <3> DEFINE x == SubSeq(tail, 1, a)
    <3> HIDE DEF x
    <3>1. x \in Seq(Chars) /\ Len(x) = a /\ \A k \in 1..a : x[k] = App[k]
      BY <2>3, <2>4 DEF x
    <3>2. x = App
      BY <1>3, <3>1, SeqEqual
    <3> QED BY <3>2 DEF x
  <2> QED BY <2>1, <2>2, <2>3, <2>4
<1> HIDE DEF tail, field, a, n
<1>8. ASSUME field = App, n >= s + a
      PROVE  /\ IsPrefix(App, tail) /\ s + a <= n /\ t[s + a] \in Space
             /\ e = s + a /\ App[1] = t[s]
  <2>1. e - s = a
    BY <1>6, <1>8 DEF a
  <2>2. e = s + a
    BY <1>1, <1>3, <1>4, <2>1
  <2>3. t[s + a] \in Space /\ s + a <= n
    BY <1>1, <1>3, <1>4, <1>8, <2>2
  <2>4. a <= Len(tail)
    BY <1>1, <1>3, <1>5, <1>8
  <2>5. \A k \in 1..a : App[k] = tail[k]
    <3> TAKE k \in 1..a
    <3>1. k \in 1..(e - s) /\ k \in 1..(n - s + 1)
      BY <1>1, <1>3, <1>8, <2>1
    <3> QED BY <1>5, <1>6, <1>8, <3>1
  <2>6. App[1] = t[s]
    <3>1. 1 \in 1..a /\ 1 \in 1..(n - s + 1) /\ s + 1 - 1 = s
      BY <1>1, <1>3, <1>8
    <3> QED BY <1>5, <2>5, <3>1
  <2> QED BY <1>7, <2>2, <2>3, <2>4, <2>5, <2>6
<1>9. ASSUME IsPrefix(App, tail), s + a <= n, t[s + a] \in Space
      PROVE  field = App /\ n >= s + a
  <2>1. \A k \in 1..a : App[k] = tail[k] /\ tail[k] = t[s + k - 1]
    <3> TAKE k \in 1..a
    <3>1. k \in 1..(n - s + 1)
      BY <1>1, <1>3, <1>9
    <3> QED BY <1>5, <1>7, <1>9, <3>1
  <2>2. \A j \in s..(s + a - 1) : t[j] \notin Space
    <3> TAKE j \in s..(s + a - 1)
    <3>1. j - s + 1 \in 1..a /\ s + (j - s + 1) - 1 = j
      BY <1>1, <1>3
    <3> QED BY <1>3, <2>1, <3>1
  <2>3. e = s + a
    <3>1. s + a \in s..n
      BY <1>1, <1>3, <1>9
    <3> DEFINE d == s + a
    <3>2. d \in s..n /\ t[d] \in Space /\ \A j \in s..(d - 1) : t[j] \notin Space
      BY <1>1, <1>3, <1>9, <2>2, <3>1
    <3> HIDE DEF d
    <3>3. e = d
      BY <1>4, <3>2
    <3> QED BY <3>3 DEF d
  <2>4. e - s = a
    BY <1>1, <1>3, <2>3
  <2>5. field = App
    BY <1>3, <1>6, <2>1, <2>4, SeqEqual DEF a
  <2> QED BY <1>1, <1>3, <1>9, <2>5
<1> QED BY <1>2, <1>8, <1>9 DEF s, tail, a, n, e

\* Where a field begins in the buffer, and where it ends.
LEMMA Hop ==
    ASSUME NEW b, NEW n, NEW m, Filled(b, n, m), NEW t \in Seq(Chars), NEW base \in 1..m, base + Len(t) <= m,
           NEW i \in 1..Len(t), NEW s \in i..Len(t), Stands(b, base, t, i, Len(t)),
           \A j \in i..(s - 1) : t[j] \in Space, t[s] \notin Space
    PROVE  /\ Skip(b, base + i - 1) = base + s - 1 /\ base + s - 1 \in 1..m
           /\ b[base + s - 1] = t[s] /\ t[s] # NUL
<1> DEFINE f == base + i - 1
           p == base + s - 1
<1>1. /\ m \in Nat /\ base \in Nat /\ i \in Nat /\ s \in Nat /\ Len(t) \in Nat
      /\ \A k \in 1..Len(t) : t[k] \in Chars
  BY LenProperties, ElementOfSeq DEF Filled
<1>2. f \in 1..m /\ p \in f..m /\ p \in 1..m
  BY <1>1
<1>3. \A k \in i..Len(t) : b[base + k - 1] = t[k]
  BY DEF Stands
<1>4. b[p] = t[s] /\ b[p] \notin Space /\ t[s] \in Chars
  BY <1>1, <1>3
<1>5. \A k \in f..(p - 1) : b[k] \in Space
  <2> TAKE k \in f..(p - 1)
  <2> DEFINE h == k - base + 1
  <2>1. h \in i..(s - 1) /\ h \in i..Len(t) /\ base + h - 1 = k
    BY <1>1
  <2> HIDE DEF h
  <2>2. b[base + h - 1] = t[h] /\ t[h] \in Space
    BY <1>3, <2>1
  <2> QED BY <2>1, <2>2
<1> HIDE DEF f, p
<1>6. p = Skip(b, f)
  BY <1>2, <1>4, <1>5, SkipTo
<1>7. t[s] # NUL
  BY <1>4, Marks
<1> QED BY <1>2, <1>4, <1>6, <1>7 DEF f, p

LEMMA Stop ==
    ASSUME NEW b, NEW n, NEW m, Filled(b, n, m), NEW t \in Seq(Chars), NEW base \in 1..m, base + Len(t) <= m,
           NEW i \in 1..Len(t), NEW e \in i..Len(t), Stands(b, base, t, i, Len(t)),
           \A j \in i..(e - 1) : t[j] \notin Space, t[e] \in Space
    PROVE  /\ Past(b, base + i - 1) # {}
           /\ Min(Past(b, base + i - 1)) = base + e - 1
<1> DEFINE f == base + i - 1
           p == base + e - 1
<1>1. m \in Nat /\ base \in Nat /\ i \in Nat /\ e \in Nat /\ Len(t) \in Nat
  BY LenProperties DEF Filled
<1>2. f \in 1..m /\ p \in f..m
  BY <1>1
<1>3. \A k \in i..Len(t) : b[base + k - 1] = t[k]
  BY DEF Stands
<1>4. b[p] \in Space
  BY <1>1, <1>3
<1>5. \A k \in f..(p - 1) : b[k] \notin Space
  <2> TAKE k \in f..(p - 1)
  <2> DEFINE h == k - base + 1
  <2>1. h \in i..(e - 1) /\ h \in i..Len(t) /\ base + h - 1 = k
    BY <1>1
  <2> HIDE DEF h
  <2>2. b[base + h - 1] = t[h] /\ t[h] \notin Space
    BY <1>3, <2>1
  <2> QED BY <2>1, <2>2
<1> HIDE DEF f, p
<1>6. Past(b, f) # {} /\ Min(Past(b, f)) = p
  BY <1>2, <1>4, <1>5, PastPlace
<1> QED BY <1>6 DEF f, p

\* The buffer with the end of a field put in.
Cut(b, base, e) == [b EXCEPT ![base + e - 1] = NUL]

LEMMA CutStands ==
    ASSUME NEW b, NEW n, NEW m, Filled(b, n, m), NEW t \in Seq(Chars), NEW base \in 1..m, base + Len(t) <= m,
           NEW e \in 1..Len(t)
    PROVE  /\ Filled(Cut(b, base, e), n, m) /\ Cut(b, base, e)[base + e - 1] = NUL
           /\ \A k \in 1..(Len(t) + 1) : k # e => Cut(b, base, e)[base + k - 1] = b[base + k - 1]
<1> DEFINE p == base + e - 1
           c == [b EXCEPT ![p] = NUL]
<1>1. m \in Nat /\ n \in Nat /\ m <= n /\ base \in Nat /\ e \in Nat /\ Len(t) \in Nat /\ DOMAIN b = 1..n
  BY LenProperties DEF Filled
<1>2. p \in 1..m /\ p \in 1..n
  BY <1>1
<1>3. \A k \in 1..(Len(t) + 1) : k # e => base + k - 1 \in 1..n /\ base + k - 1 # p
  BY <1>1
<1> HIDE DEF p
<1>4. Filled(c, n, m)
  BY <1>2, CutFilled
<1>5. c[p] = NUL /\ \A j \in 1..n : j # p => c[j] = b[j]
  BY <1>1, <1>2
<1> HIDE DEF c
<1>6. \A k \in 1..(Len(t) + 1) : k # e => c[base + k - 1] = b[base + k - 1]
  BY <1>3, <1>5
<1> QED BY <1>4, <1>5, <1>6 DEF Cut, c, p

\* What is added of four fields is what they say.
LEMMA AddedSays ==
    ASSUME NEW t, SaysOf(t).ours, Cardinality(FieldStarts(t)) >= 4, NEW b, NEW type, NEW opt, NEW tail,
           Text(b, type) = Field(t, 2), Text(b, opt) = Field(t, 3),
           Text(b, tail) = SubSeq(t, Nth(FieldStarts(t), 4), Len(t))
    PROVE  Stripped(Added(b, type, opt, tail)) = AddedOf(t)
<1> DEFINE kind == Field(t, 2)
           key  == Key(Field(t, 3))
           expansion == SubSeq(t, Nth(FieldStarts(t), 4), Len(t))
           parsed == ParseArgvString(expansion)
           added  == Added(b, type, opt, tail)
           entry(argv) == [kind |-> kind[1], key |-> key, text |-> expansion, argv |-> argv]
           said  == SaysOf(t)
           plain == [kind |-> kind[1], key |-> key, text |-> expansion]
<1>1. said.ours /\ said.complete /\ said.kind = kind /\ said.key = key /\ said.text = expansion
  BY DEF SaysOf
<1>2. added = IF kind = <<"alias">> THEN IF parsed.bad THEN << >> ELSE <<entry(parsed.argv)>>
              ELSE IF kind = <<"exec">> THEN <<entry(<<expansion>>)>> ELSE << >>
  BY DEF Added
<1>3. AddedOf(t) = IF ~said.ours \/ ~said.complete \/ said.kind \notin {<<"alias">>, <<"exec">>} THEN << >>
                   ELSE IF said.kind = <<"alias">> /\ ParseArgvString(said.text).bad THEN << >>
                   ELSE <<[kind |-> said.kind[1], key |-> said.key, text |-> said.text]>>
  BY DEF AddedOf
<1> HIDE DEF said
<1>4. AddedOf(t) = IF kind \notin {<<"alias">>, <<"exec">>} THEN << >>
                   ELSE IF kind = <<"alias">> /\ parsed.bad THEN << >>
                   ELSE <<plain>>
  BY <1>1, <1>3
<1>5. Stripped(<< >>) = << >>
  BY DEF Stripped
<1> HIDE DEF added, parsed, kind, expansion, key
<1>6. \A argv : Stripped(<<entry(argv)>>) = <<plain>>
  <2> TAKE argv
  <2> DEFINE e == entry(argv)
             q == <<e>>
  <2>1. e.kind = kind[1] /\ e.key = key /\ e.text = expansion
    OBVIOUS
  <2> HIDE DEF e
  <2>2. DOMAIN q = 1..1 /\ q[1] = e
    OBVIOUS
  <2> HIDE DEF q
  <2>3. Stripped(q) = [i \in 1..1 |-> plain]
    <3>1. \A i \in 1..1 : q[i] = e
      BY <2>2
    <3>2. \A i \in 1..1 : [kind |-> q[i].kind, key |-> q[i].key, text |-> q[i].text] = plain
      BY <2>1, <3>1
    <3> HIDE DEF plain
    <3> QED BY <2>2, <3>2 DEF Stripped
  <2>4. [i \in 1..1 |-> plain] = <<plain>>
    <3> HIDE DEF plain
    <3> QED OBVIOUS
  <2> QED BY <2>3, <2>4 DEF q, e
<1> HIDE DEF plain, entry
<1>7. CASE kind = <<"alias">> /\ parsed.bad
  <2>1. added = << >>
    BY <1>2, <1>7, Zenon
  <2>2. AddedOf(t) = << >>
    BY <1>4, <1>7
  <2> QED BY <1>5, <2>1, <2>2 DEF added
<1>8. CASE kind = <<"alias">> /\ ~parsed.bad
  <2>1. added = <<entry(parsed.argv)>>
    BY <1>2, <1>8, Zenon
  <2>2. AddedOf(t) = <<plain>>
    BY <1>4, <1>8
  <2> QED BY <1>6, <2>1, <2>2 DEF added
<1>9. CASE kind = <<"exec">> /\ kind # <<"alias">>
  <2>1. added = <<entry(<<expansion>>)>>
    BY <1>2, <1>9, Zenon
  <2>2. AddedOf(t) = <<plain>>
    BY <1>4, <1>9
  <2> QED BY <1>6, <2>1, <2>2 DEF added
<1>10. CASE kind # <<"exec">> /\ kind # <<"alias">>
  <2>1. added = << >>
    BY <1>2, <1>10, Zenon
  <2>2. AddedOf(t) = << >>
    BY <1>4, <1>10
  <2> QED BY <1>5, <2>1, <2>2 DEF added
<1> QED BY <1>7, <1>8, <1>9, <1>10

\* A line of the application that has four fields adds what they say.
LEMMA FieldsSay ==
    ASSUME AppLong, NEW b, NEW n, NEW m, Filled(b, n, m), NEW t \in Seq(Chars), NEW base \in 1..m, base + Len(t) <= m,
           Stands(b, base, t, 1, Len(t)), b[base + Len(t)] = NUL,
           FieldStarts(t) # {}, SaysOf(t).ours, Cardinality(FieldStarts(t)) >= 4,
           NEW line, line = base + Nth(FieldStarts(t), 1) - 1,
           IsPrefix(App, Text(b, line))
    PROVE  LET found == ConfigLine(b, line)
           IN  found.wild = FALSE /\ Stripped(found.added) = AddedOf(t)
<1> DEFINE h    == line + Len(App)
           type == Skip(b, h)
           p1   == Min(Past(b, type))
           b1   == [b EXCEPT ![p1] = NUL]
           opt  == Skip(b1, p1 + 1)
           p2   == Min(Past(b1, opt))
           b2   == [b1 EXCEPT ![p2] = NUL]
           tail == Skip(b2, p2 + 1)
           found == ConfigLine(b, line)
           l  == Len(t)
           s1 == Nth(FieldStarts(t), 1)
           s2 == Nth(FieldStarts(t), 2)
           s3 == Nth(FieldStarts(t), 3)
           s4 == Nth(FieldStarts(t), 4)
           e1 == FieldEnd(t, s1)
           e2 == FieldEnd(t, s2)
           e3 == FieldEnd(t, s3)
<1>1. found = IF ~IsPrefix(App, Text(b, line)) \/ b[h] \notin Space
              THEN Result(b, << >>, FALSE)
              ELSE IF Past(b, type) = {} THEN Result(b, << >>, TRUE)
              ELSE IF b1[opt] = NUL THEN Result(b1, << >>, FALSE)
              ELSE IF Past(b1, opt) = {} THEN Result(b1, << >>, TRUE)
              ELSE IF b2[tail] = NUL THEN Result(b2, << >>, FALSE)
              ELSE Result(b2, Added(b2, type, opt, tail), FALSE)
  BY DEF ConfigLine
<1>2. /\ l \in Nat /\ m \in Nat /\ base \in 1..m /\ base \in Nat /\ base + l <= m
      /\ Len(App) \in Nat
  BY LenProperties DEF Filled, AppLong
<1>3. Cardinality(FieldStarts(t)) \in Nat
  BY FieldPlaces
<1>4. /\ s1 \in 1..l /\ s2 \in 1..l /\ e1 \in (s1 + 1)..(s2 - 1)
      /\ t[s1] \notin Space /\ t[s2] \notin Space /\ t[e1] \in Space
      /\ \A j \in s1..(e1 - 1) : t[j] \notin Space
      /\ \A j \in e1..(s2 - 1) : t[j] \in Space
  <2>1. 1 \in Nat \ {0} /\ 1 + 1 \in 1..Cardinality(FieldStarts(t)) /\ 1 + 1 = 2
    BY <1>3
  <2> QED BY <2>1, NextField
<1>5. /\ s3 \in 1..l /\ e2 \in (s2 + 1)..(s3 - 1)
      /\ t[s3] \notin Space /\ t[e2] \in Space
      /\ \A j \in s2..(e2 - 1) : t[j] \notin Space
      /\ \A j \in e2..(s3 - 1) : t[j] \in Space
  <2>1. 2 \in Nat \ {0} /\ 2 + 1 \in 1..Cardinality(FieldStarts(t)) /\ 2 + 1 = 3
    BY <1>3
  <2> QED BY <2>1, NextField
<1>6. /\ s4 \in 1..l /\ e3 \in (s3 + 1)..(s4 - 1)
      /\ t[s4] \notin Space /\ t[e3] \in Space
      /\ \A j \in s3..(e3 - 1) : t[j] \notin Space
      /\ \A j \in e3..(s4 - 1) : t[j] \in Space
  <2>1. 3 \in Nat \ {0} /\ 3 + 1 \in 1..Cardinality(FieldStarts(t)) /\ 3 + 1 = 4
    BY <1>3
  <2> QED BY <2>1, NextField
<1>7. e1 = s1 + Len(App)
  BY OursMeans
<1>8. \A k \in 1..l : b[base + k - 1] = t[k]
  BY DEF Stands
<1>9. b[base + (l + 1) - 1] = NUL
  <2>1. base + (l + 1) - 1 = base + Len(t)
    BY <1>2
  <2> QED BY <2>1
<1> HIDE DEF found, type, opt, tail, p1, p2, b1, b2, s1, s2, s3, s4, e1, e2, e3
<1>10. /\ 1 <= s1 /\ s1 < e1 /\ e1 < s2 /\ s2 < e2 /\ e2 < s3 /\ s3 < e3 /\ e3 < s4 /\ s4 <= l
       /\ {s1, e1, s2, e2, s3, e3, s4} \subseteq 1..l
       /\ s1 \in Nat /\ e1 \in Nat /\ s2 \in Nat /\ e2 \in Nat /\ s3 \in Nat /\ e3 \in Nat /\ s4 \in Nat
  <2>1. s1 \in 1..l /\ s2 \in 1..l /\ s3 \in 1..l /\ s4 \in 1..l
    BY <1>4, <1>5, <1>6
  <2>2. e1 \in (s1 + 1)..(s2 - 1) /\ e2 \in (s2 + 1)..(s3 - 1) /\ e3 \in (s3 + 1)..(s4 - 1)
    BY <1>4, <1>5, <1>6
  <2>3. /\ 1 <= s1 /\ s1 < e1 /\ e1 < s2 /\ s2 < e2 /\ e2 < s3 /\ s3 < e3 /\ e3 < s4 /\ s4 <= l
        /\ s1 \in Nat /\ e1 \in Nat /\ s2 \in Nat /\ e2 \in Nat /\ s3 \in Nat /\ e3 \in Nat /\ s4 \in Nat
    BY <1>2, <2>1, <2>2
  <2>4. e1 \in 1..l /\ e2 \in 1..l /\ e3 \in 1..l
    BY <1>2, <2>3
  <2> QED BY <2>1, <2>3, <2>4
<1>11. h = base + e1 - 1 /\ b[h] \in Space
  <2>1. line = base + s1 - 1
    BY DEF s1
  <2>2. h = base + e1 - 1 /\ e1 \in 1..l
    BY <1>2, <1>7, <1>10, <2>1
  <2>3. b[base + e1 - 1] = t[e1]
    BY <1>8, <2>2
  <2> QED BY <1>4, <2>2, <2>3
<1> HIDE DEF l, h
\* The second field.
<1>12. type = base + s2 - 1 /\ type \in 1..m
  <2>1. e1 \in 1..l /\ s2 \in e1..l /\ Stands(b, base, t, e1, l)
    BY <1>2, <1>8, <1>10 DEF Stands
  <2>2. /\ e1 \in 1..Len(t) /\ s2 \in e1..Len(t) /\ Stands(b, base, t, e1, Len(t))
        /\ \A j \in e1..(s2 - 1) : t[j] \in Space
        /\ t[s2] \notin Space
    BY <1>4, <2>1 DEF l
  <2>3. Skip(b, base + e1 - 1) = base + s2 - 1 /\ base + s2 - 1 \in 1..m
    BY <2>2, Hop
  <2> QED BY <1>11, <2>3 DEF type
<1>13. Past(b, type) # {} /\ p1 = base + e2 - 1
  <2>1. s2 \in 1..l /\ e2 \in s2..l /\ Stands(b, base, t, s2, l)
    BY <1>2, <1>8, <1>10 DEF Stands
  <2>2. Past(b, base + s2 - 1) # {} /\ Min(Past(b, base + s2 - 1)) = base + e2 - 1
    BY <1>5, <2>1, Stop DEF l
  <2> QED BY <1>12, <2>2 DEF p1
<1>14. /\ Filled(b1, n, m) /\ b1[base + e2 - 1] = NUL
       /\ \A k \in 1..(l + 1) : k # e2 => b1[base + k - 1] = b[base + k - 1]
  <2>1. e2 \in 1..l
    BY <1>10
  <2>2. b1 = Cut(b, base, e2)
    BY <1>13 DEF b1, Cut
  <2> QED BY <2>1, <2>2, CutStands DEF l
\* The third field.
<1>15. \A k \in 1..l : k # e2 => b1[base + k - 1] = t[k]
  <2>1. \A k \in 1..l : k \in 1..(l + 1)
    BY <1>2
  <2> QED BY <1>8, <1>14, <2>1
<1>16. opt = base + s3 - 1 /\ b1[opt] # NUL
  <2> DEFINE i == e2 + 1
  <2>1. i \in 1..l /\ s3 \in i..l /\ Stands(b1, base, t, i, l)
    BY <1>2, <1>10, <1>15 DEF Stands
  <2>2. \A j \in i..(s3 - 1) : t[j] \in Space
    <3>1. \A j \in i..(s3 - 1) : j \in e2..(s3 - 1)
      BY <1>10
    <3> QED BY <1>5, <3>1
  <2>3. p1 + 1 = base + i - 1
    BY <1>2, <1>10, <1>13
  <2> HIDE DEF i
  <2>4. /\ Skip(b1, base + i - 1) = base + s3 - 1
        /\ b1[base + s3 - 1] = t[s3] /\ t[s3] # NUL
    BY <1>5, <1>14, <2>1, <2>2, Hop DEF l
  <2> QED BY <2>3, <2>4 DEF opt
<1>17. Past(b1, opt) # {} /\ p2 = base + e3 - 1
  <2>1. s3 \in 1..l /\ e3 \in s3..l /\ Stands(b1, base, t, s3, l)
    BY <1>2, <1>10, <1>15 DEF Stands
  <2>2. Past(b1, base + s3 - 1) # {} /\ Min(Past(b1, base + s3 - 1)) = base + e3 - 1
    BY <1>6, <1>14, <2>1, Stop DEF l
  <2> QED BY <1>16, <2>2 DEF p2
<1>18. /\ Filled(b2, n, m) /\ b2[base + e3 - 1] = NUL
       /\ \A k \in 1..(l + 1) : k # e3 => b2[base + k - 1] = b1[base + k - 1]
  <2>1. e3 \in 1..l
    BY <1>10
  <2>2. b2 = Cut(b1, base, e3)
    BY <1>17 DEF b2, Cut
  <2> QED BY <1>14, <2>1, <2>2, CutStands DEF l
\* The rest of the line.
<1>19. \A k \in 1..l : k # e2 /\ k # e3 => b2[base + k - 1] = t[k]
  <2>1. \A k \in 1..l : k \in 1..(l + 1)
    BY <1>2
  <2> QED BY <1>15, <1>18, <2>1
<1>20. tail = base + s4 - 1 /\ b2[tail] # NUL
  <2> DEFINE i == e3 + 1
  <2>1. i \in 1..l /\ s4 \in i..l /\ Stands(b2, base, t, i, l)
    BY <1>2, <1>10, <1>19 DEF Stands
  <2>2. \A j \in i..(s4 - 1) : t[j] \in Space
    <3>1. \A j \in i..(s4 - 1) : j \in e3..(s4 - 1)
      BY <1>10
    <3> QED BY <1>6, <3>1
  <2>3. p2 + 1 = base + i - 1
    BY <1>2, <1>10, <1>17
  <2> HIDE DEF i
  <2>4. /\ Skip(b2, base + i - 1) = base + s4 - 1
        /\ b2[base + s4 - 1] = t[s4] /\ t[s4] # NUL
    BY <1>6, <1>18, <2>1, <2>2, Hop DEF l
  <2> QED BY <2>3, <2>4 DEF tail
\* The texts of the fields.
<1>21. Text(b2, type) = Field(t, 2)
  <2> DEFINE j == e2 - 1
  <2>1. s2 \in 1..(l + 1) /\ j \in (s2 - 1)..l /\ base + j <= m /\ base + j = base + e2 - 1 /\ j = e2 - 1
    BY <1>2, <1>10
  <2>2. Stands(b2, base, t, s2, j)
    <3>1. \A k \in s2..j : k \in 1..l /\ k # e2 /\ k # e3
      BY <1>2, <1>10
    <3> QED BY <1>19, <3>1 DEF Stands
  <2>3. b2[base + j] = NUL
    <3>1. e2 \in 1..(l + 1) /\ e2 # e3
      BY <1>2, <1>10
    <3>2. b2[base + e2 - 1] = NUL
      BY <1>14, <1>18, <3>1
    <3> QED BY <2>1, <3>2
  <2> HIDE DEF j
  <2>4. Text(b2, base + s2 - 1) = SubSeq(t, s2, j)
    BY <1>18, <2>1, <2>2, <2>3, TextStands DEF l
  <2> QED BY <1>12, <2>4 DEF Field, j, s2, e2
<1>22. Text(b2, opt) = Field(t, 3)
  <2> DEFINE j == e3 - 1
  <2>1. s3 \in 1..(l + 1) /\ j \in (s3 - 1)..l /\ base + j <= m /\ base + j = base + e3 - 1
    BY <1>2, <1>10
  <2>2. Stands(b2, base, t, s3, j)
    <3>1. \A k \in s3..j : k \in 1..l /\ k # e2 /\ k # e3
      BY <1>2, <1>10
    <3> QED BY <1>19, <3>1 DEF Stands
  <2>3. b2[base + j] = NUL
    BY <1>18, <2>1
  <2> HIDE DEF j
  <2>4. Text(b2, base + s3 - 1) = SubSeq(t, s3, j)
    BY <1>18, <2>1, <2>2, <2>3, TextStands DEF l
  <2> QED BY <1>16, <2>4 DEF Field, j, s3, e3
<1>23. Text(b2, tail) = SubSeq(t, s4, l)
  <2>1. s4 \in 1..(l + 1) /\ l \in (s4 - 1)..l /\ base + l <= m
    BY <1>2, <1>10
  <2>2. Stands(b2, base, t, s4, l)
    <3>1. \A k \in s4..l : k \in 1..l /\ k # e2 /\ k # e3
      BY <1>2, <1>10
    <3> QED BY <1>19, <3>1 DEF Stands
  <2>3. b2[base + l] = NUL
    <3>1. l + 1 \in 1..(l + 1) /\ l + 1 # e2 /\ l + 1 # e3 /\ base + (l + 1) - 1 = base + l
      BY <1>2, <1>10
    <3>2. b2[base + (l + 1) - 1] = NUL
      BY <1>9, <1>14, <1>18, <3>1
    <3> QED BY <3>1, <3>2
  <2>4. Text(b2, base + s4 - 1) = SubSeq(t, s4, l)
    BY <1>18, <2>1, <2>2, <2>3, TextStands DEF l
  <2> QED BY <1>20, <2>4
<1>24. Stripped(Added(b2, type, opt, tail)) = AddedOf(t)
  BY <1>21, <1>22, <1>23, AddedSays DEF s4, l
<1>25. found = Result(b2, Added(b2, type, opt, tail), FALSE)
  BY <1>1, <1>11, <1>13, <1>16, <1>17, <1>20, Zenon
<1> DEFINE added == Added(b2, type, opt, tail)
           r == Result(b2, added, FALSE)
<1>26. r.added = added /\ r.wild = FALSE
  <2> HIDE DEF added
  <2> QED BY DEF Result
<1> HIDE DEF added, r
<1>27. found = r
  BY <1>25 DEF r, added
<1>28. found.wild = FALSE /\ Stripped(found.added) = AddedOf(t)
  BY <1>24, <1>26, <1>27 DEF added
<1> QED BY <1>28 DEF found

\* The buffer from base on holds a text, and behind it a string ends.
LEMMA LineSays ==
    ASSUME AppLong, NEW b, NEW n, NEW m, Filled(b, n, m), NEW t \in Seq(Chars), NEW base \in 1..m, base + Len(t) <= m,
           Stands(b, base, t, 1, Len(t)), b[base + Len(t)] = NUL,
           \A j \in 1..(base - 1) : b[j] \in Space,
           SaysOf(t).ours => SaysOf(t).complete
    PROVE  LET found == Found(b, Skip(b, 1))
           IN  found.wild = FALSE /\ Stripped(found.added) = AddedOf(t)
<1> DEFINE line == Skip(b, 1)
           found == Found(b, line)
           none == Result(b, << >>, FALSE)
           l == Len(t)
           s == Nth(FieldStarts(t), 1)
           a == Len(App)
           h == line + a
<1>1. l \in Nat /\ m \in Nat /\ base \in Nat /\ \A k \in 1..l : t[k] \in Chars
  BY LenProperties, ElementOfSeq DEF Filled
<1>2. \A k \in 1..l : b[base + k - 1] = t[k]
  BY DEF Stands
<1>3. a \in Nat /\ a >= 1 /\ App[1] # "#"
  BY DEF AppLong
<1>4. \A p \in 1..m : b[p] \notin Space /\ (\A k \in 1..(p - 1) : b[k] \in Space) => p = line
  <2>1. 1 \in 1..m
    BY <1>1
  <2> QED BY <2>1, SkipTo
<1>5. SaysOf(t).complete => Cardinality(FieldStarts(t)) >= 4
  BY DEF SaysOf
<1>6. ASSUME found = none, ~SaysOf(t).ours
      PROVE  found.wild = FALSE /\ Stripped(found.added) = AddedOf(t)
  <2>1. none.wild = FALSE /\ none.added = << >>
    BY DEF Result
  <2>2. Stripped(<< >>) = << >>
    BY DEF Stripped
  <2>3. AddedOf(t) = << >>
    BY <1>6 DEF AddedOf
  <2> HIDE DEF none, found
  <2>4. found.wild = FALSE /\ found.added = << >>
    BY <1>6, <2>1
  <2> QED BY <2>2, <2>3, <2>4
<1>7. found = IF b[line] \in {NUL, "#"} THEN none ELSE ConfigLine(b, line)
  BY DEF Found
<1>8. ConfigLine(b, line) = none \/ (IsPrefix(App, Text(b, line)) /\ b[h] \in Space)
  BY DEF ConfigLine
<1> HIDE DEF line, found, none, h
<1>9. CASE FieldStarts(t) = {}
  <2> DEFINE p == base + l
  <2>1. \A j \in 1..l : t[j] \in Space
    BY <1>9, FirstField
  <2>2. p \in 1..m /\ b[p] = NUL /\ b[p] \notin Space
    BY <1>1, Marks
  <2>3. \A k \in 1..(p - 1) : b[k] \in Space
    <3> TAKE k \in 1..(p - 1)
    <3>1. CASE k \in 1..(base - 1)
      BY <3>1
    <3>2. CASE k \notin 1..(base - 1)
      <4> DEFINE j == k - base + 1
      <4>1. j \in 1..l /\ base + j - 1 = k
        BY <1>1, <3>2
      <4> HIDE DEF j
      <4>2. b[base + j - 1] \in Space
        BY <1>2, <2>1, <4>1
      <4> QED BY <4>1, <4>2
    <3> QED BY <3>1, <3>2
  <2> HIDE DEF p
  <2>4. b[line] = NUL
    BY <1>4, <2>2, <2>3
  <2>5. ~SaysOf(t).ours
    <3>1. ~(Cardinality(FieldStarts(t)) > 0)
      BY <1>9, FirstField
    <3> QED BY <3>1 DEF SaysOf
  <2> QED BY <1>6, <1>7, <2>4, <2>5 DEF found, line
<1>10. CASE FieldStarts(t) # {}
  <2> HIDE DEF s
  <2>1. s \in 1..l /\ t[s] \notin Space /\ \A j \in 1..(s - 1) : t[j] \in Space
    BY <1>10, FirstField DEF s
  <2>2. line = base + s - 1 /\ b[line] = t[s]
    <3> DEFINE p == base + s - 1
    <3>1. p \in 1..m /\ b[p] = t[s]
      BY <1>1, <1>2, <2>1
    <3>2. \A k \in 1..(p - 1) : b[k] \in Space
      <4> TAKE k \in 1..(p - 1)
      <4>1. CASE k \in 1..(base - 1)
        BY <4>1
      <4>2. CASE k \notin 1..(base - 1)
        <5> DEFINE j == k - base + 1
        <5>1. j \in 1..(s - 1) /\ j \in 1..l /\ base + j - 1 = k
          BY <1>1, <2>1, <4>2
        <5> HIDE DEF j
        <5>2. b[base + j - 1] \in Space
          BY <1>2, <2>1, <5>1
        <5> QED BY <5>1, <5>2
      <4> QED BY <4>1, <4>2
    <3> HIDE DEF p
    <3>3. p = line
      BY <1>4, <2>1, <3>1, <3>2
    <3> QED BY <3>1, <3>3 DEF p
  <2> DEFINE tail == SubSeq(t, s, l)
  <2>3. Text(b, line) = tail
    <3>1. /\ s \in 1..(l + 1) /\ l \in (s - 1)..l
          /\ \A k \in s..l : k \in 1..l
      BY <1>1, <2>1
    <3>2. Stands(b, base, t, s, l)
      BY <1>2, <3>1 DEF Stands
    <3>3. Text(b, base + s - 1) = SubSeq(t, s, l)
      BY <3>1, <3>2, TextStands
    <3> QED BY <2>2, <3>3
  <2>4. /\ SaysOf(t).ours <=> /\ IsPrefix(App, tail)
                              /\ s + a <= l /\ t[s + a] \in Space
        /\ SaysOf(t).ours => App[1] = t[s]
    BY <1>10, OursMeans DEF s
  <2>5. IsPrefix(App, tail) => a <= l - s + 1
    <3>1. Len(tail) = l - s + 1
      BY <1>1, <2>1, PartTyped
    <3>2. IsPrefix(App, tail) => a <= Len(tail)
      BY DEF IsPrefix
    <3> QED BY <3>1, <3>2
  <2> HIDE DEF tail, a, l
  <2>6. ASSUME IsPrefix(App, tail), b[h] \in Space
        PROVE  SaysOf(t).ours
    <3> DEFINE o == s + a
    <3>1. h = base + o - 1 /\ o \in 1..(l + 1)
      BY <1>1, <1>3, <2>1, <2>2, <2>5, <2>6 DEF h
    <3>2. o # l + 1
      <4>1. o = l + 1 => h = base + l
        BY <1>1, <3>1
      <4> QED BY <2>6, <4>1, Marks DEF l
    <3>3. o \in 1..l /\ o <= l
      BY <1>1, <3>1, <3>2
    <3> HIDE DEF o
    <3>4. t[o] \in Space
      BY <1>2, <2>6, <3>1, <3>3
    <3> QED BY <2>4, <2>6, <3>3, <3>4 DEF o
  <2>7. CASE SaysOf(t).ours
    <3>1. App[1] = t[s] /\ IsPrefix(App, Text(b, line))
      BY <2>3, <2>4, <2>7
    <3>2. b[line] \notin {NUL, "#"}
      BY <1>1, <1>3, <2>1, <2>2, <3>1, Marks
    <3>3. found = ConfigLine(b, line)
      BY <1>7, <3>2
    <3>4. Cardinality(FieldStarts(t)) >= 4
      BY <1>5, <2>7
    <3>5. line = base + Nth(FieldStarts(t), 1) - 1
      BY <2>2 DEF s
    <3>6. ConfigLine(b, line).wild = FALSE /\ Stripped(ConfigLine(b, line).added) = AddedOf(t)
      BY <1>10, <2>7, <3>1, <3>4, <3>5, FieldsSay
    <3> QED BY <3>3, <3>6 DEF found, line
  <2>8. CASE ~SaysOf(t).ours
    <3>1. found = none
      BY <1>7, <1>8, <2>3, <2>6, <2>8
    <3> QED BY <1>6, <2>8, <3>1 DEF found, line
  <2> QED BY <2>7, <2>8
<1> QED BY <1>9, <1>10

-----------------------------------------------------------------------------
(* The logical lines of a file *)

EscapedIn(f, i) ==
    \E n \in 1..(i - 1) : /\ n % 2 = 1
                          /\ \A k \in (i - n)..(i - 1) : f[k] = "\\"
                          /\ i - n = 1 \/ f[i - n - 1] # "\\"
EndsIn(f, n)  == {i \in 1..(n - 1) : f[i] = "\n" /\ ~EscapedIn(f, i)}
FirstIn(f, c) == Max({0} \cup EndsIn(f, c)) + 1
IsKept(f, i)  == ~(EscapedIn(f, i) /\ f[i] = "\n") /\ ~(EscapedIn(f, i + 1) /\ f[i + 1] = "\n" /\ f[i] = "\\")
KeptIn(f, c)  == {i \in FirstIn(f, c)..(c - 1) : IsKept(f, i)}
TextIn(f, c)  == [k \in 1..Cardinality(KeptIn(f, c)) |-> f[Nth(KeptIn(f, c), k)]]

\* A backslash that is not shielded itself shields what follows.
LEMMA EscapedNext ==
    ASSUME NEW f, NEW i \in Nat \ {0}
    PROVE  /\ ~EscapedIn(f, 1)
           /\ f[i] # "\\" => ~EscapedIn(f, i + 1)
           /\ f[i] = "\\" => (EscapedIn(f, i + 1) <=> ~EscapedIn(f, i))
<1>1. ~EscapedIn(f, 1)
  BY DEF EscapedIn
<1>2. EscapedIn(f, i) <=>
          \E n \in 1..(i - 1) : /\ n % 2 = 1
                                /\ \A k \in (i - n)..(i - 1) : f[k] = "\\"
                                /\ i - n = 1 \/ f[i - n - 1] # "\\"
  BY DEF EscapedIn
<1>3. EscapedIn(f, i + 1) <=>
          \E n \in 1..i : /\ n % 2 = 1
                          /\ \A k \in (i + 1 - n)..i : f[k] = "\\"
                          /\ i + 1 - n = 1 \/ f[i - n] # "\\"
  <2>1. i + 1 - 1 = i /\ \A n \in 1..i : i + 1 - n - 1 = i - n
    OBVIOUS
  <2> DEFINE j == i + 1
  <2>2. EscapedIn(f, j) <=>
            \E n \in 1..(j - 1) : /\ n % 2 = 1
                                  /\ \A k \in (j - n)..(j - 1) : f[k] = "\\"
                                  /\ j - n = 1 \/ f[j - n - 1] # "\\"
    BY DEF EscapedIn
  <2>3. j - 1 = i /\ \A n \in 1..i : j - n - 1 = i - n
    OBVIOUS
  <2>4. \A n \in 1..i : (j - n = 1 \/ f[j - n - 1] # "\\") <=> (j - n = 1 \/ f[i - n] # "\\")
    <3> HIDE DEF j
    <3> QED BY <2>3
  <2>5. EscapedIn(f, j) <=>
            \E n \in 1..i : /\ n % 2 = 1
                            /\ \A k \in (j - n)..i : f[k] = "\\"
                            /\ j - n = 1 \/ f[i - n] # "\\"
    <3> HIDE DEF j
    <3> QED BY <2>2, <2>3, <2>4
  <2> QED BY <2>5
<1>4. f[i] # "\\" => ~EscapedIn(f, i + 1)
  <2>1. \A n \in 1..i : i \in (i + 1 - n)..i
    OBVIOUS
  <2> QED BY <1>3, <2>1
<1>5. ASSUME f[i] = "\\", ~EscapedIn(f, i)
      PROVE  EscapedIn(f, i + 1)
  <2> DEFINE S == {p \in 1..i : \A k \in p..i : f[k] = "\\"}
  <2>1. PICK p \in S : \A q \in S : p <= q
    <3>1. S \in SUBSET Nat /\ i \in S
      BY <1>5
    <3> HIDE DEF S
    <3> QED BY <3>1, LeastNat
  <2>2. p \in 1..i /\ \A k \in p..i : f[k] = "\\"
    OBVIOUS
  <2>3. p = 1 \/ f[p - 1] # "\\"
    <3>1. ASSUME p # 1, f[p - 1] = "\\" PROVE FALSE
      <4>1. p - 1 \in 1..i /\ ~(p <= p - 1)
        BY <2>2, <3>1
      <4>2. \A k \in (p - 1)..i : k = p - 1 \/ k \in p..i
        BY <2>2
      <4>3. \A k \in (p - 1)..i : f[k] = "\\"
        BY <2>2, <3>1, <4>2
      <4>4. p - 1 \in S
        BY <4>1, <4>3
      <4> QED BY <2>1, <4>1, <4>4
    <3> QED BY <3>1
  <2> HIDE DEF S
  <2> DEFINE n == i + 1 - p
  <2>4. n \in 1..i /\ i + 1 - n = p /\ i - n = p - 1
    BY <2>2
  <2>5. CASE n % 2 = 1
    <3>1. \A k \in (i + 1 - n)..i : f[k] = "\\"
      BY <2>2, <2>4
    <3>2. i + 1 - n = 1 \/ f[i - n] # "\\"
      BY <2>3, <2>4
    <3> HIDE DEF n
    <3> QED BY <1>3, <2>4, <2>5, <3>1, <3>2
  <2>6. CASE n % 2 # 1
    <3> DEFINE h == n - 1
    <3>1. h \in 0..(i - 1) /\ h % 2 = 1 /\ h \in Nat
      <4> HIDE DEF n
      <4> QED BY <2>4, <2>6
    <3>2. h # 0
      <4> HIDE DEF h
      <4> QED BY <3>1
    <3>3. h \in 1..(i - 1) /\ i - h = p /\ i - h - 1 = p - 1
      BY <2>2, <3>1, <3>2
    <3>4. \A k \in p..(i - 1) : f[k] = "\\"
      <4>1. \A k \in p..(i - 1) : k \in p..i
        BY <2>2
      <4> QED BY <2>2, <4>1
    <3> HIDE DEF h
    <3>5. EscapedIn(f, i)
      BY <1>2, <2>3, <3>1, <3>3, <3>4
    <3> QED BY <1>5, <3>5
  <2> QED BY <2>5, <2>6
<1>6. ASSUME f[i] = "\\", EscapedIn(f, i), EscapedIn(f, i + 1)
      PROVE  FALSE
  <2>1. PICK n \in 1..(i - 1) : /\ n % 2 = 1
                                /\ \A k \in (i - n)..(i - 1) : f[k] = "\\"
                                /\ i - n = 1 \/ f[i - n - 1] # "\\"
    BY <1>2, <1>6
  <2>2. PICK m \in 1..i : /\ m % 2 = 1
                          /\ \A k \in (i + 1 - m)..i : f[k] = "\\"
                          /\ i + 1 - m = 1 \/ f[i - m] # "\\"
    BY <1>3, <1>6
  <2>3. m = n + 1
    <3>1. CASE m > n + 1
      <4>1. i - n - 1 \in (i + 1 - m)..i /\ i - n # 1
        BY <3>1
      <4> QED BY <2>1, <2>2, <4>1
    <3>2. CASE m < n + 1
      <4>1. i - m \in (i - n)..(i - 1) /\ i + 1 - m # 1
        BY <3>2
      <4> QED BY <2>1, <2>2, <4>1
    <3> QED BY <3>1, <3>2
  <2> QED BY <2>1, <2>2, <2>3
<1> QED BY <1>1, <1>4, <1>5, <1>6

\* The characters at some places of a file, one behind the other.
AtPlaces(f, S) == [k \in 1..Cardinality(S) |-> f[Nth(S, k)]]

LEMMA PlacesTyped ==
    ASSUME NEW f, NEW n \in Nat, NEW S \in SUBSET (1..n), \A i \in 1..n : f[i] \in Chars
    PROVE  AtPlaces(f, S) \in Seq(Chars) /\ Len(AtPlaces(f, S)) = Cardinality(S) /\ Cardinality(S) \in Nat
<1> DEFINE h == Cardinality(S)
           At2(k) == f[Nth(S, k)]
<1>1. h \in Nat
  BY Counted
<1>2. \A k \in 1..h : At2(k) \in Chars
  <2> TAKE k \in 1..h
  <2>1. Nth(S, k) \in S
    BY NthPlace
  <2> QED BY <2>1
<1> HIDE DEF h, At2
<1>3. [k \in 1..h |-> At2(k)] \in Seq(Chars) /\ Len([k \in 1..h |-> At2(k)]) = h
  BY <1>1, <1>2
<1> QED BY <1>1, <1>3 DEF AtPlaces, h, At2

LEMMA OnePlaceMore ==
    ASSUME NEW f, NEW c \in Nat \ {0}, NEW S \in SUBSET (1..(c - 1)), \A i \in 1..c : f[i] \in Chars
    PROVE  AtPlaces(f, S \cup {c}) = Append(AtPlaces(f, S), f[c])
<1> DEFINE T == S \cup {c}
           h == Cardinality(S)
<1>1. T \in SUBSET (1..c) /\ S \in SUBSET (1..c) /\ c \notin S /\ c \in T /\ c \in Nat /\ c - 1 \in Nat
  OBVIOUS
<1>2. IsFiniteSet(S) /\ h \in Nat
  BY <1>1, Counted
<1>3. Cardinality(T) = h + 1
  BY <1>1, <1>2, FS_AddElement
<1>4. Below(T, c) = S
  <2>1. \A i \in S : i < c
    OBVIOUS
  <2>2. ~(c < c)
    OBVIOUS
  <2>3. \A i : i \in Below(T, c) <=> i \in S
    BY <2>1, <2>2 DEF Below
  <2> QED BY <2>3
<1>5. \A i \in S : Below(T, i) = Below(S, i)
  BY DEF Below
<1> HIDE DEF T
<1>6. Nth(T, h + 1) = c
  <2> DEFINE k == h + 1
  <2>1. Cardinality(Below(T, c)) = k - 1
    BY <1>2, <1>4
  <2> HIDE DEF k
  <2>2. Nth(T, k) = c
    BY <1>1, <2>1, NthUnique
  <2> QED BY <2>2 DEF k
<1>7. \A k \in 1..h : Nth(T, k) = Nth(S, k)
  <2> TAKE k \in 1..h
  <2> DEFINE i == Nth(S, k)
  <2>1. i \in S /\ Cardinality(Below(S, i)) = k - 1
    BY <1>1, NthPlace
  <2> HIDE DEF i
  <2>2. i \in T /\ Cardinality(Below(T, i)) = k - 1
    BY <1>5, <2>1 DEF T
  <2>3. Nth(T, k) = i
    BY <1>1, <2>2, NthUnique
  <2> QED BY <2>3 DEF i
<1> DEFINE a == AtPlaces(f, S)
           b == AtPlaces(f, T)
           d == Append(a, f[c])
<1>8. a \in Seq(Chars) /\ Len(a) = h /\ \A k \in 1..h : a[k] = f[Nth(S, k)]
  <2>1. \A i \in 1..c : f[i] \in Chars
    OBVIOUS
  <2> QED BY <1>1, <2>1, PlacesTyped DEF AtPlaces
<1>9. b \in Seq(Chars) /\ Len(b) = h + 1 /\ \A k \in 1..(h + 1) : b[k] = f[Nth(T, k)]
  <2>1. \A i \in 1..c : f[i] \in Chars
    OBVIOUS
  <2>2. b \in Seq(Chars) /\ Len(b) = Cardinality(T)
    BY <1>1, <2>1, PlacesTyped
  <2> QED BY <1>3, <2>2 DEF AtPlaces
<1> HIDE DEF a, b, h
<1>10. f[c] \in Chars
  BY <1>1
<1>11. d \in Seq(Chars) /\ Len(d) = h + 1 /\ d[h + 1] = f[c] /\ \A k \in 1..h : d[k] = a[k]
  <2> DEFINE x == f[c]
  <2> HIDE DEF x
  <2>1. x \in Chars
    BY <1>10 DEF x
  <2>2. Append(a, x) \in Seq(Chars) /\ Len(Append(a, x)) = Len(a) + 1 /\ Append(a, x)[Len(a) + 1] = x
        /\ \A k \in 1..Len(a) : Append(a, x)[k] = a[k]
    BY <1>8, <2>1, AppendProperties
  <2> QED BY <1>8, <2>2 DEF x
<1> HIDE DEF d
<1>12. \A k \in 1..(h + 1) : b[k] = d[k]
  <2> TAKE k \in 1..(h + 1)
  <2>1. k \in 1..h \/ k = h + 1
    BY <1>2
  <2> QED BY <1>6, <1>7, <1>8, <1>9, <1>11, <2>1
<1>13. b = d
  BY <1>9, <1>11, <1>12, SeqEqual
<1> QED BY <1>13 DEF a, b, d, T

LEMMA EndsNext ==
    ASSUME NEW f, NEW c \in Nat \ {0}
    PROVE  /\ EndsIn(f, 1) = {}
           /\ EndsIn(f, c + 1) = EndsIn(f, c) \cup (IF f[c] = "\n" /\ ~EscapedIn(f, c) THEN {c} ELSE {})
           /\ c \notin EndsIn(f, c)
<1>1. \A i : i \in 1..((c + 1) - 1) <=> i \in 1..(c - 1) \/ i = c
  OBVIOUS
<1> QED BY <1>1 DEF EndsIn

LEMMA FirstFirst ==
    ASSUME NEW f
    PROVE  FirstIn(f, 1) = 1
<1>1. {0} \cup EndsIn(f, 1) = {0}
  BY DEF EndsIn
<1>2. Max({0}) = 0
  BY DEF Max
<1> QED BY <1>1, <1>2 DEF FirstIn

LEMMA FirstNext ==
    ASSUME NEW f, NEW c \in Nat \ {0}
    PROVE  /\ c \in EndsIn(f, c + 1) => FirstIn(f, c + 1) = c + 1
           /\ c \notin EndsIn(f, c + 1) => FirstIn(f, c + 1) = FirstIn(f, c) /\ EndsIn(f, c + 1) = EndsIn(f, c)
<1>1. ASSUME c \in EndsIn(f, c + 1) PROVE FirstIn(f, c + 1) = c + 1
  <2> DEFINE S == {0} \cup EndsIn(f, c + 1)
  <2>1. c \in S /\ \A i \in S : i \in 0..c
    BY <1>1 DEF EndsIn
  <2> HIDE DEF S
  <2>2. Max(S) \in S /\ \A i \in S : Max(S) >= i
    <3>1. \E x \in S : \A y \in S : x >= y
      BY <2>1
    <3> QED BY <3>1 DEF Max
  <2> DEFINE x == Max(S)
  <2> HIDE DEF x
  <2>3. x \in S /\ \A i \in S : x >= i
    BY <2>2 DEF x
  <2>4. x \in 0..c /\ x >= c
    BY <2>1, <2>3
  <2>5. x = c
    BY <2>4
  <2> QED BY <2>5 DEF FirstIn, S, x
<1>2. ASSUME c \notin EndsIn(f, c + 1) PROVE EndsIn(f, c + 1) = EndsIn(f, c)
  <2>1. ~(f[c] = "\n" /\ ~EscapedIn(f, c))
    BY <1>2, EndsNext
  <2>2. EndsIn(f, c + 1) = EndsIn(f, c) \cup (IF f[c] = "\n" /\ ~EscapedIn(f, c) THEN {c} ELSE {})
    BY EndsNext
  <2> QED BY <2>1, <2>2
<1> QED BY <1>1, <1>2 DEF FirstIn

\* What the buffer takes of a file is the text of the line.
LEMMA TextNext ==
    ASSUME NEW f, NEW n \in Nat, \A i \in 1..n : f[i] \in Chars,
           NEW c \in 1..n, ~EscapedIn(f, c), FirstIn(f, c) \in 1..c
    PROVE  /\ TextIn(f, c) \in Seq(Chars)
           /\ f[c] # "\\" => ~EscapedIn(f, c + 1)
           /\ f[c] = "\n" => EndsIn(f, c + 1) = EndsIn(f, c) \cup {c} /\ FirstIn(f, c + 1) = c + 1 /\ TextIn(f, c + 1) = << >>
           /\ f[c] # "\n" => EndsIn(f, c + 1) = EndsIn(f, c) /\ FirstIn(f, c + 1) = FirstIn(f, c)
           /\ f[c] \notin {"\n", "\\"} => TextIn(f, c + 1) = Append(TextIn(f, c), f[c])
           /\ f[c] = "\\" /\ c < n =>
                /\ EndsIn(f, c + 2) = EndsIn(f, c) /\ FirstIn(f, c + 2) = FirstIn(f, c)
                /\ ~EscapedIn(f, c + 2)
                /\ f[c + 1] = "\n" => TextIn(f, c + 2) = TextIn(f, c)
                /\ f[c + 1] # "\n" => TextIn(f, c + 2) = Append(Append(TextIn(f, c), f[c]), f[c + 1])
<1> DEFINE K == KeptIn(f, c)
           F == FirstIn(f, c)
<1>1. c \in Nat \ {0} /\ c + 1 \in Nat \ {0} /\ (c + 1) + 1 = c + 2 /\ F \in Nat
  OBVIOUS
<1>2. \A e : TextIn(f, e) = AtPlaces(f, KeptIn(f, e))
  BY DEF TextIn, AtPlaces
<1>3. K \in SUBSET (1..(c - 1)) /\ c - 1 \in Nat
  BY DEF KeptIn
<1>4. TextIn(f, c) \in Seq(Chars)
  <2> DEFINE d == c - 1
  <2>1. d \in Nat /\ K \in SUBSET (1..d) /\ \A i \in 1..d : f[i] \in Chars
    BY <1>3
  <2> HIDE DEF d, K
  <2>2. AtPlaces(f, K) \in Seq(Chars)
    BY <2>1, PlacesTyped
  <2> QED BY <1>2, <2>2 DEF K
<1>5. /\ f[c] # "\\" => ~EscapedIn(f, c + 1)
      /\ f[c] = "\\" => EscapedIn(f, c + 1)
  BY <1>1, EscapedNext
<1>6. ASSUME f[c] = "\n"
      PROVE  EndsIn(f, c + 1) = EndsIn(f, c) \cup {c} /\ FirstIn(f, c + 1) = c + 1 /\ TextIn(f, c + 1) = << >>
  <2>1. EndsIn(f, c + 1) = EndsIn(f, c) \cup {c}
    BY <1>1, <1>6, EndsNext
  <2>2. FirstIn(f, c + 1) = c + 1
    BY <1>1, <2>1, FirstNext
  <2>3. KeptIn(f, c + 1) = {}
    BY <1>1, <2>2 DEF KeptIn
  <2>4. Cardinality({}) = 0
    BY FS_EmptySet
  <2>5. AtPlaces(f, {}) = << >>
    BY <2>4 DEF AtPlaces
  <2> QED BY <1>2, <2>1, <2>2, <2>3, <2>5
<1>7. ASSUME f[c] # "\n"
      PROVE  EndsIn(f, c + 1) = EndsIn(f, c) /\ FirstIn(f, c + 1) = F
  <2>1. c \notin EndsIn(f, c + 1)
    BY <1>1, <1>7, EndsNext
  <2> QED BY <1>1, <2>1, FirstNext
<1>8. ASSUME f[c] \notin {"\n", "\\"}
      PROVE  TextIn(f, c + 1) = Append(TextIn(f, c), f[c])
  <2>1. IsKept(f, c)
    BY <1>8 DEF IsKept
  <2>2. FirstIn(f, c + 1) = F
    BY <1>7, <1>8
  <2>3. KeptIn(f, c + 1) = K \cup {c}
    <3>1. \A i : i \in F..((c + 1) - 1) <=> i \in F..(c - 1) \/ i = c
      BY <1>1
    <3> QED BY <2>1, <2>2, <3>1 DEF KeptIn
  <2>4. \A i \in 1..c : f[i] \in Chars
    OBVIOUS
  <2> HIDE DEF K
  <2>5. AtPlaces(f, K \cup {c}) = Append(AtPlaces(f, K), f[c])
    BY <1>1, <1>3, <2>4, OnePlaceMore
  <2> QED BY <1>2, <2>3, <2>5 DEF K
<1>9. ASSUME f[c] = "\\", c < n
      PROVE  /\ EndsIn(f, c + 2) = EndsIn(f, c) /\ FirstIn(f, c + 2) = F
             /\ ~EscapedIn(f, c + 2)
             /\ f[c + 1] = "\n" => TextIn(f, c + 2) = TextIn(f, c)
             /\ f[c + 1] # "\n" => TextIn(f, c + 2) = Append(Append(TextIn(f, c), f[c]), f[c + 1])
  <2> DEFINE d == c + 1
  <2>1. d \in Nat \ {0} /\ d + 1 = c + 2 /\ d - 1 = c /\ d \in 1..n
    BY <1>1, <1>9
  <2>2. EscapedIn(f, d)
    BY <1>5, <1>9
  <2>3. EndsIn(f, d) = EndsIn(f, c) /\ FirstIn(f, d) = F
    BY <1>7, <1>9
  <2>0. ~IsKept(f, c) <=> f[d] = "\n"
    BY <1>9, <2>2 DEF IsKept
  <2> HIDE DEF d
  <2>4. ~EscapedIn(f, d + 1)
    BY <2>1, <2>2, EscapedNext
  <2>5. d \notin EndsIn(f, d + 1)
    BY <2>1, <2>2, EndsNext DEF EndsIn
  <2>6. EndsIn(f, d + 1) = EndsIn(f, c) /\ FirstIn(f, d + 1) = F
    BY <2>1, <2>3, <2>5, FirstNext
  <2>7. IsKept(f, d) <=> f[d] # "\n"
    BY <2>2, <2>4 DEF IsKept
  <2>8. \A i : i \in KeptIn(f, d + 1) <=> i \in K \/ (i \in {c, d} /\ IsKept(f, i))
    <3>1. \A i : i \in F..((d + 1) - 1) <=> i \in F..(c - 1) \/ i = c \/ i = d
      BY <1>1, <2>1
    <3> QED BY <2>6, <3>1 DEF KeptIn
  <2>9. ASSUME f[d] = "\n" PROVE TextIn(f, d + 1) = TextIn(f, c)
    <3>1. KeptIn(f, d + 1) = K
      BY <2>0, <2>7, <2>8, <2>9
    <3> QED BY <1>2, <3>1
  <2>10. ASSUME f[d] # "\n" PROVE TextIn(f, d + 1) = Append(Append(TextIn(f, c), f[c]), f[d])
    <3> DEFINE L == K \cup {c}
    <3>1. KeptIn(f, d + 1) = L \cup {d}
      BY <2>0, <2>7, <2>8, <2>10
    <3>2. L \in SUBSET (1..(d - 1))
      BY <1>3, <2>1
    <3>3. (\A i \in 1..c : f[i] \in Chars) /\ (\A i \in 1..d : f[i] \in Chars)
      BY <2>1
    <3> HIDE DEF K
    <3>4. AtPlaces(f, K \cup {c}) = Append(AtPlaces(f, K), f[c])
      BY <1>1, <1>3, <3>3, OnePlaceMore
    <3> HIDE DEF L
    <3>5. AtPlaces(f, L \cup {d}) = Append(AtPlaces(f, L), f[d])
      BY <2>1, <3>2, <3>3, OnePlaceMore
    <3> QED BY <1>2, <3>1, <3>4, <3>5 DEF K, L
  <2> QED BY <2>1, <2>4, <2>6, <2>9, <2>10 DEF d
<1> QED BY <1>4, <1>5, <1>6, <1>7, <1>8, <1>9

\* What the lines say that end before n, one after the other.
Part(f, n, i)     == IF i \in EndsIn(f, n) THEN AddedOf(TextIn(f, i)) ELSE << >>
StatedIn(f, n)    == FlattenSeq([i \in 1..(n - 1) |-> Part(f, n, i)])

LEMMA PartIsOne == \A f, n, i : Part(f, n, i) = << >> \/ \E r : Part(f, n, i) = <<r>>
BY DEF Part, AddedOf

LEMMA StatedNext ==
    ASSUME NEW f, NEW c \in Nat \ {0}
    PROVE  /\ StatedIn(f, 1) = << >>
           /\ c \in EndsIn(f, c + 1) => StatedIn(f, c + 1) = StatedIn(f, c) \o AddedOf(TextIn(f, c))
           /\ c \notin EndsIn(f, c + 1) => StatedIn(f, c + 1) = StatedIn(f, c) \o << >>
<1> DEFINE d == c + 1
           b == c - 1
           none == [i \in 1..(1 - 1) |-> Part(f, 1, i)]
           q == [i \in 1..b |-> Part(f, c, i)]
           r == [i \in 1..c |-> Part(f, d, i)]
           S == {Part(f, d, i)[1] : i \in 1..c}
<1>1. d - 1 = c /\ b \in Nat /\ c \in Nat /\ c = b + 1 /\ c \in 1..c /\ d = c + 1
  OBVIOUS
<1>2. \A i \in 1..b : Part(f, c, i) = Part(f, d, i)
  <2>1. \A i \in 1..b : i # c
    OBVIOUS
  <2>2. EndsIn(f, d) = EndsIn(f, c) \cup (IF f[c] = "\n" /\ ~EscapedIn(f, c) THEN {c} ELSE {})
    BY EndsNext
  <2> QED BY <2>1, <2>2 DEF Part
<1>3. StatedIn(f, 1) = FlattenSeq(none) /\ StatedIn(f, c) = FlattenSeq(q)
  BY DEF StatedIn
<1>4. StatedIn(f, d) = FlattenSeq(r)
  <2> HIDE DEF d
  <2> QED BY <1>1 DEF StatedIn
<1>5. none = << >>
  OBVIOUS
<1> HIDE DEF d, b
<1>6. \A i \in 1..c : Part(f, d, i) \in Seq(S)
  <2> TAKE i \in 1..c
  <2>1. CASE Part(f, d, i) = << >>
    BY <2>1
  <2>2. ASSUME NEW x, Part(f, d, i) = <<x>> PROVE Part(f, d, i) \in Seq(S)
    <3>1. <<x>>[1] = x
      OBVIOUS
    <3>2. x \in S
      BY <2>2, <3>1
    <3> HIDE DEF S
    <3> QED BY <2>2, <3>2
  <2> QED BY <2>1, <2>2, PartIsOne
<1> HIDE DEF S
<1>7. q \in Seq(Seq(S)) /\ Len(q) = b /\ r \in Seq(Seq(S)) /\ Len(r) = c
  BY <1>1, <1>2, <1>6
<1>8. (\A i \in 1..b : q[i] = r[i]) /\ r[c] = Part(f, d, c)
  BY <1>1, <1>2
<1>9. Part(f, d, c) \in Seq(S)
  BY <1>1, <1>6
<1> HIDE DEF q, r, none
<1>10. r = Append(q, Part(f, d, c))
  BY <1>1, <1>7, <1>8, <1>9
<1>11. FlattenSeq(r) = FlattenSeq(q) \o Part(f, d, c) /\ FlattenSeq(<< >>) = << >>
  BY <1>7, <1>9, <1>10, Flattened
<1>12. StatedIn(f, d) = StatedIn(f, c) \o Part(f, d, c) /\ StatedIn(f, 1) = << >>
  BY <1>3, <1>4, <1>5, <1>11
<1> QED BY <1>12 DEF Part, d

\* These are the lines that the property is about.
LEMMA ConfigLines ==
    ASSUME NEW n
    PROVE  /\ Ends(n) = EndsIn(file, n)
           /\ Says(n) = SaysOf(TextIn(file, n))
           /\ AddedBy(n) = AddedOf(TextIn(file, n))
<1>1. \A i : Escaped(i) <=> EscapedIn(file, i)
  BY DEF Escaped, EscapedIn
<1>2. \A e : Ends(e) = EndsIn(file, e)
  BY <1>1 DEF Ends, EndsIn
<1>3. \A e : Line(e) = [k \in 1..Cardinality(KeptIn(file, e)) |-> Nth(KeptIn(file, e), k)]
  <2> TAKE e
  <2> DEFINE kept == {i \in FirstIn(file, e)..(e - 1) :
                        ~(EscapedIn(file, i) /\ file[i] = "\n") /\ ~(EscapedIn(file, i + 1) /\ file[i + 1] = "\n" /\ file[i] = "\\")}
             old  == {i \in (Max({0} \cup Ends(e)) + 1)..(e - 1) :
                        ~(Escaped(i) /\ file[i] = "\n") /\ ~(Escaped(i + 1) /\ file[i + 1] = "\n" /\ file[i] = "\\")}
  <2>1. kept = KeptIn(file, e)
    BY DEF KeptIn, IsKept
  <2>2. old = kept
    BY <1>1, <1>2 DEF FirstIn
  <2>3. Line(e) = [k \in 1..Cardinality(old) |-> CHOOSE i \in old : Cardinality({j \in old : j < i}) = k - 1]
    BY DEF Line, Cardinality
  <2> HIDE DEF old, kept
  <2>4. Line(e) = [k \in 1..Cardinality(kept) |-> CHOOSE i \in kept : Cardinality({j \in kept : j < i}) = k - 1]
    BY <2>2, <2>3
  <2>5. Line(e) = [k \in 1..Cardinality(kept) |-> Nth(kept, k)]
    BY <2>4 DEF Nth, Below
  <2> QED BY <2>1, <2>5
<1>4. \A e : [k \in DOMAIN Line(e) |-> file[Line(e)[k]]] = TextIn(file, e)
  <2> TAKE e
  <2> DEFINE l == Line(e)
             h == Cardinality(KeptIn(file, e))
             p(k) == Nth(KeptIn(file, e), k)
  <2>1. l = [k \in 1..h |-> p(k)]
    BY <1>3
  <2> HIDE DEF l, h, p
  <2>2. [k \in DOMAIN l |-> file[l[k]]] = [k \in 1..h |-> file[p(k)]]
    BY <2>1
  <2> QED BY <2>2 DEF l, h, p, TextIn
<1>5. \A e : Says(e) = SaysOf(TextIn(file, e))
  <2> TAKE e
  <2> DEFINE t == [k \in DOMAIN Line(e) |-> file[Line(e)[k]]]
  <2>1. Says(e) = SaysOf(t)
    BY DEF Says, SaysOf, FieldStarts, Field, FieldEnd, Nth, Below, Cardinality
  <2> QED BY <1>4, <2>1
<1>6. \A e : AddedBy(e) = AddedOf(TextIn(file, e))
  BY <1>5 DEF AddedBy, AddedOf
<1> QED BY <1>2, <1>5, <1>6

LEMMA ConfigStates == \A n : Stated(n) = StatedIn(file, n)
<1> TAKE n
<1>1. \A i : AddedBy(i) = AddedOf(TextIn(file, i))
  BY ConfigLines
<1>2. Ends(n) = EndsIn(file, n)
  BY ConfigLines
<1> DEFINE q == [i \in 1..(n - 1) |-> IF i \in Ends(n) THEN AddedBy(i) ELSE << >>]
           r == [i \in 1..(n - 1) |-> Part(file, n, i)]
<1>3. q = r
  BY <1>1, <1>2 DEF Part
<1>4. Stated(n) = FlattenSeq(q) /\ StatedIn(file, n) = FlattenSeq(r)
  BY DEF Stated, StatedIn
<1> HIDE DEF q, r
<1> QED BY <1>3, <1>4

LEMMA StrippedTyped ==
    ASSUME NEW S, NEW p \in Seq(S)
    PROVE  \E T : /\ Stripped(p) \in Seq(T) /\ Len(Stripped(p)) = Len(p) /\ Len(p) \in Nat
                  /\ \A i \in 1..Len(p) : Stripped(p)[i] = [kind |-> p[i].kind, key |-> p[i].key, text |-> p[i].text]
<1> DEFINE Plain(e) == [kind |-> e.kind, key |-> e.key, text |-> e.text]
           T == {Plain(e) : e \in S}
<1>1. Len(p) \in Nat /\ DOMAIN p = 1..Len(p) /\ \A i \in 1..Len(p) : p[i] \in S
  BY LenProperties, ElementOfSeq
<1>2. Stripped(p) = [i \in 1..Len(p) |-> Plain(p[i])]
  BY <1>1 DEF Stripped
<1>3. \A i \in 1..Len(p) : Plain(p[i]) \in T
  BY <1>1
<1> HIDE DEF Plain, T
<1>4. Stripped(p) \in Seq(T) /\ Len(Stripped(p)) = Len(p) /\ \A i \in 1..Len(p) : Stripped(p)[i] = Plain(p[i])
  BY <1>1, <1>2, <1>3
<1> QED BY <1>1, <1>4 DEF Plain

LEMMA StrippedConcat ==
    ASSUME NEW S, NEW p \in Seq(S), NEW q \in Seq(S)
    PROVE  Stripped(p \o q) = Stripped(p) \o Stripped(q)
<1> DEFINE Plain(e) == [kind |-> e.kind, key |-> e.key, text |-> e.text]
           r == p \o q
           a == Stripped(p)
           b == Stripped(q)
           c == Stripped(r)
           d == a \o b
<1>1. r \in Seq(S) /\ Len(r) = Len(p) + Len(q) /\ \A i \in 1..Len(r) : r[i] = IF i <= Len(p) THEN p[i] ELSE q[i - Len(p)]
  BY ConcatProperties
<1> HIDE DEF Plain, r
<1>2. PICK A : a \in Seq(A) /\ Len(a) = Len(p) /\ Len(p) \in Nat /\ \A i \in 1..Len(p) : a[i] = Plain(p[i])
  BY StrippedTyped DEF Plain
<1>3. PICK B : b \in Seq(B) /\ Len(b) = Len(q) /\ Len(q) \in Nat /\ \A i \in 1..Len(q) : b[i] = Plain(q[i])
  BY StrippedTyped DEF Plain
<1>4. PICK C : c \in Seq(C) /\ Len(c) = Len(r) /\ \A i \in 1..Len(r) : c[i] = Plain(r[i])
  BY <1>1, StrippedTyped DEF Plain
<1> HIDE DEF a, b, c
<1> DEFINE D == A \cup B
<1>5. a \in Seq(D) /\ b \in Seq(D)
  BY <1>2, <1>3, SeqMonotonic
<1> HIDE DEF D
<1>6. d \in Seq(D) /\ Len(d) = Len(a) + Len(b) /\ \A i \in 1..Len(d) : d[i] = IF i <= Len(a) THEN a[i] ELSE b[i - Len(a)]
  BY <1>5, ConcatProperties
<1> HIDE DEF d
<1>7. \A i \in 1..Len(r) : c[i] = d[i]
  <2> TAKE i \in 1..Len(r)
  <2>1. CASE i <= Len(p)
    <3>1. i \in 1..Len(p) /\ i \in 1..Len(d)
      BY <1>1, <1>2, <1>3, <1>6, <2>1
    <3> QED BY <1>1, <1>2, <1>4, <1>6, <2>1, <3>1
  <2>2. CASE ~(i <= Len(p))
    <3>1. i - Len(p) \in 1..Len(q) /\ i \in 1..Len(d)
      BY <1>1, <1>2, <1>3, <1>6, <2>2
    <3>2. r[i] = q[i - Len(p)] /\ d[i] = b[i - Len(p)]
      BY <1>1, <1>2, <1>6, <2>2, <3>1
    <3> QED BY <1>3, <1>4, <3>1, <3>2
  <2> QED BY <2>1, <2>2
<1>8. c = d
  <2>1. Len(c) = Len(d) /\ \A i \in 1..Len(c) : c[i] = d[i]
    BY <1>1, <1>2, <1>3, <1>4, <1>6, <1>7
  <2>2. c \in Seq(C) /\ d \in Seq(D)
    BY <1>4, <1>6
  <2> QED BY <2>1, <2>2, SeqEqual
<1> QED BY <1>8 DEF a, b, c, d, r

LEMMA StatedSame ==
    ASSUME NEW f, NEW c \in Nat \ {0}, NEW d \in {c + 1, c + 2}, EndsIn(f, d) = EndsIn(f, c),
           NEW S, StatedIn(f, c) \in Seq(S)
    PROVE  StatedIn(f, d) = StatedIn(f, c)
<1>1. \A i \in EndsIn(f, c) : i \in 1..(c - 1)
  BY DEF EndsIn
<1>2. ASSUME NEW e \in Nat \ {0}, e \notin EndsIn(f, e + 1), StatedIn(f, e) = StatedIn(f, c)
      PROVE  StatedIn(f, e + 1) = StatedIn(f, c)
  <2>1. StatedIn(f, e + 1) = StatedIn(f, e) \o << >>
    BY <1>2, StatedNext
  <2>2. StatedIn(f, c) \o << >> = StatedIn(f, c)
    BY ConcatEmptySeq
  <2> QED BY <1>2, <2>1, <2>2
<1>3. CASE d = c + 1
  <2>1. c \notin EndsIn(f, c + 1)
    BY <1>1, <1>3
  <2> QED BY <1>2, <1>3, <2>1
<1>4. CASE d = c + 2
  <2> DEFINE e == c + 1
  <2>1. e \in Nat \ {0} /\ e + 1 = d /\ e - 1 = c
    BY <1>4
  <2>2. c \notin EndsIn(f, e) /\ e \notin EndsIn(f, d)
    <3>1. ~(c \in 1..(c - 1)) /\ ~(e \in 1..(c - 1)) /\ c \in 1..e
      OBVIOUS
    <3>2. c \in EndsIn(f, e) => c \in EndsIn(f, d)
      BY <2>1, <3>1 DEF EndsIn
    <3> QED BY <1>1, <3>1, <3>2
  <2>3. StatedIn(f, e) = StatedIn(f, c)
    BY <1>2, <2>2
  <2> HIDE DEF e
  <2> QED BY <1>2, <2>1, <2>2, <2>3
<1> QED BY <1>3, <1>4

\* The lines are complete that have been of the application.
Complete(f, c) == \A e \in EndsIn(f, c) : SaysOf(TextIn(f, e)).ours => SaysOf(TextIn(f, e)).complete

\* The buffer from base on holds the line so far, behind white space.
Holds(b, d, base, t) ==
    /\ \A j \in 1..(base - 1) : b[j] \in Space
    /\ d = base + Len(t)
    /\ Stands(b, base, t, 1, Len(t))

\* The entries are what the lines say, and the buffer holds the line so far.
LinesInv ==
    /\ FirstIn(file, chptr) \in 1..chptr
    /\ chptr <= Len(file) => /\ ~EscapedIn(file, chptr)
                             /\ \E base \in 1..dst : Holds(buf, dst, base, TextIn(file, chptr))
    /\ Complete(file, chptr) => status # "wild" /\ Stripped(entries) = StatedIn(file, chptr)

LEMMA LinesInit == Init => LinesInv
<1> SUFFICES ASSUME Init PROVE LinesInv
  OBVIOUS
<1>1. chptr = 1 /\ dst = 1 /\ entries = << >> /\ status = "reading" /\ file \in Files
  BY DEF Init
<1>2. FirstIn(file, 1) = 1 /\ ~EscapedIn(file, 1) /\ StatedIn(file, 1) = << >>
  <2>1. 1 \in Nat \ {0}
    OBVIOUS
  <2> QED BY <2>1, FirstFirst, EscapedNext, StatedNext
<1>3. TextIn(file, 1) = << >>
  <2>1. KeptIn(file, 1) = {}
    BY <1>2 DEF KeptIn
  <2>2. Cardinality({}) = 0
    BY FS_EmptySet
  <2>3. AtPlaces(file, {}) = << >>
    BY <2>2 DEF AtPlaces
  <2>4. TextIn(file, 1) = AtPlaces(file, KeptIn(file, 1))
    BY DEF TextIn, AtPlaces
  <2> QED BY <2>1, <2>3, <2>4
<1>4. Holds(buf, dst, 1, << >>)
  BY <1>1 DEF Holds, Stands
<1>5. Stripped(<< >>) = << >>
  BY DEF Stripped
<1> QED BY <1>1, <1>2, <1>3, <1>4, <1>5 DEF LinesInv

\* The next line begins where this one began.
LEMMA LinesNewline == IInv /\ LinesInv /\ Newline => LinesInv'
<1> SUFFICES ASSUME IInv, LinesInv, Newline PROVE LinesInv'
  OBVIOUS
<1> DEFINE n     == Len(file) + 1
           b     == [buf EXCEPT ![dst] = NUL]
           line  == Skip(b, 1)
           found == Found(b, line)
           t     == TextIn(file, chptr)
<1>1. /\ buf' = found.buf /\ dst' = line /\ entries' = entries \o found.added
      /\ status' = (IF found.wild THEN "wild" ELSE status)
      /\ chptr' = chptr + 1 /\ file' = file /\ chptr <= Len(file) /\ file[chptr] = "\n"
      /\ status = "reading"
  BY NewlineStep
<1>2. /\ Len(file) \in Nat /\ n \in Nat /\ \A i \in 1..Len(file) : file[i] \in Chars
      /\ chptr \in 1..Len(file) /\ chptr \in Nat \ {0} /\ dst \in 1..chptr /\ DOMAIN buf = 1..n
  BY <1>1, FileTyped DEF IInv
<1>3. FirstIn(file, chptr) \in 1..chptr /\ ~EscapedIn(file, chptr)
  BY <1>1 DEF LinesInv
<1>4. PICK base \in 1..dst : Holds(buf, dst, base, t)
  BY <1>1 DEF LinesInv
<1>5. /\ t \in Seq(Chars) /\ ~EscapedIn(file, chptr + 1)
      /\ EndsIn(file, chptr + 1) = EndsIn(file, chptr) \cup {chptr}
      /\ FirstIn(file, chptr + 1) = chptr + 1 /\ TextIn(file, chptr + 1) = << >>
  <2> DEFINE l == Len(file)
  <2>1. l \in Nat /\ (\A i \in 1..l : file[i] \in Chars) /\ chptr \in 1..l
    BY <1>2
  <2> HIDE DEF l
  <2>2. /\ TextIn(file, chptr) \in Seq(Chars)
        /\ file[chptr] # "\\" => ~EscapedIn(file, chptr + 1)
        /\ file[chptr] = "\n" => /\ EndsIn(file, chptr + 1) = EndsIn(file, chptr) \cup {chptr}
                                 /\ FirstIn(file, chptr + 1) = chptr + 1 /\ TextIn(file, chptr + 1) = << >>
    BY <1>3, <2>1, TextNext
  <2> QED BY <1>1, <2>2
<1>6. /\ \E m \in dst..n : Filled(b, n, m)
      /\ line \in 1..dst
  BY <1>1, LineComplete
<1>7. PICK m \in dst..n : Filled(b, n, m)
  BY <1>6
<1>8. /\ b[dst] = NUL /\ \A j \in 1..n : j # dst => b[j] = buf[j]
  BY <1>2
<1> HIDE DEF b, line, found, t
<1>9. /\ \A j \in 1..(base - 1) : buf[j] \in Space
      /\ dst = base + Len(t)
      /\ \A k \in 1..Len(t) : buf[base + k - 1] = t[k]
      /\ Len(t) \in Nat
  BY <1>4, <1>5, LenProperties DEF Holds, Stands
<1>10. line \in 1..m /\ line \in Nat /\ base \in 1..m /\ base + Len(t) <= m
  BY <1>2, <1>4, <1>6, <1>7, <1>9
<1>11. /\ \A j \in 1..line : found.buf[j] = b[j]
       /\ found.added = << >> \/ \E e : found.added = <<e>> /\ IsEntry(e)
  <2>1. line \in 1..m
    BY <1>10
  <2> HIDE DEF n
  <2>2. \A j \in 1..line : Found(b, line).buf[j] = b[j]
    BY <1>7, <2>1, FoundKeeps DEF IInv
  <2>3. Found(b, line).added = << >> \/ \E e : Found(b, line).added = <<e>> /\ IsEntry(e)
    BY <1>7, <2>1, FoundKeeps DEF IInv
  <2> QED BY <2>2, <2>3 DEF found
<1>12. \A j \in 1..(line - 1) : b[j] \in Space
  <2>1. 1 \in 1..m
    BY <1>10
  <2> QED BY <1>7, <2>1, SkipTo DEF line
<1>13. Holds(found.buf, line, line, << >>)
  <2>1. \A j \in 1..(line - 1) : found.buf[j] \in Space
    <3>1. \A j \in 1..(line - 1) : j \in 1..line
      BY <1>10
    <3> QED BY <1>11, <1>12, <3>1
  <2>2. line = line + Len(<< >>)
    BY <1>10
  <2>3. Stands(found.buf, line, << >>, 1, Len(<< >>))
    BY DEF Stands
  <2> QED BY <2>1, <2>2, <2>3 DEF Holds
<1>14. ASSUME Complete(file, chptr + 1)
       PROVE  status' # "wild" /\ Stripped(entries') = StatedIn(file, chptr + 1)
  <2>1. Complete(file, chptr) /\ (SaysOf(t).ours => SaysOf(t).complete)
    BY <1>5, <1>14 DEF Complete, t
  <2>2. Stripped(entries) = StatedIn(file, chptr)
    BY <2>1 DEF LinesInv
  <2>3. found.wild = FALSE /\ Stripped(found.added) = AddedOf(t)
    <3>1. Stands(b, base, t, 1, Len(t))
      <4>1. \A k \in 1..Len(t) : base + k - 1 \in 1..n /\ base + k - 1 # dst
        BY <1>2, <1>7, <1>9, <1>10
      <4> QED BY <1>8, <1>9, <4>1 DEF Stands
    <3>2. b[base + Len(t)] = NUL
      BY <1>8, <1>9
    <3>3. \A j \in 1..(base - 1) : b[j] \in Space
      <4>1. \A j \in 1..(base - 1) : j \in 1..n /\ j # dst
        BY <1>2, <1>7, <1>9, <1>10
      <4> QED BY <1>8, <1>9, <4>1
    <3> QED BY <1>5, <1>7, <1>10, <2>1, <3>1, <3>2, <3>3, LineSays DEF found, line, IInv
  <2>4. Stripped(entries') = Stripped(entries) \o Stripped(found.added)
    <3>1. PICK S : entries \in Seq(S)
      BY DEF IInv
    <3>2. PICK T : S \subseteq T /\ found.added \in Seq(T)
      <4>1. CASE found.added = << >>
        BY <4>1, EmptySeq
      <4>2. CASE \E e : found.added = <<e>> /\ IsEntry(e)
        <5>1. PICK e : found.added = <<e>>
          BY <4>2
        <5> DEFINE T == S \cup {e}
        <5>2. <<e>> \in Seq(T) /\ S \subseteq T
          OBVIOUS
        <5> QED BY <5>1, <5>2
      <4> QED BY <1>11, <4>1, <4>2
    <3>3. entries \in Seq(T)
      BY <3>1, <3>2, SeqMonotonic
    <3> QED BY <1>1, <3>2, <3>3, StrippedConcat
  <2>5. StatedIn(file, chptr + 1) = StatedIn(file, chptr) \o AddedOf(t)
    <3>1. chptr \in EndsIn(file, chptr + 1)
      BY <1>5
    <3> QED BY <1>2, <3>1, StatedNext DEF t
  <2>6. status' # "wild"
    BY <1>1, <2>3
  <2> QED BY <2>2, <2>3, <2>4, <2>5, <2>6
<1>15. FirstIn(file', chptr') \in 1..chptr'
  BY <1>1, <1>2, <1>5
<1>16. ~EscapedIn(file', chptr') /\ \E h \in 1..dst' : Holds(buf', dst', h, TextIn(file', chptr'))
  <2>1. line \in 1..dst'
    BY <1>1, <1>10
  <2> QED BY <1>1, <1>5, <1>13, <2>1
<1>17. Complete(file', chptr') => status' # "wild" /\ Stripped(entries') = StatedIn(file', chptr')
  BY <1>1, <1>14
<1> QED BY <1>15, <1>16, <1>17 DEF LinesInv

\* The other turns put the line on.
LEMMA LinesPut == IInv /\ LinesInv /\ (Backslash \/ Other) => LinesInv'
<1> SUFFICES ASSUME IInv, LinesInv, Backslash \/ Other PROVE LinesInv'
  OBVIOUS
<1> DEFINE l == Len(file)
           n == l + 1
           t == TextIn(file, chptr)
<1>1. /\ chptr <= l /\ file[chptr] # "\n" /\ status = "reading"
      /\ \/ Put(<<file[chptr]>>, 1) /\ (file[chptr] = "\\" => chptr = l)
         \/ /\ file[chptr] = "\\" /\ chptr < l
            /\ file[chptr + 1] = "\n"
            /\ Put(<< >>, 2)
         \/ /\ file[chptr] = "\\" /\ chptr < l
            /\ file[chptr + 1] # "\n"
            /\ Put(<<file[chptr], file[chptr + 1]>>, 2)
  BY PutStep
<1>2. /\ l \in Nat /\ n \in Nat /\ n = l + 1 /\ \A i \in 1..l : file[i] \in Chars
      /\ chptr \in 1..l /\ chptr \in Nat \ {0} /\ dst \in 1..chptr /\ DOMAIN buf = 1..n
  <2>1. l \in Nat /\ n \in Nat /\ n = l + 1 /\ \A i \in 1..l : file[i] \in Chars
    BY FileTyped DEF IInv
  <2>2. chptr \in Nat \ {0} /\ dst \in 1..chptr /\ DOMAIN buf = 1..n
    BY DEF IInv
  <2> HIDE DEF l, n
  <2>3. chptr \in 1..l
    BY <1>1, <2>1, <2>2
  <2> QED BY <2>1, <2>2, <2>3
<1>3. FirstIn(file, chptr) \in 1..chptr /\ ~EscapedIn(file, chptr)
  BY <1>1 DEF LinesInv
<1>4. PICK base \in 1..dst : Holds(buf, dst, base, t)
  BY <1>1 DEF LinesInv
<1> HIDE DEF l, n
<1>5. /\ t \in Seq(Chars)
      /\ file[chptr] # "\\" => ~EscapedIn(file, chptr + 1)
      /\ EndsIn(file, chptr + 1) = EndsIn(file, chptr) /\ FirstIn(file, chptr + 1) = FirstIn(file, chptr)
      /\ file[chptr] # "\\" => TextIn(file, chptr + 1) = Append(t, file[chptr])
      /\ file[chptr] = "\\" /\ chptr < l =>
           /\ EndsIn(file, chptr + 2) = EndsIn(file, chptr) /\ FirstIn(file, chptr + 2) = FirstIn(file, chptr)
           /\ ~EscapedIn(file, chptr + 2)
           /\ file[chptr + 1] = "\n" => TextIn(file, chptr + 2) = t
           /\ file[chptr + 1] # "\n" => TextIn(file, chptr + 2) = Append(Append(t, file[chptr]), file[chptr + 1])
  <2>1. /\ l \in Nat /\ chptr \in 1..l /\ \A i \in 1..l : file[i] \in Chars
        /\ ~EscapedIn(file, chptr) /\ FirstIn(file, chptr) \in 1..chptr
    BY <1>2, <1>3
  <2> HIDE DEF t
  <2>2. /\ TextIn(file, chptr) \in Seq(Chars)
        /\ file[chptr] # "\\" => ~EscapedIn(file, chptr + 1)
        /\ file[chptr] # "\n" => /\ EndsIn(file, chptr + 1) = EndsIn(file, chptr)
                                 /\ FirstIn(file, chptr + 1) = FirstIn(file, chptr)
        /\ file[chptr] \notin {"\n", "\\"} => TextIn(file, chptr + 1) = Append(TextIn(file, chptr), file[chptr])
    BY <2>1, TextNext
  <2>3. file[chptr] = "\\" /\ chptr < l =>
           /\ EndsIn(file, chptr + 2) = EndsIn(file, chptr) /\ FirstIn(file, chptr + 2) = FirstIn(file, chptr)
           /\ ~EscapedIn(file, chptr + 2)
           /\ file[chptr + 1] = "\n" => TextIn(file, chptr + 2) = TextIn(file, chptr)
           /\ file[chptr + 1] # "\n" =>
                 TextIn(file, chptr + 2) = Append(Append(TextIn(file, chptr), file[chptr]), file[chptr + 1])
    BY <2>1, TextNext
  <2> QED BY <1>1, <2>2, <2>3 DEF t
<1> HIDE DEF t
<1>6. /\ \A j \in 1..(base - 1) : buf[j] \in Space
      /\ dst = base + Len(t) /\ Stands(buf, base, t, 1, Len(t))
      /\ Len(t) \in Nat /\ base \in Nat \ {0}
  BY <1>2, <1>4, <1>5, LenProperties DEF Holds
\* Whatever is put, the buffer holds the line with it.
<1>7. ASSUME NEW cs, NEW consumed \in {1, 2}, Put(cs, consumed), NEW k \in 0..consumed, Len(cs) = k,
             chptr + consumed <= n, NEW u, Len(u) = Len(t) + k,
             \A i \in 1..Len(t) : u[i] = t[i], \A i \in 1..k : u[Len(t) + i] = cs[i]
      PROVE  Holds(buf', dst', base, u) /\ base \in 1..dst'
  <2>1. chptr' = chptr + consumed /\ dst' = dst + k
    BY <1>7 DEF Put
  <2>2. \A j \in 1..n : buf'[j] = IF j \in dst..(dst + k - 1) THEN cs[j - dst + 1] ELSE buf[j]
    BY <1>2, <1>7 DEF Put
  <2> DEFINE h == Len(t)
  <2>3. /\ h \in Nat /\ dst = base + h /\ base + h + k <= n + 1 /\ k \in Nat
        /\ \A i \in 1..h : u[i] = t[i]
        /\ \A i \in 1..k : u[h + i] = cs[i]
        /\ Stands(buf, base, t, 1, h) /\ Len(u) = h + k
    BY <1>2, <1>6, <1>7
  <2> HIDE DEF h
  <2>4. \A j \in 1..n : buf'[j] = IF j \in (base + h)..(base + h + k - 1) THEN cs[j - (base + h) + 1] ELSE buf[j]
    BY <2>2, <2>3
  <2> DEFINE c == buf'
  <2>5. \A j \in 1..n : c[j] = IF j \in (base + h)..(base + h + k - 1) THEN cs[j - (base + h) + 1] ELSE buf[j]
    BY <2>4
  <2> HIDE DEF c
  <2>6. Stands(c, base, u, 1, h + k) /\ \A j \in 1..(base - 1) : c[j] = buf[j]
    <3>1. /\ n \in Nat /\ DOMAIN buf = 1..n /\ base \in Nat \ {0} /\ h \in Nat /\ k \in Nat
          /\ base + h + k <= n + 1
      BY <1>2, <1>6, <2>3
    <3>2. ASSUME NEW i \in 1..(h + k) PROVE c[base + i - 1] = u[i]
      <4> DEFINE j == base + i - 1
      <4>1. j \in 1..n
        BY <3>1
      <4>2. CASE i <= h
        <5>1. i \in 1..h /\ j \notin (base + h)..(base + h + k - 1)
          BY <3>1, <4>2
        <5>2. buf[j] = t[i]
          BY <2>3, <5>1 DEF Stands
        <5>3. c[j] = buf[j]
          <6> HIDE DEF j
          <6> QED BY <2>5, <4>1, <5>1
        <5> QED BY <2>3, <5>1, <5>2, <5>3
      <4>3. CASE ~(i <= h)
        <5> DEFINE o == i - h
        <5>1. o \in 1..k /\ h + o = i /\ j \in (base + h)..(base + h + k - 1) /\ j - (base + h) + 1 = o
          BY <3>1, <4>3
        <5> HIDE DEF o
        <5>2. u[i] = cs[o]
          BY <2>3, <5>1
        <5>3. c[j] = cs[o]
          <6> HIDE DEF j
          <6> QED BY <2>5, <4>1, <5>1
        <5> QED BY <5>2, <5>3
      <4> QED BY <4>2, <4>3
    <3>3. \A j \in 1..(base - 1) : c[j] = buf[j]
      BY <2>5, <3>1
    <3> QED BY <3>2, <3>3 DEF Stands
  <2>7. \A j \in 1..(base - 1) : c[j] \in Space
    BY <1>6, <2>6
  <2>8. dst' = base + Len(u) /\ base \in 1..dst'
    BY <1>6, <2>1, <2>3
  <2> QED BY <2>3, <2>6, <2>7, <2>8 DEF Holds, c
\* No line ends.
<1>8. ASSUME NEW cs, NEW consumed \in {1, 2}, Put(cs, consumed),
             EndsIn(file, chptr + consumed) = EndsIn(file, chptr),
             FirstIn(file, chptr + consumed) = FirstIn(file, chptr)
      PROVE  /\ file' = file /\ chptr' = chptr + consumed
             /\ FirstIn(file', chptr') \in 1..chptr'
             /\ Complete(file', chptr') => status' # "wild" /\ Stripped(entries') = StatedIn(file', chptr')
  <2>1. chptr' = chptr + consumed /\ file' = file /\ entries' = entries /\ status' = status
    BY <1>8 DEF Put
  <2>2. FirstIn(file', chptr') \in 1..chptr'
    BY <1>2, <1>3, <1>8, <2>1
  <2>3. ASSUME Complete(file', chptr')
        PROVE  status' # "wild" /\ Stripped(entries') = StatedIn(file', chptr')
    <3>1. Complete(file, chptr)
      BY <1>8, <2>1, <2>3 DEF Complete
    <3>2. status # "wild" /\ Stripped(entries) = StatedIn(file, chptr)
      BY <3>1 DEF LinesInv
    <3>3. \E T : StatedIn(file, chptr) \in Seq(T)
      <4>1. PICK S : entries \in Seq(S)
        BY DEF IInv
      <4> QED BY <3>2, <4>1, StrippedTyped
    <3> DEFINE d == chptr + consumed
    <3>4. d \in {chptr + 1, chptr + 2} /\ EndsIn(file, d) = EndsIn(file, chptr)
      BY <1>8
    <3> HIDE DEF d
    <3>5. StatedIn(file, d) = StatedIn(file, chptr)
      BY <1>2, <3>3, <3>4, StatedSame
    <3> QED BY <2>1, <3>2, <3>5 DEF d
  <2> QED BY <2>1, <2>2, <2>3
<1>9. \A q \in Seq(Chars), x \in Chars : /\ Append(q, x) \in Seq(Chars) /\ Len(Append(q, x)) = Len(q) + 1
                                        /\ Append(q, x)[Len(q) + 1] = x
                                        /\ \A i \in 1..Len(q) : Append(q, x)[i] = q[i]
  BY AppendProperties
<1>10. file[chptr] \in Chars
  BY <1>2
<1>11. CASE Put(<<file[chptr]>>, 1) /\ (file[chptr] = "\\" => chptr = l)
  <2> DEFINE x  == file[chptr]
             cs == <<x>>
             u  == Append(t, x)
  <2>1. /\ file' = file /\ chptr' = chptr + 1
        /\ FirstIn(file', chptr') \in 1..chptr'
        /\ Complete(file', chptr') => status' # "wild" /\ Stripped(entries') = StatedIn(file', chptr')
    BY <1>5, <1>8, <1>11
  <2>2. ASSUME chptr' <= Len(file')
        PROVE  ~EscapedIn(file', chptr') /\ \E h \in 1..dst' : Holds(buf', dst', h, TextIn(file', chptr'))
    <3>1. x # "\\"
      BY <1>2, <1>11, <2>1, <2>2 DEF l
    <3>2. ~EscapedIn(file', chptr') /\ TextIn(file', chptr') = u
      BY <1>5, <2>1, <3>1
    <3>3. Len(cs) = 1 /\ cs[1] = x
      OBVIOUS
    <3>4. Put(cs, 1)
      BY <1>11
    <3> HIDE DEF x
    <3>5. Len(u) = Len(t) + 1 /\ u[Len(t) + 1] = x /\ \A i \in 1..Len(t) : u[i] = t[i]
      BY <1>5, <1>9, <1>10 DEF x
    <3> HIDE DEF u, cs
    <3>6. chptr + 1 <= n
      BY <1>2
    <3>7. \A i \in 1..1 : u[Len(t) + i] = cs[i]
      BY <3>3, <3>5
    <3>8. Holds(buf', dst', base, u) /\ base \in 1..dst'
      BY <1>7, <3>3, <3>4, <3>5, <3>6, <3>7
    <3> QED BY <3>2, <3>8
  <2> QED BY <2>1, <2>2 DEF LinesInv
<1>12. CASE file[chptr] = "\\" /\ chptr < l /\ file[chptr + 1] = "\n" /\ Put(<< >>, 2)
  <2>1. /\ file' = file /\ chptr' = chptr + 2
        /\ FirstIn(file', chptr') \in 1..chptr'
        /\ Complete(file', chptr') => status' # "wild" /\ Stripped(entries') = StatedIn(file', chptr')
    BY <1>5, <1>8, <1>12
  <2>2. ~EscapedIn(file', chptr') /\ TextIn(file', chptr') = t
    BY <1>5, <1>12, <2>1
  <2> DEFINE cs == << >>
  <2>3. Len(cs) = 0 /\ Put(cs, 2)
    BY <1>12
  <2> HIDE DEF cs
  <2>4. chptr + 2 <= n /\ Len(t) = Len(t) + 0 /\ 0 \in 0..2
    BY <1>2, <1>6, <1>12
  <2>5. Holds(buf', dst', base, t) /\ base \in 1..dst'
    BY <1>7, <2>3, <2>4
  <2> QED BY <2>1, <2>2, <2>5 DEF LinesInv
<1>13. CASE file[chptr] = "\\" /\ chptr < l /\ file[chptr + 1] # "\n" /\ Put(<<file[chptr], file[chptr + 1]>>, 2)
  <2> DEFINE x  == file[chptr]
             y  == file[chptr + 1]
             cs == <<x, y>>
             v  == Append(t, x)
             u  == Append(v, y)
  <2>1. /\ file' = file /\ chptr' = chptr + 2
        /\ FirstIn(file', chptr') \in 1..chptr'
        /\ Complete(file', chptr') => status' # "wild" /\ Stripped(entries') = StatedIn(file', chptr')
    BY <1>5, <1>8, <1>13
  <2>2. ~EscapedIn(file', chptr') /\ TextIn(file', chptr') = u
    BY <1>5, <1>13, <2>1
  <2>3. Len(cs) = 2 /\ cs[1] = x /\ cs[2] = y
    OBVIOUS
  <2>4. Put(cs, 2)
    BY <1>13
  <2>5. chptr + 2 <= n /\ x \in Chars /\ y \in Chars
    BY <1>2, <1>13
  <2> HIDE DEF x, y
  <2>6. v \in Seq(Chars) /\ Len(v) = Len(t) + 1 /\ v[Len(t) + 1] = x /\ \A i \in 1..Len(t) : v[i] = t[i]
    BY <1>5, <1>9, <2>5
  <2> HIDE DEF v
  <2>7. Len(u) = Len(v) + 1 /\ u[Len(v) + 1] = y /\ \A i \in 1..Len(v) : u[i] = v[i]
    BY <1>9, <2>5, <2>6
  <2> HIDE DEF u, cs
  <2>8. /\ Len(u) = Len(t) + 2 /\ \A i \in 1..Len(t) : u[i] = t[i]
        /\ u[Len(t) + 1] = x /\ u[Len(t) + 2] = y
    <3>1. Len(t) + 1 \in 1..Len(v) /\ Len(v) + 1 = Len(t) + 2 /\ \A i \in 1..Len(t) : i \in 1..Len(v)
      BY <1>6, <2>6
    <3> QED BY <2>6, <2>7, <3>1
  <2>9. \A i \in 1..2 : u[Len(t) + i] = cs[i]
    <3>1. \A i \in 1..2 : i = 1 \/ i = 2
      OBVIOUS
    <3> QED BY <2>3, <2>8, <3>1
  <2>10. Holds(buf', dst', base, u) /\ base \in 1..dst'
    BY <1>7, <2>3, <2>4, <2>5, <2>8, <2>9
  <2> QED BY <2>1, <2>2, <2>10 DEF LinesInv
<1> QED BY <1>1, <1>11, <1>12, <1>13

LEMMA LinesStep == IInv /\ LinesInv /\ [Next]_vars => LinesInv'
<1> SUFFICES ASSUME IInv, LinesInv, EndOfFile \/ UNCHANGED vars PROVE LinesInv'
  BY LinesNewline, LinesPut DEF Next
<1>1. UNCHANGED <<file, chptr, buf, dst, entries>> /\ (status' = status \/ status' = "done")
  BY DEF EndOfFile, vars
<1>2. FirstIn(file', chptr') \in 1..chptr'
  BY <1>1 DEF LinesInv
<1>3. chptr' <= Len(file') => ~EscapedIn(file', chptr') /\ \E base \in 1..dst' : Holds(buf', dst', base, TextIn(file', chptr'))
  BY <1>1 DEF LinesInv
<1>4. Complete(file', chptr') => status' # "wild" /\ Stripped(entries') = StatedIn(file', chptr')
  BY <1>1 DEF LinesInv
<1> QED BY <1>2, <1>3, <1>4 DEF LinesInv

LEMMA LinesMean == LinesInv => MeansItsLines
<1> SUFFICES ASSUME LinesInv, \A e \in Ends(chptr) : Says(e).ours => Says(e).complete
             PROVE  /\ status # "wild"
                    /\ [i \in DOMAIN entries |-> [kind |-> entries[i].kind, key |-> entries[i].key, text |-> entries[i].text]]
                          = Stated(chptr)
  BY DEF MeansItsLines
<1>1. Complete(file, chptr)
  BY ConfigLines DEF Complete
<1> QED BY <1>1, ConfigStates DEF LinesInv, Stripped

-----------------------------------------------------------------------------
(* The theorem *)

\* What a configuration file adds is what its lines say, in their order,
\* however they are indented, continued or commented out and whatever the
\* buffer still holds of longer lines, while no line of the application lacks
\* a field; and the words of an alias are those that were written, with
\* backslashes or in quotes, whatever their characters (poptconfig.c:103-125,
\* poptparse.c:51-90).
THEOREM ConfigCorrect == PoptConfigAssumption /\ Spec => [](TypeOK /\ MeansItsLines /\ WordsKept)
<1> SUFFICES ASSUME PoptConfigAssumption PROVE Spec => [](TypeOK /\ MeansItsLines /\ WordsKept)
  OBVIOUS
<1>1. Init => IInv /\ LinesInv
  BY ConfigInit, LinesInit
<1>2. IInv /\ LinesInv /\ [Next]_vars => IInv' /\ LinesInv'
  BY ConfigStep, LinesStep
<1>3. IInv /\ LinesInv => TypeOK /\ MeansItsLines /\ WordsKept
  BY ConfigMeans, LinesMean
<1> QED BY <1>1, <1>2, <1>3, PTL DEF Spec
=============================================================================
