--------------------------- MODULE GettextProofs ----------------------------
(* Proofs about the translation library (module Gettext): the list of      *)
(* bindings, with its searches that stop early, answers as a map does.     *)
EXTENDS Gettext, FiniteSetTheorems, SequenceTheorems, TLAPS

-----------------------------------------------------------------------------
(* Natural numbers and definitions by recursion *)

LEMMA LeastNat ==
    ASSUME NEW S \in SUBSET Nat, S # {}
    PROVE  \E m \in S : \A n \in S : m <= n
<1> DEFINE T == {0..n : n \in S}
           U == FiniteSubsetsOf(Nat)
<1>1. IsWellFoundedOn(StrictSubsetOrdering(Nat), U)
  BY FS_StrictSubsetOrderingWellFounded
<1>2. T \subseteq U /\ T # {}
  <2>1. \A n \in S : 0..n \in U
    <3> TAKE n \in S
    <3>1. IsFiniteSet(0..n)
      BY FS_Interval
    <3> QED BY <3>1 DEF FiniteSubsetsOf
  <2> QED BY <2>1
<1>3. PICK t \in T : \A u \in T : <<u, t>> \notin StrictSubsetOrdering(Nat)
  <2> HIDE DEF T, U
  <2> QED BY <1>1, <1>2, WFMin
<1>4. PICK m \in S : t = 0..m
  OBVIOUS
<1>5. ASSUME NEW n \in S, n < m PROVE FALSE
  <2>1. 0..n \in T /\ 0..n \in SUBSET Nat /\ 0..m \in SUBSET Nat
    OBVIOUS
  <2>2. 0..n \subseteq 0..m /\ m \notin 0..n /\ m \in 0..m
    BY <1>5
  <2>3. <<0..n, 0..m>> \in StrictSubsetOrdering(Nat)
    BY <2>1, <2>2 DEF StrictSubsetOrdering
  <2> QED BY <1>3, <1>4, <2>1, <2>3
<1> QED BY <1>5

\* A definition of a function on D by recursion, body[f] for f: its values
\* depend only on those for smaller elements.
Recursive(D, R, measure, body) ==
    /\ [D -> R] # {}
    /\ measure \in [D -> Nat]
    /\ body \in [[D -> R] -> [D -> R]]
    /\ \A g, h \in [D -> R], d \in D :
          (\A e \in D : measure[e] < measure[d] => g[e] = h[e]) => body[g][d] = body[h][d]

\* Such a definition has a solution.
LEMMA Recursion ==
    ASSUME NEW D, NEW R, NEW measure, NEW body, Recursive(D, R, measure, body)
    PROVE  \E f \in [D -> R] : f = body[f]
<1>0. /\ measure \in [D -> Nat]
      /\ body \in [[D -> R] -> [D -> R]]
      /\ [D -> R] # {}
      /\ \A g, h \in [D -> R], d \in D :
          (\A e \in D : measure[e] < measure[d] => g[e] = h[e]) => body[g][d] = body[h][d]
  BY DEF Recursive
<1> USE <1>0
<1> DEFINE Good(g, n) == \A d \in D : measure[d] < n => g[d] = body[g][d]
<1>1. \A n \in Nat : \E g \in [D -> R] : Good(g, n)
  <2> DEFINE Bad == {n \in Nat : ~ \E g \in [D -> R] : Good(g, n)}
  <2> SUFFICES ASSUME Bad # {} PROVE FALSE
    OBVIOUS
  <2>1. PICK m \in Bad : \A n \in Bad : m <= n
    <3> HIDE DEF Bad
    <3> QED BY LeastNat DEF Bad
  <2>2. m # 0
    BY <2>1
  <2>3. m - 1 \in Nat /\ m - 1 \notin Bad
    BY <2>1, <2>2
  <2>4. PICK g \in [D -> R] : Good(g, m - 1)
    BY <2>3
  <2> DEFINE h == body[g]
  <2>5. h \in [D -> R]
    OBVIOUS
  <2>6. ASSUME NEW d \in D, measure[d] < m PROVE h[d] = body[h][d]
    <3>1. \A e \in D : measure[e] < measure[d] => g[e] = h[e]
      BY <2>3, <2>4, <2>6
    <3>2. body[g][d] = body[h][d]
      <4> HIDE DEF h
      <4> QED BY <1>0, <2>5, <3>1
    <3> QED BY <3>2
  <2> QED BY <2>1, <2>5, <2>6
<1>2. ASSUME NEW g \in [D -> R], NEW h \in [D -> R], NEW n \in Nat, Good(g, n), Good(h, n),
             NEW d \in D, measure[d] < n, g[d] # h[d]
      PROVE  FALSE
  <2> DEFINE Wrong == {e \in D : measure[e] < n /\ g[e] # h[e]}
             Bad   == {k \in Nat : \E e \in Wrong : measure[e] = k}
  <2>1. measure[d] \in Bad
    BY <1>2
  <2>2. PICK k \in Bad : \A l \in Bad : k <= l
    <3> HIDE DEF Bad
    <3>1. Bad \in SUBSET Nat
      BY DEF Bad
    <3> QED BY <2>1, <3>1, LeastNat
  <2>3. PICK c \in D : measure[c] = k /\ k < n /\ g[c] # h[c]
    BY <2>2
  <2>4. ASSUME NEW e \in D, measure[e] < measure[c], g[e] # h[e] PROVE FALSE
    <3>1. measure[e] \in Bad
      BY <1>2, <2>3, <2>4
    <3> QED BY <2>2, <2>3, <2>4, <3>1
  <2>5. body[g][c] = body[h][c]
    BY <1>0, <2>4
  <2> QED BY <1>2, <2>3, <2>5
<1> DEFINE G(d) == CHOOSE g \in [D -> R] : Good(g, measure[d] + 1)
           f    == [d \in D |-> G(d)[d]]
<1>3. \A d \in D : G(d) \in [D -> R] /\ Good(G(d), measure[d] + 1)
  <2> TAKE d \in D
  <2>1. \E g \in [D -> R] : Good(g, measure[d] + 1)
    <3>1. measure[d] + 1 \in Nat
      OBVIOUS
    <3> HIDE DEF Good
    <3> QED BY <1>1, <3>1
  <2> HIDE DEF Good
  <2> QED BY <2>1
<1> HIDE DEF G
<1>4. f \in [D -> R]
  BY <1>3
<1>5. ASSUME NEW d \in D PROVE f[d] = body[f][d]
  <2>1. ASSUME NEW e \in D, measure[e] < measure[d] PROVE f[e] = G(d)[e]
    <3> DEFINE n == measure[e] + 1
    <3>1. n \in Nat /\ measure[e] < n /\ n <= measure[d] + 1
      BY <2>1
    <3>2. Good(G(d), n)
      BY <1>3, <3>1
    <3>5. Good(G(e), n)
      BY <1>3
    <3>3. G(d) \in [D -> R] /\ G(e) \in [D -> R]
      BY <1>3
    <3> HIDE DEF Good, n
    <3>4. G(e)[e] = G(d)[e]
      BY <1>2, <3>1, <3>2, <3>3, <3>5
    <3> QED BY <3>4
  <2>2. body[f][d] = body[G(d)][d]
    <3> HIDE DEF f
    <3> QED BY <1>0, <1>3, <1>4, <2>1
  <2> QED BY <1>3, <2>2
<1> QED BY <1>4, <1>5

-----------------------------------------------------------------------------
(* The list of bindings *)

\* The names in the list ascend.
BindingsInv == Bindings!TypeOK /\ Bindings!Sorted

LEMMA EntriesTyped ==
    ASSUME Bindings!BindingsAssumption, Bindings!TypeOK
    PROVE  /\ Len(bindings) \in Nat /\ DOMAIN bindings = 1..Len(bindings)
           /\ \A i \in DOMAIN bindings :
                 /\ bindings[i] = [domain |-> bindings[i].domain, dir |-> bindings[i].dir]
                 /\ bindings[i].domain \in Domain /\ bindings[i].domain \in Int
                 /\ bindings[i].dir \in Dir
<1>1. Len(bindings) \in Nat /\ bindings \in [1..Len(bindings) -> Bindings!Binding]
  BY LenProperties DEF Bindings!TypeOK
<1> QED BY <1>1 DEF Bindings!Binding, Bindings!BindingsAssumption

\* A search passes the entries up to some place, and there stops at one that
\* is not smaller, or at the end.
LEMMA SearchStops ==
    ASSUME Bindings!BindingsAssumption, BindingsInv, NEW d \in Domain
    PROVE  \E n \in 0..Len(bindings) :
              /\ Bindings!Passed(d) = 1..n
              /\ n < Len(bindings) => bindings[n + 1].domain >= d
<1> USE EntriesTyped DEF BindingsInv, Bindings!BindingsAssumption
<1> DEFINE Stops == {i \in 1..(Len(bindings) + 1) : i = Len(bindings) + 1 \/ ~ bindings[i].domain < d}
<1>1. Len(bindings) + 1 \in Stops /\ Stops \in SUBSET Nat
  OBVIOUS
<1>2. PICK m \in Stops : \A n \in Stops : m <= n
  <2> HIDE DEF Stops
  <2> QED BY <1>1, LeastNat
<1>3. m - 1 \in 0..Len(bindings) /\ (m - 1 < Len(bindings) => bindings[m - 1 + 1].domain >= d)
  OBVIOUS
<1>4. ASSUME NEW i \in 1..(m - 1) PROVE i \in DOMAIN bindings /\ bindings[i].domain < d
  BY <1>2
<1>5. Bindings!Passed(d) = 1..(m - 1)
  <2>1. ASSUME NEW i \in Bindings!Passed(d) PROVE i \in 1..(m - 1)
    BY DEF Bindings!Passed
  <2>2. ASSUME NEW i \in 1..(m - 1) PROVE i \in Bindings!Passed(d)
    BY <1>4 DEF Bindings!Passed
  <2> QED BY <2>1, <2>2
<1> QED BY <1>3, <1>5

\* In an ascending list a search that stops early misses no entry, and there
\* is but one to be found.
LEMMA FoundIsAll ==
    ASSUME Bindings!BindingsAssumption, BindingsInv, NEW d \in Domain
    PROVE  /\ Bindings!Found(d) = {i \in DOMAIN bindings : bindings[i].domain = d}
           /\ \A i, j \in Bindings!Found(d) : i = j
           /\ Bindings!DirOf(d) = Bindings!dirOf[d]
<1> USE EntriesTyped DEF BindingsInv, Bindings!BindingsAssumption
<1>1. Bindings!Found(d) = {i \in DOMAIN bindings : bindings[i].domain = d}
  BY DEF Bindings!Found, Bindings!Sorted
<1>2. \A i, j \in Bindings!Found(d) : i = j
  BY <1>1 DEF Bindings!Sorted
<1>3. Bindings!DirOf(d) = Bindings!dirOf[d]
  BY <1>1 DEF Bindings!DirOf, Bindings!dirOf
<1> QED BY <1>1, <1>2, <1>3

\* What the map says of a domain, in terms of the list.
LEMMA MapOfList ==
    ASSUME Bindings!BindingsAssumption, BindingsInv, NEW d \in Domain
    PROVE  /\ \A i \in DOMAIN bindings : bindings[i].domain = d => Bindings!dirOf[d] = bindings[i].dir
           /\ (\A i \in DOMAIN bindings : bindings[i].domain # d) => Bindings!dirOf[d] = DefaultDir
<1> DEFINE at == {i \in DOMAIN bindings : bindings[i].domain = d}
<1>1. \A i, j \in at : i = j
  BY FoundIsAll
<1>2. Bindings!dirOf[d] = IF at = {} THEN DefaultDir ELSE bindings[CHOOSE i \in at : TRUE].dir
  BY DEF Bindings!dirOf
<1> QED BY <1>1, <1>2

LEMMA Inserted ==
    ASSUME NEW S, NEW s \in Seq(S), NEW e \in S, NEW n \in 0..Len(s)
    PROVE  /\ Bindings!InsertAt(s, n + 1, e) \in Seq(S)
           /\ Len(Bindings!InsertAt(s, n + 1, e)) = Len(s) + 1
           /\ \A i \in 1..n : Bindings!InsertAt(s, n + 1, e)[i] = s[i]
           /\ Bindings!InsertAt(s, n + 1, e)[n + 1] = e
           /\ \A i \in (n + 1)..Len(s) : Bindings!InsertAt(s, n + 1, e)[i + 1] = s[i]
<1> DEFINE low  == SubSeq(s, 1, n)
           high == SubSeq(s, n + 1, Len(s))
           head == low \o <<e>>
           t    == head \o high
<1>0. Len(s) \in Nat /\ n \in Nat /\ n <= Len(s)
  BY LenProperties
<1>1. low \in Seq(S) /\ Len(low) = n /\ \A i \in 1..n : low[i] = s[i]
  BY <1>0, SubSeqProperties
<1>2. /\ high \in Seq(S) /\ Len(high) = Len(s) - n
      /\ \A i \in 1..(Len(s) - n) : high[i] = s[n + i]
  BY <1>0, SubSeqProperties
<1>3. <<e>> \in Seq(S) /\ Len(<<e>>) = 1 /\ <<e>>[1] = e
  OBVIOUS
<1> HIDE DEF low, high
<1>4. head \in Seq(S) /\ Len(head) = n + 1 /\ (\A i \in 1..n : head[i] = low[i]) /\ head[n + 1] = e
  BY <1>0, <1>1, <1>3, ConcatProperties
<1> HIDE DEF head
<1>6. /\ t \in Seq(S) /\ Len(t) = (n + 1) + (Len(s) - n)
      /\ \A i \in 1..((n + 1) + (Len(s) - n)) :
            t[i] = IF i <= n + 1 THEN head[i] ELSE high[i - (n + 1)]
  <2>1. /\ t \in Seq(S) /\ Len(t) = Len(head) + Len(high)
        /\ \A i \in 1..(Len(head) + Len(high)) :
              t[i] = IF i <= Len(head) THEN head[i] ELSE high[i - Len(head)]
    BY <1>2, <1>4, ConcatProperties
  <2> HIDE DEF t
  <2> QED BY <1>2, <1>4, <2>1
<1> HIDE DEF t
<1>7. ASSUME NEW i \in 1..(n + 1) PROVE t[i] = head[i]
  BY <1>0, <1>6
<1>8. ASSUME NEW i \in (n + 1)..Len(s) PROVE t[i + 1] = s[i]
  <2>1. /\ i + 1 \in 1..((n + 1) + (Len(s) - n)) /\ ~ (i + 1 <= n + 1)
        /\ (i + 1) - (n + 1) = i - n
        /\ i - n \in 1..(Len(s) - n) /\ n + (i - n) = i
    BY <1>0
  <2>2. t[i + 1] = high[i - n]
    BY <1>6, <2>1
  <2>3. high[i - n] = s[i]
    BY <1>2, <2>1
  <2> QED BY <2>2, <2>3
<1>9. Len(t) = Len(s) + 1 /\ \A i \in 1..n : t[i] = s[i]
  BY <1>0, <1>1, <1>4, <1>6, <1>7
<1>10. t[n + 1] = e
  BY <1>0, <1>4, <1>7
<1>11. t = Bindings!InsertAt(s, n + 1, e)
  <2>1. (n + 1) - 1 = n
    BY <1>0
  <2> QED BY <2>1 DEF low, high, head, t, Bindings!InsertAt
<1> QED BY <1>6, <1>8, <1>9, <1>10, <1>11

\* A new entry stands where the order wants it: the list still ascends, and
\* only the map of its domain changes.
LEMMA EnqueueBinds ==
    ASSUME Bindings!BindingsAssumption, BindingsInv, NEW d \in Domain, NEW dir \in Dir,
           Bindings!Found(d) = {}, bindings' = Bindings!Enqueue(d, dir)
    PROVE  /\ bindings' \in Seq(Bindings!Binding) /\ Bindings!Sorted'
           /\ Bindings!dirOf' = [Bindings!dirOf EXCEPT ![d] = dir]
<1> DEFINE e == [domain |-> d, dir |-> dir]
           n == CHOOSE n \in 0..Len(bindings) : Bindings!Passed(d) = 1..n
<1>0. /\ Len(bindings) \in Nat /\ DOMAIN bindings = 1..Len(bindings)
      /\ \A i \in 1..Len(bindings) : bindings[i].domain \in Int
      /\ d \in Int
  BY EntriesTyped DEF BindingsInv, Bindings!BindingsAssumption
<1>1. /\ n \in 0..Len(bindings) /\ Bindings!Passed(d) = 1..n
      /\ n < Len(bindings) => bindings[n + 1].domain >= d
  <2>1. PICK m \in 0..Len(bindings) :
           /\ Bindings!Passed(d) = 1..m
           /\ m < Len(bindings) => bindings[m + 1].domain >= d
    BY SearchStops
  <2>2. n \in 0..Len(bindings) /\ Bindings!Passed(d) = 1..n
    BY <2>1
  <2>3. n = m
    BY <1>0, <2>1, <2>2
  <2> QED BY <2>1, <2>2, <2>3
<1>2. bindings' = Bindings!InsertAt(bindings, n + 1, e)
  BY DEF Bindings!Enqueue
<1> HIDE DEF n
<1>3. n \in Nat /\ n <= Len(bindings)
  BY <1>0, <1>1
<1>4. /\ bindings' \in Seq(Bindings!Binding) /\ Len(bindings') = Len(bindings) + 1
      /\ \A i \in 1..n : bindings'[i] = bindings[i]
      /\ bindings'[n + 1] = e
      /\ \A i \in (n + 1)..Len(bindings) : bindings'[i + 1] = bindings[i]
  <2>1. e \in Bindings!Binding /\ bindings \in Seq(Bindings!Binding)
    BY DEF Bindings!Binding, Bindings!TypeOK, BindingsInv
  <2> HIDE DEF e
  <2>2. n \in 0..Len(bindings)
    BY <1>1
  <2>3. Bindings!InsertAt(bindings, n + 1, e) \in Seq(Bindings!Binding)
    BY <2>1, <2>2, Inserted
  <2>4. Len(Bindings!InsertAt(bindings, n + 1, e)) = Len(bindings) + 1
    BY <2>1, <2>2, Inserted
  <2>5. Bindings!InsertAt(bindings, n + 1, e)[n + 1] = e
    BY <2>1, <2>2, Inserted
  <2>6. \A i \in 1..n : Bindings!InsertAt(bindings, n + 1, e)[i] = bindings[i]
    BY <2>1, <2>2, Inserted
  <2>7. \A i \in (n + 1)..Len(bindings) : Bindings!InsertAt(bindings, n + 1, e)[i + 1] = bindings[i]
    BY <2>1, <2>2, Inserted
  <2> QED BY <1>2, <2>3, <2>4, <2>5, <2>6, <2>7
<1>5. /\ \A i \in 1..n : bindings[i].domain < d
      /\ \A i \in (n + 1)..Len(bindings) : d < bindings[i].domain
  <2>1. ASSUME NEW i \in 1..n PROVE bindings[i].domain < d
    <3>1. i \in Bindings!Passed(d) /\ i \in 1..i
      BY <1>1, <1>3
    <3> QED BY <3>1 DEF Bindings!Passed
  <2>2. ASSUME NEW i \in (n + 1)..Len(bindings) PROVE d < bindings[i].domain
    <3>1. i \in 1..Len(bindings) /\ n + 1 \in 1..Len(bindings) /\ n < Len(bindings)
      BY <1>0, <1>3
    <3>2. bindings[i].domain # d
      BY <1>0, <3>1, FoundIsAll
    <3>3. i = n + 1 \/ bindings[n + 1].domain < bindings[i].domain
      BY <1>0, <1>3, <3>1 DEF BindingsInv, Bindings!Sorted
    <3> QED BY <1>0, <1>1, <3>1, <3>2, <3>3
  <2> QED BY <2>1, <2>2
<1>6. DOMAIN bindings' = 1..(Len(bindings) + 1)
  BY <1>4, LenProperties
<1>7. ASSUME NEW i \in DOMAIN bindings'
      PROVE  \/ i \in 1..n /\ i \in DOMAIN bindings /\ bindings'[i] = bindings[i]
             \/ i = n + 1 /\ bindings'[i] = e
             \/ /\ i - 1 \in (n + 1)..Len(bindings) /\ i - 1 \in DOMAIN bindings
                /\ bindings'[i] = bindings[i - 1]
  <2>1. CASE i \in (n + 2)..(Len(bindings) + 1)
    <3>1. i - 1 \in (n + 1)..Len(bindings) /\ (i - 1) + 1 = i /\ i - 1 \in DOMAIN bindings
      BY <1>0, <1>3, <2>1
    <3> QED BY <1>4, <3>1
  <2> QED BY <1>0, <1>3, <1>4, <1>6, <2>1
<1>8. Bindings!Sorted'
  <2> SUFFICES ASSUME NEW i \in DOMAIN bindings', NEW j \in DOMAIN bindings', i < j
               PROVE  bindings'[i].domain < bindings'[j].domain
    BY DEF Bindings!Sorted
  <2>1. \A k, l \in DOMAIN bindings : k < l => bindings[k].domain < bindings[l].domain
    BY DEF BindingsInv, Bindings!Sorted
  <2>2. e.domain = d
    OBVIOUS
  <2> HIDE DEF e
  <2>3. i \in Int /\ j \in Int
    BY <1>6
  <2>4. CASE i \in 1..n /\ bindings'[i] = bindings[i]
    <3>1. CASE j \in 1..n /\ bindings'[j] = bindings[j]
      BY <1>0, <1>3, <2>1, <2>3, <2>4, <3>1
    <3>2. CASE j = n + 1 /\ bindings'[j] = e
      BY <1>5, <2>2, <2>4, <3>2
    <3>3. CASE j - 1 \in (n + 1)..Len(bindings) /\ bindings'[j] = bindings[j - 1]
      <4>1. bindings[i].domain < d /\ d < bindings[j - 1].domain
        BY <1>5, <2>4, <3>3
      <4> QED BY <1>0, <1>3, <2>3, <2>4, <3>3, <4>1
    <3> QED BY <1>7, <3>1, <3>2, <3>3
  <2>5. CASE i = n + 1 /\ bindings'[i] = e
    <3>1. j - 1 \in (n + 1)..Len(bindings) /\ bindings'[j] = bindings[j - 1]
      BY <1>3, <1>7, <2>3, <2>5
    <3> QED BY <1>5, <2>2, <2>5, <3>1
  <2>6. CASE i - 1 \in (n + 1)..Len(bindings) /\ bindings'[i] = bindings[i - 1]
    <3>1. j - 1 \in (n + 1)..Len(bindings) /\ bindings'[j] = bindings[j - 1]
      BY <1>3, <1>7, <2>3, <2>6
    <3>2. i - 1 \in DOMAIN bindings /\ j - 1 \in DOMAIN bindings /\ i - 1 < j - 1
      BY <1>0, <1>3, <2>3, <2>6, <3>1
    <3> QED BY <2>1, <2>6, <3>1, <3>2
  <2> QED BY <1>7, <2>4, <2>5, <2>6
<1>9. ASSUME NEW c \in Domain
      PROVE  Bindings!dirOf'[c] = [Bindings!dirOf EXCEPT ![d] = dir][c]
  <2> DEFINE at == {i \in DOMAIN bindings' : bindings'[i].domain = c}
  <2>1. Bindings!dirOf'[c] = IF at = {} THEN DefaultDir ELSE bindings'[CHOOSE i \in at : TRUE].dir
    BY DEF Bindings!dirOf
  <2>2. [Bindings!dirOf EXCEPT ![d] = dir][c] = IF c = d THEN dir ELSE Bindings!dirOf[c]
    BY DEF Bindings!dirOf
  <2>3. \A i, j \in at : i = j
    <3>1. \A i, j \in at : ~ i < j /\ ~ j < i /\ i \in Int /\ j \in Int
      BY <1>0, <1>6, <1>7, <1>8 DEF Bindings!Sorted, BindingsInv, Bindings!BindingsAssumption
    <3> QED BY <3>1
  <2>4. CASE c = d
    <3>1. n + 1 \in at
      BY <1>3, <1>4, <1>6, <2>4
    <3> HIDE DEF at
    <3>2. at # {} /\ (CHOOSE i \in at : TRUE) = n + 1
      BY <2>3, <3>1
    <3>3. bindings'[n + 1].dir = dir
      BY <1>4
    <3> HIDE DEF e
    <3> QED BY <2>1, <2>2, <2>4, <3>2, <3>3
  <2>5. CASE c # d /\ \A i \in DOMAIN bindings : bindings[i].domain # c
    <3>1. at = {}
      BY <1>7, <2>5
    <3> QED BY <2>1, <2>2, <2>5, <3>1, MapOfList
  <2>6. CASE c # d /\ \E i \in DOMAIN bindings : bindings[i].domain = c
    <3>1. PICK k \in DOMAIN bindings : bindings[k].domain = c
      BY <2>6
    <3>2. \E i \in at : bindings'[i] = bindings[k]
      <4>1. CASE k \in 1..n
        BY <1>0, <1>3, <1>4, <1>6, <3>1, <4>1
      <4>2. CASE k \in (n + 1)..Len(bindings)
        <5>1. k + 1 \in DOMAIN bindings' /\ bindings'[k + 1] = bindings[k]
          BY <1>3, <1>4, <1>6, <4>2
        <5> QED BY <3>1, <5>1
      <4> QED BY <1>0, <1>3, <4>1, <4>2
    <3> HIDE DEF at
    <3>3. at # {} /\ bindings'[CHOOSE i \in at : TRUE] = bindings[k]
      BY <2>3, <3>2
    <3>4. Bindings!dirOf[c] = bindings[k].dir
      BY <3>1, MapOfList
    <3> QED BY <2>1, <2>2, <2>6, <3>3, <3>4
  <2> QED BY <2>4, <2>5, <2>6
<1>10. Bindings!dirOf' = [Bindings!dirOf EXCEPT ![d] = dir]
  BY <1>9 DEF Bindings!dirOf
<1> QED BY <1>4, <1>8, <1>10

\* Another directory for an entry changes the map of its domain.
LEMMA EntryChanges ==
    ASSUME Bindings!BindingsAssumption, BindingsInv, NEW d \in Domain, NEW dir \in Dir,
           Bindings!Found(d) # {},
           bindings' = [i \in DOMAIN bindings |->
                           IF i \in Bindings!Found(d) THEN [bindings[i] EXCEPT !.dir = dir] ELSE bindings[i]]
    PROVE  /\ bindings' \in Seq(Bindings!Binding) /\ Bindings!Sorted'
           /\ Bindings!dirOf' = [Bindings!dirOf EXCEPT ![d] = dir]
<1>0. /\ Len(bindings) \in Nat /\ DOMAIN bindings = 1..Len(bindings)
      /\ \A i \in DOMAIN bindings :
            /\ bindings[i] = [domain |-> bindings[i].domain, dir |-> bindings[i].dir]
            /\ bindings[i].domain \in Domain /\ bindings[i].domain \in Int
            /\ bindings[i].dir \in Dir
  BY EntriesTyped DEF BindingsInv
<1>1. /\ DOMAIN bindings' = DOMAIN bindings
      /\ \A i \in DOMAIN bindings :
            /\ bindings'[i] \in Bindings!Binding
            /\ bindings'[i].domain = bindings[i].domain
            /\ bindings'[i].dir = IF bindings[i].domain = d THEN dir ELSE bindings[i].dir
  BY <1>0, FoundIsAll DEF Bindings!Binding
<1>2. bindings' \in Seq(Bindings!Binding)
  <2>1. bindings' \in [1..Len(bindings) -> Bindings!Binding]
    BY <1>0, <1>1
  <2> QED BY <1>0, <2>1
<1>3. Bindings!Sorted'
  BY <1>1 DEF BindingsInv, Bindings!Sorted
<1>4. ASSUME NEW c \in Domain
      PROVE  Bindings!dirOf'[c] = [Bindings!dirOf EXCEPT ![d] = dir][c]
  <2> DEFINE at == {i \in DOMAIN bindings : bindings[i].domain = c}
  <2>1. /\ Bindings!dirOf'[c] = IF at = {} THEN DefaultDir ELSE bindings'[CHOOSE i \in at : TRUE].dir
        /\ Bindings!dirOf[c] = IF at = {} THEN DefaultDir ELSE bindings[CHOOSE i \in at : TRUE].dir
    <3>1. at = {i \in DOMAIN bindings' : bindings'[i].domain = c}
      BY <1>1
    <3> DEFINE at2 == {i \in DOMAIN bindings' : bindings'[i].domain = c}
    <3>2. Bindings!dirOf'[c] = IF at2 = {} THEN DefaultDir ELSE bindings'[CHOOSE i \in at2 : TRUE].dir
      BY DEF Bindings!dirOf
    <3>3. Bindings!dirOf[c] = IF at = {} THEN DefaultDir ELSE bindings[CHOOSE i \in at : TRUE].dir
      BY DEF Bindings!dirOf
    <3> QED BY <3>1, <3>2, <3>3
  <2>2. [Bindings!dirOf EXCEPT ![d] = dir][c] = IF c = d THEN dir ELSE Bindings!dirOf[c]
    BY DEF Bindings!dirOf
  <2>3. c = d => at # {}
    BY FoundIsAll
  <2> QED BY <1>1, <2>1, <2>2, <2>3
<1>5. Bindings!dirOf' = [Bindings!dirOf EXCEPT ![d] = dir]
  BY <1>4 DEF Bindings!dirOf
<1> QED BY <1>2, <1>3, <1>5

\* Every call keeps the list in order, and is one of the map.
LEMMA BindingsStep ==
    ASSUME Bindings!BindingsAssumption, BindingsInv, [Bindings!Next]_(Bindings!vars)
    PROVE  BindingsInv' /\ [Bindings!Map!Next]_(Bindings!Map!mapVars)
<1> USE DEF BindingsInv, Bindings!TypeOK
<1>0. UNCHANGED bindings => Bindings!dirOf' = Bindings!dirOf
  BY DEF Bindings!dirOf
<1>1. ASSUME NEW d \in Domain, NEW dir \in Dir,
             bindings' \in Seq(Bindings!Binding) /\ Bindings!Sorted',
             Bindings!dirOf' = [Bindings!dirOf EXCEPT ![d] = dir],
             bound' = <<"dir", dir>>, UNCHANGED current
      PROVE  BindingsInv' /\ Bindings!Map!Bind(d, dir)
  BY <1>1 DEF Bindings!Map!Bind
<1>2. ASSUME NEW d \in Domain, NEW dir \in Dir, Bindings!OutOfMemory
      PROVE  BindingsInv' /\ Bindings!Map!Bind(d, dir)
  BY <1>0, <1>2 DEF Bindings!OutOfMemory, Bindings!Sorted, Bindings!Map!Bind
<1>3. ASSUME NEW d \in Domain, NEW dir \in Dir, Bindings!Bind(d, dir) \/ Bindings!Rebind(d, dir)
      PROVE  BindingsInv' /\ Bindings!Map!Bind(d, dir)
  BY <1>1, <1>2, <1>3, EnqueueBinds, EntryChanges DEF Bindings!Bind, Bindings!Rebind
<1>4. ASSUME NEW d \in Domain, Bindings!Bound(d) PROVE BindingsInv' /\ Bindings!Map!Bound(d)
  BY <1>0, <1>4, FoundIsAll DEF Bindings!Bound, Bindings!Sorted, Bindings!Map!Bound
<1>5. ASSUME NEW d \in Domain, Bindings!Textdomain(d)
      PROVE  BindingsInv' /\ Bindings!Map!SetCurrent(d)
  BY <1>0, <1>5 DEF Bindings!Textdomain, Bindings!Sorted, Bindings!Map!SetCurrent
<1>6. ASSUME Bindings!AskTextdomain PROVE BindingsInv' /\ Bindings!Map!Ask
  BY <1>0, <1>6 DEF Bindings!AskTextdomain, Bindings!Sorted, Bindings!Map!Ask
<1>7. ASSUME NEW d \in Domain \cup {current}, Bindings!Dcgettext(d)
      PROVE  BindingsInv' /\ (Bindings!Map!Search(d) \/ Bindings!Map!Lost)
  <2>1. d # NULL => Bindings!DirOf(d) = Bindings!dirOf[d]
    BY FoundIsAll
  <2> QED BY <1>0, <1>7, <2>1 DEF Bindings!Dcgettext, Bindings!Sorted,
                                  Bindings!Map!Search, Bindings!Map!Lost
<1>8. CASE UNCHANGED Bindings!vars
  BY <1>0, <1>8 DEF Bindings!vars, Bindings!Sorted, Bindings!Map!mapVars
<1>9. CASE Bindings!Next
  BY <1>3, <1>4, <1>5, <1>6, <1>7, <1>9 DEF Bindings!Next, Bindings!Map!Next
<1> QED BY <1>8, <1>9

-----------------------------------------------------------------------------
(* The table of aliases *)

searches == AliasName \X (1..(Len(map) + 1)) \X (1..(Len(map) + 1))

LEMMA MapTyped ==
    ASSUME Aliases!AliasesAssumption, map \in Seq(Aliases!Line)
    PROVE  /\ Len(map) \in Nat /\ DOMAIN map = 1..Len(map)
           /\ \A i \in 1..Len(map) : map[i] \in Aliases!Line /\ map[i].alias[1] \in Int
           /\ \A name \in AliasName : name[1] \in Int
           /\ \A name \in AliasName, i \in 1..Len(map) :
                 Aliases!Compare(name, i) = name[1] - map[i].alias[1]
<1>1. Len(map) \in Nat /\ DOMAIN map = 1..Len(map) /\ \A i \in 1..Len(map) : map[i] \in Aliases!Line
  BY LenProperties
<1>2. \A i \in 1..Len(map) : map[i].alias[1] \in Int
  BY <1>1 DEF Aliases!Line
<1> QED BY <1>1, <1>2 DEF Aliases!AliasesAssumption, Aliases!Compare

\* What is left to search.
LEMMA Halves ==
    ASSUME Aliases!AliasesAssumption, map \in Seq(Aliases!Line),
           NEW s \in searches, s[2] < s[3]
    PROVE  LET i == (s[2] + s[3]) \div 2 IN
           /\ s[1] \in AliasName /\ s[2] \in Nat /\ s[3] \in Nat
           /\ i \in 1..Len(map) /\ s[2] <= i /\ i < s[3]
           /\ <<s[1], s[2], i>> \in searches /\ <<s[1], i + 1, s[3]>> \in searches
<1>1. Len(map) \in Nat
  BY MapTyped
<1>2. s[1] \in AliasName /\ s[2] \in 1..(Len(map) + 1) /\ s[3] \in 1..(Len(map) + 1)
  BY DEF searches
<1> DEFINE i == (s[2] + s[3]) \div 2
<1>3. i \in Int /\ s[2] <= i /\ i < s[3]
  BY <1>1, <1>2
<1> HIDE DEF i
<1>4. i \in 1..Len(map) /\ i \in 1..(Len(map) + 1) /\ i + 1 \in 1..(Len(map) + 1)
  BY <1>1, <1>2, <1>3
<1>5. <<s[1], s[2], i>> \in searches /\ <<s[1], i + 1, s[3]>> \in searches
  BY <1>2, <1>4 DEF searches
<1> QED BY <1>2, <1>3, <1>4, <1>5 DEF i

LEMMA SearchUnfolds ==
    ASSUME Aliases!AliasesAssumption, map \in Seq(Aliases!Line)
    PROVE  \A s \in searches :
              Aliases!Search[s] =
                  LET i == (s[2] + s[3]) \div 2 IN
                  IF s[2] >= s[3] THEN {}
                  ELSE IF Aliases!Compare(s[1], i) = 0 THEN {i}
                  ELSE IF Aliases!Compare(s[1], i) < 0 THEN Aliases!Search[<<s[1], s[2], i>>]
                  ELSE Aliases!Search[<<s[1], i + 1, s[3]>>]
<1> DEFINE D == searches
           R == SUBSET Int
           measure == [s \in D |-> IF s[2] >= s[3] THEN 0 ELSE s[3] - s[2]]
           value(g, s) ==
              LET i == (s[2] + s[3]) \div 2 IN
              IF s[2] >= s[3] THEN {}
              ELSE IF Aliases!Compare(s[1], i) = 0 THEN {i}
              ELSE IF Aliases!Compare(s[1], i) < 0 THEN g[<<s[1], s[2], i>>]
              ELSE g[<<s[1], i + 1, s[3]>>]
           body == [g \in [D -> R] |-> [s \in D |-> value(g, s)]]
<1>0. ASSUME NEW s \in D
      PROVE  /\ s[1] \in AliasName /\ s[2] \in Nat /\ s[3] \in Nat
             /\ s[2] < s[3] => (s[2] + s[3]) \div 2 \in Int
  BY MapTyped DEF searches
<1>1. measure \in [D -> Nat]
  BY <1>0
<1>2. body \in [[D -> R] -> [D -> R]]
  <2> SUFFICES ASSUME NEW g \in [D -> R], NEW s \in D PROVE value(g, s) \in R
    OBVIOUS
  <2> QED BY <1>0, Halves
<1>3. ASSUME NEW g \in [D -> R], NEW h \in [D -> R], NEW s \in D,
             \A e \in D : measure[e] < measure[s] => g[e] = h[e]
      PROVE  body[g][s] = body[h][s]
  <2> DEFINE i == (s[2] + s[3]) \div 2
             low  == <<s[1], s[2], i>>
             high == <<s[1], i + 1, s[3]>>
  <2>1. CASE s[2] < s[3]
    <3>1. /\ s[2] \in Nat /\ s[3] \in Nat /\ i \in Int /\ s[2] <= i /\ i < s[3]
          /\ low \in D /\ high \in D
      BY <2>1, <1>0, Halves
    <3>2. /\ measure[s] = s[3] - s[2]
          /\ measure[low] = IF s[2] >= i THEN 0 ELSE i - s[2]
          /\ measure[high] = IF i + 1 >= s[3] THEN 0 ELSE s[3] - (i + 1)
      BY <2>1, <3>1
    <3> HIDE DEF measure, low, high, i
    <3>3. measure[low] < measure[s] /\ measure[high] < measure[s]
      BY <2>1, <3>1, <3>2
    <3>4. g[low] = h[low] /\ g[high] = h[high]
      BY <1>3, <3>1, <3>3
    <3>5. value(g, s) = value(h, s)
      BY <3>4 DEF low, high, i
    <3> QED BY <3>5
  <2>2. CASE ~ s[2] < s[3]
    BY <1>0, <2>2
  <2> QED BY <2>1, <2>2
<1>4. \E f \in [D -> R] : f = body[f]
  <2>1. [s \in D |-> {}] \in [D -> R]
    OBVIOUS
  <2> HIDE DEF D, R, measure, body
  <2>3. [D -> R] # {}
    BY <2>1
  <2>4. Recursive(D, R, measure, body)
    BY <1>1, <1>2, <1>3, <2>3 DEF Recursive
  <2> QED BY <2>4, Recursion
<1>5. \E f : f = [s \in D |-> value(f, s)]
  BY <1>4
<1>6. Aliases!Search = CHOOSE f : f = [s \in D |-> value(f, s)]
  BY DEF Aliases!Search, searches
<1>7. Aliases!Search = [s \in D |-> value(Aliases!Search, s)]
  <2> HIDE DEF value
  <2> QED BY <1>5, <1>6
<1> QED BY <1>7

\* What bisection finds is in the table; and it finds a name of a table that
\* ascends.
LEMMA BisectFinds ==
    ASSUME Aliases!AliasesAssumption, map \in Seq(Aliases!Line), NEW name \in AliasName
    PROVE  /\ Aliases!Bisect(name) = {} \/ \E i \in DOMAIN map : Aliases!Bisect(name) = {i} /\ map[i].alias[1] = name[1]
           /\ Aliases!Ascends(map) /\ Aliases!Bisect(name) = {} => \A i \in DOMAIN map : map[i].alias[1] # name[1]
<1> DEFINE Right(s) ==
       /\ \/ Aliases!Search[s] = {}
          \/ \E i \in 1..Len(map) : Aliases!Search[s] = {i} /\ map[i].alias[1] = s[1][1]
       /\ Aliases!Ascends(map) /\ Aliases!Search[s] = {} =>
             \A i \in s[2]..(s[3] - 1) : map[i].alias[1] # s[1][1]
<1>1. \A s \in searches : Right(s)
  <2> DEFINE Wrong == {s \in searches : ~ Right(s)}
             Bad == {k \in Nat : \E s \in Wrong : s[3] - s[2] = k}
  <2>0. ASSUME NEW s \in searches PROVE s[1] \in AliasName /\ s[2] \in Nat /\ s[3] \in Nat /\ s[3] <= Len(map) + 1
    BY MapTyped DEF searches
  <2>1. ASSUME NEW s \in searches, s[2] >= s[3] PROVE Right(s)
    <3>1. Aliases!Search[s] = {}
      BY <2>1, SearchUnfolds
    <3>2. s[2]..(s[3] - 1) = {}
      BY <2>0, <2>1
    <3> QED BY <3>1, <3>2
  <2> SUFFICES ASSUME Wrong # {} PROVE FALSE
    OBVIOUS
  <2>2. Bad # {}
    <3>1. PICK s \in Wrong : TRUE
      OBVIOUS
    <3>2. s \in searches /\ s[2] < s[3]
      BY <2>0, <2>1, <3>1
    <3>3. s[3] - s[2] \in Nat
      BY <2>0, <3>2
    <3> QED BY <3>1, <3>3
  <2>3. PICK k \in Bad : \A l \in Bad : k <= l
    <3> HIDE DEF Bad
    <3>1. Bad \in SUBSET Nat
      BY DEF Bad
    <3> QED BY <2>2, <3>1, LeastNat
  <2>4. PICK s \in searches : ~ Right(s) /\ s[3] - s[2] = k
    BY <2>3
  <2>5. s[2] < s[3]
    BY <2>0, <2>1, <2>4
  <2>6. ASSUME NEW t \in searches, t[3] - t[2] < k PROVE Right(t)
    <3>1. CASE t[2] >= t[3]
      BY <2>1, <3>1
    <3>2. CASE t[2] < t[3] /\ ~ Right(t)
      <4>1. t[3] - t[2] \in Nat /\ t \in Wrong
        BY <2>0, <3>2
      <4>2. t[3] - t[2] \in Bad
        BY <4>1
      <4> QED BY <2>3, <2>6, <4>1, <4>2
    <3> QED BY <2>0, <3>1, <3>2
  <2> DEFINE i == (s[2] + s[3]) \div 2
             low  == <<s[1], s[2], i>>
             high == <<s[1], i + 1, s[3]>>
  <2>7. /\ i \in 1..Len(map) /\ s[2] <= i /\ i < s[3] /\ low \in searches /\ high \in searches
        /\ s[1] \in AliasName /\ s[2] \in Nat /\ s[3] \in Nat
    BY <2>5, Halves
  <2>8. Aliases!Search[s] = IF Aliases!Compare(s[1], i) = 0 THEN {i}
                            ELSE IF Aliases!Compare(s[1], i) < 0 THEN Aliases!Search[low]
                            ELSE Aliases!Search[high]
    <3>1. ~ s[2] >= s[3]
      BY <2>5, <2>7
    <3> QED BY <3>1, SearchUnfolds
  <2>9. low[1] = s[1] /\ low[2] = s[2] /\ low[3] = i /\ high[1] = s[1] /\ high[2] = i + 1 /\ high[3] = s[3]
    OBVIOUS
  <2>10. /\ Aliases!Compare(s[1], i) = s[1][1] - map[i].alias[1]
         /\ s[1][1] \in Int /\ \A j \in 1..Len(map) : map[j].alias[1] \in Int
         /\ DOMAIN map = 1..Len(map) /\ Len(map) \in Nat
    BY <2>7, MapTyped
  <2>11. s[3] <= Len(map) + 1 /\ s[2] >= 1
    BY MapTyped DEF searches
  <2> HIDE DEF i, low, high, Right, Wrong, Bad
  <2>12. Right(low) /\ Right(high)
    BY <2>3, <2>4, <2>6, <2>7, <2>9
  <2>13. CASE s[1][1] - map[i].alias[1] = 0
    <3>1. Aliases!Search[s] = {i} /\ map[i].alias[1] = s[1][1]
      BY <2>8, <2>7, <2>10, <2>13
    <3> QED BY <3>1, <2>4, <2>7 DEF Right
  <2>14. CASE s[1][1] - map[i].alias[1] < 0
    <3>1. Aliases!Search[s] = Aliases!Search[low]
      BY <2>8, <2>10, <2>14
    <3>2. ASSUME Aliases!Ascends(map), NEW j \in s[2]..(s[3] - 1), map[j].alias[1] = s[1][1]
          PROVE  j \in s[2]..(i - 1)
      <4>1. j \in 1..Len(map) /\ i \in 1..Len(map)
        BY <2>7, <2>10, <2>11
      <4>2. map[i].alias[1] \in Int /\ map[j].alias[1] \in Int /\ i \in DOMAIN map /\ j \in DOMAIN map
        BY <2>10, <4>1
      <4>3. i < j => map[i].alias[1] <= map[j].alias[1]
        BY <3>2, <4>2 DEF Aliases!Ascends
      <4>4. ~ (i < j) /\ i # j
        BY <2>10, <2>14, <3>2, <4>2, <4>3
      <4> QED BY <2>7, <3>2, <4>1, <4>4
    <3> QED BY <3>1, <3>2, <2>4, <2>9, <2>12 DEF Right
  <2>15. CASE s[1][1] - map[i].alias[1] > 0
    <3>1. Aliases!Search[s] = Aliases!Search[high]
      BY <2>7, <2>8, <2>10, <2>15
    <3>2. ASSUME Aliases!Ascends(map), NEW j \in s[2]..(s[3] - 1), map[j].alias[1] = s[1][1]
          PROVE  j \in (i + 1)..(s[3] - 1)
      <4>1. j \in 1..Len(map) /\ i \in 1..Len(map)
        BY <2>7, <2>10, <2>11
      <4>2. map[i].alias[1] \in Int /\ map[j].alias[1] \in Int /\ i \in DOMAIN map /\ j \in DOMAIN map
        BY <2>10, <4>1
      <4>3. j < i => map[j].alias[1] <= map[i].alias[1]
        BY <3>2, <4>2 DEF Aliases!Ascends
      <4>4. ~ (j < i) /\ i # j
        BY <2>10, <2>15, <3>2, <4>2, <4>3
      <4> QED BY <2>7, <3>2, <4>1, <4>4
    <3> QED BY <3>1, <3>2, <2>4, <2>9, <2>12 DEF Right
  <2> QED BY <2>7, <2>10, <2>13, <2>14, <2>15
<1>2. <<name, 1, Len(map) + 1>> \in searches
  BY MapTyped DEF searches
<1>3. DOMAIN map = 1..Len(map) /\ Len(map) \in Nat
  BY MapTyped
<1> DEFINE all == <<name, 1, Len(map) + 1>>
<1>4. all[1] = name /\ all[2] = 1 /\ all[3] - 1 = Len(map) /\ Aliases!Bisect(name) = Aliases!Search[all]
  BY <1>3 DEF Aliases!Bisect
<1>5. Right(all)
  BY <1>1, <1>2
<1> HIDE DEF all
<1> QED BY <1>3, <1>4, <1>5

\* extend_alias_table always gets there.
LEMMA GrownFits ==
    ASSUME Aliases!AliasesAssumption, maxmap \in Nat, NEW n \in Nat
    PROVE  Aliases!Grown(n) \in Nat /\ Aliases!Grown(n) >= n
<1> DEFINE Doubled(m) == IF m = 0 THEN First ELSE 2 * m
           measure == [k \in Nat |-> k]
           body == [g \in [Nat -> Nat] |-> [k \in Nat |-> IF k = 0 THEN maxmap ELSE Doubled(g[k - 1])]]
<1>0. First \in Nat \ {0}
  BY DEF Aliases!AliasesAssumption
<1>1. Recursive(Nat, Nat, measure, body)
  <2>1. [k \in Nat |-> 0] \in [Nat -> Nat]
    OBVIOUS
  <2>2. \A g \in [Nat -> Nat], k \in Nat : k # 0 => k - 1 \in Nat /\ g[k - 1] \in Nat
    OBVIOUS
  <2>3. body \in [[Nat -> Nat] -> [Nat -> Nat]]
    BY <1>0, <2>2
  <2>4. ASSUME NEW g \in [Nat -> Nat], NEW h \in [Nat -> Nat], NEW k \in Nat,
               \A e \in Nat : measure[e] < measure[k] => g[e] = h[e]
        PROVE  body[g][k] = body[h][k]
    <3>1. k # 0 => k - 1 \in Nat /\ k - 1 < k
      OBVIOUS
    <3>2. k # 0 => g[k - 1] = h[k - 1]
      BY <2>4, <3>1
    <3> QED BY <3>2
  <2> HIDE DEF body
  <2> QED BY <2>1, <2>3, <2>4 DEF Recursive
<1>2. \E f \in [Nat -> Nat] : f = [k \in Nat |-> IF k = 0 THEN maxmap ELSE Doubled(f[k - 1])]
  <2> DEFINE N == Nat
  <2>1. Recursive(N, N, measure, body)
    BY <1>1
  <2>2. \E f \in [N -> N] : f = body[f]
    <3> HIDE DEF N, measure, body
    <3> QED BY <2>1, Recursion
  <2> QED BY <2>2
<1>3. Aliases!Extended = CHOOSE f : f = [k \in Nat |-> IF k = 0 THEN maxmap ELSE Doubled(f[k - 1])]
  BY DEF Aliases!Extended
<1>4. Aliases!Extended = [k \in Nat |-> IF k = 0 THEN maxmap ELSE Doubled(Aliases!Extended[k - 1])]
  <2> HIDE DEF Doubled
  <2> QED BY <1>2, <1>3
<1> DEFINE e == Aliases!Extended
<1>5. \A k \in Nat : e[k] \in Nat /\ e[k] >= k
  <2> DEFINE Bad == {k \in Nat : ~ (e[k] \in Nat /\ e[k] >= k)}
  <2> SUFFICES ASSUME Bad # {} PROVE FALSE
    OBVIOUS
  <2>1. PICK k \in Bad : \A l \in Bad : k <= l
    <3> HIDE DEF Bad
    <3>1. Bad \in SUBSET Nat
      BY DEF Bad
    <3> QED BY <3>1, LeastNat
  <2>2. e[k] = IF k = 0 THEN maxmap ELSE Doubled(e[k - 1])
    BY <1>4
  <2>3. k # 0
    BY <2>1, <2>2
  <2>4. k - 1 \in Nat /\ k - 1 \notin Bad
    BY <2>1, <2>3
  <2> HIDE DEF e
  <2> QED BY <1>0, <2>1, <2>2, <2>3, <2>4
<1> DEFINE enough == {k \in 0..n : e[k] >= n}
<1>6. PICK k \in enough : \A l \in enough : k <= l
  <2>1. n \in enough /\ enough \in SUBSET Nat
    BY <1>5
  <2> HIDE DEF enough
  <2> QED BY <2>1, LeastNat
<1>7. Aliases!Min(enough) \in enough
  BY <1>6 DEF Aliases!Min
<1>8. Aliases!Grown(n) = e[Aliases!Min(enough)]
  BY DEF Aliases!Grown
<1> QED BY <1>5, <1>7, <1>8

\* With and without memory a table is searched and extended alike.
LEMMA SameTable ==
    /\ \A name : ShortOfMemory!Bisect(name) = Aliases!Bisect(name)
    /\ \A n : ShortOfMemory!Grown(n) = Aliases!Grown(n)
    /\ \A t : ShortOfMemory!Sorted(t) = Aliases!Sorted(t)
<1>1. ShortOfMemory!Search = Aliases!Search
  BY DEF ShortOfMemory!Search, Aliases!Search, ShortOfMemory!Compare, Aliases!Compare
<1>2. ShortOfMemory!Extended = Aliases!Extended
  BY DEF ShortOfMemory!Extended, Aliases!Extended
<1>3. \A n : ShortOfMemory!Grown(n) = Aliases!Grown(n)
  BY <1>2 DEF ShortOfMemory!Grown, Aliases!Grown, ShortOfMemory!Min, Aliases!Min
<1>4. \A t : ShortOfMemory!Sorted(t) = Aliases!Sorted(t)
  BY DEF ShortOfMemory!Sorted, Aliases!Sorted, ShortOfMemory!Orders, Aliases!Orders,
         ShortOfMemory!Ascends, Aliases!Ascends, ShortOfMemory!Surjection, Aliases!Surjection
<1> QED BY <1>1, <1>3, <1>4 DEF ShortOfMemory!Bisect, Aliases!Bisect

LEMMA SortedKeeps ==
    ASSUME NEW S, NEW t \in Seq(S), NEW u \in Aliases!Sorted(t)
    PROVE  /\ u \in Seq(S) /\ Len(u) = Len(t) /\ Aliases!Ascends(u)
           /\ \A i \in DOMAIN u : \E j \in DOMAIN t : u[i] = t[j]
           /\ \A j \in DOMAIN t : \E i \in DOMAIN u : u[i] = t[j]
<1>0. Len(t) \in Nat /\ DOMAIN t = 1..Len(t) /\ t \in [1..Len(t) -> S]
  BY LenProperties
<1>1. PICK p \in Aliases!Surjection(DOMAIN t, DOMAIN t) : u = [i \in DOMAIN t |-> t[p[i]]]
  BY DEF Aliases!Sorted, Aliases!Orders
<1>2. p \in [DOMAIN t -> DOMAIN t] /\ \A j \in DOMAIN t : \E i \in DOMAIN t : p[i] = j
  BY DEF Aliases!Surjection
<1>3. u \in [1..Len(t) -> S] /\ DOMAIN u = DOMAIN t
  BY <1>0, <1>1, <1>2
<1>4. u \in Seq(S) /\ Len(u) = Len(t)
  <2>1. u \in Seq(S)
    BY <1>0, <1>3
  <2> QED BY <1>0, <1>3, <2>1, LenProperties
<1>5. Aliases!Ascends(u)
  BY DEF Aliases!Sorted
<1>6. \A i \in DOMAIN u : \E j \in DOMAIN t : u[i] = t[j]
  BY <1>1, <1>2, <1>3
<1>7. \A j \in DOMAIN t : \E i \in DOMAIN u : u[i] = t[j]
  BY <1>1, <1>2, <1>3
<1> QED BY <1>4, <1>5, <1>6, <1>7

-----------------------------------------------------------------------------
\* All that is in the table comes from the files that were read.
AliasesInv ==
    /\ path \in AliasFiles /\ read \in 0..Len(path)
    /\ map \in Seq(Aliases!Line) /\ maxmap \in Nat /\ Len(map) <= maxmap
    /\ item = {} \/ \E name \in AliasName : item = {name}
    /\ expansion = {} \/ \E v \in STRING : expansion = {v}
    /\ \A i \in DOMAIN map : \E k \in 1..read : \E n \in DOMAIN path[k] : map[i] = path[k][n]

\* With memory, all that was read is in the table, which ascends.
AllRead ==
    /\ \A k \in 1..read : \A n \in DOMAIN path[k] : \E i \in DOMAIN map : map[i] = path[k][n]
    /\ Aliases!Ascends(map)

LEMMA PathTyped ==
    ASSUME Aliases!AliasesAssumption, path \in AliasFiles
    PROVE  /\ Len(path) \in Nat /\ DOMAIN path = 1..Len(path)
           /\ \A k \in DOMAIN path :
                 /\ path[k] \in Seq(Aliases!Line)
                 /\ Len(path[k]) \in Nat /\ DOMAIN path[k] = 1..Len(path[k])
<1>1. path \in Seq(Seq(Aliases!Line))
  BY DEF Aliases!AliasesAssumption
<1>2. Len(path) \in Nat /\ DOMAIN path = 1..Len(path) /\ \A k \in DOMAIN path : path[k] \in Seq(Aliases!Line)
  BY <1>1, LenProperties
<1> QED BY <1>2, LenProperties

\* A file is read: as far as there is memory its lines go into the table.
LEMMA FileRead ==
    ASSUME Aliases!AliasesAssumption, AliasesInv, NEW name \in item, read < Len(path),
           read' = read + 1, UNCHANGED <<path, item, expansion>>,
           NEW n \in 0..Len(path[read + 1]),
           LET t == map \o SubSeq(path[read + 1], 1, n) IN
           /\ map' = t \/ map' \in Aliases!Sorted(t)
           /\ maxmap' \in Nat /\ Len(t) <= maxmap'
    PROVE  /\ AliasesInv'
           /\ AllRead /\ n = Len(path[read + 1]) /\ Aliases!Ascends(map') => AllRead'
<1> DEFINE lines == path[read + 1]
           prefix == SubSeq(lines, 1, n)
           t == map \o prefix
<1>1. /\ Len(path) \in Nat /\ DOMAIN path = 1..Len(path) /\ read \in Nat /\ read + 1 \in DOMAIN path
      /\ lines \in Seq(Aliases!Line) /\ Len(lines) \in Nat /\ DOMAIN lines = 1..Len(lines)
  BY PathTyped DEF AliasesInv
<1> HIDE DEF lines
<1>2. /\ prefix \in Seq(Aliases!Line) /\ Len(prefix) = n /\ n \in Nat /\ n <= Len(lines)
      /\ \A i \in 1..n : prefix[i] = lines[i]
  <2>1. n \in Nat /\ n <= Len(lines)
    BY <1>1 DEF lines
  <2> QED BY <1>1, <2>1, SubSeqProperties
<1>3. map \in Seq(Aliases!Line) /\ Len(map) \in Nat /\ DOMAIN map = 1..Len(map)
  BY MapTyped DEF AliasesInv
<1> HIDE DEF prefix
<1>4. /\ t \in Seq(Aliases!Line) /\ Len(t) = Len(map) + n
      /\ \A i \in 1..(Len(map) + n) : t[i] = IF i <= Len(map) THEN map[i] ELSE prefix[i - Len(map)]
  BY <1>2, <1>3, ConcatProperties
<1>5. DOMAIN t = 1..(Len(map) + n)
  BY <1>4, LenProperties
<1>6. map' = t \/ map' \in Aliases!Sorted(t)
  BY DEF t, prefix, lines
<1>7. maxmap' \in Nat /\ Len(t) <= maxmap'
  BY DEF t, prefix, lines
<1> HIDE DEF t
<1>8. /\ map' \in Seq(Aliases!Line) /\ Len(map') = Len(t)
      /\ \A i \in DOMAIN map' : \E j \in DOMAIN t : map'[i] = t[j]
      /\ \A j \in DOMAIN t : \E i \in DOMAIN map' : map'[i] = t[j]
  <2>1. CASE map' = t
    BY <1>4, <2>1
  <2>2. CASE map' \in Aliases!Sorted(t)
    BY <1>4, <2>2, SortedKeeps
  <2> QED BY <1>6, <2>1, <2>2
<1>9. \A j \in DOMAIN t : \/ j \in DOMAIN map /\ t[j] = map[j]
                          \/ j - Len(map) \in 1..n /\ t[j] = lines[j - Len(map)]
  <2> TAKE j \in DOMAIN t
  <2>1. j \in 1..(Len(map) + n) /\ t[j] = IF j <= Len(map) THEN map[j] ELSE prefix[j - Len(map)]
    BY <1>4, <1>5
  <2>2. CASE j <= Len(map)
    BY <1>2, <1>3, <2>1, <2>2
  <2>3. CASE ~ j <= Len(map)
    <3>1. j - Len(map) \in 1..n
      BY <1>2, <1>3, <2>1, <2>3
    <3> QED BY <1>2, <2>1, <2>3, <3>1
  <2> QED BY <2>2, <2>3
<1>10. ASSUME NEW i \in DOMAIN map'
       PROVE  \E k \in 1..(read + 1) : \E l \in DOMAIN path[k] : map'[i] = path[k][l]
  <2>1. PICK j \in DOMAIN t : map'[i] = t[j]
    BY <1>8
  <2>2. CASE j \in DOMAIN map /\ t[j] = map[j]
    <3>1. PICK k \in 1..read : \E l \in DOMAIN path[k] : map[j] = path[k][l]
      BY <2>2 DEF AliasesInv
    <3>2. k \in 1..(read + 1)
      BY <1>1
    <3> QED BY <2>1, <2>2, <3>1, <3>2
  <2>3. CASE j - Len(map) \in 1..n /\ t[j] = lines[j - Len(map)]
    <3>1. j - Len(map) \in DOMAIN lines
      BY <1>1, <1>2, <2>3
    <3>2. read + 1 \in 1..(read + 1)
      BY <1>1
    <3> QED BY <2>1, <2>3, <3>1, <3>2 DEF lines
  <2> QED BY <1>9, <2>1, <2>2, <2>3
<1>11. AliasesInv'
  <2>1. path' = path /\ path' \in AliasFiles /\ read' \in 0..Len(path')
    BY <1>1 DEF AliasesInv
  <2>2. map' \in Seq(Aliases!Line) /\ maxmap' \in Nat /\ Len(map') <= maxmap'
    BY <1>7, <1>8
  <2>3. /\ item' = {} \/ \E a \in AliasName : item' = {a}
        /\ expansion' = {} \/ \E v \in STRING : expansion' = {v}
    BY DEF AliasesInv
  <2>4. \A i \in DOMAIN map' : \E k \in 1..read' : \E l \in DOMAIN path'[k] : map'[i] = path'[k][l]
    BY <1>10, <2>1
  <2> QED BY <2>1, <2>2, <2>3, <2>4 DEF AliasesInv
<1>12. ASSUME AllRead, n = Len(lines), Aliases!Ascends(map')
       PROVE  AllRead'
  <2>1. Aliases!Ascends(map)'
    BY <1>12 DEF Aliases!Ascends
  <2>2. ASSUME NEW k \in 1..(read + 1), NEW l \in DOMAIN path[k]
        PROVE  \E j \in DOMAIN t : t[j] = path[k][l]
    <3>1. CASE k \in 1..read
      <4>1. PICK i \in DOMAIN map : map[i] = path[k][l]
        BY <2>2, <3>1, <1>12 DEF AllRead
      <4>2. i \in DOMAIN t /\ t[i] = map[i]
        BY <1>2, <1>3, <1>4, <1>5
      <4> QED BY <4>1, <4>2
    <3>2. CASE k = read + 1
      <4>1. l \in 1..n
        BY <1>1, <1>12, <3>2 DEF lines
      <4>2. Len(map) + l \in DOMAIN t /\ ~ (Len(map) + l <= Len(map)) /\ (Len(map) + l) - Len(map) = l
        BY <1>2, <1>3, <1>5, <4>1
      <4>3. t[Len(map) + l] = prefix[l]
        BY <1>4, <1>5, <4>2
      <4> QED BY <1>2, <3>2, <4>1, <4>2, <4>3 DEF lines
    <3> QED BY <1>1, <3>1, <3>2
  <2>3. \A k \in 1..(read + 1) : \A l \in DOMAIN path[k] : \E i \in DOMAIN map' : map'[i] = path[k][l]
    BY <1>8, <2>2
  <2> QED BY <2>1, <2>3 DEF AllRead
<1> QED BY <1>11, <1>12 DEF lines

\* ShortOfMemory has the same steps, but for the file that is left half read.
ReadsPart ==
    /\ \E name \in item : Aliases!Bisect(name) = {}
    /\ read < Len(path)
    /\ read' = read + 1
    /\ \E n \in 0..(Len(path[read + 1]) - 1) :
          /\ map' = map \o SubSeq(path[read + 1], 1, n)
          /\ maxmap' = Aliases!Grown(Len(map) + n + 1)
    /\ UNCHANGED <<path, item, expansion>>

LEMMA ShortStep ==
    /\ ShortOfMemory!Next => Aliases!Next \/ ReadsPart
    /\ ShortOfMemory!AnswersAFile <=> Aliases!AnswersAFile
<1>1. ShortOfMemory!ReadAliasFile => Aliases!ReadAliasFile \/ ReadsPart
  <2>1. /\ \A name : ShortOfMemory!Bisect(name) = Aliases!Bisect(name)
        /\ \A n : ShortOfMemory!Grown(n) = Aliases!Grown(n)
        /\ \A t : ShortOfMemory!Sorted(t) = Aliases!Sorted(t)
    BY SameTable
  <2>2. /\ \A n : ShortOfMemory!Rooms(n) = {Aliases!Grown(n)}
        /\ \A n : Aliases!Rooms(n) = {Aliases!Grown(n)}
    BY <2>1 DEF ShortOfMemory!Rooms, Aliases!Rooms
  <2> QED BY <2>1, <2>2 DEF ShortOfMemory!ReadAliasFile, Aliases!ReadAliasFile, ReadsPart,
                            ShortOfMemory!Missing, Aliases!Missing
<1>2. /\ \A name \in AliasName : ShortOfMemory!Ask(name) => Aliases!Ask(name)
      /\ ShortOfMemory!Hit => Aliases!Hit
      /\ ShortOfMemory!GiveUp => Aliases!GiveUp
  BY SameTable DEF ShortOfMemory!Ask, Aliases!Ask, ShortOfMemory!Hit, Aliases!Hit, ShortOfMemory!GiveUp,
     Aliases!GiveUp, ShortOfMemory!Return, Aliases!Return
<1>3. ShortOfMemory!AnswersAFile <=> Aliases!AnswersAFile
  BY DEF ShortOfMemory!AnswersAFile, Aliases!AnswersAFile, ShortOfMemory!Says, Aliases!Says
<1> QED BY <1>1, <1>2, <1>3 DEF ShortOfMemory!Next, Aliases!Next, ShortOfMemory!Turn, Aliases!Turn

LEMMA AliasesStep ==
    ASSUME Aliases!AliasesAssumption, AliasesInv,
           Aliases!Next \/ ReadsPart \/ UNCHANGED Aliases!vars
    PROVE  /\ AliasesInv' /\ Aliases!AnswersAFile
           /\ AllRead /\ (Aliases!Next \/ UNCHANGED Aliases!vars) => AllRead' /\ Aliases!MissesNone
<1>0. map \in Seq(Aliases!Line) /\ item \subseteq AliasName /\ \A i \in DOMAIN map : map[i].value \in STRING
  <2>1. map \in Seq(Aliases!Line) /\ item \subseteq AliasName
    BY DEF AliasesInv
  <2> QED BY <2>1, MapTyped DEF Aliases!Line
<1>1. ASSUME UNCHANGED <<path, read, map, maxmap>>,
             item' = {} \/ \E name \in AliasName : item' = {name},
             expansion' = {} \/ \E v \in STRING : expansion' = {v}
      PROVE  AliasesInv' /\ (AllRead => AllRead')
  BY <1>1 DEF AliasesInv, AllRead, Aliases!Ascends
<1>2. ASSUME NEW name \in AliasName, Aliases!Ask(name)
      PROVE  /\ AliasesInv' /\ Aliases!AnswersAFile
             /\ AllRead => AllRead' /\ Aliases!MissesNone
  BY <1>1, <1>2 DEF Aliases!Ask, AliasesInv, Aliases!AnswersAFile, Aliases!MissesNone
<1>3. ASSUME Aliases!Hit
      PROVE  /\ AliasesInv' /\ Aliases!AnswersAFile
             /\ AllRead => AllRead' /\ Aliases!MissesNone
  <2>1. PICK name \in item : /\ Aliases!Bisect(name) # {}
                             /\ Aliases!Return({map[i].value : i \in Aliases!Bisect(name)})
    BY <1>3 DEF Aliases!Hit
  <2>2. item = {name} /\ name \in AliasName
    BY <2>1 DEF AliasesInv
  <2>3. PICK i \in DOMAIN map : Aliases!Bisect(name) = {i} /\ map[i].alias[1] = name[1]
    BY <1>0, <2>1, <2>2, BisectFinds
  <2>4. /\ expansion' = {map[i].value} /\ item' = {} /\ UNCHANGED <<path, read, map, maxmap>>
        /\ map[i].value \in STRING
    BY <1>0, <2>1, <2>3 DEF Aliases!Return
  <2>5. AliasesInv' /\ (AllRead => AllRead')
    BY <1>1, <2>4
  <2>6. PICK k \in 1..read : \E n \in DOMAIN path[k] : map[i] = path[k][n]
    BY DEF AliasesInv
  <2>7. map[i].value \in Aliases!Says(path[k], name)
    BY <2>3, <2>6 DEF Aliases!Says
  <2>8. Aliases!AnswersAFile
    BY <2>2, <2>4, <2>6, <2>7 DEF Aliases!AnswersAFile
  <2>9. Aliases!MissesNone
    BY <2>4 DEF Aliases!MissesNone
  <2> QED BY <2>5, <2>8, <2>9
<1>4. ASSUME Aliases!GiveUp
      PROVE  /\ AliasesInv' /\ Aliases!AnswersAFile
             /\ AllRead => AllRead' /\ Aliases!MissesNone
  <2>1. PICK name \in item : Aliases!Bisect(name) = {}
    BY <1>4 DEF Aliases!GiveUp
  <2>2. item = {name} /\ name \in AliasName
    BY <2>1 DEF AliasesInv
  <2>3. expansion' = {} /\ item' = {} /\ UNCHANGED <<path, read, map, maxmap>> /\ read = Len(path)
    BY <1>4 DEF Aliases!GiveUp, Aliases!Return
  <2>4. AliasesInv' /\ (AllRead => AllRead')
    BY <1>1, <2>3
  <2>5. Aliases!AnswersAFile
    BY <2>3 DEF Aliases!AnswersAFile
  <2>6. ASSUME AllRead, NEW k \in DOMAIN path, NEW n \in DOMAIN path[k], path[k][n].alias[1] = name[1]
        PROVE  FALSE
    <3>1. k \in 1..read
      BY <2>3, PathTyped DEF AliasesInv
    <3>2. PICK i \in DOMAIN map : map[i] = path[k][n]
      BY <2>6, <3>1 DEF AllRead
    <3>3. map[i].alias[1] # name[1]
      BY <1>0, <2>1, <2>2, <2>6, BisectFinds DEF AllRead
    <3> QED BY <2>6, <3>2, <3>3
  <2>7. AllRead => Aliases!MissesNone
    BY <2>2, <2>6 DEF Aliases!MissesNone, Aliases!Says
  <2> QED BY <2>4, <2>5, <2>7
<1>5. ASSUME Aliases!ReadAliasFile
      PROVE  /\ AliasesInv' /\ Aliases!AnswersAFile
             /\ AllRead => AllRead' /\ Aliases!MissesNone
  <2> DEFINE lines == path[read + 1]
             n == Len(lines)
             t == map \o lines
  <2>1. PICK name \in item : TRUE
    BY <1>5 DEF Aliases!ReadAliasFile
  <2>2. /\ read < Len(path) /\ read' = read + 1 /\ UNCHANGED <<path, item, expansion>>
        /\ \/ lines = << >> /\ UNCHANGED <<map, maxmap>>
           \/ map' \in Aliases!Sorted(t) /\ maxmap' = Aliases!Grown(Len(map'))
    BY <1>5 DEF Aliases!ReadAliasFile, Aliases!Rooms, Aliases!Missing
  <2>3. lines \in Seq(Aliases!Line) /\ n \in Nat
    BY <2>2, PathTyped DEF AliasesInv
  <2>4. SubSeq(lines, 1, n) = lines
    <3> HIDE DEF lines
    <3> QED BY <2>3
  <2>5. t \in Seq(Aliases!Line) /\ (lines = << >> => t = map)
    <3> HIDE DEF lines
    <3> QED BY <1>0, <2>3
  <2>6. /\ map' = t \/ map' \in Aliases!Sorted(t)
        /\ maxmap' \in Nat /\ Len(t) <= maxmap'
        /\ AllRead => Aliases!Ascends(map')
    <3>1. CASE lines = << >> /\ UNCHANGED <<map, maxmap>>
      <4>1. map' = t /\ map' = map /\ maxmap' = maxmap
        BY <2>5, <3>1
      <4>2. maxmap \in Nat /\ Len(map) <= maxmap
        BY DEF AliasesInv
      <4>3. t = map
        BY <2>5, <3>1
      <4> HIDE DEF t
      <4> QED BY <4>1, <4>2, <4>3 DEF AllRead
    <3>2. CASE map' \in Aliases!Sorted(t) /\ maxmap' = Aliases!Grown(Len(map'))
      <4> HIDE DEF t
      <4>1. Len(map') = Len(t) /\ Aliases!Ascends(map')
        BY <2>5, <3>2, SortedKeeps
      <4>2. Len(t) \in Nat
        BY <2>5, LenProperties
      <4> QED BY <3>2, <4>1, <4>2, GrownFits DEF AliasesInv
    <3> QED BY <2>2, <3>1, <3>2
  <2>7. n \in 0..Len(path[read + 1])
    BY <2>3
  <2>8. AliasesInv' /\ (AllRead => AllRead')
    BY <2>1, <2>2, <2>4, <2>6, <2>7, FileRead
  <2>9. item' # {} /\ item' = item
    BY <2>1, <2>2
  <2> QED BY <2>8, <2>9 DEF Aliases!AnswersAFile, Aliases!MissesNone
<1>6. ASSUME ReadsPart PROVE AliasesInv' /\ Aliases!AnswersAFile
  <2>1. PICK name \in item : TRUE
    BY <1>6 DEF ReadsPart
  <2> DEFINE lines == path[read + 1]
  <2>2. PICK n \in 0..(Len(lines) - 1) :
           map' = map \o SubSeq(lines, 1, n) /\ maxmap' = Aliases!Grown(Len(map) + n + 1)
    BY <1>6 DEF ReadsPart
  <2>3. read < Len(path) /\ read' = read + 1 /\ UNCHANGED <<path, item, expansion>>
    BY <1>6 DEF ReadsPart
  <2>4. lines \in Seq(Aliases!Line) /\ Len(lines) \in Nat /\ Len(map) \in Nat
    BY <1>0, <2>3, PathTyped, LenProperties DEF AliasesInv
  <2>5. n \in 0..Len(lines) /\ n \in Nat /\ Len(map) + n + 1 \in Nat
    <3> HIDE DEF lines
    <3> QED BY <2>4
  <2>6. maxmap' \in Nat /\ Len(map) + n + 1 <= maxmap'
    <3> HIDE DEF lines
    <3> QED BY <2>2, <2>5, GrownFits DEF AliasesInv
  <2>7. Len(map \o SubSeq(lines, 1, n)) = Len(map) + n
    <3> HIDE DEF lines
    <3>1. SubSeq(lines, 1, n) \in Seq(Aliases!Line) /\ Len(SubSeq(lines, 1, n)) = n
      BY <2>4, <2>5, SubSeqProperties
    <3> DEFINE u == SubSeq(lines, 1, n)
    <3> HIDE DEF u
    <3>2. Len(map \o u) = Len(map) + n
      BY <1>0, <3>1, ConcatProperties DEF u
    <3> QED BY <3>2 DEF u
  <2>8. LET t == map \o SubSeq(lines, 1, n) IN map' = t /\ maxmap' \in Nat /\ Len(t) <= maxmap'
    <3> HIDE DEF lines
    <3> QED BY <2>2, <2>4, <2>5, <2>6, <2>7
  <2>9. AliasesInv'
    BY <2>1, <2>3, <2>5, <2>8, FileRead
  <2> QED BY <2>1, <2>3, <2>9 DEF Aliases!AnswersAFile
<1>7. ASSUME UNCHANGED Aliases!vars
      PROVE  /\ AliasesInv' /\ Aliases!AnswersAFile
             /\ AllRead => AllRead' /\ Aliases!MissesNone
  <2>1. AliasesInv' /\ (AllRead => AllRead') /\ item' = item
    BY <1>1, <1>7 DEF Aliases!vars, AliasesInv
  <2> QED BY <2>1 DEF Aliases!AnswersAFile, Aliases!MissesNone
<1> QED BY <1>2, <1>3, <1>4, <1>5, <1>6, <1>7 DEF Aliases!Next, Aliases!Turn

-----------------------------------------------------------------------------
(* The messages of a file *)

\* The remainder is the only number of its kind.
LEMMA Remainder ==
    ASSUME NEW q \in Int, NEW n \in Nat \ {0}, NEW r \in 0..(n - 1)
    PROVE  (n * q + r) % n = r
<1> DEFINE a == n * q + r
           d == a \div n
           m == a % n
<1>1. a \in Int /\ d \in Int /\ m \in 0..(n - 1) /\ a = n * d + m
  OBVIOUS
<1>2. n * (q - d) = m - r
  <2>1. n * q + r = n * d + m
    BY <1>1
  <2>2. n * (q - d) = n * q - n * d
    BY <1>1
  <2> HIDE DEF a, d, m
  <2> QED BY <1>1, <2>1, <2>2
<1> HIDE DEF a, d, m
<1>3. ASSUME q - d >= 1 PROVE FALSE
  <2>1. n * (q - d) >= n
    BY <1>1, <1>3
  <2> QED BY <1>1, <1>2, <2>1
<1>4. ASSUME q - d <= -1 PROVE FALSE
  <2>1. n * (q - d) <= - n
    BY <1>1, <1>4
  <2> QED BY <1>1, <1>2, <2>1
<1>5. q = d
  BY <1>1, <1>3, <1>4
<1>6. m = r
  BY <1>1, <1>2, <1>5
<1> QED BY <1>6 DEF a, m

LEMMA StepModulo ==
    ASSUME NEW a \in Nat, NEW n \in Nat, NEW i \in 1..(n - 1)
    PROVE  (a + i) % n = IF a % n >= n - i THEN (a % n) - (n - i) ELSE (a % n) + i
<1> DEFINE q == a \div n
           r == a % n
<1>1. q \in Int /\ r \in 0..(n - 1) /\ a = n * q + r /\ n \in Nat \ {0}
  OBVIOUS
<1> HIDE DEF q, r
<1>2. CASE r >= n - i
  <2>1. r - (n - i) \in 0..(n - 1) /\ q + 1 \in Int
    BY <1>1, <1>2
  <2>2. (n * (q + 1) + (r - (n - i))) % n = r - (n - i)
    BY <1>1, <2>1, Remainder
  <2>3. a + i = n * (q + 1) + (r - (n - i))
    <3>1. n * (q + 1) = n * q + n
      BY <1>1
    <3> QED BY <1>1, <3>1
  <2> QED BY <1>2, <2>2, <2>3 DEF r
<1>3. CASE ~ r >= n - i
  <2>1. r + i \in 0..(n - 1)
    BY <1>1, <1>3
  <2>2. (n * q + (r + i)) % n = r + i
    BY <1>1, <2>1, Remainder
  <2>3. a + i = n * q + (r + i)
    BY <1>1
  <2> QED BY <1>3, <2>2, <2>3 DEF r
<1> QED BY <1>2, <1>3

\* The probes for a message go from entry to entry, and wrap around.
LEMMA Probes ==
    ASSUME FindMsg!FindMsgAssumption, hash \in [Message -> Hash], NEW m \in Message,
           NEW n \in Sizes, n > 2, NEW j \in Nat
    PROVE  /\ n \in Nat /\ FindMsg!Incr(hash[m], n) \in 1..(n - 1)
           /\ FindMsg!ProbeAt(m, j, n) \in 0..(n - 1)
           /\ FindMsg!ProbeAt(m, 0, n) = FindMsg!Start(hash[m], n)
           /\ FindMsg!ProbeAt(m, j + 1, n) =
                 LET at == FindMsg!ProbeAt(m, j, n)
                     incr == FindMsg!Incr(hash[m], n)
                 IN  IF at >= n - incr THEN at - (n - incr) ELSE at + incr
<1> DEFINE s == hash[m] % n
           i == 1 + (hash[m] % (n - 2))
           a == s + j * i
<1>1. n \in Nat /\ n > 2 /\ hash[m] \in Nat
  BY DEF FindMsg!FindMsgAssumption
<1>2. s \in 0..(n - 1) /\ i \in 1..(n - 1)
  BY <1>1
<1>3. /\ FindMsg!Incr(hash[m], n) = i /\ FindMsg!Start(hash[m], n) = s
      /\ FindMsg!ProbeAt(m, j, n) = a % n
      /\ FindMsg!ProbeAt(m, j + 1, n) = (s + (j + 1) * i) % n
      /\ FindMsg!ProbeAt(m, 0, n) = (s + 0 * i) % n
  BY DEF FindMsg!Incr, FindMsg!Start, FindMsg!ProbeAt
<1> HIDE DEF s, i
<1>4. a \in Nat /\ s + (j + 1) * i = a + i /\ s + 0 * i = s
  <2>1. j * i \in Nat /\ (j + 1) * i = j * i + i /\ 0 * i = 0
    BY <1>2
  <2> QED BY <1>2, <2>1
<1> HIDE DEF a
<1>5. a % n \in 0..(n - 1) /\ s % n = s
  BY <1>1, <1>2, <1>4
<1>6. (a + i) % n = IF a % n >= n - i THEN (a % n) - (n - i) ELSE (a % n) + i
  BY <1>1, <1>2, <1>4, StepModulo
<1> QED BY <1>1, <1>2, <1>3, <1>4, <1>5, <1>6

\* A table where the first k messages are: each where a search for it gets
\* to, past entries that are taken, and no two in one entry.
Holds(tab, k, n) ==
    /\ tab \in [1..n -> 0..k]
    /\ \A c, d \in 1..n : tab[c] # 0 /\ tab[c] = tab[d] => c = d
    /\ \A l \in 1..k : \E j \in 0..(n - 1) :
          /\ tab[1 + FindMsg!ProbeAt(orig[l], j, n)] = l
          /\ \A i \in 0..(j - 1) : tab[1 + FindMsg!ProbeAt(orig[l], i, n)] # 0

LEMMA OneMore ==
    ASSUME FindMsg!FindMsgAssumption, hash \in [Message -> Hash], orig \in Seq(Message),
           NEW n \in Sizes, n > 2, Len(orig) < n,
           NEW k \in 1..Len(orig), NEW tab, Holds(tab, k - 1, n)
    PROVE  LET free == {j \in 0..(n - 1) : tab[1 + FindMsg!ProbeAt(orig[k], j, n)] = 0}
           IN  Holds([tab EXCEPT ![1 + FindMsg!ProbeAt(orig[k], FindMsg!Min(free), n)] = k], k, n)
<1> DEFINE P(l, j) == 1 + FindMsg!ProbeAt(orig[l], j, n)
           free == {j \in 0..(n - 1) : tab[P(k, j)] = 0}
           first == FindMsg!Min(free)
           at == P(k, first)
           new == [tab EXCEPT ![at] = k]
<1>1. n \in Nat /\ Len(orig) \in Nat /\ \A l \in 1..Len(orig) : orig[l] \in Message
  BY LenProperties DEF FindMsg!FindMsgAssumption
<1>2. \A l \in 1..Len(orig), j \in Nat : P(l, j) \in 1..n
  <2> TAKE l \in 1..Len(orig), j \in Nat
  <2>1. FindMsg!ProbeAt(orig[l], j, n) \in 0..(n - 1)
    BY <1>1, Probes
  <2> QED BY <1>1, <2>1
<1>3. \E c \in 1..n : tab[c] = 0
  <2> SUFFICES ASSUME \A c \in 1..n : tab[c] # 0 PROVE FALSE
    OBVIOUS
  <2>1. tab \in [1..n -> 1..(k - 1)]
    BY <1>1 DEF Holds
  <2>2. /\ IsFiniteSet(1..n) /\ Cardinality(1..n) = n
        /\ IsFiniteSet(1..(k - 1)) /\ Cardinality(1..(k - 1)) = k - 1
    <3>1. \A z \in Nat : IsFiniteSet(1..z) /\ Cardinality(1..z) = z
      <4> TAKE z \in Nat
      <4>1. 1 \in Int /\ z \in Int
        OBVIOUS
      <4>2. IsFiniteSet(1..z)
        BY <4>1, FS_Interval
      <4>3. Cardinality(1..z) = IF 1 > z THEN 0 ELSE z - 1 + 1
        BY <4>1, FS_Interval
      <4> QED BY <4>2, <4>3
    <3> QED BY <1>1, <3>1
  <2>3. k - 1 < n
    BY <1>1
  <2>4. \E c, d \in 1..n : c # d /\ tab[c] = tab[d]
    BY <2>1, <2>2, <2>3, FS_PigeonHole
  <2> QED BY <2>4 DEF Holds
<1>4. free # {}
  <2>1. PICK c \in 1..n : tab[c] = 0
    BY <1>3
  <2>2. hash[orig[k]] \in Hash /\ c - 1 \in 0..(n - 1)
    BY <1>1
  <2>3. \E j \in 0..(n - 1) :
           (FindMsg!Start(hash[orig[k]], n) + j * FindMsg!Incr(hash[orig[k]], n)) % n = c - 1
    BY <2>2 DEF FindMsg!FindMsgAssumption
  <2>4. PICK j \in 0..(n - 1) : FindMsg!ProbeAt(orig[k], j, n) = c - 1
    BY <2>3 DEF FindMsg!ProbeAt
  <2> QED BY <1>1, <2>1, <2>4
<1>5. first \in free /\ \A j \in free : first <= j
  <2>1. free \in SUBSET Nat
    BY <1>1
  <2>2. \E l \in free : \A j \in free : l <= j
    <3> HIDE DEF free
    <3> QED BY <1>4, <2>1, LeastNat
  <2> HIDE DEF free
  <2> QED BY <2>2 DEF FindMsg!Min
<1> HIDE DEF first
<1>6. first \in 0..(n - 1) /\ at \in 1..n /\ tab[at] = 0
  <2>1. first \in 0..(n - 1) /\ first \in Nat /\ tab[at] = 0
    BY <1>1, <1>5
  <2> HIDE DEF P
  <2>2. P(k, first) \in 1..n
    BY <1>2, <2>1
  <2> QED BY <2>1, <2>2
<1>7. /\ tab \in [1..n -> 0..(k - 1)] /\ tab \in [1..n -> 0..k] /\ k \in 0..k /\ k # 0
      /\ \A c \in 1..n : tab[c] # k
  BY <1>1 DEF Holds
<1> HIDE DEF at
<1>8. new \in [1..n -> 0..k] /\ new[at] = k /\ \A c \in 1..n : c # at => new[c] = tab[c]
  BY <1>6, <1>7
<1>9. \A c \in 1..n : tab[c] # 0 => new[c] = tab[c]
  BY <1>6, <1>8
<1> HIDE DEF new
<1>10. \A c, d \in 1..n : new[c] # 0 /\ new[c] = new[d] => c = d
  BY <1>7, <1>8 DEF Holds
<1>11. ASSUME NEW l \in 1..(k - 1)
       PROVE  \E j \in 0..(n - 1) : new[P(l, j)] = l /\ \A i \in 0..(j - 1) : new[P(l, i)] # 0
  <2>1. PICK j \in 0..(n - 1) : tab[P(l, j)] = l /\ \A i \in 0..(j - 1) : tab[P(l, i)] # 0
    BY DEF Holds
  <2>2. l \in 1..Len(orig) /\ l # 0
    BY <1>1
  <2>3. \A i \in Nat : P(l, i) \in 1..n
    BY <1>2, <2>2
  <2> HIDE DEF P
  <2>4. new[P(l, j)] = l
    <3>0. j \in Nat /\ tab[P(l, j)] # 0
      BY <1>1, <2>1, <2>2
    <3>1. P(l, j) \in 1..n /\ tab[P(l, j)] # 0
      BY <2>3, <3>0
    <3> QED BY <1>9, <2>1, <3>1
  <2>5. ASSUME NEW i \in 0..(j - 1) PROVE new[P(l, i)] # 0
    <3>1. i \in Nat /\ tab[P(l, i)] # 0
      BY <1>1, <2>1
    <3>2. P(l, i) \in 1..n
      BY <2>3, <3>1
    <3> QED BY <1>9, <3>1, <3>2
  <2> QED BY <2>4, <2>5
<1>12. \E j \in 0..(n - 1) : new[P(k, j)] = k /\ \A i \in 0..(j - 1) : new[P(k, i)] # 0
  <2>1. new[P(k, first)] = k
    BY <1>8 DEF at
  <2>2. ASSUME NEW i \in 0..(first - 1) PROVE new[P(k, i)] # 0
    <3>1. i \in 0..(n - 1) /\ i < first /\ P(k, i) \in 1..n
      <4>1. i \in 0..(n - 1) /\ i < first /\ i \in Nat
        BY <1>1, <1>6
      <4> HIDE DEF P
      <4> QED BY <1>2, <4>1
    <3>2. i \notin free
      <4> HIDE DEF free
      <4> QED BY <1>1, <1>5, <1>6, <3>1
    <3>3. tab[P(k, i)] # 0
      BY <3>1, <3>2
    <3> HIDE DEF P, free
    <3> QED BY <1>9, <3>1, <3>3
  <2> HIDE DEF P
  <2> QED BY <1>6, <2>1, <2>2
<1>13. \A l \in 1..k : l \in 1..(k - 1) \/ l = k
  BY <1>1
<1>14. Holds(new, k, n)
  <2> HIDE DEF P
  <2>1. \A l \in 1..k : \E j \in 0..(n - 1) : new[P(l, j)] = l /\ \A i \in 0..(j - 1) : new[P(l, i)] # 0
    BY <1>11, <1>12, <1>13
  <2> QED BY <1>8, <1>10, <2>1 DEF Holds, P
<1> QED BY <1>14 DEF new, at, first

\* msgfmt gets all messages in.
LEMMA TableHolds ==
    ASSUME FindMsg!FindMsgAssumption, hash \in [Message -> Hash], orig \in Seq(Message),
           NEW n \in Sizes, n > 2, Len(orig) < n
    PROVE  Holds(FindMsg!Table(n), Len(orig), n)
<1> DEFINE empty == [i \in 1..n |-> 0]
           free(tab, k) == {j \in 0..(n - 1) : tab[1 + FindMsg!ProbeAt(orig[k], j, n)] = 0}
           put(tab, k) == [tab EXCEPT ![1 + FindMsg!ProbeAt(orig[k], FindMsg!Min(free(tab, k)), n)] = k]
           Fills(f, m) == f = [k \in 0..m |-> IF k = 0 THEN empty ELSE put(f[k - 1], k)]
           fill == CHOOSE f : Fills(f, Len(orig))
<1>1. FindMsg!Table(n) = fill[Len(orig)]
  BY DEF FindMsg!Table
<1>2. Len(orig) \in Nat /\ n \in Nat
  BY LenProperties DEF FindMsg!FindMsgAssumption
<1>3. ASSUME NEW tab, NEW k \in 1..Len(orig), Holds(tab, k - 1, n) PROVE Holds(put(tab, k), k, n)
  BY <1>3, OneMore
<1>4. Holds(empty, 0, n)
  BY <1>2 DEF Holds
<1> HIDE DEF put, empty
<1>5. \A m \in Nat : \E f : Fills(f, m)
  <2> DEFINE Bad == {m \in Nat : ~ \E f : Fills(f, m)}
  <2> SUFFICES ASSUME Bad # {} PROVE FALSE
    OBVIOUS
  <2>1. PICK m \in Bad : \A l \in Bad : m <= l
    <3> HIDE DEF Bad
    <3>1. Bad \in SUBSET Nat
      BY DEF Bad
    <3> QED BY <3>1, LeastNat
  <2>2. CASE m = 0
    <3>1. Fills([k \in 0..0 |-> empty], 0)
      OBVIOUS
    <3> QED BY <2>1, <2>2, <3>1
  <2>3. CASE m # 0
    <3>1. m - 1 \in Nat /\ m - 1 \notin Bad
      <4>1. m \in Nat
        BY <2>1
      <4> HIDE DEF Bad
      <4> QED BY <2>1, <2>3, <4>1
    <3>2. PICK f : Fills(f, m - 1)
      BY <3>1
    <3> DEFINE g == [k \in 0..m |-> IF k = m THEN put(f[m - 1], m) ELSE f[k]]
    <3>3. ASSUME NEW k \in 0..m PROVE g[k] = IF k = 0 THEN empty ELSE put(g[k - 1], k)
      <4>1. CASE k = 0
        BY <2>3, <3>1, <3>2, <4>1
      <4>2. CASE k # 0 /\ k # m
        <5>1. k \in 0..(m - 1) /\ k - 1 \in 0..m /\ k - 1 # m
          BY <2>1, <4>2
        <5>2. f[k] = put(f[k - 1], k)
          BY <3>2, <4>2, <5>1
        <5> QED BY <4>2, <5>1, <5>2
      <4>3. CASE k # 0 /\ k = m
        <5>1. m - 1 \in 0..m /\ m - 1 # m
          BY <3>1
        <5> QED BY <4>3, <5>1
      <4> QED BY <4>1, <4>2, <4>3
    <3>4. Fills(g, m)
      BY <3>3
    <3> HIDE DEF Fills, g
    <3> QED BY <2>1, <3>4
  <2> QED BY <2>2, <2>3
<1>6. Fills(fill, Len(orig))
  <2> HIDE DEF Fills
  <2> QED BY <1>2, <1>5
<1> HIDE DEF fill
<1>7. \A k \in 0..Len(orig) : Holds(fill[k], k, n)
  <2> DEFINE Bad == {k \in 0..Len(orig) : ~ Holds(fill[k], k, n)}
  <2> SUFFICES ASSUME Bad # {} PROVE FALSE
    OBVIOUS
  <2>1. PICK k \in Bad : \A l \in Bad : k <= l
    <3>1. Bad \in SUBSET Nat
      BY <1>2
    <3> HIDE DEF Bad
    <3> QED BY <3>1, LeastNat
  <2>2. k # 0
    <3>1. fill[0] = empty
      BY <1>2, <1>6
    <3> QED BY <1>4, <2>1, <3>1
  <2>3. k - 1 \in 0..Len(orig) /\ k - 1 \notin Bad /\ k \in 1..Len(orig)
    BY <1>2, <2>1, <2>2
  <2>4. fill[k] = put(fill[k - 1], k)
    BY <1>2, <1>6, <2>2, <2>3
  <2> QED BY <1>3, <2>1, <2>3, <2>4
<1> QED BY <1>1, <1>2, <1>7

-----------------------------------------------------------------------------
(* Bisection of orig_tab *)

ranges == Message \X (0..Len(orig)) \X (0..Len(orig))

LEMMA OrigTyped ==
    ASSUME FindMsg!FindMsgAssumption, orig \in Seq(Message)
    PROVE  /\ Len(orig) \in Nat /\ DOMAIN orig = 1..Len(orig) /\ Message \subseteq Int
           /\ \A i \in 1..Len(orig) : orig[i] \in Message /\ orig[i] \in Int
BY LenProperties DEF FindMsg!FindMsgAssumption

LEMMA OrigHalves ==
    ASSUME FindMsg!FindMsgAssumption, orig \in Seq(Message), NEW s \in ranges, s[2] < s[3]
    PROVE  LET act == (s[2] + s[3]) \div 2 IN
           /\ s[1] \in Message /\ s[2] \in Nat /\ s[3] \in Nat
           /\ act \in Nat /\ s[2] <= act /\ act < s[3] /\ act + 1 \in 1..Len(orig)
           /\ <<s[1], s[2], act>> \in ranges /\ <<s[1], act + 1, s[3]>> \in ranges
<1>1. Len(orig) \in Nat
  BY OrigTyped
<1>2. s[1] \in Message /\ s[2] \in 0..Len(orig) /\ s[3] \in 0..Len(orig)
  BY DEF ranges
<1> DEFINE act == (s[2] + s[3]) \div 2
<1>3. act \in Int /\ s[2] <= act /\ act < s[3]
  BY <1>1, <1>2
<1> HIDE DEF act
<1>4. act \in 0..Len(orig) /\ act + 1 \in 0..Len(orig) /\ act + 1 \in 1..Len(orig)
  BY <1>1, <1>2, <1>3
<1>5. <<s[1], s[2], act>> \in ranges /\ <<s[1], act + 1, s[3]>> \in ranges
  BY <1>2, <1>4 DEF ranges
<1> QED BY <1>1, <1>2, <1>3, <1>4, <1>5 DEF act

LEMMA OrigSearchUnfolds ==
    ASSUME FindMsg!FindMsgAssumption, orig \in Seq(Message)
    PROVE  \A s \in ranges :
              FindMsg!Search[s] =
                  LET act == (s[2] + s[3]) \div 2 IN
                  IF s[2] >= s[3] THEN 0
                  ELSE IF s[1] < orig[act + 1] THEN FindMsg!Search[<<s[1], s[2], act>>]
                  ELSE IF s[1] > orig[act + 1] THEN FindMsg!Search[<<s[1], act + 1, s[3]>>]
                  ELSE act + 1
<1> DEFINE D == ranges
           R == Int
           measure == [s \in D |-> IF s[2] >= s[3] THEN 0 ELSE s[3] - s[2]]
           value(g, s) ==
              LET act == (s[2] + s[3]) \div 2 IN
              IF s[2] >= s[3] THEN 0
              ELSE IF s[1] < orig[act + 1] THEN g[<<s[1], s[2], act>>]
              ELSE IF s[1] > orig[act + 1] THEN g[<<s[1], act + 1, s[3]>>]
              ELSE act + 1
           body == [g \in [D -> R] |-> [s \in D |-> value(g, s)]]
<1>0. ASSUME NEW s \in D
      PROVE  s[1] \in Message /\ s[2] \in Nat /\ s[3] \in Nat /\ (s[2] + s[3]) \div 2 \in Int
  BY OrigTyped DEF ranges
<1>1. measure \in [D -> Nat]
  BY <1>0
<1>2. body \in [[D -> R] -> [D -> R]]
  <2> SUFFICES ASSUME NEW g \in [D -> R], NEW s \in D PROVE value(g, s) \in R
    OBVIOUS
  <2> QED BY <1>0, OrigHalves
<1>3. ASSUME NEW g \in [D -> R], NEW h \in [D -> R], NEW s \in D,
             \A e \in D : measure[e] < measure[s] => g[e] = h[e]
      PROVE  body[g][s] = body[h][s]
  <2> DEFINE act  == (s[2] + s[3]) \div 2
             low  == <<s[1], s[2], act>>
             high == <<s[1], act + 1, s[3]>>
  <2>1. CASE s[2] < s[3]
    <3>1. /\ s[2] \in Nat /\ s[3] \in Nat /\ act \in Int /\ s[2] <= act /\ act < s[3]
          /\ low \in D /\ high \in D
      BY <2>1, <1>0, OrigHalves
    <3>2. /\ measure[s] = s[3] - s[2]
          /\ measure[low] = IF s[2] >= act THEN 0 ELSE act - s[2]
          /\ measure[high] = IF act + 1 >= s[3] THEN 0 ELSE s[3] - (act + 1)
      <4>1. /\ measure[s] = IF s[2] >= s[3] THEN 0 ELSE s[3] - s[2]
            /\ measure[low] = IF low[2] >= low[3] THEN 0 ELSE low[3] - low[2]
            /\ measure[high] = IF high[2] >= high[3] THEN 0 ELSE high[3] - high[2]
        <5> HIDE DEF low, high
        <5> QED BY <3>1
      <4>2. low[2] = s[2] /\ low[3] = act /\ high[2] = act + 1 /\ high[3] = s[3]
        OBVIOUS
      <4>3. ~ s[2] >= s[3]
        BY <2>1, <3>1
      <4> HIDE DEF measure, low, high, act
      <4> QED BY <4>1, <4>2, <4>3
    <3> HIDE DEF measure, low, high, act
    <3>3. measure[low] < measure[s] /\ measure[high] < measure[s]
      BY <2>1, <3>1, <3>2
    <3>4. g[low] = h[low] /\ g[high] = h[high]
      BY <1>3, <3>1, <3>3
    <3>5. value(g, s) = value(h, s)
      BY <3>4 DEF low, high, act
    <3> QED BY <3>5
  <2>2. CASE ~ s[2] < s[3]
    BY <1>0, <2>2
  <2> QED BY <2>1, <2>2
<1>4. \E f \in [D -> R] : f = body[f]
  <2>1. [s \in D |-> 0] \in [D -> R]
    OBVIOUS
  <2> HIDE DEF D, R, measure, body
  <2>2. [D -> R] # {}
    BY <2>1
  <2>3. Recursive(D, R, measure, body)
    BY <1>1, <1>2, <1>3, <2>2 DEF Recursive
  <2> QED BY <2>3, Recursion
<1>5. \E f : f = [s \in D |-> value(f, s)]
  BY <1>4
<1>6. FindMsg!Search = CHOOSE f : f = [s \in D |-> value(f, s)]
  BY DEF FindMsg!Search, ranges
<1>7. FindMsg!Search = [s \in D |-> value(FindMsg!Search, s)]
  <2> HIDE DEF value
  <2> QED BY <1>5, <1>6
<1> QED BY <1>7

\* Bisection finds a message where it is.
LEMMA BisectionFinds ==
    ASSUME FindMsg!FindMsgAssumption, orig \in Seq(Message), FindMsg!Ascends(orig), NEW m \in Message
    PROVE  LET at == FindMsg!Search[<<m, 0, Len(orig)>>] IN
           \/ at \in 1..Len(orig) /\ orig[at] = m
           \/ at = 0 /\ \A i \in 1..Len(orig) : orig[i] # m
<1> DEFINE Right(s) ==
       \/ FindMsg!Search[s] \in 1..Len(orig) /\ orig[FindMsg!Search[s]] = s[1]
       \/ FindMsg!Search[s] = 0 /\ \A i \in (s[2] + 1)..s[3] : orig[i] # s[1]
<1>1. \A s \in ranges : Right(s)
  <2> DEFINE Wrong == {s \in ranges : ~ Right(s)}
             Bad == {k \in Nat : \E s \in Wrong : s[3] - s[2] = k}
  <2>0. ASSUME NEW s \in ranges PROVE s[1] \in Message /\ s[2] \in Nat /\ s[3] \in Nat /\ s[3] <= Len(orig)
    BY OrigTyped DEF ranges
  <2>1. ASSUME NEW s \in ranges, s[2] >= s[3] PROVE Right(s)
    <3>1. FindMsg!Search[s] = 0
      BY <2>1, OrigSearchUnfolds
    <3>2. (s[2] + 1)..s[3] = {}
      BY <2>0, <2>1
    <3> QED BY <3>1, <3>2
  <2> SUFFICES ASSUME Wrong # {} PROVE FALSE
    OBVIOUS
  <2>2. Bad # {}
    <3>1. PICK s \in Wrong : TRUE
      OBVIOUS
    <3>2. s \in ranges /\ s[2] < s[3]
      BY <2>0, <2>1, <3>1
    <3>3. s[3] - s[2] \in Nat
      BY <2>0, <3>2
    <3> QED BY <3>1, <3>3
  <2>3. PICK k \in Bad : \A l \in Bad : k <= l
    <3> HIDE DEF Bad
    <3>1. Bad \in SUBSET Nat
      BY DEF Bad
    <3> QED BY <2>2, <3>1, LeastNat
  <2>4. PICK s \in ranges : ~ Right(s) /\ s[3] - s[2] = k
    BY <2>3
  <2>5. s[2] < s[3]
    BY <2>0, <2>1, <2>4
  <2>6. ASSUME NEW t \in ranges, t[3] - t[2] < k PROVE Right(t)
    <3>1. CASE t[2] >= t[3]
      BY <2>1, <3>1
    <3>2. CASE t[2] < t[3] /\ ~ Right(t)
      <4>1. t[3] - t[2] \in Nat /\ t \in Wrong
        BY <2>0, <3>2
      <4>2. t[3] - t[2] \in Bad
        BY <4>1
      <4> QED BY <2>3, <2>6, <4>1, <4>2
    <3> QED BY <2>0, <3>1, <3>2
  <2> DEFINE act  == (s[2] + s[3]) \div 2
             low  == <<s[1], s[2], act>>
             high == <<s[1], act + 1, s[3]>>
  <2>7. /\ act + 1 \in 1..Len(orig) /\ act \in Nat /\ s[2] <= act /\ act < s[3]
        /\ low \in ranges /\ high \in ranges
        /\ s[1] \in Message /\ s[2] \in Nat /\ s[3] \in Nat
    BY <2>5, OrigHalves
  <2>8. FindMsg!Search[s] = IF s[1] < orig[act + 1] THEN FindMsg!Search[low]
                            ELSE IF s[1] > orig[act + 1] THEN FindMsg!Search[high]
                            ELSE act + 1
    <3>1. ~ s[2] >= s[3]
      BY <2>5, <2>7
    <3> QED BY <3>1, OrigSearchUnfolds
  <2>9. low[1] = s[1] /\ low[2] = s[2] /\ low[3] = act /\ high[1] = s[1] /\ high[2] = act + 1 /\ high[3] = s[3]
    OBVIOUS
  <2>10. /\ s[1] \in Int /\ \A j \in 1..Len(orig) : orig[j] \in Int
         /\ DOMAIN orig = 1..Len(orig) /\ Len(orig) \in Nat /\ s[3] <= Len(orig)
    BY <2>0, <2>7, OrigTyped
  <2> HIDE DEF act, low, high, Right, Wrong, Bad
  <2>11. Right(low) /\ Right(high)
    BY <2>3, <2>4, <2>6, <2>7, <2>9
  <2>12. \A i, j \in 1..Len(orig) : i < j => orig[i] < orig[j]
    BY <2>10 DEF FindMsg!Ascends
  <2>13. CASE s[1] < orig[act + 1]
    <3>1. ASSUME NEW j \in (s[2] + 1)..s[3], orig[j] = s[1] PROVE j \in (s[2] + 1)..act
      <4>1. j \in 1..Len(orig) /\ j \in Int
        BY <2>7, <2>10
      <4>2. ~ (act + 1 < j) /\ act + 1 # j
        BY <2>7, <2>10, <2>12, <2>13, <3>1, <4>1
      <4> QED BY <2>7, <3>1, <4>1, <4>2
    <3> QED BY <2>4, <2>8, <2>9, <2>11, <2>13, <3>1 DEF Right
  <2>14. CASE s[1] > orig[act + 1]
    <3>1. ASSUME NEW j \in (s[2] + 1)..s[3], orig[j] = s[1] PROVE j \in (act + 1 + 1)..s[3]
      <4>1. j \in 1..Len(orig) /\ j \in Int
        BY <2>7, <2>10
      <4>2. ~ (j < act + 1) /\ act + 1 # j
        BY <2>7, <2>10, <2>12, <2>14, <3>1, <4>1
      <4> QED BY <2>7, <3>1, <4>1, <4>2
    <3>2. FindMsg!Search[s] = FindMsg!Search[high]
      BY <2>7, <2>8, <2>10, <2>14
    <3> QED BY <2>4, <2>9, <2>11, <3>1, <3>2 DEF Right
  <2>15. CASE s[1] = orig[act + 1]
    BY <2>4, <2>7, <2>8, <2>10, <2>15 DEF Right
  <2> QED BY <2>7, <2>10, <2>13, <2>14, <2>15
<1> DEFINE all == <<m, 0, Len(orig)>>
<1>2. all \in ranges /\ all[1] = m /\ all[2] + 1 = 1 /\ all[3] = Len(orig)
  BY OrigTyped DEF ranges
<1>3. Right(all)
  BY <1>1, <1>2
<1> HIDE DEF all
<1>4. \/ FindMsg!Search[all] \in 1..Len(orig) /\ orig[FindMsg!Search[all]] = m
      \/ FindMsg!Search[all] = 0 /\ \A i \in 1..Len(orig) : orig[i] # m
  BY <1>2, <1>3
<1> QED BY <1>4 DEF all

size == FindMsg!size

\* Where a search in the table has got to: past other messages only.
Searching ==
    size > 2 =>
        \A m \in msgid : \E j \in Nat :
            /\ idx = FindMsg!ProbeAt(m, j, size)
            /\ \A i \in 0..(j - 1) :
                  LET entry == hash_tab[1 + FindMsg!ProbeAt(m, i, size)]
                  IN  entry # 0 /\ orig[entry] # m

FindMsgInv ==
    /\ hash \in [Message -> Hash]
    /\ orig \in Seq(Message) /\ FindMsg!Ascends(orig)
    /\ size \in Sizes
    /\ hash_tab \in Seq(Nat)
    /\ size > 2 => Holds(hash_tab, Len(orig), size)
    /\ msgid = {} \/ \E m \in Message : msgid = {m}
    /\ position \in 0..Len(orig)
    /\ IF size > 2 THEN idx \in 0..(size - 1) ELSE idx = 0
    /\ Searching

LEMMA PositionIs ==
    ASSUME FindMsg!FindMsgAssumption, orig \in Seq(Message), FindMsg!Ascends(orig), NEW m \in Message
    PROVE  /\ \A i \in 1..Len(orig) : orig[i] = m => FindMsg!Position(m) = i
           /\ (\A i \in 1..Len(orig) : orig[i] # m) => FindMsg!Position(m) = 0
<1>1. /\ DOMAIN orig = 1..Len(orig) /\ Len(orig) \in Nat
      /\ \A i \in 1..Len(orig) : orig[i] \in Int
  BY OrigTyped
<1>2. \A i, j \in 1..Len(orig) : orig[i] = m /\ orig[j] = m => i = j
  <2> TAKE i, j \in 1..Len(orig)
  <2>1. (i < j => orig[i] < orig[j]) /\ (j < i => orig[j] < orig[i])
    BY <1>1 DEF FindMsg!Ascends
  <2> QED BY <1>1, <2>1
<1> QED BY <1>1, <1>2 DEF FindMsg!Position

\* Where the search is at an empty entry or at the message, the message is
\* not in the file or there: it was put in the first entry that was free.
LEMMA SearchEnds ==
    ASSUME FindMsg!FindMsgAssumption, FindMsgInv, size > 2, NEW m \in msgid
    PROVE  LET entry == FindMsg!Entry IN
           /\ entry \in 0..Len(orig)
           /\ entry = 0 => FindMsg!Position(m) = 0
           /\ entry # 0 /\ orig[entry] = m => FindMsg!Position(m) = entry
<1>1. /\ Len(orig) \in Nat /\ orig \in Seq(Message) /\ FindMsg!Ascends(orig)
      /\ size \in Sizes /\ size \in Nat /\ m \in Message /\ idx \in 0..(size - 1)
      /\ hash_tab \in [1..size -> 0..Len(orig)]
      /\ hash \in [Message -> Hash]
  BY OrigTyped DEF FindMsgInv, FindMsg!FindMsgAssumption, Holds
<1>2. FindMsg!Entry \in 0..Len(orig) /\ FindMsg!Entry = hash_tab[1 + idx]
  <2>1. 1 + idx = idx + 1 /\ 1 + idx \in 1..size
    BY <1>1
  <2> QED BY <1>1, <2>1 DEF FindMsg!Entry
<1>3. FindMsg!Entry # 0 /\ orig[FindMsg!Entry] = m => FindMsg!Position(m) = FindMsg!Entry
  <2>1. FindMsg!Entry # 0 => FindMsg!Entry \in 1..Len(orig)
    BY <1>1, <1>2
  <2> QED BY <1>1, <2>1, PositionIs
<1>4. ASSUME FindMsg!Entry = 0, NEW k \in 1..Len(orig), orig[k] = m PROVE FALSE
  <2> DEFINE P(j) == 1 + FindMsg!ProbeAt(m, j, size)
  <2>1. PICK j \in 0..(size - 1) : hash_tab[P(j)] = k /\ \A i \in 0..(j - 1) : hash_tab[P(i)] # 0
    BY <1>1, <1>4 DEF FindMsgInv, Holds
  <2>2. PICK l \in Nat : /\ 1 + idx = P(l)
                         /\ \A i \in 0..(l - 1) : hash_tab[P(i)] # 0 /\ orig[hash_tab[P(i)]] # m
    BY DEF FindMsgInv, Searching
  <2>3. j \in Nat /\ k # 0
    BY <1>1, <2>1
  <2> HIDE DEF P
  <2>4. CASE l < j
    <3>1. l \in 0..(j - 1)
      BY <2>2, <2>3, <2>4
    <3> QED BY <1>2, <1>4, <2>1, <2>2, <3>1
  <2>5. CASE j < l
    <3>1. j \in 0..(l - 1)
      BY <2>2, <2>3, <2>5
    <3> QED BY <1>4, <2>1, <2>2, <3>1
  <2>6. CASE j = l
    BY <1>2, <1>4, <2>1, <2>2, <2>3, <2>6
  <2> QED BY <2>2, <2>3, <2>4, <2>5, <2>6
<1>5. FindMsg!Entry = 0 => FindMsg!Position(m) = 0
  BY <1>1, <1>4, PositionIs
<1> QED BY <1>2, <1>3, <1>5

LEMMA FindMsgStart == FindMsg!FindMsgAssumption /\ FindMsg!Init => FindMsgInv
<1> SUFFICES ASSUME FindMsg!FindMsgAssumption, FindMsg!Init PROVE FindMsgInv
  OBVIOUS
<1>1. /\ hash \in [Message -> Hash] /\ FindMsg!Ascends(orig)
      /\ msgid = {} /\ idx = 0 /\ position = 0
  BY DEF FindMsg!Init
<1>2. orig \in Seq(Message)
  <2>0. FindMsg!Cardinality(Message) = Cardinality(Message) /\ FindMsg!IsFiniteSet(Message) = IsFiniteSet(Message)
    BY DEF FindMsg!Cardinality, Cardinality, FindMsg!IsFiniteSet, IsFiniteSet
  <2>1. orig \in FindMsg!BoundedSeq(Message, Cardinality(Message))
    BY <2>0 DEF FindMsg!Init
  <2>2. Cardinality(Message) \in Nat
    BY <2>0, FS_CardinalityType DEF FindMsg!FindMsgAssumption
  <2>3. PICK z \in 0..Cardinality(Message) : orig \in [1..z -> Message]
    BY <2>1 DEF FindMsg!BoundedSeq, FindMsg!SeqOf
  <2>4. z \in Nat
    BY <2>2
  <2> QED BY <2>3, <2>4
<1>3. Len(orig) \in Nat
  BY <1>2
<1>4. PICK n \in Sizes : /\ n > 2 => Len(orig) < n
                         /\ hash_tab = IF n > 2 THEN FindMsg!Table(n) ELSE [i \in 1..n |-> 0]
  BY DEF FindMsg!Init
<1>5. n \in Nat
  BY DEF FindMsg!FindMsgAssumption
<1>6. hash_tab \in [1..n -> Nat] /\ (n > 2 => Holds(hash_tab, Len(orig), n))
  <2>1. CASE n > 2
    <3>1. Holds(hash_tab, Len(orig), n)
      BY <1>1, <1>2, <1>4, <2>1, TableHolds
    <3> QED BY <1>3, <3>1 DEF Holds
  <2>2. CASE ~ n > 2
    BY <1>4, <2>2
  <2> QED BY <2>1, <2>2
<1>7. hash_tab \in Seq(Nat) /\ size = n
  <2>1. hash_tab \in Seq(Nat)
    BY <1>5, <1>6
  <2>2. Len(hash_tab) = n
    BY <1>5, <1>6, <2>1, LenProperties
  <2> QED BY <2>1, <2>2 DEF size, FindMsg!size
<1>8. size > 2 => 0 \in 0..(size - 1)
  BY <1>5, <1>7
<1> QED BY <1>1, <1>2, <1>3, <1>4, <1>6, <1>7, <1>8 DEF FindMsgInv, Searching

LEMMA FindMsgStep ==
    ASSUME FindMsg!FindMsgAssumption, FindMsgInv, FindMsg!Next \/ UNCHANGED FindMsg!vars
    PROVE  FindMsgInv' /\ FindMsg!Finds
<1>0. /\ size \in Nat /\ Len(orig) \in Nat /\ msgid \subseteq Message
      /\ UNCHANGED hash_tab => size' = size
  BY OrigTyped DEF FindMsgInv, FindMsg!FindMsgAssumption, size, FindMsg!size
<1>1. ASSUME UNCHANGED <<hash, orig, hash_tab>>,
             msgid' = {} \/ \E m \in Message : msgid' = {m},
             position' \in 0..Len(orig),
             IF size > 2 THEN idx' \in 0..(size - 1) ELSE idx' = 0,
             Searching'
      PROVE  FindMsgInv'
  <2>1. FindMsg!Ascends(orig)' /\ (size > 2 => Holds(hash_tab, Len(orig), size)')
    BY <1>0, <1>1 DEF FindMsgInv, FindMsg!Ascends, Holds, FindMsg!ProbeAt, FindMsg!Start, FindMsg!Incr
  <2> QED BY <1>0, <1>1, <2>1 DEF FindMsgInv
<1>2. ASSUME NEW m \in Message, FindMsg!Ask(m) PROVE FindMsgInv' /\ FindMsg!Finds
  <2>1. /\ msgid = {} /\ msgid' = {m} /\ UNCHANGED <<hash, orig, hash_tab, position>>
        /\ idx' = IF size > 2 THEN FindMsg!Start(hash[m], size) ELSE 0
    BY <1>2 DEF FindMsg!Ask, size
  <2>2. size > 2 => /\ FindMsg!ProbeAt(m, 0, size) \in 0..(size - 1)
                    /\ FindMsg!ProbeAt(m, 0, size) = idx'
    <3> SUFFICES ASSUME size > 2
                 PROVE  /\ FindMsg!ProbeAt(m, 0, size) \in 0..(size - 1)
                        /\ FindMsg!ProbeAt(m, 0, size) = idx'
      OBVIOUS
    <3>1. hash \in [Message -> Hash] /\ size \in Sizes /\ 0 \in Nat
      BY DEF FindMsgInv
    <3> QED BY <2>1, <3>1, Probes
  <2>3. FindMsg!ProbeAt(m, 0, size)' = FindMsg!ProbeAt(m, 0, size)
    BY <1>0, <2>1 DEF FindMsg!ProbeAt, FindMsg!Start, FindMsg!Incr
  <2>4. Searching'
    <3> SUFFICES ASSUME size > 2
                 PROVE  \E j \in Nat :
                           /\ idx' = FindMsg!ProbeAt(m, j, size)'
                           /\ \A i \in 0..(j - 1) :
                                (hash_tab[1 + FindMsg!ProbeAt(m, i, size)] # 0
                                 /\ orig[hash_tab[1 + FindMsg!ProbeAt(m, i, size)]] # m)'
      BY <1>0, <2>1 DEF Searching
    <3>1. idx' = FindMsg!ProbeAt(m, 0, size)' /\ 0..(0 - 1) = {}
      BY <2>2, <2>3
    <3> QED BY <3>1
  <2>5. FindMsgInv'
    BY <1>1, <2>1, <2>2, <2>4 DEF FindMsgInv
  <2> QED BY <2>1, <2>5 DEF FindMsg!Finds
<1>3. ASSUME NEW m \in msgid, NEW p \in 0..Len(orig), FindMsg!Return(p), p = FindMsg!Position(m)
      PROVE  FindMsgInv' /\ FindMsg!Finds
  <2>1. msgid = {m} /\ position' = p /\ msgid' = {} /\ UNCHANGED <<hash, orig, hash_tab, idx>>
    BY <1>3 DEF FindMsg!Return, FindMsgInv
  <2>2. Searching'
    BY <2>1 DEF Searching
  <2>3. FindMsgInv'
    BY <1>1, <2>1, <2>2 DEF FindMsgInv
  <2> QED BY <1>3, <2>1, <2>3 DEF FindMsg!Finds
<1>4. ASSUME FindMsg!Empty PROVE FindMsgInv' /\ FindMsg!Finds
  <2>1. size > 2 /\ msgid # {} /\ FindMsg!Entry = 0 /\ FindMsg!Return(0)
    BY <1>4 DEF FindMsg!Empty, size
  <2>2. PICK m \in msgid : TRUE
    BY <2>1
  <2>3. FindMsg!Position(m) = 0 /\ 0 \in 0..Len(orig)
    BY <1>0, <2>1, SearchEnds
  <2> QED BY <1>3, <2>1, <2>3
<1>5. ASSUME FindMsg!Hit PROVE FindMsgInv' /\ FindMsg!Finds
  <2>1. size > 2
    BY <1>5 DEF FindMsg!Hit, size
  <2>2. PICK m \in msgid : FindMsg!Entry # 0 /\ orig[FindMsg!Entry] = m /\ FindMsg!Return(FindMsg!Entry)
    BY <1>5 DEF FindMsg!Hit
  <2>3. FindMsg!Position(m) = FindMsg!Entry /\ FindMsg!Entry \in 0..Len(orig)
    BY <2>1, <2>2, SearchEnds
  <2> QED BY <1>3, <2>2, <2>3
<1>6. ASSUME FindMsg!Probe PROVE FindMsgInv' /\ FindMsg!Finds
  <2>1. size > 2 /\ UNCHANGED <<hash, orig, hash_tab, msgid, position>>
    BY <1>6 DEF FindMsg!Probe, size
  <2>2. PICK m \in msgid :
           /\ FindMsg!Entry # 0 /\ orig[FindMsg!Entry] # m
           /\ idx' = LET incr == FindMsg!Incr(hash[m], size)
                     IN  IF idx >= size - incr THEN idx - (size - incr) ELSE idx + incr
    BY <1>6 DEF FindMsg!Probe, size
  <2>3. msgid = {m} /\ m \in Message /\ size \in Sizes /\ hash \in [Message -> Hash] /\ idx \in 0..(size - 1)
    BY <2>1 DEF FindMsgInv
  <2> DEFINE P(i) == FindMsg!ProbeAt(m, i, size)
             Other(i) == hash_tab[1 + P(i)] # 0 /\ orig[hash_tab[1 + P(i)]] # m
  <2>4. PICK j \in Nat : idx = P(j) /\ \A i \in 0..(j - 1) : Other(i)
    BY <2>1, <2>3 DEF FindMsgInv, Searching
  <2>5. idx' = P(j + 1) /\ P(j + 1) \in 0..(size - 1)
    <3>1. j + 1 \in Nat
      OBVIOUS
    <3>2. P(j + 1) \in 0..(size - 1)
      BY <2>1, <2>3, <3>1, Probes
    <3>3. P(j + 1) = LET incr == FindMsg!Incr(hash[m], size)
                     IN  IF P(j) >= size - incr THEN P(j) - (size - incr) ELSE P(j) + incr
      BY <2>1, <2>3, Probes
    <3> HIDE DEF P
    <3> QED BY <2>2, <2>4, <3>2, <3>3
  <2>6. Other(j)
    <3>1. 1 + idx = idx + 1
      BY <1>0, <2>3
    <3> QED BY <2>2, <2>4, <3>1 DEF FindMsg!Entry
  <2>7. \A i \in 0..((j + 1) - 1) : Other(i)
    <3>1. \A i \in 0..((j + 1) - 1) : i \in 0..(j - 1) \/ i = j
      OBVIOUS
    <3> HIDE DEF Other
    <3> QED BY <2>4, <2>6, <3>1
  <2>8. \A i : P(i)' = P(i)
    BY <1>0, <2>1 DEF FindMsg!ProbeAt, FindMsg!Start, FindMsg!Incr
  <2>9. Searching'
    <3>1. \A i \in 0..((j + 1) - 1) : Other(i)'
      BY <2>1, <2>7, <2>8
    <3>2. idx' = P(j + 1)' /\ j + 1 \in Nat
      BY <2>5, <2>8
    <3> HIDE DEF P
    <3> QED BY <2>1, <2>3, <3>1, <3>2 DEF Searching, P
  <2>10. FindMsgInv'
    BY <1>1, <2>1, <2>3, <2>5, <2>9 DEF FindMsgInv
  <2> QED BY <2>1, <2>10 DEF FindMsg!Finds
<1>7. ASSUME FindMsg!Bisect PROVE FindMsgInv' /\ FindMsg!Finds
  <2>1. PICK m \in msgid : FindMsg!Return(FindMsg!Search[<<m, 0, Len(orig)>>])
    BY <1>7 DEF FindMsg!Bisect
  <2>2. m \in Message /\ orig \in Seq(Message) /\ FindMsg!Ascends(orig)
    BY <1>0 DEF FindMsgInv
  <2> DEFINE at == FindMsg!Search[<<m, 0, Len(orig)>>]
  <2>3. \/ at \in 1..Len(orig) /\ orig[at] = m
        \/ at = 0 /\ \A i \in 1..Len(orig) : orig[i] # m
    BY <2>2, BisectionFinds
  <2> HIDE DEF at
  <2>4. at = FindMsg!Position(m) /\ at \in 0..Len(orig)
    BY <1>0, <2>2, <2>3, PositionIs
  <2> QED BY <1>3, <2>1, <2>4 DEF at
<1>8. ASSUME UNCHANGED FindMsg!vars PROVE FindMsgInv' /\ FindMsg!Finds
  <2>1. UNCHANGED <<hash, orig, hash_tab, msgid, idx, position>> /\ UNCHANGED size
    BY <1>0, <1>8 DEF FindMsg!vars
  <2>2. Searching'
    BY <2>1 DEF FindMsgInv, Searching, FindMsg!ProbeAt, FindMsg!Start, FindMsg!Incr
  <2>3. FindMsgInv'
    BY <1>1, <2>1, <2>2 DEF FindMsgInv
  <2> QED BY <2>1, <2>3 DEF FindMsg!Finds
<1> QED BY <1>2, <1>4, <1>5, <1>6, <1>7, <1>8 DEF FindMsg!Next, FindMsg!Turn

-----------------------------------------------------------------------------
(* The catalogues *)

\* TypeOK of the catalogues, for any set of entries.
Sound(es) ==
    \A n \in DOMAIN es :
        /\ es[n] = [of |-> es[n].of, mask |-> es[n].mask,
                    decided |-> es[n].decided, data |-> es[n].data]
        /\ es[n].mask \subseteq DOMAIN es[n].of \cap Catalogs!Part
        /\ es[n].data # Catalogs!NoData =>
              es[n].decided /\ n \in DOMAIN contents /\ es[n].data = contents[n]
        /\ \A m \in Catalogs!Submasks(es[n].mask) : Catalogs!Name(es[n].of, m) \in DOMAIN es

Keeps(es, fs) ==
    \A n \in DOMAIN es : n \in DOMAIN fs /\ (es[n].decided => fs[n] = es[n])

LEMMA SubmasksNest ==
    ASSUME NEW mask, NEW m \in Catalogs!Submasks(mask)
    PROVE  m \subseteq mask /\ Catalogs!Submasks(m) \subseteq Catalogs!Submasks(mask)
BY DEF Catalogs!Submasks

LEMMA MakeKeeps ==
    ASSUME NEW es, NEW x, NEW mask, mask \subseteq DOMAIN x \cap Catalogs!Part, Sound(es)
    PROVE  /\ Sound(Catalogs!Make(es, x, mask)) /\ Keeps(es, Catalogs!Make(es, x, mask))
           /\ Catalogs!Name(x, mask) \in DOMAIN Catalogs!Make(es, x, mask)
<1> DEFINE names == {Catalogs!Name(x, m) : m \in Catalogs!Submasks(mask) \cup {mask}}
           below(n) == IF n = Catalogs!Name(x, mask) THEN mask
                       ELSE CHOOSE m \in Catalogs!Submasks(mask) : Catalogs!Name(x, m) = n
           made == [n \in names |-> Catalogs!Entry(x, below(n))]
           fs == Catalogs!Make(es, x, mask)
<1>1. CASE Catalogs!Name(x, mask) \in DOMAIN es
  <2>1. fs = es
    BY <1>1 DEF Catalogs!Make
  <2> QED BY <1>1, <2>1 DEF Keeps
<1>2. CASE Catalogs!Name(x, mask) \notin DOMAIN es
  <2>1. fs = [n \in DOMAIN es \cup DOMAIN made |-> IF n \in DOMAIN es THEN es[n] ELSE made[n]]
    BY <1>2 DEF Catalogs!Make
  <2>2. ASSUME NEW n \in names
        PROVE  below(n) = mask \/ below(n) \in Catalogs!Submasks(mask)
    OBVIOUS
  <2>3. ASSUME NEW n \in names
        PROVE  below(n) \subseteq mask /\ Catalogs!Submasks(below(n)) \subseteq Catalogs!Submasks(mask)
    <3> HIDE DEF below, names
    <3> QED BY <2>2, SubmasksNest
  <2>4. DOMAIN fs = DOMAIN es \cup names /\ \A n \in DOMAIN es : fs[n] = es[n]
    BY <2>1
  <2>5. ASSUME NEW n \in names, n \notin DOMAIN es PROVE fs[n] = Catalogs!Entry(x, below(n))
    BY <2>1, <2>5
  <2>6. Catalogs!Name(x, mask) \in names
    OBVIOUS
  <2>7. \A m \in Catalogs!Submasks(mask) : Catalogs!Name(x, m) \in names
    OBVIOUS
  <2> HIDE DEF names, below, fs
  <2>8. ASSUME NEW n \in DOMAIN fs
        PROVE  /\ fs[n] = [of |-> fs[n].of, mask |-> fs[n].mask,
                           decided |-> fs[n].decided, data |-> fs[n].data]
               /\ fs[n].mask \subseteq DOMAIN fs[n].of \cap Catalogs!Part
               /\ fs[n].data # Catalogs!NoData =>
                     fs[n].decided /\ n \in DOMAIN contents /\ fs[n].data = contents[n]
               /\ \A m \in Catalogs!Submasks(fs[n].mask) : Catalogs!Name(fs[n].of, m) \in DOMAIN fs
    <3>1. CASE n \in DOMAIN es
      BY <2>4, <3>1 DEF Sound
    <3>2. CASE n \notin DOMAIN es
      <4>1. n \in names /\ fs[n] = Catalogs!Entry(x, below(n))
        BY <2>4, <2>5, <3>2
      <4>2. /\ fs[n].of = x /\ fs[n].mask = below(n) /\ fs[n].data = Catalogs!NoData
            /\ fs[n] = [of |-> fs[n].of, mask |-> fs[n].mask,
                        decided |-> fs[n].decided, data |-> fs[n].data]
        BY <4>1 DEF Catalogs!Entry
      <4> QED BY <2>3, <2>4, <2>7, <4>1, <4>2
    <3> QED BY <3>1, <3>2
  <2> QED BY <2>4, <2>6, <2>8 DEF Sound, Keeps, fs
<1> QED BY <1>1, <1>2

LEMMA FindKeeps ==
    ASSUME Catalogs!CatalogsAssumption, NEW l \in Locale, NEW es, Sound(es)
    PROVE  /\ Sound(Catalogs!Find(es, l).es) /\ Keeps(es, Catalogs!Find(es, l).es)
           /\ Catalogs!Find(es, l).top \in DOMAIN Catalogs!Find(es, l).es
<1> DEFINE name == IF l \in DOMAIN Alias THEN Alias[l] ELSE l
           x    == Catalogs!Explode(name)
           mask == DOMAIN x \ {"language"}
<1>1. DOMAIN name \subseteq Catalogs!Part \cup {"language"}
  BY DEF Catalogs!CatalogsAssumption
<1>2. {"modifier", "audience", "norm"} \subseteq Catalogs!Part
  BY DEF Catalogs!Part, Catalogs!Bit
<1>3. mask \subseteq DOMAIN x \cap Catalogs!Part
  <2>1. DOMAIN x \subseteq DOMAIN name \cup {"modifier", "audience", "norm"}
    <3> HIDE DEF name
    <3> QED BY DEF Catalogs!Explode
  <2> HIDE DEF x, name
  <2> QED BY <1>1, <1>2, <2>1
<1>4. CASE Catalogs!Raw(l) \in DOMAIN es
  BY <1>4 DEF Catalogs!Find, Keeps
<1>5. CASE Catalogs!Raw(l) \notin DOMAIN es
  <2>1. Catalogs!Find(es, l) = [es |-> Catalogs!Make(es, x, mask), top |-> Catalogs!Name(x, mask)]
    BY <1>5 DEF Catalogs!Find
  <2> HIDE DEF x, mask
  <2> QED BY <1>3, <2>1, MakeKeeps
<1> QED BY <1>4, <1>5

LEMMA KeepsOn ==
    ASSUME NEW es, NEW fs, NEW gs, Keeps(es, fs), Keeps(fs, gs) PROVE Keeps(es, gs)
BY DEF Keeps

LEMMA TurnKeeps ==
    ASSUME Catalogs!CatalogsAssumption, NEW l \in Locale, NEW s,
           s = [es |-> s.es, msg |-> s.msg, answer |-> s.answer], Sound(s.es)
    PROVE  LET t == Catalogs!Turn(s, l)
           IN  /\ t = [es |-> t.es, msg |-> t.msg, answer |-> t.answer]
               /\ Sound(t.es) /\ Keeps(s.es, t.es)
<1> DEFINE t == Catalogs!Turn(s, l)
<1>1. CASE s.answer # Catalogs!None
  BY <1>1 DEF Catalogs!Turn, Keeps
<1>2. CASE s.answer = Catalogs!None /\ l \in Untranslatable
  <2>1. t = [s EXCEPT !.answer = Catalogs!MsgId]
    BY <1>2 DEF Catalogs!Turn
  <2> HIDE DEF t
  <2>2. t = [es |-> s.es, msg |-> s.msg, answer |-> Catalogs!MsgId]
    BY <2>1
  <2> QED BY <2>2 DEF Keeps, t
<1>3. CASE s.answer = Catalogs!None /\ l \notin Untranslatable
  <2> DEFINE known   == Catalogs!Find(s.es, l)
             e       == known.es[known.top]
             file    == Catalogs!FoundIn(known.top, e, s.msg)
             visited == Catalogs!Visited(known.top, e, file)
             gs      == [n \in DOMAIN known.es |->
                            IF n \in visited /\ ~known.es[n].decided
                            THEN Catalogs!Load(n, known.es[n]) ELSE known.es[n]]
             ans     == IF file = Catalogs!MsgId THEN Catalogs!None ELSE file
  <2>1. t = [s EXCEPT !.es = gs, !.answer = ans]
    BY <1>3 DEF Catalogs!Turn
  <2>2. Sound(known.es) /\ Keeps(s.es, known.es)
    BY FindKeeps
  <2>3. t = [es |-> gs, msg |-> s.msg, answer |-> ans]
    <3> HIDE DEF gs, ans, t
    <3> QED BY <2>1
  <2> HIDE DEF known, visited, file, e, ans, t
  <2>4. DOMAIN gs = DOMAIN known.es
    OBVIOUS
  <2>5. ASSUME NEW n \in DOMAIN known.es
        PROVE  \/ gs[n] = known.es[n]
               \/ ~known.es[n].decided /\ gs[n] = Catalogs!Load(n, known.es[n])
    OBVIOUS
  <2> HIDE DEF gs
  <2>6. ASSUME NEW n \in DOMAIN gs
        PROVE  /\ gs[n] = [of |-> gs[n].of, mask |-> gs[n].mask,
                           decided |-> gs[n].decided, data |-> gs[n].data]
               /\ gs[n].mask = known.es[n].mask /\ gs[n].of = known.es[n].of
               /\ gs[n].data # Catalogs!NoData =>
                     gs[n].decided /\ n \in DOMAIN contents /\ gs[n].data = contents[n]
               /\ known.es[n].decided => gs[n] = known.es[n]
    <3>1. CASE gs[n] = known.es[n]
      BY <2>2, <2>4, <3>1 DEF Sound
    <3>2. CASE ~known.es[n].decided /\ gs[n] = Catalogs!Load(n, known.es[n])
      <4> DEFINE f == known.es[n]
                 data == IF n \in DOMAIN contents /\ contents[n] \notin {Catalogs!Missing, Catalogs!Broken}
                         THEN contents[n] ELSE Catalogs!NoData
      <4>1. f = [of |-> f.of, mask |-> f.mask, decided |-> f.decided, data |-> f.data]
        BY <2>2, <2>4 DEF Sound
      <4>2. gs[n] = [f EXCEPT !.decided = TRUE, !.data = data]
        BY <3>2 DEF Catalogs!Load
      <4>3. data # Catalogs!NoData => n \in DOMAIN contents /\ data = contents[n]
        OBVIOUS
      <4>4. ~f.decided
        BY <3>2
      <4> HIDE DEF f, data
      <4>5. gs[n] = [of |-> f.of, mask |-> f.mask, decided |-> TRUE, data |-> data]
        BY <4>1, <4>2
      <4> QED BY <4>3, <4>4, <4>5 DEF f
    <3> QED BY <2>4, <2>5, <3>1, <3>2
  <2>7. Sound(gs)
    BY <2>2, <2>4, <2>6 DEF Sound
  <2>8. Keeps(known.es, gs)
    BY <2>4, <2>6 DEF Keeps
  <2>9. Keeps(s.es, gs)
    BY <2>2, <2>8, KeepsOn
  <2> QED BY <2>3, <2>7, <2>9 DEF t
<1> QED BY <1>1, <1>2, <1>3

LEMMA CatalogsStep ==
    ASSUME Catalogs!CatalogsAssumption, Sound(entries), [Catalogs!Next]_(Catalogs!vars)
    PROVE  Sound(entries)' /\ Catalogs!StaysDecided
<1>1. CASE UNCHANGED Catalogs!vars
  BY <1>1 DEF Catalogs!vars, Sound, Catalogs!StaysDecided
<1>2. ASSUME NEW list \in Languages, NEW msg \in Msg, Catalogs!Dcgettext(list, msg)
      PROVE  Sound(entries)' /\ Catalogs!StaysDecided
  <2> DEFINE first == [es |-> entries, msg |-> msg, answer |-> Catalogs!None]
             Turns(f, m) == f = [i \in 0..m |-> IF i = 0 THEN first
                                                ELSE Catalogs!Turn(f[i - 1], list[i])]
             turn == CHOOSE f : Turns(f, Len(list))
             Good(s) == /\ s = [es |-> s.es, msg |-> s.msg, answer |-> s.answer]
                        /\ Sound(s.es) /\ Keeps(entries, s.es)
  <2>1. Len(list) \in Nat /\ \A i \in 1..Len(list) : list[i] \in Locale
    <3>1. list \in Seq(Locale)
      BY DEF Catalogs!CatalogsAssumption
    <3> QED BY <3>1, LenProperties, ElementOfSeq
  <2>2. \A m \in Nat : \E f : Turns(f, m)
    <3> HIDE DEF first
    <3> DEFINE Bad == {m \in Nat : ~ \E f : Turns(f, m)}
    <3> SUFFICES ASSUME Bad # {} PROVE FALSE
      OBVIOUS
    <3>1. PICK m \in Bad : \A l \in Bad : m <= l
      <4> HIDE DEF Bad
      <4>1. Bad \in SUBSET Nat
        BY DEF Bad
      <4> QED BY <4>1, LeastNat
    <3>2. CASE m = 0
      <4>1. Turns([i \in 0..0 |-> first], 0)
        OBVIOUS
      <4> QED BY <3>1, <3>2, <4>1
    <3>3. CASE m # 0
      <4>1. m - 1 \in Nat /\ m - 1 \notin Bad
        <5>1. m \in Nat
          BY <3>1
        <5> HIDE DEF Bad
        <5> QED BY <3>1, <3>3, <5>1
      <4>2. PICK f : Turns(f, m - 1)
        BY <4>1
      <4> DEFINE g == [i \in 0..m |-> IF i = m THEN Catalogs!Turn(f[m - 1], list[m]) ELSE f[i]]
      <4>3. ASSUME NEW i \in 0..m
            PROVE  g[i] = IF i = 0 THEN first ELSE Catalogs!Turn(g[i - 1], list[i])
        <5>1. CASE i = 0
          BY <3>3, <4>1, <4>2, <5>1
        <5>2. CASE i # 0 /\ i # m
          <6>1. i \in 0..(m - 1) /\ i - 1 \in 0..m /\ i - 1 # m
            BY <3>1, <5>2
          <6>2. f[i] = Catalogs!Turn(f[i - 1], list[i])
            BY <4>2, <5>2, <6>1
          <6> QED BY <5>2, <6>1, <6>2
        <5>3. CASE i # 0 /\ i = m
          <6>1. m - 1 \in 0..m /\ m - 1 # m
            BY <4>1
          <6> QED BY <5>3, <6>1
        <5> QED BY <5>1, <5>2, <5>3
      <4>4. Turns(g, m)
        BY <4>3
      <4> HIDE DEF Turns, g
      <4> QED BY <3>1, <4>4
    <3> QED BY <3>2, <3>3
  <2>3. Turns(turn, Len(list))
    <3> HIDE DEF Turns
    <3> QED BY <2>1, <2>2
  <2>4. entries' = turn[Len(list)].es /\ UNCHANGED contents
    BY <1>2 DEF Catalogs!Dcgettext
  <2>5. Good(first)
    BY DEF Keeps
  <2>6. ASSUME NEW s, Good(s), NEW l \in Locale PROVE Good(Catalogs!Turn(s, l))
    <3> DEFINE t == Catalogs!Turn(s, l)
    <3>1. /\ t = [es |-> t.es, msg |-> t.msg, answer |-> t.answer]
          /\ Sound(t.es) /\ Keeps(s.es, t.es)
      BY <2>6, TurnKeeps
    <3> HIDE DEF t
    <3>2. Keeps(entries, t.es)
      BY <2>6, <3>1, KeepsOn
    <3> QED BY <3>1, <3>2 DEF t
  <2> HIDE DEF turn, first
  <2>7. \A i \in 0..Len(list) : Good(turn[i])
    <3> DEFINE Bad == {i \in 0..Len(list) : ~ Good(turn[i])}
    <3> SUFFICES ASSUME Bad # {} PROVE FALSE
      OBVIOUS
    <3>1. PICK i \in Bad : \A l \in Bad : i <= l
      <4>1. Bad \in SUBSET Nat
        BY <2>1
      <4> HIDE DEF Bad
      <4> QED BY <4>1, LeastNat
    <3>2. i # 0
      <4>1. turn[0] = first
        BY <2>1, <2>3
      <4> QED BY <2>5, <3>1, <4>1
    <3>3. i - 1 \in 0..Len(list) /\ i - 1 \notin Bad /\ i \in 1..Len(list)
      BY <2>1, <3>1, <3>2
    <3>4. turn[i] = Catalogs!Turn(turn[i - 1], list[i])
      BY <2>1, <2>3, <3>2, <3>3
    <3>5. Good(turn[i - 1]) /\ list[i] \in Locale
      BY <2>1, <3>3
    <3> HIDE DEF Good
    <3>6. Good(turn[i])
      BY <2>6, <3>4, <3>5
    <3> QED BY <3>1, <3>6
  <2>8. Sound(turn[Len(list)].es) /\ Keeps(entries, turn[Len(list)].es)
    <3>1. Good(turn[Len(list)])
      <4>1. Len(list) \in 0..Len(list)
        BY <2>1
      <4> HIDE DEF Good
      <4> QED BY <2>7, <4>1
    <3> QED BY <3>1
  <2>9. Sound(entries')
    BY <2>4, <2>8
  <2> QED BY <2>4, <2>8, <2>9 DEF Sound, Keeps, Catalogs!StaysDecided
<1> QED BY <1>1, <1>2 DEF Catalogs!Next

-----------------------------------------------------------------------------
(* The library *)

\* The searches rest on what each part has built: the bindings in order, the
\* table of aliases complete and sorted, the hash table filled as msgfmt
\* fills it, and under each entry for a catalogue those it is linked to.
GettextInv ==
    /\ BindingsInv
    /\ AliasesInv /\ (part # "short" => AllRead)
    /\ Sound(entries)
    /\ FindMsgInv

LEMMA TypesFollow == GettextInv => TypeOK
<1> SUFFICES ASSUME GettextInv PROVE TypeOK
  OBVIOUS
<1> USE DEF GettextInv
<1>1. Aliases!TypeOK
  <2>1. \A S : Aliases!Cardinality(S) = Cardinality(S)
    BY DEF Aliases!Cardinality, Cardinality, Aliases!IsFiniteSet, IsFiniteSet
  <2>2. ASSUME NEW S, S = {} \/ \E x : S = {x} PROVE Aliases!Cardinality(S) <= 1
    <3>1. Cardinality(S) = 0 \/ Cardinality(S) = 1
      BY <2>2, FS_Singleton, FS_EmptySet
    <3> QED BY <2>1, <3>1
  <2>3. Aliases!Cardinality(item) <= 1 /\ item \subseteq AliasName
    <3>1. item = {} \/ \E x : item = {x}
      BY DEF AliasesInv
    <3>2. item \subseteq AliasName
      BY DEF AliasesInv
    <3> QED BY <2>2, <3>1, <3>2
  <2>4. Aliases!Cardinality(expansion) <= 1
    <3>1. expansion = {} \/ \E x : expansion = {x}
      BY DEF AliasesInv
    <3> QED BY <2>2, <3>1
  <2> QED BY <2>3, <2>4 DEF AliasesInv, Aliases!TypeOK
<1>2. FindMsg!TypeOK
  <2>1. size \in Nat
    BY GettextAssumption DEF GettextAssumption, FindMsg!FindMsgAssumption, FindMsgInv
  <2>2. FindMsg!Max({0, size - 1}) = IF size >= 1 THEN size - 1 ELSE 0
    <3>1. 0 \in {0, size - 1} /\ size - 1 \in {0, size - 1}
      OBVIOUS
    <3>2. \A y \in {0, size - 1} :
             y <= (IF size >= 1 THEN size - 1 ELSE 0) \/ y > (IF size >= 1 THEN size - 1 ELSE 0)
      BY <2>1
    <3> QED BY <2>1 DEF FindMsg!Max
  <2>3. msgid \subseteq Message
    BY DEF FindMsgInv
  <2>4. idx \in 0..FindMsg!Max({0, size - 1})
    BY <2>1, <2>2 DEF FindMsgInv
  <2> QED BY <2>3, <2>4 DEF FindMsgInv, FindMsg!TypeOK, size
<1>3. Catalogs!TypeOK
  BY DEF Catalogs!TypeOK, Sound, Catalogs!Successors
<1> QED BY <1>1, <1>2, <1>3 DEF TypeOK, BindingsInv

LEMMA GettextStarts == Init => GettextInv
<1> SUFFICES ASSUME Init PROVE GettextInv
  OBVIOUS
<1>1. BindingsInv
  BY GettextAssumption DEF GettextAssumption, Init, Bindings!Init, BindingsInv, Bindings!TypeOK,
     Bindings!Sorted, Bindings!BindingsAssumption
<1>2. AliasesInv /\ AllRead
  <2>1. path \in AliasFiles /\ read = 0 /\ map = << >> /\ maxmap = 0 /\ item = {} /\ expansion = {}
    BY DEF Init, Aliases!Init
  <2>2. Len(path) \in Nat
    <3>1. AliasFiles \subseteq Seq(Seq(Aliases!Line))
      BY GettextAssumption DEF GettextAssumption, Aliases!AliasesAssumption
    <3> QED BY <2>1, <3>1, LenProperties
  <2>3. map \in Seq(Aliases!Line) /\ Len(map) = 0 /\ DOMAIN map = {}
    BY <2>1
  <2> QED BY <2>1, <2>2, <2>3 DEF AliasesInv, AllRead, Aliases!Ascends
<1>3. Sound(entries)
  <2>1. entries = << >>
    BY DEF Init, Catalogs!Init
  <2>2. DOMAIN entries = {}
    <3>1. << >> \in Seq({}) /\ Len(<< >>) = 0
      OBVIOUS
    <3> QED BY <2>1, <3>1, LenProperties
  <2> QED BY <2>2 DEF Sound
<1>4. FindMsgInv
  BY GettextAssumption, FindMsgStart DEF GettextAssumption, Init
<1> QED BY <1>1, <1>2, <1>3, <1>4 DEF GettextInv

\* What a step does to the part that takes it, and that it leaves the others
\* alone.
LEMMA GettextStep ==
    ASSUME GettextInv, [Next]_vars
    PROVE  /\ GettextInv'
           /\ part = "aliases"  => Aliases!AnswersAFile /\ Aliases!MissesNone
           /\ part = "short"    => ShortOfMemory!AnswersAFile
           /\ part = "catalogs" => Catalogs!StaysDecided
           /\ part = "find_msg" => FindMsg!Finds
<1>0. /\ Bindings!BindingsAssumption /\ Aliases!AliasesAssumption
      /\ Catalogs!CatalogsAssumption /\ FindMsg!FindMsgAssumption
  BY GettextAssumption DEF GettextAssumption
<1>1. /\ UNCHANGED part
      /\ [Bindings!Next]_(Bindings!vars)
      /\ \/ part = "aliases" /\ Aliases!Next
         \/ part = "short" /\ ShortOfMemory!Next
         \/ UNCHANGED Aliases!vars
      /\ [Catalogs!Next]_(Catalogs!vars)
      /\ FindMsg!Next \/ UNCHANGED FindMsg!vars
  BY DEF Next, vars, bindingsVars, aliasesVars, catalogsVars, findMsgVars,
         Bindings!vars, Aliases!vars, Catalogs!vars, FindMsg!vars
<1>2. BindingsInv'
  BY <1>0, <1>1, BindingsStep DEF GettextInv
<1>3. Sound(entries)' /\ Catalogs!StaysDecided
  BY <1>0, <1>1, CatalogsStep DEF GettextInv
<1>4. FindMsgInv' /\ FindMsg!Finds
  BY <1>0, <1>1, FindMsgStep DEF GettextInv
<1>5. /\ AliasesInv' /\ (part' # "short" => AllRead')
      /\ part = "aliases" => Aliases!AnswersAFile /\ Aliases!MissesNone
      /\ part = "short" => ShortOfMemory!AnswersAFile
  <2>1. AliasesInv /\ (part # "short" => AllRead)
    BY DEF GettextInv
  <2>2. CASE part = "short" /\ ShortOfMemory!Next
    <3>1. Aliases!Next \/ ReadsPart
      BY <2>2, ShortStep
    <3>2. AliasesInv' /\ Aliases!AnswersAFile
      BY <1>0, <2>1, <3>1, AliasesStep
    <3>3. part' = "short" /\ part # "aliases"
      BY <1>1, <2>2
    <3> QED BY <3>2, <3>3, ShortStep
  <2>3. CASE (part = "aliases" /\ Aliases!Next) \/ UNCHANGED Aliases!vars
    <3>1. AliasesInv' /\ Aliases!AnswersAFile
      BY <1>0, <2>1, <2>3, AliasesStep
    <3>2. part # "short" => AllRead' /\ Aliases!MissesNone
      BY <1>0, <2>1, <2>3, AliasesStep
    <3> QED BY <1>1, <2>1, <2>3, <3>1, <3>2, ShortStep
  <2> QED BY <1>1, <2>2, <2>3
<1> QED BY <1>1, <1>2, <1>3, <1>4, <1>5 DEF GettextInv

LEMMA GettextInvHolds == Spec => []GettextInv
<1> QED BY GettextStarts, GettextStep, PTL DEF Spec

-----------------------------------------------------------------------------
(* The theorems *)

LEMMA ImplementsBindings == Spec => Bindings!Spec
<1>1. Init => Bindings!Init
  BY DEF Init
<1>2. [Next]_vars => [Bindings!Next]_(Bindings!vars)
  BY DEF Next, vars, bindingsVars, Bindings!vars
<1> QED BY <1>1, <1>2, PTL DEF Spec, Bindings!Spec

LEMMA BindingsInvHolds == Spec => []BindingsInv
<1>1. Bindings!Init => BindingsInv
  BY GettextAssumption DEF GettextAssumption, Bindings!Init, BindingsInv, Bindings!TypeOK, Bindings!Sorted,
     Bindings!BindingsAssumption
<1>2. BindingsInv /\ [Bindings!Next]_(Bindings!vars) => BindingsInv'
  BY BindingsStep, GettextAssumption DEF GettextAssumption
<1> QED BY <1>1, <1>2, ImplementsBindings, PTL DEF Bindings!Spec

\* For any domains and directories, and whichever allocation fails: a search
\* of the list that stops at the first greater name finds the directory that
\* a domain was bound to last.
THEOREM ListIsMap == Spec => IsMap
<1>1. Bindings!Init => Bindings!Map!Init
  BY DEF Bindings!Init, Bindings!Map!Init, Bindings!dirOf
<1>2. BindingsInv /\ [Bindings!Next]_(Bindings!vars) => [Bindings!Map!Next]_(Bindings!Map!mapVars)
  BY BindingsStep, GettextAssumption DEF GettextAssumption
<1> QED
  BY <1>1, <1>2, ImplementsBindings, BindingsInvHolds, PTL
  DEF IsMap, Bindings!IsMap, Bindings!Map!Spec, Bindings!Spec

\* For any domains, locales, aliases, messages and files: the variables of
\* the four parts have their types; the list of bindings ascends, the table
\* of aliases fits its memory, and what a catalogue is linked to is there.
THEOREM TypeCorrect == Spec => []TypeOK
BY GettextInvHolds, TypesFollow, PTL

\* For any table, file and message: an alias that some file has is found
\* while there is memory, and without it only what a file says; a message is
\* found exactly where it is; and a catalogue is read once and stays.
THEOREM SearchesAlwaysFind == Spec => SearchesFind
<1> DEFINE Find == CASE part = "aliases"  -> Aliases!AnswersAFile /\ Aliases!MissesNone
                     [] part = "short"    -> ShortOfMemory!AnswersAFile
                     [] part = "catalogs" -> Catalogs!StaysDecided
                     [] part = "find_msg" -> FindMsg!Finds
                     [] OTHER             -> TRUE
<1>1. GettextInv /\ [Next]_vars => Find
  <2> SUFFICES ASSUME GettextInv, [Next]_vars PROVE Find
    OBVIOUS
  <2>1. /\ part = "aliases"  => Aliases!AnswersAFile /\ Aliases!MissesNone
        /\ part = "short"    => ShortOfMemory!AnswersAFile
        /\ part = "catalogs" => Catalogs!StaysDecided
        /\ part = "find_msg" => FindMsg!Finds
    BY GettextStep
  <2> QED BY <2>1
<1> QED BY <1>1, GettextInvHolds, PTL DEF SearchesFind, Spec
=============================================================================
