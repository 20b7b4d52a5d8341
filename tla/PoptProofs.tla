----------------------------- MODULE PoptProofs -----------------------------
(* Proofs about the parsing of a command line (module Popt), for any       *)
(* options, any aliases and any depth of the stack.                        *)
EXTENDS Popt, FiniteSetTheorems, SequenceTheorems, TLAPS

-----------------------------------------------------------------------------
(* The least and the greatest of some numbers *)

LEMMA LeastNat ==
    ASSUME NEW S \in SUBSET Nat, S # {}
    PROVE  \E m \in S : \A n \in S : m <= n
<1> DEFINE T == {0..n : n \in S}
           U == FiniteSubsetsOf(Nat)
<1>1. IsWellFoundedOn(StrictSubsetOrdering(Nat), U)
  BY FS_StrictSubsetOrderingWellFounded
<1>2. T \subseteq U /\ T # {}
  <2>1. \A n \in S : 0..n \in U
    <3> TAKE n \in S
    <3>1. IsFiniteSet(0..n)
      BY FS_Interval
    <3> QED BY <3>1 DEF FiniteSubsetsOf
  <2> QED BY <2>1
<1>3. PICK t \in T : \A u \in T : <<u, t>> \notin StrictSubsetOrdering(Nat)
  <2> HIDE DEF T, U
  <2> QED BY <1>1, <1>2, WFMin
<1>4. PICK m \in S : t = 0..m
  OBVIOUS
<1>5. ASSUME NEW n \in S, n < m PROVE FALSE
  <2>1. 0..n \in T /\ 0..n \in SUBSET Nat /\ 0..m \in SUBSET Nat
    OBVIOUS
  <2>2. 0..n \subseteq 0..m /\ m \notin 0..n /\ m \in 0..m
    BY <1>5
  <2>3. <<0..n, 0..m>> \in StrictSubsetOrdering(Nat)
    BY <2>1, <2>2 DEF StrictSubsetOrdering
  <2> QED BY <1>3, <1>4, <2>1, <2>3
<1> QED BY <1>5

LEMMA GreatestNat ==
    ASSUME NEW n \in Nat, NEW S \in SUBSET (0..n), S # {}
    PROVE  Max(S) \in S /\ \A i \in S : i <= Max(S)
<1> DEFINE T == {n - i : i \in S}
<1>1. T \in SUBSET Nat /\ T # {}
  <2>1. \A i \in S : i \in 0..n /\ n - i \in Nat
    OBVIOUS
  <2> QED BY <2>1
<1>2. PICK m \in T : \A k \in T : m <= k
  <2> HIDE DEF T
  <2> QED BY <1>1, LeastNat
<1>3. PICK g \in S : m = n - g
  OBVIOUS
<1>4. \A i \in S : g >= i
  <2> TAKE i \in S
  <2>1. n - g <= n - i
    BY <1>2, <1>3
  <2>2. i \in 0..n /\ g \in 0..n
    OBVIOUS
  <2> HIDE DEF T
  <2> QED BY <2>1, <2>2
<1> QED BY <1>4 DEF Max

-----------------------------------------------------------------------------
(* Types *)

String == Seq(STRING)

\* What an argument vector on the stack can be; while it is an alias, it has
\* the words of this alias.
Frames ==
    {f \in [argv : Argv, next : Nat \ {0}, chars : String, nextArg : String,
            alias : DOMAIN Alias \cup {NULL}] :
        /\ f.next <= Len(f.argv) + 1
        /\ f.alias # NULL => f.argv = Alias[f.alias]}

Stacks == Seq(Frames) \ {<< >>}

AliasesTyped == \A key \in DOMAIN Alias : Alias[key] \in Argv

LongArgs ==
    {long \in [value : String, of : String] : long # NoLongArg => IsOption(long.of)}

TypeInv ==
    /\ stack \in Stacks
    /\ rest \in BOOLEAN
    /\ leftovers \in Argv
    /\ longArg \in LongArgs
    /\ seen \in Seq([option : Options, arg : String, of : String])
    /\ pc \in {"app", "call"} \cup Ended

LEMMA StackProperties ==
    ASSUME NEW s \in Stacks
    PROVE  /\ s \in Seq(Frames) /\ Len(s) \in Nat \ {0} /\ DOMAIN s = 1..Len(s)
           /\ \A i \in 1..Len(s) : s[i] \in Frames
           /\ s[Len(s)] \in Frames
BY EmptySeq, LenProperties, ElementOfSeq DEF Stacks

\* The lower part of a stack.
LEMMA PartOfStack ==
    ASSUME NEW s \in Stacks, NEW k \in 1..Len(s)
    PROVE  /\ SubSeq(s, 1, k) \in Stacks
           /\ Len(SubSeq(s, 1, k)) = k
           /\ \A i \in 1..k : SubSeq(s, 1, k)[i] = s[i]
<1>1. \A i \in 1..k : s[i] \in Frames
  BY StackProperties
<1>2. k \in Nat \ {0}
  BY StackProperties
<1>3. SubSeq(s, 1, k) \in Seq(Frames) /\ Len(SubSeq(s, 1, k)) = k
      /\ \A i \in 1..k : SubSeq(s, 1, k)[i] = s[i]
  BY <1>1, <1>2, SubSeqProperties
<1> QED BY <1>2, <1>3, EmptySeq DEF Stacks

\* What the two ways of unwinding leave: everything up to a vector that is
\* still read, above which there is none.
LEMMA UnwindProperties ==
    ASSUME NEW s \in Stacks
    PROVE  \E k \in 1..Len(s) :
              /\ Unwind(s) = SubSeq(s, 1, k)
              /\ k = 1 \/ HasWords(s[k]) \/ s[k].chars # NULL
              /\ \A i \in (k + 1)..Len(s) : ~HasWords(s[i]) /\ s[i].chars = NULL
<1> DEFINE S == {1} \cup {i \in DOMAIN s : HasWords(s[i]) \/ s[i].chars # NULL}
<1>1. Len(s) \in Nat \ {0} /\ DOMAIN s = 1..Len(s)
  BY StackProperties
<1>2. Max(S) \in S /\ \A i \in S : i <= Max(S)
  <2>1. S \in SUBSET (0..Len(s)) /\ S # {}
    BY <1>1
  <2> HIDE DEF S
  <2> QED BY <1>1, <2>1, GreatestNat
<1>3. Unwind(s) = SubSeq(s, 1, Max(S))
  BY DEF Unwind
<1> HIDE DEF S
<1> DEFINE k == Max(S)
<1>4. k \in 1..Len(s) /\ (k = 1 \/ HasWords(s[k]) \/ s[k].chars # NULL)
  BY <1>1, <1>2 DEF S
<1>5. \A i \in (k + 1)..Len(s) : i \notin S
  BY <1>1, <1>2, <1>4
<1>6. \A i \in (k + 1)..Len(s) : ~HasWords(s[i]) /\ s[i].chars = NULL
  BY <1>1, <1>4, <1>5 DEF S
<1> HIDE DEF k
<1> QED BY <1>3, <1>4, <1>6 DEF k

LEMMA UnwindForArgProperties ==
    ASSUME NEW s \in Stacks
    PROVE  \E k \in 1..Len(s) :
              /\ UnwindForArg(s) = SubSeq(s, 1, k)
              /\ k = 1 \/ HasWords(s[k])
              /\ \A i \in (k + 1)..Len(s) : ~HasWords(s[i])
<1> DEFINE S == {1} \cup {i \in DOMAIN s : HasWords(s[i])}
<1>1. Len(s) \in Nat \ {0} /\ DOMAIN s = 1..Len(s)
  BY StackProperties
<1>2. Max(S) \in S /\ \A i \in S : i <= Max(S)
  <2>1. S \in SUBSET (0..Len(s)) /\ S # {}
    BY <1>1
  <2> HIDE DEF S
  <2> QED BY <1>1, <2>1, GreatestNat
<1>3. UnwindForArg(s) = SubSeq(s, 1, Max(S))
  BY DEF UnwindForArg
<1> HIDE DEF S
<1> DEFINE k == Max(S)
<1>4. k \in 1..Len(s) /\ (k = 1 \/ HasWords(s[k]))
  BY <1>1, <1>2 DEF S
<1>5. \A i \in (k + 1)..Len(s) : i \notin S
  BY <1>1, <1>2, <1>4
<1>6. \A i \in (k + 1)..Len(s) : ~HasWords(s[i])
  BY <1>1, <1>4, <1>5 DEF S
<1> HIDE DEF k
<1> QED BY <1>3, <1>4, <1>6 DEF k

LEMMA UnwoundTyped ==
    ASSUME NEW s \in Stacks
    PROVE  /\ Unwind(s) \in Stacks /\ Len(Unwind(s)) <= Len(s)
           /\ UnwindForArg(s) \in Stacks /\ Len(UnwindForArg(s)) <= Len(s)
           /\ Unwind(s)[1] = s[1] /\ UnwindForArg(s)[1] = s[1]
<1>1. Len(s) \in Nat
  BY StackProperties
<1>2. PICK k \in 1..Len(s) : Unwind(s) = SubSeq(s, 1, k)
  BY UnwindProperties
<1>3. PICK a \in 1..Len(s) : UnwindForArg(s) = SubSeq(s, 1, a)
  BY UnwindForArgProperties
<1>4. SubSeq(s, 1, k) \in Stacks /\ Len(SubSeq(s, 1, k)) = k /\ SubSeq(s, 1, k)[1] = s[1]
  BY <1>1, PartOfStack
<1>5. SubSeq(s, 1, a) \in Stacks /\ Len(SubSeq(s, 1, a)) = a /\ SubSeq(s, 1, a)[1] = s[1]
  BY <1>1, PartOfStack
<1> QED BY <1>1, <1>2, <1>3, <1>4, <1>5

-----------------------------------------------------------------------------
(* Words and frames *)

LEMMA SubStringTyped ==
    ASSUME NEW w \in String, NEW m \in Nat \ {0}
    PROVE  SubSeq(w, m, Len(w)) \in String
<1>1. Len(w) \in Nat /\ \A i \in m..Len(w) : w[i] \in STRING
  BY DEF String
<1> QED BY <1>1, SubSeqProperties DEF String

LEMMA WordTyped ==
    ASSUME NEW w \in String
    PROVE  /\ Bare(w) \in String
           /\ Given(w) \in String
<1>1. Bare(w) \in String
  BY SubStringTyped DEF Bare
<1>2. Len(Name(w)) \in Nat
  <2>1. CASE Cut(w) = {}
    BY <1>1, <2>1 DEF Name, String
  <2>2. CASE Cut(w) # {}
    <3> DEFINE i == CHOOSE i \in Cut(w) : \A j \in Cut(w) : i <= j
    <3>1. Cut(w) \in SUBSET Nat /\ DOMAIN Bare(w) = 1..Len(Bare(w)) /\ Len(Bare(w)) \in Nat
      BY <1>1 DEF Cut, String
    <3>2. i \in Cut(w)
      BY <2>2, <3>1, LeastNat
    <3>3. i \in 1..Len(Bare(w))
      BY <3>1, <3>2 DEF Cut
    <3>4. \A k \in 1..(i - 1) : Bare(w)[k] \in STRING
      BY <1>1, <3>1, <3>3 DEF String
    <3>5. Name(w) = SubSeq(Bare(w), 1, i - 1)
      BY <2>2 DEF Name
    <3> HIDE DEF i
    <3> QED BY <3>1, <3>3, <3>4, <3>5, SubSeqProperties
  <2> QED BY <2>1, <2>2
<1>3. Given(w) \in String
  <2> DEFINE m == Len(Name(w)) + 2
  <2>1. m \in Nat \ {0}
    BY <1>2
  <2>2. Given(w) = SubSeq(Bare(w), m, Len(Bare(w)))
    BY DEF Given
  <2> HIDE DEF m
  <2> QED BY <1>1, <2>1, <2>2, SubStringTyped
<1> QED BY <1>1, <1>3

LEMMA LettersTyped ==
    ASSUME NEW cs \in String, cs # NULL
    PROVE  Head(cs) \in STRING /\ Tail(cs) \in String
BY HeadTailProperties DEF String, NULL

LEMMA NullTyped == NULL \in String /\ NoLongArg \in LongArgs
BY EmptySeq DEF NULL, String, NoLongArg, LongArgs

LEMMA FrameEdits ==
    ASSUME NEW f \in Frames, NEW cs \in String
    PROVE  /\ [f EXCEPT !.chars = cs] \in Frames
           /\ [f EXCEPT !.nextArg = cs] \in Frames
           /\ HasWords(f) => f.argv[f.next] \in String /\ [f EXCEPT !.next = @ + 1] \in Frames
           /\ f.argv = [f EXCEPT !.chars = cs].argv /\ f.argv = [f EXCEPT !.nextArg = cs].argv
           /\ f.argv = [f EXCEPT !.next = @ + 1].argv
<1> USE DEF Frames
<1>1. [f EXCEPT !.chars = cs] \in Frames
  OBVIOUS
<1>2. [f EXCEPT !.nextArg = cs] \in Frames
  OBVIOUS
<1>3. ASSUME HasWords(f) PROVE f.argv[f.next] \in String /\ [f EXCEPT !.next = @ + 1] \in Frames
  <2>1. f.argv \in Seq(String) /\ f.next \in 1..Len(f.argv)
    BY <1>3 DEF HasWords, Argv, String
  <2>2. f.argv[f.next] \in String
    BY <2>1, ElementOfSeq
  <2>3. f.next + 1 \in Nat \ {0} /\ f.next + 1 <= Len(f.argv) + 1
    BY <2>1, LenProperties
  <2> QED BY <2>2, <2>3
<1>4. /\ f.argv = [f EXCEPT !.chars = cs].argv /\ f.argv = [f EXCEPT !.nextArg = cs].argv
      /\ f.argv = [f EXCEPT !.next = @ + 1].argv
  OBVIOUS
<1> QED BY <1>1, <1>2, <1>3, <1>4

LEMMA NewFrame ==
    ASSUME NEW argv \in Argv
    PROVE  /\ Frame(argv, NULL) \in Frames
           /\ \A key \in DOMAIN Alias : argv = Alias[key] => Frame(argv, key) \in Frames
<1>1. Len(argv) \in Nat
  BY DEF Argv
<1> QED BY <1>1, NullTyped DEF Frame, Frames

LEMMA NewTop ==
    ASSUME NEW s \in Stacks, NEW f \in Frames
    PROVE  /\ [s EXCEPT ![Len(s)] = f] \in Stacks
           /\ Len([s EXCEPT ![Len(s)] = f]) = Len(s)
           /\ \A i \in 1..Len(s) : [s EXCEPT ![Len(s)] = f][i] = IF i = Len(s) THEN f ELSE s[i]
<1>1. s \in Seq(Frames) /\ Len(s) \in 1..Len(s) /\ Len(s) \in Nat \ {0}
  BY StackProperties
<1>2. /\ [s EXCEPT ![Len(s)] = f] \in Seq(Frames)
      /\ Len([s EXCEPT ![Len(s)] = f]) = Len(s)
      /\ \A i \in 1..Len(s) : [s EXCEPT ![Len(s)] = f][i] = IF i = Len(s) THEN f ELSE s[i]
  BY <1>1, ExceptSeq
<1> QED BY <1>1, <1>2, EmptySeq DEF Stacks

LEMMA Pushed ==
    ASSUME NEW s \in Stacks, NEW f \in Frames
    PROVE  /\ Append(s, f) \in Stacks
           /\ Len(Append(s, f)) = Len(s) + 1
           /\ \A i \in 1..(Len(s) + 1) : Append(s, f)[i] = IF i <= Len(s) THEN s[i] ELSE f
<1>1. s \in Seq(Frames) /\ Len(s) \in Nat \ {0}
  BY StackProperties
<1>2. Append(s, f) \in Seq(Frames) /\ Len(Append(s, f)) = Len(s) + 1
  BY <1>1
<1>3. \A i \in 1..(Len(s) + 1) : Append(s, f)[i] = IF i <= Len(s) THEN s[i] ELSE f
  BY <1>1
<1> QED BY <1>1, <1>2, <1>3, EmptySeq DEF Stacks

LEMMA CharsTyped ==
    ASSUME NEW s \in Stacks, NEW cs \in String
    PROVE  /\ Chars(s, cs) \in Stacks
           /\ Len(Chars(s, cs)) = Len(s)
           /\ Chars(s, cs)[Len(s)] = [s[Len(s)] EXCEPT !.chars = cs]
           /\ Chars(s, cs)[1].argv = s[1].argv
<1>1. s[Len(s)] \in Frames /\ Len(s) \in 1..Len(s) /\ 1 \in 1..Len(s)
  BY StackProperties
<1>2. [s[Len(s)] EXCEPT !.chars = cs] \in Frames /\ s[Len(s)].argv = [s[Len(s)] EXCEPT !.chars = cs].argv
  BY <1>1, FrameEdits
<1> QED BY <1>1, <1>2, NewTop DEF Chars

LEMMA ArgTyped ==
    ASSUME NEW s \in Stacks, NEW arg \in String
    PROVE  /\ [s EXCEPT ![Len(s)].nextArg = arg] \in Stacks
           /\ Len([s EXCEPT ![Len(s)].nextArg = arg]) = Len(s)
           /\ [s EXCEPT ![Len(s)].nextArg = arg][1].argv = s[1].argv
<1>1. s[Len(s)] \in Frames /\ 1 \in 1..Len(s)
  BY StackProperties
<1>2. [s[Len(s)] EXCEPT !.nextArg = arg] \in Frames /\ s[Len(s)].argv = [s[Len(s)] EXCEPT !.nextArg = arg].argv
  BY <1>1, FrameEdits
<1> QED BY <1>1, <1>2, NewTop

\* At the start of a turn.
LEMMA HereTyped ==
    ASSUME TypeInv
    PROVE  /\ Here \in Stacks /\ Len(Here) <= Len(stack) /\ Len(Here) \in Nat
           /\ Top \in Frames /\ Top = Here[Len(Here)]
           /\ HasWords(Top) => Text \in String /\ Taken \in Stacks /\ Len(Taken) = Len(Here)
           /\ Here[1].argv = stack[1].argv
           /\ HasWords(Top) => Taken[1].argv = stack[1].argv
<1>1. /\ Here \in Stacks /\ Len(Here) <= Len(stack) /\ Len(Here) \in Nat
      /\ Here[1] = stack[1]
  BY UnwoundTyped, StackProperties DEF Here, TypeInv
<1>2. Top \in Frames /\ Top = Here[Len(Here)] /\ 1 \in 1..Len(Here)
  BY <1>1, StackProperties DEF Top
<1>3. ASSUME HasWords(Top)
      PROVE  Text \in String /\ Taken \in Stacks /\ Len(Taken) = Len(Here) /\ Taken[1].argv = Here[1].argv
  <2>1. Text \in String /\ [Top EXCEPT !.next = @ + 1] \in Frames /\ Top.argv = [Top EXCEPT !.next = @ + 1].argv
    BY <1>2, <1>3, FrameEdits, NullTyped DEF Text
  <2> DEFINE f == [Top EXCEPT !.next = @ + 1]
  <2>2. Taken = [Here EXCEPT ![Len(Here)] = f]
    BY DEF Taken, Top
  <2> HIDE DEF f
  <2>3. /\ Taken \in Stacks /\ Len(Taken) = Len(Here)
        /\ \A i \in 1..Len(Here) : Taken[i] = IF i = Len(Here) THEN f ELSE Here[i]
    BY <1>1, <2>1, <2>2, NewTop DEF f
  <2> QED BY <1>1, <1>2, <2>1, <2>3 DEF f
<1> QED BY <1>1, <1>2, <1>3

-----------------------------------------------------------------------------
(* Every step keeps the types, a stack that fits in its array, and the     *)
(* vector at the bottom of the stack                                       *)

Keeps(s) ==
    /\ TypeInv'
    /\ Len(s) <= Depth => Len(stack') <= Depth
    /\ stack'[1].argv = s[1].argv

LEMMA GoesKeeps ==
    ASSUME TypeInv, NEW s \in Stacks, NEW t \in Stacks, Len(t) <= Len(s), t[1].argv = s[1].argv, Depth \in Nat,
           Goes(t), UNCHANGED <<rest, leftovers, seen>>, longArg' \in LongArgs
    PROVE  Keeps(s)
<1>1. Len(s) \in Nat /\ Len(t) \in Nat
  BY StackProperties
<1> QED BY <1>1 DEF TypeInv, Goes, Keeps

LEMMA RefuseKeeps ==
    ASSUME TypeInv, NEW s \in Stacks, NEW t \in Stacks, Len(t) <= Len(s), t[1].argv = s[1].argv, Depth \in Nat,
           NEW how \in Ended, Refuse(t, how)
    PROVE  Keeps(s)
<1>1. Len(s) \in Nat /\ Len(t) \in Nat
  BY StackProperties
<1> QED BY <1>1 DEF TypeInv, Refuse, Stops, Keeps

LEMMA HandleAliasKeeps ==
    ASSUME AliasesTyped, LinesAssumption, TypeInv,
           NEW key \in DOMAIN Alias, NEW s \in Stacks, NEW cs \in String,
           HandleAlias(key, s, cs)
    PROVE  Keeps(s)
<1>1. Len(s) \in Nat /\ Depth \in Nat
  BY StackProperties DEF LinesAssumption
<1>2. CASE Len(s) = Depth
  BY <1>1, <1>2 DEF HandleAlias, TypeInv, Goes, Keeps
<1>3. CASE Len(s) # Depth
  <2> DEFINE t == Append(Chars(s, cs), Frame(Alias[key], key))
  <2>1. Chars(s, cs) \in Stacks /\ Len(Chars(s, cs)) = Len(s) /\ Chars(s, cs)[1].argv = s[1].argv
    BY CharsTyped
  <2>2. Frame(Alias[key], key) \in Frames
    BY NewFrame DEF AliasesTyped
  <2>3. t \in Stacks /\ Len(t) = Len(s) + 1 /\ t[1] = Chars(s, cs)[1]
    <3>1. 1 \in 1..(Len(s) + 1) /\ 1 <= Len(s)
      BY <1>1, StackProperties
    <3> QED BY <2>1, <2>2, <3>1, Pushed
  <2>4. Goes(t) /\ UNCHANGED <<rest, leftovers, longArg, seen>>
    BY <1>3 DEF HandleAlias
  <2> HIDE DEF t
  <2> QED BY <1>1, <1>3, <2>1, <2>3, <2>4 DEF TypeInv, Goes, Keeps
<1> QED BY <1>2, <1>3

LEMMA FromNextTyped ==
    ASSUME NEW s \in Stacks, HasWords(UnwindForArg(s)[Len(UnwindForArg(s))])
    PROVE  /\ FromNext(s) \in Stacks /\ Len(FromNext(s)) = Len(UnwindForArg(s))
           /\ FromNext(s)[1].argv = s[1].argv
<1> DEFINE u == UnwindForArg(s)
           f == u[Len(u)]
           g == [f EXCEPT !.nextArg = f.argv[f.next]]
           h == [g EXCEPT !.next = @ + 1]
           v == [u EXCEPT ![Len(u)] = g]
<1>1. u \in Stacks /\ f \in Frames /\ u[1] = s[1] /\ 1 \in 1..Len(u)
  <2>1. u \in Stacks /\ u[1] = s[1]
    BY UnwoundTyped
  <2> HIDE DEF u
  <2> QED BY <2>1, StackProperties
<1>2. HasWords(f)
  OBVIOUS
<1> HIDE DEF u
<1>3. g \in Frames /\ HasWords(g) /\ g.argv = f.argv
  <2>1. f.argv[f.next] \in String
    BY <1>1, <1>2, FrameEdits, NullTyped
  <2>2. g \in Frames
    BY <1>1, <2>1, FrameEdits
  <2>3. g.argv = f.argv /\ g.next = f.next
    BY <1>1 DEF Frames
  <2> QED BY <1>2, <2>2, <2>3 DEF HasWords
<1>4. h \in Frames /\ h.argv = g.argv
  <2> HIDE DEF g
  <2> QED BY <1>3, FrameEdits, NullTyped
<1>5. v \in Stacks /\ Len(v) = Len(u) /\ v[Len(u)] = g /\ v[1].argv = u[1].argv
  <2>1. \A i \in 1..Len(u) : v[i] = IF i = Len(u) THEN g ELSE u[i]
    <3> HIDE DEF g, f
    <3> QED BY <1>1, <1>3, NewTop
  <2> HIDE DEF g
  <2> QED BY <1>1, <1>3, <2>1, NewTop, StackProperties
<1>6. FromNext(s) = [v EXCEPT ![Len(v)] = h]
  BY <1>5 DEF FromNext, u
<1> HIDE DEF v, h, g, f
<1>7. FromNext(s) \in Stacks /\ Len(FromNext(s)) = Len(v) /\ FromNext(s)[1].argv = v[1].argv
  <2>1. /\ [v EXCEPT ![Len(v)] = h] \in Stacks /\ Len([v EXCEPT ![Len(v)] = h]) = Len(v)
        /\ \A i \in 1..Len(v) : [v EXCEPT ![Len(v)] = h][i] = IF i = Len(v) THEN h ELSE v[i]
    BY <1>4, <1>5, NewTop
  <2> QED BY <1>1, <1>4, <1>5, <1>6, <2>1
<1> QED BY <1>1, <1>5, <1>7 DEF u

\* What an option lacks its argument.
Lacks(s, long) ==
    long.value = NULL /\ s[Len(s)].chars = NULL
    /\ ~HasWords(UnwindForArg(s)[Len(UnwindForArg(s))])

LEMMA WithArgumentTyped ==
    ASSUME NEW s \in Stacks, NEW long \in LongArgs, ~Lacks(s, long)
    PROVE  /\ WithArgument(s, long) \in Stacks /\ Len(WithArgument(s, long)) <= Len(s)
           /\ WithArgument(s, long)[1].argv = s[1].argv
<1>0. Len(s) \in Nat /\ s[Len(s)] \in Frames /\ s[Len(s)].chars \in String /\ long.value \in String
  BY StackProperties DEF Frames, LongArgs
<1>1. CASE long.value # NULL
  BY <1>0, <1>1, ArgTyped DEF WithArgument
<1>2. CASE long.value = NULL /\ s[Len(s)].chars # NULL
  <2> DEFINE t == [s EXCEPT ![Len(s)].nextArg = s[Len(s)].chars]
  <2>1. t \in Stacks /\ Len(t) = Len(s) /\ t[1].argv = s[1].argv
    BY <1>0, ArgTyped
  <2>2. WithArgument(s, long) = Chars(t, NULL)
    BY <1>2 DEF WithArgument
  <2> HIDE DEF t
  <2>3. Chars(t, NULL) \in Stacks /\ Len(Chars(t, NULL)) = Len(t) /\ Chars(t, NULL)[1].argv = t[1].argv
    BY <2>1, CharsTyped, NullTyped
  <2> QED BY <1>0, <2>1, <2>2, <2>3
<1>3. CASE long.value = NULL /\ s[Len(s)].chars = NULL
  <2>1. HasWords(UnwindForArg(s)[Len(UnwindForArg(s))])
    BY <1>3 DEF Lacks
  <2>2. WithArgument(s, long) = FromNext(s)
    BY <1>3 DEF WithArgument
  <2> QED BY <2>1, <2>2, FromNextTyped, UnwoundTyped
<1> QED BY <1>1, <1>2, <1>3

LEMMA HandOverKeeps ==
    ASSUME TypeInv, NEW s \in Stacks, NEW t \in Stacks, Len(t) <= Len(s), t[1].argv = s[1].argv, Depth \in Nat,
           NEW o \in Options, NEW long \in LongArgs, HandOver(o, t, long)
    PROVE  Keeps(s)
<1> DEFINE taken == [t EXCEPT ![Len(t)].nextArg = NULL]
<1>1. Len(s) \in Nat /\ Len(t) \in Nat /\ taken \in Stacks /\ Len(taken) = Len(t)
      /\ taken[1].argv = t[1].argv
  BY StackProperties, ArgTyped, NullTyped
<1>2. t[Len(t)].nextArg \in String /\ long.of \in String /\ NULL \in String
  BY StackProperties, NullTyped DEF Frames, LongArgs
<1>3. stack' \in {t, taken} /\ pc' \in {pc, "app"} /\ UNCHANGED <<rest, leftovers>> /\ longArg' = long
  BY DEF HandOver, Stops, Goes
<1>4. seen' \in Seq([option : Options, arg : String, of : String])
  <2> DEFINE entry == [option |-> o,
                       arg |-> IF (o.returns /\ Argument(o)) \/ ~o.returns THEN t[Len(t)].nextArg ELSE NULL,
                       of  |-> IF Argument(o) THEN long.of ELSE NULL]
  <2>1. entry \in [option : Options, arg : String, of : String]
    BY <1>2
  <2>2. seen' = Append(seen, entry)
    BY DEF HandOver
  <2> HIDE DEF entry
  <2> QED BY <2>1, <2>2 DEF TypeInv
<1> HIDE DEF taken
<1> QED BY <1>1, <1>3, <1>4 DEF TypeInv, Keeps

LEMMA OptionKeeps ==
    ASSUME LinesAssumption, TypeInv, NEW s \in Stacks, NEW o \in Options, NEW long \in LongArgs,
           Option(o, s, long)
    PROVE  Keeps(s)
<1> DEFINE t == WithArgument(s, long)
           u == UnwindForArg(s)
<1>0. Depth \in Nat /\ Len(s) \in Nat
  BY StackProperties DEF LinesAssumption
<1>1. CASE ~Argument(o)
  BY <1>0, <1>1, HandOverKeeps DEF Option
<1>2. CASE Argument(o) /\ Lacks(s, long)
  <2>1. Refuse(u, "noarg")
    BY <1>2 DEF Option, Lacks
  <2>2. u \in Stacks /\ Len(u) <= Len(s) /\ u[1].argv = s[1].argv
    BY UnwoundTyped
  <2> HIDE DEF u
  <2> QED BY <1>0, <2>1, <2>2, RefuseKeeps DEF Ended
<1>3. CASE Argument(o) /\ ~Lacks(s, long)
  <2>1. Refuse(t, "badnumber") \/ HandOver(o, t, long)
    BY <1>3 DEF Option, Lacks
  <2>2. t \in Stacks /\ Len(t) <= Len(s) /\ t[1].argv = s[1].argv
    BY <1>3, WithArgumentTyped
  <2> HIDE DEF t
  <2> QED BY <1>0, <2>1, <2>2, RefuseKeeps, HandOverKeeps DEF Ended
<1> QED BY <1>1, <1>2, <1>3

LEMMA LetterKeeps ==
    ASSUME AliasesTyped, LinesAssumption, TypeInv, NEW s \in Stacks, NEW cs \in String,
           NEW long \in LongArgs, Letter(cs, s, long)
    PROVE  Keeps(s)
<1>0. Depth \in Nat /\ Len(s) \in Nat /\ LongArgs # {} /\ longArg \in LongArgs
  BY StackProperties DEF LinesAssumption, TypeInv
<1>1. Chars(s, NULL) \in Stacks /\ Len(Chars(s, NULL)) = Len(s) /\ Chars(s, NULL)[1].argv = s[1].argv
  BY CharsTyped, NullTyped
<1>2. CASE cs = NULL
  <2>1. CASE LongOnes(DOMAIN Alias) # {}
    <3>1. PICK chars \in Behind(s[Len(s)]) :
             HandleAlias(CHOOSE key \in LongOnes(DOMAIN Alias) : TRUE, s, chars)
      BY <1>2, <2>1 DEF Letter, NoLetter
    <3>2. (CHOOSE key \in LongOnes(DOMAIN Alias) : TRUE) \in DOMAIN Alias
      BY <2>1 DEF LongOnes
    <3>3. chars \in String
      <4>1. s[Len(s)] \in Frames
        BY StackProperties
      <4>2. s[Len(s)].argv \in Seq(String)
        BY <4>1 DEF Frames, Argv, String
      <4>3. \A i \in DOMAIN s[Len(s)].argv : s[Len(s)].argv[i] \in String
        BY <4>2
      <4> QED BY <4>3, NullTyped DEF Behind
    <3> QED BY <3>1, <3>2, <3>3, HandleAliasKeeps
  <2>2. CASE LongOnes(DOMAIN Alias) = {}
    <3>1. HandleExec(s) \/ Refuse(s, "badopt")
      BY <1>2, <2>2 DEF Letter, NoLetter
    <3> QED BY <1>0, <3>1, RefuseKeeps, GoesKeeps DEF HandleExec, Ended
  <2> QED BY <2>1, <2>2
<1>3. CASE cs # NULL
  <2> DEFINE c == Head(cs)
  <2>0. c \in STRING /\ Tail(cs) \in String
    BY <1>3, LettersTyped
  <2>1. CASE Expands(ShortKey(c))
    <3>1. HandleAlias(ShortKey(c), Chars(s, NULL), Tail(cs)) /\ ShortKey(c) \in DOMAIN Alias
      BY <1>3, <2>1 DEF Letter, Expands
    <3>2. Keeps(Chars(s, NULL))
      BY <1>1, <2>0, <3>1, HandleAliasKeeps
    <3> QED BY <1>1, <3>2 DEF Keeps
  <2>2. CASE ~Expands(ShortKey(c)) /\ (ShortKey(c) \in Exec \/ FindShort(c) = {})
    <3>1. HandleExec(Chars(s, NULL)) \/ Refuse(Chars(s, NULL), "badopt")
      BY <1>3, <2>2 DEF Letter
    <3> QED BY <1>0, <1>1, <3>1, RefuseKeeps, GoesKeeps DEF HandleExec, Ended
  <2>3. CASE ~Expands(ShortKey(c)) /\ ShortKey(c) \notin Exec /\ FindShort(c) # {}
    <3> DEFINE o == CHOOSE o \in FindShort(c) : TRUE
    <3>1. o \in Options
      BY <2>3 DEF FindShort
    <3>2. Option(o, Chars(s, Tail(cs)), long)
      BY <1>3, <2>3 DEF Letter
    <3>3. /\ Chars(s, Tail(cs)) \in Stacks /\ Len(Chars(s, Tail(cs))) = Len(s)
          /\ Chars(s, Tail(cs))[1].argv = s[1].argv
      BY <2>0, CharsTyped
    <3> HIDE DEF o
    <3>4. Keeps(Chars(s, Tail(cs)))
      BY <3>1, <3>2, <3>3, OptionKeeps
    <3> QED BY <3>3, <3>4 DEF Keeps
  <2> QED BY <2>1, <2>2, <2>3
<1> QED BY <1>2, <1>3

\* A turn, a call, and a vector that is stuffed.
LEMMA TurnKeeps ==
    ASSUME AliasesTyped, LinesAssumption, TypeInv, Turn
    PROVE  Keeps(stack)
<1>0. /\ Depth \in Nat /\ Len(stack) \in Nat
      /\ longArg \in LongArgs /\ leftovers \in Argv /\ rest \in BOOLEAN
  BY StackProperties DEF LinesAssumption, TypeInv
<1>1. Here \in Stacks /\ Len(Here) <= Len(stack) /\ Len(Here) \in Nat /\ Here[1].argv = stack[1].argv
  BY HereTyped
<1>2. ReadsWord => /\ Text \in String /\ Taken \in Stacks /\ Len(Taken) = Len(Here)
                   /\ Taken[1].argv = stack[1].argv
  BY HereTyped DEF ReadsWord
<1>3. ReadsLetters => Top.chars \in String
  BY HereTyped DEF Frames
<1>4. Keeps(Here) \/ (ReadsWord /\ Keeps(Taken)) => Keeps(stack)
  BY <1>0, <1>1, <1>2 DEF Keeps
<1>5. CASE End
  BY <1>0, <1>1, <1>4, <1>5, RefuseKeeps DEF End, Ended
<1>6. CASE Leftover
  <2>1. leftovers' \in Argv /\ rest' \in BOOLEAN
    BY <1>0, <1>2, <1>6 DEF Leftover, Argv, String, LinesAssumption
  <2>2. stack' = Taken /\ pc' = pc /\ UNCHANGED <<longArg, seen>> /\ ReadsWord
    BY <1>6 DEF Leftover, Goes
  <2> QED BY <1>0, <1>1, <1>2, <2>1, <2>2 DEF TypeInv, Keeps
<1>7. CASE RestIsLeftover
  <2>1. stack' = Taken /\ pc' = pc /\ UNCHANGED <<leftovers, longArg, seen>> /\ ReadsWord /\ rest' = TRUE
    BY <1>7 DEF RestIsLeftover, Goes
  <2> QED BY <1>0, <1>1, <1>2, <2>1 DEF TypeInv, Keeps
<1>8. CASE AliasWord
  <2>1. HandleAlias(LongKey(Text), Taken, NULL) /\ LongKey(Text) \in DOMAIN Alias /\ ReadsWord
    BY <1>8 DEF AliasWord, Expands, OptionWord
  <2>2. Keeps(Taken)
    BY <1>2, <2>1, HandleAliasKeeps, NullTyped
  <2> QED BY <1>4, <2>1, <2>2
<1>9. CASE ExecWord
  <2>1. HandleExec(Taken) /\ ReadsWord
    BY <1>9 DEF ExecWord, OptionWord
  <2>2. Keeps(Taken)
    BY <1>0, <1>2, <2>1, GoesKeeps DEF HandleExec
  <2> QED BY <1>4, <2>1, <2>2
<1>10. CASE PlainWord
  <2> DEFINE long == IF Given(Text) = NULL THEN longArg ELSE [value |-> Given(Text), of |-> Text]
  <2>1. ReadsWord /\ Text \in String /\ IsOption(Text)
    BY <1>2, <1>10 DEF PlainWord, OptionWord
  <2>2. long \in LongArgs
    BY <1>0, <2>1, WordTyped DEF LongArgs
  <2>3. Bare(Text) \in String
    BY <2>1, WordTyped
  <2>4. IF FindLong(Text) # {} THEN Option(CHOOSE o \in FindLong(Text) : TRUE, Taken, long)
        ELSE IF IsLong(Text) THEN Refuse(Taken, "badopt")
        ELSE Letter(Bare(Text), Taken, long)
    BY <1>10 DEF PlainWord
  <2>5. FindLong(Text) # {} => (CHOOSE o \in FindLong(Text) : TRUE) \in Options
    BY DEF FindLong
  <2> HIDE DEF long
  <2>6. Keeps(Taken)
    <3>1. CASE FindLong(Text) # {}
      BY <1>2, <2>1, <2>2, <2>4, <2>5, <3>1, OptionKeeps
    <3>2. CASE FindLong(Text) = {} /\ IsLong(Text)
      BY <1>0, <1>2, <2>1, <2>4, <3>2, RefuseKeeps DEF Ended
    <3>3. CASE FindLong(Text) = {} /\ ~IsLong(Text)
      BY <1>2, <2>1, <2>2, <2>3, <2>4, <3>3, LetterKeeps
    <3> QED BY <3>1, <3>2, <3>3
  <2> QED BY <1>4, <2>1, <2>6
<1>11. CASE NextLetter
  <2>1. Letter(Top.chars, Here, longArg) /\ Top.chars \in String
    BY <1>3, <1>11 DEF NextLetter
  <2>2. Keeps(Here)
    BY <1>0, <1>1, <2>1, LetterKeeps
  <2> QED BY <1>4, <2>2
<1> QED BY <1>5, <1>6, <1>7, <1>8, <1>9, <1>10, <1>11 DEF Turn

LEMMA CallKeeps ==
    ASSUME TypeInv, Call
    PROVE  TypeInv' /\ UNCHANGED stack
BY NullTyped DEF TypeInv, Call

LEMMA StuffKeeps ==
    ASSUME LinesAssumption, TypeInv, StuffArgs
    PROVE  TypeInv' /\ stack'[1] = stack[1]
<1>1. PICK argv \in Stuffs : stack' = Append(stack, Frame(argv, NULL))
  BY DEF StuffArgs
<1>2. argv \in Argv
  BY DEF LinesAssumption
<1>3. stack' \in Stacks /\ stack'[1] = stack[1]
  <2>1. stack \in Stacks /\ 1 \in 1..(Len(stack) + 1) /\ 1 <= Len(stack)
    BY StackProperties DEF TypeInv
  <2> QED BY <1>1, <1>2, <2>1, NewFrame, Pushed
<1> QED BY <1>3 DEF StuffArgs, TypeInv

\* A turn stuffs nothing, and hands over an option or none.
LEMMA TurnHandsOver ==
    ASSUME TypeInv, Turn
    PROVE  stuffs' = stuffs /\ (seen' = seen \/ seen' # << >>)
<1> DEFINE G == stuffs' = stuffs /\ (seen' = seen \/ seen' # << >>)
<1>1. \A o, s, long : HandOver(o, s, long) => G
  <2> TAKE o, s, long
  <2> HAVE HandOver(o, s, long)
  <2>1. PICK e : seen' = Append(seen, e)
    BY DEF HandOver
  <2>2. seen' # << >>
    BY <2>1 DEF TypeInv
  <2> QED BY <2>2 DEF HandOver
<1>2. /\ \A key, s, cs : HandleAlias(key, s, cs) => G
      /\ \A s : HandleExec(s) => G
      /\ \A s, how : Refuse(s, how) => G
  BY DEF HandleAlias, HandleExec, Refuse
<1> HIDE DEF G
<1>3. \A o, s, long : Option(o, s, long) => G
  BY <1>1, <1>2 DEF Option
<1>4. \A cs, s, long : Letter(cs, s, long) => G
  BY <1>2, <1>3 DEF Letter, NoLetter
<1>5. End \/ AliasWord \/ ExecWord \/ PlainWord \/ NextLetter => G
  BY <1>2, <1>3, <1>4 DEF End, AliasWord, ExecWord, PlainWord, NextLetter
<1>6. Leftover \/ RestIsLeftover => G
  BY DEF Leftover, RestIsLeftover, G
<1> QED BY <1>5, <1>6 DEF Turn, G

LEMMA TypeInvStep ==
    ASSUME AliasesTyped, LinesAssumption, TypeInv, [Next]_vars
    PROVE  /\ TypeInv'
           /\ Stuffed = 0 /\ stuffs = 0 => stuffs' = 0 /\ (StackFits => StackFits')
           /\ stack'[1].argv = stack[1].argv
<1>1. CASE Call
  BY <1>1, CallKeeps DEF StackFits, Call
<1>2. CASE Turn
  BY <1>2, TurnKeeps, TurnHandsOver DEF StackFits, Keeps
<1>3. CASE StuffArgs
  BY <1>3, StuffKeeps DEF StuffArgs
<1>4. CASE UNCHANGED vars
  BY <1>4 DEF vars, TypeInv, StackFits
<1> QED BY <1>1, <1>2, <1>3, <1>4 DEF Next, Over

LEMMA FirstStack ==
    ASSUME NEW f \in Frames
    PROVE  <<f>> \in Stacks /\ Len(<<f>>) = 1
BY EmptySeq DEF Stacks

\* Types that the invariant implies.
LEMMA TypeInvMeans ==
    ASSUME PoptAssumption, TypeInv
    PROVE  TypeOK
<1>1. NULL \notin DOMAIN Alias
  BY DEF PoptAssumption, IsOption
<1>2. stack # << >> /\ \A i \in DOMAIN stack : stack[i] \in Frames
  BY StackProperties DEF TypeInv, Stacks
<1>3. ASSUME NEW f \in Frames
      PROVE  f.next \in 1..(Len(f.argv) + 1) /\ (f.alias \in DOMAIN Alias => f.argv = Alias[f.alias])
  <2>1. Len(f.argv) \in Nat
    BY DEF Frames, Argv
  <2> QED BY <1>1, <2>1 DEF Frames
<1> QED BY <1>2, <1>3 DEF TypeOK, TypeInv, LongArgs

-----------------------------------------------------------------------------
(* What is left to read *)

Items == [text : String, letters : BOOLEAN, by : DOMAIN Alias \cup {NULL}]

\* A word or some letters, and whose text they are of.
Item(w, is, key) == [text |-> w, letters |-> is, by |-> key]

LEMMA FrameTodoTyped ==
    ASSUME NEW f \in Frames
    PROVE  /\ FrameTodo(f) \in Seq(Items)
           /\ ~HasWords(f) /\ f.chars = NULL => FrameTodo(f) = << >>
           /\ ~HasWords(f) => \A i \in DOMAIN FrameTodo(f) : FrameTodo(f)[i].letters
<1> DEFINE n == IF f.chars = NULL THEN 0 ELSE 1
           m == n + Len(f.argv) - f.next + 1
<1>1. /\ f.argv \in Seq(String) /\ Len(f.argv) \in Nat /\ f.next \in Nat \ {0} /\ f.next <= Len(f.argv) + 1
      /\ f.chars \in String /\ f.alias \in DOMAIN Alias \cup {NULL}
  BY DEF Frames, Argv, String
<1>2. n \in {0, 1} /\ m \in Nat
  BY <1>1
<1>3. FrameTodo(f) = [i \in 1..m |->
        [text    |-> IF i <= n THEN f.chars ELSE f.argv[f.next + i - n - 1],
         letters |-> i <= n,
         by      |-> f.alias]]
  BY DEF FrameTodo
<1>4. ASSUME NEW i \in 1..m
      PROVE  (IF i <= n THEN f.chars ELSE f.argv[f.next + i - n - 1]) \in String
  <2>1. CASE i <= n
    BY <1>1, <2>1
  <2>2. CASE ~(i <= n)
    <3>1. f.next + i - n - 1 \in 1..Len(f.argv)
      <4> HIDE DEF n
      <4> QED BY <1>1, <1>2, <2>2
    <3> HIDE DEF n, m
    <3> QED BY <1>1, <2>2, <3>1, ElementOfSeq
  <2> QED BY <2>1, <2>2
<1>5. ~HasWords(f) => m = n
  BY <1>1 DEF HasWords
<1> HIDE DEF m
<1>6. FrameTodo(f) \in Seq(Items)
  <2>1. \A i \in 1..m : FrameTodo(f)[i] \in Items
    BY <1>1, <1>3, <1>4 DEF Items
  <2>2. FrameTodo(f) \in [1..m -> Items]
    BY <1>3, <2>1
  <2> QED BY <1>2, <2>2, SeqDef
<1>7. ASSUME ~HasWords(f), f.chars = NULL PROVE FrameTodo(f) = << >>
  <2>1. m = 0
    BY <1>5, <1>7
  <2> HIDE DEF n
  <2>2. DOMAIN FrameTodo(f) = 1..0
    BY <1>3, <2>1
  <2> QED BY <1>6, <2>2, EmptySeq, LenProperties
<1>8. ASSUME ~HasWords(f) PROVE \A i \in DOMAIN FrameTodo(f) : FrameTodo(f)[i].letters
  <2>1. m = n
    BY <1>5, <1>8
  <2>2. n \in Nat
    BY <1>2
  <2> HIDE DEF n
  <2>3. DOMAIN FrameTodo(f) = 1..n
    BY <1>3, <2>1
  <2>4. ASSUME NEW i \in 1..n PROVE FrameTodo(f)[i].letters
    <3>1. i <= n /\ i \in 1..m
      BY <2>1, <2>2
    <3> DEFINE w == IF i <= n THEN f.chars ELSE f.argv[f.next + i - n - 1]
    <3>2. FrameTodo(f)[i] = [text |-> w, letters |-> i <= n, by |-> f.alias]
      BY <1>3, <3>1, Zenon
    <3>3. FrameTodo(f)[i] = [text |-> w, letters |-> TRUE, by |-> f.alias]
      <4>1. (i <= n) = TRUE
        BY <3>1
      <4> QED BY <3>2, <4>1, Zenon
    <3> QED BY <3>3
  <2> QED BY <2>3, <2>4
<1> QED BY <1>6, <1>7, <1>8

Piles(f, s, n) == f = [i \in 0..n |-> IF i = 0 THEN << >> ELSE FrameTodo(s[i]) \o f[i - 1]]

LEMMA PilesUpTo == \A n \in Nat : \A s : \E f : Piles(f, s, n)
<1> TAKE n \in Nat
<1> TAKE s
<1> DEFINE Bad == {m \in 0..n : ~ \E f : Piles(f, s, m)}
<1>1. ASSUME Bad # {} PROVE FALSE
  <2>1. PICK m \in Bad : \A k \in Bad : m <= k
    <3>1. Bad \in SUBSET Nat
      OBVIOUS
    <3> HIDE DEF Bad
    <3> QED BY <1>1, <3>1, LeastNat
  <2>2. m # 0
    <3> DEFINE g == [i \in 0..0 |-> << >>]
    <3>1. g = [i \in 0..0 |-> IF i = 0 THEN << >> ELSE FrameTodo(s[i]) \o g[i - 1]]
      OBVIOUS
    <3> HIDE DEF g
    <3>2. Piles(g, s, 0)
      BY <3>1 DEF Piles
    <3> QED BY <3>2
  <2>3. m \in Nat \ {0} /\ m - 1 \in 0..n /\ m - 1 \notin Bad
    BY <2>1, <2>2
  <2>4. PICK f : Piles(f, s, m - 1)
    BY <2>3
  <2> DEFINE g == [i \in 0..m |-> IF i < m THEN f[i] ELSE FrameTodo(s[i]) \o f[i - 1]]
  <2>5. \A i \in 0..m : g[i] = IF i = 0 THEN << >> ELSE FrameTodo(s[i]) \o g[i - 1]
    <3>1. \A i \in 0..(m - 1) : f[i] = IF i = 0 THEN << >> ELSE FrameTodo(s[i]) \o f[i - 1]
      BY <2>3, <2>4 DEF Piles
    <3> HIDE DEF Bad
    <3> TAKE i \in 0..m
    <3>2. i # 0 => i - 1 \in 0..m /\ i - 1 < m
      BY <2>3
    <3>3. i # 0 => g[i - 1] = f[i - 1]
      BY <3>2
    <3>4. CASE i < m
      <4>1. i \in 0..(m - 1) /\ g[i] = f[i]
        BY <2>3, <3>4
      <4> QED BY <3>1, <3>3, <4>1
    <3>5. CASE i = m
      BY <2>3, <3>3, <3>5
    <3> QED BY <2>3, <3>4, <3>5
  <2>6. g = [i \in 0..m |-> IF i = 0 THEN << >> ELSE FrameTodo(s[i]) \o g[i - 1]]
    <3>1. g = [i \in 0..m |-> g[i]]
      OBVIOUS
    <3> HIDE DEF g
    <3> QED BY <2>5, <3>1
  <2> HIDE DEF g
  <2>7. Piles(g, s, m)
    BY <2>6 DEF Piles
  <2> QED BY <2>1, <2>7
<1>2. n \in 0..n
  OBVIOUS
<1> QED BY <1>1, <1>2

Alike(s, r, n) == \A i \in 1..n : s[i] \in Frames /\ r[i] = s[i]

\* What is piled of the same frames is the same.
LEMMA PilesAgree ==
    ASSUME NEW n \in Nat, NEW m \in Nat, m >= n, NEW s, NEW r,
           Alike(s, r, n), NEW f, NEW g, Piles(f, s, n), Piles(g, r, m)
    PROVE  \A i \in 0..n : f[i] \in Seq(Items) /\ f[i] = g[i]
<1> DEFINE Bad == {k \in 0..n : ~(f[k] \in Seq(Items) /\ f[k] = g[k])}
<1>1. ASSUME Bad # {} PROVE FALSE
  <2>1. PICK k \in Bad : \A j \in Bad : k <= j
    <3>1. Bad \in SUBSET Nat
      OBVIOUS
    <3> HIDE DEF Bad
    <3> QED BY <1>1, <3>1, LeastNat
  <2>2. k \in 0..n /\ k \in 0..m
    OBVIOUS
  <2>3. /\ f[k] = IF k = 0 THEN << >> ELSE FrameTodo(s[k]) \o f[k - 1]
        /\ g[k] = IF k = 0 THEN << >> ELSE FrameTodo(r[k]) \o g[k - 1]
    <3> HIDE DEF Bad
    <3> QED BY <2>2 DEF Piles
  <2>4. CASE k = 0
    BY <2>3, <2>4, EmptySeq
  <2>5. CASE k # 0
    <3>1. k - 1 \in 0..n /\ k - 1 \notin Bad /\ k \in 1..n
      BY <2>1, <2>5
    <3>2. f[k - 1] \in Seq(Items) /\ f[k - 1] = g[k - 1] /\ s[k] \in Frames /\ r[k] = s[k]
      BY <3>1 DEF Alike
    <3>3. FrameTodo(s[k]) \in Seq(Items)
      BY <3>2, FrameTodoTyped
    <3>4. FrameTodo(s[k]) \o f[k - 1] \in Seq(Items)
      BY <3>2, <3>3, ConcatProperties
    <3> QED BY <2>1, <2>3, <2>5, <3>2, <3>4
  <2> QED BY <2>4, <2>5
<1> QED BY <1>1

LEMMA StackTodoPiles ==
    ASSUME NEW s \in Seq(Frames)
    PROVE  \E f : Piles(f, s, Len(s)) /\ StackTodo(s) = f[Len(s)]
<1>1. \E f : Piles(f, s, Len(s))
  BY PilesUpTo, LenProperties
<1>2. StackTodo(s) = (CHOOSE f : Piles(f, s, Len(s)))[Len(s)]
  BY DEF StackTodo, Piles
<1> QED BY <1>1, <1>2

\* The stack without its top.
Lower(s) == SubSeq(s, 1, Len(s) - 1)

LEMMA Lowered ==
    ASSUME NEW s \in Seq(Frames), NEW k \in 0..Len(s)
    PROVE  /\ SubSeq(s, 1, k) \in Seq(Frames) /\ Len(SubSeq(s, 1, k)) = k
           /\ \A i \in 1..k : SubSeq(s, 1, k)[i] = s[i]
<1>1. \A i \in 1..k : s[i] \in Frames
  BY ElementOfSeq, LenProperties
<1>2. Len(s) \in Nat
  BY LenProperties
<1> QED BY <1>1, <1>2, SubSeqProperties

LEMMA StackTodoTop ==
    ASSUME NEW s \in Seq(Frames)
    PROVE  /\ StackTodo(s) \in Seq(Items)
           /\ s = << >> => StackTodo(s) = << >>
           /\ s # << >> => StackTodo(s) = FrameTodo(s[Len(s)]) \o StackTodo(Lower(s))
<1>1. PICK f : Piles(f, s, Len(s)) /\ StackTodo(s) = f[Len(s)]
  BY StackTodoPiles
<1>2. Len(s) \in Nat /\ \A i \in 1..Len(s) : s[i] \in Frames
  BY ElementOfSeq, LenProperties
<1> DEFINE n == Len(s)
<1>3. n \in 0..n /\ n >= n /\ Alike(s, s, n)
  BY <1>2 DEF Alike
<1>4. StackTodo(s) \in Seq(Items)
  BY <1>1, <1>2, <1>3, PilesAgree
<1>5. f[n] = IF n = 0 THEN << >> ELSE FrameTodo(s[n]) \o f[n - 1]
  <2> HIDE DEF n
  <2> QED BY <1>1, <1>3 DEF Piles, n
<1>6. ASSUME s # << >>
      PROVE  StackTodo(s) = FrameTodo(s[n]) \o StackTodo(Lower(s))
  <2> DEFINE m == n - 1
  <2>1. n # 0 /\ m \in Nat /\ m \in 0..n /\ m <= n
    BY <1>2, <1>6, EmptySeq
  <2>2. Lower(s) \in Seq(Frames) /\ Len(Lower(s)) = m /\ \A i \in 1..m : Lower(s)[i] = s[i]
    BY <2>1, Lowered DEF Lower
  <2>3. PICK g : Piles(g, Lower(s), m) /\ StackTodo(Lower(s)) = g[m]
    BY <2>2, StackTodoPiles
  <2>4. \A i \in 1..m : Lower(s)[i] \in Frames /\ s[i] = Lower(s)[i]
    BY <1>2, <2>1, <2>2
  <2>5. Piles(f, s, n) /\ n \in Nat /\ n >= m
    BY <1>1, <1>2
  <2> HIDE DEF m, n
  <2>6. m \in 0..m
    BY <2>1
  <2>7. \A i \in 0..m : g[i] = f[i]
    <3> DEFINE low == Lower(s)
    <3>1. Piles(g, low, m) /\ Alike(low, s, m)
      BY <2>3, <2>4 DEF Alike
    <3>2. m \in Nat /\ n \in Nat /\ n >= m /\ Piles(f, s, n)
      BY <2>1, <2>5
    <3> HIDE DEF low
    <3> QED BY <3>1, <3>2, PilesAgree
  <2> QED BY <1>1, <1>5, <2>1, <2>3, <2>6, <2>7 DEF m, n
<1>7. s = << >> => n = 0
  BY EmptySeq
<1> QED BY <1>1, <1>4, <1>5, <1>6, <1>7

\* The words of a vector that are left, without its letters.
Rest(f) ==
    [i \in 1..(Len(f.argv) - f.next + 1) |-> Item(f.argv[f.next + i - 1], FALSE, f.alias)]

LEMMA RestTyped ==
    ASSUME NEW f \in Frames
    PROVE  /\ Rest(f) \in Seq(Items)
           /\ Len(Rest(f)) = Len(f.argv) - f.next + 1
           /\ \A i \in 1..Len(Rest(f)) : Rest(f)[i] = Item(f.argv[f.next + i - 1], FALSE, f.alias)
<1> DEFINE m == Len(f.argv) - f.next + 1
<1>1. /\ f.argv \in Seq(String) /\ Len(f.argv) \in Nat /\ f.next \in Nat \ {0} /\ f.next <= Len(f.argv) + 1
      /\ f.alias \in DOMAIN Alias \cup {NULL}
  BY DEF Frames, Argv, String
<1>2. m \in Nat
  BY <1>1
<1>3. \A i \in 1..m : Item(f.argv[f.next + i - 1], FALSE, f.alias) \in Items
  <2> TAKE i \in 1..m
  <2>1. f.next + i - 1 \in 1..Len(f.argv)
    BY <1>1
  <2>2. f.argv[f.next + i - 1] \in String
    BY <1>1, <2>1, ElementOfSeq
  <2> QED BY <1>1, <2>2 DEF Item, Items
<1>4. Rest(f) = [i \in 1..m |-> Item(f.argv[f.next + i - 1], FALSE, f.alias)]
  BY DEF Rest
<1> HIDE DEF m
<1>5. Rest(f) \in [1..m -> Items]
  BY <1>3, <1>4
<1>6. Rest(f) \in Seq(Items) /\ Len(Rest(f)) = m
  BY <1>2, <1>5, SeqDef
<1> QED BY <1>4, <1>6 DEF m

\* A frame is letters, if there are some, and words.
LEMMA FrameTodoParts ==
    ASSUME NEW f \in Frames
    PROVE  FrameTodo(f) = IF f.chars = NULL THEN Rest(f)
                          ELSE <<Item(f.chars, TRUE, f.alias)>> \o Rest(f)
<1> DEFINE n == IF f.chars = NULL THEN 0 ELSE 1
           m == Len(f.argv) - f.next + 1
           w(i) == IF i <= n THEN f.chars ELSE f.argv[f.next + i - n - 1]
<1>1. FrameTodo(f) = [i \in 1..(n + Len(f.argv) - f.next + 1) |->
                         [text |-> w(i), letters |-> i <= n, by |-> f.alias]]
  BY DEF FrameTodo
<1>2. Len(f.argv) \in Nat /\ f.next \in Nat \ {0} /\ m \in Nat
  BY DEF Frames, Argv, String
<1>3. Rest(f) \in Seq(Items) /\ Len(Rest(f)) = m
      /\ \A i \in 1..m : Rest(f)[i] = Item(f.argv[f.next + i - 1], FALSE, f.alias)
  BY RestTyped
<1>4. FrameTodo(f) \in Seq(Items)
  BY FrameTodoTyped
<1>5. CASE f.chars = NULL
  <2>1. FrameTodo(f) = [i \in 1..m |-> [text |-> w(i), letters |-> i <= n, by |-> f.alias]] /\ n = 0
    BY <1>1, <1>2, <1>5
  <2>2. ASSUME NEW i \in 1..m PROVE FrameTodo(f)[i] = Item(f.argv[f.next + i - 1], FALSE, f.alias)
    <3>1. FrameTodo(f)[i] = [text |-> w(i), letters |-> i <= n, by |-> f.alias]
      BY <2>1, Zenon
    <3>2. (i <= n) = FALSE /\ w(i) = f.argv[f.next + i - 1]
      BY <1>2, <2>1
    <3> HIDE DEF n, w
    <3> QED BY <3>1, <3>2, Zenon DEF Item
  <2>3. DOMAIN FrameTodo(f) = 1..m
    BY <2>1
  <2> HIDE DEF m, w, n
  <2>4. Len(FrameTodo(f)) = m
    BY <1>2, <1>4, <2>3, LenProperties
  <2>5. FrameTodo(f) = Rest(f)
    BY <1>3, <1>4, <2>2, <2>4, SeqEqual
  <2> QED BY <1>5, <2>5
<1>6. CASE f.chars # NULL
  <2> DEFINE e == Item(f.chars, TRUE, f.alias)
             q == <<e>> \o Rest(f)
  <2>1. FrameTodo(f) = [i \in 1..(m + 1) |-> [text |-> w(i), letters |-> i <= n, by |-> f.alias]] /\ n = 1
    <3>1. n + Len(f.argv) - f.next + 1 = m + 1
      BY <1>2, <1>6
    <3>2. n = 1
      BY <1>6
    <3> HIDE DEF m, n
    <3> QED BY <1>1, <3>1, <3>2
  <2>2. e \in Items
    BY DEF Item, Items, Frames
  <2>3. <<e>> \in Seq(Items) /\ Len(<<e>>) = 1 /\ <<e>>[1] = e
    <3> HIDE DEF e
    <3> QED BY <2>2
  <2>4. q \in Seq(Items) /\ Len(q) = m + 1
        /\ \A i \in 1..(m + 1) : q[i] = IF i <= 1 THEN e ELSE Rest(f)[i - 1]
    <3> HIDE DEF e, m
    <3>1. /\ q \in Seq(Items) /\ Len(q) = 1 + m
          /\ \A i \in 1..(1 + m) : q[i] = IF i <= 1 THEN <<e>>[i] ELSE Rest(f)[i - 1]
      BY <1>3, <2>3, ConcatProperties
    <3> HIDE DEF q
    <3> QED BY <1>2, <2>3, <3>1
  <2>5. ASSUME NEW i \in 1..(m + 1) PROVE FrameTodo(f)[i] = q[i]
    <3>1. FrameTodo(f)[i] = [text |-> w(i), letters |-> i <= n, by |-> f.alias]
      BY <2>1, Zenon
    <3>2. CASE i = 1
      <4>1. (i <= n) = TRUE /\ w(i) = f.chars
        BY <2>1, <3>2
      <4>2. FrameTodo(f)[i] = e
        <5> HIDE DEF n, w
        <5> QED BY <3>1, <4>1, Zenon DEF Item
      <4> HIDE DEF e, q, m
      <4> QED BY <1>2, <2>4, <3>2, <4>2
    <3>3. CASE i # 1
      <4>1. (i <= n) = FALSE /\ w(i) = f.argv[f.next + (i - 1) - 1]
        BY <1>2, <2>1, <3>3
      <4>2. FrameTodo(f)[i] = Item(f.argv[f.next + (i - 1) - 1], FALSE, f.alias)
        <5> HIDE DEF n, w
        <5> QED BY <3>1, <4>1, Zenon DEF Item
      <4> HIDE DEF e, q, m
      <4>3. i - 1 \in 1..m /\ ~(i <= 1)
        BY <1>2, <3>3
      <4>4. Rest(f)[i - 1] = Item(f.argv[f.next + (i - 1) - 1], FALSE, f.alias)
        BY <1>3, <4>3
      <4> QED BY <2>4, <4>2, <4>3, <4>4
    <3> QED BY <3>2, <3>3
  <2>6. DOMAIN FrameTodo(f) = 1..(m + 1) /\ m + 1 \in Nat
    BY <1>2, <2>1
  <2> HIDE DEF m, w, n, q
  <2>7. Len(FrameTodo(f)) = m + 1
    BY <1>4, <2>6, LenProperties
  <2>8. FrameTodo(f) = q
    BY <1>4, <2>4, <2>5, <2>7, SeqEqual
  <2> QED BY <1>6, <2>8 DEF q
<1> QED BY <1>5, <1>6

\* Words that are taken, letters that change, an argument that is kept.
LEMMA RestEdits ==
    ASSUME NEW f \in Frames
    PROVE  /\ \A cs \in String : Rest([f EXCEPT !.chars = cs]) = Rest(f)
           /\ \A arg \in String : Rest([f EXCEPT !.nextArg = arg]) = Rest(f)
           /\ HasWords(f) => Rest(f) = <<Item(f.argv[f.next], FALSE, f.alias)>> \o Rest([f EXCEPT !.next = @ + 1])
           /\ ~HasWords(f) => Rest(f) = << >>
<1>1. ASSUME NEW cs \in String
      PROVE  Rest([f EXCEPT !.chars = cs]) = Rest(f) /\ Rest([f EXCEPT !.nextArg = cs]) = Rest(f)
  BY DEF Rest, Frames
<1>2. ASSUME HasWords(f)
      PROVE  Rest(f) = <<Item(f.argv[f.next], FALSE, f.alias)>> \o Rest([f EXCEPT !.next = @ + 1])
  <2> DEFINE g == [f EXCEPT !.next = @ + 1]
             e == Item(f.argv[f.next], FALSE, f.alias)
             m == Len(f.argv) - f.next + 1
             q == <<e>> \o Rest(g)
  <2>1. /\ Len(f.argv) \in Nat /\ f.next \in Nat \ {0} /\ f.alias \in DOMAIN Alias \cup {NULL}
        /\ f.next <= Len(f.argv)
    BY <1>2 DEF Frames, Argv, String, HasWords
  <2>2. g \in Frames /\ f.argv[f.next] \in String
    BY <1>2, FrameEdits, NullTyped
  <2>3. g.argv = f.argv /\ g.next = f.next + 1 /\ g.alias = f.alias
    BY DEF Frames
  <2>4. e \in Items
    BY <2>1, <2>2 DEF Item, Items
  <2>5. m \in Nat \ {0} /\ Len(g.argv) - g.next + 1 = m - 1
    BY <2>1, <2>3
  <2>6. Rest(f) \in Seq(Items) /\ Len(Rest(f)) = m
        /\ \A i \in 1..m : Rest(f)[i] = Item(f.argv[f.next + i - 1], FALSE, f.alias)
    BY RestTyped
  <2>7. Rest(g) \in Seq(Items) /\ Len(Rest(g)) = m - 1
        /\ \A i \in 1..(m - 1) : Rest(g)[i] = Item(f.argv[f.next + 1 + i - 1], FALSE, f.alias)
    <3> HIDE DEF g, m
    <3> QED BY <2>2, <2>3, <2>5, RestTyped
  <2> HIDE DEF g, e, m
  <2>8. <<e>> \in Seq(Items) /\ Len(<<e>>) = 1 /\ <<e>>[1] = e
    BY <2>4
  <2>9. /\ q \in Seq(Items) /\ Len(q) = 1 + (m - 1)
        /\ \A i \in 1..(1 + (m - 1)) : q[i] = IF i <= 1 THEN <<e>>[i] ELSE Rest(g)[i - 1]
    BY <2>7, <2>8, ConcatProperties
  <2> HIDE DEF q
  <2>10. ASSUME NEW i \in 1..m PROVE Rest(f)[i] = q[i]
    <3>1. i \in 1..(1 + (m - 1)) /\ Rest(f)[i] = Item(f.argv[f.next + i - 1], FALSE, f.alias)
      <4>1. 1 + (m - 1) = m
        BY <2>5
      <4> QED BY <2>6, <4>1
    <3>2. CASE i = 1
      <4>1. f.next + i - 1 = f.next
        BY <2>1, <3>2
      <4>2. Rest(f)[i] = e
        BY <3>1, <4>1 DEF e
      <4>3. q[i] = e
        BY <2>8, <2>9, <3>1, <3>2
      <4> QED BY <4>2, <4>3
    <3>3. CASE i # 1
      <4>1. i - 1 \in 1..(m - 1) /\ ~(i <= 1) /\ f.next + 1 + (i - 1) - 1 = f.next + i - 1
        BY <2>1, <2>5, <3>3
      <4>2. Rest(g)[i - 1] = Item(f.argv[f.next + 1 + (i - 1) - 1], FALSE, f.alias)
        BY <2>7, <4>1
      <4> QED BY <2>9, <3>1, <4>1, <4>2
    <3> QED BY <3>2, <3>3
  <2>11. Len(q) = m
    BY <2>5, <2>9
  <2>12. Rest(f) = q
    BY <2>6, <2>9, <2>10, <2>11, SeqEqual
  <2> QED BY <2>12 DEF q, e, g
<1>3. ASSUME ~HasWords(f) PROVE Rest(f) = << >>
  <2>1. Len(Rest(f)) = 0 /\ Rest(f) \in Seq(Items)
    <3>1. Len(f.argv) \in Nat /\ f.next \in Nat /\ f.next = Len(f.argv) + 1
      BY <1>3 DEF Frames, Argv, String, HasWords
    <3>2. Len(Rest(f)) = Len(f.argv) - f.next + 1 /\ Rest(f) \in Seq(Items)
      BY RestTyped
    <3> QED BY <3>1, <3>2
  <2> QED BY <2>1, EmptySeq
<1> QED BY <1>1, <1>2, <1>3

-----------------------------------------------------------------------------
(* What is left to read of a stack *)

\* Behind the letters of the top.
Left(s) == Rest(s[Len(s)]) \o StackTodo(Lower(s))

LEMMA LowerTyped ==
    ASSUME NEW s \in Stacks
    PROVE  Lower(s) \in Seq(Frames) /\ StackTodo(Lower(s)) \in Seq(Items)
<1>1. s \in Seq(Frames) /\ Len(s) - 1 \in 0..Len(s)
  BY StackProperties
<1>2. Lower(s) \in Seq(Frames)
  BY <1>1, Lowered DEF Lower
<1> QED BY <1>2, StackTodoTop

LEMMA LowerSame ==
    ASSUME NEW s \in Stacks, NEW t \in Stacks, Len(t) = Len(s),
           \A i \in 1..(Len(s) - 1) : t[i] = s[i]
    PROVE  Lower(t) = Lower(s)
<1> DEFINE m == Len(s) - 1
<1>1. s \in Seq(Frames) /\ m \in 0..Len(s) /\ t \in Seq(Frames) /\ m \in 0..Len(t) /\ Len(t) - 1 = m
  BY StackProperties
<1>2. \A i \in 1..m : t[i] = s[i]
  OBVIOUS
<1>3. Lower(s) = SubSeq(s, 1, m) /\ Lower(t) = SubSeq(t, 1, m)
  BY <1>1 DEF Lower
<1> HIDE DEF m
<1>4. /\ SubSeq(s, 1, m) \in Seq(Frames) /\ Len(SubSeq(s, 1, m)) = m
      /\ \A i \in 1..m : SubSeq(s, 1, m)[i] = s[i]
  BY <1>1, Lowered
<1>5. /\ SubSeq(t, 1, m) \in Seq(Frames) /\ Len(SubSeq(t, 1, m)) = m
      /\ \A i \in 1..m : SubSeq(t, 1, m)[i] = t[i]
  BY <1>1, Lowered
<1>6. SubSeq(s, 1, m) = SubSeq(t, 1, m)
  BY <1>2, <1>4, <1>5, SeqEqual
<1> QED BY <1>3, <1>6

LEMMA LeftTyped ==
    ASSUME NEW s \in Stacks
    PROVE  /\ Left(s) \in Seq(Items)
           /\ StackTodo(s) = IF s[Len(s)].chars = NULL THEN Left(s)
                             ELSE <<Item(s[Len(s)].chars, TRUE, s[Len(s)].alias)>> \o Left(s)
<1> DEFINE f == s[Len(s)]
           e == Item(f.chars, TRUE, f.alias)
           low == StackTodo(Lower(s))
<1>1. f \in Frames /\ s \in Seq(Frames) /\ s # << >>
  BY StackProperties DEF Stacks
<1>2. low \in Seq(Items)
  BY LowerTyped
<1>3. Rest(f) \in Seq(Items)
  BY <1>1, RestTyped
<1>4. StackTodo(s) = FrameTodo(f) \o low
  BY <1>1, StackTodoTop
<1>5. e \in Items
  BY <1>1 DEF Item, Items, Frames
<1>6. FrameTodo(f) = IF f.chars = NULL THEN Rest(f) ELSE <<e>> \o Rest(f)
  BY <1>1, FrameTodoParts
<1>7. Left(s) = Rest(f) \o low
  BY DEF Left
<1> HIDE DEF f, low, e
<1>8. Left(s) \in Seq(Items)
  BY <1>2, <1>3, <1>7, ConcatProperties
<1>9. <<e>> \in Seq(Items)
  BY <1>5
<1>10. (<<e>> \o Rest(f)) \o low = <<e>> \o (Rest(f) \o low)
  BY <1>2, <1>3, <1>9, ConcatAssociative
<1> QED BY <1>4, <1>6, <1>7, <1>8, <1>10 DEF f, e

\* A stack whose top alone is another.
LEMMA LeftEdits ==
    ASSUME NEW s \in Stacks, NEW g \in Frames
    PROVE  LET t == [s EXCEPT ![Len(s)] = g]
           IN  /\ t \in Stacks /\ Len(t) = Len(s) /\ t[Len(t)] = g
               /\ Left(t) = Rest(g) \o StackTodo(Lower(s))
<1> DEFINE t == [s EXCEPT ![Len(s)] = g]
<1>1. /\ t \in Stacks /\ Len(t) = Len(s)
      /\ \A i \in 1..Len(s) : t[i] = IF i = Len(s) THEN g ELSE s[i]
  BY NewTop
<1> HIDE DEF t
<1>2. Len(s) \in Nat \ {0}
  BY StackProperties
<1>3. t[Len(t)] = g /\ \A i \in 1..(Len(s) - 1) : t[i] = s[i]
  BY <1>1, <1>2
<1>4. Lower(t) = Lower(s)
  BY <1>1, <1>3, LowerSame
<1> QED BY <1>1, <1>3, <1>4 DEF Left, t

LEMMA LeftOfChars ==
    ASSUME NEW s \in Stacks, NEW cs \in String
    PROVE  /\ Left(Chars(s, cs)) = Left(s)
           /\ Chars(s, cs)[Len(s)].chars = cs
           /\ Chars(s, cs)[Len(s)].alias = s[Len(s)].alias
           /\ HasWords(Chars(s, cs)[Len(s)]) <=> HasWords(s[Len(s)])
<1> DEFINE f == s[Len(s)]
           g == [f EXCEPT !.chars = cs]
<1>1. f \in Frames
  BY StackProperties
<1>2. g \in Frames /\ Rest(g) = Rest(f) /\ g.chars = cs /\ g.alias = f.alias /\ (HasWords(g) <=> HasWords(f))
  <2> HIDE DEF f
  <2>1. g \in Frames /\ Rest(g) = Rest(f)
    BY <1>1, FrameEdits, RestEdits
  <2> QED BY <1>1, <2>1 DEF Frames, HasWords
<1>3. Chars(s, cs) = [s EXCEPT ![Len(s)] = g]
  BY DEF Chars
<1> HIDE DEF g
<1>4. Left(Chars(s, cs)) = Rest(g) \o StackTodo(Lower(s)) /\ Chars(s, cs)[Len(s)] = g
  BY <1>2, <1>3, LeftEdits
<1> QED BY <1>2, <1>4 DEF Left

LEMMA LeftOfArg ==
    ASSUME NEW s \in Stacks, NEW arg \in String
    PROVE  LET t == [s EXCEPT ![Len(s)].nextArg = arg]
           IN  /\ t \in Stacks /\ Len(t) = Len(s)
               /\ t[Len(t)] = [s[Len(s)] EXCEPT !.nextArg = arg]
               /\ Left(t) = Left(s)
               /\ StackTodo(t) = StackTodo(s)
<1> DEFINE f == s[Len(s)]
           g == [f EXCEPT !.nextArg = arg]
           t == [s EXCEPT ![Len(s)] = g]
<1>1. f \in Frames
  BY StackProperties
<1>2. g \in Frames /\ Rest(g) = Rest(f) /\ g.chars = f.chars /\ g.alias = f.alias
  <2> HIDE DEF f
  <2>1. g \in Frames /\ Rest(g) = Rest(f)
    BY <1>1, FrameEdits, RestEdits
  <2> QED BY <1>1, <2>1 DEF Frames
<1>3. [s EXCEPT ![Len(s)].nextArg = arg] = t
  OBVIOUS
<1>4. t \in Stacks /\ Len(t) = Len(s) /\ t[Len(t)] = g /\ Left(t) = Left(s)
  <2> HIDE DEF g
  <2>1. t \in Stacks /\ Len(t) = Len(s) /\ t[Len(t)] = g /\ Left(t) = Rest(g) \o StackTodo(Lower(s))
    BY <1>2, LeftEdits
  <2> QED BY <1>2, <2>1 DEF Left
<1>5. StackTodo(t) = StackTodo(s)
  <2> HIDE DEF t, g
  <2>1. StackTodo(t) = IF g.chars = NULL THEN Left(t) ELSE <<Item(g.chars, TRUE, g.alias)>> \o Left(t)
    BY <1>4, LeftTyped
  <2>2. StackTodo(s) = IF f.chars = NULL THEN Left(s) ELSE <<Item(f.chars, TRUE, f.alias)>> \o Left(s)
    BY LeftTyped
  <2> QED BY <1>2, <1>4, <2>1, <2>2
<1> HIDE DEF t
<1> QED BY <1>3, <1>4, <1>5

\* The next word is taken.
LEMMA LeftOfTaken ==
    ASSUME NEW s \in Stacks, HasWords(s[Len(s)])
    PROVE  LET f == s[Len(s)]
               t == [s EXCEPT ![Len(s)].next = @ + 1]
           IN  /\ t \in Stacks /\ Len(t) = Len(s)
               /\ t[Len(t)] = [f EXCEPT !.next = @ + 1]
               /\ Left(s) = <<Item(f.argv[f.next], FALSE, f.alias)>> \o Left(t)
               /\ Item(f.argv[f.next], FALSE, f.alias) \in Items
<1> DEFINE f == s[Len(s)]
           g == [f EXCEPT !.next = @ + 1]
           t == [s EXCEPT ![Len(s)] = g]
           e == Item(f.argv[f.next], FALSE, f.alias)
           low == StackTodo(Lower(s))
<1>1. f \in Frames
  BY StackProperties
<1>2. g \in Frames /\ f.argv[f.next] \in String /\ Rest(f) = <<e>> \o Rest(g)
  <2> HIDE DEF f
  <2>0. HasWords(f)
    BY DEF f
  <2> QED BY <1>1, <2>0, FrameEdits, RestEdits, NullTyped
<1>3. e \in Items
  BY <1>1, <1>2 DEF Item, Items, Frames
<1>4. [s EXCEPT ![Len(s)].next = @ + 1] = t
  OBVIOUS
<1>5. low \in Seq(Items) /\ Rest(g) \in Seq(Items)
  <2>1. low \in Seq(Items)
    BY LowerTyped
  <2> HIDE DEF g, low
  <2> QED BY <1>2, <2>1, RestTyped
<1>6. t \in Stacks /\ Len(t) = Len(s) /\ t[Len(t)] = g /\ Left(t) = Rest(g) \o low
  <2> HIDE DEF g
  <2> QED BY <1>2, LeftEdits
<1>7. Left(s) = Rest(f) \o low
  BY DEF Left
<1> HIDE DEF t, g, low
<1>8. Left(s) = <<e>> \o Left(t)
  <2> HIDE DEF e, f
  <2>1. <<e>> \in Seq(Items)
    BY <1>3
  <2>2. (<<e>> \o Rest(g)) \o low = <<e>> \o (Rest(g) \o low)
    BY <1>5, <2>1, ConcatAssociative
  <2> QED BY <1>2, <1>6, <1>7, <2>2
<1> QED BY <1>3, <1>4, <1>6, <1>8 DEF g

LEMMA StackTodoPushed ==
    ASSUME NEW s \in Stacks, NEW f \in Frames
    PROVE  StackTodo(Append(s, f)) = FrameTodo(f) \o StackTodo(s)
<1> DEFINE t == Append(s, f)
<1>1. /\ t \in Stacks /\ Len(t) = Len(s) + 1
      /\ \A i \in 1..(Len(s) + 1) : t[i] = IF i <= Len(s) THEN s[i] ELSE f
  BY Pushed
<1> HIDE DEF t
<1>2. Len(s) \in Nat \ {0} /\ s \in Seq(Frames) /\ t \in Seq(Frames) /\ t # << >>
  BY <1>1, StackProperties DEF Stacks
<1>3. t[Len(t)] = f /\ \A i \in 1..Len(s) : t[i] = s[i]
  BY <1>1, <1>2
<1>4. Lower(t) = s
  <2>1. Lower(t) = SubSeq(t, 1, Len(s)) /\ Len(s) \in 0..Len(t)
    BY <1>1, <1>2 DEF Lower
  <2>2. /\ SubSeq(t, 1, Len(s)) \in Seq(Frames) /\ Len(SubSeq(t, 1, Len(s))) = Len(s)
        /\ \A i \in 1..Len(s) : SubSeq(t, 1, Len(s))[i] = t[i]
    BY <1>2, <2>1, Lowered
  <2> QED BY <1>2, <1>3, <2>1, <2>2, SeqEqual
<1> QED BY <1>2, <1>3, <1>4, StackTodoTop DEF t

LEMMA LowerPart ==
    ASSUME NEW s \in Seq(Frames), NEW j \in 1..Len(s)
    PROVE  StackTodo(SubSeq(s, 1, j)) = FrameTodo(s[j]) \o StackTodo(SubSeq(s, 1, j - 1))
<1> DEFINE t == SubSeq(s, 1, j)
           m == j - 1
<1>1. Len(s) \in Nat /\ j \in Nat \ {0} /\ j \in 0..Len(s) /\ m \in 0..Len(s) /\ m \in 0..j
  BY LenProperties
<1>2. t \in Seq(Frames) /\ Len(t) = j /\ \A i \in 1..j : t[i] = s[i]
  BY <1>1, Lowered
<1> HIDE DEF t
<1>3. t # << >> /\ t[Len(t)] = s[j]
  BY <1>1, <1>2, EmptySeq
<1>4. Lower(t) = SubSeq(t, 1, m)
  BY <1>2 DEF Lower
<1>5. SubSeq(t, 1, m) = SubSeq(s, 1, m)
  <2>1. \A i \in 1..m : i \in 1..j
    BY <1>1
  <2> HIDE DEF m
  <2>2. /\ SubSeq(s, 1, m) \in Seq(Frames) /\ Len(SubSeq(s, 1, m)) = m
        /\ \A i \in 1..m : SubSeq(s, 1, m)[i] = s[i]
    BY <1>1, Lowered
  <2>3. /\ SubSeq(t, 1, m) \in Seq(Frames) /\ Len(SubSeq(t, 1, m)) = m
        /\ \A i \in 1..m : SubSeq(t, 1, m)[i] = t[i]
    BY <1>1, <1>2, Lowered
  <2>4. \A i \in 1..m : SubSeq(t, 1, m)[i] = SubSeq(s, 1, m)[i]
    BY <1>2, <2>1, <2>2, <2>3
  <2> QED BY <2>2, <2>3, <2>4, SeqEqual
<1>6. StackTodo(t) = FrameTodo(t[Len(t)]) \o StackTodo(Lower(t))
  BY <1>2, <1>3, StackTodoTop
<1> QED BY <1>3, <1>4, <1>5, <1>6 DEF t

\* Vectors of which there is nothing left do not count.
LEMMA StackTodoUnwound ==
    ASSUME NEW s \in Stacks, NEW k \in 1..Len(s),
           \A i \in (k + 1)..Len(s) : ~HasWords(s[i]) /\ s[i].chars = NULL
    PROVE  StackTodo(SubSeq(s, 1, k)) = StackTodo(s)
<1> DEFINE Same(j) == StackTodo(SubSeq(s, 1, j)) = StackTodo(SubSeq(s, 1, k))
           Bad == {j \in k..Len(s) : ~Same(j)}
<1>0. /\ Len(s) \in Nat \ {0} /\ k \in Nat \ {0} /\ s \in Seq(Frames)
      /\ \A i \in 1..Len(s) : s[i] \in Frames
  BY StackProperties
<1>1. ASSUME Bad # {} PROVE FALSE
  <2>1. PICK j \in Bad : \A i \in Bad : j <= i
    <3>1. Bad \in SUBSET Nat
      BY <1>0
    <3> HIDE DEF Bad
    <3> QED BY <1>1, <3>1, LeastNat
  <2>2. j # k /\ j \in k..Len(s)
    OBVIOUS
  <2>3. j \in 1..Len(s) /\ j \in (k + 1)..Len(s) /\ j - 1 \in k..Len(s) /\ j - 1 < j
    BY <1>0, <2>2
  <2>4. Same(j - 1)
    <3>1. j - 1 \notin Bad
      <4> HIDE DEF Bad
      <4> QED BY <1>0, <2>1, <2>3
    <3> QED BY <2>3, <3>1
  <2>5. FrameTodo(s[j]) = << >>
    <3>1. s[j] \in Frames /\ ~HasWords(s[j]) /\ s[j].chars = NULL
      BY <1>0, <2>3
    <3> QED BY <3>1, FrameTodoTyped
  <2>6. StackTodo(SubSeq(s, 1, j)) = FrameTodo(s[j]) \o StackTodo(SubSeq(s, 1, j - 1))
    BY <1>0, <2>3, LowerPart
  <2>7. StackTodo(SubSeq(s, 1, j - 1)) \in Seq(Items)
    <3>1. j - 1 \in 0..Len(s)
      BY <1>0, <2>3
    <3>2. SubSeq(s, 1, j - 1) \in Seq(Frames)
      BY <1>0, <3>1, Lowered
    <3> QED BY <3>2, StackTodoTop
  <2>8. StackTodo(SubSeq(s, 1, j)) = StackTodo(SubSeq(s, 1, j - 1))
    BY <2>5, <2>6, <2>7, ConcatEmptySeq
  <2> QED BY <2>1, <2>4, <2>8
<1>2. Same(Len(s))
  <2>1. Len(s) \in k..Len(s)
    BY <1>0
  <2> QED BY <1>1, <2>1
<1>3. SubSeq(s, 1, Len(s)) = s
  BY <1>0, SubSeqFull
<1> QED BY <1>2, <1>3

\* Where there are no words, letters are left alone.
LEMMA OnlyLetters ==
    ASSUME NEW s \in Stacks, \A i \in 1..Len(s) : ~HasWords(s[i])
    PROVE  \A i \in DOMAIN StackTodo(s) : StackTodo(s)[i].letters
<1> DEFINE Good(j) == \A i \in DOMAIN StackTodo(SubSeq(s, 1, j)) : StackTodo(SubSeq(s, 1, j))[i].letters
           Bad == {j \in 0..Len(s) : ~Good(j)}
<1>0. /\ Len(s) \in Nat \ {0} /\ s \in Seq(Frames)
      /\ \A i \in 1..Len(s) : s[i] \in Frames
  BY StackProperties
<1>1. ASSUME Bad # {} PROVE FALSE
  <2>1. PICK j \in Bad : \A i \in Bad : j <= i
    <3>1. Bad \in SUBSET Nat
      BY <1>0
    <3> HIDE DEF Bad
    <3> QED BY <1>1, <3>1, LeastNat
  <2>2. j \in 0..Len(s) /\ ~Good(j)
    OBVIOUS
  <2>3. j # 0
    <3>1. Good(0)
      <4>1. SubSeq(s, 1, 0) = << >>
        BY SubSeqEmpty
      <4>2. StackTodo(<< >>) = << >>
        BY EmptySeq, StackTodoTop
      <4>3. DOMAIN << >> = {}
        OBVIOUS
      <4>4. DOMAIN StackTodo(SubSeq(s, 1, 0)) = {}
        BY <4>1, <4>2, <4>3
      <4> QED BY <4>4
    <3> QED BY <2>2, <3>1
  <2>4. j \in 1..Len(s) /\ j - 1 \in 0..Len(s) /\ j - 1 < j
    BY <1>0, <2>2, <2>3
  <2>5. Good(j - 1)
    <3>1. j - 1 \notin Bad
      <4> HIDE DEF Bad
      <4> QED BY <1>0, <2>1, <2>4
    <3> QED BY <2>4, <3>1
  <2>6. s[j] \in Frames /\ FrameTodo(s[j]) \in Seq(Items)
        /\ \A i \in DOMAIN FrameTodo(s[j]) : FrameTodo(s[j])[i].letters
    <3>1. s[j] \in Frames /\ ~HasWords(s[j])
      BY <1>0, <2>4
    <3> QED BY <3>1, FrameTodoTyped
  <2>7. StackTodo(SubSeq(s, 1, j)) = FrameTodo(s[j]) \o StackTodo(SubSeq(s, 1, j - 1))
    BY <1>0, <2>4, LowerPart
  <2> DEFINE a == FrameTodo(s[j])
             b == StackTodo(SubSeq(s, 1, j - 1))
  <2>8. b \in Seq(Items)
    <3>1. SubSeq(s, 1, j - 1) \in Seq(Frames)
      BY <1>0, <2>4, Lowered
    <3> QED BY <3>1, StackTodoTop
  <2>9. \A i \in DOMAIN b : b[i].letters
    BY <2>5
  <2> HIDE DEF a, b
  <2>10. \A i \in DOMAIN (a \o b) : (a \o b)[i].letters
    <3>1. a \in Seq(Items) /\ \A i \in DOMAIN a : a[i].letters
      BY <2>6 DEF a
    <3>2. /\ Len(a) \in Nat /\ Len(b) \in Nat /\ DOMAIN a = 1..Len(a) /\ DOMAIN b = 1..Len(b)
          /\ DOMAIN (a \o b) = 1..(Len(a) + Len(b))
          /\ \A i \in 1..(Len(a) + Len(b)) : (a \o b)[i] = IF i <= Len(a) THEN a[i] ELSE b[i - Len(a)]
      BY <2>8, <3>1, ConcatProperties, LenProperties
    <3> TAKE i \in DOMAIN (a \o b)
    <3>3. CASE i <= Len(a)
      BY <3>1, <3>2, <3>3
    <3>4. CASE ~(i <= Len(a))
      <4>1. i - Len(a) \in 1..Len(b)
        BY <3>2, <3>4
      <4> QED BY <2>9, <3>2, <3>4, <4>1
    <3> QED BY <3>3, <3>4
  <2> QED BY <2>2, <2>7, <2>10 DEF a, b
<1>2. Good(Len(s))
  <2>1. Len(s) \in 0..Len(s)
    BY <1>0
  <2> QED BY <1>1, <2>1
<1>3. SubSeq(s, 1, Len(s)) = s
  BY <1>0, SubSeqFull
<1> QED BY <1>2, <1>3

-----------------------------------------------------------------------------
(* The abstract reader takes the same words and options *)

LEMMA SameWords ==
    /\ Line!NULL = NULL /\ Line!DashDash = DashDash
    /\ \A w : /\ Line!LongKey(w) = LongKey(w) /\ Line!Bare(w) = Bare(w) /\ Line!Given(w) = Given(w)
              /\ Line!FindLong(w) = FindLong(w)
              /\ Line!IsLong(w) <=> IsLong(w)
              /\ Line!IsOption(w) <=> IsOption(w)
    /\ \A c : Line!ShortKey(c) = ShortKey(c) /\ Line!FindShort(c) = FindShort(c)
    /\ \A o : Line!Argument(o) <=> Argument(o)
<1>1. Line!NULL = NULL /\ Line!DashDash = DashDash
  BY DEF Line!NULL, NULL, Line!DashDash, DashDash
<1>2. \A w : (Line!IsLong(w) <=> IsLong(w)) /\ (Line!IsOption(w) <=> IsOption(w))
  BY <1>1 DEF Line!IsLong, IsLong, Line!IsOption, IsOption
<1>3. \A w : Line!Bare(w) = Bare(w)
  BY <1>2 DEF Line!Bare, Bare
<1>4. \A w : Line!Name(w) = Name(w)
  <2> TAKE w
  <2>1. Line!Cut(w) = Cut(w)
    BY <1>3 DEF Line!Cut, Cut
  <2> QED BY <1>3, <2>1 DEF Line!Name, Name
<1>5. \A w : Line!Given(w) = Given(w)
  BY <1>3, <1>4 DEF Line!Given, Given
<1>6. \A w : Line!FindLong(w) = FindLong(w)
  BY <1>1, <1>2, <1>4 DEF Line!FindLong, FindLong
<1>7. \A w : Line!LongKey(w) = LongKey(w)
  BY <1>1, <1>3 DEF Line!LongKey, LongKey
<1>8. \A c : Line!ShortKey(c) = ShortKey(c) /\ Line!FindShort(c) = FindShort(c)
  BY DEF Line!ShortKey, ShortKey, Line!FindShort, FindShort
<1>9. \A o : Line!Argument(o) <=> Argument(o)
  BY DEF Line!Argument, Argument
<1> QED BY <1>1, <1>2, <1>3, <1>5, <1>6, <1>7, <1>8, <1>9

LEMMA SeenReadMore ==
    ASSUME TypeInv, NEW e, seen' = Append(seen, e)
    PROVE  SeenRead' = Append(SeenRead, Read(e))
<1> DEFINE n == Len(seen)
           E == {Read(seen'[i]) : i \in 1..(n + 1)}
           q == Append(SeenRead, Read(e))
<1>1. /\ n \in Nat /\ DOMAIN seen = 1..n /\ DOMAIN seen' = 1..(n + 1)
      /\ \A i \in 1..(n + 1) : seen'[i] = IF i <= n THEN seen[i] ELSE e
  BY DEF TypeInv
<1>2. SeenRead' = [i \in 1..(n + 1) |-> Read(seen'[i])]
  BY <1>1 DEF SeenRead
<1>3. SeenRead = [i \in 1..n |-> Read(seen[i])]
  BY <1>1 DEF SeenRead
<1> HIDE DEF n, q
<1>4. SeenRead \in [1..n -> E]
  <2>1. \A i \in 1..n : i \in 1..(n + 1) /\ Read(seen[i]) = Read(seen'[i])
    BY <1>1
  <2>2. \A i \in 1..n : Read(seen[i]) \in E
    BY <2>1
  <2> HIDE DEF E
  <2> QED BY <1>3, <2>2
<1>5. n + 1 \in 1..(n + 1) /\ seen'[n + 1] = e
  BY <1>1
<1>6. Read(e) \in E
  BY <1>5
<1>7. SeenRead' \in [1..(n + 1) -> E]
  BY <1>2
<1> HIDE DEF E
<1>8. SeenRead \in Seq(E) /\ Len(SeenRead) = n
  BY <1>1, <1>4, SeqDef
<1>9. SeenRead' \in Seq(E) /\ Len(SeenRead') = n + 1
  BY <1>1, <1>7, SeqDef
<1>10. q \in Seq(E) /\ Len(q) = n + 1 /\ \A i \in 1..(n + 1) : q[i] = IF i <= n THEN SeenRead[i] ELSE Read(e)
  BY <1>1, <1>6, <1>8 DEF q
<1>11. \A i \in 1..(n + 1) : SeenRead'[i] = q[i]
  <2> TAKE i \in 1..(n + 1)
  <2>1. SeenRead'[i] = Read(seen'[i]) /\ (i <= n => i \in 1..n)
    BY <1>1, <1>2
  <2>2. i <= n => SeenRead[i] = Read(seen[i])
    BY <1>3, <2>1
  <2> QED BY <1>1, <1>10, <2>1, <2>2
<1>12. SeenRead' = q
  BY <1>9, <1>10, <1>11, SeqEqual
<1> QED BY <1>12 DEF q

\* An option that is handed over is taken.
LEMMA HandOverTakes ==
    ASSUME PoptAssumption, TypeInv, pc = "call", NEW o \in Options, NEW t \in Stacks, NEW long,
           HandOver(o, t, long)
    PROVE  Line!Take(o, IF Argument(o) THEN t[Len(t)].nextArg ELSE NULL, StackTodo(t))
<1> DEFINE arg == t[Len(t)].nextArg
           fetched == o.returns /\ Argument(o)
           taken == [t EXCEPT ![Len(t)].nextArg = NULL]
           e == [option |-> o, arg |-> IF fetched \/ ~o.returns THEN arg ELSE NULL,
                 of |-> IF Argument(o) THEN long.of ELSE NULL]
<1>1. seen' = Append(seen, e) /\ UNCHANGED <<rest, leftovers>>
  BY DEF HandOver
<1>2. stack' \in {t, taken} /\ pc' \in {"app", "call"}
  BY DEF HandOver, Stops, Goes
<1>3. Read(e) = [option |-> o, arg |-> IF Argument(o) THEN arg ELSE NULL]
  <2>1. o.returns \in BOOLEAN
    BY DEF PoptAssumption
  <2>2. e.option = o /\ e.arg = IF fetched \/ ~o.returns THEN arg ELSE NULL
    OBVIOUS
  <2>3. Argument(o) => e.arg = arg
    BY <2>1, <2>2
  <2> HIDE DEF e
  <2> QED BY <2>2, <2>3 DEF Read
<1>4. SeenRead' = Append(SeenRead, Read(e))
  <2> HIDE DEF e
  <2> QED BY <1>1, SeenReadMore
<1>5. StackTodo(taken) = StackTodo(t)
  BY NullTyped, LeftOfArg
<1>6. Todo' = StackTodo(t) /\ State' = State
  <2>1. pc' \notin Ended /\ pc \in {"app", "call"}
    BY <1>2 DEF Ended
  <2>2. StackTodo(stack') = StackTodo(t)
    <3> HIDE DEF taken
    <3> QED BY <1>2, <1>5
  <2> QED BY <1>2, <2>1, <2>2 DEF Todo, State
<1> QED BY <1>1, <1>3, <1>4, <1>6 DEF Line!Take

LEMMA RefuseFails ==
    ASSUME pc = "call", NEW t, NEW how \in Ended \ {"end"}, Refuse(t, how)
    PROVE  Line!Fails
BY DEF Refuse, Stops, Ended, Line!Fails, State, Todo, SeenRead

Late(left)      == {i \in DOMAIN left : ~left[i].letters}
FirstLate(left) == CHOOSE k \in Late(left) : \A j \in Late(left) : k <= j
Without(left, i) == SubSeq(left, 1, i - 1) \o SubSeq(left, i + 1, Len(left))

\* The first word behind letters, and what is left when it is taken.
LEMMA FirstWord ==
    ASSUME NEW p \in Seq(Items), NEW w \in Items, NEW r \in Seq(Items),
           \A i \in DOMAIN p : p[i].letters, ~w.letters
    PROVE  LET left == p \o (<<w>> \o r)
           IN  /\ Late(left) # {}
               /\ left[FirstLate(left)] = w
               /\ Without(left, FirstLate(left)) = p \o r
<1> DEFINE left == p \o (<<w>> \o r)
           late == Late(left)
           n == Len(p)
           m == n + 1
<1>1. n \in Nat /\ DOMAIN p = 1..n /\ Len(r) \in Nat /\ m \in Nat
  BY LenProperties
<1>2. <<w>> \in Seq(Items) /\ Len(<<w>>) = 1 /\ <<w>>[1] = w
  OBVIOUS
<1>3. /\ <<w>> \o r \in Seq(Items) /\ Len(<<w>> \o r) = 1 + Len(r)
      /\ \A i \in 1..(1 + Len(r)) : (<<w>> \o r)[i] = IF i <= 1 THEN <<w>>[i] ELSE r[i - 1]
  BY <1>2, ConcatProperties
<1> DEFINE q == <<w>> \o r
<1>4. q \in Seq(Items) /\ Len(q) = 1 + Len(r) /\ \A i \in 1..(1 + Len(r)) : q[i] = IF i <= 1 THEN w ELSE r[i - 1]
  BY <1>2, <1>3
<1> HIDE DEF q, n, m
<1>5. /\ left \in Seq(Items) /\ Len(left) = n + Len(q)
      /\ \A i \in 1..(n + Len(q)) : left[i] = IF i <= n THEN p[i] ELSE q[i - n]
  BY <1>4, ConcatProperties DEF n, q
<1> HIDE DEF left
<1>6. Len(left) = n + 1 + Len(r) /\ DOMAIN left = 1..(n + 1 + Len(r))
  BY <1>1, <1>4, <1>5, LenProperties
<1>7. \A i \in 1..(n + 1 + Len(r)) : left[i] = IF i <= n THEN p[i] ELSE IF i = m THEN w ELSE r[i - m]
  <2> TAKE i \in 1..(n + 1 + Len(r))
  <2>1. i \in 1..(n + Len(q))
    BY <1>1, <1>4
  <2>2. CASE i <= n
    BY <1>5, <2>1, <2>2
  <2>3. CASE ~(i <= n)
    <3>1. i - n \in 1..(1 + Len(r)) /\ (i - n <= 1 <=> i = m) /\ i - n - 1 = i - m
      BY <1>1, <2>3 DEF m
    <3>2. left[i] = q[i - n]
      BY <1>5, <2>1, <2>3
    <3> QED BY <1>4, <2>3, <3>1, <3>2
  <2> QED BY <2>2, <2>3
<1>8. m \in 1..(n + 1 + Len(r)) /\ m > n
  BY <1>1 DEF m
<1>9. left[m] = w /\ m \in late
  <2>1. left[m] = w
    BY <1>1, <1>7, <1>8
  <2> QED BY <1>6, <1>8, <2>1 DEF Late
<1>10. \A j \in late : m <= j
  <2> TAKE j \in late
  <2>1. j \in 1..(n + 1 + Len(r)) /\ ~left[j].letters
    BY <1>6 DEF Late
  <2>2. CASE j <= n
    <3>1. j \in DOMAIN p /\ left[j] = p[j]
      BY <1>1, <1>7, <2>1, <2>2
    <3> QED BY <2>1, <3>1
  <2> HIDE DEF late
  <2> QED BY <1>1, <2>1, <2>2 DEF m
<1>11. late \in SUBSET Nat
  BY <1>6 DEF Late
<1> DEFINE i == FirstLate(left)
<1>12. i = m
  <2>1. i \in late /\ \A j \in late : i <= j
    <3> HIDE DEF late
    <3>1. \E k \in late : \A j \in late : k <= j
      BY <1>9, <1>10
    <3> QED BY <3>1 DEF FirstLate, late
  <2> HIDE DEF late
  <2> HIDE DEF i
  <2>2. i <= m /\ m <= i /\ i \in Nat
    BY <1>9, <1>10, <1>11, <2>1
  <2> QED BY <1>1, <2>2
<1>13. SubSeq(left, 1, n) = p
  <2>1. \A j \in 1..n : left[j] \in Items /\ left[j] = p[j]
    <3> TAKE j \in 1..n
    <3>1. j \in 1..(n + 1 + Len(r)) /\ j <= n
      BY <1>1
    <3>2. left[j] = p[j]
      BY <1>7, <3>1
    <3> QED BY <3>2, ElementOfSeq DEF n
  <2>2. /\ SubSeq(left, 1, n) \in Seq(Items) /\ Len(SubSeq(left, 1, n)) = n
        /\ \A j \in 1..n : SubSeq(left, 1, n)[j] = left[j]
    BY <1>1, <2>1, SubSeqProperties
  <2> QED BY <2>1, <2>2, SeqEqual DEF n
<1>14. SubSeq(left, m + 1, Len(left)) = r
  <2> DEFINE k == Len(left)
             a == m + 1
  <2>1. k \in Nat /\ a \in Nat /\ k - a + 1 = Len(r) /\ k = n + 1 + Len(r) /\ a = n + 2
    BY <1>1, <1>6 DEF m
  <2>2. \A j \in a..k : left[j] \in Items
    <3> TAKE j \in a..k
    <3>1. j \in 1..Len(left)
      BY <1>1, <2>1
    <3> QED BY <1>5, <3>1, ElementOfSeq
  <2> HIDE DEF k, a
  <2>3. /\ SubSeq(left, a, k) \in Seq(Items) /\ Len(SubSeq(left, a, k)) = IF a <= k THEN k - a + 1 ELSE 0
        /\ \A j \in 1..(k - a + 1) : SubSeq(left, a, k)[j] = left[a + j - 1]
    BY <2>1, <2>2, SubSeqProperties
  <2>4. Len(SubSeq(left, a, k)) = Len(r)
    BY <1>1, <2>1, <2>3
  <2>5. \A j \in 1..Len(r) : SubSeq(left, a, k)[j] = r[j]
    <3> TAKE j \in 1..Len(r)
    <3> DEFINE x == a + j - 1
    <3>1. x \in 1..(n + 1 + Len(r)) /\ ~(x <= n) /\ x # m /\ x - m = j
      BY <1>1, <2>1 DEF m
    <3>2. left[x] = r[j]
      <4> HIDE DEF x
      <4> QED BY <1>7, <3>1
    <3> QED BY <2>1, <2>3, <3>2
  <2>6. SubSeq(left, a, k) = r
    BY <2>3, <2>4, <2>5, SeqEqual
  <2> QED BY <2>6 DEF a, k
<1> HIDE DEF i
<1>15. i - 1 = n
  BY <1>1, <1>12 DEF m
<1>16. /\ late # {}
       /\ left[i] = w
       /\ Without(left, i) = p \o r
  <2> HIDE DEF late
  <2> QED BY <1>9, <1>12, <1>13, <1>14, <1>15 DEF Without
<1> QED BY <1>16 DEF late, i, left

-----------------------------------------------------------------------------
(* Options *)

LEMMA LettersOf ==
    ASSUME NEW s \in Stacks
    PROVE  /\ Line!Letters(s[Len(s)].chars, s[Len(s)].alias) \o Left(s) = StackTodo(s)
           /\ Line!Letters(s[Len(s)].chars, s[Len(s)].alias) \in Seq(Items)
           /\ \A i \in DOMAIN Line!Letters(s[Len(s)].chars, s[Len(s)].alias) :
                 Line!Letters(s[Len(s)].chars, s[Len(s)].alias)[i].letters
<1> DEFINE f == s[Len(s)]
           e == Item(f.chars, TRUE, f.alias)
           ls == Line!Letters(f.chars, f.alias)
<1>1. f \in Frames
  BY StackProperties
<1>2. e \in Items /\ e.letters
  BY <1>1 DEF Item, Items, Frames
<1>3. ls = IF f.chars = NULL THEN << >> ELSE <<e>>
  BY SameWords DEF Line!Letters, Item
<1>4. Left(s) \in Seq(Items) /\ StackTodo(s) = IF f.chars = NULL THEN Left(s) ELSE <<e>> \o Left(s)
  BY LeftTyped
<1> HIDE DEF e, ls
<1>5. ls \o Left(s) = StackTodo(s)
  BY <1>3, <1>4, ConcatEmptySeq
<1>6. ls \in Seq(Items)
  BY <1>2, <1>3, EmptySeq
<1>7. \A i \in DOMAIN ls : ls[i].letters
  <2>1. DOMAIN << >> = {} /\ DOMAIN <<e>> = {1} /\ <<e>>[1] = e
    OBVIOUS
  <2> QED BY <1>2, <1>3, <2>1
<1> QED BY <1>5, <1>6, <1>7 DEF ls

\* The argument is the next word, of whichever vector it is.
LEMMA FromNextReads ==
    ASSUME NEW s \in Stacks, HasWords(UnwindForArg(s)[Len(UnwindForArg(s))]),
           s[Len(s)].chars = NULL, ~Sunk(s)
    PROVE  \E p \in Seq(Items), w \in Items, r \in Seq(Items) :
              /\ \A i \in DOMAIN p : p[i].letters
              /\ ~w.letters
              /\ Left(s) = p \o (<<w>> \o r)
              /\ StackTodo(FromNext(s)) = p \o r
              /\ FromNext(s)[Len(FromNext(s))].nextArg = w.text
<1> DEFINE u == UnwindForArg(s)
           f == u[Len(u)]
           arg == f.argv[f.next]
           g == [f EXCEPT !.nextArg = arg]
           v == [u EXCEPT ![Len(u)].nextArg = arg]
           t == [v EXCEPT ![Len(v)].next = @ + 1]
           w == Item(g.argv[g.next], FALSE, g.alias)
           p == Line!Letters(f.chars, f.alias)
<1>1. u \in Stacks /\ f \in Frames /\ HasWords(f) /\ StackTodo(u) = StackTodo(s)
  <2>1. PICK k \in 1..Len(s) : u = SubSeq(s, 1, k) /\ \A i \in (k + 1)..Len(s) : ~HasWords(s[i])
    BY UnwindForArgProperties
  <2>2. u \in Stacks /\ Len(u) = k
    BY <2>1, PartOfStack
  <2>3. \A i \in (k + 1)..Len(s) : ~HasWords(s[i]) /\ s[i].chars = NULL
    <3> HIDE DEF u
    <3>1. ~ \E i \in (Len(u) + 1)..Len(s) : s[i].chars # NULL
      BY DEF Sunk, u
    <3> QED BY <2>1, <2>2, <3>1
  <2>4. StackTodo(SubSeq(s, 1, k)) = StackTodo(s)
    BY <2>3, StackTodoUnwound
  <2>5. f \in Frames
    <3> HIDE DEF u
    <3> QED BY <2>2, StackProperties
  <2>6. HasWords(f)
    OBVIOUS
  <2> HIDE DEF u, f
  <2> QED BY <2>1, <2>2, <2>4, <2>5, <2>6
<1>2. FromNext(s) = t
  <2>1. Len(v) = Len(u)
    <3> HIDE DEF u, arg
    <3> QED OBVIOUS
  <2> QED BY <2>1 DEF FromNext
<1> HIDE DEF u
<1>3. arg \in String
  <2> HIDE DEF f
  <2> QED BY <1>1, FrameEdits, NullTyped
<1>4. v \in Stacks /\ Len(v) = Len(u) /\ v[Len(v)] = g /\ Left(v) = Left(u)
  <2> HIDE DEF arg
  <2> QED BY <1>1, <1>3, LeftOfArg
<1>5. /\ HasWords(g) /\ g.chars = f.chars /\ g.alias = f.alias /\ g.nextArg = arg
      /\ g.argv = f.argv /\ g.next = f.next /\ g \in Frames
  <2>1. g \in Frames
    <3> HIDE DEF f, arg
    <3> QED BY <1>1, <1>3, FrameEdits
  <2> HIDE DEF f, arg
  <2> QED BY <1>1, <2>1 DEF Frames, HasWords
<1> HIDE DEF v, g
<1>6. t \in Stacks /\ t[Len(t)] = [g EXCEPT !.next = @ + 1] /\ Left(v) = <<w>> \o Left(t) /\ w \in Items
  BY <1>4, <1>5, LeftOfTaken
<1>7. t[Len(t)].chars = f.chars /\ t[Len(t)].alias = f.alias /\ t[Len(t)].nextArg = arg
  <2> HIDE DEF t, f, arg
  <2> QED BY <1>5, <1>6 DEF Frames
<1>8. w.text = arg /\ ~w.letters
  <2>1. w.text = g.argv[g.next] /\ w.letters = FALSE
    BY DEF Item
  <2> HIDE DEF w
  <2> QED BY <1>5, <2>1
<1> HIDE DEF t, w
<1>9. StackTodo(u) = p \o Left(u) /\ p \in Seq(Items) /\ \A i \in DOMAIN p : p[i].letters
  BY <1>1, LettersOf
<1>10. StackTodo(t) = p \o Left(t)
  <2> HIDE DEF f
  <2> QED BY <1>6, <1>7, LettersOf
<1>11. Left(t) \in Seq(Items)
  BY <1>6, LeftTyped
<1>12. Left(s) = StackTodo(s)
  BY LeftTyped
<1>13. /\ \A i \in DOMAIN p : p[i].letters
       /\ ~w.letters
       /\ Left(s) = p \o (<<w>> \o Left(t))
       /\ StackTodo(FromNext(s)) = p \o Left(t)
       /\ FromNext(s)[Len(FromNext(s))].nextArg = w.text
  <2> HIDE DEF p, arg, f
  <2> QED BY <1>1, <1>2, <1>4, <1>6, <1>7, <1>8, <1>9, <1>10, <1>12
<1> HIDE DEF p
<1> QED BY <1>6, <1>9, <1>11, <1>13

LEMMA OptionReads ==
    ASSUME PoptAssumption, TypeInv, pc = "call",
           NEW o \in Options, NEW s \in Stacks, NEW long \in LongArgs, NEW given,
           Option(o, s, long),
           Argument(o) => long.value = given,
           Argument(o) /\ given = NULL /\ s[Len(s)].chars = NULL => ~Sunk(s)
    PROVE  Line!Option(o, given, s[Len(s)].chars, s[Len(s)].alias, Left(s))
<1> DEFINE chars == s[Len(s)].chars
           by    == s[Len(s)].alias
           left  == Left(s)
           late  == Late(left)
           i     == FirstLate(left)
           Arg(arg, behind) == IF o.takes = "int" /\ arg \notin Numbers THEN Line!Fails
                               ELSE Line!Take(o, arg, behind)
           t     == WithArgument(s, long)
<1>0. Line!NULL = NULL /\ (Line!Argument(o) <=> Argument(o))
  BY SameWords
<1>1. Line!Option(o, given, chars, by, left) =
         (IF ~Argument(o) THEN Line!Take(o, NULL, Line!Letters(chars, by) \o left)
          ELSE IF given # NULL THEN Arg(given, Line!Letters(chars, by) \o left)
          ELSE IF chars # NULL THEN Arg(chars, left)
          ELSE IF late = {} THEN Line!Fails
          ELSE Arg(left[i].text, Without(left, i)))
  BY <1>0 DEF Line!Option, Late, FirstLate, Without
<1>2. Line!Letters(chars, by) \o left = StackTodo(s)
  BY LettersOf
<1>3. s[Len(s)] \in Frames /\ chars \in String /\ long.value \in String
  BY StackProperties DEF Frames, LongArgs
<1>4. CASE ~Argument(o)
  <2>1. HandOver(o, s, long)
    BY <1>4 DEF Option
  <2>2. Line!Take(o, NULL, StackTodo(s))
    BY <1>4, <2>1, HandOverTakes
  <2> QED BY <1>1, <1>2, <1>4, <2>2
\* With an argument, given in one of the ways.
<1>5. ASSUME Argument(o), ~Lacks(s, long), t \in Stacks, NEW arg, t[Len(t)].nextArg = arg
      PROVE  Arg(arg, StackTodo(t))
  <2>1. IF o.takes = "int" /\ arg \notin Numbers THEN Refuse(t, "badnumber") ELSE HandOver(o, t, long)
    BY <1>5 DEF Option, Lacks
  <2> HIDE DEF t
  <2>2. CASE o.takes = "int" /\ arg \notin Numbers
    BY <2>1, <2>2, RefuseFails DEF Ended
  <2>3. CASE ~(o.takes = "int" /\ arg \notin Numbers)
    <3>1. HandOver(o, t, long)
      BY <2>1, <2>3
    <3>2. Line!Take(o, arg, StackTodo(t))
      BY <1>5, <3>1, HandOverTakes
    <3> QED BY <2>3, <3>2
  <2> QED BY <2>2, <2>3
<1>6. CASE Argument(o) /\ given # NULL
  <2>1. t = [s EXCEPT ![Len(s)].nextArg = given] /\ given \in String /\ ~Lacks(s, long)
    BY <1>3, <1>6 DEF WithArgument, Lacks
  <2> HIDE DEF t
  <2>2. t \in Stacks /\ t[Len(t)] = [s[Len(s)] EXCEPT !.nextArg = given] /\ StackTodo(t) = StackTodo(s)
    BY <2>1, LeftOfArg
  <2>3. t[Len(t)].nextArg = given
    BY <1>3, <2>2 DEF Frames
  <2>4. Arg(given, StackTodo(s))
    <3> HIDE DEF Arg
    <3> QED BY <1>5, <1>6, <2>1, <2>2, <2>3
  <2> HIDE DEF Arg
  <2> QED BY <1>1, <1>2, <1>6, <2>4
<1>7. CASE Argument(o) /\ given = NULL /\ chars # NULL
  <2> DEFINE v == [s EXCEPT ![Len(s)].nextArg = chars]
  <2>1. t = Chars(v, NULL) /\ ~Lacks(s, long)
    BY <1>7 DEF WithArgument, Lacks
  <2> HIDE DEF t
  <2>2. v \in Stacks /\ Len(v) = Len(s) /\ v[Len(v)] = [s[Len(s)] EXCEPT !.nextArg = chars] /\ Left(v) = left
    <3> HIDE DEF chars
    <3> QED BY <1>3, LeftOfArg
  <2> HIDE DEF v
  <2>3. /\ t \in Stacks /\ Len(t) = Len(v) /\ t[Len(v)] = [v[Len(v)] EXCEPT !.chars = NULL]
        /\ Left(t) = Left(v) /\ t[Len(v)].chars = NULL
    BY <2>1, <2>2, CharsTyped, LeftOfChars, NullTyped
  <2>4. t[Len(t)].nextArg = chars
    <3> HIDE DEF chars
    <3> QED BY <1>3, <2>2, <2>3 DEF Frames
  <2>5. StackTodo(t) = left
    BY <2>2, <2>3, LeftTyped
  <2>6. Arg(chars, left)
    <3> HIDE DEF Arg, chars
    <3> QED BY <1>5, <1>7, <2>1, <2>3, <2>4, <2>5
  <2> HIDE DEF Arg
  <2> QED BY <1>1, <1>7, <2>6
<1>8. CASE Argument(o) /\ given = NULL /\ chars = NULL
  <2>1. CASE Lacks(s, long)
    <3>1. Refuse(UnwindForArg(s), "noarg")
      BY <1>8, <2>1 DEF Option, Lacks
    <3>2. Line!Fails
      BY <3>1, RefuseFails DEF Ended
    <3>3. late = {}
      <4>1. \A j \in 1..Len(s) : ~HasWords(s[j])
        <5>1. PICK k \in 1..Len(s) : /\ UnwindForArg(s) = SubSeq(s, 1, k)
                                     /\ k = 1 \/ HasWords(s[k])
                                     /\ \A j \in (k + 1)..Len(s) : ~HasWords(s[j])
          BY UnwindForArgProperties
        <5>2. Len(SubSeq(s, 1, k)) = k /\ SubSeq(s, 1, k)[k] = s[k] /\ k \in Nat /\ Len(s) \in Nat
          <6>1. k \in 1..k
            BY StackProperties
          <6> QED BY <6>1, PartOfStack, StackProperties
        <5>3. ~HasWords(s[k]) /\ k = 1
          BY <2>1, <5>1, <5>2 DEF Lacks
        <5> QED BY <5>1, <5>2, <5>3
      <4>2. StackTodo(s) = left
        BY <1>8, LeftTyped
      <4> QED BY <4>1, <4>2, OnlyLetters DEF Late
    <3> HIDE DEF late
    <3> QED BY <1>1, <1>8, <3>2, <3>3
  <2>2. CASE ~Lacks(s, long)
    <3>1. HasWords(UnwindForArg(s)[Len(UnwindForArg(s))]) /\ ~Sunk(s) /\ t = FromNext(s)
      BY <1>8, <2>2 DEF Lacks, WithArgument
    <3>2. t \in Stacks
      BY <2>2, WithArgumentTyped
    <3> HIDE DEF t
    <3>3. PICK p \in Seq(Items), w \in Items, r \in Seq(Items) :
              /\ \A j \in DOMAIN p : p[j].letters
              /\ ~w.letters
              /\ left = p \o (<<w>> \o r)
              /\ StackTodo(t) = p \o r
              /\ t[Len(t)].nextArg = w.text
      BY <1>8, <3>1, FromNextReads
    <3>4. /\ late # {}
          /\ left[i] = w
          /\ Without(left, i) = p \o r
      <4> DEFINE q == p \o (<<w>> \o r)
      <4> HIDE DEF left
      <4>1. /\ Late(q) # {}
            /\ q[FirstLate(q)] = w
            /\ Without(q, FirstLate(q)) = p \o r
        BY <3>3, FirstWord
      <4>2. left = q
        BY <3>3
      <4> HIDE DEF q
      <4> QED BY <4>1, <4>2
    <3>5. Arg(left[i].text, Without(left, i))
      <4>1. t[Len(t)].nextArg = left[i].text
        BY <3>3, <3>4
      <4>2. StackTodo(t) = Without(left, i)
        BY <3>3, <3>4
      <4> HIDE DEF Arg, i, left
      <4> QED BY <1>5, <1>8, <2>2, <3>2, <4>1, <4>2
    <3> HIDE DEF Arg, late, i, left
    <3> QED BY <1>1, <1>8, <3>4, <3>5 DEF left
  <2> QED BY <2>1, <2>2
<1> QED BY <1>4, <1>6, <1>7, <1>8

-----------------------------------------------------------------------------
(* Letters and words *)

LEMMA FrameWords ==
    ASSUME NEW argv \in Argv, NEW key \in DOMAIN Alias \cup {NULL},
           Frame(argv, key) \in Frames
    PROVE  FrameTodo(Frame(argv, key)) = Line!Words(argv, key) /\ Line!Words(argv, key) \in Seq(Items)
<1> DEFINE f == Frame(argv, key)
<1>1. f.argv = argv /\ f.next = 1 /\ f.chars = NULL /\ f.alias = key
  BY DEF Frame
<1> HIDE DEF f
<1>2. Len(argv) \in Nat /\ DOMAIN argv = 1..Len(argv)
  BY DEF Argv
<1>3. Rest(f) = [i \in 1..(Len(argv) - 1 + 1) |-> Item(argv[1 + i - 1], FALSE, key)]
  BY <1>1 DEF Rest
<1>4. Len(argv) - 1 + 1 = Len(argv) /\ \A i \in 1..Len(argv) : 1 + i - 1 = i
  BY <1>2
<1>5. Rest(f) = [i \in 1..Len(argv) |-> Item(argv[i], FALSE, key)]
  BY <1>3, <1>4
<1>6. Line!Words(argv, key) = [i \in 1..Len(argv) |-> Item(argv[i], FALSE, key)]
  BY <1>2 DEF Line!Words, Item
<1>7. f \in Frames
  BY DEF f
<1>8. FrameTodo(f) = Rest(f) /\ FrameTodo(f) \in Seq(Items)
  BY <1>1, <1>7, FrameTodoParts, FrameTodoTyped
<1> QED BY <1>5, <1>6, <1>8 DEF f

\* The call goes on, and nothing is seen.
LEMMA GoesOn ==
    ASSUME pc = "call", NEW t, Goes(t), UNCHANGED seen
    PROVE  Todo' = StackTodo(t) /\ State' = State /\ SeenRead' = SeenRead /\ State = "reading"
BY DEF Goes, Todo, State, SeenRead, Ended

\* An alias that expands puts its text before the letters behind it.
LEMMA HandleAliasReads ==
    ASSUME AliasesTyped, pc = "call", NEW key \in DOMAIN Alias, NEW s \in Stacks, NEW cs \in String,
           HandleAlias(key, s, cs), Len(s) # Depth
    PROVE  /\ Todo' = Line!Words(Alias[key], key) \o (Line!Letters(cs, s[Len(s)].alias) \o Left(s))
           /\ Todo' = (Line!Words(Alias[key], key) \o Line!Letters(cs, s[Len(s)].alias)) \o Left(s)
           /\ UNCHANGED <<rest, leftovers, SeenRead, State>>
<1> DEFINE t == Chars(s, cs)
           f == Frame(Alias[key], key)
           ls == Line!Letters(cs, s[Len(s)].alias)
           ws == Line!Words(Alias[key], key)
<1>1. Goes(Append(t, f)) /\ UNCHANGED <<rest, leftovers, seen>>
  BY DEF HandleAlias
<1>2. Alias[key] \in Argv /\ f \in Frames
  BY NewFrame DEF AliasesTyped
<1>3. t \in Stacks /\ Len(t) = Len(s) /\ Left(t) = Left(s) /\ t[Len(s)].chars = cs
      /\ t[Len(s)].alias = s[Len(s)].alias
  BY CharsTyped, LeftOfChars
<1> HIDE DEF t
<1>4. ls \o Left(s) = StackTodo(t) /\ ls \in Seq(Items) /\ Left(s) \in Seq(Items)
  <2>1. Line!Letters(t[Len(t)].chars, t[Len(t)].alias) \o Left(t) = StackTodo(t)
        /\ Line!Letters(t[Len(t)].chars, t[Len(t)].alias) \in Seq(Items)
    BY <1>3, LettersOf
  <2> QED BY <1>3, <2>1, LeftTyped
<1>5. FrameTodo(f) = ws /\ ws \in Seq(Items)
  BY <1>2, FrameWords
<1> HIDE DEF f, ls, ws
<1>6. StackTodo(Append(t, f)) = ws \o (ls \o Left(s))
  BY <1>2, <1>3, <1>4, <1>5, StackTodoPushed
<1>7. (ws \o ls) \o Left(s) = ws \o (ls \o Left(s))
  <2> DEFINE l == Left(s)
  <2>1. l \in Seq(Items) /\ ws \in Seq(Items) /\ ls \in Seq(Items)
    BY <1>4, <1>5
  <2> HIDE DEF l
  <2>2. (ws \o ls) \o l = ws \o (ls \o l)
    BY <2>1, ConcatAssociative
  <2> QED BY <2>2 DEF l
<1>8. Todo' = StackTodo(Append(t, f)) /\ State' = State /\ SeenRead' = SeenRead
  BY <1>1, GoesOn
<1> QED BY <1>1, <1>6, <1>7, <1>8 DEF ls, ws

LEMMA NoLetters ==
    ASSUME NEW s \in Stacks
    PROVE  /\ StackTodo(Chars(s, NULL)) = Left(s)
           /\ s[Len(s)].chars = NULL => Chars(s, NULL) = s
<1> DEFINE f == s[Len(s)]
           g == [f EXCEPT !.chars = NULL]
<1>1. Chars(s, NULL) \in Stacks /\ Len(Chars(s, NULL)) = Len(s)
  BY CharsTyped, NullTyped
<1>2. Left(Chars(s, NULL)) = Left(s) /\ Chars(s, NULL)[Len(s)].chars = NULL
  BY LeftOfChars, NullTyped
<1>3. StackTodo(Chars(s, NULL)) = Left(s)
  BY <1>1, <1>2, LeftTyped
<1>4. ASSUME f.chars = NULL PROVE Chars(s, NULL) = s
  <2>1. f \in Frames /\ s \in Seq(Frames)
    BY StackProperties
  <2>2. g = f
    <3> HIDE DEF f
    <3> QED BY <1>4, <2>1 DEF Frames
  <2>3. Chars(s, NULL) = [s EXCEPT ![Len(s)] = s[Len(s)]]
    BY <2>2 DEF Chars
  <2>4. s \in [1..Len(s) -> Frames]
    BY <2>1, LenProperties
  <2> QED BY <2>3, <2>4
<1> QED BY <1>3, <1>4

AnOption(S) == CHOOSE o \in S : TRUE

\* Nothing of what Departs lists is the case of some letters.
LetterStays(cs, s, long) ==
    /\ Expands(ShortKey(Head(cs))) => Len(s) # Depth
    /\ ShortKey(Head(cs)) \in Exec => Tail(cs) = NULL
    /\ ~Expands(ShortKey(Head(cs))) /\ ShortKey(Head(cs)) \notin Exec =>
          \A o \in FindShort(Head(cs)) : Argument(o) =>
              long.value = NULL /\ (Tail(cs) = NULL => ~Sunk(Chars(s, NULL)))

LEMMA LetterReads ==
    ASSUME PoptAssumption, AliasesTyped, TypeInv, pc = "call",
           NEW s \in Stacks, s[Len(s)].alias = Top.alias,
           NEW cs \in String, cs # NULL, NEW long \in LongArgs, Letter(cs, s, long),
           LetterStays(cs, s, long)
    PROVE  Line!Letter(cs, Top.alias, Left(s))
<1> DEFINE c == Head(cs)
           key == ShortKey(c)
           by == Top.alias
           t == Chars(s, NULL)
           o == CHOOSE o \in FindShort(c) : TRUE
<1>1. c \in STRING /\ Tail(cs) \in String
  BY LettersTyped
<1>2. /\ t \in Stacks /\ Len(t) = Len(s) /\ Left(t) = Left(s) /\ t[Len(t)].alias = by
      /\ StackTodo(t) = Left(s)
  <2>1. t \in Stacks /\ Len(t) = Len(s)
    BY CharsTyped, NullTyped
  <2>2. Left(t) = Left(s) /\ t[Len(s)].alias = s[Len(s)].alias
    BY LeftOfChars, NullTyped
  <2>3. StackTodo(t) = Left(s)
    BY NoLetters
  <2> HIDE DEF t
  <2> QED BY <2>1, <2>2, <2>3
<1>3. Line!Letter(cs, by, Left(s)) =
         (IF key \in DOMAIN Alias /\ key # by
          THEN /\ Todo' = (Line!Words(Alias[key], key) \o Line!Letters(Tail(cs), by)) \o Left(s)
               /\ UNCHANGED <<rest, leftovers, SeenRead, State>>
          ELSE IF key \in Exec
          THEN Todo' = Line!Letters(Tail(cs), by) \o Left(s) /\ UNCHANGED <<rest, leftovers, SeenRead, State>>
          ELSE IF FindShort(c) = {} THEN Line!Fails
          ELSE Line!Option(o, NULL, Tail(cs), by, Left(s)))
  <2>1. Line!Letter(cs, by, Left(s)) =
         (IF Line!ShortKey(c) \in DOMAIN Alias /\ Line!ShortKey(c) # by
          THEN /\ Todo' = (Line!Words(Alias[Line!ShortKey(c)], Line!ShortKey(c)) \o Line!Letters(Tail(cs), by)) \o Left(s)
               /\ UNCHANGED <<rest, leftovers, SeenRead, State>>
          ELSE IF Line!ShortKey(c) \in Exec
          THEN Todo' = Line!Letters(Tail(cs), by) \o Left(s) /\ UNCHANGED <<rest, leftovers, SeenRead, State>>
          ELSE IF Line!FindShort(c) = {} THEN Line!Fails
          ELSE Line!Option(AnOption(Line!FindShort(c)), Line!NULL, Tail(cs), by, Left(s)))
    BY DEF Line!Letter, AnOption
  <2>2. /\ Line!ShortKey(c) = key /\ Line!FindShort(c) = FindShort(c) /\ Line!NULL = NULL
        /\ AnOption(FindShort(c)) = o
    BY SameWords DEF AnOption
  <2> HIDE DEF key, c, by, o
  <2> QED BY <2>1, <2>2
<1>4. Expands(key) <=> (key \in DOMAIN Alias /\ key # by)
  BY DEF Expands
<1> HIDE DEF key
<1>5. CASE Expands(key)
  <2>1. HandleAlias(key, t, Tail(cs)) /\ Len(t) # Depth /\ key \in DOMAIN Alias
    BY <1>2, <1>4, <1>5 DEF Letter, key, LetterStays
  <2> HIDE DEF t
  <2>2. /\ Todo' = (Line!Words(Alias[key], key) \o Line!Letters(Tail(cs), by)) \o Left(s)
        /\ UNCHANGED <<rest, leftovers, SeenRead, State>>
    BY <1>1, <1>2, <2>1, HandleAliasReads
  <2> QED BY <1>3, <1>4, <1>5, <2>2
<1>6. CASE ~Expands(key) /\ key \in Exec
  <2>1. HandleExec(t) /\ Tail(cs) = NULL
    BY <1>6 DEF Letter, key, LetterStays
  <2>2. Todo' = StackTodo(t) /\ UNCHANGED <<rest, leftovers, SeenRead, State>>
    BY <2>1, GoesOn DEF HandleExec
  <2>3. Line!Letters(Tail(cs), by) \o Left(s) = Left(s)
    <3>1. Line!Letters(Tail(cs), by) = << >>
      BY <2>1, SameWords DEF Line!Letters
    <3> QED BY <3>1, LeftTyped, ConcatEmptySeq
  <2> QED BY <1>2, <1>3, <1>4, <1>6, <2>2, <2>3
<1>7. CASE ~Expands(key) /\ key \notin Exec /\ FindShort(c) = {}
  <2>1. Refuse(t, "badopt")
    BY <1>7 DEF Letter, key
  <2>2. Line!Fails
    BY <2>1, RefuseFails DEF Ended
  <2> QED BY <1>3, <1>4, <1>7, <2>2
<1>8. CASE ~Expands(key) /\ key \notin Exec /\ FindShort(c) # {}
  <2> DEFINE r == Chars(s, Tail(cs))
  <2>1. Option(o, r, long)
    BY <1>8 DEF Letter, key
  <2>2. o \in Options /\ o \in FindShort(c)
    BY <1>8 DEF FindShort
  <2>3. r \in Stacks /\ Len(r) = Len(s) /\ Left(r) = Left(s) /\ r[Len(r)].alias = by /\ r[Len(r)].chars = Tail(cs)
    <3>1. r \in Stacks /\ Len(r) = Len(s)
      BY <1>1, CharsTyped
    <3>2. Left(r) = Left(s) /\ r[Len(s)].alias = s[Len(s)].alias /\ r[Len(s)].chars = Tail(cs)
      BY <1>1, LeftOfChars
    <3> HIDE DEF r
    <3> QED BY <3>1, <3>2
  <2>4. Tail(cs) = NULL => r = t
    OBVIOUS
  <2>5. Argument(o) => long.value = NULL /\ (Tail(cs) = NULL => ~Sunk(r))
    <3> HIDE DEF o, r, t
    <3> QED BY <1>8, <2>2, <2>4 DEF t, key, LetterStays
  <2> HIDE DEF o, r, t
  <2>6. Line!Option(o, NULL, r[Len(r)].chars, r[Len(r)].alias, Left(r))
    BY <2>1, <2>2, <2>3, <2>5, OptionReads
  <2>7. Line!Option(o, NULL, Tail(cs), by, Left(s))
    BY <2>3, <2>6
  <2> QED BY <1>3, <1>4, <1>8, <2>7
<1> QED BY <1>5, <1>6, <1>7, <1>8

-----------------------------------------------------------------------------
(* Turns *)

LEMMA NextItem ==
    ASSUME State = "reading", NEW w \in String, NEW by \in DOMAIN Alias \cup {NULL}, NEW r \in Seq(Items)
    PROVE  /\ Todo = <<Item(w, TRUE, by)>> \o r /\ Line!Letter(w, by, r) => Line!Step
           /\ Todo = <<Item(w, FALSE, by)>> \o r /\ Line!Word(w, by, r) => Line!Step
<1>1. ASSUME NEW is \in BOOLEAN, Todo = <<Item(w, is, by)>> \o r
      PROVE  Todo # << >> /\ Head(Todo) = Item(w, is, by) /\ Tail(Todo) = r
  <2> DEFINE e == Item(w, is, by)
  <2>1. e \in Items
    BY DEF Item, Items
  <2> HIDE DEF e
  <2>2. <<e>> \in Seq(Items) /\ Len(<<e>>) = 1 /\ <<e>>[1] = e
    BY <2>1
  <2> DEFINE q == <<e>> \o r
             n == Len(r)
  <2>3. /\ q \in Seq(Items) /\ Len(q) = 1 + n /\ n \in Nat
        /\ \A i \in 1..(1 + n) : q[i] = IF i <= 1 THEN <<e>>[i] ELSE r[i - 1]
    BY <2>2, ConcatProperties, LenProperties
  <2>4. Todo = q
    BY <1>1 DEF e
  <2> HIDE DEF q, n
  <2>5. q # << >> /\ Head(q) = e
    BY <2>2, <2>3
  <2>6. Tail(q) \in Seq(Items) /\ Len(Tail(q)) = n /\ \A i \in 1..n : Tail(q)[i] = q[i + 1]
    <3>1. Len(q) - 1 = n
      BY <2>3
    <3> QED BY <2>3, <2>5, <3>1, HeadTailProperties
  <2>7. \A i \in 1..n : q[i + 1] = r[i]
    BY <2>3
  <2>8. Tail(q) = r
    BY <2>6, <2>7, SeqEqual DEF n
  <2> QED BY <2>4, <2>5, <2>8 DEF e
<1>2. ASSUME Todo = <<Item(w, TRUE, by)>> \o r, Line!Letter(w, by, r) PROVE Line!Step
  <2>1. Todo # << >> /\ Head(Todo) = Item(w, TRUE, by) /\ Tail(Todo) = r
    BY <1>1, <1>2
  <2>2. Head(Todo).text = w /\ Head(Todo).letters /\ Head(Todo).by = by
    BY <2>1 DEF Item
  <2> QED BY <1>2, <2>1, <2>2 DEF Line!Step
<1>3. ASSUME Todo = <<Item(w, FALSE, by)>> \o r, Line!Word(w, by, r) PROVE Line!Step
  <2>1. Todo # << >> /\ Head(Todo) = Item(w, FALSE, by) /\ Tail(Todo) = r
    BY <1>1, <1>3
  <2>2. Head(Todo).text = w /\ ~Head(Todo).letters /\ Head(Todo).by = by
    BY <2>1 DEF Item
  <2> QED BY <1>3, <2>1, <2>2 DEF Line!Step
<1> QED BY <1>2, <1>3

LEMMA TodoOfHere ==
    ASSUME TypeInv, pc \in {"app", "call"}
    PROVE  /\ State = "reading" /\ Todo = StackTodo(stack)
           /\ Here \in Stacks /\ Top = Here[Len(Here)] /\ Top \in Frames
           /\ ReadsLetters => Todo = <<Item(Top.chars, TRUE, Top.alias)>> \o Left(Here)
           /\ ReadsWord =>
                 /\ Todo = <<Item(Text, FALSE, Top.alias)>> \o Left(Taken)
                 /\ Text \in String /\ Taken \in Stacks /\ Len(Taken) = Len(Here)
                 /\ Taken[Len(Taken)].chars = NULL /\ Taken[Len(Taken)].alias = Top.alias
                 /\ StackTodo(Taken) = Left(Taken)
           /\ ~ReadsLetters /\ ~ReadsWord => Todo = << >>
<1>1. State = "reading" /\ Todo = StackTodo(stack)
  BY DEF State, Todo, Ended
<1>2. Here \in Stacks /\ Top = Here[Len(Here)] /\ Top \in Frames
  BY HereTyped
<1>3. stack \in Stacks
  BY DEF TypeInv
<1>4. PICK k \in 1..Len(stack) :
         /\ Here = SubSeq(stack, 1, k)
         /\ k = 1 \/ HasWords(stack[k]) \/ stack[k].chars # NULL
         /\ \A i \in (k + 1)..Len(stack) : ~HasWords(stack[i]) /\ stack[i].chars = NULL
  BY <1>3, UnwindProperties DEF Here
<1>5. Todo = StackTodo(Here)
  BY <1>1, <1>3, <1>4, StackTodoUnwound
<1>6. StackTodo(Here) = IF Top.chars = NULL THEN Left(Here)
                        ELSE <<Item(Top.chars, TRUE, Top.alias)>> \o Left(Here)
  BY <1>2, LeftTyped
<1>7. ASSUME ReadsWord
      PROVE  /\ Todo = <<Item(Text, FALSE, Top.alias)>> \o Left(Taken)
             /\ Text \in String /\ Taken \in Stacks /\ Len(Taken) = Len(Here)
             /\ Taken[Len(Taken)].chars = NULL /\ Taken[Len(Taken)].alias = Top.alias
             /\ StackTodo(Taken) = Left(Taken)
  <2>1. HasWords(Top) /\ Top.chars = NULL
    BY <1>7 DEF ReadsWord, ReadsLetters
  <2>2. /\ Taken \in Stacks /\ Len(Taken) = Len(Here)
        /\ Taken[Len(Taken)] = [Top EXCEPT !.next = @ + 1]
        /\ Left(Here) = <<Item(Text, FALSE, Top.alias)>> \o Left(Taken)
    BY <1>2, <2>1, LeftOfTaken DEF Taken, Text
  <2>3. Taken[Len(Taken)].chars = NULL /\ Taken[Len(Taken)].alias = Top.alias
    BY <1>2, <2>1, <2>2 DEF Frames
  <2>4. StackTodo(Taken) = Left(Taken)
    BY <2>2, <2>3, LeftTyped
  <2>5. Text \in String
    BY <2>1, HereTyped
  <2> QED BY <1>5, <1>6, <2>1, <2>2, <2>3, <2>4, <2>5
<1>8. ASSUME ~ReadsLetters, ~ReadsWord PROVE Todo = << >>
  <2>1. Top.chars = NULL /\ ~HasWords(Top)
    BY <1>8 DEF ReadsWord, ReadsLetters
  <2>2. Len(Here) = k /\ Here[k] = stack[k]
    <3>1. k \in Nat /\ k \in 1..k
      BY <1>3, StackProperties
    <3> QED BY <1>3, <1>4, <3>1, PartOfStack
  <2>3. Len(Here) = 1
    BY <1>2, <1>4, <2>1, <2>2
  <2>4. Lower(Here) = << >>
    <3>1. Lower(Here) = SubSeq(Here, 1, 0)
      BY <2>3 DEF Lower
    <3> QED BY <3>1, SubSeqEmpty
  <2>5. StackTodo(Lower(Here)) = << >>
    BY <2>4, EmptySeq, StackTodoTop
  <2>6. Rest(Top) = << >>
    BY <1>2, <2>1, RestEdits
  <2>7. Left(Here) = << >>
    BY <1>2, <2>5, <2>6, EmptySeq, ConcatEmptySeq DEF Left
  <2> QED BY <1>5, <1>6, <2>1, <2>7
<1>9. ReadsLetters => Todo = <<Item(Top.chars, TRUE, Top.alias)>> \o Left(Here)
  BY <1>5, <1>6 DEF ReadsLetters
<1> QED BY <1>1, <1>2, <1>7, <1>8, <1>9

\* The letters in front, in a turn that does not depart.
LEMMA GroupReads ==
    ASSUME PoptAssumption, AliasesTyped, TypeInv, pc = "call", NextLetter, ~Departs
    PROVE  Line!Step
<1>1. ReadsLetters /\ Letter(Top.chars, Here, longArg) /\ longArg \in LongArgs
  BY DEF NextLetter, TypeInv
<1>2. /\ State = "reading" /\ Here \in Stacks /\ Top = Here[Len(Here)] /\ Top \in Frames
      /\ Todo = <<Item(Top.chars, TRUE, Top.alias)>> \o Left(Here)
  BY <1>1, TodoOfHere
<1>3. Top.chars # NULL /\ Top.chars \in String /\ Top.alias \in DOMAIN Alias \cup {NULL}
  BY <1>1, <1>2 DEF ReadsLetters, Frames
<1>4. /\ ~(Expands(ShortKey(Head(Top.chars))) /\ Len(Here) = Depth)
      /\ ~(ShortKey(Head(Top.chars)) \in Exec /\ Tail(Top.chars) # NULL)
      /\ ~Expands(ShortKey(Head(Top.chars))) /\ ShortKey(Head(Top.chars)) \notin Exec =>
            \A o \in FindShort(Head(Top.chars)) :
                ~(Argument(o) /\ (longArg.value # NULL \/ (Tail(Top.chars) = NULL /\ Sunk(Chars(Here, NULL)))))
  BY <1>1 DEF Departs
<1>5. Line!Letter(Top.chars, Top.alias, Left(Here))
  <2>1. LetterStays(Top.chars, Here, longArg)
    BY <1>4 DEF LetterStays
  <2> QED BY <1>1, <1>2, <1>3, <2>1, LetterReads
<1>6. Left(Here) \in Seq(Items)
  BY <1>2, LeftTyped
<1> QED BY <1>2, <1>3, <1>5, <1>6, NextItem

\* A word in front.
LEMMA WordReads ==
    ASSUME PoptAssumption, AliasesTyped, TypeInv, pc = "call", ReadsWord,
           Leftover \/ RestIsLeftover \/ AliasWord \/ ExecWord \/ PlainWord, ~Departs
    PROVE  Line!Step
<1> DEFINE by == Top.alias
           left == Left(Taken)
           key == LongKey(Text)
           o == AnOption(FindLong(Text))
<1>1. /\ State = "reading" /\ Todo = <<Item(Text, FALSE, by)>> \o left
      /\ Text \in String /\ Taken \in Stacks /\ Len(Taken) = Len(Here)
      /\ Taken[Len(Taken)].chars = NULL /\ Taken[Len(Taken)].alias = by
      /\ StackTodo(Taken) = left /\ by \in DOMAIN Alias \cup {NULL}
  BY TodoOfHere DEF Frames
<1>2. left \in Seq(Items)
  BY <1>1, LeftTyped
<1>3. Expands(key) <=> (key \in DOMAIN Alias /\ key # by)
  BY DEF Expands
<1>4. ~ReadsLetters
  BY DEF ReadsWord
<1>5. ASSUME Goes(Taken), UNCHANGED seen PROVE Todo' = left /\ UNCHANGED <<SeenRead, State>>
  <2>1. Todo' = StackTodo(Taken) /\ State' = State /\ SeenRead' = SeenRead
    BY <1>5, GoesOn
  <2> QED BY <1>1, <2>1
<1> DEFINE W == Line!Word(Text, by, left)
<1>6. W = (IF rest \/ ~IsOption(Text)
           THEN /\ leftovers' = Append(leftovers, Text)
                /\ rest' = (rest \/ Posix)
                /\ Todo' = left
                /\ UNCHANGED <<SeenRead, State>>
           ELSE IF Text = DashDash
           THEN rest' = TRUE /\ Todo' = left /\ UNCHANGED <<leftovers, SeenRead, State>>
           ELSE IF key \in DOMAIN Alias /\ key # by
           THEN Todo' = Line!Words(Alias[key], key) \o left /\ UNCHANGED <<rest, leftovers, SeenRead, State>>
           ELSE IF key \in Exec
           THEN Todo' = left /\ UNCHANGED <<rest, leftovers, SeenRead, State>>
           ELSE IF FindLong(Text) # {} THEN Line!Option(o, Given(Text), NULL, by, left)
           ELSE IF IsLong(Text) \/ Text = <<"-">> THEN Line!Fails
           ELSE Line!Letter(Bare(Text), by, left))
  <2> DEFINE w == Text
  <2>1. Line!Word(w, by, left) =
          (IF rest \/ ~Line!IsOption(w)
           THEN /\ leftovers' = Append(leftovers, w)
                /\ rest' = (rest \/ Posix)
                /\ Todo' = left
                /\ UNCHANGED <<SeenRead, State>>
           ELSE IF w = Line!DashDash
           THEN rest' = TRUE /\ Todo' = left /\ UNCHANGED <<leftovers, SeenRead, State>>
           ELSE IF Line!LongKey(w) \in DOMAIN Alias /\ Line!LongKey(w) # by
           THEN /\ Todo' = Line!Words(Alias[Line!LongKey(w)], Line!LongKey(w)) \o left
                /\ UNCHANGED <<rest, leftovers, SeenRead, State>>
           ELSE IF Line!LongKey(w) \in Exec
           THEN Todo' = left /\ UNCHANGED <<rest, leftovers, SeenRead, State>>
           ELSE IF Line!FindLong(w) # {} THEN Line!Option(AnOption(Line!FindLong(w)), Line!Given(w), Line!NULL, by, left)
           ELSE IF Line!IsLong(w) \/ w = <<"-">> THEN Line!Fails
           ELSE Line!Letter(Line!Bare(w), by, left))
    BY DEF Line!Word, AnOption
  <2>2. /\ Line!LongKey(w) = key /\ Line!FindLong(w) = FindLong(w) /\ Line!NULL = NULL
        /\ Line!DashDash = DashDash /\ Line!Given(w) = Given(w) /\ Line!Bare(w) = Bare(w)
        /\ (Line!IsOption(w) <=> IsOption(w)) /\ (Line!IsLong(w) <=> IsLong(w))
    BY SameWords
  <2> HIDE DEF w
  <2>3. w = Text
    BY DEF w
  <2> HIDE DEF left, by, key
  <2> QED BY <2>1, <2>2, <2>3
<1> HIDE DEF W
<1>7. CASE Leftover
  <2>1. /\ rest \/ ~IsOption(Text)
        /\ leftovers' = Append(leftovers, Text) /\ rest' = (rest \/ Posix)
        /\ Goes(Taken) /\ UNCHANGED seen
    BY <1>7 DEF Leftover
  <2>2. W
    BY <1>5, <1>6, <2>1
  <2> QED BY <1>1, <1>2, <2>2, NextItem DEF W
<1>8. CASE RestIsLeftover
  <2>1. ~rest /\ Text = DashDash /\ rest' = TRUE /\ Goes(Taken) /\ UNCHANGED <<leftovers, seen>>
    BY <1>8 DEF RestIsLeftover
  <2>2. IsOption(Text)
    BY <2>1 DEF IsOption, DashDash, NULL
  <2>3. W
    BY <1>5, <1>6, <2>1, <2>2
  <2> QED BY <1>1, <1>2, <2>3, NextItem DEF W
<1>9. ASSUME OptionWord PROVE ~rest /\ IsOption(Text) /\ Text # DashDash
  BY <1>9 DEF OptionWord
<1>10. CASE AliasWord
  <2>1. OptionWord /\ Expands(key) /\ HandleAlias(key, Taken, NULL)
    BY <1>10 DEF AliasWord
  <2>2. Len(Taken) # Depth
    BY <1>1, <1>4, <2>1 DEF Departs
  <2>3. key \in DOMAIN Alias
    BY <1>3, <2>1
  <2> DEFINE ws == Line!Words(Alias[key], key)
  <2>4. /\ Todo' = ws \o (Line!Letters(NULL, Taken[Len(Taken)].alias) \o Left(Taken))
        /\ UNCHANGED <<rest, leftovers, SeenRead, State>>
    <3> HIDE DEF key
    <3> QED BY <1>1, <2>1, <2>2, <2>3, HandleAliasReads, NullTyped
  <2>5. Line!Letters(NULL, Taken[Len(Taken)].alias) \o Left(Taken) = left
    <3>1. Line!Letters(NULL, Taken[Len(Taken)].alias) = << >>
      BY SameWords DEF Line!Letters
    <3> QED BY <1>2, <3>1, ConcatEmptySeq
  <2>6. W
    <3> HIDE DEF key, by, left
    <3> QED BY <1>3, <1>6, <1>9, <2>1, <2>4, <2>5
  <2> QED BY <1>1, <1>2, <2>6, NextItem DEF W
<1>11. CASE ExecWord
  <2>1. OptionWord /\ key \in Exec /\ HandleExec(Taken)
    BY <1>11 DEF ExecWord
  <2>2. key \notin DOMAIN Alias
    BY <2>1 DEF PoptAssumption
  <2>3. Goes(Taken) /\ UNCHANGED <<rest, leftovers, seen>>
    BY <2>1 DEF HandleExec
  <2>4. W
    <3> HIDE DEF key, by, left
    <3> QED BY <1>5, <1>6, <1>9, <2>1, <2>2, <2>3
  <2> QED BY <1>1, <1>2, <2>4, NextItem DEF W
<1>12. CASE PlainWord
  <2> DEFINE long == IF Given(Text) = NULL THEN longArg ELSE [value |-> Given(Text), of |-> Text]
  <2>1. /\ OptionWord /\ ~Expands(key) /\ key \notin Exec
        /\ IF FindLong(Text) # {} THEN Option(o, Taken, long)
           ELSE IF IsLong(Text) THEN Refuse(Taken, "badopt")
           ELSE Letter(Bare(Text), Taken, long)
    BY <1>12 DEF PlainWord, AnOption
  <2>2. long \in LongArgs /\ Bare(Text) \in String
    <3>1. IsOption(Text)
      BY <1>9, <2>1
    <3> QED BY <1>1, <3>1, WordTyped DEF LongArgs, TypeInv
  <2>3. long.value = IF Given(Text) = NULL THEN longArg.value ELSE Given(Text)
    OBVIOUS
  <2> HIDE DEF long
  <2>4. CASE FindLong(Text) # {}
    <3>1. o \in FindLong(Text) /\ o \in Options
      BY <2>4 DEF AnOption, FindLong
    <3>2. \A p \in FindLong(Text) :
             ~(Argument(p) /\ ((Given(Text) = NULL /\ longArg.value # NULL) \/ (Given(Text) = NULL /\ Sunk(Taken))))
      BY <1>4, <2>1, <2>4 DEF Departs
    <3> HIDE DEF o
    <3>3. Argument(o) => long.value = Given(Text) /\ (Given(Text) = NULL => ~Sunk(Taken))
      <4>1. ~(Argument(o) /\ ((Given(Text) = NULL /\ longArg.value # NULL) \/ (Given(Text) = NULL /\ Sunk(Taken))))
        BY <3>1, <3>2
      <4> QED BY <2>3, <4>1
    <3>4. Option(o, Taken, long)
      BY <2>1, <2>4
    <3>5. Line!Option(o, Given(Text), Taken[Len(Taken)].chars, Taken[Len(Taken)].alias, Left(Taken))
      BY <1>1, <2>2, <3>1, <3>3, <3>4, OptionReads
    <3>6. W
      <4> HIDE DEF key
      <4> QED BY <1>1, <1>3, <1>6, <1>9, <2>1, <2>4, <3>5
    <3> QED BY <1>1, <1>2, <3>6, NextItem DEF W
  <2>5. CASE FindLong(Text) = {} /\ IsLong(Text)
    <3>1. Refuse(Taken, "badopt")
      BY <2>1, <2>5
    <3>2. Line!Fails
      BY <3>1, RefuseFails DEF Ended
    <3>3. W
      <4> HIDE DEF key, by, left, o
      <4> QED BY <1>3, <1>6, <1>9, <2>1, <2>5, <3>2
    <3> QED BY <1>1, <1>2, <3>3, NextItem DEF W
  <2>6. CASE FindLong(Text) = {} /\ ~IsLong(Text)
    <3> DEFINE cs == Bare(Text)
    <3>1. Letter(cs, Taken, long)
      BY <2>1, <2>6
    <3>2. /\ cs # NULL
          /\ ~(Expands(ShortKey(Head(cs))) /\ Len(Here) = Depth)
          /\ ~(ShortKey(Head(cs)) \in Exec /\ Tail(cs) # NULL)
          /\ ~Expands(ShortKey(Head(cs))) /\ ShortKey(Head(cs)) \notin Exec =>
                \A p \in FindShort(Head(cs)) :
                    ~(Argument(p) /\ (long.value # NULL \/ (Tail(cs) = NULL /\ Sunk(Taken))))
      BY <1>4, <2>1, <2>3, <2>6 DEF Departs
    <3>3. Chars(Taken, NULL) = Taken
      BY <1>1, NoLetters
    <3>4. Text # <<"-">>
      <4>1. ASSUME Text = <<"-">> PROVE FALSE
        <5>1. Len(Text) = 1
          BY <4>1
        <5>2. cs = SubSeq(Text, 2, 1)
          BY <2>6, <5>1 DEF Bare
        <5>3. cs = NULL
          BY <5>2, SubSeqEmpty DEF NULL
        <5> QED BY <3>2, <5>3
      <4> QED BY <4>1
    <3> HIDE DEF cs
    <3>5. cs \in String
      BY <2>2 DEF cs
    <3>6. Line!Letter(cs, Top.alias, Left(Taken))
      <4>1. LetterStays(cs, Taken, long)
        BY <1>1, <3>2, <3>3 DEF LetterStays
      <4> QED BY <1>1, <2>2, <3>1, <3>2, <3>5, <4>1, LetterReads
    <3>7. W
      <4> HIDE DEF key, o
      <4> QED BY <1>3, <1>6, <1>9, <2>1, <2>6, <3>4, <3>6 DEF cs
    <3> QED BY <1>1, <1>2, <3>7, NextItem DEF W
  <2> QED BY <2>4, <2>5, <2>6
<1> QED BY <1>7, <1>8, <1>10, <1>11, <1>12

\* A step reads on, unless it departs.
LEMMA StepReads ==
    ASSUME PoptAssumption, LinesAssumption, TypeInv, [Next]_vars, ~Departs
    PROVE  ReadsOn
<1>0. AliasesTyped
  BY DEF PoptAssumption, AliasesTyped
<1>1. CASE Call
  <2>1. pc = "app" /\ pc' = "call" /\ UNCHANGED <<stack, rest, leftovers, seen>>
    BY <1>1 DEF Call
  <2>2. Todo' = Todo /\ State' = State /\ SeenRead' = SeenRead
    BY <2>1 DEF Todo, State, SeenRead, Ended
  <2> QED BY <2>1, <2>2 DEF ReadsOn, Line!lineVars
<1>2. CASE End
  <2>1. pc = "call" /\ ~ReadsLetters /\ ~ReadsWord /\ pc' = "end" /\ UNCHANGED <<rest, leftovers, seen>>
    BY <1>2 DEF End, Refuse, Stops
  <2>2. State = "reading" /\ Todo = << >>
    BY <2>1, TodoOfHere
  <2>3. Todo' = << >> /\ State' = "end" /\ SeenRead' = SeenRead
    BY <2>1 DEF Todo, State, SeenRead, Ended
  <2>4. Line!Step
    BY <2>1, <2>2, <2>3 DEF Line!Step
  <2> QED BY <2>4 DEF ReadsOn
<1>3. CASE Leftover \/ RestIsLeftover \/ AliasWord \/ ExecWord \/ PlainWord
  <2>1. pc = "call" /\ ReadsWord
    BY <1>3 DEF Leftover, RestIsLeftover, AliasWord, ExecWord, PlainWord, OptionWord
  <2>2. Line!Step
    BY <1>0, <1>3, <2>1, WordReads
  <2> QED BY <2>2 DEF ReadsOn
<1>4. CASE NextLetter
  <2>1. Line!Step
    BY <1>0, <1>4, GroupReads DEF NextLetter
  <2> QED BY <2>1 DEF ReadsOn
<1>5. CASE StuffArgs
  <2>1. PICK argv \in Stuffs : stack' = Append(stack, Frame(argv, NULL))
    BY <1>5 DEF StuffArgs
  <2>2. pc = "app" /\ pc' = pc /\ UNCHANGED <<rest, leftovers, seen>> /\ stack \in Stacks
    BY <1>5 DEF StuffArgs, TypeInv
  <2>3. argv \in Argv /\ Frame(argv, NULL) \in Frames
    BY NewFrame DEF LinesAssumption
  <2>4. StackTodo(stack') = Line!Words(argv, NULL) \o StackTodo(stack)
    BY <2>1, <2>2, <2>3, StackTodoPushed, FrameWords
  <2>5. State = "reading" /\ Todo = StackTodo(stack)
    BY <2>2, TodoOfHere
  <2>6. Todo' = Line!Words(argv, NULL) \o Todo /\ State' = State /\ SeenRead' = SeenRead
    BY <2>2, <2>4, <2>5 DEF Todo, State, SeenRead, Ended
  <2>7. Line!Stuff
    BY <2>2, <2>5, <2>6, SameWords DEF Line!Stuff
  <2> QED BY <2>7 DEF ReadsOn
<1>6. CASE UNCHANGED vars
  BY <1>6 DEF vars, ReadsOn, Line!lineVars, Todo, State, SeenRead
<1> QED BY <1>1, <1>2, <1>3, <1>4, <1>5, <1>6 DEF Next, Turn, Over
=============================================================================
