--------------------------- MODULE ParsingProofs ----------------------------
(* Proofs about the option parsing library (module Parsing), for any       *)
(* options and aliases, any command lines, files and help texts.           *)
EXTENDS Parsing, SequencesExt, FiniteSetTheorems, SequenceTheorems, TLAPS

-----------------------------------------------------------------------------
(* Sequences of sequences, one behind the other *)

Argv == Seq(Seq(STRING))

LEMMA FlattenedWords ==
    ASSUME NEW q \in Seq(Argv)
    PROVE  /\ FlattenSeq(q) \in Argv
           /\ FlattenSeq(<< >>) = << >>
           /\ \A t \in Argv : FlattenSeq(Append(q, t)) = FlattenSeq(q) \o t
<1>1. q \in Seq(Seq(Seq(STRING)))
  BY DEF Argv
<1>2. \A s : Config!FlattenSeq(s) = FlattenSeq(s)
  BY DEF Config!FlattenSeq, FlattenSeq
<1>3. /\ Config!FlattenSeq(q) \in Seq(Seq(STRING))
      /\ Config!FlattenSeq(<< >>) = << >>
      /\ \A t \in Seq(Seq(STRING)) : Config!FlattenSeq(Append(q, t)) = Config!FlattenSeq(q) \o t
  BY <1>1, Config!Flattened
<1> QED BY <1>2, <1>3 DEF Argv

-----------------------------------------------------------------------------
(* Reading a command line twice *)

String == Parser!String

\* What finalArgv may hold.
AsOptions == {Again!AsOption(key) : key \in Exec}
Kept      == [option : Options \cup AsOptions, arg : String]

\* The program that runs instead has no aliases.
AgainInv ==
    /\ final \in Seq(Kept)
    /\ doExec \in Exec \cup {<< >>}
    /\ first # Again!NotYet => first.by \in {"reset", "other"} /\ first.read.pc \in Again!Ended
    /\ first = Again!NotYet => stack[1].argv \in AgainLines
    /\ IF first.by = "other" THEN Again!Other!TypeInv ELSE Again!TypeInv

LEMMA AgainAssumes ==
    /\ Again!AliasesTyped /\ Again!LinesAssumption /\ Again!PoptAssumption
    /\ Again!Other!AliasesTyped /\ Again!Other!LinesAssumption
    /\ << >> \in String /\ << >> \in Parser!Argv
<1>1. Parser!PoptAssumption /\ Again!LinesAssumption
  BY ParsingAssumption
<1>2. Again!PoptAssumption
  BY <1>1 DEF Parser!PoptAssumption, Again!PoptAssumption, Parser!IsOption, Again!IsOption, Parser!NULL,
      Again!NULL, Parser!DashDash, Again!DashDash, Parser!Argv, Again!Argv
<1>3. Again!AliasesTyped
  BY <1>2 DEF Again!PoptAssumption, Again!AliasesTyped
<1>4. Again!Other!AliasesTyped
  BY DEF Again!Other!AliasesTyped
<1>5. Again!Other!LinesAssumption
  BY <1>1 DEF Again!LinesAssumption, Again!Other!LinesAssumption, Again!Argv, Again!Other!Argv
<1> QED BY <1>1, <1>2, <1>3, <1>4, <1>5, EmptySeq DEF String, Parser!String, Parser!Argv

LEMMA AgainInit == Again!TwiceInit => AgainInv
<1> SUFFICES ASSUME Again!TwiceInit PROVE AgainInv
  OBVIOUS
<1>1. PICK argv \in AgainLines : stack = <<Again!Frame(argv, Again!NULL)>>
  BY DEF Again!TwiceInit, Again!Init
<1>2. argv \in Again!Argv
  BY AgainAssumes DEF Again!LinesAssumption
<1>3. Again!Frame(argv, Again!NULL) \in Again!Frames
  BY <1>2, Again!NewFrame
<1>4. stack \in Again!Stacks
  BY <1>1, <1>3, Again!FirstStack
<1>5. stack[1].argv = argv
  BY <1>1 DEF Again!Frame
<1>6. Again!TypeInv
  BY <1>4, Again!NullTyped, EmptySeq DEF Again!TwiceInit, Again!Init, Again!TypeInv, Again!Argv
<1> QED BY <1>5, <1>6, EmptySeq DEF Again!TwiceInit, Again!Fresh, Again!NotYet, Again!NULL, AgainInv

\* A word that stands for an option, with its argument.
LEMMA OptionInWords ==
    ASSUME NEW f \in Kept
    PROVE  Again!Words(f) \in Parser!Argv
<1>1. /\ f.option.long \in Seq(STRING) /\ f.arg \in Seq(STRING)
      /\ f.option.long = << >> => f.option.short \in STRING
  <2>1. CASE f.option \in Options
    BY <2>1, ParsingAssumption DEF Kept, Parser!PoptAssumption, String, Parser!String
  <2>2. CASE f.option \in AsOptions
    <3>1. PICK key \in Exec : f.option = Again!AsOption(key)
      BY <2>2 DEF AsOptions
    <3>2. key \in Seq(STRING) /\ Len(key) >= 2 /\ key # Again!DashDash /\ Again!IsOption(key)
      BY AgainAssumes DEF Again!PoptAssumption
    <3>3. Again!Bare(key) \in Seq(STRING) /\ key[2] \in STRING
      <4>1. Again!Bare(key) \in Seq(STRING)
        BY <3>2, Again!WordTyped DEF Again!String
      <4>2. 2 \in 1..Len(key)
        BY <3>2
      <4> QED BY <3>2, <4>1, <4>2, ElementOfSeq
    <3>4. CASE Again!IsLong(key)
      <4>1. Len(key) # 2
        <5>1. key[1] = "-" /\ key[2] = "-"
          BY <3>2, <3>4 DEF Again!IsLong, Again!IsOption
        <5> QED BY <3>2, <5>1 DEF Again!DashDash
      <4>2. Again!Bare(key) # << >>
        <5>1. \A i \in 3..Len(key) : key[i] \in STRING
          BY <3>2, ElementOfSeq
        <5>2. Len(key) \in Int /\ 3 <= Len(key)
          <6>1. Len(key) \in Nat
            BY <3>2, LenProperties
          <6>2. Len(key) >= 2
            BY <3>2
          <6>3. \A n \in Nat : n >= 2 /\ n # 2 => n \in Int /\ 3 <= n
            OBVIOUS
          <6> QED BY <4>1, <6>1, <6>2, <6>3
        <5>3. Len(SubSeq(key, 3, Len(key))) = Len(key) - 3 + 1
          BY <5>1, <5>2, SubSeqProperties
        <5>4. Again!Bare(key) = SubSeq(key, 3, Len(key))
          BY <3>4 DEF Again!Bare
        <5>5. Len(SubSeq(key, 3, Len(key))) # 0
          BY <5>2, <5>3
        <5> QED BY <5>4, <5>5, EmptySeq
      <4>3. f.option.long = Again!Bare(key)
        <5>1. \E e : Again!AsOption(key) = [long |-> Again!Bare(key), short |-> e, onedash |-> FALSE,
                                            takes |-> "none", returns |-> FALSE]
          BY <3>4, Zenon DEF Again!AsOption
        <5> QED BY <3>1, <5>1
      <4> QED BY <3>3, <4>2, <4>3 DEF Kept, String, Parser!String
    <3>5. CASE ~Again!IsLong(key)
      <4>1. f.option.long = << >> /\ f.option.short = key[2]
        BY <3>1, <3>5 DEF Again!AsOption, Again!NULL
      <4> QED BY <3>3, <4>1, EmptySeq DEF Kept, String, Parser!String
    <3> QED BY <3>4, <3>5
  <2> QED BY <2>1, <2>2 DEF Kept
<1>2. /\ Again!DashDash \o f.option.long \in Seq(STRING)
      /\ f.option.long = << >> => Again!ShortKey(f.option.short) \in Seq(STRING)
  <2>1. \A S : \A c, d \in S : <<c, d>> \in Seq(S)
    OBVIOUS
  <2>2. "-" \in STRING
    BY ParsingAssumption DEF Again!StoredAssumption, Parser!PoptAssumption
  <2>3. <<"-", "-">> \in Seq(STRING) /\ \A c \in STRING : <<"-", c>> \in Seq(STRING)
    BY <2>1, <2>2
  <2> QED BY <1>1, <2>3, ConcatProperties DEF Again!DashDash, Again!ShortKey
<1>3. \A a \in Seq(STRING) : <<a>> \in Parser!Argv
  BY DEF Parser!Argv
<1> DEFINE a == IF f.option.long # Again!NULL THEN Again!DashDash \o f.option.long ELSE Again!ShortKey(f.option.short)
           b == IF f.option \in Stored THEN <<f.arg>> ELSE << >>
<1>4. a \in Seq(STRING) /\ b \in Parser!Argv
  BY <1>1, <1>2, <1>3, AgainAssumes DEF Again!NULL
<1>5. Again!Words(f) = <<a>> \o b
  BY DEF Again!Words
<1> HIDE DEF a, b
<1> QED BY <1>3, <1>4, <1>5, ConcatProperties DEF Parser!Argv

LEMMA AgainReads ==
    ASSUME AgainInv, Again!Reads
    PROVE  AgainInv'
<1>1. first.by # "other" /\ first' = first /\ Again!TypeInv
  BY DEF Again!Reads, Again!Records, AgainInv
<1>2. Again!TypeInv' /\ stack'[1].argv = stack[1].argv
  <2>1. [Again!Next]_(Again!vars)
    BY DEF Again!Reads, Again!Next
  <2> QED BY <1>1, <2>1, AgainAssumes, Again!TypeInvStep
<1>3. Again!Found \in Exec \cup {<< >>}
  BY DEF Again!Found, Again!NULL
<1>4. doExec' \in Exec \cup {<< >>}
  BY <1>3 DEF Again!Reads, Again!Records, AgainInv
<1>5. final' \in Seq(Kept)
  <2>1. CASE seen' # seen
    <3>1. seen' # << >>
      BY <1>1, <2>1, Again!TurnHandsOver DEF Again!Reads, Again!Call
    <3> DEFINE e == Again!Last(seen')
    <3>2. e \in [option : Options, arg : Again!String, of : Again!String]
      <4>1. seen' \in Seq([option : Options, arg : Again!String, of : Again!String])
        BY <1>2 DEF Again!TypeInv
      <4>2. Len(seen') \in 1..Len(seen')
        BY <3>1, <4>1, EmptySeq
      <4>3. seen'[Len(seen')] \in [option : Options, arg : Again!String, of : Again!String]
        BY <4>1, <4>2, ElementOfSeq
      <4> QED BY <4>3 DEF Again!Last
    <3>3. Again!Read(e) \in Kept
      BY <3>2, AgainAssumes DEF Again!Read, Kept, Again!NULL, String, Parser!String, Again!String
    <3>4. final' = Append(final, Again!Read(e))
      BY <2>1 DEF Again!Reads, Again!Records
    <3> HIDE DEF e
    <3> QED BY <3>3, <3>4 DEF AgainInv
  <2>2. CASE seen' = seen /\ doExec # Again!NULL /\ Again!Found # Again!NULL
    <3> DEFINE e == [option |-> Again!AsOption(Again!Found), arg |-> Again!NULL]
    <3>1. e \in Kept
      BY <1>3, <2>2, AgainAssumes DEF Kept, AsOptions, Again!NULL
    <3>2. final' = Append(final, e)
      BY <2>2 DEF Again!Reads, Again!Records
    <3> HIDE DEF e
    <3> QED BY <3>1, <3>2 DEF AgainInv
  <2>3. CASE seen' = seen /\ ~(doExec # Again!NULL /\ Again!Found # Again!NULL)
    BY <2>3 DEF Again!Reads, Again!Records, AgainInv
  <2> QED BY <2>1, <2>2, <2>3
<1> QED BY <1>1, <1>2, <1>4, <1>5 DEF AgainInv, Again!NotYet, Again!Ended

LEMMA AgainResets ==
    ASSUME AgainInv, Again!Reset
    PROVE  AgainInv'
<1>1. first = Again!NotYet /\ stack[1].argv \in AgainLines /\ Again!TypeInv
  BY DEF AgainInv, Again!Reset, Again!NotYet
<1>2. stack[1].argv \in Again!Argv /\ (KeepFirst => stack[1].argv # << >>) /\ KeepFirst \in BOOLEAN
  BY <1>1, AgainAssumes, ParsingAssumption DEF Again!LinesAssumption, Again!StoredAssumption
<1> DEFINE f == Again!Frame(stack[1].argv, Again!NULL)
           g == [f EXCEPT !.next = IF KeepFirst THEN 2 ELSE 1]
<1>3. f \in Again!Frames /\ f.argv = stack[1].argv /\ f.next = 1
  BY <1>2, Again!NewFrame DEF Again!Frame
<1>4. g \in Again!Frames
  <2>1. KeepFirst => Len(f.argv) \in Nat \ {0}
    BY <1>2, <1>3, EmptySeq DEF Again!Argv
  <2>2. \A n \in Nat \ {0} : n <= Len(f.argv) + 1 => [f EXCEPT !.next = n] \in Again!Frames
    <3> HIDE DEF f
    <3> QED BY <1>3 DEF Again!Frames
  <2> HIDE DEF f
  <2>3. CASE KeepFirst
    <3>1. 2 \in Nat \ {0} /\ 2 <= Len(f.argv) + 1
      BY <2>1, <2>3
    <3> QED BY <2>2, <2>3, <3>1
  <2>4. CASE ~KeepFirst
    <3>1. [f EXCEPT !.next = 1] = f
      BY <1>3 DEF Again!Frames
    <3> QED BY <1>3, <2>4, <3>1
  <2> QED BY <2>3, <2>4
<1>5. stack' = <<g>>
  BY DEF Again!Reset
<1> HIDE DEF f, g
<1>6. stack' \in Again!Stacks
  BY <1>4, <1>5, Again!FirstStack
<1>7. Again!TypeInv'
  BY <1>1, <1>6, EmptySeq DEF Again!Reset, Again!TypeInv, Again!Argv
<1>8. /\ first'.by = "reset" /\ first'.read.pc \in Again!Ended /\ first' # Again!NotYet
      /\ final' = << >> /\ doExec' = << >>
  BY DEF Again!Reset, Again!Reading, Again!NotYet, Again!NULL
<1> QED BY <1>7, <1>8, EmptySeq DEF AgainInv, Again!NotYet, Again!Ended

LEMMA AgainRuns ==
    ASSUME AgainInv, Again!RunsOther
    PROVE  AgainInv'
<1>1. first = Again!NotYet /\ Again!TypeInv /\ final \in Seq(Kept) /\ leftovers \in Again!Argv
  BY DEF AgainInv, Again!RunsOther, Again!NotYet, Again!TypeInv
<1> DEFINE q    == [i \in DOMAIN final |-> Again!Words(final[i])]
           tail == IF leftovers = << >> THEN << >> ELSE <<Again!DashDash>> \o leftovers
           argv(path) == path \o <<Again!Semicolon>> \o Again!FlattenSeq(q) \o tail
<1>2. q \in Seq(Argv)
  <2>1. DOMAIN final = 1..Len(final) /\ Len(final) \in Nat /\ \A i \in 1..Len(final) : final[i] \in Kept
    BY <1>1, ElementOfSeq, LenProperties
  <2>2. \A i \in 1..Len(final) : Again!Words(final[i]) \in Argv
    BY <2>1, OptionInWords DEF Argv, Parser!Argv
  <2> QED BY <2>1, <2>2
<1>3. Again!FlattenSeq(q) \in Argv
  <2> HIDE DEF q
  <2>1. Again!FlattenSeq(q) = FlattenSeq(q)
    BY DEF Again!FlattenSeq, FlattenSeq
  <2> QED BY <1>2, <2>1, FlattenedWords
<1>4. tail \in Argv
  <2>1. Again!DashDash \in Seq(STRING)
    <3>1. \A S : \A c, d \in S : <<c, d>> \in Seq(S)
      OBVIOUS
    <3>2. "-" \in STRING
      BY ParsingAssumption DEF Again!StoredAssumption, Parser!PoptAssumption
    <3> QED BY <3>1, <3>2 DEF Again!DashDash
  <2>2. <<Again!DashDash>> \in Argv /\ leftovers \in Argv /\ << >> \in Argv
    BY <1>1, <2>1, EmptySeq DEF Argv, Again!Argv
  <2> QED BY <2>2, ConcatProperties DEF Argv
<1>5. \A path \in Again!ProgramPath : argv(path) \in Again!Other!Argv
  <2>1. \A S : \A w \in S : <<w>> \in Seq(S)
    OBVIOUS
  <2>2. {Program, Again!Semicolon} \subseteq Seq(STRING)
    BY ParsingAssumption DEF Again!StoredAssumption
  <2>3. <<Again!Semicolon>> \in Argv /\ \A path \in Again!ProgramPath : path \in Argv
    BY <2>1, <2>2, EmptySeq DEF Again!ProgramPath, Argv
  <2> HIDE DEF q, tail
  <2>4. \A S : \A a, b \in Seq(S) : a \o b \in Seq(S)
    BY ConcatProperties
  <2> QED BY <1>3, <1>4, <2>3, <2>4 DEF Argv, Again!Other!Argv
<1>6. PICK path \in Again!ProgramPath : stack' = <<Again!Frame(argv(path), Again!NULL)>>
  BY DEF Again!RunsOther
<1> HIDE DEF argv
<1>7. stack' \in Again!Other!Stacks
  <2>1. Again!Frame(argv(path), Again!NULL) = Again!Other!Frame(argv(path), Again!Other!NULL)
    BY DEF Again!Frame, Again!Other!Frame, Again!NULL, Again!Other!NULL
  <2>2. Again!Other!Frame(argv(path), Again!Other!NULL) \in Again!Other!Frames
    BY <1>5, Again!Other!NewFrame
  <2> QED BY <1>6, <2>1, <2>2, Again!Other!FirstStack
<1>8. longArg' \in Again!Other!LongArgs
  <2>1. longArg' = longArg /\ longArg \in Again!LongArgs
    BY <1>1 DEF Again!TypeInv, Again!RunsOther
  <2> QED BY <2>1 DEF Again!LongArgs, Again!Other!LongArgs, Again!String, Again!Other!String,
                      Again!NoLongArg, Again!Other!NoLongArg, Again!NULL, Again!Other!NULL,
                      Again!IsOption, Again!Other!IsOption
<1>9. Again!Other!TypeInv'
  BY <1>7, <1>8, EmptySeq DEF Again!RunsOther, Again!Other!TypeInv, Again!Other!Argv
<1>10. /\ first'.by = "other" /\ first'.read.pc \in Again!Ended /\ first' # Again!NotYet
       /\ UNCHANGED <<final, doExec>>
  BY DEF Again!RunsOther, Again!Reading, Again!NotYet, Again!Ended
<1> QED BY <1>9, <1>10 DEF AgainInv, Again!NotYet, Again!Ended

LEMMA AgainOtherReads ==
    ASSUME AgainInv, Again!OtherReads
    PROVE  AgainInv'
<1>1. first.by = "other" /\ Again!Other!TypeInv /\ UNCHANGED <<final, doExec, first>>
  BY DEF AgainInv, Again!OtherReads, Again!execVars
<1>2. [Again!Other!Next]_(Again!Other!vars)
  BY DEF Again!OtherReads, Again!Other!Next
<1>3. Again!Other!TypeInv'
  BY <1>1, <1>2, AgainAssumes, Again!Other!TypeInvStep
<1> QED BY <1>1, <1>3 DEF AgainInv, Again!NotYet, Again!Ended

LEMMA AgainStep == AgainInv /\ [Again!TwiceNext]_(Again!twice) => AgainInv'
<1> SUFFICES ASSUME AgainInv, [Again!TwiceNext]_(Again!twice) PROVE AgainInv'
  OBVIOUS
<1>1. CASE UNCHANGED Again!twice
  BY <1>1 DEF AgainInv, Again!twice, Again!vars, Again!execVars, Again!TypeInv, Again!Other!TypeInv
<1> QED BY <1>1, AgainReads, AgainResets, AgainRuns, AgainOtherReads DEF Again!TwiceNext

\* What the invariant says of the stack, whoever reads.
LEMMA AgainMeans ==
    ASSUME AgainInv
    PROVE  Parser!TypeOK /\ Again!TwiceTypeOK
<1>1. Again!TwiceTypeOK
  <2>1. \A i \in DOMAIN final : final[i] \in Kept
    BY ElementOfSeq, LenProperties DEF AgainInv
  <2> QED BY <2>1 DEF AgainInv, Again!TwiceTypeOK, Kept, AsOptions, Again!NULL
<1>2. CASE first.by # "other"
  <2>1. Again!TypeOK
    BY <1>2, AgainAssumes, Again!TypeInvMeans DEF AgainInv
  <2> QED BY <1>1, <2>1 DEF Again!TypeOK, Parser!TypeOK, Again!NoLongArg, Parser!NoLongArg, Again!NULL, Parser!NULL,
                            Again!IsOption, Parser!IsOption, Again!Ended, Parser!Ended
<1>3. CASE first.by = "other"
  <2>1. Again!Other!TypeInv
    BY <1>3 DEF AgainInv
  <2>2. /\ stack # << >>
        /\ \A i \in DOMAIN stack : stack[i] \in Again!Other!Frames
    BY <2>1, Again!Other!StackProperties DEF Again!Other!TypeInv, Again!Other!Stacks
  <2>3. ASSUME NEW f \in Again!Other!Frames
        PROVE  f.next \in 1..(Len(f.argv) + 1) /\ f.alias = << >>
    <3>1. Len(f.argv) \in Nat
      BY LenProperties DEF Again!Other!Frames, Again!Other!Argv
    <3> QED BY <3>1 DEF Again!Other!Frames, Again!Other!NULL
  <2>4. << >> \notin DOMAIN Alias
    BY ParsingAssumption DEF Parser!PoptAssumption, Parser!IsOption, Parser!NULL
  <2>5. (longArg # Parser!NoLongArg => Parser!IsOption(longArg.of)) /\ pc \in {"app", "call"} \cup Parser!Ended
    BY <2>1 DEF Again!Other!TypeInv, Again!Other!LongArgs, Again!Other!NoLongArg, Parser!NoLongArg,
                Again!Other!NULL, Parser!NULL, Again!Other!IsOption, Parser!IsOption,
                Again!Other!Ended, Parser!Ended
  <2> QED BY <1>1, <2>2, <2>3, <2>4, <2>5 DEF Parser!TypeOK
<1> QED BY <1>2, <1>3

-----------------------------------------------------------------------------
(* Printing help: the places where lines are broken *)

HelpInv ==
    /\ text \in Texts
    /\ lineLength \in Nat
    /\ help \in 1..(Len(text) + 1)
    /\ pieces \in Seq([from : 1..(Len(text) + 1), to : Int])
    /\ Help!LinesFit

LEMMA HelpExtrema ==
    ASSUME NEW n \in Nat, NEW S \in SUBSET (0..n), S # {}
    PROVE  /\ Help!Max(S) \in S /\ \A i \in S : i <= Help!Max(S)
           /\ Help!Min(S) \in S /\ \A i \in S : Help!Min(S) <= i
<1>1. Parser!Max(S) \in S /\ \A i \in S : i <= Parser!Max(S)
  BY Parser!GreatestNat
<1>2. \E m \in S : \A i \in S : m <= i
  BY Parser!LeastNat
<1>3. Parser!Max(S) = Help!Max(S)
  BY DEF Parser!Max, Help!Max
<1> QED BY <1>1, <1>2, <1>3 DEF Help!Min

LEMMA TextTyped == HelpInv => text \in Seq(STRING) /\ Len(text) \in Nat
BY ParsingAssumption, LenProperties DEF HelpInv, Help!PoptHelpAssumption

\* The last space of a line that is too long.
LEMMA LastSpacePlace ==
    ASSUME HelpInv, Help!TooLong
    PROVE  /\ help + lineLength - 1 \in (help - 1)..(Len(text) - 1)
           /\ lineLength = 0 => Help!LastSpace = help - 1
           /\ lineLength > 0 =>
                 /\ Help!LastSpace \in help..(help + lineLength - 1)
                 /\ Help!LastSpace # help => text[Help!LastSpace] = Help!Blank
                 /\ \A i \in (Help!LastSpace + 1)..(help + lineLength - 1) : text[i] # Help!Blank
<1> DEFINE ch == help + lineLength - 1
           S  == {i \in help..ch : text[i] = Help!Blank \/ i = help} \cup {Help!Min({help, ch})}
<1>1. Len(text) \in Nat /\ lineLength \in Nat /\ help \in 1..(Len(text) + 1)
  BY TextTyped DEF HelpInv
<1>2. ch \in (help - 1)..(Len(text) - 1) /\ ch \in Nat /\ help \in Nat
  BY <1>1 DEF Help!TooLong, Help!helpLength
<1>3. Help!Min({help, ch}) = IF lineLength = 0 THEN ch ELSE help
  <2> DEFINE T == {help, ch}
             n == help + ch
  <2>1. n \in Nat /\ T \in SUBSET (0..n) /\ T # {}
    BY <1>1, <1>2
  <2>2. Help!Min(T) \in T /\ \A i \in T : Help!Min(T) <= i
    <3> HIDE DEF T, n
    <3> QED BY <2>1, HelpExtrema
  <2>3. ch = help + lineLength - 1
    OBVIOUS
  <2> HIDE DEF ch
  <2> QED BY <1>1, <1>2, <2>2, <2>3
<1>4. Help!LastSpace = Help!Max(S)
  BY DEF Help!LastSpace
<1>5. CASE lineLength = 0
  <2>1. S = {ch}
    BY <1>1, <1>2, <1>3, <1>5
  <2>2. Help!Max(S) \in S
    <3> HIDE DEF S, ch
    <3>1. S \in SUBSET (0..ch) /\ S # {}
      BY <1>2, <2>1
    <3> QED BY <1>2, <3>1, HelpExtrema
  <2> HIDE DEF S
  <2> QED BY <1>1, <1>2, <1>4, <1>5, <2>1, <2>2
<1>6. CASE lineLength # 0
  <2>1. S = {i \in help..ch : text[i] = Help!Blank \/ i = help}
    BY <1>1, <1>2, <1>3, <1>6
  <2>2. Help!Max(S) \in S /\ \A i \in S : i <= Help!Max(S)
    <3>0. help <= ch
      BY <1>1, <1>2, <1>6
    <3> HIDE DEF S, ch
    <3>1. S \in SUBSET (0..ch) /\ help \in S
      BY <1>2, <2>1, <3>0
    <3> QED BY <1>2, <3>1, HelpExtrema
  <2> HIDE DEF S
  <2> DEFINE l == Help!LastSpace
  <2>3. l \in S /\ \A i \in S : i <= l
    BY <1>4, <2>2
  <2> HIDE DEF l
  <2>4. l \in help..ch /\ (l # help => text[l] = Help!Blank)
    BY <2>1, <2>3
  <2>5. \A i \in (l + 1)..ch : text[i] # Help!Blank
    <3> TAKE i \in (l + 1)..ch
    <3>1. i \in help..ch /\ ~(i <= l)
      BY <1>1, <1>2, <2>4
    <3> QED BY <2>1, <2>3, <3>1
  <2> QED BY <1>1, <1>2, <1>6, <2>4, <2>5 DEF l
<1> QED BY <1>1, <1>5, <1>6

\* Where a line is broken there is a space, before or behind the place.
LEMMA BreakPlace ==
    ASSUME HelpInv, Help!TooLong, Help!LastSpace # help
    PROVE  /\ lineLength = 0 => Help!Break = help - 1
           /\ lineLength > 0 =>
                 /\ Help!Break \in (help + 1)..(help + lineLength - 1)
                 /\ text[Help!Break] = Help!Blank \/ text[Help!Break + 1] = Help!Blank
           /\ help + lineLength - 1 < Len(text)
<1> DEFINE l == Help!LastSpace
           S == {i \in help..l : text[i] # Help!Blank \/ i = help + 1} \cup {Help!Min({help, l})}
<1>1. Len(text) \in Nat /\ lineLength \in Nat /\ help \in 1..(Len(text) + 1)
  BY TextTyped DEF HelpInv
<1>2. /\ help + lineLength - 1 \in (help - 1)..(Len(text) - 1)
      /\ lineLength = 0 => l = help - 1
      /\ lineLength > 0 => l \in (help + 1)..(help + lineLength - 1) /\ text[l] = Help!Blank
  BY <1>1, LastSpacePlace
<1>3. Help!Break = Help!Max(S)
  BY DEF Help!Break
<1> HIDE DEF l
<1>4. l \in Nat /\ help \in Nat
  BY <1>1, <1>2
<1>5. Help!Min({help, l}) = IF lineLength = 0 THEN l ELSE help
  <2> DEFINE T == {help, l}
             n == help + l
  <2>1. n \in Nat /\ T \in SUBSET (0..n) /\ T # {}
    BY <1>1, <1>4
  <2>2. Help!Min(T) \in T /\ \A i \in T : Help!Min(T) <= i
    <3> HIDE DEF T, n
    <3> QED BY <2>1, HelpExtrema
  <2> QED BY <1>1, <1>2, <2>2
<1>6. CASE lineLength = 0
  <2>1. S = {l}
    BY <1>1, <1>2, <1>4, <1>5, <1>6
  <2>2. Help!Max(S) \in S
    <3>1. S \in SUBSET (0..l) /\ S # {}
      BY <1>4, <2>1
    <3> HIDE DEF S
    <3> QED BY <1>4, <3>1, HelpExtrema
  <2> HIDE DEF S
  <2> QED BY <1>1, <1>2, <1>3, <1>6, <2>1, <2>2
<1>7. CASE lineLength # 0
  <2>1. Help!Max(S) \in S /\ \A i \in S : i <= Help!Max(S)
    <3>1. S \in SUBSET (0..l) /\ S # {}
      BY <1>1, <1>2, <1>4, <1>5, <1>7
    <3> HIDE DEF S
    <3> QED BY <1>4, <3>1, HelpExtrema
  <2>2. \A i : i \in S <=> i \in help..l /\ (text[i] # Help!Blank \/ i = help + 1 \/ i = help)
    BY <1>1, <1>2, <1>4, <1>5, <1>7
  <2> HIDE DEF S
  <2> DEFINE b == Help!Break
  <2>3. b \in S /\ \A i \in S : i <= b
    BY <1>3, <2>1
  <2> HIDE DEF b
  <2>4. help + 1 \in S
    BY <1>1, <1>2, <1>7, <2>2
  <2>5. b \in (help + 1)..l
    BY <1>1, <1>4, <2>2, <2>3, <2>4
  <2>6. text[b] = Help!Blank \/ text[b + 1] = Help!Blank
    <3>1. CASE b = l
      BY <1>1, <1>2, <1>7, <3>1
    <3>2. CASE b # l
      <4>1. b + 1 \in help..l /\ b + 1 # help + 1 /\ b + 1 # help /\ ~(b + 1 <= b)
        BY <1>1, <1>4, <2>5, <3>2
      <4> QED BY <2>2, <2>3, <4>1
    <3> QED BY <3>1, <3>2
  <2> QED BY <1>1, <1>2, <1>7, <2>5, <2>6 DEF b
<1> QED BY <1>1, <1>6, <1>7

\* Spaces that are passed over.
LEMMA SkipPlace ==
    ASSUME HelpInv, NEW i \in 1..(Len(text) + 1)
    PROVE  /\ Help!SkipSpaces(i) \in i..(Len(text) + 1)
           /\ \A k \in i..(Help!SkipSpaces(i) - 1) : text[k] = Help!Blank
<1> DEFINE S == {j \in i..Len(text) : text[j] # Help!Blank} \cup {Len(text) + 1}
           n == Len(text) + 1
<1>1. Len(text) \in Nat
  BY TextTyped
<1>2. n \in Nat /\ S \in SUBSET (0..n) /\ S # {}
  BY <1>1
<1>3. Help!SkipSpaces(i) = Help!Min(S)
  BY DEF Help!SkipSpaces
<1>4. Help!Min(S) \in S /\ \A j \in S : Help!Min(S) <= j
  <2> HIDE DEF S, n
  <2> QED BY <1>2, HelpExtrema
<1> DEFINE m == Help!SkipSpaces(i)
<1>5. m \in S /\ \A j \in S : m <= j
  BY <1>3, <1>4
<1>6. m \in i..(Len(text) + 1)
  <2> HIDE DEF m
  <2> QED BY <1>1, <1>5
<1>7. ASSUME NEW k \in i..(m - 1) PROVE text[k] = Help!Blank
  <2> HIDE DEF m
  <2>1. k \in i..Len(text) /\ ~(m <= k)
    BY <1>1, <1>6
  <2> QED BY <1>5, <2>1
<1> QED BY <1>6, <1>7

LEMMA HelpInit == Help!Init => HelpInv
<1> SUFFICES ASSUME Help!Init PROVE HelpInv
  OBVIOUS
<1>1. text \in Seq(STRING) /\ Columns \in Nat /\ LeftCols \subseteq 0..(Columns - 5)
  BY ParsingAssumption DEF Help!PoptHelpAssumption, Help!Init
<1>2. Len(text) \in Nat
  BY <1>1, LenProperties
<1>3. lineLength \in Nat
  <2>1. PICK maxLeftCol \in LeftCols : lineLength = Columns - Help!Indent(maxLeftCol)
    BY DEF Help!Init
  <2>2. maxLeftCol \in 0..(Columns - 5)
    BY <1>1
  <2> QED BY <1>1, <2>1, <2>2 DEF Help!Indent
<1>4. pieces = << >> /\ DOMAIN pieces = {}
  BY DEF Help!Init
<1> QED BY <1>2, <1>3, <1>4, EmptySeq DEF HelpInv, Help!Init, Help!LinesFit

\* One more piece, that fits or has no place to break it.
LEMMA OnePieceMore ==
    ASSUME HelpInv, UNCHANGED <<text, lineLength>>, help' \in 1..(Len(text) + 1),
           NEW to \in Int,
           to - help + 1 <= lineLength \/ \A k \in (help + 1)..(help + lineLength - 1) : text[k] # Help!Blank,
           pieces' = Append(pieces, [from |-> help, to |-> to])
    PROVE  HelpInv'
<1> DEFINE p == [from |-> help, to |-> to]
           P == [from : 1..(Len(text) + 1), to : Int]
<1>1. p \in P /\ pieces \in Seq(P)
  BY DEF HelpInv
<1>2. p.from = help /\ p.to = to
  OBVIOUS
<1>3. pieces' = Append(pieces, p)
  OBVIOUS
<1> HIDE DEF p, P
<1>4. /\ pieces' \in Seq(P) /\ DOMAIN pieces' = 1..(Len(pieces) + 1) /\ Len(pieces) \in Nat
      /\ DOMAIN pieces = 1..Len(pieces)
      /\ \A i \in 1..(Len(pieces) + 1) : pieces'[i] = IF i <= Len(pieces) THEN pieces[i] ELSE p
  BY <1>1, <1>3, LenProperties
<1>5. ASSUME NEW i \in DOMAIN pieces'
      PROVE  pieces'[i].to - pieces'[i].from + 1 > lineLength =>
                \A k \in (pieces'[i].from + 1)..(pieces'[i].from + lineLength - 1) : text[k] # Help!Blank
  <2>1. CASE i \in DOMAIN pieces
    <3>1. pieces'[i] = pieces[i]
      BY <1>4, <2>1
    <3> QED BY <2>1, <3>1 DEF HelpInv, Help!LinesFit
  <2>2. CASE i \notin DOMAIN pieces
    <3>1. pieces'[i] = p
      BY <1>4, <2>2
    <3>2. help \in Int /\ lineLength \in Int
      BY DEF HelpInv
    <3> QED BY <1>2, <3>1, <3>2
  <2> QED BY <2>1, <2>2
<1>6. Help!LinesFit'
  BY <1>5 DEF Help!LinesFit
<1> QED BY <1>4, <1>6 DEF HelpInv, P

LEMMA HelpStep == HelpInv /\ [Help!Next]_(Help!vars) => HelpInv'
<1> SUFFICES ASSUME HelpInv, [Help!Next]_(Help!vars) PROVE HelpInv'
  OBVIOUS
<1>1. Len(text) \in Nat /\ lineLength \in Nat /\ help \in 1..(Len(text) + 1)
  BY TextTyped DEF HelpInv
<1>2. CASE Help!BreakLine
  <2> DEFINE b == Help!Break
  <2>1. /\ Help!TooLong /\ Help!LastSpace # help
        /\ UNCHANGED <<text, lineLength>>
        /\ pieces' = (IF b < help THEN pieces ELSE Append(pieces, [from |-> help, to |-> b]))
        /\ help' = Help!SkipSpaces(b + 1)
    BY <1>2 DEF Help!BreakLine
  <2>2. /\ lineLength = 0 => b = help - 1
        /\ lineLength > 0 => b \in (help + 1)..(help + lineLength - 1)
        /\ help + lineLength - 1 < Len(text)
    BY <2>1, BreakPlace
  <2> HIDE DEF b
  <2>3. b \in Int /\ b + 1 \in 1..(Len(text) + 1) /\ b - help + 1 <= lineLength
    BY <1>1, <2>2
  <2>4. help' \in 1..(Len(text) + 1)
    <3>1. help' \in (b + 1)..(Len(text) + 1)
      BY <2>1, <2>3, SkipPlace
    <3> QED BY <1>1, <2>3, <3>1
  <2>5. CASE b < help
    BY <2>1, <2>4, <2>5 DEF HelpInv, Help!LinesFit
  <2>6. CASE ~(b < help)
    BY <2>1, <2>3, <2>4, <2>6, OnePieceMore
  <2> QED BY <2>5, <2>6
<1>3. CASE Help!Rest
  <2>1. /\ Help!TooLong => Help!LastSpace = help
        /\ ~done
        /\ UNCHANGED <<text, lineLength>>
        /\ pieces' = (IF Help!helpLength = 0 THEN pieces ELSE Append(pieces, [from |-> help, to |-> Len(text)]))
        /\ help' = Len(text) + 1
    BY <1>3 DEF Help!Rest
  <2>2. help' \in 1..(Len(text) + 1)
    BY <1>1, <2>1
  <2>3. CASE Help!helpLength = 0
    BY <2>1, <2>2, <2>3 DEF HelpInv, Help!LinesFit
  <2>4. CASE Help!helpLength # 0
    <3>1. pieces' = Append(pieces, [from |-> help, to |-> Len(text)])
      BY <2>1, <2>4
    <3>2. \/ Len(text) - help + 1 <= lineLength
          \/ \A k \in (help + 1)..(help + lineLength - 1) : text[k] # Help!Blank
      <4>1. CASE Help!TooLong
        <5>1. Help!LastSpace = help
          BY <2>1, <4>1
        <5>2. lineLength > 0
          BY <1>1, <4>1, <5>1, LastSpacePlace
        <5> QED BY <1>1, <4>1, <5>1, <5>2, LastSpacePlace
      <4>2. CASE ~Help!TooLong
        BY <1>1, <2>1, <4>2 DEF Help!TooLong, Help!helpLength
      <4> QED BY <4>1, <4>2
    <3> QED BY <1>1, <2>1, <2>2, <3>1, <3>2, OnePieceMore
  <2> QED BY <2>3, <2>4
<1>4. CASE UNCHANGED Help!vars
  BY <1>4 DEF Help!vars, HelpInv, Help!LinesFit
<1> QED BY <1>2, <1>3, <1>4 DEF Help!Next

LEMMA HelpMeans == HelpInv => Help!TypeOK
<1> SUFFICES ASSUME HelpInv PROVE Help!TypeOK
  OBVIOUS
<1> DEFINE P == [from : 1..(Len(text) + 1), to : Int]
<1>1. \A i \in DOMAIN pieces : pieces[i].from \in 1..(Len(text) + 1)
  <2>1. pieces \in Seq(P)
    BY DEF HelpInv
  <2>2. \A p \in P : p.from \in 1..(Len(text) + 1)
    OBVIOUS
  <2> HIDE DEF P
  <2>3. \A i \in DOMAIN pieces : pieces[i] \in P
    BY <2>1, ElementOfSeq, LenProperties
  <2> QED BY <2>2, <2>3
<1> QED BY <1>1 DEF HelpInv, Help!TypeOK

-----------------------------------------------------------------------------
(* The words of a help text *)

Text == Seq(STRING)

\* The places of a set that are below a number, and the k-th of its places.
Below(S, i) == Config!Below(S, i)
Nth(S, k)   == Config!Nth(S, k)
Shift(S, m) == {i + m : i \in S}

LEMMA SameCount == \A S : Config!Cardinality(S) = Cardinality(S) /\ (Config!IsFiniteSet(S) <=> IsFiniteSet(S))
BY DEF Config!Cardinality, Cardinality, Config!IsFiniteSet, IsFiniteSet

\* Counting the numbers of a set that are below one of them.
LEMMA InBelow ==
    ASSUME NEW n \in Nat, NEW S \in SUBSET (1..n), NEW i \in Int
    PROVE  Below(S, i) \in SUBSET (1..n) /\ \A j \in 1..n : j \in Below(S, i) <=> j \in S /\ j < i
BY Config!InBelow DEF Below

LEMMA Counted ==
    ASSUME NEW n \in Nat, NEW S \in SUBSET (1..n)
    PROVE  /\ IsFiniteSet(S) /\ Cardinality(S) \in Nat
           /\ \A i \in S : /\ IsFiniteSet(Below(S, i))
                           /\ Cardinality(Below(S, i)) \in Nat
                           /\ Cardinality(Below(S, i)) < Cardinality(S)
BY Config!Counted, SameCount DEF Below

LEMMA NthUnique ==
    ASSUME NEW n \in Nat, NEW S \in SUBSET (1..n), NEW k,
           NEW i \in S, Cardinality(Below(S, i)) = k - 1
    PROVE  Nth(S, k) = i
BY Config!NthUnique, SameCount DEF Below, Nth

LEMMA NthPlace ==
    ASSUME NEW n \in Nat, NEW S \in SUBSET (1..n), NEW k \in 1..Cardinality(S)
    PROVE  Nth(S, k) \in S /\ Cardinality(Below(S, Nth(S, k))) = k - 1
BY Config!NthPlace, SameCount DEF Below, Nth

LEMMA Shifted ==
    ASSUME NEW n \in Nat, NEW S \in SUBSET (1..n), NEW m \in Nat
    PROVE  IsFiniteSet(Shift(S, m)) /\ Cardinality(Shift(S, m)) = Cardinality(S)
<1> DEFINE f == [i \in S |-> i + m]
<1>0. \A i \in S : i \in Nat
  OBVIOUS
<1>1. f \in Bijection(S, Shift(S, m))
  <2>1. f \in [S -> Shift(S, m)]
    BY DEF Shift
  <2>2. IsInjective(f)
    BY <1>0 DEF IsInjective
  <2>3. \A t \in Shift(S, m) : \E i \in S : f[i] = t
    BY DEF Shift
  <2> HIDE DEF f
  <2>4. f \in Injection(S, Shift(S, m)) /\ f \in Surjection(S, Shift(S, m))
    BY <2>1, <2>2, <2>3 DEF Injection, Surjection
  <2> QED BY <2>4 DEF Bijection
<1>2. ExistsBijection(S, Shift(S, m))
  BY <1>1 DEF ExistsBijection
<1> QED BY <1>2, Counted, FS_Bijection

Starts(s)     == {i \in DOMAIN s : s[i] # Help!Blank /\ (i = 1 \/ s[i - 1] = Help!Blank)}
WordEnd(s, i) == Help!Min({j \in i..Len(s) : s[j] = Help!Blank} \cup {Len(s) + 1})
WordAt(s, i)  == SubSeq(s, i, WordEnd(s, i) - 1)

\* The words of a text in their order.
LEMMA WordsAreNth ==
    ASSUME NEW s
    PROVE  Help!Words(s) = [k \in 1..Cardinality(Starts(s)) |-> WordAt(s, Nth(Starts(s), k))]
BY DEF Help!Words, Starts, WordAt, WordEnd, Nth, Below, Config!Nth, Config!Below, Help!Cardinality,
       Config!Cardinality, Cardinality

\* Where a word ends.
LEMMA WordEnds ==
    ASSUME NEW s \in Text, NEW i \in 1..Len(s)
    PROVE  /\ WordEnd(s, i) \in i..(Len(s) + 1)
           /\ WordEnd(s, i) # Len(s) + 1 => s[WordEnd(s, i)] = Help!Blank
           /\ \A k \in i..(WordEnd(s, i) - 1) : s[k] # Help!Blank
           /\ \A e \in i..(Len(s) + 1) :
                 (e # Len(s) + 1 => s[e] = Help!Blank) /\ (\A k \in i..(e - 1) : s[k] # Help!Blank)
                    => e = WordEnd(s, i)
<1> DEFINE S == {j \in i..Len(s) : s[j] = Help!Blank} \cup {Len(s) + 1}
           n == Len(s) + 1
           m == WordEnd(s, i)
<1>1. Len(s) \in Nat /\ i \in Nat
  BY LenProperties DEF Text
<1>2. n \in Nat /\ S \in SUBSET (0..n) /\ S # {}
  BY <1>1
<1>3. m = Help!Min(S)
  BY DEF WordEnd
<1>4. m \in S /\ \A j \in S : m <= j
  <2> HIDE DEF S, n, m
  <2> QED BY <1>2, <1>3, HelpExtrema
<1> HIDE DEF m
<1>5. m \in i..(Len(s) + 1) /\ (m # Len(s) + 1 => s[m] = Help!Blank)
  BY <1>1, <1>4
<1>6. ASSUME NEW k \in i..(m - 1) PROVE s[k] # Help!Blank
  <2>1. k \in i..Len(s) /\ ~(m <= k)
    BY <1>1, <1>5
  <2> QED BY <1>4, <2>1
<1>7. ASSUME NEW e \in i..(Len(s) + 1),
             e # Len(s) + 1 => s[e] = Help!Blank, \A k \in i..(e - 1) : s[k] # Help!Blank
      PROVE  e = m
  <2>1. e \in S
    BY <1>1, <1>7
  <2>2. m <= e
    BY <1>4, <2>1
  <2>3. ~(m < e)
    <3>1. m < e => m \in i..(e - 1) /\ m # Len(s) + 1
      BY <1>1, <1>5
    <3> QED BY <1>5, <1>7, <3>1
  <2> QED BY <1>1, <1>5, <2>2, <2>3
<1> QED BY <1>5, <1>6, <1>7 DEF m

LEMMA StartsPlaces ==
    ASSUME NEW s \in Text
    PROVE  /\ Len(s) \in Nat /\ Starts(s) \in SUBSET (1..Len(s))
           /\ \A i \in 1..Len(s) :
                 i \in Starts(s) <=> s[i] # Help!Blank /\ (i = 1 \/ s[i - 1] = Help!Blank)
BY LenProperties DEF Text, Starts

LEMMA WordsTyped ==
    ASSUME NEW s \in Text
    PROVE  Help!Words(s) \in Argv
<1>1. Len(s) \in Nat /\ Starts(s) \in SUBSET (1..Len(s)) /\ Cardinality(Starts(s)) \in Nat
  BY StartsPlaces, Counted
<1>2. ASSUME NEW k \in 1..Cardinality(Starts(s)) PROVE WordAt(s, Nth(Starts(s), k)) \in Seq(STRING)
  <2> DEFINE i == Nth(Starts(s), k)
             e == WordEnd(s, i)
  <2>1. i \in Starts(s)
    <3> DEFINE n == Len(s)
               S == Starts(s)
    <3>1. n \in Nat /\ S \in SUBSET (1..n) /\ k \in 1..Cardinality(S)
      BY <1>1, <1>2
    <3> HIDE DEF n, S
    <3>2. Nth(S, k) \in S
      BY <3>1, NthPlace
    <3> QED BY <3>2 DEF S
  <2> HIDE DEF i
  <2>2. i \in 1..Len(s)
    BY <1>1, <2>1
  <2>3. e \in i..(Len(s) + 1)
    BY <2>2, WordEnds
  <2> HIDE DEF e
  <2>4. \A j \in i..(e - 1) : s[j] \in STRING
    <3>1. \A j \in i..(e - 1) : j \in 1..Len(s)
      BY <1>1, <2>2, <2>3
    <3> QED BY <3>1, ElementOfSeq DEF Text
  <2>5. SubSeq(s, i, e - 1) \in Seq(STRING)
    BY <1>1, <2>2, <2>3, <2>4, SubSeqProperties
  <2> QED BY <2>5 DEF WordAt, i, e
<1>3. [k \in 1..Cardinality(Starts(s)) |-> WordAt(s, Nth(Starts(s), k))] \in Seq(Seq(STRING))
  <2> DEFINE n == Cardinality(Starts(s))
             W(k) == WordAt(s, Nth(Starts(s), k))
  <2>1. n \in Nat /\ \A k \in 1..n : W(k) \in Seq(STRING)
    BY <1>1, <1>2
  <2> HIDE DEF n, W
  <2>2. [k \in 1..n |-> W(k)] \in Seq(Seq(STRING))
    BY <2>1
  <2> QED BY <2>2 DEF n, W
<1> QED BY <1>3, WordsAreNth DEF Argv

\* A text cut in two where there is a space, or at one of its ends.
Joint(s, m) == m = 0 \/ m = Len(s) \/ s[m] = Help!Blank \/ s[m + 1] = Help!Blank

LEMMA Halves ==
    ASSUME NEW s \in Text, NEW m \in 0..Len(s)
    PROVE  /\ Len(s) \in Nat /\ m \in Nat
           /\ SubSeq(s, 1, m) \in Text /\ Len(SubSeq(s, 1, m)) = m
           /\ \A i \in 1..m : SubSeq(s, 1, m)[i] = s[i]
           /\ SubSeq(s, m + 1, Len(s)) \in Text /\ Len(SubSeq(s, m + 1, Len(s))) = Len(s) - m
           /\ \A i \in 1..(Len(s) - m) : SubSeq(s, m + 1, Len(s))[i] = s[i + m]
<1>1. Len(s) \in Nat /\ \A i \in 1..Len(s) : s[i] \in STRING
  BY ElementOfSeq, LenProperties DEF Text
<1>2. SubSeq(s, 1, m) \in Text /\ Len(SubSeq(s, 1, m)) = m /\ \A i \in 1..m : SubSeq(s, 1, m)[i] = s[i]
  <2>1. \A i \in 1..m : s[i] \in STRING
    BY <1>1
  <2>2. /\ SubSeq(s, 1, m) \in Seq(STRING)
        /\ Len(SubSeq(s, 1, m)) = IF 1 <= m THEN m - 1 + 1 ELSE 0
        /\ \A i \in 1..(m - 1 + 1) : SubSeq(s, 1, m)[i] = s[1 + i - 1]
    BY <1>1, <2>1, SubSeqProperties
  <2>3. \A i \in 1..m : 1 + i - 1 = i /\ i \in 1..(m - 1 + 1)
    BY <1>1
  <2> QED BY <1>1, <2>2, <2>3 DEF Text
<1>3. /\ SubSeq(s, m + 1, Len(s)) \in Text /\ Len(SubSeq(s, m + 1, Len(s))) = Len(s) - m
      /\ \A i \in 1..(Len(s) - m) : SubSeq(s, m + 1, Len(s))[i] = s[i + m]
  <2> DEFINE f == m + 1
             n == Len(s)
             b == SubSeq(s, f, n)
  <2>1. f \in Int /\ n \in Int /\ \A i \in f..n : s[i] \in STRING
    BY <1>1
  <2>2. b \in Seq(STRING) /\ Len(b) = (IF f <= n THEN n - f + 1 ELSE 0)
        /\ \A i \in 1..(n - f + 1) : b[i] = s[f + i - 1]
    <3> HIDE DEF f, n
    <3> QED BY <2>1, SubSeqProperties
  <2> HIDE DEF b
  <2>3. Len(b) = Len(s) - m
    BY <1>1, <2>2
  <2>4. \A i \in 1..(Len(s) - m) : f + i - 1 = i + m /\ i \in 1..(n - f + 1)
    BY <1>1
  <2>5. \A i \in 1..(Len(s) - m) : b[i] = s[i + m]
    BY <2>2, <2>4
  <2> QED BY <2>2, <2>3, <2>5 DEF b, Text
<1> QED BY <1>1, <1>2, <1>3

LEMMA StartsCut ==
    ASSUME NEW s \in Text, NEW m \in 0..Len(s), Joint(s, m),
           NEW a \in Text, Len(a) = m, \A i \in 1..m : a[i] = s[i],
           NEW b \in Text, Len(b) = Len(s) - m, \A i \in 1..(Len(s) - m) : b[i] = s[i + m]
    PROVE  /\ \A i \in 1..m : i \in Starts(s) <=> i \in Starts(a)
           /\ \A i \in 1..(Len(s) - m) : i + m \in Starts(s) <=> i \in Starts(b)
<1>1. Len(s) \in Nat /\ m \in Nat /\ m <= Len(s)
  BY StartsPlaces
<1>2. ASSUME NEW i \in 1..m PROVE i \in Starts(s) <=> i \in Starts(a)
  <2>1. i \in 1..Len(s) /\ i \in 1..Len(a) /\ a[i] = s[i] /\ (i # 1 => a[i - 1] = s[i - 1])
    BY <1>1
  <2>2. /\ i \in Starts(s) <=> s[i] # Help!Blank /\ (i = 1 \/ s[i - 1] = Help!Blank)
        /\ i \in Starts(a) <=> a[i] # Help!Blank /\ (i = 1 \/ a[i - 1] = Help!Blank)
    BY <2>1, StartsPlaces
  <2> QED BY <2>1, <2>2
<1>3. ASSUME NEW i \in 1..(Len(s) - m) PROVE i + m \in Starts(s) <=> i \in Starts(b)
  <2> DEFINE j == i + m
  <2>1. j \in 1..Len(s) /\ i \in 1..Len(b) /\ b[i] = s[j] /\ (i = 1 /\ m = 0 <=> j = 1)
    BY <1>1
  <2>2. i # 1 => b[i - 1] = s[j - 1]
    <3>1. i # 1 => i - 1 \in 1..(Len(s) - m) /\ i - 1 + m = j - 1
      BY <1>1
    <3> QED BY <3>1
  <2>3. i = 1 => s[j] = Help!Blank \/ j = 1 \/ s[j - 1] = Help!Blank
    <3>1. i = 1 => j = m + 1 /\ j - 1 = m /\ m # Len(s)
      BY <1>1
    <3> HIDE DEF j
    <3> QED BY <1>1, <2>1, <3>1 DEF Joint
  <2>4. /\ j \in Starts(s) <=> s[j] # Help!Blank /\ (j = 1 \/ s[j - 1] = Help!Blank)
        /\ i \in Starts(b) <=> b[i] # Help!Blank /\ (i = 1 \/ b[i - 1] = Help!Blank)
    <3> HIDE DEF j
    <3> QED BY <2>1, StartsPlaces
  <2>5. j = 1 => i = 1
    BY <2>1
  <2>6. j \in Starts(s) <=> i \in Starts(b)
    <3> HIDE DEF j
    <3> QED BY <2>1, <2>2, <2>3, <2>4, <2>5
  <2> QED BY <2>6
<1> QED BY <1>2, <1>3

LEMMA EndsCut ==
    ASSUME NEW s \in Text, NEW m \in 0..Len(s), Joint(s, m),
           NEW a \in Text, Len(a) = m, \A i \in 1..m : a[i] = s[i],
           NEW b \in Text, Len(b) = Len(s) - m, \A i \in 1..(Len(s) - m) : b[i] = s[i + m]
    PROVE  /\ \A i \in 1..m : WordEnd(s, i) = WordEnd(a, i)
           /\ \A i \in 1..(Len(s) - m) : WordEnd(s, i + m) = WordEnd(b, i) + m
<1>1. Len(s) \in Nat /\ m \in Nat /\ m <= Len(s)
  BY StartsPlaces
<1>2. ASSUME NEW i \in 1..m PROVE WordEnd(s, i) = WordEnd(a, i)
  <2> DEFINE e == WordEnd(a, i)
  <2>1. /\ e \in i..(m + 1) /\ (e # m + 1 => a[e] = Help!Blank)
        /\ \A k \in i..(e - 1) : a[k] # Help!Blank
    BY WordEnds
  <2> HIDE DEF e
  <2>2. i \in 1..Len(s) /\ e \in i..(Len(s) + 1)
    BY <1>1, <2>1
  <2>3. \A k \in i..(e - 1) : s[k] # Help!Blank
    <3>1. \A k \in i..(e - 1) : k \in 1..m
      BY <1>1, <2>1
    <3> QED BY <2>1, <3>1
  <2>4. e # Len(s) + 1 => s[e] = Help!Blank
    <3>1. CASE e # m + 1
      <4>1. e \in 1..m
        BY <1>1, <2>1, <3>1
      <4> QED BY <2>1, <3>1, <4>1
    <3>2. CASE e = m + 1
      <4>1. m \in i..(e - 1) /\ m # 0
        BY <1>1, <3>2
      <4>2. s[m] # Help!Blank
        BY <2>3, <4>1
      <4> QED BY <1>1, <3>2, <4>1, <4>2 DEF Joint
    <3> QED BY <3>1, <3>2
  <2>5. e = WordEnd(s, i)
    BY <2>2, <2>3, <2>4, WordEnds
  <2> QED BY <2>5 DEF e
<1>3. ASSUME NEW i \in 1..(Len(s) - m) PROVE WordEnd(s, i + m) = WordEnd(b, i) + m
  <2> DEFINE d == WordEnd(b, i)
             e == d + m
             j == i + m
             n == Len(s) - m
  <2>1. n \in Nat /\ i \in 1..n /\ Len(b) = n
    BY <1>1
  <2>2. /\ d \in i..(n + 1) /\ (d # n + 1 => b[d] = Help!Blank)
        /\ \A k \in i..(d - 1) : b[k] # Help!Blank
    <3> HIDE DEF n
    <3> QED BY <2>1, WordEnds
  <2> HIDE DEF d
  <2>3. j \in 1..Len(s) /\ e \in j..(Len(s) + 1)
    BY <1>1, <2>2
  <2>4. \A k \in j..(e - 1) : s[k] # Help!Blank
    <3> TAKE k \in j..(e - 1)
    <3>1. k - m \in i..(d - 1) /\ k - m \in 1..n /\ k - m + m = k
      BY <1>1, <2>2
    <3>2. b[k - m] = s[k - m + m] /\ b[k - m] # Help!Blank
      BY <2>2, <3>1
    <3> QED BY <3>1, <3>2
  <2>5. e # Len(s) + 1 => s[e] = Help!Blank
    <3>0. d = n + 1 => e = Len(s) + 1
      BY <1>1, <2>1
    <3>1. e # Len(s) + 1 => d \in 1..n /\ d # n + 1
      <4> HIDE DEF e, n
      <4> QED BY <2>1, <2>2, <3>0
    <3>2. \A k \in 1..n : b[k] = s[k + m]
      OBVIOUS
    <3> QED BY <2>2, <3>1, <3>2
  <2>6. e = WordEnd(s, j)
    <3> HIDE DEF e, j
    <3> QED BY <2>3, <2>4, <2>5, WordEnds
  <2> QED BY <2>6 DEF d
<1> QED BY <1>2, <1>3

\* The words of a text are those of its halves.
LEMMA WordsCut ==
    ASSUME NEW s \in Text, NEW m \in 0..Len(s), Joint(s, m)
    PROVE  Help!Words(s) = Help!Words(SubSeq(s, 1, m)) \o Help!Words(SubSeq(s, m + 1, Len(s)))
<1> DEFINE a == SubSeq(s, 1, m)
           b == SubSeq(s, m + 1, Len(s))
           n == Len(s)
           S == Starts(s)
           A == Starts(a)
           B == Starts(b)
           T == Shift(B, m)
           W(k) == WordAt(s, Nth(S, k))
<1>1. /\ n \in Nat /\ m \in Nat /\ m \in 0..n /\ n - m \in Nat
      /\ a \in Text /\ Len(a) = m /\ \A i \in 1..m : a[i] = s[i]
      /\ b \in Text /\ Len(b) = n - m /\ \A i \in 1..(n - m) : b[i] = s[i + m]
  BY Halves
<1> HIDE DEF a, b
<1>2. /\ \A i \in 1..m : i \in S <=> i \in A
      /\ \A i \in 1..(n - m) : i + m \in S <=> i \in B
  BY <1>1, StartsCut
<1>3. /\ \A i \in 1..m : WordEnd(s, i) = WordEnd(a, i)
      /\ \A i \in 1..(n - m) : WordEnd(s, i + m) = WordEnd(b, i) + m
  BY <1>1, EndsCut
<1>4. S \in SUBSET (1..n) /\ A \in SUBSET (1..m) /\ B \in SUBSET (1..(n - m))
  BY <1>1, StartsPlaces
<1> HIDE DEF S, A, B, n
<1>5. /\ IsFiniteSet(S) /\ Cardinality(S) \in Nat
      /\ IsFiniteSet(A) /\ Cardinality(A) \in Nat
      /\ IsFiniteSet(B) /\ Cardinality(B) \in Nat
  BY <1>1, <1>4, Counted
<1>6. Cardinality(S) = Cardinality(A) + Cardinality(B)
  <2>1. IsFiniteSet(T) /\ Cardinality(T) = Cardinality(B)
    BY <1>1, <1>4, Shifted
  <2>2. \A i \in T : i - m \in B /\ i \in (m + 1)..n
    BY <1>1, <1>4 DEF Shift
  <2>3. A \cap T = {}
    BY <1>1, <1>4, <2>2
  <2>4. \A i \in 1..n : i \in S => i \in A \/ i \in T
    <3> TAKE i \in 1..n
    <3> HAVE i \in S
    <3>1. CASE i <= m
      BY <1>1, <1>2, <3>1
    <3>2. CASE ~(i <= m)
      <4>1. i - m \in 1..(n - m) /\ i - m + m = i
        BY <1>1, <3>2
      <4>2. i - m \in B
        BY <1>2, <4>1
      <4> QED BY <4>1, <4>2 DEF Shift
    <3> QED BY <3>1, <3>2
  <2>5. \A i \in A : i \in S
    BY <1>1, <1>2, <1>4
  <2>6. \A i \in T : i \in S
    BY <1>1, <1>2, <1>4 DEF Shift
  <2> HIDE DEF T
  <2>7. S = A \cup T
    BY <1>4, <2>4, <2>5, <2>6
  <2>8. Cardinality(A \cup T) = Cardinality(A) + Cardinality(T) - Cardinality(A \cap T)
    BY <1>5, <2>1, FS_Union
  <2>9. Cardinality(A \cap T) = 0
    BY <2>3, FS_EmptySet
  <2> QED BY <1>5, <2>1, <2>7, <2>8, <2>9
<1>7. ASSUME NEW k \in 1..Cardinality(A) PROVE W(k) = WordAt(a, Nth(A, k))
  <2> DEFINE i == Nth(A, k)
  <2>1. i \in A /\ Cardinality(Below(A, i)) = k - 1
    BY <1>1, <1>4, NthPlace
  <2> HIDE DEF i
  <2>2. i \in 1..m /\ i \in 1..n
    BY <1>1, <1>4, <2>1
  <2>3. Below(A, i) = Below(S, i)
    <3>1. /\ Below(S, i) \in SUBSET (1..n) /\ \A j \in 1..n : j \in Below(S, i) <=> j \in S /\ j < i
          /\ Below(A, i) \in SUBSET (1..m) /\ \A j \in 1..m : j \in Below(A, i) <=> j \in A /\ j < i
      <4>1. i \in Int
        BY <1>1, <2>2
      <4> QED BY <1>1, <1>4, <4>1, InBelow
    <3>2. \A j \in 1..n : j < i => j \in 1..m
      BY <1>1, <2>2
    <3>3. \A j \in 1..n : j \in Below(S, i) <=> j \in Below(A, i)
      BY <1>2, <3>1, <3>2
    <3>4. \A j \in 1..m : j \in 1..n
      BY <1>1
    <3> QED BY <3>1, <3>3, <3>4
  <2>4. i \in S
    BY <1>2, <2>1, <2>2
  <2>5. Nth(S, k) = i
    BY <1>1, <1>4, <2>1, <2>3, <2>4, NthUnique
  <2>6. SubSeq(s, i, WordEnd(s, i) - 1) = SubSeq(a, i, WordEnd(a, i) - 1)
    <3> DEFINE e == WordEnd(a, i)
    <3>1. e \in i..(m + 1)
      BY <1>1, <2>2, WordEnds
    <3>2. WordEnd(s, i) = e
      BY <1>3, <2>2
    <3> HIDE DEF e
    <3>3. SubSeq(s, i, e - 1) = SubSeq(a, i, e - 1)
      <4>1. CASE e = i
        BY <1>1, <2>2, <4>1, SubSeqEmpty
      <4>2. CASE e # i
        <5>1. 1 \in 1..n /\ m \in 1..n /\ i \in 1..(m - 1 + 1) /\ e - 1 \in 1..(m - 1 + 1)
          BY <1>1, <2>2, <3>1, <4>2
        <5>2. s \in Seq(STRING)
          BY DEF Text
        <5>3. SubSeq(SubSeq(s, 1, m), i, e - 1) = SubSeq(s, 1 + i - 1, 1 + (e - 1) - 1)
          BY <5>1, <5>2, SubSeqOfSubSeq DEF n
        <5>4. 1 + i - 1 = i /\ 1 + (e - 1) - 1 = e - 1
          BY <2>2, <3>1
        <5> QED BY <5>3, <5>4 DEF a
      <4> QED BY <4>1, <4>2
    <3> QED BY <3>2, <3>3 DEF e
  <2> QED BY <2>5, <2>6 DEF WordAt, i
<1>8. ASSUME NEW k \in 1..Cardinality(B) PROVE W(k + Cardinality(A)) = WordAt(b, Nth(B, k))
  <2> DEFINE i == Nth(B, k)
             j == i + m
             h == k + Cardinality(A)
  <2>1. i \in B /\ Cardinality(Below(B, i)) = k - 1
    BY <1>1, <1>4, NthPlace
  <2> HIDE DEF i
  <2>2. i \in 1..(n - m) /\ j \in 1..n /\ j \in S /\ h \in Nat /\ k \in Nat
    BY <1>1, <1>2, <1>4, <1>5, <2>1
  <2> DEFINE U == Shift(Below(B, i), m)
  <2>3. Below(S, j) = A \cup U
    <3>1. /\ Below(S, j) \in SUBSET (1..n) /\ \A l \in 1..n : l \in Below(S, j) <=> l \in S /\ l < j
          /\ Below(B, i) \in SUBSET (1..(n - m))
          /\ \A l \in 1..(n - m) : l \in Below(B, i) <=> l \in B /\ l < i
      <4> DEFINE c == n - m
      <4>1. i \in Int /\ j \in Int /\ c \in Nat /\ B \in SUBSET (1..c)
        BY <1>1, <1>4, <2>2
      <4> HIDE DEF c, j
      <4>2. /\ Below(B, i) \in SUBSET (1..c)
            /\ \A l \in 1..c : l \in Below(B, i) <=> l \in B /\ l < i
        BY <4>1, InBelow
      <4>3. Below(S, j) \in SUBSET (1..n) /\ \A l \in 1..n : l \in Below(S, j) <=> l \in S /\ l < j
        BY <1>1, <1>4, <4>1, InBelow
      <4> QED BY <4>2, <4>3 DEF c
    <3>2. ASSUME NEW l \in 1..n, l \in S, l < j PROVE l \in A \/ l \in U
      <4>1. CASE l <= m
        BY <1>1, <1>2, <3>2, <4>1
      <4>2. CASE ~(l <= m)
        <5>1. l - m \in 1..(n - m) /\ l - m + m = l /\ l - m < i
          BY <1>1, <2>2, <3>2, <4>2
        <5>2. l - m \in B
          BY <1>2, <3>2, <5>1
        <5>3. l - m \in Below(B, i)
          BY <3>1, <5>1, <5>2
        <5> QED BY <5>1, <5>3 DEF Shift
      <4> QED BY <4>1, <4>2
    <3>3. ASSUME NEW l \in A PROVE l \in 1..n /\ l \in S /\ l < j
      BY <1>1, <1>2, <1>4, <2>2
    <3>4. ASSUME NEW l \in U PROVE l \in 1..n /\ l \in S /\ l < j
      <4>1. PICK g \in Below(B, i) : l = g + m
        BY DEF Shift
      <4>2. g \in 1..(n - m) /\ g \in B /\ g < i
        BY <3>1, <4>1
      <4> QED BY <1>1, <1>2, <2>2, <4>1, <4>2
    <3> HIDE DEF U, j
    <3> QED BY <3>1, <3>2, <3>3, <3>4
  <2>4. Cardinality(A \cup U) = Cardinality(A) + (k - 1)
    <3>1. Below(B, i) \in SUBSET (1..(n - m))
      BY <1>4 DEF Below, Config!Below
    <3>2. IsFiniteSet(U) /\ Cardinality(U) = k - 1
      BY <1>1, <2>1, <3>1, Shifted
    <3>3. \A l \in U : l > m
      BY <1>1, <3>1 DEF Shift
    <3>4. \A l \in A : l \in Nat /\ l <= m
      BY <1>1, <1>4
    <3>5. A \cap U = {}
      BY <1>1, <3>3, <3>4
    <3> HIDE DEF U
    <3>6. Cardinality(A \cup U) = Cardinality(A) + Cardinality(U) - Cardinality(A \cap U)
      BY <1>5, <3>2, FS_Union
    <3>7. Cardinality(A \cap U) = 0
      BY <3>5, FS_EmptySet
    <3> QED BY <1>5, <2>2, <3>2, <3>6, <3>7
  <2>5. Cardinality(Below(S, j)) = h - 1
    <3>1. Cardinality(Below(S, j)) = Cardinality(A) + (k - 1)
      BY <2>3, <2>4
    <3> QED BY <1>5, <2>2, <3>1
  <2>6. Nth(S, h) = j
    <3> HIDE DEF h, j
    <3> QED BY <1>1, <1>4, <2>2, <2>5, NthUnique
  <2>7. SubSeq(s, j, WordEnd(s, j) - 1) = SubSeq(b, i, WordEnd(b, i) - 1)
    <3> DEFINE e == WordEnd(b, i)
    <3>1. e \in i..(n - m + 1)
      <4> DEFINE c == n - m
      <4>1. i \in 1..c /\ Len(b) = c
        BY <1>1, <2>2
      <4> HIDE DEF c
      <4>2. e \in i..(c + 1)
        BY <1>1, <4>1, WordEnds
      <4> QED BY <4>2 DEF c
    <3>2. WordEnd(s, j) = e + m
      BY <1>3, <2>2
    <3> HIDE DEF e
    <3>3. SubSeq(s, j, e + m - 1) = SubSeq(b, i, e - 1)
      <4>1. CASE e = i
        <5>1. e + m - 1 < j /\ e - 1 < i /\ e + m - 1 \in Int /\ e - 1 \in Int /\ j \in Int /\ i \in Int
          BY <1>1, <2>2, <4>1
        <5> HIDE DEF j
        <5> QED BY <5>1, SubSeqEmpty
      <4>2. CASE e # i
        <5> DEFINE f == m + 1
                   d == e - 1
        <5>1. f \in 1..n /\ n \in 1..n /\ i \in 1..(n - f + 1) /\ d \in 1..(n - f + 1)
          BY <1>1, <2>2, <3>1, <4>2
        <5>2. s \in Seq(STRING)
          BY DEF Text
        <5>3. SubSeq(SubSeq(s, f, n), i, d) = SubSeq(s, f + i - 1, f + d - 1)
          <6> HIDE DEF f, d
          <6> QED BY <5>1, <5>2, SubSeqOfSubSeq DEF n
        <5>4. f + i - 1 = j /\ f + d - 1 = e + m - 1
          BY <1>1, <2>2, <3>1
        <5>5. b = SubSeq(s, f, n)
          BY DEF b, n
        <5> QED BY <5>3, <5>4, <5>5
      <4> QED BY <4>1, <4>2
    <3> HIDE DEF j
    <3> DEFINE d == WordEnd(s, j)
    <3>4. d = e + m
      BY <3>2
    <3> HIDE DEF d
    <3> DEFINE x == e + m - 1
    <3>5. d - 1 = x
      <4>1. e \in Int /\ m \in Int
        BY <1>1, <2>2, <3>1
      <4> QED BY <3>4, <4>1
    <3>6. SubSeq(s, j, x) = SubSeq(b, i, e - 1)
      BY <3>3
    <3> HIDE DEF x
    <3>7. SubSeq(s, j, d - 1) = SubSeq(b, i, e - 1)
      BY <3>5, <3>6
    <3> QED BY <3>7 DEF d, e
  <2>8. W(h) = WordAt(b, i)
    <3> HIDE DEF h, j
    <3> QED BY <2>6, <2>7 DEF WordAt
  <2> QED BY <2>8 DEF i
<1> DEFINE x == Help!Words(s)
           y == Help!Words(a)
           z == Help!Words(b)
<1>9. /\ x \in Argv /\ Len(x) = Cardinality(S) /\ \A k \in 1..Cardinality(S) : x[k] = W(k)
      /\ y \in Argv /\ Len(y) = Cardinality(A) /\ \A k \in 1..Cardinality(A) : y[k] = WordAt(a, Nth(A, k))
      /\ z \in Argv /\ Len(z) = Cardinality(B) /\ \A k \in 1..Cardinality(B) : z[k] = WordAt(b, Nth(B, k))
  BY <1>1, <1>5, WordsTyped, WordsAreNth DEF S, A, B
<1> HIDE DEF x, y, z, W
<1>10. y \o z \in Argv /\ Len(y \o z) = Len(y) + Len(z)
       /\ \A i \in 1..(Len(y) + Len(z)) : (y \o z)[i] = IF i <= Len(y) THEN y[i] ELSE z[i - Len(y)]
  BY <1>9, ConcatProperties DEF Argv
<1>11. ASSUME NEW k \in 1..Len(x) PROVE x[k] = (y \o z)[k]
  <2>1. CASE k <= Len(y)
    <3>1. k \in 1..Cardinality(A) /\ k \in 1..(Len(y) + Len(z)) /\ k \in 1..Cardinality(S)
      BY <1>5, <1>6, <1>9, <2>1
    <3> QED BY <1>7, <1>9, <1>10, <2>1, <3>1
  <2>2. CASE ~(k <= Len(y))
    <3> DEFINE l == k - Cardinality(A)
    <3>1. l \in 1..Cardinality(B) /\ k \in 1..(Len(y) + Len(z)) /\ k \in 1..Cardinality(S) /\ k = l + Cardinality(A)
      BY <1>5, <1>6, <1>9, <2>2
    <3>2. (y \o z)[k] = z[l]
      BY <1>9, <1>10, <2>2, <3>1
    <3> HIDE DEF l
    <3>3. W(k) = z[l]
      BY <1>8, <1>9, <3>1
    <3> QED BY <1>9, <3>1, <3>2, <3>3
  <2> QED BY <2>1, <2>2
<1>12. x = y \o z
  BY <1>6, <1>9, <1>10, <1>11, SeqEqual DEF Argv
<1> QED BY <1>12 DEF x, y, z, a, b

LEMMA BlankWords ==
    ASSUME NEW s \in Text, \A i \in 1..Len(s) : s[i] = Help!Blank
    PROVE  Help!Words(s) = << >>
<1>1. Starts(s) = {}
  BY StartsPlaces
<1>2. Cardinality(Starts(s)) = 0
  BY <1>1, FS_EmptySet
<1>3. Len(Help!Words(s)) = 0
  BY <1>2, WordsAreNth, WordsTyped
<1>4. Help!Words(s) \in Seq(Seq(STRING))
  BY WordsTyped DEF Argv
<1> QED BY <1>3, <1>4, EmptySeq

LEMMA PartOfPrefix ==
    ASSUME NEW t \in Text, NEW c \in 0..Len(t), NEW i \in 1..(c + 1), NEW j \in (i - 1)..c
    PROVE  SubSeq(SubSeq(t, 1, c), i, j) = SubSeq(t, i, j)
<1>1. Len(t) \in Nat /\ t \in Seq(STRING)
  BY LenProperties DEF Text
<1>2. CASE j = i - 1
  <2>1. i \in Int /\ j \in Int /\ j < i
    BY <1>1, <1>2
  <2> QED BY <2>1, SubSeqEmpty
<1>3. CASE j # i - 1
  <2>1. 1 \in 1..Len(t) /\ c \in 1..Len(t) /\ i \in 1..(c - 1 + 1) /\ j \in 1..(c - 1 + 1)
    BY <1>1, <1>3
  <2>2. SubSeq(SubSeq(t, 1, c), i, j) = SubSeq(t, 1 + i - 1, 1 + j - 1)
    BY <1>1, <2>1, SubSeqOfSubSeq
  <2>3. 1 + i - 1 = i /\ 1 + j - 1 = j
    BY <1>1, <2>1
  <2> QED BY <2>2, <2>3
<1> QED BY <1>2, <1>3

\* A prefix that is a shorter one, a piece and spaces.
LEMMA PieceMore ==
    ASSUME NEW t \in Text, NEW a \in Nat, NEW b \in Nat, NEW c \in Nat,
           a <= b, b <= c, c <= Len(t), Joint(t, a), Joint(t, b),
           \A i \in (b + 1)..c : t[i] = Help!Blank
    PROVE  Help!Words(SubSeq(t, 1, c)) = Help!Words(SubSeq(t, 1, a)) \o Help!Words(SubSeq(t, a + 1, b))
<1>0. Len(t) \in Nat /\ t \in Seq(STRING)
  BY LenProperties DEF Text
<1>1. Help!Words(SubSeq(t, 1, b)) = Help!Words(SubSeq(t, 1, a)) \o Help!Words(SubSeq(t, a + 1, b))
  <2> DEFINE s == SubSeq(t, 1, b)
  <2>1. b \in 0..Len(t) /\ a \in 0..b
    BY <1>0
  <2>2. s \in Text /\ Len(s) = b /\ \A i \in 1..b : s[i] = t[i]
    BY <2>1, Halves
  <2> HIDE DEF s
  <2>3. Joint(s, a)
    <3>1. a # 0 => a \in 1..b
      BY <2>1
    <3>2. a # b => a + 1 \in 1..b
      BY <2>1
    <3>3. a = Len(t) => a = b
      BY <1>0
    <3> QED BY <2>2, <3>1, <3>2, <3>3 DEF Joint
  <2>4. Help!Words(s) = Help!Words(SubSeq(s, 1, a)) \o Help!Words(SubSeq(s, a + 1, b))
    BY <2>1, <2>2, <2>3, WordsCut
  <2>5. SubSeq(s, 1, a) = SubSeq(t, 1, a)
    <3>1. 1 \in 1..(b + 1) /\ a \in (1 - 1)..b
      BY <2>1
    <3> QED BY <2>1, <3>1, PartOfPrefix DEF s
  <2>6. SubSeq(s, a + 1, b) = SubSeq(t, a + 1, b)
    <3> DEFINE i == a + 1
    <3>1. i \in 1..(b + 1) /\ b \in (i - 1)..b
      BY <2>1
    <3> HIDE DEF i
    <3>2. SubSeq(s, i, b) = SubSeq(t, i, b)
      BY <2>1, <3>1, PartOfPrefix DEF s
    <3> QED BY <3>2 DEF i
  <2> QED BY <2>4, <2>5, <2>6 DEF s
<1>2. Help!Words(SubSeq(t, 1, c)) = Help!Words(SubSeq(t, 1, b))
  <2> DEFINE s == SubSeq(t, 1, c)
             r == SubSeq(s, b + 1, c)
  <2>1. c \in 0..Len(t) /\ b \in 0..c
    BY <1>0
  <2>2. s \in Text /\ Len(s) = c /\ \A i \in 1..c : s[i] = t[i]
    BY <2>1, Halves
  <2> HIDE DEF s
  <2>3. Joint(s, b)
    <3>1. b # 0 => b \in 1..c
      BY <2>1
    <3>2. b # c => b + 1 \in 1..c
      BY <2>1
    <3>3. b = Len(t) => b = c
      BY <1>0
    <3> QED BY <2>2, <3>1, <3>2, <3>3 DEF Joint
  <2>4. Help!Words(s) = Help!Words(SubSeq(s, 1, b)) \o Help!Words(r)
    BY <2>1, <2>2, <2>3, WordsCut
  <2>5. r \in Text /\ Len(r) = c - b /\ \A i \in 1..(c - b) : r[i] = s[i + b]
    BY <2>1, <2>2, Halves
  <2> HIDE DEF r
  <2>6. \A i \in 1..Len(r) : r[i] = Help!Blank
    <3> TAKE i \in 1..Len(r)
    <3>1. i \in 1..(c - b) /\ i + b \in (b + 1)..c /\ i + b \in 1..c
      BY <2>1, <2>5
    <3> QED BY <2>2, <2>5, <3>1
  <2>7. Help!Words(r) = << >>
    BY <2>5, <2>6, BlankWords
  <2>8. SubSeq(s, 1, b) = SubSeq(t, 1, b)
    <3>1. 1 \in 1..(c + 1) /\ b \in (1 - 1)..c
      BY <2>1
    <3> QED BY <2>1, <3>1, PartOfPrefix DEF s
  <2>9. Help!Words(SubSeq(s, 1, b)) \in Argv
    <3>1. SubSeq(s, 1, b) \in Text
      BY <2>1, <2>2, Halves
    <3> QED BY <3>1, WordsTyped
  <2> QED BY <2>4, <2>7, <2>8, <2>9, ConcatEmptySeq DEF Argv, s
<1> QED BY <1>1, <1>2

-----------------------------------------------------------------------------
(* The words that are printed *)

Shown(q) == [i \in DOMAIN q |-> Help!Words(SubSeq(text, q[i].from, q[i].to))]

WordsInv ==
    /\ HelpInv
    /\ \A i \in DOMAIN pieces : pieces[i].to <= Len(text)
    /\ Joint(text, help - 1)
    /\ FlattenSeq(Shown(pieces)) = Help!Words(SubSeq(text, 1, help - 1))
    /\ done => help = Len(text) + 1

LEMMA ShownTyped ==
    ASSUME HelpInv, \A i \in DOMAIN pieces : pieces[i].to <= Len(text)
    PROVE  /\ Shown(pieces) \in Seq(Argv) /\ Len(Shown(pieces)) = Len(pieces)
           /\ \A i \in 1..Len(pieces) : Shown(pieces)[i] = Help!Words(SubSeq(text, pieces[i].from, pieces[i].to))
<1>1. Len(text) \in Nat /\ text \in Seq(STRING) /\ \A i \in 1..Len(text) : text[i] \in STRING
  BY TextTyped, ElementOfSeq
<1> DEFINE P == [from : 1..(Len(text) + 1), to : Int]
<1>2. pieces \in Seq(P) /\ \A p \in P : p.from \in 1..(Len(text) + 1) /\ p.to \in Int
  BY DEF HelpInv
<1> HIDE DEF P
<1>3. Len(pieces) \in Nat /\ DOMAIN pieces = 1..Len(pieces)
      /\ \A i \in DOMAIN pieces : pieces[i].from \in 1..(Len(text) + 1) /\ pieces[i].to \in Int
  BY <1>2, LenProperties, ElementOfSeq
<1>4. ASSUME NEW i \in 1..Len(pieces)
      PROVE  Help!Words(SubSeq(text, pieces[i].from, pieces[i].to)) \in Argv
  <2> DEFINE f == pieces[i].from
             e == pieces[i].to
  <2>1. f \in 1..(Len(text) + 1) /\ e \in Int /\ e <= Len(text)
    BY <1>3
  <2> HIDE DEF f, e
  <2>2. \A k \in f..e : text[k] \in STRING
    BY <1>1, <2>1
  <2>3. SubSeq(text, f, e) \in Text
    <3>1. f \in Int
      BY <2>1
    <3> QED BY <2>1, <2>2, <3>1, SubSeqProperties DEF Text
  <2> QED BY <2>3, WordsTyped DEF f, e
<1> DEFINE W(i) == Help!Words(SubSeq(text, pieces[i].from, pieces[i].to))
           n == Len(pieces)
<1>5. n \in Nat /\ \A i \in 1..n : W(i) \in Argv
  BY <1>3, <1>4
<1>6. Shown(pieces) = [i \in 1..n |-> W(i)]
  BY <1>3 DEF Shown
<1> HIDE DEF n, W
<1>7. /\ [i \in 1..n |-> W(i)] \in Seq(Argv) /\ Len([i \in 1..n |-> W(i)]) = n
      /\ \A j \in 1..n : [i \in 1..n |-> W(i)][j] = W(j)
  BY <1>5
<1> QED BY <1>6, <1>7 DEF n, W

\* What a step prints, up to b, and passes over.
PrintsUpTo(b) ==
    /\ text' = text
    /\ help - 1 <= b /\ b < help'
    /\ Joint(text, b)
    /\ \A i \in (b + 1)..(help' - 1) : text[i] = Help!Blank
    /\ pieces' = IF b < help THEN pieces ELSE Append(pieces, [from |-> help, to |-> b])
    /\ done' => help' = Len(text) + 1

LEMMA WordsMore ==
    ASSUME WordsInv, HelpInv', NEW b \in Nat, PrintsUpTo(b)
    PROVE  WordsInv'
<1>1. /\ Len(text) \in Nat /\ text \in Text
      /\ help \in 1..(Len(text) + 1) /\ help' \in 1..(Len(text) + 1)
  BY TextTyped DEF WordsInv, HelpInv, Text, PrintsUpTo
<1>0. PICK h \in 1..(Len(text) + 1) : h = help'
  BY <1>1
<1>00. h \in Nat /\ b < h /\ help - 1 <= b
  BY <1>0, <1>1 DEF PrintsUpTo
<1>01. \A i \in (b + 1)..(h - 1) : text[i] = Help!Blank
  BY <1>0 DEF PrintsUpTo
<1>2. Help!Words(SubSeq(text, 1, h - 1)) =
        Help!Words(SubSeq(text, 1, help - 1)) \o Help!Words(SubSeq(text, help, b))
  <2> DEFINE a == help - 1
             c == h - 1
  <2>1. a \in Nat /\ c \in Nat /\ a <= b /\ b <= c /\ c <= Len(text) /\ a + 1 = help
    <3>1. c \in Nat /\ b <= c
      <4>1. b \in Nat /\ h \in Nat /\ b < h
        BY <1>00
      <4> QED BY <4>1
    <3>2. a \in Nat /\ a <= b /\ a + 1 = help
      BY <1>00, <1>1
    <3>3. c <= Len(text)
      BY <1>0, <1>1
    <3> QED BY <3>1, <3>2, <3>3
  <2>2. Joint(text, a) /\ \A i \in (b + 1)..c : text[i] = Help!Blank
    BY <1>01 DEF WordsInv
  <2> HIDE DEF a, c
  <2>3. Help!Words(SubSeq(text, 1, c)) = Help!Words(SubSeq(text, 1, a)) \o Help!Words(SubSeq(text, a + 1, b))
    BY <1>1, <2>1, <2>2, PieceMore DEF PrintsUpTo
  <2> QED BY <2>1, <2>3 DEF a, c
<1>3. Joint(text, h - 1)
  <2>1. CASE h - 1 = b
    BY <2>1 DEF PrintsUpTo
  <2>2. CASE h - 1 # b
    <3>1. h - 1 \in (b + 1)..(h - 1)
      <4>1. b \in Nat /\ h \in Nat /\ b < h /\ h - 1 # b
        BY <1>00, <2>2
      <4> QED BY <4>1
    <3> QED BY <1>01, <3>1 DEF Joint
  <2> QED BY <2>1, <2>2
<1>4. Shown(pieces) \in Seq(Argv) /\ Help!Words(SubSeq(text, 1, help - 1)) \in Argv
  <2>1. help - 1 \in 0..Len(text)
    BY <1>1
  <2>2. SubSeq(text, 1, help - 1) \in Text
    BY <1>1, <2>1, Halves
  <2> QED BY <2>2, ShownTyped, WordsTyped DEF WordsInv
<1>5. CASE b < help
  <2>1. Help!Words(SubSeq(text, help, b)) = << >>
    <3>1. SubSeq(text, help, b) = << >>
      <4>1. help \in Int /\ b \in Int /\ b < help
        BY <1>1, <1>5
      <4> QED BY <4>1, SubSeqEmpty
    <3>2. << >> \in Text /\ Len(<< >>) = 0
      BY DEF Text
    <3>3. Help!Words(<< >>) = << >>
      BY <3>2, BlankWords
    <3> QED BY <3>1, <3>3
  <2>2. Help!Words(SubSeq(text, 1, h - 1)) = Help!Words(SubSeq(text, 1, help - 1))
    BY <1>2, <1>4, <2>1, ConcatEmptySeq DEF Argv
  <2>3. pieces' = pieces
    BY <1>5 DEF PrintsUpTo
  <2>4. Shown(pieces)' = Shown(pieces)
    BY <2>3 DEF Shown, PrintsUpTo
  <2> QED BY <1>0, <1>3, <2>2, <2>3, <2>4 DEF WordsInv, Joint, PrintsUpTo
<1>6. CASE ~(b < help)
  <2> DEFINE p == [from |-> help, to |-> b]
             w == Help!Words(SubSeq(text, help, b))
  <2>1. pieces' = Append(pieces, p) /\ p.from = help /\ p.to = b
    BY <1>6 DEF PrintsUpTo
  <2> HIDE DEF p
  <2>2. \E S : pieces \in Seq(S)
    BY DEF WordsInv, HelpInv
  <2>3. /\ Len(pieces) \in Nat /\ DOMAIN pieces = 1..Len(pieces)
        /\ DOMAIN pieces' = 1..(Len(pieces) + 1) /\ Len(pieces') = Len(pieces) + 1
        /\ \A i \in 1..(Len(pieces) + 1) : pieces'[i] = IF i <= Len(pieces) THEN pieces[i] ELSE p
    <3>1. PICK S : pieces \in Seq(S)
      BY <2>2
    <3>2. pieces \in Seq(S \cup {p}) /\ p \in S \cup {p}
      BY <3>1
    <3> QED BY <2>1, <3>2, LenProperties
  <2>4. \A i \in DOMAIN pieces' : pieces'[i].to <= Len(text)
    <3> TAKE i \in DOMAIN pieces'
    <3>1. CASE i <= Len(pieces)
      <4>1. i \in DOMAIN pieces /\ pieces'[i] = pieces[i]
        BY <2>3, <3>1
      <4> QED BY <4>1 DEF WordsInv
    <3>2. CASE ~(i <= Len(pieces))
      <4>1. pieces'[i].to = b
        BY <2>1, <2>3, <3>2
      <4>2. b <= Len(text)
        BY <1>0, <1>00, <1>1
      <4> QED BY <4>1, <4>2
    <3> QED BY <3>1, <3>2
  <2>5. w \in Argv
    <3>1. help \in Int /\ b \in Int /\ \A k \in help..b : text[k] \in STRING
      <4>1. \A k \in help..b : k \in 1..Len(text)
        BY <1>0, <1>00, <1>1
      <4>2. \A k \in 1..Len(text) : text[k] \in STRING
        BY <1>1, ElementOfSeq DEF Text
      <4> QED BY <1>1, <4>1, <4>2
    <3>2. SubSeq(text, help, b) \in Text
      BY <3>1, SubSeqProperties DEF Text
    <3> QED BY <3>2, WordsTyped
  <2>6. Shown(pieces)' = Append(Shown(pieces), w)
    <3> DEFINE q == Shown(pieces)
               r == Shown(pieces)'
    <3>1. q \in Seq(Argv) /\ Len(q) = Len(pieces) /\ \A i \in 1..Len(pieces) : q[i] = Help!Words(SubSeq(text, pieces[i].from, pieces[i].to))
      BY ShownTyped DEF WordsInv
    <3>2. r = [i \in 1..(Len(pieces) + 1) |-> Help!Words(SubSeq(text, pieces'[i].from, pieces'[i].to))]
      BY <2>3 DEF Shown, PrintsUpTo
    <3> HIDE DEF q, r
    <3>3. ASSUME NEW i \in 1..(Len(pieces) + 1) PROVE r[i] = IF i <= Len(pieces) THEN q[i] ELSE w
      <4>1. r[i] = Help!Words(SubSeq(text, pieces'[i].from, pieces'[i].to))
        BY <3>2
      <4>2. CASE i <= Len(pieces)
        <5>1. i \in 1..Len(pieces) /\ pieces'[i] = pieces[i]
          BY <2>3, <4>2
        <5> QED BY <3>1, <4>1, <4>2, <5>1
      <4>3. CASE ~(i <= Len(pieces))
        <5>1. pieces'[i] = p
          BY <2>3, <4>3
        <5> QED BY <2>1, <4>1, <4>3, <5>1
      <4> QED BY <4>2, <4>3
    <3> DEFINE n == Len(pieces)
    <3>4. n \in Nat /\ Len(q) = n /\ r = [i \in 1..(n + 1) |-> r[i]]
          /\ \A i \in 1..(n + 1) : r[i] = IF i <= n THEN q[i] ELSE w
      BY <2>3, <3>1, <3>2, <3>3
    <3> HIDE DEF n, w
    <3>5. Append(q, w) \in Seq(Argv) /\ Len(Append(q, w)) = n + 1
          /\ \A i \in 1..(n + 1) : Append(q, w)[i] = IF i <= n THEN q[i] ELSE w
      BY <2>5, <3>1, <3>4
    <3>6. r \in Seq(Argv) /\ Len(r) = n + 1
      <4>1. \A i \in 1..(n + 1) : r[i] \in Argv
        BY <2>5, <3>1, <3>4, ElementOfSeq
      <4>2. [i \in 1..(n + 1) |-> r[i]] \in Seq(Argv) /\ Len([i \in 1..(n + 1) |-> r[i]]) = n + 1
        BY <3>4, <4>1
      <4> QED BY <3>4, <4>2
    <3>7. r = Append(q, w)
      <4> DEFINE x == Append(q, w)
      <4>1. x \in Seq(Argv) /\ Len(x) = Len(r) /\ \A i \in 1..Len(r) : r[i] = x[i]
        BY <3>4, <3>5, <3>6
      <4> HIDE DEF x
      <4>2. r = x
        BY <3>6, <4>1, SeqEqual
      <4> QED BY <4>2 DEF x
    <3> QED BY <3>7 DEF q, r
  <2>7. FlattenSeq(Append(Shown(pieces), w)) = FlattenSeq(Shown(pieces)) \o w
    <3> DEFINE q == Shown(pieces)
    <3>1. q \in Seq(Argv)
      BY <1>4
    <3> HIDE DEF q, w
    <3>2. FlattenSeq(Append(q, w)) = FlattenSeq(q) \o w
      BY <2>5, <3>1, FlattenedWords
    <3> QED BY <3>2 DEF q
  <2>8. FlattenSeq(Shown(pieces))' = Help!Words(SubSeq(text, 1, h - 1))
    <3>1. FlattenSeq(Shown(pieces)) = Help!Words(SubSeq(text, 1, help - 1))
      BY DEF WordsInv
    <3>2. FlattenSeq(Shown(pieces)') = FlattenSeq(Shown(pieces)) \o w
      BY <2>6, <2>7
    <3> HIDE DEF w
    <3> QED BY <1>2, <3>1, <3>2 DEF w
  <2> QED BY <1>0, <1>3, <2>4, <2>8 DEF WordsInv, Joint, PrintsUpTo
<1> QED BY <1>5, <1>6

LEMMA WordsInit == Help!Init => WordsInv
<1> SUFFICES ASSUME Help!Init PROVE WordsInv
  OBVIOUS
<1>1. HelpInv /\ help = 1 /\ pieces = << >> /\ done = FALSE
  BY HelpInit DEF Help!Init
<1>2. << >> \in Text /\ Len(<< >>) = 0 /\ << >> \in Seq(Argv)
  BY DEF Text
<1>3. Help!Words(<< >>) = << >>
  BY <1>2, BlankWords
<1>4. Shown(<< >>) = << >>
  BY DEF Shown
<1>5. FlattenSeq(<< >>) = << >>
  BY <1>2, FlattenedWords
<1>6. SubSeq(text, 1, 0) = << >>
  BY SubSeqEmpty
<1>7. FlattenSeq(Shown(pieces)) = Help!Words(SubSeq(text, 1, help - 1)) /\ help - 1 = 0
  <2>1. help - 1 = 0
    BY <1>1
  <2>2. FlattenSeq(Shown(pieces)) = << >>
    BY <1>1, <1>4, <1>5
  <2>3. SubSeq(text, 1, help - 1) = << >>
    BY <1>6, <2>1
  <2> QED BY <1>3, <2>1, <2>2, <2>3
<1> QED BY <1>1, <1>7 DEF WordsInv, Joint

LEMMA WordsStep == WordsInv /\ [Help!Next]_(Help!vars) => WordsInv'
<1> SUFFICES ASSUME WordsInv, [Help!Next]_(Help!vars) PROVE WordsInv'
  OBVIOUS
<1>1. HelpInv /\ HelpInv'
  BY HelpStep DEF WordsInv
<1>2. /\ Len(text) \in Nat /\ lineLength \in Nat
      /\ help \in 1..(Len(text) + 1)
  BY <1>1, TextTyped DEF HelpInv
<1>3. CASE Help!BreakLine
  <2> DEFINE b == Help!Break
  <2>1. /\ Help!TooLong /\ Help!LastSpace # help /\ ~done
        /\ UNCHANGED <<text, lineLength, done>>
        /\ pieces' = (IF b < help THEN pieces ELSE Append(pieces, [from |-> help, to |-> b]))
        /\ help' = Help!SkipSpaces(b + 1)
    BY <1>3 DEF Help!BreakLine, Help!TooLong
  <2>2. /\ lineLength = 0 => b = help - 1
        /\ lineLength > 0 =>
              /\ b \in (help + 1)..(help + lineLength - 1)
              /\ text[b] = Help!Blank \/ text[b + 1] = Help!Blank
        /\ help + lineLength - 1 < Len(text)
    BY <1>1, <2>1, BreakPlace
  <2> HIDE DEF b
  <2>3. b \in Nat /\ help - 1 <= b /\ b + 1 \in 1..(Len(text) + 1) /\ b < Len(text)
    <3>1. CASE lineLength = 0
      BY <1>2, <2>2, <3>1
    <3>2. CASE lineLength # 0
      <4>1. b \in (help + 1)..(help + lineLength - 1)
        <5>1. lineLength > 0
          BY <1>2, <3>2
        <5>2. lineLength > 0 => b \in (help + 1)..(help + lineLength - 1)
          BY <2>2
        <5> QED BY <5>1, <5>2
      <4> QED BY <1>2, <2>2, <4>1
    <3> QED BY <3>1, <3>2
  <2>4. Joint(text, b)
    <3>1. CASE lineLength = 0
      BY <2>2, <3>1 DEF WordsInv
    <3>2. CASE lineLength # 0
      <4>1. text[b] = Help!Blank \/ text[b + 1] = Help!Blank
        BY <1>2, <2>2, <3>2
      <4> QED BY <4>1 DEF Joint
    <3> QED BY <3>1, <3>2
  <2>5. help' \in (b + 1)..(Len(text) + 1) /\ \A k \in (b + 1)..(help' - 1) : text[k] = Help!Blank
    BY <1>1, <2>1, <2>3, SkipPlace
  <2>6. b < help' /\ ~done'
    BY <1>2, <2>1, <2>3, <2>5
  <2> QED BY <1>1, <2>1, <2>3, <2>4, <2>5, <2>6, WordsMore DEF PrintsUpTo
<1>4. CASE Help!Rest
  <2> DEFINE b == Len(text)
  <2>1. /\ text' = text
        /\ pieces' = (IF Help!helpLength = 0 THEN pieces ELSE Append(pieces, [from |-> help, to |-> b]))
        /\ help' = b + 1
    BY <1>4 DEF Help!Rest
  <2>2. b \in Nat /\ help - 1 <= b /\ b < help' /\ help' - 1 = b
        /\ (Help!helpLength = 0 <=> b < help)
    BY <1>2, <2>1 DEF Help!helpLength
  <2>3. Joint(text, b)
    BY DEF Joint
  <2>4. pieces' = IF b < help THEN pieces ELSE Append(pieces, [from |-> help, to |-> b])
    BY <2>1, <2>2
  <2>5. \A i \in (b + 1)..(help' - 1) : text[i] = Help!Blank
    BY <2>2
  <2>6. done' => help' = Len(text) + 1
    BY <2>1
  <2> HIDE DEF b
  <2> QED BY <1>1, <2>1, <2>2, <2>3, <2>4, <2>5, <2>6, WordsMore DEF PrintsUpTo
<1>5. CASE UNCHANGED Help!vars
  <2>1. UNCHANGED <<text, help, pieces, done>>
    BY <1>5 DEF Help!vars
  <2>2. Shown(pieces)' = Shown(pieces)
    BY <2>1 DEF Shown
  <2> QED BY <1>1, <2>1, <2>2 DEF WordsInv, Joint
<1> QED BY <1>3, <1>4, <1>5 DEF Help!Next

LEMMA WordsMean == WordsInv => BreaksHelp
<1> SUFFICES ASSUME WordsInv PROVE BreaksHelp
  OBVIOUS
<1>1. Help!LinesFit
  BY DEF WordsInv, HelpInv
<1>2. ASSUME done PROVE FlattenSeq(Shown(pieces)) = Help!Words(text)
  <2>1. text \in Seq(STRING) /\ Len(text) \in Nat
    BY TextTyped DEF WordsInv
  <2>2. help - 1 = Len(text)
    BY <1>2, <2>1 DEF WordsInv
  <2>3. SubSeq(text, 1, Len(text)) = text
    BY <2>1, SubSeqFull
  <2> QED BY <2>2, <2>3 DEF WordsInv
<1>3. \A q : Help!FlattenSeq(q) = FlattenSeq(q)
  BY DEF Help!FlattenSeq, FlattenSeq
<1> QED BY <1>1, <1>2, <1>3 DEF BreaksHelp, Help!WordsWhole, Shown

-----------------------------------------------------------------------------
(* The library *)

Inv ==
    /\ IF part = "loops" THEN Loop!TypeInv /\ Loop!StackFits /\ stuffs = 0
       ELSE IF part = "again" THEN AgainInv
       ELSE Parser!TypeInv
    /\ part # "again" => Again!Fresh
    /\ HelpInv

\* The first command line of each kind.
LEMMA ParserInit == Parser!Init => Parser!TypeInv
<1> SUFFICES ASSUME Parser!Init PROVE Parser!TypeInv
  OBVIOUS
<1>1. PICK argv \in Lines : stack = <<Parser!Frame(argv, Parser!NULL)>>
  BY DEF Parser!Init
<1>2. argv \in Parser!Argv
  BY ParsingAssumption DEF Parser!LinesAssumption
<1>3. stack \in Parser!Stacks
  BY <1>1, <1>2, Parser!NewFrame, Parser!FirstStack
<1> QED BY <1>3, Parser!NullTyped, EmptySeq DEF Parser!Init, Parser!TypeInv, Parser!Argv

LEMMA LoopInit == Loop!Init => Loop!TypeInv /\ Loop!StackFits /\ stuffs = 0
<1> SUFFICES ASSUME Loop!Init PROVE Loop!TypeInv /\ Loop!StackFits /\ stuffs = 0
  OBVIOUS
<1>1. PICK argv \in LoopLines : stack = <<Loop!Frame(argv, Loop!NULL)>>
  BY DEF Loop!Init
<1>2. argv \in Loop!Argv /\ LoopDepth \in Nat \ {0}
  BY ParsingAssumption DEF Loop!LinesAssumption
<1>3. stack \in Loop!Stacks /\ Len(stack) = 1
  BY <1>1, <1>2, Loop!NewFrame, Loop!FirstStack
<1>4. Loop!StackFits
  BY <1>2, <1>3 DEF Loop!StackFits
<1> QED BY <1>3, <1>4, Loop!NullTyped, EmptySeq DEF Loop!Init, Loop!TypeInv, Loop!Argv

LEMMA InvInit == Init => Inv
<1> SUFFICES ASSUME Init PROVE Inv
  OBVIOUS
<1>1. HelpInv /\ Again!Fresh
  BY HelpInit DEF Init
<1>2. CASE part = "loops"
  BY <1>1, <1>2, LoopInit DEF Init, Inv
<1>3. CASE part = "again"
  BY <1>1, <1>3, AgainInit DEF Init, Inv, Again!TwiceInit
<1>4. CASE part \notin {"loops", "again"}
  BY <1>1, <1>4, ParserInit DEF Init, Inv
<1> QED BY <1>2, <1>3, <1>4

LEMMA InvStep == Inv /\ [Next]_vars => Inv'
<1> SUFFICES ASSUME Inv, [Next]_vars PROVE Inv'
  OBVIOUS
<1>0. part' = part
  BY DEF Next, vars
<1>1. HelpInv'
  <2>1. [Help!Next]_(Help!vars)
    BY DEF Next, vars, helpVars, Help!vars
  <2> QED BY <2>1, HelpStep DEF Inv
<1>2. part # "again" => Again!Fresh'
  <2>1. part # "again" => UNCHANGED againVars
    BY DEF Next, vars
  <2> QED BY <2>1 DEF Inv, againVars, Again!Fresh, Again!NotYet, Again!NULL
<1>3. CASE part = "loops"
  <2>1. [Loop!Next]_(Loop!vars)
    BY <1>3 DEF Next, vars, lineVars, Loop!vars
  <2>2. Loop!AliasesTyped /\ Loop!LinesAssumption
    BY ParsingAssumption DEF Loop!PoptAssumption, Loop!AliasesTyped
  <2>3. Loop!TypeInv' /\ Loop!StackFits' /\ stuffs' = 0
    BY <1>3, <2>1, <2>2, Loop!TypeInvStep DEF Inv
  <2> QED BY <1>0, <1>1, <1>2, <1>3, <2>3 DEF Inv
<1>4. CASE part = "again"
  <2>1. [Again!TwiceNext]_(Again!twice)
    BY <1>4 DEF Next, vars, lineVars, againVars, Again!vars, Again!execVars, Again!twice
  <2> QED BY <1>0, <1>1, <1>2, <1>4, <2>1, AgainStep DEF Inv
<1>5. CASE part \notin {"loops", "again"}
  <2>1. [Parser!Next]_(Parser!vars)
    BY <1>5 DEF Next, vars, lineVars, Parser!vars
  <2>2. Parser!AliasesTyped /\ Parser!LinesAssumption
    BY ParsingAssumption DEF Parser!PoptAssumption, Parser!AliasesTyped
  <2>3. Parser!TypeInv'
    BY <1>5, <2>1, <2>2, Parser!TypeInvStep DEF Inv
  <2> QED BY <1>0, <1>1, <1>2, <1>5, <2>3 DEF Inv
<1> QED BY <1>3, <1>4, <1>5

LEMMA InvMeans == Inv /\ Config!TypeOK => TypeOK
<1> SUFFICES ASSUME Inv, Config!TypeOK PROVE TypeOK
  OBVIOUS
<1>1. Config!TypeOK /\ Help!TypeOK
  BY HelpMeans DEF Inv
<1>2. part # "again" => Again!TwiceTypeOK
  BY DEF Inv, Again!Fresh, Again!TwiceTypeOK, Again!NULL, Again!NotYet
<1>3. CASE part = "loops"
  <2>1. Loop!TypeOK
    BY <1>3, ParsingAssumption, Loop!TypeInvMeans DEF Inv
  <2> QED BY <1>1, <1>2, <1>3, <2>1 DEF Inv, TypeOK
<1>4. CASE part = "again"
  BY <1>1, <1>4, AgainMeans DEF Inv, TypeOK
<1>5. CASE part \notin {"loops", "again"}
  <2>1. Parser!TypeOK
    BY <1>5, ParsingAssumption, Parser!TypeInvMeans DEF Inv
  <2> QED BY <1>1, <1>2, <1>5, <2>1 DEF TypeOK
<1> QED BY <1>3, <1>4, <1>5

\* What is proved of the reading of configuration files holds of the library.
LEMMA ConfigHolds == Spec => [](Config!TypeOK /\ Config!MeansItsLines /\ Config!WordsKept)
<1>1. Config!PoptConfigAssumption
  BY ParsingAssumption
<1>2. Init => Config!Init
  BY DEF Init
<1>3. [Next]_vars => [Config!Next]_(Config!vars)
  BY DEF Next, vars, configVars, Config!vars
<1>4. Spec => Config!Spec
  BY <1>2, <1>3, PTL DEF Spec, Config!Spec
<1> QED BY <1>1, <1>4, Config!ConfigCorrect, PTL

\* Every part of the library stays within its types and its arrays: the
\* stack of vectors of a parse whose application stuffs nothing within its
\* depth (popt.c:165), the buffer for a line of a configuration file within
\* what is allocated for the file (poptconfig.c:90-125), and help within its
\* text (popthelp.c:102-116).
THEOREM TypeCorrect == Spec => []TypeOK
<1>1. Inv /\ [Next]_vars => Inv'
  BY InvStep
<1> QED BY InvInit, <1>1, InvMeans, ConfigHolds, PTL DEF Spec

\* No word of a help text is cut, lost or printed twice, whatever the text
\* and the width of the column, and a line is wider than its column only
\* where there is no place to break it (popthelp.c:102-116).
THEOREM HelpBroken == Spec => []BreaksHelp
<1>1. Init => WordsInv
  BY WordsInit DEF Init
<1>2. [Next]_vars => [Help!Next]_(Help!vars)
  BY DEF Next, vars, helpVars, Help!vars
<1>3. WordsInv /\ [Next]_vars => WordsInv'
  BY <1>2, WordsStep
<1> QED BY <1>1, <1>3, WordsMean, PTL DEF Spec

\* What a configuration file adds is what its lines say, in their order,
\* whatever the buffer still holds of longer lines, while no line of the
\* application lacks a field; and the words of an alias are those that were
\* written, with backslashes or in quotes (poptconfig.c:103-125,
\* poptparse.c:51-90).
THEOREM ConfigRead == Spec => []ReadsConfig
BY ConfigHolds, PTL DEF ReadsConfig

\* A turn reads on as if the texts of the aliases stood in the command line,
\* unless it is one of the turns that Departs lists (popt.c:156-194,
\* 311-313, 397-409, 429).
LEMMA PartsRead ==
    Inv /\ [Next]_vars =>
        /\ [part = "texts" => Parser!Departs \/ Parser!ReadsOn]_vars
        /\ [part = "loops" => Loop!Departs \/ Loop!ReadsOn]_vars
<1> SUFFICES ASSUME Inv, [Next]_vars
             PROVE  /\ [part = "texts" => Parser!Departs \/ Parser!ReadsOn]_vars
                    /\ [part = "loops" => Loop!Departs \/ Loop!ReadsOn]_vars
  OBVIOUS
<1>1. ASSUME part = "texts" PROVE Parser!Departs \/ Parser!ReadsOn
  <2>1. [Parser!Next]_(Parser!vars)
    BY <1>1 DEF Next, vars, lineVars, Parser!vars
  <2>2. Parser!TypeInv
    BY <1>1 DEF Inv
  <2> QED BY <2>1, <2>2, ParsingAssumption, Parser!StepReads
<1>2. ASSUME part = "loops" PROVE Loop!Departs \/ Loop!ReadsOn
  <2>1. [Loop!Next]_(Loop!vars)
    BY <1>2 DEF Next, vars, lineVars, Loop!vars
  <2>2. Loop!TypeInv
    BY <1>2 DEF Inv
  <2> QED BY <2>1, <2>2, ParsingAssumption, Loop!StepReads
<1> QED BY <1>1, <1>2

\* The parser implements CommandLine but for the turns that Departs lists,
\* whatever the options, the aliases, which may use each other, and the
\* depth of the stack are (popt.c:156-194, 311-313, 397-409, 429).
THEOREM ReadsUnlessDeparts ==
    Spec => /\ [][part = "texts" => Parser!Departs \/ Parser!ReadsOn]_vars
            /\ [][part = "loops" => Loop!Departs \/ Loop!ReadsOn]_vars
<1>1. Inv /\ [Next]_vars => Inv'
  BY InvStep
<1> QED BY InvInit, <1>1, PartsRead, PTL DEF Spec

\* Where none of these turns comes, each alias is read as if its text stood
\* in the command line (popt.c:156-194, 311-313, 403-409).
THEOREM TextsRead == Spec /\ [][part = "texts" => ~Parser!Departs]_vars => ReadsAsText
<1>1. /\ [part = "texts" => Parser!Departs \/ Parser!ReadsOn]_vars
      /\ [part = "texts" => ~Parser!Departs]_vars
      => [part = "texts" => Parser!ReadsOn]_vars
  OBVIOUS
<1> QED BY ReadsUnlessDeparts, <1>1, PTL DEF ReadsAsText
=============================================================================
