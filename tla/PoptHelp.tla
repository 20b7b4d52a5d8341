------------------------------ MODULE PoptHelp ------------------------------
(***************************************************************************)
(* How popt breaks the help text of an option into the lines to the right  *)
(* of the column of options (singleOptionHelp of popt/popthelp.c).  A turn *)
(* of the loop is a step; arithmetic is that of int, and a piece is what   *)
(* one call of fprintf shows of the text.                                  *)
(***************************************************************************)
EXTENDS Integers, Sequences, FiniteSetsExt, SequencesExt

CONSTANTS
    Texts,     \* the help texts: sequences of letters and " "
    LeftCols,  \* the widths of the column of options, maxLeftCol
    Columns    \* the width of a line: 79

\* With a wider column of options the code reads before the text.
PoptHelpAssumption ==
    /\ Texts \subseteq Seq(STRING)
    /\ Columns \in Nat
    /\ LeftCols \subseteq 0..(Columns - 5)

Blank == " "

VARIABLES
    text,       \* the text of the option
    lineLength, \* what the column of options leaves of a line
    help,       \* the first character that is not printed
    pieces,     \* what each line shows, unless nothing: from where to where
    done        \* the function has returned

vars == <<text, lineLength, help, pieces, done>>

Indent(maxLeftCol) == maxLeftCol + 5

Init ==
    /\ text \in Texts
    /\ \E maxLeftCol \in LeftCols : lineLength = Columns - Indent(maxLeftCol)
    /\ help = 1
    /\ pieces = << >>
    /\ done = FALSE

TypeOK ==
    /\ text \in Texts
    /\ lineLength \in Int
    /\ help \in 1..(Len(text) + 1)
    /\ \A i \in DOMAIN pieces : pieces[i].from \in 1..(Len(text) + 1)

-----------------------------------------------------------------------------
helpLength == Len(text) - help + 1

TooLong == ~done /\ helpLength > lineLength

\* Where a line is broken: the last space in it, or its first character when
\* there is none.
LastSpace ==
    LET ch == help + lineLength - 1
    IN  Max({i \in help..ch : text[i] = Blank \/ i = help} \cup {Min({help, ch})})

\* The spaces before it are left out, up to the second character.
Break == Max({i \in help..LastSpace : text[i] # Blank \/ i = help + 1} \cup {Min({help, LastSpace})})

SkipSpaces(i) == Min({j \in i..Len(text) : text[j] # Blank} \cup {Len(text) + 1})

\* Faulty: the line is cut where it is full.
BreakFull ==
    /\ TooLong /\ LastSpace # help
    /\ pieces' = Append(pieces, [from |-> help, to |-> help + lineLength - 1])
    /\ help' = SkipSpaces(help + lineLength)
    /\ UNCHANGED <<text, lineLength, done>>

\* A turn prints one line and passes over the spaces after it.
BreakLine ==
    /\ TooLong /\ LastSpace # help
    /\ pieces' = IF Break < help THEN pieces ELSE Append(pieces, [from |-> help, to |-> Break])
    /\ help' = SkipSpaces(Break + 1)
    /\ UNCHANGED <<text, lineLength, done>>

\* The rest, which fits, or which has no place to break it.
Rest ==
    /\ ~done
    /\ TooLong => LastSpace = help
    /\ pieces' = IF helpLength = 0 THEN pieces ELSE Append(pieces, [from |-> help, to |-> Len(text)])
    /\ help' = Len(text) + 1
    /\ done' = TRUE
    /\ UNCHANGED <<text, lineLength>>

Next == BreakLine \/ Rest

\* The function runs.
Spec == Init /\ [][Next]_vars /\ WF_vars(Next)

-----------------------------------------------------------------------------
(* Properties *)

Words(s) ==
    LET starts == {i \in DOMAIN s : s[i] # Blank /\ (i = 1 \/ s[i - 1] = Blank)}
        WordAt(i) == SubSeq(s, i, Min({j \in i..Len(s) : s[j] = Blank} \cup {Len(s) + 1}) - 1)
    IN  [k \in 1..Cardinality(starts) |->
            WordAt(CHOOSE i \in starts : Cardinality({j \in starts : j < i}) = k - 1)]

\* No word of the help text is cut, lost or printed twice, however spaces
\* and words fall on the ends of lines (popthelp.c:102-116).
WordsWhole ==
    done => FlattenSeq([i \in DOMAIN pieces |-> Words(SubSeq(text, pieces[i].from, pieces[i].to))]) = Words(text)

\* A line is wider than its column only if it begins with a word that is, or
\* with white space and such a word: there was no place to break it.
LinesFit ==
    \A i \in DOMAIN pieces :
        LET p == pieces[i] IN
        p.to - p.from + 1 > lineLength =>
            \A k \in (p.from + 1)..(p.from + lineLength - 1) : text[k] # Blank

\* "give up" (popthelp.c:105): the text is printed to its end, also where
\* there is no place to break it.
HelpEnds == <>done
=============================================================================
