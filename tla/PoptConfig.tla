----------------------------- MODULE PoptConfig -----------------------------
(***************************************************************************)
(* How popt reads aliases from a file: poptReadConfigFile gathers logical  *)
(* lines in one buffer, configLine cuts a line into its fields and         *)
(* poptParseArgvString cuts the last field into words                      *)
(* (popt/poptconfig.c, popt/poptparse.c).  A turn of the reading loop is a *)
(* step; a step at the end of a line does all of configLine.               *)
(*                                                                         *)
(* A character is a string, which may stand for several that are never     *)
(* told apart.                                                             *)
(*                                                                         *)
(* Left out: a file that cannot be opened or read, and memory.             *)
(***************************************************************************)
EXTENDS Integers, Sequences, FiniteSetsExt, SequencesExt

CONSTANTS
    App,   \* appName
    Files  \* what may be in the file

NUL   == "NUL"    \* the character that ends a string
UNSET == "unset"  \* what has never been written
Space == {" ", "\t", "\n"}
Quote == {"'", "\""}

\* The files are texts, and the name of a program is a word of them that is
\* not taken for a comment.
PoptConfigAssumption ==
    /\ App \in Seq(STRING \ (Space \cup {NUL, UNSET})) \ {<< >>} /\ App[1] # "#"
    /\ Files \subseteq Seq(STRING \ {NUL, UNSET})

VARIABLES
    file,
    chptr,   \* the next character of the file
    buf,     \* the buffer for a line, which keeps what earlier lines left
    dst,     \* where the next character goes
    entries, \* the aliases and execs added to the context
    status   \* reading, done, or beyond what the buffer holds

vars == <<file, chptr, buf, dst, entries, status>>

TypeOK ==
    /\ file \in Files
    /\ chptr \in 1..(Len(file) + 1)
    /\ DOMAIN buf = 1..(Len(file) + 1)
    /\ dst \in DOMAIN buf
    /\ \A i \in DOMAIN entries : entries[i].kind \in {"alias", "exec"}
    /\ status \in {"reading", "done", "wild"}

Init ==
    /\ file \in Files
    /\ chptr = 1
    /\ buf = [i \in 1..(Len(file) + 1) |-> UNSET]
    /\ dst = 1
    /\ entries = << >>
    /\ status = "reading"

-----------------------------------------------------------------------------
(* poptParseArgvString *)

\* Faulty: a quotation mark ends a quotation of the other kind, too.
CharAnyQuote(so_far, c) ==
    LET Emit(s, cs) == [s EXCEPT !.word = @ \o cs, !.escaped = FALSE]
    IN  IF so_far.escaped
        THEN Emit(so_far, IF so_far.quote \notin {NUL, c} THEN <<"\\", c>> ELSE <<c>>)
        ELSE IF so_far.quote # NUL /\ c \in Quote THEN [so_far EXCEPT !.quote = NUL]
        ELSE IF c = "\\" THEN [so_far EXCEPT !.escaped = TRUE]
        ELSE IF so_far.quote # NUL THEN Emit(so_far, <<c>>)
        ELSE IF c \in Quote THEN [so_far EXCEPT !.quote = c]
        ELSE IF c \notin Space THEN Emit(so_far, <<c>>)
        ELSE IF so_far.word = << >> THEN so_far
        ELSE [so_far EXCEPT !.argv = Append(@, so_far.word), !.word = << >>]

\* A turn of the loop.  In quotes a backslash stays, unless it stands before
\* the mark that would end them.
Char(so_far, c) ==
    LET Emit(s, cs) == [s EXCEPT !.word = @ \o cs, !.escaped = FALSE]
    IN  IF so_far.escaped
        THEN Emit(so_far, IF so_far.quote \notin {NUL, c} THEN <<"\\", c>> ELSE <<c>>)
        ELSE IF so_far.quote = c THEN [so_far EXCEPT !.quote = NUL]
        ELSE IF c = "\\" THEN [so_far EXCEPT !.escaped = TRUE]
        ELSE IF so_far.quote # NUL THEN Emit(so_far, <<c>>)
        ELSE IF c \in Quote THEN [so_far EXCEPT !.quote = c]
        ELSE IF c \notin Space THEN Emit(so_far, <<c>>)
        ELSE IF so_far.word = << >> THEN so_far
        ELSE [so_far EXCEPT !.argv = Append(@, so_far.word), !.word = << >>]

\* Only a backslash at the end is an error; a word that is empty is none.
ParseArgvString(s) ==
    LET read[n \in 0..Len(s)] ==
            IF n = 0 THEN [quote |-> NUL, escaped |-> FALSE, word |-> << >>, argv |-> << >>]
            ELSE Char(read[n - 1], s[n])
        end == read[Len(s)]
    IN  [bad  |-> end.escaped,
         argv |-> IF end.word = << >> THEN end.argv ELSE Append(end.argv, end.word)]

-----------------------------------------------------------------------------
(* configLine *)

\* The first character from i on that is no white space.
Skip(b, i) == Min({j \in DOMAIN b : j >= i /\ b[j] \notin Space})

\* The first white space from i on, the end of strings notwithstanding; the
\* set is empty when there is none in what has been written.
Past(b, i) ==
    {j \in DOMAIN b : /\ j >= i /\ b[j] \in Space
                      /\ \A k \in i..(j - 1) : b[k] \notin Space \cup {UNSET}}

\* The string at i.
Text(b, i) == SubSeq(b, i, Min({j \in DOMAIN b : j >= i /\ b[j] = NUL}) - 1)

\* Only options with their dashes are kept as names.
Key(opt) ==
    IF IsPrefix(<<"-", "-">>, opt) THEN opt
    ELSE IF Len(opt) = 2 /\ opt[1] = "-" THEN opt ELSE << >>

\* What the fields at type, opt and rest add.
Added(b, type, opt, rest) ==
    LET parsed == ParseArgvString(Text(b, rest))
        Entry(argv) == [kind |-> Text(b, type)[1], key |-> Key(Text(b, opt)),
                        text |-> Text(b, rest), argv |-> argv]
    IN  IF Text(b, type) = <<"alias">>
        THEN IF parsed.bad THEN << >> ELSE <<Entry(parsed.argv)>>
        ELSE IF Text(b, type) = <<"exec">> THEN <<Entry(<<Text(b, rest)>>)>>
        ELSE << >>

Result(b, added, wild) == [buf |-> b, added |-> added, wild |-> wild]

\* Each field is ended by a NUL in the buffer.  The search for its end does
\* not stop at the end of the line.
ConfigLine(b, line) ==
    LET n    == line + Len(App)
        type == Skip(b, n)
        b1   == [b EXCEPT ![Min(Past(b, type))] = NUL]
        opt  == Skip(b1, Min(Past(b, type)) + 1)
        b2   == [b1 EXCEPT ![Min(Past(b1, opt))] = NUL]
        rest == Skip(b2, Min(Past(b1, opt)) + 1)
    IN  IF ~IsPrefix(App, Text(b, line)) \/ b[n] \notin Space THEN Result(b, << >>, FALSE)
        ELSE IF Past(b, type) = {} THEN Result(b, << >>, TRUE)
        ELSE IF b1[opt] = NUL THEN Result(b1, << >>, FALSE)
        ELSE IF Past(b1, opt) = {} THEN Result(b1, << >>, TRUE)
        ELSE IF b2[rest] = NUL THEN Result(b2, << >>, FALSE)
        ELSE Result(b2, Added(b2, type, opt, rest), FALSE)

-----------------------------------------------------------------------------
(* poptReadConfigFile *)

Reading(c) == status = "reading" /\ chptr <= Len(file) /\ file[chptr] = c

\* The line is complete.  The next one is put where this one began, behind
\* its white space.
Newline ==
    /\ Reading("\n")
    /\ LET b     == [buf EXCEPT ![dst] = NUL]
           line  == Skip(b, 1)
           found == IF b[line] \in {NUL, "#"} THEN Result(b, << >>, FALSE) ELSE ConfigLine(b, line)
       IN  /\ buf' = found.buf
           /\ dst' = line
           /\ entries' = entries \o found.added
           /\ status' = IF found.wild THEN "wild" ELSE status
    /\ chptr' = chptr + 1
    /\ UNCHANGED file

Put(cs, consumed) ==
    /\ buf' = [i \in DOMAIN buf |-> IF i \in dst..(dst + Len(cs) - 1) THEN cs[i - dst + 1] ELSE buf[i]]
    /\ dst' = dst + Len(cs)
    /\ chptr' = chptr + consumed
    /\ UNCHANGED <<file, entries, status>>

\* A backslash goes with the character after it, unless that ends the line.
Backslash ==
    /\ Reading("\\")
    /\ IF chptr = Len(file) THEN Put(<<"\\">>, 1)
       ELSE IF file[chptr + 1] = "\n" THEN Put(<< >>, 2)
       ELSE Put(<<"\\", file[chptr + 1]>>, 2)

Other == \E c \in Range(file) \ {"\n", "\\"} : Reading(c) /\ Put(<<c>>, 1)

\* A line without its newline is not looked at.
EndOfFile ==
    /\ status = "reading" /\ chptr > Len(file)
    /\ status' = "done"
    /\ UNCHANGED <<file, chptr, buf, dst, entries>>

Next == Newline \/ Backslash \/ Other \/ EndOfFile

Spec == Init /\ [][Next]_vars

-----------------------------------------------------------------------------
(* Properties *)

\* The logical lines that end before position n of the file: a backslash
\* makes the newline after it disappear, and keeps any other character.
Escaped(i) ==
    \E n \in 1..(i - 1) : /\ n % 2 = 1
                          /\ \A k \in (i - n)..(i - 1) : file[k] = "\\"
                          /\ i - n = 1 \/ file[i - n - 1] # "\\"
Ends(n)  == {i \in 1..(n - 1) : file[i] = "\n" /\ ~Escaped(i)}
Line(e)  ==
    LET first == Max({0} \cup Ends(e)) + 1
        kept  == {i \in first..(e - 1) :
                    ~(Escaped(i) /\ file[i] = "\n") /\ ~(Escaped(i + 1) /\ file[i + 1] = "\n" /\ file[i] = "\\")}
    IN  [k \in 1..Cardinality(kept) |->
            CHOOSE i \in kept : Cardinality({j \in kept : j < i}) = k - 1]

\* What a logical line says: its fields begin behind white space.
Says(e) ==
    LET at     == Line(e)
        text   == [k \in DOMAIN at |-> file[at[k]]]
        starts == {k \in DOMAIN text : text[k] \notin Space /\ (k = 1 \/ text[k - 1] \in Space)}
        Start(n) == CHOOSE k \in starts : Cardinality({j \in starts : j < k}) = n - 1
        Field(n) ==
            LET behind == {j \in Start(n)..Len(text) : text[j] \in Space}
            IN  SubSeq(text, Start(n), Min(behind \cup {Len(text) + 1}) - 1)
        fields == Cardinality(starts)
    IN  [ours     |-> fields > 0 /\ Field(1) = App /\ Len(text) >= Start(1) + Len(App),
         complete |-> fields >= 4,
         kind     |-> IF fields >= 4 THEN Field(2) ELSE << >>,
         key      |-> IF fields >= 4 THEN Key(Field(3)) ELSE << >>,
         text     |-> IF fields >= 4 THEN SubSeq(text, Start(4), Len(text)) ELSE << >>]

AddedBy(e) ==
    LET said == Says(e) IN
    IF ~said.ours \/ ~said.complete \/ said.kind \notin {<<"alias">>, <<"exec">>} THEN << >>
    ELSE IF said.kind = <<"alias">> /\ ParseArgvString(said.text).bad THEN << >>
    ELSE <<[kind |-> said.kind[1], key |-> said.key, text |-> said.text]>>

\* What the lines say that end before position n, one after the other.
Stated(n) == FlattenSeq([i \in 1..(n - 1) |-> IF i \in Ends(n) THEN AddedBy(i) ELSE << >>])

\* While no line of the application lacks a field, the entries are what the
\* lines of the file say, in their order, however lines are indented,
\* continued and commented out, and whatever the buffer still holds of
\* longer lines (poptconfig.c:103-125).
MeansItsLines ==
    (\A e \in Ends(chptr) : Says(e).ours => Says(e).complete) =>
        /\ status # "wild"
        /\ [i \in DOMAIN entries |-> [kind |-> entries[i].kind, key |-> entries[i].key, text |-> entries[i].text]] = Stated(chptr)

\* "The rest of the line specifies the expansion" (popt.3:510): what an
\* option expands to was on its line.
RestOfItsLine ==
    \A i \in DOMAIN entries : \E e \in Ends(chptr) :
        Says(e).key = entries[i].key /\ Says(e).text = entries[i].text

\* The ways to write words that poptParseArgvString documents: with a
\* backslash before what is special, or in quotes.
Shielded(w, S) == FlattenSeq([k \in DOMAIN w |-> IF w[k] \in S THEN <<"\\", w[k]>> ELSE <<w[k]>>])
Escape(w)      == Shielded(w, Space \cup Quote \cup {"\\"})
InQuotes(q, w) == <<q>> \o Shielded(w, {q}) \o <<q>>

\* Words of any characters that are written with backslashes, and those
\* without backslashes that are written in quotes of either kind, are the
\* words of the alias (popt.3:511, poptparse.c:51-90).
WordsKept ==
    \A i \in DOMAIN entries : \A j \in DOMAIN entries[i].argv :
        LET e == entries[i]
            w == e.argv[j]
            Written(how) == [k \in DOMAIN e.argv |-> IF k = j THEN how ELSE Escape(e.argv[k])]
        IN  e.kind = "alias" =>
                /\ ParseArgvString(Escape(w)).argv = <<w>>
                /\ "\\" \notin Range(w) =>
                      \A q \in Quote : ParseArgvString(InQuotes(q, w)).argv = <<w>>
                /\ \A how \in {Escape(w)} \cup (IF "\\" \in Range(w) THEN {} ELSE {InQuotes(q, w) : q \in Quote}) :
                      ParseArgvString(FlattenSeq([k \in DOMAIN e.argv |-> Written(how)[k] \o <<" ">>])).argv = e.argv

\* A quotation that is not ended is an error (popt.3:430).
MismatchReported ==
    \A i \in DOMAIN entries :
        LET marks == {k \in DOMAIN entries[i].text : entries[i].text[k] \in Quote}
        IN  entries[i].kind = "alias" => Cardinality(marks) # 1
=============================================================================
