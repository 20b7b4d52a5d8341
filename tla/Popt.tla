-------------------------------- MODULE Popt --------------------------------
(***************************************************************************)
(* The option parser popt (popt/popt.c): poptGetNextOpt takes the words of *)
(* a stack of argument vectors, the command line at its bottom and above   *)
(* it the texts of the aliases being read and the words stuffed by the     *)
(* application.  A turn of its loop is a step; a call of it, which may     *)
(* take several turns, ends with an option that the application asked to   *)
(* be returned, with an error or with the end.                             *)
(*                                                                         *)
(* What becomes of an option that is an exec is in module PoptExec.        *)
(***************************************************************************)
EXTENDS PoptWords, FiniteSetsExt

CONSTANTS
    Depth,   \* POPT_OPTION_DEPTH
    Posix,   \* POPT_CONTEXT_POSIXMEHARDER
    Lines,   \* the command lines, without argv[0]
    Stuffs,  \* the vectors the application may stuff
    Stuffed  \* how many times it does

LinesAssumption ==
    /\ Depth \in Nat \ {0}
    /\ Posix \in BOOLEAN
    /\ Lines \cup Stuffs \subseteq Argv

VARIABLES
    stack,     \* optionStack up to os
    rest,      \* restLeftover
    leftovers,
    longArg,   \* the local of poptGetNextOpt: what follows an "=", and in which word
    seen,      \* the options handed over: by a callback, a variable or a return
    dropped,   \* the options that nothing was done about
    stuffs,    \* the vectors stuffed so far
    pc         \* in the application, in a call, or how parsing ended

vars == <<stack, rest, leftovers, longArg, seen, dropped, stuffs, pc>>

Frame(argv, key) == [argv |-> argv, next |-> 1, chars |-> NULL, nextArg |-> NULL, alias |-> key]

NoLongArg == [value |-> NULL, of |-> NULL]
Ended     == {"end", "badopt", "noarg", "badnumber", "toodeep"}

TypeOK ==
    /\ stack # << >>
    /\ \A i \in DOMAIN stack :
          /\ stack[i].next \in 1..(Len(stack[i].argv) + 1)
          /\ stack[i].alias \in DOMAIN Alias => stack[i].argv = Alias[stack[i].alias]
    /\ longArg # NoLongArg => IsOption(longArg.of)
    /\ pc \in {"app", "call"} \cup Ended

Init ==
    /\ stack \in {<<Frame(argv, NULL)>> : argv \in Lines}
    /\ rest = FALSE
    /\ leftovers = << >>
    /\ longArg = NoLongArg
    /\ seen = << >>
    /\ dropped = {}
    /\ stuffs = 0
    /\ pc = "app"

-----------------------------------------------------------------------------
(* The stack *)

HasWords(f) == f.next <= Len(f.argv)

\* Faulty: only one vector that is read is left.
UnwindOne(s) ==
    IF Len(s) > 1 /\ ~HasWords(s[Len(s)]) /\ s[Len(s)].chars = NULL
    THEN SubSeq(s, 1, Len(s) - 1) ELSE s

\* Vectors that are read are left, at the start of a turn ...
Unwind(s) == SubSeq(s, 1, Max({1} \cup {i \in DOMAIN s : HasWords(s[i]) \/ s[i].chars # NULL}))

\* ... and for an argument, without a look at their letters.
UnwindForArg(s) == SubSeq(s, 1, Max({1} \cup {i \in DOMAIN s : HasWords(s[i])}))

Here == Unwind(stack)
Top  == Here[Len(Here)]
Text == Top.argv[Top.next]

\* The stack with the next word of its top taken, or with its letters set.
Taken         == [Here EXCEPT ![Len(Here)].next = @ + 1]
Chars(s, cs)  == [s EXCEPT ![Len(s)].chars = cs]

ReadsLetters == Top.chars # NULL
ReadsWord    == ~ReadsLetters /\ HasWords(Top)

Goes(s) == stack' = s /\ pc' = pc
Stops(s, how) == stack' = s /\ pc' = how

-----------------------------------------------------------------------------
(* Aliases and execs *)

\* handleAlias compares the name with the alias on top only.
Expands(key) == key \in DOMAIN Alias /\ key # Top.alias

\* Faulty: the new level keeps the words of the one below.
HandleAliasStale(key, s, chars) ==
    /\ IF Len(s) = Depth
       THEN Goes(s) /\ dropped' = dropped \cup {key}
       ELSE Goes(Append(Chars(s, chars), Frame(s[Len(s)].argv, key))) /\ UNCHANGED dropped
    /\ UNCHANGED <<rest, leftovers, longArg, seen, stuffs>>

\* Faulty: an alias that is too deep is tried again.
HandleAliasAgain(key, s, chars) ==
    /\ IF Len(s) = Depth
       THEN Goes(stack) /\ dropped' = dropped \cup {key}
       ELSE Goes(Append(Chars(s, chars), Frame(Alias[key], key))) /\ UNCHANGED dropped
    /\ UNCHANGED <<rest, leftovers, longArg, seen, stuffs>>

\* The text of the alias goes on the stack; poptGetNextOpt takes the error
\* for an expansion.
HandleAlias(key, s, chars) ==
    /\ IF Len(s) = Depth
       THEN Goes(s) /\ dropped' = dropped \cup {key}
       ELSE Goes(Append(Chars(s, chars), Frame(Alias[key], key))) /\ UNCHANGED dropped
    /\ UNCHANGED <<rest, leftovers, longArg, seen, stuffs>>

HandleExec(s) == Goes(s) /\ UNCHANGED <<rest, leftovers, longArg, seen, dropped, stuffs>>

-----------------------------------------------------------------------------
(* Options *)

FromNext(s) ==
    LET u == UnwindForArg(s) IN
    [u EXCEPT ![Len(u)].nextArg = u[Len(u)].argv[u[Len(u)].next], ![Len(u)].next = @ + 1]

\* The stack when the argument of an option is found, in nextArg: what was
\* behind an "=", the letters behind the option, the next word.
WithArgument(s, long) ==
    IF long.value # NULL THEN [s EXCEPT ![Len(s)].nextArg = long.value]
    ELSE IF s[Len(s)].chars # NULL THEN Chars([s EXCEPT ![Len(s)].nextArg = s[Len(s)].chars], NULL)
    ELSE FromNext(s)

\* The callback gets the nextArg of the top, of the option itself or left
\* there by an earlier one.  After a return the application takes away the
\* argument of an option that has one (poptGetOptArg).
HandOver(o, s, long) ==
    LET fetched == o.returns /\ Argument(o) IN
    /\ seen' = Append(seen, [option |-> o,
                             arg |-> IF fetched \/ ~o.returns THEN s[Len(s)].nextArg ELSE NULL,
                             of  |-> IF Argument(o) THEN long.of ELSE NULL])
    /\ IF fetched THEN Stops([s EXCEPT ![Len(s)].nextArg = NULL], "app")
       ELSE IF o.returns THEN Stops(s, "app") ELSE Goes(s)
    /\ longArg' = long
    /\ UNCHANGED <<rest, leftovers, dropped, stuffs>>

Refuse(s, how) == Stops(s, how) /\ UNCHANGED <<rest, leftovers, longArg, seen, dropped, stuffs>>

Option(o, s, long) ==
    LET lacks == long.value = NULL /\ s[Len(s)].chars = NULL
                 /\ ~HasWords(UnwindForArg(s)[Len(UnwindForArg(s))])
        t     == WithArgument(s, long)
    IN  IF ~Argument(o) THEN HandOver(o, s, long)
        ELSE IF lacks THEN Refuse(UnwindForArg(s), "noarg")
        ELSE IF o.takes = "int" /\ t[Len(t)].nextArg \notin Numbers THEN Refuse(t, "badnumber")
        ELSE HandOver(o, t, long)

\* What handleAlias takes for the letters behind a lone dash lies behind the
\* end of the word: nothing or, as in the argv of a process, the next word.
Behind(f) == {NULL} \cup {f.argv[i] : i \in {f.next} \cap DOMAIN f.argv}

\* A lone dash for which there is no option is a letter that is none, which
\* is also what the long aliases and execs have; the last of them is taken.
NoLetter(s) ==
    IF LongOnes(DOMAIN Alias) # {}
    THEN \E chars \in Behind(s[Len(s)]) : HandleAlias(CHOOSE key \in LongOnes(DOMAIN Alias) : TRUE, s, chars)
    ELSE IF LongOnes(Exec) # {} THEN HandleExec(s)
    ELSE Refuse(s, "badopt")

\* The second half of a turn, for the first of some letters.
Letter(chars, s, long) ==
    LET c == Head(chars) IN
    IF chars = NULL THEN NoLetter(s)
    ELSE IF Expands(ShortKey(c)) THEN HandleAlias(ShortKey(c), Chars(s, NULL), Tail(chars))
    ELSE IF ShortKey(c) \in Exec THEN HandleExec(Chars(s, NULL))
    ELSE IF FindShort(c) = {} THEN Refuse(Chars(s, NULL), "badopt")
    ELSE Option(CHOOSE o \in FindShort(c) : TRUE, Chars(s, Tail(chars)), long)

-----------------------------------------------------------------------------
(* poptGetNextOpt *)

Call ==
    /\ pc = "app"
    /\ pc' = "call"
    /\ longArg' = NoLongArg
    /\ UNCHANGED <<stack, rest, leftovers, seen, dropped, stuffs>>

End ==
    /\ pc = "call"
    /\ ~ReadsLetters /\ ~ReadsWord
    /\ Refuse(Here, "end")

Leftover ==
    /\ pc = "call" /\ ReadsWord
    /\ rest \/ ~IsOption(Text)
    /\ leftovers' = Append(leftovers, Text)
    /\ rest' = (rest \/ Posix)
    /\ Goes(Taken)
    /\ UNCHANGED <<longArg, seen, dropped, stuffs>>

RestIsLeftover ==
    /\ pc = "call" /\ ReadsWord /\ ~rest
    /\ Text = DashDash
    /\ rest' = TRUE
    /\ Goes(Taken)
    /\ UNCHANGED <<leftovers, longArg, seen, dropped, stuffs>>

OptionWord == pc = "call" /\ ReadsWord /\ ~rest /\ IsOption(Text) /\ Text # DashDash

AliasWord ==
    /\ OptionWord
    /\ Expands(LongKey(Text))
    /\ HandleAlias(LongKey(Text), Taken, NULL)

ExecWord ==
    /\ OptionWord
    /\ LongKey(Text) \in Exec
    /\ HandleExec(Taken)

\* A word that is neither: an option by its name, or else letters.  What
\* follows an "=" stays in longArg until the call returns.
PlainWord ==
    LET long == IF Given(Text) = NULL THEN longArg ELSE [value |-> Given(Text), of |-> Text] IN
    /\ OptionWord
    /\ ~Expands(LongKey(Text)) /\ LongKey(Text) \notin Exec
    /\ IF FindLong(Text) # {} THEN Option(CHOOSE o \in FindLong(Text) : TRUE, Taken, long)
       ELSE IF IsLong(Text) THEN Refuse(Taken, "badopt")
       ELSE Letter(Bare(Text), Taken, long)

NextLetter ==
    /\ pc = "call" /\ ReadsLetters
    /\ Letter(Top.chars, Here, longArg)

\* poptStuffArgs
StuffArgs ==
    /\ pc = "app"
    /\ stuffs < Stuffed
    /\ Len(stack) - 1 # Depth
    /\ stack' \in {Append(stack, Frame(argv, NULL)) : argv \in Stuffs}
    /\ stuffs' = stuffs + 1
    /\ UNCHANGED <<rest, leftovers, longArg, seen, dropped, pc>>

\* The application is done, or gives up with an error.
Over == pc \in Ended /\ UNCHANGED vars

Turn == End \/ Leftover \/ RestIsLeftover \/ AliasWord \/ ExecWord \/ PlainWord \/ NextLetter

Next == Call \/ Turn \/ StuffArgs \/ Over

\* The application calls until there are no more options, and the loop of
\* the call runs; nothing obliges the application to stuff anything.
Spec == Init /\ [][Next]_vars /\ WF_vars(Call) /\ WF_vars(Turn)

-----------------------------------------------------------------------------
(* Properties *)

\* The parser reads as if the text of each alias stood in the command line
\* in its place, and stuffed words before the rest (module CommandLine),
\* across nested aliases, groups of letters and arguments that are found
\* further down the stack (popt.c:156-194, 311-313, 403-409).
FrameTodo(f) ==
    LET n == IF f.chars = NULL THEN 0 ELSE 1 IN
    [i \in 1..(n + Len(f.argv) - f.next + 1) |->
        [text    |-> IF i <= n THEN f.chars ELSE f.argv[f.next + i - n - 1],
         letters |-> i <= n,
         by      |-> f.alias]]

StackTodo(s) ==
    LET From[i \in 0..Len(s)] == IF i = 0 THEN << >> ELSE FrameTodo(s[i]) \o From[i - 1]
    IN  From[Len(s)]

Todo == IF pc \in Ended THEN << >> ELSE StackTodo(stack)

\* An option as it was read, without the old arguments of those that have none.
Read(s)  == [option |-> s.option, arg |-> IF Argument(s.option) THEN s.arg ELSE NULL]
SeenRead == [i \in DOMAIN seen |-> Read(seen[i])]

State == IF pc \in {"app", "call"} THEN "reading" ELSE IF pc = "end" THEN "end" ELSE "error"

Line == INSTANCE CommandLine WITH todo <- Todo, seen <- SeenRead, state <- State

ReadsOn     == [Line!Step \/ Line!Stuff]_Line!lineVars
ReadsAsText == Line!Spec

\* Letters wait in a vector above the one with the next word.
Sunk(s) ==
    LET u == UnwindForArg(s) IN
    HasWords(u[Len(u)]) /\ \E i \in (Len(u) + 1)..Len(s) : s[i].chars # NULL

\* Where it departs from that, in the turn that comes: an alias would be too
\* deep (popt.c:183); a lone dash is no option (popt.c:184); letters are
\* behind an exec (popt.c:429); the value behind an "=" is not that of the
\* option (popt.c:397); letters wait above the argument (popt.c:403).
Departs ==
    LET named == \/ Expands(LongKey(Text)) \/ LongKey(Text) \in Exec
                 \/ FindLong(Text) # {} \/ IsLong(Text)
        whole == ~ReadsLetters /\ named
        group == IF ReadsLetters THEN Top.chars ELSE Bare(Text)
        key   == IF whole THEN LongKey(Text) ELSE ShortKey(Head(group))
        own   == IF whole THEN Given(Text) ELSE Tail(group)
        value == IF ReadsLetters \/ Given(Text) = NULL THEN longArg.value
                 ELSE IF whole THEN NULL ELSE Given(Text)
        left  == IF ReadsLetters THEN Chars(Here, NULL) ELSE Taken
    IN  /\ pc = "call" /\ (ReadsLetters \/ OptionWord)
        /\ \/ ~whole /\ group = NULL
           \/ Expands(key) /\ Len(Here) = Depth
           \/ ~whole /\ key \in Exec /\ Tail(group) # NULL
           \/ /\ ~Expands(key) /\ key \notin Exec
              /\ \E o \in (IF whole THEN FindLong(Text) ELSE FindShort(Head(group))) :
                    Argument(o) /\ (value # NULL \/ (own = NULL /\ Sunk(left)))

\* Parsing comes to an end, whatever aliases expand to: an alias may occur
\* in the text of one that it uses itself (popt.c:177-179).
Terminates == <>(pc \in Ended)

\* The stack stays within its array (popt.3:424, popt.c:583).
StackFits == Len(stack) <= Depth

\* An alias that is nested too deeply is an error (popt.3:423).
TooDeepReported == dropped # {} => pc = "toodeep"

\* What follows an "=" is the argument of the option before it (popt.3:75).
OwnArgument ==
    \A i \in DOMAIN seen : seen[i].of # NULL => seen[i].option \in FindLong(seen[i].of)

\* The callback of an option that takes no argument gets NULL (popt.3:225).
NoneGetsNull ==
    \A i \in DOMAIN seen : ~Argument(seen[i].option) => seen[i].arg = NULL
=============================================================================
