------------------------------ MODULE PoptExec ------------------------------
(***************************************************************************)
(* A command line that is read twice (popt/popt.c): by another program     *)
(* that runs in place of this one, for an option that is an exec, or by    *)
(* the same one after poptResetContext.  popt keeps the options it has     *)
(* read in finalArgv; the other program gets the path of this one, the     *)
(* word ";", these options and the leftovers.  It knows the same options   *)
(* but neither aliases nor execs.                                          *)
(*                                                                         *)
(* Left out: a lone dash for which there is no option.                     *)
(***************************************************************************)
EXTENDS PoptProofs, SequencesExt

CONSTANTS
    Stored,   \* the options with a variable for their argument, opt->arg
    KeepFirst, \* POPT_CONTEXT_KEEP_FIRST: the first word is read, too
    Program   \* the path of this program

Semicolon == <<";">>

StoredAssumption ==
    /\ Stored \subseteq {o \in Options : Argument(o)}
    /\ KeepFirst \in BOOLEAN /\ (KeepFirst => << >> \notin Lines)
    /\ \E o \in Options : o.short = "-"
    /\ {Program, Semicolon} \subseteq Seq(STRING) /\ ~IsOption(Program)

VARIABLES
    final,  \* finalArgv: the options, with their arguments, and the execs after the first
    doExec, \* the exec to run at the end
    first   \* history: what was read the first time

execVars == <<final, doExec, first>>
twice    == <<vars, execVars>>

\* For the other program an exec is an option like others.
AsOption(key) ==
    [long |-> IF IsLong(key) THEN Bare(key) ELSE NULL, short |-> IF IsLong(key) THEN "" ELSE key[2],
     onedash |-> FALSE, takes |-> "none", returns |-> FALSE]

Other == INSTANCE PoptProofs WITH
    Alias <- [key \in {} |-> NULL], Exec <- {}, Options <- Options \cup {AsOption(key) : key \in Exec}

Reading == [options   |-> SeenRead,
            leftovers |-> leftovers, final |-> final, doExec |-> doExec, pc |-> pc]

NotYet == [by |-> "nobody", read |-> NULL]

Fresh == final = << >> /\ doExec = NULL /\ first = NotYet

TwiceInit == Init /\ Fresh

TwiceTypeOK ==
    /\ \A i \in DOMAIN final : final[i].option \in Options \cup {AsOption(key) : key \in Exec}
    /\ doExec \in Exec \cup {NULL}
    /\ first # NotYet => first.by \in {"reset", "other"} /\ first.read.pc \in Ended

-----------------------------------------------------------------------------
(* The first time *)

\* The exec that a turn finds: of a word, or of the first of some letters.
Found ==
    LET Of(key) == IF key \in Exec THEN key ELSE NULL IN
    IF pc # "call" THEN NULL
    ELSE IF ReadsLetters THEN Of(ShortKey(Head(Top.chars)))
    ELSE IF ~OptionWord THEN NULL
    ELSE IF LongKey(Text) \in Exec \/ Expands(LongKey(Text)) \/ FindLong(Text) # {} \/ IsLong(Text)
         THEN Of(LongKey(Text))
    ELSE Of(ShortKey(Head(Bare(Text))))

\* handleExec and the end of a turn: the first exec is run at the end, a
\* later one is left to the other program.
Records ==
    /\ doExec' = IF doExec = NULL THEN Found ELSE doExec
    /\ final' = IF seen' # seen THEN Append(final, Read(Last(seen')))
                ELSE IF doExec # NULL /\ Found # NULL
                THEN Append(final, [option |-> AsOption(Found), arg |-> NULL])
                ELSE final
    /\ UNCHANGED first

Reads == first.by # "other" /\ (Call \/ Turn) /\ Records

-----------------------------------------------------------------------------
(* The second time *)

\* Faulty: the context still takes what follows for arguments.
ResetStillRest ==
    /\ first = NotYet /\ pc \in Ended
    /\ first' = [by |-> "reset", read |-> Reading]
    /\ stack' = <<Frame(stack[1].argv, NULL)>>
    /\ leftovers' = << >> /\ final' = << >> /\ doExec' = NULL /\ seen' = << >>
    /\ pc' = "app"
    /\ UNCHANGED <<rest, longArg, dropped, stuffs>>

\* poptResetContext
Reset ==
    /\ first = NotYet /\ pc \in Ended
    /\ first' = [by |-> "reset", read |-> Reading]
    /\ stack' = <<[Frame(stack[1].argv, NULL) EXCEPT !.next = IF KeepFirst THEN 2 ELSE 1]>>
    /\ rest' = FALSE
    /\ leftovers' = << >>
    /\ final' = << >>
    /\ doExec' = NULL
    /\ seen' = << >>
    /\ pc' = "app"
    /\ UNCHANGED <<longArg, dropped, stuffs>>

\* The words of an option in finalArgv: its argument only if it was stored.
Words(f) ==
    <<IF f.option.long # NULL THEN DashDash \o f.option.long ELSE ShortKey(f.option.short)>>
    \o (IF f.option \in Stored THEN <<f.arg>> ELSE << >>)

\* findProgramPath: a program that was not started by its path need not be
\* found.
ProgramPath == {<<Program>>, << >>}

\* execCommand, when it does run the program; when it cannot, the call
\* ends (End of Popt).
RunsOther ==
    /\ first = NotYet
    /\ pc = "call" /\ ~ReadsLetters /\ ~ReadsWord
    /\ doExec # NULL
    /\ first' = [by |-> "other", read |-> [Reading EXCEPT !.pc = "end"]]
    /\ \E path \in ProgramPath :
          stack' = <<Frame(path \o <<Semicolon>>
                           \o FlattenSeq([i \in DOMAIN final |-> Words(final[i])])
                           \o (IF leftovers = << >> THEN << >> ELSE <<DashDash>> \o leftovers), NULL)>>
    /\ rest' = FALSE
    /\ leftovers' = << >>
    /\ seen' = << >>
    /\ pc' = "app"
    /\ UNCHANGED <<longArg, dropped, stuffs, final, doExec>>

\* The other program parses what it was given.
OtherReads == first.by = "other" /\ (Other!Call \/ Other!Turn) /\ UNCHANGED execVars

TwiceNext == Reads \/ Reset \/ RunsOther \/ OtherReads

TwiceSpec == TwiceInit /\ [][TwiceNext]_twice

-----------------------------------------------------------------------------
(* Properties *)

\* The second time everything is read as it was the first time.  A context
\* that was reset keeps nothing of what it was in the middle of
\* (popt.c:93-113), and the other program gets the options that aliases
\* stood for, with their arguments, the later execs and the leftovers, in
\* words that it reads as such (popt.c:144-152, 196-228, 454-464).  Of what
\* it is given only the path, when it was found, and the semicolon are not
\* from the command line: they are its first leftovers (testit.sh:37-41).
ReadsAgain ==
    first # NotYet /\ pc \in Ended =>
        IF first.by = "reset" THEN Reading = first.read
        ELSE /\ pc = "end"
             /\ \E path \in ProgramPath : leftovers = path \o <<Semicolon>> \o first.read.leftovers
             /\ Reading.options = first.read.final
=============================================================================
