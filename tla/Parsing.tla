------------------------------ MODULE Parsing -------------------------------
(* The option parsing library: parsing a command line, reading a           *)
(* configuration file, printing help.  A behaviour is one of one part,     *)
(* which `part' names; the other parts stay in an initial state.           *)
(*                                                                         *)
(* Command lines are there three times: with aliases and stuffed words     *)
(* ("texts"); with other aliases, which may use each other and themselves  *)
(* ("loops"); and to be read twice ("again").                              *)
EXTENDS Integers, Sequences

CONSTANTS
    Options, Alias, Exec, Numbers,        \* of PoptWords
    Depth, Posix, Lines, Stuffs, Stuffed, \* of Popt, for "texts"
    LoopOptions, LoopAlias, LoopDepth,    \* and for "loops"
    LoopPosix, LoopLines,
    AgainLines, Stored, KeepFirst, Program, \* of PoptExec
    App, Files,                           \* of PoptConfig
    Texts, LeftCols, Columns              \* of PoptHelp

VARIABLES
    part,
    stack, rest, leftovers, longArg, seen, dropped, stuffs, pc,
    final, doExec, first,
    file, chptr, buf, dst, entries, status,
    text, lineLength, help, pieces, done

Parser == INSTANCE PoptProofs

Loop == INSTANCE PoptProofs WITH
    Options <- LoopOptions, Alias <- LoopAlias, Depth <- LoopDepth, Posix <- LoopPosix,
    Lines <- LoopLines, Stuffs <- {}, Stuffed <- 0

Again == INSTANCE PoptExec WITH Lines <- AgainLines, Stuffs <- {}, Stuffed <- 0

Config == INSTANCE PoptConfigProofs

Help == INSTANCE PoptHelp

ASSUME ParsingAssumption ==
    /\ Parser!PoptAssumption /\ Parser!LinesAssumption
    /\ Loop!PoptAssumption /\ Loop!LinesAssumption
    /\ Again!LinesAssumption /\ Again!StoredAssumption
    /\ Config!PoptConfigAssumption
    /\ Help!PoptHelpAssumption

lineVars   == <<stack, rest, leftovers, longArg, seen, dropped, stuffs, pc>>
againVars  == <<final, doExec, first>>
configVars == <<file, chptr, buf, dst, entries, status>>
helpVars   == <<text, lineLength, help, pieces, done>>
vars       == <<part, lineVars, againVars, configVars, helpVars>>

-----------------------------------------------------------------------------
\* A part that does not run has some command line, file or text before it.
Some(S) == CHOOSE x \in S : TRUE

Init ==
    /\ part \in {"texts", "again", "loops", "config", "help"}
    /\ part \notin {"texts", "again", "loops"} => stack = <<Parser!Frame(Some(Lines), << >>)>>
    /\ part # "config" => file = Some(Files)
    /\ part # "help" => text = Some(Texts) /\ lineLength = Columns - Help!Indent(Some(LeftCols))
    /\ CASE part = "loops" -> Loop!Init
         [] part = "again" -> Again!Init
         [] OTHER          -> Parser!Init
    /\ Again!Fresh
    /\ Config!Init
    /\ Help!Init

Next ==
    /\ UNCHANGED part
    /\ \/ part = "texts" /\ Parser!Next /\ UNCHANGED <<againVars, configVars, helpVars>>
       \/ part = "again" /\ Again!TwiceNext /\ UNCHANGED <<configVars, helpVars>>
       \/ part = "loops" /\ Loop!Next /\ UNCHANGED <<againVars, configVars, helpVars>>
       \/ part = "config" /\ Config!Next /\ UNCHANGED <<lineVars, againVars, helpVars>>
       \/ part = "help" /\ Help!Next /\ UNCHANGED <<lineVars, againVars, configVars>>

\* The application calls until there are no more options; a call, and the
\* printing of help, run to their end.
Calls  == part = "loops" /\ Loop!Call /\ UNCHANGED <<part, againVars, configVars, helpVars>>
Turns  == part = "loops" /\ Loop!Turn /\ UNCHANGED <<part, againVars, configVars, helpVars>>
Prints == part = "help" /\ Help!Next /\ UNCHANGED <<part, lineVars, againVars, configVars>>

Spec == Init /\ [][Next]_vars /\ WF_vars(Calls) /\ WF_vars(Turns) /\ WF_vars(Prints)

-----------------------------------------------------------------------------
(* The properties of the parts, which their modules state *)

TypeOK ==
    /\ IF part = "loops" THEN Loop!TypeOK /\ Loop!StackFits ELSE Parser!TypeOK
    /\ Again!TwiceTypeOK
    /\ Config!TypeOK
    /\ Help!TypeOK

\* popt reads as if the text of each alias stood in its place in the command
\* line (CommandLine; popt.c:156-194, 311-313, 403-409).
ReadsAsText == [][part = "texts" => Parser!ReadsOn]_vars

\* A line is read a second time as it was the first time, by a context that
\* was reset (popt.c:93-113) and, behind the path of this program and a
\* semicolon, by a program that runs in place of it (popt.c:144-152, 196-228,
\* 454-464).
ReadsAgain == Again!ReadsAgain

\* The entries are what the lines of the file say (poptconfig.c:103-125), and
\* words keep their characters however they are quoted (poptparse.c:51-90).
ReadsConfig == Config!MeansItsLines /\ Config!WordsKept

\* No word of a help text is cut, lost or printed twice, and lines are too
\* wide only where they cannot be broken (popthelp.c:102-116).
BreaksHelp == Help!WordsWhole /\ Help!LinesFit

\* Parsing ends, whatever aliases expand to (popt.c:177-179), and so does
\* the printing of help (popthelp.c:102-116).
CallsReturn ==
    /\ part = "loops" ~> pc \in Loop!Ended
    /\ part = "help" ~> done
=============================================================================
