------------------------------- MODULE MCPopt -------------------------------
(* The option parsing library on a program with options of each kind.      *)
(* "texts" has aliases that nest, and command lines of up to three of      *)
(* eighteen words; "loops" has aliases that use each other and themselves, *)
(* on a stack of four.  Files have up to three lines for the program "g",  *)
(* or one expansion of up to five characters.  Help texts have up to seven *)
(* characters, or ten that differ in their spaces alone, in a line with    *)
(* room for one to four of them beside the options.                        *)
EXTENDS Parsing, SequencesExt

-----------------------------------------------------------------------------
(* The command line *)

Opt(long, short, takes, returns) ==
    [long |-> IF long = "" THEN << >> ELSE <<long>>, short |-> short,
     onedash |-> long = "ver", takes |-> takes, returns |-> returns]

\* The options of the returning kind; -v and -i go to callbacks.
MCOptions == {
    Opt("", "v", "none", FALSE),
    Opt("quiet", "q", "none", TRUE),
    Opt("ver", "", "val", FALSE),
    Opt("out", "o", "string", TRUE),
    Opt("num", "n", "int", TRUE),
    Opt("", "i", "int", FALSE),
    Opt("", "-", "none", TRUE)}

W(name)   == <<"-", "-", name>>
Set(name, value) == <<"-", "-", name, "=", value>>
L1(c)     == <<"-", c>>
L2(c, d)  == <<"-", c, d>>
Plain(w)  == <<w>>

MCNumbers == {Plain("1")}
MCExec    == {L1("x"), W("exec")}

\* Nested aliases, one that uses itself, one whose last option takes its
\* argument from behind it, one with arguments and one that ends options.
MCAlias == [key \in {L1("a"), L1("b"), L1("c"), W("ver"), W("rest"), Set("num", "1")} |->
    CASE key = L1("a") -> <<L2("v", "q"), Plain("f")>>
      [] key = L1("b") -> <<L1("v"), L1("o")>>
      [] key = L1("c") -> <<L2("a", "v"), L1("b")>>
      [] key = W("ver") -> <<<<"-", "ver">>, L2("v", "c")>>
      [] key = W("rest") -> <<L1("i"), Plain("1"), <<"-", "-">>>>
      [] key = Set("num", "1") -> <<Set("num", "1"), Set("out", "1")>>]

Words == {
    L2("a", "v"), L2("v", "b"), L2("c", "o"), L2("i", "1"), L2("q", "x"),
    W("ver"), <<"-", "ver">>, W("rest"), Set("num", "1"), W("num"), Set("out", "f"),
    W("exec"), L1("b"), <<"-">>, <<"-", "-">>, Plain("1"), Plain("f"), W("bad")}

\* A third word only behind one that uses an alias.
UsesAlias == {L2("a", "v"), L2("v", "b"), L2("c", "o"), W("ver"), W("rest"), Set("num", "1")}
MCLines == UNION {[1..n -> Words] : n \in 0..2} \cup {l \in [1..3 -> Words] : l[1] \in UsesAlias}
MCStuffs == {<<L2("v", "b")>>, <<Plain("f"), W("rest")>>}

\* Aliases that use each other and themselves, and no option for a lone dash.
MCLoopOptions == {o \in MCOptions : o.short # "-"}
MCLoopAlias == [key \in {L1("a"), L1("b"), W("loop")} |->
    CASE key = L1("a") -> <<L2("b", "v"), L1("b"), L1("q")>>
      [] key = L1("b") -> <<L2("a", "q"), L2("v", "a")>>
      [] key = W("loop") -> <<W("loop"), L2("v", "a"), W("loop")>>]

LoopWords == {<<"-">>, L1("a"), L2("b", "a"), L2("v", "a"), W("loop"), L1("n"), <<"-", "-">>, Plain("1")}
MCLoopLines == UNION {[1..n -> LoopWords] : n \in 0..2}

\* Lines that are read twice: of two words, and of three with an exec that
\* is not behind another one.  A lone dash is printed as the end of options.
AgainWords == (Words \ {<<"-">>}) \cup {L1("x")}
RunsExec   == {L1("x"), W("exec"), L2("q", "x")}
MCAgainLines == UNION {[1..n -> AgainWords] : n \in 0..2}
              \cup {l \in [1..3 -> AgainWords] : l[1] \in RunsExec \/ l[3] \in RunsExec}

MCProgram == Plain("./g")

MCStored == {o \in MCOptions : o.takes \in {"string", "int"}}

-----------------------------------------------------------------------------
(* The configuration file *)

Newlined(lines) == {l \o <<"\n">> : l \in lines}

Whole == {
    <<"g", " ", "alias", " ", "-", "v", " ", "-", "q", " ", "f">>,
    <<" ", "\t", "g", " ", "alias", "\t", " ", "-", "-", "v", " ", "f", " ">>,
    <<"g", " ", "exec", " ", "-", "x", " ", "p", "\\", " ", "f">>,
    <<"g", " ", "ali", "\\", "\n", "as", " ", "v", " ", "\\", "\\">>,
    <<"g", " ", "alias", " ", "\\", "\n", " ", "v", " ", "f">>,
    <<"g", " ", "other", " ", "v", " ", "f">>,
    <<"#", "g", " ", "alias", " ", "v", " ", "f">>,
    <<" ", "#">>, <<"gg", " ", "alias">>, <<"g", "g", " ", "alias">>, <<"g">>, << >>}

\* Lines that lack fields, with and without white space at their end.
Short == {<<"g", " ">>, <<"g", " ", "alias">>, <<"g", " ", "alias", " ">>,
          <<"g", " ", "alias", " ", "v">>, <<"g", " ", "alias", " ", "v", " ">>}

FilesOf(lines, most) ==
    {FlattenSeq(f) : f \in UNION {[1..n -> lines] : n \in 0..most}}

\* The last line may be without its newline, or end with a backslash.
ConfigFiles ==
    LET ended == FilesOf(Newlined(Whole), 2)
    IN  ended \cup {f \o l : f \in ended, l \in {<<"g", " ", "alias", " ", "v", " ", "f">>, <<"g", "\\">>}}
              \cup FilesOf(Newlined(Whole \cup Short), 2)

\* All expansions of up to five characters.
Expansions ==
    {<<"g", " ", "alias", " ", "v", " ">> \o s \o <<"\n">> :
        s \in UNION {[1..n -> {"a", " ", "'", "\"", "\\"}] : n \in 1..5}}

MCApp   == <<"g">>
MCFiles == ConfigFiles \cup Expansions

-----------------------------------------------------------------------------
(* The help *)

MCTexts == UNION {[1..n -> {"a", "b", " "}] : n \in 1..7} \cup [1..10 -> {"a", " "}]

MCLeftCols == 10..13
=============================================================================
