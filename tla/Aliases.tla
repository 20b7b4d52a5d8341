------------------------------ MODULE Aliases -------------------------------
(***************************************************************************)
(* The aliases of locales (intl/localealias.c).  _nl_expand_alias searches *)
(* a sorted table by bisection; as long as a name is not in it, it reads   *)
(* the next file of a path into the table and searches again.  The table   *)
(* doubles when it is full.  Allocations may fail.                         *)
(*                                                                         *)
(* A name is a pair of its letters, as a number in the order of            *)
(* alias_compare, and of their case.  A file is the sequence of its usable *)
(* lines.                                                                  *)
(***************************************************************************)
EXTENDS Integers, Sequences, FiniteSetsExt, Functions

CONSTANTS
    Name,   \* the names that are asked for
    Files,  \* the sequences of files that the path may stand for
    First,  \* how many aliases the first table holds
    Fails   \* the allocations that may fail: "table", "string"

Line == [alias : Int \X {"lower", "upper"}, value : STRING]

AliasesAssumption ==
    /\ Name \subseteq Int \X {"lower", "upper"}
    /\ Files \subseteq Seq(Seq(Line))
    /\ First \in Nat \ {0}
    /\ Fails \subseteq {"table", "string"}

VARIABLES
    path,   \* the files of LOCALE_ALIAS_PATH
    read,   \* how many of them locale_alias_path is past
    map,    \* the aliases in the table, map[0] to map[nmap - 1]
    maxmap,
    item,   \* what is looked for: a singleton during a call
    answer  \* what the last call returned: a singleton, or {} for NULL

vars == <<path, read, map, maxmap, item, answer>>

Missing == << >> \* a file that cannot be opened, or one without aliases

TypeOK ==
    /\ read \in 0..Len(path)
    /\ Cardinality(item) <= 1 /\ item \subseteq Name
    /\ Cardinality(answer) <= 1
    /\ map \in Seq(Line) /\ maxmap \in Nat
    /\ Len(map) <= maxmap \/ "table" \in Fails

Init ==
    /\ path \in Files
    /\ read = 0
    /\ map = << >>
    /\ maxmap = 0
    /\ item = {}
    /\ answer = {}

-----------------------------------------------------------------------------
(* The table *)

Compare(name, i) == name[1] - map[i].alias[1]

\* bsearch in map[l] to map[u - 1], for <<name, l, u>>: it finds a name for
\* certain only in a sorted table.
Search[s \in Name \X (1..(Len(map) + 1)) \X (1..(Len(map) + 1))] ==
    LET i == (s[2] + s[3]) \div 2 IN
    IF s[2] >= s[3] THEN {}
    ELSE IF Compare(s[1], i) = 0 THEN {i}
    ELSE IF Compare(s[1], i) < 0 THEN Search[<<s[1], s[2], i>>]
    ELSE Search[<<s[1], i + 1, s[3]>>]

Bisect(name) == Search[<<name, 1, Len(map) + 1>>]

Ascends(t) == \A i, j \in DOMAIN t : i < j => t[i].alias[1] <= t[j].alias[1]

\* The orders a table may be brought into.
Orders(t) == {[i \in DOMAIN t |-> t[p[i]]] : p \in Surjection(DOMAIN t, DOMAIN t)}

\* Faulty: only what was added is sorted.
SortedFrom(t) ==
    {u \in Orders(t) :
        /\ Ascends(SubSeq(u, Len(map) + 1, Len(u)))
        /\ SubSeq(u, 1, Len(map)) = map}

\* qsort, which keeps no order of equal aliases.
Sorted(t) == {u \in Orders(t) : Ascends(u)}

\* extend_alias_table, again and again.
Extended[k \in Nat] == IF k = 0 THEN maxmap ELSE IF Extended[k - 1] = 0 THEN First ELSE 2 * Extended[k - 1]

\* What it takes to have room for n aliases.
Grown(n) == Extended[Min({k \in 0..n : Extended[k] >= n})]

\* What the table has room for after an extension was due for n aliases: less
\* than that, when it could not be extended.
Rooms(n) ==
    {Grown(n)} \cup (IF "table" \in Fails THEN {m \in {Extended[k] : k \in 0..n} : m < Grown(n)} ELSE {})

-----------------------------------------------------------------------------
(* _nl_expand_alias *)

Ask(name) ==
    /\ item = {}
    /\ item' = {name}
    /\ UNCHANGED <<path, read, map, maxmap, answer>>

Return(result) == answer' = result /\ item' = {} /\ UNCHANGED <<path, read, map, maxmap>>

Hit == \E name \in item : Bisect(name) # {} /\ Return({map[i].value : i \in Bisect(name)})

GiveUp ==
    /\ \E name \in item : Bisect(name) = {}
    /\ read = Len(path)
    /\ Return({})

\* read_alias_file for the next file of the path.  Only a file that added
\* aliases has the table sorted.  When there is no memory for a string the
\* rest of the file is left and the table is not sorted; a table that could
\* not be extended is written to all the same.
ReadAliasFile ==
    /\ \E name \in item : Bisect(name) = {}
    /\ read < Len(path)
    /\ read' = read + 1
    /\ LET lines == path[read + 1] IN
       \/ lines = Missing /\ UNCHANGED <<map, maxmap>>
       \/ /\ lines # Missing
          /\ map' \in Sorted(map \o lines)
          /\ maxmap' \in Rooms(Len(map'))
       \/ /\ "string" \in Fails
          /\ \E n \in 0..(Len(lines) - 1) :
                map' = map \o SubSeq(lines, 1, n) /\ maxmap' \in Rooms(Len(map) + n + 1)
    /\ UNCHANGED <<path, item, answer>>

Turn == Hit \/ GiveUp \/ ReadAliasFile

Next == (\E name \in Name : Ask(name)) \/ Turn

\* A call runs; nothing obliges the program to make one.
Spec == Init /\ [][Next]_vars /\ WF_vars(Turn)

-----------------------------------------------------------------------------
(* Properties *)

\* What a name stands for in a file, whatever its case.
Says(file, name) == {file[i].value : i \in {j \in DOMAIN file : file[j].alias[1] = name[1]}}

\* A name is expanded to what some file says of it, even by a table that a
\* failure left unsorted (localealias.c:277-291).
AnswersAFile ==
    \A name \in item : item' = {} => answer' \subseteq UNION {Says(path[i], name) : i \in 1..read}
SaysAFile == [][AnswersAFile]_vars

\* While there is memory no alias is missed: not one whose file is read
\* already, nor one behind files that are missing or empty.
MissesNone ==
    \A name \in item : item' = {} /\ answer' = {} => \A i \in DOMAIN path : Says(path[i], name) = {}
NoneMissed == [][MissesNone]_vars

\* Every call returns (localealias.c:148-184).
Answers == item # {} ~> item = {}

\* There is room in the table for all that is written to it.
TableFits == Len(map) <= maxmap
=============================================================================
