---------------------------- MODULE CommandLine -----------------------------
(***************************************************************************)
(* What popt promises of aliases: the text of an alias stands in the       *)
(* command line where the alias stood.  The rest of a group of one-letter  *)
(* options waits behind the text of an alias in it, as letters and not as  *)
(* a word that could be taken for an argument.                             *)
(*                                                                         *)
(* An alias does not expand in its own text.  Words that an application    *)
(* stuffs are read before the rest.                                        *)
(***************************************************************************)
EXTENDS PoptWords

CONSTANTS
    Posix, \* options cannot follow arguments
    Stuffs \* what an application may put in front of the rest

VARIABLES
    todo,      \* what is left to read: words and letters, and whose text they are
    rest,      \* the options are over
    leftovers, \* the arguments
    seen,      \* the options, with their own arguments
    state      \* "reading", "end" or "error"

lineVars == <<todo, rest, leftovers, seen, state>>

Words(argv, key)    == [i \in DOMAIN argv |-> [text |-> argv[i], letters |-> FALSE, by |-> key]]
Letters(chars, key) == IF chars = NULL THEN << >> ELSE <<[text |-> chars, letters |-> TRUE, by |-> key]>>

Begin(argv) ==
    /\ todo = Words(argv, NULL)
    /\ rest = FALSE
    /\ leftovers = << >>
    /\ seen = << >>
    /\ state = "reading"

Take(o, arg, left) ==
    /\ seen' = Append(seen, [option |-> o, arg |-> arg])
    /\ todo' = left
    /\ UNCHANGED <<rest, leftovers, state>>

Fails == state' = "error" /\ todo' = << >> /\ UNCHANGED <<rest, leftovers, seen>>

\* An option whose argument is `given', the letters after it or a later word.
Option(o, given, chars, by, left) ==
    LET late == {i \in DOMAIN left : ~left[i].letters}
        i    == CHOOSE k \in late : \A j \in late : k <= j
        Arg(arg, behind) == IF o.takes = "int" /\ arg \notin Numbers THEN Fails ELSE Take(o, arg, behind)
    IN  IF ~Argument(o) THEN Take(o, NULL, Letters(chars, by) \o left)
        ELSE IF given # NULL THEN Arg(given, Letters(chars, by) \o left)
        ELSE IF chars # NULL THEN Arg(chars, left)
        ELSE IF late = {} THEN Fails
        ELSE Arg(left[i].text, SubSeq(left, 1, i - 1) \o SubSeq(left, i + 1, Len(left)))

\* The first of some letters.
Letter(chars, by, left) ==
    LET key == ShortKey(Head(chars)) IN
    IF key \in DOMAIN Alias /\ key # by
    THEN /\ todo' = Words(Alias[key], key) \o Letters(Tail(chars), by) \o left
         /\ UNCHANGED <<rest, leftovers, seen, state>>
    ELSE IF key \in Exec
    THEN todo' = Letters(Tail(chars), by) \o left /\ UNCHANGED <<rest, leftovers, seen, state>>
    ELSE IF FindShort(Head(chars)) = {} THEN Fails
    ELSE Option(CHOOSE o \in FindShort(Head(chars)) : TRUE, NULL, Tail(chars), by, left)

Word(w, by, left) ==
    LET key == LongKey(w) IN
    IF rest \/ ~IsOption(w)
    THEN /\ leftovers' = Append(leftovers, w)
         /\ rest' = (rest \/ Posix)
         /\ todo' = left
         /\ UNCHANGED <<seen, state>>
    ELSE IF w = DashDash
    THEN rest' = TRUE /\ todo' = left /\ UNCHANGED <<leftovers, seen, state>>
    ELSE IF key \in DOMAIN Alias /\ key # by
    THEN todo' = Words(Alias[key], key) \o left /\ UNCHANGED <<rest, leftovers, seen, state>>
    ELSE IF key \in Exec
    THEN todo' = left /\ UNCHANGED <<rest, leftovers, seen, state>>
    ELSE IF FindLong(w) # {} THEN Option(CHOOSE o \in FindLong(w) : TRUE, Given(w), NULL, by, left)
    ELSE IF IsLong(w) \/ w = <<"-">> THEN Fails
    ELSE Letter(Bare(w), by, left)

Step ==
    /\ state = "reading"
    /\ IF todo = << >>
       THEN state' = "end" /\ UNCHANGED <<todo, rest, leftovers, seen>>
       ELSE IF Head(todo).letters
       THEN Letter(Head(todo).text, Head(todo).by, Tail(todo))
       ELSE Word(Head(todo).text, Head(todo).by, Tail(todo))

Stuff ==
    /\ state = "reading"
    /\ todo' \in {Words(argv, NULL) \o todo : argv \in Stuffs}
    /\ UNCHANGED <<rest, leftovers, seen, state>>

Init == Begin([i \in DOMAIN todo |-> todo[i].text])

Spec == Init /\ [][Step \/ Stuff]_lineVars
=============================================================================
