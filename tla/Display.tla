------------------------------ MODULE Display ------------------------------
(***************************************************************************)
(* What a compare view promises its user: it shows a row that asks to wait *)
(* until diff has ended, then at once every line of the comparison that    *)
(* diff wrote, in order, and never changes again.  No part of a comparison *)
(* and no part of another one is ever seen.                                *)
(***************************************************************************)
EXTENDS Naturals, Sequences

CONSTANTS
    Views,    \* the compare views
    Tagged,   \* for each view, which lines of its diff belong to the comparison
    Wait      \* the row that asks to wait

VARIABLES
    shown,    \* the rows each view shows
    written,  \* how many lines the diff of each view has written
    ended     \* the views whose diff has ended

\* s holds the lines of the comparison among the first n that diff wrote,
\* each once and in their order.
IsComparison(s, v, n) ==
    /\ {s[i] : i \in DOMAIN s} = Tagged[v] \cap 1..n
    /\ \A i, j \in DOMAIN s : i < j => s[i] < s[j]

Init ==
    /\ shown = [v \in Views |-> <<Wait>>]
    /\ written = [v \in Views |-> 0]
    /\ ended = {}

Write(v) ==
    /\ v \notin ended
    /\ written' = [written EXCEPT ![v] = @ + 1]
    /\ UNCHANGED <<shown, ended>>

End(v) ==
    /\ v \notin ended
    /\ ended' = ended \cup {v}
    /\ UNCHANGED <<shown, written>>

Present(v) ==
    /\ v \in ended
    /\ shown[v] = <<Wait>>
    /\ shown' = [shown EXCEPT ![v] = shown'[v]]
    /\ IsComparison(shown'[v], v, written[v])
    /\ UNCHANGED <<written, ended>>

Next == \E v \in Views : Write(v) \/ End(v) \/ Present(v)

Spec == Init /\ [][Next]_<<shown, written, ended>>
=============================================================================
