------------------------------ MODULE MCViews ------------------------------
(* Small sessions for TLC, of up to two compare views and a directory      *)
(* view.  The diff of c1 prints a message that is no line of the           *)
(* comparison, and more than its pipe holds; the others print one line.    *)
(* MCTreeLines has the directory view's diff fill its pipe instead.        *)
EXTENDS Views

CONSTANTS c1, c2, t1, gd

MCAllViews  == {c1, c2, t1}
MCTree      == {t1} \cap Run
MCLines     == [v \in Run |-> IF v = c1 THEN 3 ELSE 1]
MCTreeLines == [v \in Run |-> IF v = t1 THEN 2 ELSE 1]
MCTagged    == [v \in Run |-> CASE v = c1 -> {1, 3} [] v = t1 -> {} [] OTHER -> {1}]
=============================================================================
