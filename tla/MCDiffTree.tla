----------------------------- MODULE MCDiffTree -----------------------------
(* Every report of at most MCSize lines on paths of up to three parts over *)
(* two names, with the kinds that tell the branches of node.c apart.  No   *)
(* path is a directory of another: diff reports on a directory or on what  *)
(* is in it.                                                               *)
EXTENDS DiffTree, FiniteSets

CONSTANTS MCSize, MCDepth

MCName  == 0..2
MCPaths == UNION {[1..n -> 1..2] : n \in 1..MCDepth}
MCKind  == {"same", "right", "error"}

Below(p, q) == Len(p) < Len(q) /\ \A i \in DOMAIN p : p[i] = q[i]

MCReports ==
    UNION {[paths -> MCKind] :
        paths \in {s \in SUBSET MCPaths :
            /\ Cardinality(s) <= MCSize
            /\ \A p, q \in s : ~Below(p, q)}}

\* No prefix; src and src.orig; src and src2.
MCSurpluses == {NoSurplus, <<1>>, <<0>>}
=============================================================================
