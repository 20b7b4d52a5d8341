------------------------------ MODULE MCSpawn ------------------------------
(* Three runs of diff for TLC: a long one that fills the pipe, a short one *)
(* and a silent one.                                                       *)
EXTENDS Spawn, TLC

CONSTANTS r1, r2, r3, gd

MCRun   == {r1, r2, r3}
MCGdiff == gd
MCLines == (r1 :> 2) @@ (r2 :> 1) @@ (r3 :> 0)
=============================================================================
