------------------------------- MODULE Views -------------------------------
(***************************************************************************)
(* The window of gdiff: the MDI children and their views (mdi.c, menu.c),  *)
(* the draw handlers that load a view the first time it is drawn           *)
(* (compare.c, derived.c) and the main loop (gd.c).                        *)
(*                                                                         *)
(* Everything runs in one thread, but gtk_compare dispatches events in the *)
(* middle of its work: three loops on gtk_events_pending, the "pumps".     *)
(* From a pump the user can open, select and close views or leave gdiff,   *)
(* and another view can be drawn for the first time and start its own      *)
(* load on top of the one that waits.  The C stack of unfinished loads is  *)
(* the sequence `stack', its last element the one that executes, and at[v] *)
(* is where the load of v stands.                                          *)
(*                                                                         *)
(* The run of diff for a view, and its pipe, are those of module Spawn.    *)
(***************************************************************************)
EXTENDS Spawn, Sequences

CONSTANTS
    Tree,     \* the views of directories; the others compare two files
    Tagged,   \* for each run, which lines carry one of the COMPARE_ tags
    Arg,      \* the view the command line asks for, or NoView
    NoView,
    Wait      \* the "Please wait..." row

View    == Run
Compare == View \ Tree

ASSUME ViewsAssumption ==
    /\ Tree \subseteq View
    /\ Tagged \in [View -> SUBSET Nat]
    /\ NoView \notin View
    /\ Arg \in View \cup {NoView}
    /\ Wait \notin Nat

VARIABLES
    tab,      \* each view: not asked for yet, an MDI child, or removed
    active,   \* the active view, the only one that is mapped and drawn
    drawn,    \* the views' "drawn" flags
    stack,    \* the loads in progress, outermost first
    at,       \* the place each load has reached
    rows,     \* the rows of each view's list
    frozen,   \* the lists between gtk_clist_freeze and gtk_clist_thaw
    loop,     \* gtk_main runs, was told to quit, or the MDI is destroyed
    freed     \* the views whose DiffOptions are freed

viewVars == <<tab, active, drawn, stack, at, rows, frozen, loop, freed>>
vars     == <<spawnVars, viewVars>>

Pump  == {"pump1", "pump2", "pump3"}
Place == Pump \cup {"idle", "spawn", "clear", "read", "done"}

TypeOK ==
    /\ SpawnTypeOK
    /\ tab \in [View -> {"unborn", "open", "removed"}]
    /\ active \in View \cup {NoView}
    /\ drawn \in [View -> BOOLEAN]
    /\ stack \in Seq(View)
    /\ at \in [View -> Place]
    /\ rows \in [View -> Seq(Nat \cup {Wait})]
    /\ frozen \in [View -> BOOLEAN]
    /\ loop \in {"run", "quit", "gone"}
    /\ freed \subseteq View

\* gtk_compare_new appends the row that asks to wait.
NewList(v) == IF v \in Tree THEN << >> ELSE <<Wait>>

\* main adds the view of the command line before it enters gtk_main.
Init ==
    /\ SpawnInit
    /\ tab = [v \in View |-> IF v = Arg THEN "open" ELSE "unborn"]
    /\ active = Arg
    /\ drawn = [v \in View |-> FALSE]
    /\ stack = << >>
    /\ at = [v \in View |-> "idle"]
    /\ rows = [v \in View |-> NewList(v)]
    /\ frozen = [v \in View |-> FALSE]
    /\ loop = "run"
    /\ freed = {}

-----------------------------------------------------------------------------
(* Where gdiff executes *)

\* The load of v is the one that executes.
Executing(v) == up /\ stack # << >> /\ stack[Len(stack)] = v

\* Events are dispatched by gtk_main itself or by a load that pumps.
Dispatching ==
    /\ up
    /\ IF stack = << >> THEN loop = "run" ELSE at[stack[Len(stack)]] \in Pump

Goto(v, place) ==
    /\ at' = [at EXCEPT ![v] = place]
    /\ UNCHANGED stack

\* The draw handler returns to whatever dispatched it.
Leave(v) ==
    /\ at' = [at EXCEPT ![v] = "done"]
    /\ stack' = SubSeq(stack, 1, Len(stack) - 1)

-----------------------------------------------------------------------------
(* The draw handlers and the loads *)

\* Faulty: the flag is not set before the load.
FirstDrawUnmarked(v, place) ==
    /\ Dispatching
    /\ active = v
    /\ ~drawn[v]
    /\ stack' = Append(stack, v)
    /\ at' = [at EXCEPT ![v] = place]
    /\ UNCHANGED <<spawnVars, tab, active, drawn, rows, frozen, loop, freed>>

\* Faulty: a draw while another view loads is marked as done, and skipped.
FirstDrawUnlessBusy(v, place) ==
    /\ Dispatching
    /\ active = v
    /\ ~drawn[v]
    /\ drawn' = [drawn EXCEPT ![v] = TRUE]
    /\ IF stack = << >>
       THEN stack' = Append(stack, v) /\ at' = [at EXCEPT ![v] = place]
       ELSE UNCHANGED <<stack, at>>
    /\ UNCHANGED <<spawnVars, tab, active, rows, frozen, loop, freed>>

\* The first draw of a view starts its load; later ones only repaint.
FirstDraw(v, place) ==
    /\ Dispatching
    /\ active = v
    /\ ~drawn[v]
    /\ drawn' = [drawn EXCEPT ![v] = TRUE]
    /\ stack' = Append(stack, v)
    /\ at' = [at EXCEPT ![v] = place]
    /\ UNCHANGED <<spawnVars, tab, active, rows, frozen, loop, freed>>

DrawCompare(v) == v \in Compare /\ FirstDraw(v, "pump1")
DrawTree(v)    == v \in Tree /\ FirstDraw(v, "spawn")

\* A pump finds no event pending.
PumpEnds(v) ==
    /\ Executing(v)
    /\ \/ at[v] = "pump1" /\ Goto(v, "spawn")
       \/ at[v] = "pump2" /\ Goto(v, "clear")
       \/ at[v] = "pump3" /\ Leave(v)
    /\ UNCHANGED <<spawnVars, tab, active, drawn, rows, frozen, loop, freed>>

\* run_diff forks; the load is still inside run_diff.
Forks(v) ==
    /\ Executing(v)
    /\ at[v] = "spawn"
    /\ Fork(v)
    /\ UNCHANGED viewVars

\* Faulty: the list is frozen and cleared before the second pump.
ReturnsCleared(v) ==
    /\ Executing(v)
    /\ at[v] = "spawn"
    /\ Return(v)
    /\ Goto(v, IF v \in Tree THEN "read" ELSE "pump2")
    /\ frozen' = [frozen EXCEPT ![v] = v \notin Tree]
    /\ rows' = [rows EXCEPT ![v] = << >>]
    /\ UNCHANGED <<tab, active, drawn, loop, freed>>

\* run_diff returns the stream.
Returns(v) ==
    /\ Executing(v)
    /\ at[v] = "spawn"
    /\ Return(v)
    /\ Goto(v, IF v \in Tree THEN "read" ELSE "pump2")
    /\ UNCHANGED <<tab, active, drawn, rows, frozen, loop, freed>>

\* run_diff returns NULL: gtk_diff_tree_compare gives up, gtk_compare does
\* not look.
ReturnsNull(v) ==
    /\ Executing(v)
    /\ at[v] = "spawn"
    /\ PipeFails(v) \/ ForkFails(v)
    /\ IF v \in Tree THEN Leave(v) ELSE Goto(v, "pump2")
    /\ UNCHANGED <<tab, active, drawn, rows, frozen, loop, freed>>

\* Faulty: the list is cleared and filled without gtk_clist_freeze.
ClearUnfrozen(v) ==
    /\ Executing(v)
    /\ at[v] = "clear"
    /\ rows' = [rows EXCEPT ![v] = << >>]
    /\ Goto(v, "read")
    /\ UNCHANGED <<spawnVars, tab, active, drawn, frozen, loop, freed>>

\* gtk_clist_freeze, gtk_clist_clear.
Clear(v) ==
    /\ Executing(v)
    /\ at[v] = "clear"
    /\ frozen' = [frozen EXCEPT ![v] = TRUE]
    /\ rows' = [rows EXCEPT ![v] = << >>]
    /\ Goto(v, "read")
    /\ UNCHANGED <<spawnVars, tab, active, drawn, loop, freed>>

\* One turn of gtk_compare's loop: a tagged line becomes a row, any other
\* (diff's messages, the rest of a line longer than the buffer) is dropped.
CompareReads(v) ==
    /\ v \in Compare
    /\ Executing(v)
    /\ at[v] = "read"
    /\ Read(v)
    /\ rows' = IF got'[v] \in Tagged[v]
               THEN [rows EXCEPT ![v] = Append(@, got'[v])]
               ELSE rows
    /\ UNCHANGED <<tab, active, drawn, stack, at, frozen, loop, freed>>

\* fgets on the NULL that run_diff returned.
CompareCrashes(v) ==
    /\ v \in Compare
    /\ Executing(v)
    /\ at[v] = "read"
    /\ stream[v] = "failed"
    /\ Exit
    /\ UNCHANGED viewVars

\* End of file: fclose, thaw.
CompareCloses(v) ==
    /\ v \in Compare
    /\ Executing(v)
    /\ at[v] = "read"
    /\ Eof(v)
    /\ frozen' = [frozen EXCEPT ![v] = FALSE]
    /\ Goto(v, "pump3")
    /\ UNCHANGED <<tab, active, drawn, rows, loop, freed>>

\* One turn of tree_parse_diff's loop; the tree it builds is not modelled
\* here, and no row of it reaches the list (tree_dialog_traverse is empty).
TreeReads(v) ==
    /\ v \in Tree
    /\ Executing(v)
    /\ at[v] = "read"
    /\ Read(v)
    /\ UNCHANGED viewVars

\* Faulty: the directory view keeps its stream open.
TreeKeepsStream(v) ==
    /\ v \in Tree
    /\ Executing(v)
    /\ at[v] = "read"
    /\ AtEof(v)
    /\ rows' = [rows EXCEPT ![v] = << >>]
    /\ Leave(v)
    /\ UNCHANGED <<spawnVars, tab, active, drawn, frozen, loop, freed>>

\* End of file: tree_parse_diff frees the nodes' memory before tree_print
\* and tree_dialog_draw walk them, which they may survive ...
TreeCloses(v) ==
    /\ v \in Tree
    /\ Executing(v)
    /\ at[v] = "read"
    /\ Eof(v)
    /\ rows' = [rows EXCEPT ![v] = << >>]
    /\ Leave(v)
    /\ UNCHANGED <<tab, active, drawn, frozen, loop, freed>>

\* ... or not.
TreeCrashes(v) ==
    /\ v \in Tree
    /\ Executing(v)
    /\ at[v] = "read"
    /\ AtEof(v)
    /\ Exit
    /\ UNCHANGED viewVars

-----------------------------------------------------------------------------
(* The user, through the callbacks that a dispatched event runs *)

\* New diff, OK: mdi_add_diff adds the view and makes it the active one.
Open(v) ==
    /\ Dispatching
    /\ loop # "gone"
    /\ tab[v] = "unborn"
    /\ tab' = [tab EXCEPT ![v] = "open"]
    /\ active' = v
    /\ UNCHANGED <<spawnVars, drawn, stack, at, rows, frozen, loop, freed>>

\* The user selects another tab.
Select(v) ==
    /\ Dispatching
    /\ tab[v] = "open"
    /\ active # v
    /\ active' = v
    /\ UNCHANGED <<spawnVars, tab, drawn, stack, at, rows, frozen, loop, freed>>

Opened == {v \in View : tab[v] = "open"}

\* Faulty: the child frees its DiffOptions with itself (the XXX of mdi.c:204).
CloseDisplayFrees(v) ==
    /\ Dispatching
    /\ active = v
    /\ v # NoView
    /\ tab' = [tab EXCEPT ![v] = "removed"]
    /\ active' \in IF Opened = {v} THEN {NoView} ELSE Opened \ {v}
    /\ freed' = freed \cup {v}
    /\ UNCHANGED <<spawnVars, drawn, stack, at, rows, frozen, loop>>

\* Close display: the active child is removed, the MDI picks another.  A
\* load of that view that waits in a pump goes on: the signal emission that
\* called it holds a reference to the widget.
CloseDisplay(v) ==
    /\ Dispatching
    /\ active = v
    /\ v # NoView
    /\ tab' = [tab EXCEPT ![v] = "removed"]
    /\ active' \in IF Opened = {v} THEN {NoView} ELSE Opened \ {v}
    /\ UNCHANGED <<spawnVars, drawn, stack, at, rows, frozen, loop, freed>>

RemoveAll ==
    /\ tab' = [v \in View |-> IF tab[v] = "open" THEN "removed" ELSE tab[v]]
    /\ active' = NoView

\* Exit in the menu: mdi_close.
ExitMenu ==
    /\ Dispatching
    /\ loop # "gone"
    /\ RemoveAll
    /\ loop' = "quit"
    /\ UNCHANGED <<spawnVars, drawn, stack, at, rows, frozen, freed>>

\* The window manager closes the window: the MDI goes with it.
CloseWindow ==
    /\ Dispatching
    /\ loop # "gone"
    /\ RemoveAll
    /\ loop' = "gone"
    /\ UNCHANGED <<spawnVars, drawn, stack, at, rows, frozen, freed>>

\* Faulty: nothing calls gtk_main_quit when the MDI is destroyed.
MainReturnsOnQuit ==
    /\ stack = << >>
    /\ loop = "quit"
    /\ Exit
    /\ freed' = freed \cup ({Arg} \ {NoView})
    /\ UNCHANGED <<tab, active, drawn, stack, at, rows, frozen, loop>>

\* gtk_main returns, main frees the DiffOptions of the command line and ends.
MainReturns ==
    /\ stack = << >>
    /\ loop # "run"
    /\ Exit
    /\ freed' = freed \cup ({Arg} \ {NoView})
    /\ UNCHANGED <<tab, active, drawn, stack, at, rows, frozen, loop>>

-----------------------------------------------------------------------------
Load(v) ==
    \/ PumpEnds(v)
    \/ Forks(v)
    \/ Returns(v)
    \/ ReturnsNull(v)
    \/ Clear(v)
    \/ CompareReads(v)
    \/ CompareCrashes(v)
    \/ CompareCloses(v)
    \/ TreeReads(v)
    \/ TreeCloses(v)
    \/ TreeCrashes(v)

Draw(v) == DrawCompare(v) \/ DrawTree(v)

User(v) == Open(v) \/ Select(v) \/ CloseDisplay(v)

DiffProcess(v) == Child(v) /\ UNCHANGED viewVars

Next ==
    \/ \E v \in View : Draw(v) \/ Load(v) \/ User(v) \/ DiffProcess(v)
    \/ ExitMenu
    \/ CloseWindow
    \/ MainReturns

Safe == Init /\ [][Next]_vars

\* The scheduler runs the processes; the user stops clicking now and then,
\* so that a pump ends; gtk_main dispatches the draw that waits.  The user
\* is obliged to nothing, and no diff has to be killed.
Fairness ==
    /\ \A v \in View : ChildFairness(v) /\ WF_vars(Load(v)) /\ WF_vars(Draw(v))
    /\ WF_vars(MainReturns)

Spec == Safe /\ Fairness

-----------------------------------------------------------------------------
(* Properties *)

\* Redrawing a view from inside its own load does not start the load again:
\* no view is on the stack twice, so the recursion through the pumps of
\* gtk_compare is at most one load per view deep (compare.c:79-83).
SingleLoad ==
    \A i, j \in DOMAIN stack : stack[i] = stack[j] => i = j

\* A list is frozen only while its own load reads the pipe without pumping:
\* no event is ever dispatched, and no other load runs, while a list is
\* half filled (compare.c:227-362).
HalfListHidden ==
    \A v \in View : frozen[v] /\ up => Executing(v) /\ at[v] = "read"

\* A load that has still to build its command line from the DiffOptions of
\* its view finds them allocated, even if the view was closed meanwhile
\* (compare.c:216-220, mdi.c:204, gd.c:53).
NoUseAfterFree ==
    \A i \in DOMAIN stack : at[stack[i]] \in {"pump1", "spawn"} => stack[i] \notin freed

\* Between loads gdiff holds no end of any pipe, but for the pipes whose
\* fork failed (spawn.c:78): whatever was closed or left in the meantime,
\* every stream that run_diff returned has been closed.
NoPipeAtRest ==
    up /\ stack = << >> =>
        \A r \in Run : Gdiff \in wend[r] \cup rend[r] => stream[r] = "failed"

\* What a compare view shows goes in one step from the row that asks to
\* wait to the complete output of a diff that has ended (module Display).
Shown == [v \in View |-> IF frozen[v] THEN NewList(v) ELSE rows[v]]

Display == INSTANCE Display WITH
    Views   <- Compare,
    shown   <- [v \in Compare |-> Shown[v]],
    written <- [v \in Compare |-> sent[v]],
    ended   <- {v \in Compare : child[v] \in {"exiting", "zombie", "reaped"}}

ShowsWholeDiffs == Display!Spec

\* A view that stays active is drawn, whatever loads were in progress when
\* it became active, unless gdiff ends.
ActiveIsDrawn ==
    \A v \in View : (active = v /\ up) ~> (drawn[v] \/ active # v \/ ~up)

\* A load that has started comes to its end, whatever is loaded on top of
\* it, unless gdiff ends.
LoadEnds ==
    \A v \in View : drawn[v] ~> (at[v] = "done" \/ ~up)

\* Once gdiff was told to quit, from the menu or by the window manager, and
\* be it from within a load, it ends.
QuitEnds ==
    loop # "run" ~> ~up

\* run_diff may return NULL, and its caller must not read from that stream
\* (the assertion of gtk_diff_tree_compare, derived.c:290).
NullStreamNotRead ==
    \A v \in View : Executing(v) /\ at[v] = "read" => stream[v] # "failed"

\* The tree frees the DiffOptions that main hands it (gd.c:48): they are
\* gone once the MDI, and the tree with it, is destroyed.
TreeFreesDiff ==
    Arg \in Tree /\ loop = "gone" => Arg \in freed
=============================================================================
