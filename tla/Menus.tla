------------------------------- MODULE Menus --------------------------------
(***************************************************************************)
(* The menus of the window (menu.c) and who keeps them in step with the    *)
(* active view (mdi.c).  A child brings its own menu; the items of the     *)
(* File menu that work on the active view are made sensitive by            *)
(* set_menu_state, which is called when the window is made, by the signal  *)
(* view_changed and after a view is closed.                                *)
(*                                                                         *)
(* Left out: the callbacks that only print, and what compare_cb does with  *)
(* a selected row, since no row is ever put into a directory view          *)
(* (tree_dialog_traverse is empty).                                        *)
(***************************************************************************)
EXTENDS Integers, FiniteSets

CONSTANTS
    View,   \* the views that may be opened
    Tree,   \* those of directories
    NoView

MenusAssumption == Tree \subseteq View /\ NoView \notin View

VARIABLES
    unborn,    \* views not asked for yet
    open,      \* the children of the MDI
    active,    \* mdi->active_view
    childMenu, \* the menu of the active child in the window
    sensitive, \* the items of the main menu that can be chosen
    greyed,    \* the menus whose second item set_state_tree_menu made insensitive
    loop,      \* gtk_main runs, was told to quit, or the MDI is destroyed
    saved      \* the views whose list was asked to be saved

vars == <<unborn, open, active, childMenu, sensitive, greyed, loop, saved>>

Items    == {"compare", "save", "close", "windows"}
NoMenu   == "none"
TreeMenu == "list_main_menu"
FileMenu == "file_main_menu"

TypeOK ==
    /\ unborn \subseteq View /\ open \subseteq View \ unborn
    /\ active \in open \cup {NoView}
    /\ childMenu \in {NoMenu, TreeMenu, FileMenu}
    /\ sensitive \subseteq Items
    /\ saved \subseteq View

\* mdi_new opens the window and sets the state of its menus.
Init ==
    /\ unborn = View /\ open = {}
    /\ active = NoView
    /\ childMenu = NoMenu
    /\ sensitive = {}
    /\ greyed = {}
    /\ loop = "run"
    /\ saved = {}

-----------------------------------------------------------------------------
(* The state of the menus *)

\* set_menu_for_view gives a child its menu; the MDI shows that of the
\* active child.
MenuForView(v) == IF v = NoView THEN NoMenu ELSE IF v \in Tree THEN TreeMenu ELSE FileMenu

\* set_menu_state, when v has become the active view.
SetMenuState(v) ==
    /\ sensitive' = (IF v \in Tree THEN {"compare", "save"} ELSE {}) \cup (IF v = NoView THEN {} ELSE {"close", "windows"})
    /\ greyed' = IF v \in Tree THEN greyed \cup {childMenu'} ELSE greyed

Signalled == SetMenuState(active')
Unnoticed == UNCHANGED <<sensitive, greyed>>

\* gnome_mdi makes v the active view and shows the menu of its child.
MakeActive(v) == active' = v /\ childMenu' = MenuForView(v)

-----------------------------------------------------------------------------
(* What the user does *)

\* mdi_add_diff: the child has its menu before its view is added.
AddDiff(v) ==
    /\ loop # "gone"
    /\ v \in unborn
    /\ unborn' = unborn \ {v}
    /\ open' = open \cup {v}
    /\ MakeActive(v)
    /\ Signalled
    /\ UNCHANGED <<loop, saved>>

\* The user selects another tab, or a window in the menu of windows.
Select(v) ==
    /\ loop # "gone"
    /\ v \in open /\ v # active
    /\ MakeActive(v)
    /\ Signalled
    /\ UNCHANGED <<unborn, open, loop, saved>>

\* Faulty: only the signal sets the state of the menus.
CloseViewUnset ==
    /\ loop # "gone"
    /\ "close" \in sensitive
    /\ active # NoView
    /\ open' = open \ {active}
    /\ \E v \in IF open' = {} THEN {NoView} ELSE open' : MakeActive(v)
    /\ Signalled \/ (open' = {} /\ Unnoticed)
    /\ UNCHANGED <<unborn, loop, saved>>

\* close_display_cb and mdi_close_view, which does not rely on a signal for
\* the last view.
CloseView ==
    /\ loop # "gone"
    /\ "close" \in sensitive
    /\ active # NoView
    /\ open' = open \ {active}
    /\ \E v \in IF open' = {} THEN {NoView} ELSE open' : MakeActive(v)
    /\ SetMenuState(active')
    /\ UNCHANGED <<unborn, loop, saved>>

\* save_file_list_cb, if there is a view and it is a directory's.
SaveFileList ==
    /\ loop # "gone"
    /\ "save" \in sensitive
    /\ active \in Tree
    /\ saved' = saved \cup {active}
    /\ UNCHANGED <<unborn, open, active, childMenu, sensitive, greyed, loop>>

\* exit_gdiff_cb and mdi_close: the views go, the state of the menus stays
\* unless the MDI tells of it; a load may still dispatch events.
Exit ==
    /\ loop # "gone"
    /\ open' = {}
    /\ MakeActive(NoView)
    /\ Signalled \/ Unnoticed
    /\ loop' = "quit"
    /\ UNCHANGED <<unborn, saved>>

\* The window manager closes the window.
CloseWindow ==
    /\ loop # "gone"
    /\ open' = {}
    /\ MakeActive(NoView)
    /\ sensitive' = {} /\ greyed' = {}
    /\ loop' = "gone"
    /\ UNCHANGED <<unborn, saved>>

Next ==
    \/ \E v \in View : AddDiff(v) \/ Select(v)
    \/ CloseView \/ SaveFileList \/ Exit \/ CloseWindow

Spec == Init /\ [][Next]_vars

-----------------------------------------------------------------------------
(* Properties *)

\* As long as gdiff is not told to quit, the items that can be chosen are
\* those with something to work on: Compare and Save with a directory view,
\* Close and Windows with any view (menu.c:592-648, mdi.c:222-227).
ItemsFit ==
    loop = "run" =>
        /\ {"compare", "save"} \subseteq sensitive <=> active \in Tree
        /\ {"close", "windows"} \subseteq sensitive <=> active # NoView

\* The item that set_state_tree_menu takes by its index, the second of the
\* child's menu, is the Sort menu of a directory view (menu.c:575-585): the
\* menu of a file has no second item.
SortIsSecond == greyed \subseteq {TreeMenu}
=============================================================================
