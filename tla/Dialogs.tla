------------------------------ MODULE Dialogs ------------------------------
(***************************************************************************)
(* The dialogs of gdiff: the file dialog and its two browsers (file.c),    *)
(* the preferences (show_preferences, options.c), About and the question   *)
(* of confirm (menu.c), and what happens to them when the window or        *)
(* another dialog is destroyed.                                            *)
(*                                                                         *)
(* A dialog is remembered in a static pointer, so that the menu raises the *)
(* one that is there instead of making a second.  Two kinds of handlers of *)
(* the signal "destroy" keep the pointers right: gtk_widget_destroyed, on  *)
(* the dialog, sets its pointer to NULL; destroy_browse and destroy_prefs, *)
(* on the parent, destroy what the pointer points to.  Handlers are        *)
(* connected at run time and never disconnected; addresses of destroyed    *)
(* widgets are used again.                                                 *)
(*                                                                         *)
(* The main loop is that of module Views, reduced to who dispatches        *)
(* events: `nest' holds the loads that pump and the question of confirm,   *)
(* which runs a main loop of its own, the innermost last.                  *)
(***************************************************************************)
EXTENDS Naturals, FiniteSets, Sequences, SequencesExt

CONSTANTS
    Widget,     \* the addresses of dialogs
    Window,     \* the application's window, destroyed with the MDI
    NULL,
    MaxNest     \* bound on the loads and questions on the C stack

Side    == {"left", "right"}
Pointer == Side \cup {"file", "prefs", "about"}

DialogsAssumption ==
    /\ Window \notin Widget
    /\ NULL \notin Widget \cup {Window} \cup Pointer
    /\ MaxNest \in Nat

VARIABLES
    window,   \* the window and the MDI are there
    loop,     \* gtk_main runs, or was told to quit
    nest,     \* what dispatches events on top of gtk_main
    up,       \* main has not returned
    static,   \* the static pointers
    kind,     \* which dialog is at each address, or NULL
    nulls,    \* gtk_widget_destroyed handlers: the pointers they reset
    kills,    \* destroy_browse and destroy_prefs handlers: their pointers
    parent,   \* the window each dialog was opened from
    filled,   \* the entries of the file dialog that are not empty
    infos,    \* the BrowseInfos allocated, by dialog and side
    stale,    \* a destroyed MDI was handed to mdi_add_diff, and from where
    option,   \* the static `option' of menu.c: ask
    checked   \* the check box of the question, "don't ask me"

loopVars   == <<window, loop, nest, up>>
widgetVars == <<static, kind, nulls, kills, parent, filled, infos>>
askVars    == <<option, checked>>
vars       == <<loopVars, widgetVars, stale, askVars>>

Questions == {i \in DOMAIN nest : nest[i] = "question"}

TypeOK ==
    /\ window \in BOOLEAN
    /\ loop \in {"run", "quit"}
    /\ nest \in Seq({"load", "question"})
    /\ \A i, j \in Questions : i = j
    /\ up \in BOOLEAN
    /\ static \in [Pointer -> Widget \cup {NULL}]
    /\ kind \in [Widget -> Pointer \cup {NULL}]
    /\ nulls \in [Widget -> SUBSET Pointer]
    /\ kills \in [Widget \cup {Window} -> SUBSET Pointer]
    /\ parent \in [Widget -> Widget \cup {Window, NULL}]
    /\ filled \in SUBSET Side
    /\ infos \subseteq Widget \X Side
    /\ stale \subseteq {"main", "load"}
    /\ option \in BOOLEAN
    /\ checked \in BOOLEAN

Init ==
    /\ window = TRUE
    /\ loop = "run"
    /\ nest = << >>
    /\ up = TRUE
    /\ static = [p \in Pointer |-> NULL]
    /\ kind = [w \in Widget |-> NULL]
    /\ nulls = [w \in Widget |-> {}]
    /\ kills = [w \in Widget \cup {Window} |-> {}]
    /\ parent = [w \in Widget |-> NULL]
    /\ filled = {}
    /\ infos = {}
    /\ stale = {}
    /\ option = TRUE
    /\ checked = FALSE

-----------------------------------------------------------------------------
(* Who gets the user's clicks *)

Innermost == IF nest = << >> THEN "main" ELSE Last(nest)

Dispatching == up /\ (nest = << >> => loop = "run")

Asking == Questions # {}

\* The question is modal: the other windows take no clicks while it is open.
Clicks == Dispatching /\ ~Asking

Live(w) == IF w = Window THEN window ELSE kind[w] # NULL

-----------------------------------------------------------------------------
(* Creating and destroying dialogs *)

\* Faulty: gtk_widget_destroyed is not connected.
CreateUnwatched(p, w, from, killer) ==
    /\ static[p] = NULL
    /\ kind[w] = NULL
    /\ static' = [static EXCEPT ![p] = w]
    /\ kind' = [kind EXCEPT ![w] = p]
    /\ nulls' = nulls
    /\ kills' = [v \in DOMAIN kills |->
                    IF v = w THEN {}
                    ELSE IF v = from /\ killer THEN kills[v] \cup {p} ELSE kills[v]]
    /\ parent' = [parent EXCEPT ![w] = from]

\* Faulty: the dialog does not die with its parent.
CreateOrphan(p, w, from, killer) ==
    /\ static[p] = NULL
    /\ kind[w] = NULL
    /\ static' = [static EXCEPT ![p] = w]
    /\ kind' = [kind EXCEPT ![w] = p]
    /\ nulls' = [nulls EXCEPT ![w] = {p}]
    /\ kills' = [v \in DOMAIN kills |-> IF v = w THEN {} ELSE kills[v]]
    /\ parent' = [parent EXCEPT ![w] = from]

\* A static pointer that is NULL gets a new dialog; one that is not is only
\* raised.  The parent destroys it if the caller connects the killer.
Create(p, w, from, killer) ==
    /\ static[p] = NULL
    /\ kind[w] = NULL
    /\ static' = [static EXCEPT ![p] = w]
    /\ kind' = [kind EXCEPT ![w] = p]
    /\ nulls' = [nulls EXCEPT ![w] = {p}]
    /\ kills' = [v \in DOMAIN kills |->
                    IF v = w THEN {}
                    ELSE IF v = from /\ killer THEN kills[v] \cup {p} ELSE kills[v]]
    /\ parent' = [parent EXCEPT ![w] = from]

\* What goes with w: its handlers destroy the dialogs they point to.  None
\* of those has such handlers itself but the file dialog, which no handler
\* destroys.
Doomed(w) == {w} \cup ({static[p] : p \in kills[w]} \ {NULL})

\* gtk_widget_destroy (w): w and what goes with it; their handlers run and
\* go with them.  destroy_browse and destroy_prefs also reset the pointer.
Destroy(w) ==
    LET gone  == Doomed(w)
        reset == (UNION {nulls[v] : v \in gone \ {Window}})
                   \cup {p \in kills[w] : static[p] \in gone}
    IN  /\ static' = [p \in Pointer |-> IF p \in reset THEN NULL ELSE static[p]]
        /\ kind'   = [v \in Widget |-> IF v \in gone THEN NULL ELSE kind[v]]
        /\ parent' = [v \in Widget |-> IF v \in gone THEN NULL ELSE parent[v]]
        /\ nulls'  = [v \in Widget |-> IF v \in gone THEN {} ELSE nulls[v]]
        /\ kills'  = [v \in DOMAIN kills |-> IF v \in gone THEN {} ELSE kills[v]]

-----------------------------------------------------------------------------
(* The menu *)

\* "New": the file dialog, with empty entries and a BrowseInfo per side.
NewFile(w) ==
    /\ Clicks
    /\ window
    /\ Create("file", w, Window, FALSE)
    /\ filled' = {}
    /\ infos' = infos \cup ({w} \X Side)
    /\ UNCHANGED <<loopVars, stale, askVars>>

PreferencesCb(w) ==
    /\ Clicks
    /\ window
    /\ Create("prefs", w, Window, TRUE)
    /\ UNCHANGED <<loopVars, filled, infos, stale, askVars>>

AboutCb(w) ==
    /\ Clicks
    /\ window
    /\ Create("about", w, Window, FALSE)
    /\ UNCHANGED <<loopVars, filled, infos, stale, askVars>>

\* "Exit": mdi_close.  The window stays until main ends.
ExitMenu ==
    /\ Clicks
    /\ window
    /\ loop' = "quit"
    /\ UNCHANGED <<window, nest, up, widgetVars, stale, askVars>>

\* Faulty: the destruction of the MDI does not end the main loop.
CloseWindowOnly ==
    /\ Clicks
    /\ window
    /\ window' = FALSE
    /\ Destroy(Window)
    /\ UNCHANGED <<loop, nest, up, filled, infos, stale, askVars>>

\* The window manager closes the window, and with it the MDI.
CloseWindow ==
    /\ Clicks
    /\ window
    /\ window' = FALSE
    /\ loop' = "quit"
    /\ Destroy(Window)
    /\ UNCHANGED <<nest, up, filled, infos, stale, askVars>>

-----------------------------------------------------------------------------
(* The file dialog and its browsers *)

\* An entry gets or loses its text; entry_changed sets the OK button.
Type(s) ==
    /\ Clicks
    /\ static["file"] # NULL
    /\ filled' \in {filled \cup {s}, filled \ {s}}
    /\ UNCHANGED <<loopVars, static, kind, nulls, kills, parent, infos, stale, askVars>>

\* The browse button of the dialog d.
Browse(d, s, w) ==
    /\ Clicks
    /\ kind[d] = "file"
    /\ Create(s, w, d, TRUE)
    /\ UNCHANGED <<loopVars, filled, infos, stale, askVars>>

\* OK in a browser: the name goes to the entry of the dialog that the
\* BrowseInfo names.
BrowserOk(b, s) ==
    /\ Clicks
    /\ kind[b] = s
    /\ filled' = filled \cup {s}
    /\ Destroy(b)
    /\ UNCHANGED <<loopVars, infos, stale, askVars>>

\* Cancel in a browser is destroy_browse: what the pointer points to goes.
BrowserCancel(b, s) ==
    /\ Clicks
    /\ kind[b] = s
    /\ static[s] # NULL
    /\ Destroy(static[s])
    /\ UNCHANGED <<loopVars, filled, infos, stale, askVars>>

\* "Diff options" in the dialog d.
DiffOptionsButton(d, w) ==
    /\ Clicks
    /\ kind[d] = "file"
    /\ Create("prefs", w, d, TRUE)
    /\ UNCHANGED <<loopVars, filled, infos, stale, askVars>>

\* OK in the dialog: a view is added to the MDI that the dialog was made
\* with, and the dialog is closed.
FileOk(d) ==
    /\ Clicks
    /\ kind[d] = "file"
    /\ filled = Side
    /\ stale' = IF window THEN stale ELSE stale \cup {Innermost}
    /\ Destroy(d)
    /\ UNCHANGED <<loopVars, filled, infos, askVars>>

\* Cancel in a dialog, or the window manager closes any of them.
Close(d) ==
    /\ Clicks
    /\ Live(d)
    /\ Destroy(d)
    /\ UNCHANGED <<loopVars, filled, infos, stale, askVars>>

-----------------------------------------------------------------------------
(* The question of confirm, asked by prev_diff_cb *)

\* Asked only while the option says so; the check box starts as
\* *option == 0.
Ask ==
    /\ Clicks
    /\ window
    /\ option
    /\ Len(nest) < MaxNest
    /\ nest' = Append(nest, "question")
    /\ checked' = ~option
    /\ UNCHANGED <<window, loop, up, widgetVars, stale, option>>

\* toggle_option, at each toggle of the check box, which a load that pumps
\* above the question can dispatch as well.
ToggleOption ==
    /\ Asking
    /\ checked' = ~checked
    /\ option' = ~option
    /\ UNCHANGED <<loopVars, widgetVars, stale>>

\* Yes, no, or the box is closed: gnome_dialog_run_and_close returns, once
\* the loads above it have.
Answer ==
    /\ Innermost = "question"
    /\ nest' = Front(nest)
    /\ UNCHANGED <<window, loop, up, widgetVars, stale, askVars>>

\* next_diff_cb turns the question on again.
NextDiff ==
    /\ Clicks
    /\ window
    /\ option' = TRUE
    /\ UNCHANGED <<loopVars, widgetVars, stale, checked>>

-----------------------------------------------------------------------------
(* The loads and main *)

\* A view is drawn for the first time and its load pumps (module Views).
LoadStarts ==
    /\ Dispatching
    /\ window
    /\ Len(nest) < MaxNest
    /\ nest' = Append(nest, "load")
    /\ UNCHANGED <<window, loop, up, widgetVars, stale, askVars>>

LoadEnds ==
    /\ Innermost = "load"
    /\ nest' = Front(nest)
    /\ UNCHANGED <<window, loop, up, widgetVars, stale, askVars>>

MainReturns ==
    /\ up
    /\ nest = << >>
    /\ loop = "quit"
    /\ up' = FALSE
    /\ UNCHANGED <<window, loop, nest, widgetVars, stale, askVars>>

-----------------------------------------------------------------------------
Menu ==
    \/ \E w \in Widget : NewFile(w) \/ PreferencesCb(w) \/ AboutCb(w)
    \/ Ask
    \/ NextDiff
    \/ ExitMenu
    \/ CloseWindow

FileDialog ==
    \/ \E s \in Side : Type(s)
    \/ \E d, w \in Widget :
          (\E s \in Side : Browse(d, s, w)) \/ DiffOptionsButton(d, w)
    \/ \E b \in Widget, s \in Side : BrowserOk(b, s) \/ BrowserCancel(b, s)
    \/ \E d \in Widget : FileOk(d) \/ Close(d)

Next ==
    \/ Menu
    \/ FileDialog
    \/ ToggleOption
    \/ Answer
    \/ LoadStarts
    \/ LoadEnds
    \/ MainReturns

Spec == Init /\ [][Next]_vars

-----------------------------------------------------------------------------
(* Properties *)

\* The static pointers and the dialogs on the screen always agree, however a
\* dialog came to its end: a pointer that is not NULL points to a living
\* dialog of its kind, so that raising it is safe (file.c:84, 126,
\* options.c:681, menu.c:322), and every living dialog is the one of its
\* pointer, so that there is never a second of a kind.
PointersAgree ==
    /\ \A p \in Pointer : static[p] # NULL => kind[static[p]] = p
    /\ \A w \in Widget : kind[w] # NULL => static[kind[w]] = w

\* "parent dies, we die" (file.c:123): a browser, whose BrowseInfo points
\* into the file dialog it was opened from, and the preferences never
\* outlive the window they were opened from.
DiesWithParent ==
    \A w \in Widget : kind[w] \in Side \cup {"prefs"} => Live(parent[w])

\* A browser writes its name to an entry of a file dialog (file.c:244), not
\* to whatever was created at the address of a dialog that is gone.
BrowsesForFile ==
    \A w \in Widget : kind[w] \in Side => kind[parent[w]] = "file"

\* The file dialog survives the MDI that it hands to mdi_add_diff
\* (file.c:189).  gtk_main never dispatches its OK then: only a load that
\* pumps beneath the closed window can.
StaleOnlyInLoad == "main" \notin stale

\* While the question is open the user can set its option by the check box
\* alone: a checked box always means that the question is off
\* (menu.c:519-520).
BoxMeansOff == Asking => checked = ~option

\* A BrowseInfo is "g_free'd in destroy_browse" (file.c:316), so none is
\* left when its file dialog is gone.
BrowseInfoFreed == \A i \in infos : kind[i[1]] = "file"
=============================================================================
