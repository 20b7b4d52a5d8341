----------------------------- MODULE Interface ------------------------------
(* What the user tells gdiff: the arguments of a comparison, the dialogs,  *)
(* the preferences and the menus.  They share no state but the life of the *)
(* window, of which each has its own picture, so that a behaviour is one   *)
(* of one of them: `part' says of which.  The others stay in one of their  *)
(* initial states.                                                         *)
(*                                                                         *)
(* The preferences are there twice: of the gdiffs that share a file        *)
(* ("shared"), with fewer kinds of options, and of one without company     *)
(* ("alone").                                                              *)
EXTENDS Integers, Sequences

CONSTANTS
    Name, Dot, None, Inputs, FileSystems,    \* of Args
    Widget, Window, NULL, MaxNest,           \* of Dialogs
    View, Tree, NoView,                      \* of Menus
    Sharers, Loners,                         \* the processes of Preferences,
    Check, Radio, StyleOption, Choices,      \* their options
    Numbers, High, Low, DEFAULT, NotCached,  \* and values,
    SharedRadio, SharedNumbers, SharedHigh   \* those of the sharers

VARIABLES
    part,
    fs, steady, input, given, left, right, ltype, rtype, reversed, type, at,
    window, loop, nest, up, static, kind, nulls, kills, parent, filled, infos, stale, option, checked,
    file, cache, dialog, opts, touched, dirty, crashed, behind, edited,
    unborn, open, active, childMenu, sensitive, greyed, menuLoop, saved

Args == INSTANCE Args

Dialogs == INSTANCE Dialogs

\* The instances are of the module with the theorems, so that proofs about
\* this module can cite them.
Shared == INSTANCE PreferencesProofs WITH
    Gdiff <- Sharers, Radio <- SharedRadio, Numbers <- SharedNumbers, High <- SharedHigh

Alone == INSTANCE PreferencesProofs WITH Gdiff <- Loners

Menus == INSTANCE Menus WITH loop <- menuLoop

ASSUME InterfaceAssumption ==
    /\ Args!ArgsAssumption
    /\ Dialogs!DialogsAssumption
    /\ Shared!PreferencesAssumption
    /\ Alone!PreferencesAssumption
    /\ Menus!MenusAssumption

argsVars        == <<fs, steady, input, given, left, right, ltype, rtype, reversed, type, at>>
dialogsVars     == <<window, loop, nest, up, static, kind, nulls, kills, parent, filled, infos, stale, option, checked>>
preferencesVars == <<file, cache, dialog, opts, touched, dirty, crashed, behind, edited>>
menusVars       == <<unborn, open, active, childMenu, sensitive, greyed, menuLoop, saved>>
vars            == <<part, argsVars, dialogsVars, preferencesVars, menusVars>>

\* The configuration file, the files and the command line, where they do not
\* matter.
NoFile   == [k \in Shared!Key |-> << >>]
AnyFiles == CHOOSE tree \in FileSystems : TRUE
AnyInput == CHOOSE i \in Inputs : TRUE

Init ==
    /\ part \in {"arguments", "dialogs", "shared", "alone", "menus"}
    /\ Args!Init
    /\ part # "arguments" => fs = AnyFiles /\ input = AnyInput
    /\ Dialogs!Init
    /\ part \notin {"shared", "alone"} => file = NoFile
    /\ IF part = "alone" THEN Alone!Init ELSE Shared!Init
    /\ Menus!Init

Next ==
    /\ UNCHANGED part
    /\ \/ part = "arguments" /\ Args!Next /\ UNCHANGED <<dialogsVars, preferencesVars, menusVars>>
       \/ part = "dialogs" /\ Dialogs!Next /\ UNCHANGED <<argsVars, preferencesVars, menusVars>>
       \/ part = "shared" /\ Shared!Next /\ UNCHANGED <<argsVars, dialogsVars, menusVars>>
       \/ part = "alone" /\ Alone!Next /\ UNCHANGED <<argsVars, dialogsVars, menusVars>>
       \/ part = "menus" /\ Menus!Next /\ UNCHANGED <<argsVars, dialogsVars, preferencesVars>>

Spec == Init /\ [][Next]_vars

-----------------------------------------------------------------------------
(* The properties of the parts, which their modules state *)

TypeOK ==
    /\ Args!TypeOK
    /\ Dialogs!TypeOK
    /\ IF part = "alone" THEN Alone!TypeOK ELSE Shared!TypeOK
    /\ Menus!TypeOK

\* Each path stays on its side, whatever stat saw when, and however the
\* sides were swapped meanwhile (args.c:231-258).
SidesKept == Args!SidesKept

\* What is compared when nobody interferes is what the table at todo:501-507
\* asks for (args.c:195-261).
TableKept == Args!TableKept

\* Any two directories can be compared (todo:502), the root directory too.
DirectoriesCompared == Args!DirectoriesCompared

\* The static variables agree with the dialogs on the screen: the pointers
\* (file.c:84, 126), and the option with the check box of the question
\* (menu.c:519-520).
StaticsAgree == Dialogs!PointersAgree /\ Dialogs!BoxMeansOff

\* Browsers and preferences die with their parents (file.c:123), so that a
\* browser always writes to an entry of the file dialog it was opened from
\* (file.c:244).
DiesWithParent == Dialogs!DiesWithParent /\ Dialogs!BrowsesForFile

\* gtk_main never hands a destroyed MDI to mdi_add_diff (file.c:189).
StaleOnlyInLoad == Dialogs!StaleOnlyInLoad

\* gdiff reads whatever gdiff wrote (options.c:635).
DiesOfEditsOnly == Shared!DiesOfEditsOnly

\* A save changes the meaning of no option that the user left alone, unless
\* the file changed behind its back, and the next dialog shows what was
\* applied (options.c:503-586, 626-650).
SavesFaithfully ==
    [][IF part = "alone" THEN Alone!KeepsUntouched /\ Alone!ReadsApplied
       ELSE Shared!KeepsUntouched /\ Shared!ReadsApplied]_vars

\* The items that can be chosen have something to work on, and the item
\* that is greyed by its index is Sort (menu.c:575-648).
ItemsFit == Menus!ItemsFit /\ Menus!SortIsSecond
=============================================================================
