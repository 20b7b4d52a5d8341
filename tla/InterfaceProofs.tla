-------------------------- MODULE InterfaceProofs ---------------------------
(* Proofs about the interface (module Interface): a behaviour of it is one *)
(* of each of its parts, so that what is proved of the parts holds of it.  *)
(* The arguments, the dialogs and the menus are proved here: for any       *)
(* command line and whatever the three stat calls see, and for any number  *)
(* of addresses and of views, and any depth of loads and questions.        *)
EXTENDS Interface, TLAPS

-----------------------------------------------------------------------------
(* The interface implements its parts *)

LEMMA ImplementsArgs == Spec => Args!Spec
<1>1. Init => Args!Init
  BY DEF Init
<1>2. [Next]_vars => [Args!Next]_(Args!vars)
  BY DEF Next, vars, argsVars, Args!vars
<1> QED BY <1>1, <1>2, PTL DEF Spec, Args!Spec

LEMMA ImplementsDialogs == Spec => Dialogs!Spec
<1>1. Init => Dialogs!Init
  BY DEF Init
<1>2. [Next]_vars => [Dialogs!Next]_(Dialogs!vars)
  BY DEF Next, vars, dialogsVars, Dialogs!vars, Dialogs!loopVars, Dialogs!widgetVars,
         Dialogs!askVars
<1> QED BY <1>1, <1>2, PTL DEF Spec, Dialogs!Spec

\* Where the preferences are shared, or there is nothing but their initial
\* state.
LEMMA ImplementsShared == Spec /\ part # "alone" => Shared!Spec /\ [](part # "alone")
<1>1. Init /\ part # "alone" => Shared!Init
  BY DEF Init
<1>2. [Next]_vars /\ part # "alone" => [Shared!Next]_(Shared!vars) /\ (part # "alone")'
  BY DEF Next, vars, preferencesVars, Shared!vars
<1> QED BY <1>1, <1>2, PTL DEF Spec, Shared!Spec

LEMMA ImplementsAlone == Spec /\ part = "alone" => Alone!Spec /\ [](part = "alone")
<1>1. Init /\ part = "alone" => Alone!Init
  BY DEF Init
<1>2. [Next]_vars /\ part = "alone" => [Alone!Next]_(Alone!vars) /\ (part = "alone")'
  BY DEF Next, vars, preferencesVars, Alone!vars
<1> QED BY <1>1, <1>2, PTL DEF Spec, Alone!Spec

LEMMA ImplementsMenus == Spec => Menus!Spec
<1>1. Init => Menus!Init
  BY DEF Init
<1>2. [Next]_vars => [Menus!Next]_(Menus!vars)
  BY DEF Next, vars, menusVars, Menus!vars
<1> QED BY <1>1, <1>2, PTL DEF Spec, Menus!Spec

-----------------------------------------------------------------------------
(* The arguments: what stands on which side, and what is known of it *)

\* The empty string, all that is left of "/", names nothing.
EmptyNamesNothing ==
    /\ << >> \notin DOMAIN fs
    /\ at = "right" /\ left = << >> => ltype = "error"

\* Where the two arguments are while categorise_args goes on.
Sides ==
    /\ at \in {"left", "right"} => left = Args!L /\ right = Args!R /\ ~reversed
    /\ at = "joined" => IF reversed THEN left = Args!R /\ right = Args!L
                                    ELSE left = Args!L /\ right = Args!R
    /\ at = "parse" => ~reversed
    /\ Args!SidesKept

\* What categorise_args knows of the two paths, as far as it has come.
Seen ==
    /\ at \in {"parse", "left", "right", "joined"} => type = "error"
    /\ at = "right" /\ steady => ltype = Args!Identify(Args!L)
    /\ at = "joined" =>
           /\ <<ltype, rtype>> \in {<<"file", "dir">>, <<"dir", "file">>}
           /\ reversed <=> ltype = "dir"
           /\ steady => ltype = Args!Identify(Args!L) /\ rtype = Args!Identify(Args!R)
    /\ Args!TableKept

ArgsInv == Args!TypeOK /\ EmptyNamesNothing /\ Sides /\ Seen

\* What is found at a path is a type; nothing is found at the empty string.
LEMMA IdentifyType ==
    ASSUME Args!TypeOK, NEW p \in Args!Path
    PROVE  Args!Identify(p) \in Args!Type
BY DEF Args!TypeOK, Args!Identify, Args!Type

\* The two sides of a command line that is not refused are arguments.
LEMMA GivenType ==
    ASSUME Args!TypeOK, Len(input.extra) <= Args!OpenSides
    PROVE  /\ Args!OrHere(Args!LeftGiven) \in Args!Arg \cup {Args!Here}
           /\ Args!OrHere(Args!RightGiven) \in Args!Arg \cup {Args!Here}
<1> DEFINE extra == input.extra
<1>1. /\ input.l \in Args!Arg \cup {None}
      /\ input.r \in Args!Arg \cup {None}
      /\ extra \in Seq(Args!Arg)
  BY DEF Args!TypeOK
<1>2. Len(extra) \in Nat /\ \A i \in 1..Len(extra) : extra[i] \in Args!Arg
  BY <1>1
<1>3. Args!OpenSides \in 0..2 /\ (input.r = None => Args!OpenSides \in 1..2)
  <2>1. CASE input.l = None /\ input.r = None
    BY <2>1 DEF Args!OpenSides
  <2>2. CASE input.l = None /\ input.r # None
    BY <2>2 DEF Args!OpenSides
  <2>3. CASE input.l # None /\ input.r = None
    BY <2>3 DEF Args!OpenSides
  <2>4. CASE input.l # None /\ input.r # None
    BY <2>4 DEF Args!OpenSides
  <2> QED BY <2>1, <2>2, <2>3, <2>4
<1>4. Args!LeftGiven \in Args!Arg \cup {None}
  <2>1. Len(extra) > 0 => 1 \in 1..Len(extra)
    BY <1>2
  <2>2. Len(extra) > 0 => extra[1] \in Args!Arg
    BY <1>2, <2>1
  <2> HIDE DEF extra
  <2> QED BY <1>1, <2>2 DEF Args!LeftGiven, extra
<1>5. Args!RightGiven \in Args!Arg \cup {None}
  <2>1. CASE input.r # None
    BY <1>1, <2>1 DEF Args!RightGiven
  <2>2. CASE input.r = None /\ Len(extra) >= Args!OpenSides
    <3>1. Args!OpenSides \in 1..Len(extra)
      BY <1>2, <1>3, <2>2
    <3>2. extra[Args!OpenSides] \in Args!Arg
      BY <1>2, <3>1
    <3> QED BY <2>2, <3>2 DEF Args!RightGiven
  <2>3. CASE input.r = None /\ ~(Len(extra) >= Args!OpenSides)
    BY <2>3 DEF Args!RightGiven
  <2> QED BY <2>1, <2>2, <2>3
<1> QED BY <1>4, <1>5 DEF Args!OrHere

\* The working directory is an argument like any other.
LEMMA HereType == Args!ArgsAssumption => Args!Here \in Args!Arg
<1> SUFFICES ASSUME Args!ArgsAssumption PROVE Args!Here \in Args!Arg
  OBVIOUS
<1>1. <<Dot>> \in Seq(Name)
  BY DEF Args!ArgsAssumption
<1> QED BY <1>1 DEF Args!Here, Args!Arg, Args!Path

\* The file and the directory that are left stand on known sides, and the
\* file has a name.
LEMMA JoinedType ==
    ASSUME Args!TypeOK, at = "joined"
    PROVE  /\ Args!Base(left) \in Name
           /\ Args!Join(right, Args!Base(left)) \in Args!Path
<1>1. left \in Seq(Name) /\ right \in Seq(Name) /\ left # << >>
  BY DEF Args!TypeOK, Args!Path
<1>2. Len(left) \in 1..Len(left)
  BY <1>1
<1>3. left[Len(left)] \in Name
  BY <1>1, <1>2
<1>4. Append(right, left[Len(left)]) \in Seq(Name)
  BY <1>1, <1>3
<1> QED BY <1>3, <1>4 DEF Args!Base, Args!Join, Args!Path

\* Every step of gdiff, and every change somebody else makes to the file
\* system, keeps the types.
LEMMA ArgsTypeStep ==
    ASSUME Args!ArgsAssumption, Args!TypeOK, EmptyNamesNothing, [Args!Next]_(Args!vars)
    PROVE  Args!TypeOK' /\ EmptyNamesNothing'
<1>1. CASE Args!Parse
  <2>1. Args!OrHere(Args!LeftGiven) \in Args!Arg /\ Args!OrHere(Args!RightGiven) \in Args!Arg
    BY <1>1, GivenType, HereType DEF Args!Parse
  <2>2. given' \in Args!Arg \X Args!Arg
    BY <1>1, <2>1 DEF Args!Parse
  <2>3. left' \in Args!Path /\ right' \in Args!Path
    BY <1>1, <2>1, <2>2 DEF Args!Parse, Args!Standardised, Args!Arg
  <2>4. at' = "left" /\ UNCHANGED <<fs, steady, input, ltype, rtype, reversed, type>>
    BY <1>1 DEF Args!Parse
  <2> QED BY <2>2, <2>3, <2>4 DEF Args!TypeOK, EmptyNamesNothing, Args!Place
<1>2. CASE Args!Refuse
  BY <1>2 DEF Args!Refuse, Args!TypeOK, EmptyNamesNothing, Args!Place
<1>3. CASE Args!StatLeft
  <2>1. Args!Identify(left) \in Args!Type /\ (left = << >> => Args!Identify(left) = "error")
    BY IdentifyType DEF Args!TypeOK, EmptyNamesNothing, Args!Identify
  <2> QED BY <1>3, <2>1 DEF Args!StatLeft, Args!TypeOK, EmptyNamesNothing, Args!Place
<1>4. CASE Args!StatRight
  <2>1. Args!Identify(right) \in Args!Type /\ (right = << >> => Args!Identify(right) = "error")
    BY IdentifyType DEF Args!TypeOK, EmptyNamesNothing, Args!Identify
  <2>2. CASE ltype = "error" \/ rtype' = "error" \/ ltype = rtype'
    BY <1>4, <2>1, <2>2 DEF Args!StatRight, Args!TypeOK, EmptyNamesNothing, Args!Place, Args!Type
  <2>3. CASE ~(ltype = "error" \/ rtype' = "error" \/ ltype = rtype')
    <3>1. /\ at' = "joined" /\ reversed' = Args!Swaps(ltype)
          /\ left' = IF reversed' THEN right ELSE left
          /\ right' = IF reversed' THEN left ELSE right
          /\ rtype' = Args!Identify(right)
          /\ at = "right"
          /\ UNCHANGED <<fs, steady, input, given, ltype, type>>
      BY <1>4, <2>3 DEF Args!StatRight
    <3>2. left # << >> /\ right # << >>
      BY <2>1, <2>3, <3>1 DEF EmptyNamesNothing
    <3>3. left' \in Args!Path /\ right' \in Args!Path /\ left' # << >>
      BY <3>1, <3>2 DEF Args!TypeOK
    <3>4. reversed' \in BOOLEAN /\ rtype' \in Args!Type
      BY <2>1, <3>1 DEF Args!Swaps
    <3> QED BY <3>1, <3>3, <3>4 DEF Args!TypeOK, EmptyNamesNothing, Args!Place
  <2> QED BY <2>2, <2>3
<1>5. CASE Args!StatJoined
  <2>1. Args!Join(right, Args!Base(left)) \in Args!Path
    BY <1>5, JoinedType DEF Args!StatJoined
  <2>2. left' \in Args!Path /\ right' \in Args!Path
    BY <1>5, <2>1 DEF Args!StatJoined, Args!Restore, Args!TypeOK
  <2>3. /\ at' = "done" /\ type' \in Args!Type
        /\ UNCHANGED <<fs, steady, input, given, ltype, rtype, reversed>>
    BY <1>5 DEF Args!StatJoined, Args!TypeOK, Args!Type
  <2> QED BY <2>2, <2>3 DEF Args!TypeOK, EmptyNamesNothing, Args!Place
<1>6. CASE Args!Change
  <2>1. PICK p \in DOMAIN fs \ {<<Dot>>}, t \in Args!Type : fs' = [fs EXCEPT ![p] = t]
    BY <1>6 DEF Args!Change
  <2>2. DOMAIN fs' = DOMAIN fs /\ \A q \in DOMAIN fs' : fs'[q] \in Args!Type
    BY <2>1 DEF Args!TypeOK
  <2> QED BY <1>6, <2>2 DEF Args!Change, Args!TypeOK, EmptyNamesNothing
<1>7. CASE UNCHANGED Args!vars
  BY <1>7 DEF Args!vars, Args!TypeOK, EmptyNamesNothing
<1> QED BY <1>1, <1>2, <1>3, <1>4, <1>5, <1>6, <1>7 DEF Args!Next

\* The sides are kept by every step: only Parse chooses the arguments, and
\* the swap of StatRight is undone by StatJoined.
LEMMA SidesStep ==
    ASSUME Args!TypeOK, Sides, [Args!Next]_(Args!vars)
    PROVE  Sides'
<1>1. CASE Args!Parse
  BY <1>1 DEF Args!Parse, Sides, Args!SidesKept, Args!L, Args!R
<1>2. CASE Args!Refuse
  BY <1>2 DEF Args!Refuse, Sides, Args!SidesKept, Args!L, Args!R
<1>3. CASE Args!StatLeft
  BY <1>3 DEF Args!StatLeft, Sides, Args!SidesKept, Args!L, Args!R
<1>4. CASE Args!StatRight
  <2>1. Args!L' = Args!L /\ Args!R' = Args!R
    BY <1>4 DEF Args!StatRight, Args!L, Args!R
  <2>2. left = Args!L /\ right = Args!R
    BY <1>4 DEF Args!StatRight, Sides
  <2> QED BY <1>4, <2>1, <2>2 DEF Args!StatRight, Sides, Args!SidesKept
<1>5. CASE Args!StatJoined
  <2>1. Args!L' = Args!L /\ Args!R' = Args!R /\ at' = "done"
    BY <1>5 DEF Args!StatJoined, Args!L, Args!R
  <2>2. CASE reversed
    BY <1>5, <2>1, <2>2 DEF Args!StatJoined, Args!Restore, Sides, Args!SidesKept
  <2>3. CASE ~reversed
    BY <1>5, <2>1, <2>3 DEF Args!StatJoined, Args!Restore, Sides, Args!SidesKept
  <2> QED BY <2>2, <2>3
<1>6. CASE Args!Change
  BY <1>6 DEF Args!Change, Sides, Args!SidesKept, Args!L, Args!R
<1>7. CASE UNCHANGED Args!vars
  BY <1>7 DEF Args!vars, Sides, Args!SidesKept, Args!L, Args!R
<1> QED BY <1>1, <1>2, <1>3, <1>4, <1>5, <1>6, <1>7 DEF Args!Next

\* While nobody interferes, what was seen is what there is, and the choice
\* made at the end is the one of the table.
LEMMA SeenStep ==
    ASSUME Args!TypeOK, Sides, Seen, [Args!Next]_(Args!vars)
    PROVE  Seen'
<1>1. CASE Args!Parse
  BY <1>1 DEF Args!Parse, Seen, Args!TableKept
<1>2. CASE Args!Refuse
  BY <1>2 DEF Args!Refuse, Seen, Args!TableKept
<1>3. CASE Args!StatLeft
  <2>1. left = Args!L /\ Args!L' = Args!L /\ Args!Identify(Args!L)' = Args!Identify(Args!L)
    BY <1>3 DEF Args!StatLeft, Sides, Args!L, Args!Identify
  <2> QED BY <1>3, <2>1 DEF Args!StatLeft, Seen, Args!TableKept
<1>4. CASE Args!StatRight
  <2>1. /\ left = Args!L /\ right = Args!R /\ Args!L' = Args!L /\ Args!R' = Args!R /\ fs' = fs /\ ~reversed
        /\ Args!Identify(Args!L)' = Args!Identify(Args!L) /\ Args!Identify(Args!R)' = Args!Identify(Args!R)
        /\ at = "right" /\ steady' = steady /\ ltype' = ltype /\ type = "error"
        /\ rtype' = Args!Identify(Args!R)
    BY <1>4 DEF Args!StatRight, Sides, Seen, Args!L, Args!R, Args!Identify
  <2>2. ltype \in Args!Type /\ rtype' \in Args!Type
    BY <2>1, IdentifyType DEF Args!TypeOK
  <2>3. CASE ltype = "error" \/ rtype' = "error" \/ ltype = rtype'
    <3>1. /\ at' = "done" /\ left' = Args!L /\ right' = Args!R
          /\ type' = IF ltype = rtype' THEN ltype ELSE "error"
      BY <1>4, <2>1, <2>3 DEF Args!StatRight
    <3>2. steady => ltype = Args!Identify(Args!L)
      BY <2>1 DEF Seen
    <3>3. steady => Args!Wanted' = <<Args!L, Args!R, IF ltype = rtype' THEN ltype ELSE "error">>
      BY <2>1, <2>3, <3>2 DEF Args!Wanted
    <3> QED BY <2>1, <3>1, <3>3 DEF Seen, Args!TableKept
  <2>4. CASE ~(ltype = "error" \/ rtype' = "error" \/ ltype = rtype')
    <3>1. at' = "joined" /\ reversed' = (ltype = "dir") /\ type' = type
      BY <1>4, <2>4 DEF Args!StatRight, Args!Swaps
    <3>2. <<ltype, rtype'>> \in {<<"file", "dir">>, <<"dir", "file">>}
      BY <2>2, <2>4 DEF Args!Type
    <3> QED BY <2>1, <3>1, <3>2 DEF Seen, Args!TableKept
  <2> QED BY <2>3, <2>4
<1>5. CASE Args!StatJoined
  <2>1. /\ Args!L' = Args!L /\ Args!R' = Args!R /\ fs' = fs /\ at = "joined" /\ at' = "done"
        /\ steady' = steady /\ type = "error"
        /\ <<ltype, rtype>> \in {<<"file", "dir">>, <<"dir", "file">>}
        /\ reversed <=> ltype = "dir"
        /\ steady => ltype = Args!Identify(Args!L) /\ rtype = Args!Identify(Args!R)
    BY <1>5 DEF Args!StatJoined, Seen, Args!L, Args!R
  <2>2. Args!Wanted' = Args!Wanted
    BY <2>1 DEF Args!Wanted, Args!Identify
  <2>3. CASE ltype = "file" /\ rtype = "dir"
    <3>1. left = Args!L /\ right = Args!R /\ ~reversed
      BY <2>1, <2>3 DEF Sides
    <3>2. steady => Args!Wanted = IF Args!Identify(Args!Join(Args!R, Args!Base(Args!L))) = "file"
                             THEN <<Args!L, Args!Join(Args!R, Args!Base(Args!L)), "file">> ELSE <<Args!L, Args!R, "error">>
      BY <2>1, <2>3 DEF Args!Wanted
    <3>3. <<left', right', type'>> = IF Args!Identify(Args!Join(Args!R, Args!Base(Args!L))) = "file"
                                     THEN <<Args!L, Args!Join(Args!R, Args!Base(Args!L)), "file">>
                                     ELSE <<Args!L, Args!R, "error">>
      BY <1>5, <2>1, <3>1 DEF Args!StatJoined, Args!Restore
    <3> QED BY <2>1, <2>2, <3>2, <3>3 DEF Seen, Args!TableKept
  <2>4. CASE ltype = "dir" /\ rtype = "file"
    <3>1. left = Args!R /\ right = Args!L /\ reversed
      BY <2>1, <2>4 DEF Sides
    <3>2. steady => Args!Wanted = IF Args!Identify(Args!Join(Args!L, Args!Base(Args!R))) = "file"
                             THEN <<Args!Join(Args!L, Args!Base(Args!R)), Args!R, "file">> ELSE <<Args!L, Args!R, "error">>
      BY <2>1, <2>4 DEF Args!Wanted
    <3>3. <<left', right', type'>> = IF Args!Identify(Args!Join(Args!L, Args!Base(Args!R))) = "file"
                                     THEN <<Args!Join(Args!L, Args!Base(Args!R)), Args!R, "file">>
                                     ELSE <<Args!L, Args!R, "error">>
      BY <1>5, <2>1, <3>1 DEF Args!StatJoined, Args!Restore
    <3> QED BY <2>1, <2>2, <3>2, <3>3 DEF Seen, Args!TableKept
  <2> QED BY <2>1, <2>3, <2>4
<1>6. CASE Args!Change
  BY <1>6 DEF Args!Change, Seen, Args!TableKept
<1>7. CASE UNCHANGED Args!vars
  BY <1>7 DEF Args!vars, Seen, Args!TableKept, Args!Wanted, Args!L, Args!R, Args!Identify
<1> QED BY <1>1, <1>2, <1>3, <1>4, <1>5, <1>6, <1>7 DEF Args!Next

\* The inductive invariant holds in every reachable state: the types, the
\* sides and what was seen keep each other, step by step.
LEMMA ArgsInvHolds == Args!ArgsAssumption /\ Args!Spec => []ArgsInv
<1> SUFFICES ASSUME Args!ArgsAssumption PROVE Args!Spec => []ArgsInv
  OBVIOUS
<1>1. Args!Init => ArgsInv
  <2> SUFFICES ASSUME Args!Init PROVE ArgsInv
    OBVIOUS
  <2>1. Args!Here \in Args!Arg /\ << >> \in Args!Path
    BY HereType DEF Args!ArgsAssumption, Args!Path
  <2>2. /\ DOMAIN fs \subseteq Args!Path /\ << >> \notin DOMAIN fs
        /\ \A p \in DOMAIN fs : fs[p] \in Args!Type
        /\ input \in [l : Args!Arg \cup {None}, r : Args!Arg \cup {None}, extra : Seq(Args!Arg)]
    BY DEF Args!ArgsAssumption, Args!Init
  <2> QED BY <2>1, <2>2 DEF Args!Init, ArgsInv, Args!TypeOK, Args!Place, Args!Type, EmptyNamesNothing,
             Sides, Args!SidesKept, Seen, Args!TableKept
<1>2. ArgsInv /\ [Args!Next]_(Args!vars) => ArgsInv'
  BY ArgsTypeStep, SidesStep, SeenStep DEF ArgsInv
<1> QED BY <1>1, <1>2, PTL DEF Args!Spec

-----------------------------------------------------------------------------
(* The dialogs: what there is at an address, and who destroys it *)

\* The dialogs that a parent destroys.
Dependent == Dialogs!Side \cup {"prefs"}

\* A dialog resets its own pointer and no other, and only the file dialog
\* destroys others; nothing is left at an address that is free.
HandlersFit(w) ==
    /\ kind[w] # NULL => nulls[w] = {kind[w]}
    /\ kind[w] = NULL => nulls[w] = {} /\ kills[w] = {} /\ parent[w] = NULL
    /\ kills[w] # {} => kind[w] = "file" /\ kills[w] \subseteq Dependent

\* The window destroys the preferences alone; once it is gone, the main loop
\* was told to quit.
WindowFits ==
    /\ kills[Window] \subseteq {"prefs"}
    /\ ~window => kills[Window] = {} /\ loop = "quit"

\* What a dialog was opened from destroys it.
ParentFits(w) ==
    /\ kind[w] \in Dependent => parent[w] # NULL /\ kind[w] \in kills[parent[w]]
    /\ kind[w] \in Dialogs!Side => parent[w] # Window

\* The inductive invariant behind PointersAgree, DiesWithParent and
\* BrowsesForFile.
WidgetsInv ==
    /\ Dialogs!PointersAgree
    /\ WindowFits
    /\ \A w \in Widget : HandlersFit(w) /\ ParentFits(w)

WidgetsTyped ==
    /\ static \in [Dialogs!Pointer -> Widget \cup {NULL}]
    /\ kind \in [Widget -> Dialogs!Pointer \cup {NULL}]
    /\ nulls \in [Widget -> SUBSET Dialogs!Pointer]
    /\ kills \in [Widget \cup {Window} -> SUBSET Dialogs!Pointer]
    /\ parent \in [Widget -> Widget \cup {Window, NULL}]

-----------------------------------------------------------------------------
(* A dialog is made *)

\* Who makes which dialog from where: the file dialog its browsers, the
\* window the file dialog and About, either of them the preferences; those
\* that depend on their parent get a killer.
Makes(p, from, killer) ==
    /\ killer <=> p \in Dependent
    /\ from = Window => window /\ p \notin Dialogs!Side
    /\ from # Window => from \in Widget /\ kind[from] = "file" /\ p \in Dependent

LEMMA CreateTyped ==
    ASSUME WidgetsTyped, NEW p \in Dialogs!Pointer, NEW w \in Widget,
           NEW from \in Widget \cup {Window}, NEW killer \in BOOLEAN,
           Dialogs!Create(p, w, from, killer)
    PROVE  WidgetsTyped'
BY DEF WidgetsTyped, Dialogs!Create

\* A new dialog is the one of its pointer, and its parent destroys it.
LEMMA CreateFits ==
    ASSUME Dialogs!DialogsAssumption, WidgetsTyped, WidgetsInv,
           NEW p \in Dialogs!Pointer, NEW w \in Widget,
           NEW from \in Widget \cup {Window}, NEW killer \in BOOLEAN,
           Dialogs!Create(p, w, from, killer), Makes(p, from, killer),
           UNCHANGED <<window, loop>>
    PROVE  WidgetsInv'
<1> USE DEF WidgetsTyped, WidgetsInv, Dialogs!Create, Dialogs!DialogsAssumption
<1>1. p # NULL /\ from # w
  BY DEF Dialogs!Pointer, Makes
<1>2. Dialogs!PointersAgree'
  BY DEF Dialogs!PointersAgree
<1>3. WindowFits'
  BY DEF WindowFits, Makes, Dependent
<1>4. ASSUME NEW v \in Widget PROVE HandlersFit(v)'
  <2>1. CASE v = w
    <3>1. kind'[v] = p /\ nulls'[v] = {p} /\ kills'[v] = {}
      BY <2>1
    <3> QED BY <3>1, <1>1 DEF HandlersFit
  <2>2. CASE v # w
    <3>1. UNCHANGED <<kind[v], nulls[v], parent[v]>>
      BY <2>2
    <3>2. kills'[v] # kills[v]
            => kind[v] = "file" /\ p \in Dependent /\ kills'[v] = kills[v] \cup {p}
      BY <2>2 DEF Makes
    <3> QED BY <3>1, <3>2 DEF HandlersFit, Dialogs!Pointer
  <2> QED BY <2>1, <2>2
<1>5. ASSUME NEW v \in Widget PROVE ParentFits(v)'
  <2>1. CASE v = w
    <3>1. kind'[v] = p /\ parent'[v] = from
      BY <2>1
    <3>2. killer => p \in kills'[from]
      BY <1>1
    <3> QED BY <3>1, <3>2 DEF ParentFits, Makes
  <2>2. CASE v # w
    <3>1. UNCHANGED <<kind[v], parent[v]>>
      BY <2>2
    <3>2. ASSUME kind[v] \in Dependent
          PROVE  kills[parent[v]] \subseteq kills'[parent[v]] /\ parent[v] # NULL
      <4>1. parent[v] # NULL /\ kind[v] \in kills[parent[v]]
        BY <3>2 DEF ParentFits
      <4>2. parent[v] # w
        BY <4>1 DEF HandlersFit
      <4> QED BY <4>1, <4>2
    <3> QED BY <3>1, <3>2 DEF ParentFits, Dependent
  <2> QED BY <2>1, <2>2
<1> QED BY <1>2, <1>3, <1>4, <1>5

-----------------------------------------------------------------------------
(* A dialog, or the window, is destroyed *)

LEMMA DestroyTyped ==
    ASSUME WidgetsTyped, NEW w \in Widget \cup {Window}, Dialogs!Destroy(w)
    PROVE  WidgetsTyped'
BY DEF WidgetsTyped, Dialogs!Destroy

\* What goes with w is the dialogs it handles that there are, and these have
\* no handlers for others.
LEMMA DoomedFits ==
    ASSUME Dialogs!DialogsAssumption, WidgetsTyped, WidgetsInv,
           NEW w \in Widget \cup {Window},
           NEW v \in Dialogs!Doomed(w), v # w
    PROVE  /\ v \in Widget
           /\ kind[v] \in kills[w] \cap Dependent
           /\ static[kind[v]] = v
           /\ kills[v] = {}
<1> USE DEF WidgetsTyped, WidgetsInv, Dialogs!DialogsAssumption
<1>1. PICK p \in kills[w] : static[p] = v /\ v # NULL
  BY DEF Dialogs!Doomed
<1>2. p \in Dialogs!Pointer /\ p \in Dependent
  BY DEF WindowFits, HandlersFit, Dependent
<1>3. v \in Widget /\ kind[v] = p
  BY <1>1, <1>2 DEF Dialogs!PointersAgree
<1>4. kind[v] # "file"
  BY <1>2, <1>3 DEF Dependent, Dialogs!Side
<1>5. kills[v] = {}
  BY <1>3, <1>4 DEF HandlersFit
<1> QED BY <1>1, <1>2, <1>3, <1>5

\* The pointers that the handlers reset are those of the dialogs that go.
LEMMA DestroyResets ==
    ASSUME Dialogs!DialogsAssumption, WidgetsTyped, WidgetsInv,
           NEW w \in Widget \cup {Window}, w \in Widget => kind[w] # NULL,
           Dialogs!Destroy(w), NEW p \in Dialogs!Pointer
    PROVE  static'[p] = IF static[p] \in Dialogs!Doomed(w) THEN NULL ELSE static[p]
<1> USE DEF WidgetsTyped, WidgetsInv, Dialogs!DialogsAssumption
<1> DEFINE reset == (UNION {nulls[v] : v \in Dialogs!Doomed(w) \ {Window}})
                       \cup {q \in kills[w] : static[q] \in Dialogs!Doomed(w)}
<1>1. static'[p] = IF p \in reset THEN NULL ELSE static[p]
  BY DEF Dialogs!Destroy
<1>2. ASSUME p \in reset, static[p] # NULL PROVE static[p] \in Dialogs!Doomed(w)
  <2>1. CASE p \in kills[w] /\ static[p] \in Dialogs!Doomed(w)
    BY <2>1
  <2>2. ASSUME NEW v \in Dialogs!Doomed(w) \ {Window}, p \in nulls[v]
        PROVE  static[p] \in Dialogs!Doomed(w)
    <3>1. v \in Widget /\ kind[v] # NULL
      BY DoomedFits, <2>2 DEF Dialogs!Doomed
    <3>2. kind[v] = p /\ static[p] = v
      BY <3>1, <2>2 DEF HandlersFit, Dialogs!PointersAgree
    <3> QED BY <3>2
  <2>3. \/ p \in kills[w] /\ static[p] \in Dialogs!Doomed(w)
        \/ \E v \in Dialogs!Doomed(w) \ {Window} : p \in nulls[v]
    BY <1>2
  <2> QED BY <2>1, <2>2, <2>3
<1>3. ASSUME static[p] \in Dialogs!Doomed(w), static[p] # NULL PROVE p \in reset
  <2> DEFINE v == static[p]
  <2>1. v \in Widget /\ v # Window /\ kind[v] = p
    BY <1>3 DEF Dialogs!PointersAgree
  <2>2. p \in nulls[v]
    BY <2>1 DEF HandlersFit
  <2> QED BY <1>3, <2>1, <2>2
<1> HIDE DEF reset
<1> QED BY <1>1, <1>2, <1>3

LEMMA DestroyFits ==
    ASSUME Dialogs!DialogsAssumption, WidgetsTyped, WidgetsInv,
           NEW w \in Widget \cup {Window}, w \in Widget => kind[w] # NULL,
           Dialogs!Destroy(w),
           IF w = Window THEN window' = FALSE /\ loop' = "quit" ELSE UNCHANGED <<window, loop>>
    PROVE  WidgetsInv'
<1> USE DEF WidgetsTyped, WidgetsInv, Dialogs!DialogsAssumption
<1> DEFINE gone == Dialogs!Doomed(w)
<1>1. /\ \A p \in Dialogs!Pointer : static'[p] = IF static[p] \in gone THEN NULL ELSE static[p]
      /\ \A v \in Widget : kind'[v] = IF v \in gone THEN NULL ELSE kind[v]
      /\ \A v \in Widget : nulls'[v] = IF v \in gone THEN {} ELSE nulls[v]
      /\ \A v \in Widget : parent'[v] = IF v \in gone THEN NULL ELSE parent[v]
      /\ \A v \in Widget \cup {Window} : kills'[v] = IF v \in gone THEN {} ELSE kills[v]
  BY DestroyResets DEF Dialogs!Destroy
<1>2. WidgetsTyped'
  BY DestroyTyped
<1>3. w \in gone /\ (w # Window => Window \notin gone)
  BY DoomedFits DEF Dialogs!Doomed
<1>4. Dialogs!PointersAgree'
  BY <1>1, <1>2 DEF Dialogs!PointersAgree
<1>5. WindowFits'
  BY <1>1, <1>3 DEF WindowFits
<1>6. ASSUME NEW v \in Widget PROVE HandlersFit(v)'
  BY <1>1 DEF HandlersFit
<1>7. ASSUME NEW v \in Widget PROVE ParentFits(v)'
  <2> SUFFICES ASSUME v \notin gone, kind[v] \in Dependent
               PROVE  parent[v] \notin gone
    BY <1>1 DEF ParentFits, Dependent, Dialogs!Pointer
  <2>1. kind[v] \in kills[parent[v]] /\ parent[v] \in Widget \cup {Window} /\ static[kind[v]] = v
    BY DEF ParentFits, Dialogs!PointersAgree
  <2>2. parent[v] # w
    BY <2>1 DEF Dialogs!Doomed
  <2> QED BY <2>1, <2>2, DoomedFits
<1> QED BY <1>4, <1>5, <1>6, <1>7

-----------------------------------------------------------------------------
(* What a step does to the dialogs, and to the question *)

Made(p, w, from, killer) ==
    Dialogs!Create(p, w, from, killer) /\ Makes(p, from, killer) /\ UNCHANGED <<window, loop>>

Destroyed(w) ==
    /\ w \in Widget => kind[w] # NULL
    /\ Dialogs!Destroy(w)
    /\ IF w = Window THEN window' = FALSE /\ loop' = "quit" ELSE UNCHANGED <<window, loop>>

LEMMA WidgetSteps ==
    ASSUME Dialogs!DialogsAssumption, WidgetsTyped, WidgetsInv, [Dialogs!Next]_(Dialogs!vars)
    PROVE  \/ UNCHANGED <<window, static, kind, nulls, kills, parent>> /\ loop' \in {loop, "quit"}
           \/ \E p \in Dialogs!Pointer, w \in Widget, from \in Widget \cup {Window}, killer \in BOOLEAN :
                 Made(p, w, from, killer)
           \/ \E w \in Widget \cup {Window} : Destroyed(w)
<1> USE DEF Dialogs!loopVars, Dialogs!widgetVars, Dialogs!askVars, Dialogs!DialogsAssumption
<1> DEFINE Made4   == \E p \in Dialogs!Pointer, w \in Widget, from \in Widget \cup {Window}, killer \in BOOLEAN :
                         Made(p, w, from, killer)
           Gone    == \E w \in Widget \cup {Window} : Destroyed(w)
           Quiet   == UNCHANGED <<window, static, kind, nulls, kills, parent>> /\ loop' \in {loop, "quit"}
<1>1. ASSUME NEW w \in Widget, Dialogs!NewFile(w) \/ Dialogs!PreferencesCb(w) \/ Dialogs!AboutCb(w)
      PROVE Made4
  <2>1. CASE Dialogs!NewFile(w)
    <3>1. Made("file", w, Window, FALSE)
      BY <2>1 DEF Dialogs!NewFile, Made, Makes, Dependent, Dialogs!Side
    <3> QED BY <3>1 DEF Dialogs!Pointer
  <2>2. CASE Dialogs!PreferencesCb(w)
    <3>1. Made("prefs", w, Window, TRUE)
      BY <2>2 DEF Dialogs!PreferencesCb, Made, Makes, Dependent, Dialogs!Side
    <3> QED BY <3>1 DEF Dialogs!Pointer
  <2>3. CASE Dialogs!AboutCb(w)
    <3>1. Made("about", w, Window, FALSE)
      BY <2>3 DEF Dialogs!AboutCb, Made, Makes, Dependent, Dialogs!Side
    <3> QED BY <3>1 DEF Dialogs!Pointer
  <2> QED BY <1>1, <2>1, <2>2, <2>3
<1>2. ASSUME NEW d \in Widget, NEW w \in Widget, NEW s \in Dialogs!Side, Dialogs!Browse(d, s, w)
      PROVE Made4
  <2>1. Made(s, w, d, TRUE)
    BY <1>2 DEF Dialogs!Browse, Made, Makes, Dependent
  <2> QED BY <2>1 DEF Dialogs!Pointer
<1>3. ASSUME NEW d \in Widget, NEW w \in Widget, Dialogs!DiffOptionsButton(d, w) PROVE Made4
  <2>1. Made("prefs", w, d, TRUE)
    BY <1>3 DEF Dialogs!DiffOptionsButton, Made, Makes, Dependent, Dialogs!Side
  <2> QED BY <2>1 DEF Dialogs!Pointer
<1>4. ASSUME Dialogs!CloseWindow PROVE Gone
  <2>1. Destroyed(Window)
    BY <1>4 DEF Dialogs!CloseWindow, Destroyed
  <2> QED BY <2>1
<1>5. ASSUME NEW b \in Widget, NEW s \in Dialogs!Side, Dialogs!BrowserOk(b, s)
        \/ Dialogs!BrowserCancel(b, s) PROVE Gone
  <2>1. CASE Dialogs!BrowserOk(b, s)
    <3>1. Destroyed(b)
      BY <2>1 DEF Dialogs!BrowserOk, Destroyed, Dialogs!Pointer
    <3> QED BY <3>1
  <2>2. CASE Dialogs!BrowserCancel(b, s)
    <3>1. static[s] \in Widget /\ kind[static[s]] = s
      BY <2>2 DEF Dialogs!BrowserCancel, WidgetsTyped, WidgetsInv, Dialogs!PointersAgree,
                  Dialogs!Pointer
    <3>2. Destroyed(static[s])
      BY <2>2, <3>1 DEF Dialogs!BrowserCancel, Destroyed, Dialogs!Pointer
    <3> QED BY <3>1, <3>2
  <2> QED BY <1>5, <2>1, <2>2
<1>6. ASSUME NEW d \in Widget, Dialogs!FileOk(d) \/ Dialogs!Close(d) PROVE Gone
  <2>1. Destroyed(d)
    BY <1>6 DEF Dialogs!FileOk, Dialogs!Close, Dialogs!Live, Destroyed, Dialogs!Pointer
  <2> QED BY <2>1
<1>7. ASSUME NEW s \in Dialogs!Side, Dialogs!Type(s) PROVE Quiet
  BY <1>7 DEF Dialogs!Type
<1>8. ASSUME Dialogs!Ask \/ Dialogs!NextDiff \/ Dialogs!ExitMenu PROVE Quiet
  BY <1>8 DEF Dialogs!Ask, Dialogs!NextDiff, Dialogs!ExitMenu
<1>9. ASSUME Dialogs!ToggleOption \/ Dialogs!Answer \/ Dialogs!LoadStarts \/ Dialogs!LoadEnds
        \/ Dialogs!MainReturns PROVE Quiet
  BY <1>9 DEF Dialogs!ToggleOption, Dialogs!Answer, Dialogs!LoadStarts, Dialogs!LoadEnds,
              Dialogs!MainReturns
<1>10. ASSUME UNCHANGED Dialogs!vars PROVE Quiet
  BY <1>10 DEF Dialogs!vars
<1> HIDE DEF Made4, Gone, Quiet
<1>11. ASSUME Dialogs!Menu PROVE Quiet \/ Made4 \/ Gone
  BY <1>1, <1>4, <1>8, <1>11, Zenon DEF Dialogs!Menu
<1>12. ASSUME Dialogs!FileDialog PROVE Quiet \/ Made4 \/ Gone
  BY <1>2, <1>3, <1>5, <1>6, <1>7, <1>12, Zenon DEF Dialogs!FileDialog
<1>13. Quiet \/ Made4 \/ Gone
  BY <1>9, <1>10, <1>11, <1>12 DEF Dialogs!Next
<1> QED BY <1>13 DEF Quiet, Made4, Gone

\* However a step changes the dialogs, they keep their types and their fit.
LEMMA WidgetsStep ==
    ASSUME Dialogs!DialogsAssumption, WidgetsTyped, WidgetsInv, [Dialogs!Next]_(Dialogs!vars)
    PROVE  WidgetsTyped' /\ WidgetsInv'
<1>1. CASE UNCHANGED <<window, static, kind, nulls, kills, parent>> /\ loop' \in {loop, "quit"}
  BY <1>1 DEF WidgetsTyped, WidgetsInv, Dialogs!PointersAgree, WindowFits, HandlersFit, ParentFits
<1>2. ASSUME NEW p \in Dialogs!Pointer, NEW w \in Widget, NEW from \in Widget \cup {Window},
             NEW killer \in BOOLEAN, Made(p, w, from, killer)
      PROVE  WidgetsTyped' /\ WidgetsInv'
  BY <1>2, CreateTyped, CreateFits DEF Made
<1>3. ASSUME NEW w \in Widget \cup {Window}, Destroyed(w)
      PROVE  WidgetsTyped' /\ WidgetsInv'
  BY <1>3, DestroyTyped, DestroyFits DEF Destroyed
<1> QED BY <1>1, <1>2, <1>3, WidgetSteps

-----------------------------------------------------------------------------
(* The question and its option *)

NestTyped ==
    /\ nest \in Seq({"load", "question"})
    /\ \A i, j \in Dialogs!Questions : i = j
    /\ option \in BOOLEAN
    /\ checked \in BOOLEAN

\* What a step does to the question: nothing; it is asked, a load begins
\* above it, the innermost of them ends; the option changes, by the menu
\* while nothing is asked, or by the check box.
Asks      == ~Dialogs!Asking /\ nest' = Append(nest, "question") /\ checked' = ~option /\ UNCHANGED option
Loads     == nest' = Append(nest, "load") /\ UNCHANGED <<option, checked>>
Unwinds   == nest # << >> /\ nest' = Dialogs!Front(nest) /\ UNCHANGED <<option, checked>>
TurnedOn  == ~Dialogs!Asking /\ option' = TRUE /\ UNCHANGED <<nest, checked>>
Toggled   == checked' = ~checked /\ option' = ~option /\ UNCHANGED nest
Unrelated == UNCHANGED <<nest, option, checked>>

LEMMA NestSteps ==
    ASSUME [Dialogs!Next]_(Dialogs!vars)
    PROVE  Unrelated \/ Asks \/ Loads \/ Unwinds \/ TurnedOn \/ Toggled
<1> USE DEF Dialogs!loopVars, Dialogs!widgetVars, Dialogs!askVars
<1>1. ASSUME NEW w \in Widget, Dialogs!NewFile(w) \/ Dialogs!PreferencesCb(w) \/ Dialogs!AboutCb(w)
      PROVE Unrelated
  BY <1>1 DEF Dialogs!NewFile, Dialogs!PreferencesCb, Dialogs!AboutCb, Unrelated
<1>2. ASSUME NEW d \in Widget, NEW w \in Widget, NEW s \in Dialogs!Side,
             Dialogs!Browse(d, s, w) \/ Dialogs!BrowserOk(d, s) \/ Dialogs!BrowserCancel(d, s)
      PROVE  Unrelated
  BY <1>2 DEF Dialogs!Browse, Dialogs!BrowserOk, Dialogs!BrowserCancel, Unrelated
<1>3. ASSUME NEW d \in Widget, NEW w \in Widget, Dialogs!DiffOptionsButton(d, w)
        \/ Dialogs!FileOk(d) \/ Dialogs!Close(d)
      PROVE  Unrelated
  BY <1>3 DEF Dialogs!DiffOptionsButton, Dialogs!FileOk, Dialogs!Close, Unrelated
<1>4. ASSUME Dialogs!ExitMenu \/ Dialogs!CloseWindow PROVE Unrelated
  BY <1>4 DEF Dialogs!ExitMenu, Dialogs!CloseWindow, Unrelated
<1>5. ASSUME Dialogs!Ask PROVE Asks
  BY <1>5 DEF Dialogs!Ask, Dialogs!Clicks, Asks
<1>6. ASSUME Dialogs!NextDiff PROVE TurnedOn
  BY <1>6 DEF Dialogs!NextDiff, Dialogs!Clicks, TurnedOn
<1>7. ASSUME Dialogs!ToggleOption PROVE Toggled
  BY <1>7 DEF Dialogs!ToggleOption, Toggled
<1>8. ASSUME Dialogs!Answer \/ Dialogs!LoadEnds PROVE Unwinds
  BY <1>8 DEF Dialogs!Answer, Dialogs!LoadEnds, Dialogs!Innermost, Unwinds
<1>9. ASSUME Dialogs!LoadStarts PROVE Loads
  BY <1>9 DEF Dialogs!LoadStarts, Loads
<1>10. ASSUME Dialogs!MainReturns \/ UNCHANGED Dialogs!vars PROVE Unrelated
  BY <1>10 DEF Dialogs!MainReturns, Dialogs!vars, Unrelated
<1>11. ASSUME Dialogs!Menu PROVE Unrelated \/ Asks \/ TurnedOn
  BY <1>1, <1>4, <1>5, <1>6, <1>11, Zenon DEF Dialogs!Menu
<1>12. ASSUME Dialogs!FileDialog PROVE Unrelated
  <2>1. ASSUME NEW s \in Dialogs!Side, Dialogs!Type(s) PROVE Unrelated
    BY <2>1 DEF Dialogs!Type, Unrelated
  <2> QED BY <1>2, <1>3, <1>12, <2>1, Zenon DEF Dialogs!FileDialog
<1> QED BY <1>7, <1>8, <1>9, <1>10, <1>11, <1>12 DEF Dialogs!Next

\* The question is asked once at a time, and the box follows the option.
LEMMA NestStep ==
    ASSUME NestTyped, Dialogs!BoxMeansOff, [Dialogs!Next]_(Dialogs!vars)
    PROVE  NestTyped' /\ Dialogs!BoxMeansOff'
<1> USE DEF NestTyped, Dialogs!BoxMeansOff, Dialogs!Asking
<1>1. CASE Unrelated
  BY <1>1 DEF Unrelated, Dialogs!Questions
<1>2. CASE Asks
  <2>1. Dialogs!Questions = {}
    BY <1>2 DEF Asks
  <2>2. Dialogs!Questions' = {Len(nest) + 1}
    BY <1>2, <2>1 DEF Asks, Dialogs!Questions
  <2> QED BY <1>2, <2>2 DEF Asks
<1>3. CASE Loads
  <2>1. Dialogs!Questions' = Dialogs!Questions
    BY <1>3 DEF Loads, Dialogs!Questions
  <2> QED BY <1>3, <2>1 DEF Loads
<1>4. CASE Unwinds
  <2>1. Len(nest) \in Nat \ {0} /\ nest' \in Seq({"load", "question"})
    BY <1>4 DEF Unwinds, Dialogs!Front
  <2>2. Dialogs!Questions' \subseteq Dialogs!Questions
    BY <1>4, <2>1 DEF Unwinds, Dialogs!Questions, Dialogs!Front
  <2> QED BY <1>4, <2>1, <2>2 DEF Unwinds
<1>5. CASE TurnedOn
  BY <1>5 DEF TurnedOn, Dialogs!Questions
<1>6. CASE Toggled
  BY <1>6 DEF Toggled, Dialogs!Questions
<1> QED BY <1>1, <1>2, <1>3, <1>4, <1>5, <1>6, NestSteps

-----------------------------------------------------------------------------
(* The loop, the file dialog's entries, and the MDI it hands on *)

LoopTyped ==
    /\ window \in BOOLEAN
    /\ loop \in {"run", "quit"}
    /\ up \in BOOLEAN

EntriesTyped ==
    /\ filled \in SUBSET Dialogs!Side
    /\ infos \subseteq Widget \X Dialogs!Side
    /\ stale \subseteq {"main", "load"}

LEMMA TypesOK == Dialogs!TypeOK <=> WidgetsTyped /\ NestTyped /\ LoopTyped /\ EntriesTyped
BY DEF Dialogs!TypeOK, WidgetsTyped, NestTyped, LoopTyped, EntriesTyped

LEMMA LoopStep ==
    ASSUME LoopTyped, [Dialogs!Next]_(Dialogs!vars)
    PROVE  LoopTyped'
<1> USE DEF LoopTyped, Dialogs!loopVars
<1>1. ASSUME Dialogs!Menu PROVE LoopTyped'
  BY <1>1 DEF Dialogs!Menu, Dialogs!NewFile, Dialogs!PreferencesCb, Dialogs!AboutCb, Dialogs!Ask,
              Dialogs!NextDiff, Dialogs!ExitMenu, Dialogs!CloseWindow
<1>2. ASSUME Dialogs!FileDialog PROVE LoopTyped'
  BY <1>2 DEF Dialogs!FileDialog, Dialogs!Type, Dialogs!Browse, Dialogs!DiffOptionsButton,
              Dialogs!BrowserOk, Dialogs!BrowserCancel, Dialogs!FileOk, Dialogs!Close
<1>3. ASSUME Dialogs!ToggleOption \/ Dialogs!Answer \/ Dialogs!LoadStarts \/ Dialogs!LoadEnds
        \/ Dialogs!MainReturns PROVE LoopTyped'
  BY <1>3 DEF Dialogs!ToggleOption, Dialogs!Answer, Dialogs!LoadStarts, Dialogs!LoadEnds,
              Dialogs!MainReturns
<1>4. ASSUME UNCHANGED Dialogs!vars PROVE LoopTyped'
  BY <1>4 DEF Dialogs!vars
<1> QED BY <1>1, <1>2, <1>3, <1>4 DEF Dialogs!Next

\* While clicks are dispatched, the innermost that dispatches is gtk_main or
\* a load.
LEMMA InnermostClicks ==
    ASSUME NestTyped, Dialogs!Clicks
    PROVE  /\ Dialogs!Innermost \in {"main", "load"}
           /\ Dialogs!Innermost = "main" => loop = "run"
<1> USE DEF NestTyped, Dialogs!Clicks, Dialogs!Dispatching, Dialogs!Asking, Dialogs!Questions,
            Dialogs!Innermost, Dialogs!Last
<1>1. CASE nest = << >>
  BY <1>1
<1>2. CASE nest # << >>
  <2>1. Len(nest) \in DOMAIN nest /\ nest[Len(nest)] \in {"load", "question"}
    BY <1>2
  <2> QED BY <1>2, <2>1
<1> QED BY <1>1, <1>2

LEMMA FileOkStale ==
    ASSUME NestTyped, WindowFits, EntriesTyped, Dialogs!StaleOnlyInLoad,
           NEW d \in Widget, Dialogs!FileOk(d)
    PROVE  stale' \subseteq {"main", "load"} /\ Dialogs!StaleOnlyInLoad'
<1>1. CASE window
  BY <1>1 DEF Dialogs!FileOk, EntriesTyped, Dialogs!StaleOnlyInLoad
<1>2. CASE ~window
  <2>1. Dialogs!Innermost = "load"
    BY <1>2, InnermostClicks DEF Dialogs!FileOk, WindowFits
  <2> QED BY <1>2, <2>1 DEF Dialogs!FileOk, EntriesTyped, Dialogs!StaleOnlyInLoad
<1> QED BY <1>1, <1>2

LEMMA EntriesStep ==
    ASSUME NestTyped, WindowFits, EntriesTyped, Dialogs!StaleOnlyInLoad, [Dialogs!Next]_(Dialogs!vars)
    PROVE  EntriesTyped' /\ Dialogs!StaleOnlyInLoad'
<1> USE DEF EntriesTyped, Dialogs!StaleOnlyInLoad, Dialogs!widgetVars
<1> DEFINE Kept == EntriesTyped' /\ Dialogs!StaleOnlyInLoad'
<1>1. ASSUME Dialogs!Menu PROVE Kept
  <2>1. ASSUME NEW w \in Widget, Dialogs!NewFile(w) PROVE Kept
    BY <2>1 DEF Dialogs!NewFile
  <2>2. ASSUME NEW w \in Widget, Dialogs!PreferencesCb(w) \/ Dialogs!AboutCb(w) PROVE Kept
    BY <2>2 DEF Dialogs!PreferencesCb, Dialogs!AboutCb
  <2>3. ASSUME Dialogs!Ask \/ Dialogs!NextDiff \/ Dialogs!ExitMenu \/ Dialogs!CloseWindow PROVE Kept
    BY <2>3 DEF Dialogs!Ask, Dialogs!NextDiff, Dialogs!ExitMenu, Dialogs!CloseWindow
  <2> QED BY <1>1, <2>1, <2>2, <2>3 DEF Dialogs!Menu
<1>2. ASSUME Dialogs!FileDialog PROVE Kept
  <2>1. ASSUME NEW s \in Dialogs!Side, Dialogs!Type(s) PROVE Kept
    BY <2>1 DEF Dialogs!Type
  <2>2. ASSUME NEW d \in Widget, NEW w \in Widget, NEW s \in Dialogs!Side,
               Dialogs!Browse(d, s, w) \/ Dialogs!BrowserOk(d, s) \/ Dialogs!BrowserCancel(d, s)
        PROVE  Kept
    BY <2>2 DEF Dialogs!Browse, Dialogs!BrowserOk, Dialogs!BrowserCancel
  <2>3. ASSUME NEW d \in Widget, NEW w \in Widget, Dialogs!DiffOptionsButton(d, w)
          \/ Dialogs!Close(d)
        PROVE  Kept
    BY <2>3 DEF Dialogs!DiffOptionsButton, Dialogs!Close
  <2>4. ASSUME NEW d \in Widget, Dialogs!FileOk(d) PROVE Kept
    BY <2>4, FileOkStale DEF Dialogs!FileOk
  <2> HIDE DEF Kept
  <2> QED BY <1>2, <2>1, <2>2, <2>3, <2>4, Zenon DEF Dialogs!FileDialog
<1>3. ASSUME Dialogs!ToggleOption \/ Dialogs!Answer \/ Dialogs!LoadStarts \/ Dialogs!LoadEnds
        \/ Dialogs!MainReturns PROVE Kept
  BY <1>3 DEF Dialogs!ToggleOption, Dialogs!Answer, Dialogs!LoadStarts, Dialogs!LoadEnds,
              Dialogs!MainReturns
<1>4. ASSUME UNCHANGED Dialogs!vars PROVE Kept
  BY <1>4 DEF Dialogs!vars
<1> QED BY <1>1, <1>2, <1>3, <1>4 DEF Dialogs!Next

-----------------------------------------------------------------------------
(* The theorems *)

\* What always holds of the dialogs: their types, that handlers and parents
\* fit, and the two properties that need nothing else.
DialogsInv == Dialogs!TypeOK /\ WidgetsInv /\ Dialogs!StaleOnlyInLoad /\ Dialogs!BoxMeansOff

LEMMA DialogsInvInit == Dialogs!DialogsAssumption /\ Dialogs!Init => DialogsInv
<1> SUFFICES ASSUME Dialogs!DialogsAssumption, Dialogs!Init PROVE DialogsInv
  OBVIOUS
<1> USE DEF Dialogs!Init
<1>1. Dialogs!TypeOK
  <2>1. WidgetsTyped
    BY DEF WidgetsTyped
  <2>2. NestTyped
    <3>1. nest \in Seq({"load", "question"}) /\ Len(nest) = 0
      OBVIOUS
    <3>2. Dialogs!Questions = {}
      BY <3>1 DEF Dialogs!Questions
    <3> QED BY <3>1, <3>2 DEF NestTyped
  <2>3. LoopTyped /\ EntriesTyped
    BY DEF LoopTyped, EntriesTyped
  <2> QED BY <2>1, <2>2, <2>3, TypesOK
<1>2. WidgetsInv
  BY DEF WidgetsInv, Dialogs!PointersAgree, WindowFits, HandlersFit, ParentFits, Dependent,
         Dialogs!Side,
         Dialogs!Pointer, Dialogs!DialogsAssumption
<1>3. Dialogs!StaleOnlyInLoad /\ Dialogs!BoxMeansOff
  BY DEF Dialogs!StaleOnlyInLoad, Dialogs!BoxMeansOff, Dialogs!Asking, Dialogs!Questions
<1> QED BY <1>1, <1>2, <1>3 DEF DialogsInv

LEMMA DialogsInvStep ==
    ASSUME Dialogs!DialogsAssumption, DialogsInv, [Dialogs!Next]_(Dialogs!vars)
    PROVE  DialogsInv'
<1> USE DEF DialogsInv
<1>1. WidgetsTyped' /\ WidgetsInv'
  BY WidgetsStep, TypesOK
<1>2. NestTyped' /\ Dialogs!BoxMeansOff'
  BY NestStep, TypesOK
<1>3. LoopTyped' /\ EntriesTyped' /\ Dialogs!StaleOnlyInLoad'
  BY LoopStep, EntriesStep, TypesOK DEF WidgetsInv
<1>4. Dialogs!TypeOK'
  BY <1>1, <1>2, <1>3
     DEF Dialogs!TypeOK, WidgetsTyped, NestTyped, LoopTyped, EntriesTyped
<1> QED BY <1>1, <1>2, <1>3, <1>4

LEMMA DialogsInvHolds == Dialogs!DialogsAssumption /\ Dialogs!Spec => []DialogsInv
<1> SUFFICES ASSUME Dialogs!DialogsAssumption PROVE Dialogs!Spec => []DialogsInv
  OBVIOUS
<1>1. Dialogs!Init => DialogsInv
  BY DialogsInvInit
<1>2. DialogsInv /\ [Dialogs!Next]_(Dialogs!vars) => DialogsInv'
  BY DialogsInvStep
<1> QED BY <1>1, <1>2, PTL DEF Dialogs!Spec

\* What the invariant says of the life of the dialogs.
LEMMA DialogsInvMeans ==
    ASSUME Dialogs!DialogsAssumption, DialogsInv
    PROVE  /\ Dialogs!TypeOK
           /\ Dialogs!PointersAgree /\ Dialogs!BoxMeansOff
           /\ Dialogs!DiesWithParent /\ Dialogs!BrowsesForFile
           /\ Dialogs!StaleOnlyInLoad
<1> USE DEF DialogsInv, WidgetsInv
<1>1. ASSUME NEW w \in Widget, kind[w] \in Dependent PROVE Dialogs!Live(parent[w])
  <2>1. parent[w] \in Widget \cup {Window} /\ kills[parent[w]] # {}
    BY <1>1 DEF ParentFits, Dialogs!TypeOK
  <2>2. CASE parent[w] = Window
    BY <2>1, <2>2 DEF WindowFits, Dialogs!Live, Dialogs!TypeOK
  <2>3. CASE parent[w] # Window
    BY <2>1, <2>3 DEF HandlersFit, Dialogs!Live
  <2> QED BY <2>2, <2>3
<1>2. ASSUME NEW w \in Widget, kind[w] \in Dialogs!Side PROVE kind[parent[w]] = "file"
  <2>1. parent[w] \in Widget /\ kills[parent[w]] # {}
    BY <1>2 DEF ParentFits, Dialogs!TypeOK, Dependent
  <2> QED BY <2>1 DEF HandlersFit
<1> QED BY <1>1, <1>2 DEF Dialogs!DiesWithParent, Dialogs!BrowsesForFile, Dependent

\* The dialogs run with variables of the right types.
LEMMA DialogsTypeCorrect == Dialogs!DialogsAssumption /\ Dialogs!Spec => []Dialogs!TypeOK
<1> SUFFICES ASSUME Dialogs!DialogsAssumption PROVE Dialogs!Spec => []Dialogs!TypeOK
  OBVIOUS
<1>1. DialogsInv => Dialogs!TypeOK
  BY DialogsInvMeans
<1> QED BY <1>1, DialogsInvHolds, PTL

\* Whatever the user, the parents and the window manager do, the static
\* pointers and the dialogs agree, and so do the option and its check box.
LEMMA StaticsHold == Dialogs!DialogsAssumption /\ Dialogs!Spec
        => [](Dialogs!PointersAgree /\ Dialogs!BoxMeansOff)
<1> SUFFICES ASSUME Dialogs!DialogsAssumption
    PROVE Dialogs!Spec => [](Dialogs!PointersAgree /\ Dialogs!BoxMeansOff)
  OBVIOUS
<1>1. DialogsInv => Dialogs!PointersAgree /\ Dialogs!BoxMeansOff
  BY DialogsInvMeans
<1> QED BY <1>1, DialogsInvHolds, PTL

\* No browser and no preferences outlive their parent, although handlers of
\* dialogs long gone are still connected, and browsers are those of the file
\* dialog.
LEMMA ParentsHold == Dialogs!DialogsAssumption /\ Dialogs!Spec
        => [](Dialogs!DiesWithParent /\ Dialogs!BrowsesForFile)
<1> SUFFICES ASSUME Dialogs!DialogsAssumption
    PROVE Dialogs!Spec => [](Dialogs!DiesWithParent /\ Dialogs!BrowsesForFile)
  OBVIOUS
<1>1. DialogsInv => Dialogs!DiesWithParent /\ Dialogs!BrowsesForFile
  BY DialogsInvMeans
<1> QED BY <1>1, DialogsInvHolds, PTL

\* gtk_main never hands on an MDI that was destroyed.
LEMMA StaleHolds == Dialogs!DialogsAssumption /\ Dialogs!Spec => []Dialogs!StaleOnlyInLoad
<1> SUFFICES ASSUME Dialogs!DialogsAssumption PROVE Dialogs!Spec => []Dialogs!StaleOnlyInLoad
  OBVIOUS
<1>1. DialogsInv => Dialogs!StaleOnlyInLoad
  BY DialogsInvMeans
<1> QED BY <1>1, DialogsInvHolds, PTL

-----------------------------------------------------------------------------
(* The menus *)

\* The state of the menus fits the active view as long as gdiff runs, and
\* only the menu of a directory view has a greyed item.
MenusInv == Menus!TypeOK /\ Menus!ItemsFit /\ Menus!SortIsSecond

LEMMA StateFits ==
    ASSUME Menus!MenusAssumption, MenusInv,
           NEW v \in View \cup {NoView}, Menus!MakeActive(v), Menus!SetMenuState(v)
    PROVE  /\ sensitive' \subseteq Menus!Items
           /\ Menus!ItemsFit' /\ Menus!SortIsSecond'
           /\ childMenu' \in {Menus!NoMenu, Menus!TreeMenu, Menus!FileMenu}
<1> USE DEF Menus!MenusAssumption, Menus!MakeActive, Menus!SetMenuState
<1>1. sensitive' \subseteq Menus!Items
  BY DEF Menus!Items
<1>2. Menus!ItemsFit'
  BY DEF Menus!ItemsFit
<1>3. Menus!SortIsSecond'
  BY DEF MenusInv, Menus!SortIsSecond, Menus!MenuForView, Menus!TreeMenu
<1>4. childMenu' \in {Menus!NoMenu, Menus!TreeMenu, Menus!FileMenu}
  BY DEF Menus!MenuForView
<1> QED BY <1>1, <1>2, <1>3, <1>4

LEMMA MenusInvStep ==
    ASSUME Menus!MenusAssumption, MenusInv, [Menus!Next]_(Menus!vars)
    PROVE  MenusInv'
<1> USE DEF MenusInv, Menus!TypeOK
<1>1. ASSUME NEW v \in View, Menus!AddDiff(v) \/ Menus!Select(v) PROVE MenusInv'
  <2>1. Menus!MakeActive(v) /\ Menus!SetMenuState(v)
    BY <1>1 DEF Menus!AddDiff, Menus!Select, Menus!Signalled, Menus!MakeActive
  <2> QED BY <1>1, <2>1, StateFits DEF Menus!AddDiff, Menus!Select, Menus!MakeActive
<1>2. ASSUME Menus!CloseView PROVE MenusInv'
  <2>1. PICK v \in View \cup {NoView} :
           Menus!MakeActive(v) /\ Menus!SetMenuState(v) /\ (v \in open' \/ v = NoView)
    BY <1>2 DEF Menus!CloseView, Menus!MakeActive
  <2> QED BY <1>2, <2>1, StateFits DEF Menus!CloseView, Menus!MakeActive
<1>3. ASSUME Menus!SaveFileList PROVE MenusInv'
  BY <1>3 DEF Menus!SaveFileList, Menus!ItemsFit, Menus!SortIsSecond, Menus!MenusAssumption
<1>4. ASSUME Menus!Exit PROVE MenusInv'
  <2>1. CASE Menus!Signalled
    BY <1>4, <2>1, StateFits DEF Menus!Exit, Menus!MakeActive, Menus!Signalled
  <2>2. CASE Menus!Unnoticed
    BY <1>4, <2>2 DEF Menus!Exit, Menus!MakeActive, Menus!MenuForView, Menus!Unnoticed,
                      Menus!ItemsFit, Menus!SortIsSecond
  <2> QED BY <1>4, <2>1, <2>2 DEF Menus!Exit
<1>5. ASSUME Menus!CloseWindow PROVE MenusInv'
  BY <1>5 DEF Menus!CloseWindow, Menus!MakeActive, Menus!MenuForView, Menus!ItemsFit,
              Menus!SortIsSecond
<1>6. ASSUME UNCHANGED Menus!vars PROVE MenusInv'
  BY <1>6 DEF Menus!vars, Menus!ItemsFit, Menus!SortIsSecond
<1> QED BY <1>1, <1>2, <1>3, <1>4, <1>5, <1>6 DEF Menus!Next

LEMMA MenusInvHolds == Menus!MenusAssumption /\ Menus!Spec => []MenusInv
<1> SUFFICES ASSUME Menus!MenusAssumption PROVE Menus!Spec => []MenusInv
  OBVIOUS
<1>1. Menus!Init => MenusInv
  BY DEF Menus!Init, MenusInv, Menus!TypeOK, Menus!ItemsFit, Menus!SortIsSecond,
         Menus!MenusAssumption
<1>2. MenusInv /\ [Menus!Next]_(Menus!vars) => MenusInv'
  BY MenusInvStep
<1> QED BY <1>1, <1>2, PTL DEF Menus!Spec

-----------------------------------------------------------------------------
(* The theorems *)

LEMMA PartsAssumptions ==
    ASSUME InterfaceAssumption
    PROVE  /\ Args!ArgsAssumption
           /\ Dialogs!DialogsAssumption /\ Menus!MenusAssumption
           /\ Shared!PreferencesAssumption /\ Alone!PreferencesAssumption
BY DEF InterfaceAssumption

LEMMA AloneOrNot == part = "alone" \/ part # "alone"
OBVIOUS

\* The interface runs with variables of the right types.
THEOREM TypeCorrect == Spec => []TypeOK
<1> USE InterfaceAssumption, PartsAssumptions
<1>0. Spec => []Args!TypeOK
  <2>1. Spec => []ArgsInv
    BY ImplementsArgs, ArgsInvHolds
  <2>2. ArgsInv => Args!TypeOK
    BY DEF ArgsInv
  <2> QED BY <2>1, <2>2, PTL
<1>1. Spec => []Dialogs!TypeOK
  BY ImplementsDialogs, DialogsTypeCorrect
<1>2. Spec /\ part = "alone" => []Alone!TypeOK /\ [](part = "alone")
  BY ImplementsAlone, Alone!PreferencesTypeCorrect
<1>3. Spec /\ part # "alone" => []Shared!TypeOK /\ [](part # "alone")
  BY ImplementsShared, Shared!PreferencesTypeCorrect
<1>4. Spec => []MenusInv
  BY ImplementsMenus, MenusInvHolds
<1>5. Args!TypeOK /\ Dialogs!TypeOK /\ MenusInv /\ part = "alone" /\ Alone!TypeOK => TypeOK
  BY DEF TypeOK, MenusInv
<1>6. Args!TypeOK /\ Dialogs!TypeOK /\ MenusInv /\ part # "alone" /\ Shared!TypeOK => TypeOK
  BY DEF TypeOK, MenusInv
<1> QED BY <1>0, <1>1, <1>2, <1>3, <1>4, <1>5, <1>6, AloneOrNot, PTL

\* For every command line and whatever the three stat calls saw, each path
\* stays on its side (args.c:231-258).
THEOREM SidesStay == Spec => []SidesKept
<1>1. Spec => []ArgsInv
  BY ImplementsArgs, ArgsInvHolds, InterfaceAssumption, PartsAssumptions
<1>2. ArgsInv => SidesKept
  BY DEF ArgsInv, Sides, SidesKept
<1> QED BY <1>1, <1>2, PTL

\* While nobody changes the file system, what is compared is what the table
\* at todo:501-507 asks for (args.c:195-261).
THEOREM TableHolds == Spec => []TableKept
<1>1. Spec => []ArgsInv
  BY ImplementsArgs, ArgsInvHolds, InterfaceAssumption, PartsAssumptions
<1>2. ArgsInv => TableKept
  BY DEF ArgsInv, Seen, TableKept
<1> QED BY <1>1, <1>2, PTL

\* For any number of dialogs, loads and questions: no static pointer
\* dangles, no dialog is lost, and the box is checked if the option is off.
THEOREM StaticsAlwaysAgree == Spec => []StaticsAgree
<1>1. Spec => [](Dialogs!PointersAgree /\ Dialogs!BoxMeansOff)
  BY ImplementsDialogs, StaticsHold, InterfaceAssumption, PartsAssumptions
<1>2. Dialogs!PointersAgree /\ Dialogs!BoxMeansOff => StaticsAgree
  BY DEF StaticsAgree
<1> QED BY <1>1, <1>2, PTL

\* Browsers and preferences always die with their parents, and a browser's
\* parent is a file dialog.
THEOREM ChildrenDieWithParents == Spec => []DiesWithParent
<1>1. Spec => [](Dialogs!DiesWithParent /\ Dialogs!BrowsesForFile)
  BY ImplementsDialogs, ParentsHold, InterfaceAssumption, PartsAssumptions
<1>2. Dialogs!DiesWithParent /\ Dialogs!BrowsesForFile => DiesWithParent
  BY DEF DiesWithParent
<1> QED BY <1>1, <1>2, PTL

\* A destroyed MDI is handed to mdi_add_diff in a load only.
THEOREM MainLoopNeverStale == Spec => []StaleOnlyInLoad
<1>1. Spec => []Dialogs!StaleOnlyInLoad
  BY ImplementsDialogs, StaleHolds, InterfaceAssumption, PartsAssumptions
<1> QED BY <1>1, PTL DEF StaleOnlyInLoad

\* However many gdiffs write the file, they can read it.
THEOREM GdiffReadsItsOwn == Spec => []DiesOfEditsOnly
<1> USE InterfaceAssumption, PartsAssumptions
<1>1. Spec /\ part = "alone" => []Alone!DiesOfEditsOnly
  BY ImplementsAlone, Alone!ReadableHolds
<1>2. Spec /\ part # "alone" => []Shared!DiesOfEditsOnly
  BY ImplementsShared, Shared!ReadableHolds
<1>3. Alone!DiesOfEditsOnly => DiesOfEditsOnly
  BY DEF Alone!DiesOfEditsOnly, Shared!DiesOfEditsOnly, DiesOfEditsOnly
<1>4. Shared!DiesOfEditsOnly => DiesOfEditsOnly
  BY DEF DiesOfEditsOnly
<1> QED BY <1>1, <1>2, <1>3, <1>4, AloneOrNot, PTL

\* However many gdiffs share the file and in whatever order they save, a
\* save keeps what its user left alone, unless it was behind, and shows what
\* was applied to the next reader.
THEOREM SavesAlwaysFaithful == Spec => SavesFaithfully
<1> USE InterfaceAssumption, PartsAssumptions
<1>1. Spec /\ part = "alone" => Alone!UntouchedKept /\ Alone!AppliedIsRead /\ [](part = "alone")
  BY ImplementsAlone, Alone!KeepsHold, Alone!AppliedHolds
<1>2. Spec /\ part # "alone" => Shared!UntouchedKept /\ Shared!AppliedIsRead /\ [](part # "alone")
  BY ImplementsShared, Shared!KeepsHold, Shared!AppliedHolds
<1>3. /\ part = "alone"
      /\ [Alone!KeepsUntouched]_(Alone!vars) /\ [Alone!ReadsApplied]_(Alone!vars)
      => [IF part = "alone" THEN Alone!KeepsUntouched /\ Alone!ReadsApplied
          ELSE Shared!KeepsUntouched /\ Shared!ReadsApplied]_vars
  BY DEF vars, preferencesVars, Alone!vars, Alone!KeepsUntouched, Alone!ReadsApplied
<1>4. /\ part # "alone"
      /\ [Shared!KeepsUntouched]_(Shared!vars) /\ [Shared!ReadsApplied]_(Shared!vars)
      => [IF part = "alone" THEN Alone!KeepsUntouched /\ Alone!ReadsApplied
          ELSE Shared!KeepsUntouched /\ Shared!ReadsApplied]_vars
  BY DEF vars, preferencesVars, Shared!vars, Shared!KeepsUntouched, Shared!ReadsApplied
<1> QED
  BY <1>1, <1>2, <1>3, <1>4, AloneOrNot, PTL
  DEF SavesFaithfully, Alone!UntouchedKept, Alone!AppliedIsRead,
      Shared!UntouchedKept, Shared!AppliedIsRead

\* For any views: an item that can be chosen has a view to work on, and the
\* item greyed by its index is Sort.
THEOREM ItemsAlwaysFit == Spec => []ItemsFit
<1>1. Spec => []MenusInv
  BY ImplementsMenus, MenusInvHolds, InterfaceAssumption, PartsAssumptions
<1>2. MenusInv => ItemsFit
  BY DEF MenusInv, ItemsFit
<1> QED BY <1>1, <1>2, PTL
=============================================================================
