-------------------------------- MODULE Args --------------------------------
(***************************************************************************)
(* The two paths of a comparison (args.c): taken from the command line or  *)
(* from the dialog, rid of trailing slashes, and sorted into two files or  *)
(* two directories; a file and a directory mean the file and its namesake  *)
(* in the directory.                                                       *)
(*                                                                         *)
(* Three stat calls look at a file system that others may change between   *)
(* them.  A path is the sequence of names between its slashes; the empty   *)
(* sequence is the empty string, which is what is left of "/".             *)
(***************************************************************************)
EXTENDS Naturals, Sequences

CONSTANTS
    Name,         \* names of files and directories
    Dot,          \* the name of the working directory
    None,         \* no argument
    Inputs,       \* command lines: options -l and -r, and the other arguments
    FileSystems   \* what may be found at the paths that exist or once did

Type == {"error", "file", "dir"}
Path == Seq(Name)
Arg  == [path : Path, slash : BOOLEAN]

ArgsAssumption ==
    /\ Dot \in Name
    /\ None \notin Arg
    /\ Inputs \subseteq [l : Arg \cup {None}, r : Arg \cup {None}, extra : Seq(Arg)]
    /\ \A tree \in FileSystems :
           /\ DOMAIN tree \subseteq Path
           /\ << >> \notin DOMAIN tree
           /\ \A p \in DOMAIN tree : tree[p] \in Type

VARIABLES
    fs,         \* what stat finds; anything but files and directories is an error
    steady,     \* history: nobody has changed the file system
    input,      \* what the user gave
    given,      \* history: the two arguments, before they are standardised
    left,       \* diff->left
    right,      \* diff->right
    ltype,
    rtype,
    reversed,   \* left and right are swapped for the while
    type,       \* diff->type
    at          \* where categorise_args stands

vars == <<fs, steady, input, given, left, right, ltype, rtype, reversed, type, at>>

Place == {"parse", "left", "right", "joined", "done", "refused"}

Here == [path |-> <<Dot>>, slash |-> FALSE]

TypeOK ==
    /\ DOMAIN fs \subseteq Path
    /\ \A p \in DOMAIN fs : fs[p] \in Type
    /\ steady \in BOOLEAN
    /\ input \in [l : Arg \cup {None}, r : Arg \cup {None}, extra : Seq(Arg)]
    /\ given \in Arg \X Arg
    /\ left \in Path /\ right \in Path
    /\ ltype \in Type /\ rtype \in Type /\ type \in Type
    /\ reversed \in BOOLEAN
    /\ at \in Place
    /\ at = "joined" => left # << >>

Init ==
    /\ fs \in FileSystems
    /\ steady = TRUE
    /\ input \in Inputs
    /\ given = <<Here, Here>>
    /\ left = << >> /\ right = << >>
    /\ ltype = "error" /\ rtype = "error" /\ type = "error"
    /\ reversed = FALSE
    /\ at = "parse"

-----------------------------------------------------------------------------
(* gnome_init_and_parse_args *)

\* How many of the two sides the options leave open.
OpenSides == (IF input.l = None THEN 1 ELSE 0) + (IF input.r = None THEN 1 ELSE 0)

\* The arguments that are no options fill the left side, then the right one.
LeftGiven ==
    IF input.l # None THEN input.l
    ELSE IF Len(input.extra) > 0 THEN input.extra[1] ELSE None

RightGiven ==
    IF input.r # None THEN input.r
    ELSE IF Len(input.extra) >= OpenSides THEN input.extra[OpenSides] ELSE None

OrHere(arg) == IF arg = None THEN Here ELSE arg

\* standardise_arg drops every trailing slash.  Of "/" nothing is left, and
\* the loop goes on to look at the byte before the string; that byte belongs
\* to the allocator and is no slash.
Standardised(arg) == arg.path

Refuse ==
    /\ at = "parse"
    /\ (LeftGiven = None /\ RightGiven = None) \/ Len(input.extra) > OpenSides
    /\ at' = "refused"
    /\ UNCHANGED <<fs, steady, input, given, left, right, ltype, rtype, reversed, type>>

\* A side that was not given is the working directory.
Parse ==
    /\ at = "parse"
    /\ LeftGiven # None \/ RightGiven # None
    /\ Len(input.extra) <= OpenSides
    /\ given' = <<OrHere(LeftGiven), OrHere(RightGiven)>>
    /\ left' = Standardised(given'[1])
    /\ right' = Standardised(given'[2])
    /\ at' = "left"
    /\ UNCHANGED <<fs, steady, input, ltype, rtype, reversed, type>>

-----------------------------------------------------------------------------
(* categorise_args *)

\* identify_path: only regular files and directories are of use.
Identify(p) == IF p \in DOMAIN fs THEN fs[p] ELSE "error"

StatLeft ==
    /\ at = "left"
    /\ ltype' = Identify(left)
    /\ at' = "right"
    /\ UNCHANGED <<fs, steady, input, given, left, right, rtype, reversed, type>>

\* Faulty: the file is moved away from the left.
SwapsFile(lt) == lt = "file"

\* The logic below wants the file on the left.
Swaps(lt) == lt = "dir"

\* Faulty: a path that is neither file nor directory does not end the matter.
StatRightAnyway ==
    /\ at = "right"
    /\ rtype' = Identify(right)
    /\ IF ltype = rtype'
       THEN at' = "done" /\ type' = ltype /\ UNCHANGED <<left, right, reversed>>
       ELSE /\ at' = "joined"
            /\ reversed' = Swaps(ltype)
            /\ left' = IF reversed' THEN right ELSE left
            /\ right' = IF reversed' THEN left ELSE right
            /\ UNCHANGED type
    /\ UNCHANGED <<fs, steady, input, given, ltype>>

\* The right side is looked at, and what the types alone decide is decided;
\* a file and a directory are left.
StatRight ==
    /\ at = "right"
    /\ rtype' = Identify(right)
    /\ IF ltype = "error" \/ rtype' = "error" \/ ltype = rtype'
       THEN /\ at' = "done"
            /\ type' = IF ltype = rtype' THEN ltype ELSE "error"
            /\ UNCHANGED <<left, right, reversed>>
       ELSE /\ at' = "joined"
            /\ reversed' = Swaps(ltype)
            /\ left' = IF reversed' THEN right ELSE left
            /\ right' = IF reversed' THEN left ELSE right
            /\ UNCHANGED type
    /\ UNCHANGED <<fs, steady, input, given, ltype>>

\* g_basename, g_strjoin.
Base(p)    == p[Len(p)]
Join(p, n) == Append(p, n)

\* Faulty: the early exits of the switch leave the sides swapped.
RestoreFound(file, other) ==
    IF reversed /\ type' = "file"
    THEN left' = other /\ right' = file
    ELSE left' = file /\ right' = other

\* The file and its namesake are moved back to their sides.
Restore(file, other) ==
    IF reversed THEN left' = other /\ right' = file
                ELSE left' = file /\ right' = other

\* The namesake of the file in the directory is looked at.
StatJoined ==
    /\ at = "joined"
    /\ LET path == Join(right, Base(left)) IN
        IF Identify(path) = "file"
        THEN type' = "file" /\ Restore(left, path)
        ELSE UNCHANGED type /\ Restore(left, right)
    /\ at' = "done"
    /\ UNCHANGED <<fs, steady, input, given, ltype, rtype, reversed>>

\* Somebody else makes, removes or replaces what is found at a path.
Change ==
    /\ at \notin {"done", "refused"}
    /\ \E p \in DOMAIN fs \ {<<Dot>>}, t \in Type :
        /\ fs[p] # t
        /\ fs' = [fs EXCEPT ![p] = t]
    /\ steady' = FALSE
    /\ UNCHANGED <<input, given, left, right, ltype, rtype, reversed, type, at>>

Next ==
    \/ Parse
    \/ Refuse
    \/ StatLeft
    \/ StatRight
    \/ StatJoined
    \/ Change

Spec == Init /\ [][Next]_vars

-----------------------------------------------------------------------------
(* Properties *)

L == Standardised(given[1])
R == Standardised(given[2])

\* Each path stays on its side, whatever stat saw when, and however the
\* sides were swapped meanwhile (args.c:231-258): at most one of them has
\* become a file of the same name below what was given.
SidesKept ==
    at = "done" =>
        \/ left = L /\ right = R
        \/ left = L /\ right = Join(R, Base(L))
        \/ left = Join(L, Base(R)) /\ right = R

\* What is compared when nobody interferes (the table at todo:501-507): two
\* directories, two files, or a file and the file of that name in the
\* directory, on their sides; and nothing else.
Wanted ==
    CASE Identify(L) = Identify(R)
           -> <<L, R, Identify(L)>>
      [] Identify(L) = "file" /\ Identify(R) = "dir" /\ Identify(Join(R, Base(L))) = "file"
           -> <<L, Join(R, Base(L)), "file">>
      [] Identify(L) = "dir" /\ Identify(R) = "file" /\ Identify(Join(L, Base(R))) = "file"
           -> <<Join(L, Base(R)), R, "file">>
      [] OTHER
           -> <<L, R, "error">>

TableKept == at = "done" /\ steady => <<left, right, type>> = Wanted

\* Any two directories can be compared (todo:502), the root directory too.
Slash == [path |-> << >>, slash |-> TRUE]

IsDirectory(arg) == arg = Slash \/ Identify(arg.path) = "dir"

DirectoriesCompared ==
    at = "done" /\ steady /\ IsDirectory(given[1]) /\ IsDirectory(given[2]) => type = "dir"
=============================================================================
