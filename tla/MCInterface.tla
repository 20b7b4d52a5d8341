---------------------------- MODULE MCInterface -----------------------------
(* A directory d and a file f, a namesake of f in d (and one in the        *)
(* working directory: f itself), each of which may be something else, for  *)
(* every way to give up to two options and two other arguments, and for    *)
(* one argument too many.  Three addresses for the five dialogs; four      *)
(* views, two of directories; the preferences of two gdiffs, and of one    *)
(* with every kind of option, numbers out of the range of its buttons and  *)
(* more colours.                                                           *)
EXTENDS Interface, TLC

\* The processes are interchangeable.
Processes == Permutations(Sharers)

MCName == {".", "d", "f"}

Plain(name)    == [path |-> <<name>>, slash |-> FALSE]
Trailing(name) == [path |-> <<name>>, slash |-> TRUE]
Root           == [path |-> << >>, slash |-> TRUE]
Here           == Plain(".")

MCArg    == {Plain("d"), Trailing("f"), Root, Here}
MCOption == {None, Trailing("d"), Plain("f")}
MCExtra  == UNION {[1..n -> MCArg] : n \in 0..2} \cup {<<Here, Here, Here>>}

MCInputs == [l : MCOption, r : MCOption, extra : MCExtra]

MCPaths == {<<".">>, <<"d">>, <<"f">>, <<".", "f">>, <<"d", "f">>, <<".", "d">>}

\* The paths of the working directory are two names for the same files.
MCFileSystems ==
    {tree \in [MCPaths -> {"error", "file", "dir"}] :
        /\ tree[<<".">>] = "dir"
        /\ tree[<<".", "f">>] = tree[<<"f">>]
        /\ tree[<<".", "d">>] = tree[<<"d">>]
        /\ tree[<<"d", "f">>] # "error" => tree[<<"d">>] = "dir"}
=============================================================================
