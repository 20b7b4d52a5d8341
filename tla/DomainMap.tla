----------------------------- MODULE DomainMap ------------------------------
(***************************************************************************)
(* What the text domains of intl/ promise: each domain has the directory   *)
(* that it was bound to last, or the default one, and a text is looked up  *)
(* in the domain asked for or in the current one.  A call that runs out of *)
(* memory changes no binding.                                              *)
(***************************************************************************)
CONSTANTS
    Domain,      \* the names of domains
    Dir,         \* the directories
    DefaultDir,  \* _nl_default_dirname
    Messages,    \* _nl_default_default_domain
    None         \* NULL

VARIABLES
    dirOf,   \* the directory of each domain
    current, \* the current domain, None when there was no memory for its name
    answer   \* what the last call returned

mapVars == <<dirOf, current, answer>>

Init == dirOf = [d \in Domain |-> DefaultDir] /\ current = Messages /\ answer = None

Bind(d, dir) ==
    \/ /\ dirOf' = [dirOf EXCEPT ![d] = dir]
       /\ answer' = <<"dir", dir>>
       /\ UNCHANGED current
    \/ answer' = None /\ UNCHANGED <<dirOf, current>>

Bound(d) == answer' = <<"dir", dirOf[d]>> /\ UNCHANGED <<dirOf, current>>

SetCurrent(d) ==
    /\ current' \in {d, None}
    /\ d = Messages => current' = d
    /\ answer' = <<"domain", current'>>
    /\ UNCHANGED dirOf

Ask == answer' = <<"domain", current>> /\ UNCHANGED <<dirOf, current>>

Search(d) ==
    /\ answer' = IF d = None THEN <<"crash">> ELSE <<"search", d, dirOf[d]>>
    /\ UNCHANGED <<dirOf, current>>

\* The name of the working directory cannot be had: nothing is looked up.
Lost == answer' = <<"msgid">> /\ UNCHANGED <<dirOf, current>>

Next ==
    /\ answer # <<"crash">>
    /\ \/ \E d \in Domain : SetCurrent(d) \/ Bound(d) \/ \E dir \in Dir : Bind(d, dir)
       \/ \E d \in Domain \cup {current} : Search(d)
       \/ Ask \/ Lost

Spec == Init /\ [][Next]_mapVars
=============================================================================
