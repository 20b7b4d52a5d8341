------------------------------ MODULE Bindings ------------------------------
(***************************************************************************)
(* The text domains of intl/: the directories of their catalogues, in a    *)
(* list that is kept in the order of the names so that a search can stop   *)
(* early (bindtextdom.c, the first loop of dcgettext.c), and the current   *)
(* domain (textdomain.c).  Every allocation may fail.                      *)
(*                                                                         *)
(* Names are numbers in the order of strcmp.  What is done with the        *)
(* directory that a search comes to is in module Catalogs.                 *)
(***************************************************************************)
EXTENDS Integers, SequencesExt

CONSTANTS
    Domain,      \* the names of domains
    Dir,         \* the directories
    Relative,    \* those that are relative to the working directory
    DefaultDir,  \* _nl_default_dirname
    Messages,    \* _nl_default_default_domain
    None         \* NULL

BindingsAssumption ==
    /\ Domain \subseteq Int
    /\ Messages \in Domain
    /\ Relative \subseteq Dir
    /\ DefaultDir \in Dir \ Relative
    /\ None \notin Domain /\ None \notin Dir

VARIABLES
    bindings, \* _nl_domain_bindings
    current,  \* _nl_current_default_domain
    answer    \* what the last call returned

vars == <<bindings, current, answer>>

Binding == [domain : Domain, dir : Dir]

TypeOK ==
    /\ bindings \in Seq(Binding)
    /\ current \in Domain \cup {None}
    /\ answer # None => answer[1] \in {"dir", "domain", "search", "msgid", "crash"}

Init == bindings = << >> /\ current = Messages /\ answer = None

-----------------------------------------------------------------------------
(* The list *)

\* A search goes on behind these entries ...
Passed(d) == {i \in DOMAIN bindings : \A j \in 1..i : bindings[j].domain < d}

\* ... and stops at the first one that is not smaller.
Found(d) == {i \in DOMAIN bindings : bindings[i].domain = d /\ \A j \in 1..(i - 1) : bindings[j].domain < d}

DirOf(d) == IF Found(d) = {} THEN DefaultDir ELSE bindings[CHOOSE i \in Found(d) : TRUE].dir

\* Faulty: at the head without a look at the others.
EnqueueFirst(d, dir) == <<[domain |-> d, dir |-> dir]>> \o bindings

\* Where the order of the names wants it.
Enqueue(d, dir) ==
    LET n == CHOOSE n \in 0..Len(bindings) : Passed(d) = 1..n
    IN  InsertAt(bindings, n + 1, [domain |-> d, dir |-> dir])

-----------------------------------------------------------------------------
(* The calls *)

OutOfMemory == answer' = None /\ UNCHANGED <<bindings, current>>

\* bindtextdomain of a domain that is bound; a copy is made of another
\* directory than the default one.
Rebind(d, dir) ==
    /\ Found(d) # {}
    /\ \/ /\ bindings' = [i \in DOMAIN bindings |->
                             IF i \in Found(d) THEN [bindings[i] EXCEPT !.dir = dir] ELSE bindings[i]]
          /\ answer' = <<"dir", dir>>
          /\ UNCHANGED current
       \/ /\ dir \notin {DirOf(d), DefaultDir}
          /\ OutOfMemory

\* Faulty: the entry is in the list before there is memory for its directory.
BindEarly(d, dir) ==
    /\ Found(d) = {}
    /\ \/ /\ bindings' = Enqueue(d, dir)
          /\ answer' = <<"dir", dir>>
          /\ UNCHANGED current
       \/ bindings' = Enqueue(d, None) /\ answer' = None /\ UNCHANGED current

\* bindtextdomain of a new domain.
Bind(d, dir) ==
    /\ Found(d) = {}
    /\ \/ /\ bindings' = Enqueue(d, dir)
          /\ answer' = <<"dir", dir>>
          /\ UNCHANGED current
       \/ OutOfMemory

\* bindtextdomain (d, NULL)
Bound(d) == answer' = <<"dir", DirOf(d)>> /\ UNCHANGED <<bindings, current>>

\* textdomain (d); "" stands for Messages.
Textdomain(d) ==
    /\ current' \in {d} \cup (IF d = Messages THEN {} ELSE {None})
    /\ answer' = <<"domain", current'>>
    /\ UNCHANGED bindings

\* textdomain (NULL)
AskTextdomain == answer' = <<"domain", current>> /\ UNCHANGED <<bindings, current>>

\* dcgettext for a domain, or for the current one.  A NULL name is
\* dereferenced; getcwd may fail.
Dcgettext(d) ==
    /\ answer' \in IF d = None THEN {<<"crash">>}
                   ELSE {<<"search", d, DirOf(d)>>} \cup (IF DirOf(d) \in Relative THEN {<<"msgid">>} ELSE {})
    /\ UNCHANGED <<bindings, current>>

Next ==
    /\ answer # <<"crash">>
    /\ \/ \E d \in Domain :
             \/ \E dir \in Dir : Bind(d, dir) \/ Rebind(d, dir)
             \/ Bound(d)
             \/ Textdomain(d)
       \/ AskTextdomain
       \/ \E d \in Domain \cup {current} : Dcgettext(d)

Spec == Init /\ [][Next]_vars

-----------------------------------------------------------------------------
(* Properties *)

\* The names in the list ascend, so no domain is in it twice: each search
\* that stops early (bindtextdom.c:88, dcgettext.c:254) relies on it.
Sorted == \A i, j \in DOMAIN bindings : i < j => bindings[i].domain < bindings[j].domain

\* The directory of each domain.
dirOf ==
    [d \in Domain |->
        LET at == {i \in DOMAIN bindings : bindings[i].domain = d} IN
        IF at = {} THEN DefaultDir ELSE bindings[CHOOSE i \in at : TRUE].dir]

Map == INSTANCE DomainMap

\* The list answers as a map from domains to directories does, whatever
\* was bound before in whatever order and whichever allocation failed.
IsMap == Map!Spec
=============================================================================
