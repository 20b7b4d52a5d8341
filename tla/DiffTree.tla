------------------------------ MODULE DiffTree ------------------------------
(***************************************************************************)
(* The tree of a directory comparison (node.c): tree_parse_diff reads the  *)
(* output of diff -qrs, tree_parse_line turns a line into the parts of a   *)
(* path below the two roots and a status, and tree_node_add hangs them on  *)
(* the tree.                                                               *)
(*                                                                         *)
(* A node is known by its place in the order of creation, which is also    *)
(* the order of siblings (g_node_append); Root is the node that            *)
(* tree_parse_diff makes first, and carries nothing.  A status is the set  *)
(* of the Status bits that are set in it.  Names are numbers, ordered as   *)
(* diff orders the names in a directory.                                   *)
(***************************************************************************)
EXTENDS Naturals, Sequences

CONSTANTS
    Name,       \* names of files and directories
    Reports,    \* what diff may say: functions from paths to kinds of lines
    Surpluses,  \* what surplus may be
    NoSurplus

Bit  == {"same", "left", "right", "diff", "type", "error"}
Path == Seq(Name) \ {<< >>}

ASSUME DiffTreeAssumption ==
    /\ Name \subseteq Nat
    /\ \A report \in Reports :
           /\ DOMAIN report \subseteq Path
           /\ \A p \in DOMAIN report : report[p] \in Bit
    /\ NoSurplus \notin Path
    /\ Surpluses \subseteq Path \cup {NoSurplus}

VARIABLES
    report,     \* the kind of line diff prints for each path it reports on
    surplus,    \* NoSurplus; or, when the left root is as a string a prefix
                \* of the right one, what is left of the right one without
                \* that prefix and one character more
    todo,       \* the paths whose lines are still to be read
    nodes,      \* the tree
    added       \* history: the calls of tree_node_add, with their lines

vars == <<report, surplus, todo, nodes, added>>

Root == 0

Node == [parent : Nat, name : Name, path : Seq(Name), status : SUBSET Bit]
Call == [of : Path, kind : Bit, parts : Seq(Name), status : Bit]

TypeOK ==
    /\ DOMAIN report \subseteq Path
    /\ \A p \in DOMAIN report : report[p] \in Bit
    /\ surplus \in Surpluses
    /\ todo \subseteq DOMAIN report
    /\ nodes \in Seq(Node)
    /\ \A k \in DOMAIN nodes : nodes[k].parent < k
    /\ added \subseteq Call

Init ==
    /\ report \in Reports
    /\ surplus \in Surpluses
    /\ todo = DOMAIN report
    /\ nodes = << >>
    /\ added = {}

-----------------------------------------------------------------------------
(* tree_parse_line *)

\* The order of diff's lines: a directory's names in order, what is below a
\* directory in its place.
Before(p, q) ==
    \E i \in DOMAIN p \cap DOMAIN q :
        /\ p[i] < q[i]
        /\ \A j \in 1..(i - 1) : p[j] = q[j]

\* Only a "right" line gives its path below the right root; every other one
\* that the patterns match gives it below the left root.  The left root is
\* looked for first, by a comparison of as many characters as it has.  (A
\* path below neither root, for which node.c:132 has a third branch, is in no
\* line of a diff of these two roots, and left out.)
TakenForLeft(kind) == kind # "right" \/ surplus # NoSurplus

Parse(p, kind) ==
    CASE kind = "error" -> [parts |-> << >>, status |-> "error"]
      [] kind = "right" /\ TakenForLeft(kind) -> [parts |-> surplus \o p, status |-> "left"]
      [] OTHER -> [parts |-> p, status |-> kind]

-----------------------------------------------------------------------------
(* tree_node_find and tree_node_add *)

ChildrenNamed(n, name) ==
    {k \in DOMAIN nodes : nodes[k].parent = n /\ nodes[k].name = name}

\* Faulty: strcmp is taken for a test of equality.
FindsOther(n, name, k) ==
    /\ k \in DOMAIN nodes
    /\ nodes[k].parent = n
    /\ nodes[k].name # name
    /\ \A j \in DOMAIN nodes : nodes[j].parent = n /\ nodes[j].name # name => k <= j

\* tree_node_find: the first child of n with that name.
Finds(n, name, k) ==
    /\ k \in ChildrenNamed(n, name)
    /\ \A j \in ChildrenNamed(n, name) : k <= j

\* The node the recursion has reached after i parts of a path.
Reached(route, i) == IF i = 0 THEN Root ELSE route[i]

\* route lists the nodes that tree_node_add finds, one below the other, for
\* the first n parts; no node is found for the part after them.
IsRoute(route, n, parts) ==
    /\ \A i \in 1..n : Finds(Reached(route, i - 1), parts[i], route[i])
    /\ n < Len(parts) => \A k \in DOMAIN nodes : ~Finds(Reached(route, n), parts[n + 1], k)

\* Faulty: the node is its own parent.
HangsOnItself(k, route, n, parts, status) ==
    [parent |-> k,
     name   |-> parts[Len(parts)],
     path   |-> SubSeq(parts, 1, Len(parts) - 1),
     status |-> {status}]

\* A node for a part that was not found.  Whatever part that is, the node
\* has the base name and the directory of the whole path.
NewNode(k, route, n, parts, status) ==
    [parent |-> IF k = Len(nodes) + 1 THEN Reached(route, n) ELSE k - 1,
     name   |-> parts[Len(parts)],
     path   |-> SubSeq(parts, 1, Len(parts) - 1),
     status |-> {status}]

\* Faulty: the found nodes do not accumulate.
KeepsStatus(k, route, n, status) == nodes[k]

\* On its way back the recursion adds the status to the nodes it found.
OldNode(k, route, n, status) ==
    IF \E i \in 1..n : route[i] = k
    THEN [nodes[k] EXCEPT !.status = @ \cup {status}]
    ELSE nodes[k]

Add(parts, status) ==
    \E n \in 0..Len(parts) : \E route \in [1..n -> DOMAIN nodes] :
        /\ IsRoute(route, n, parts)
        /\ nodes' = [k \in 1..(Len(nodes) + Len(parts) - n) |->
                        IF k <= Len(nodes)
                        THEN OldNode(k, route, n, status)
                        ELSE NewNode(k, route, n, parts, status)]

-----------------------------------------------------------------------------
\* One turn of tree_parse_diff's loop.
Line(p) ==
    /\ p \in todo
    /\ \A q \in todo : ~Before(q, p)
    /\ LET call == Parse(p, report[p]) IN
        /\ Add(call.parts, call.status)
        /\ added' = added \cup {[of     |-> p,
                                 kind   |-> report[p],
                                 parts  |-> call.parts,
                                 status |-> call.status]}
    /\ todo' = todo \ {p}
    /\ UNCHANGED <<report, surplus>>

\* End of file: the tree is complete.
Done ==
    /\ todo = {}
    /\ UNCHANGED vars

Next ==
    \/ \E p \in todo : Line(p)
    \/ Done

Spec == Init /\ [][Next]_vars

-----------------------------------------------------------------------------
(* Properties *)

\* A node's status has every bit of the nodes below it, so that a filter on
\* a directory's status (tree.c:135) hides nothing that would be shown below
\* it: tree_node_add sets the bit on its way back through every found node
\* and makes the nodes it creates one below the other with the same bit.
StatusAccumulates ==
    \A k \in DOMAIN nodes :
        nodes[k].parent # Root => nodes[k].status \subseteq nodes[nodes[k].parent].status

\* The nodes with a status, which route may lead through.
Showing(status) == {k \in DOMAIN nodes : status \in nodes[k].status}

\* No line is lost, whatever lines come after it (node.c:204-243): from the top
\* of the tree down there is a node for each part of every path that was
\* added, each below the one before it and with the status of the path on all
\* of them.  As far as there were nodes when the line was read they are named
\* as the parts, from there on by the base name.
NothingLost ==
    \A call \in added :
        \E n \in 0..Len(call.parts) :
            \E route \in [1..Len(call.parts) -> Showing(call.status)] :
                \A i \in 1..Len(call.parts) :
                    /\ nodes[route[i]].parent = Reached(route, i - 1)
                    /\ nodes[route[i]].name = call.parts[IF i <= n THEN i ELSE Len(call.parts)]

\* Nothing is made up: each bit of a node is the status of a path that was
\* added and that has the node's name among its parts.
NothingInvented ==
    \A k \in DOMAIN nodes : \A bit \in nodes[k].status :
        \E call \in added :
            /\ call.status = bit
            /\ \E i \in DOMAIN call.parts : call.parts[i] = nodes[k].name

\* The statuses exclude each other for files, the leaves of the tree; only
\* directories accumulate them (the comment at node.h:32).
FilesHaveOneStatus ==
    \A k \in DOMAIN nodes :
        (\A j \in DOMAIN nodes : nodes[j].parent # k) =>
            \A a, b \in nodes[k].status : a = b

\* The branch of tree_parse_line that strips the left root is taken for
\* same, diff, type and left-only lines; right-only lines take the other one
\* (the comments at node.c:125 and node.c:130).
RightOnlyIsRight ==
    \A call \in added : call.kind = "right" => call.status = "right"
=============================================================================
