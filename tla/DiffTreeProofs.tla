--------------------------- MODULE DiffTreeProofs ---------------------------
(* Proofs about the tree of a directory comparison (module DiffTree), for  *)
(* every report of diff, of any number of lines and paths of any depth.    *)
EXTENDS DiffTree, TLAPS

\* What tree_parse_line gives to tree_node_add is a path and a status.
LEMMA ParseType ==
    ASSUME DiffTreeAssumption, TypeOK, NEW p \in todo
    PROVE  LET call == Parse(p, report[p]) IN
               /\ call.parts \in Seq(Name)
               /\ call.status \in Bit
               /\ p \in Path
               /\ report[p] \in Bit
<1> DEFINE call == Parse(p, report[p])
<1>1. p \in Path /\ p \in Seq(Name) /\ report[p] \in Bit
  BY DEF TypeOK, Path
<1>2. CASE report[p] = "error"
  <2>1. call = [parts |-> << >>, status |-> "error"]
    BY <1>2 DEF Parse
  <2>2. << >> \in Seq(Name)
    OBVIOUS
  <2> QED BY <1>1, <2>1, <2>2 DEF Bit
<1>3. CASE report[p] # "error" /\ report[p] = "right" /\ TakenForLeft(report[p])
  <2>1. surplus \in Seq(Name)
    BY <1>3 DEF TakenForLeft, DiffTreeAssumption, TypeOK, Path
  <2>2. call = [parts |-> surplus \o p, status |-> "left"]
    BY <1>3 DEF Parse
  <2> QED BY <1>1, <2>1, <2>2 DEF Bit
<1>4. CASE report[p] # "error" /\ ~(report[p] = "right" /\ TakenForLeft(report[p]))
  BY <1>1, <1>4 DEF Parse
<1> QED BY <1>2, <1>3, <1>4

\* Who is who among the nodes after tree_node_add: the nodes that were there
\* stay where they are, and gain the status when the route leads through
\* them; the new ones follow, the first of them below the end of the route,
\* each other one below the one before it.
AddedTo(n, route, parts, status) ==
    /\ n \in 0..Len(parts)
    /\ route \in [1..n -> DOMAIN nodes]
    /\ IsRoute(route, n, parts)
    /\ DOMAIN nodes' = 1..(Len(nodes) + Len(parts) - n)
    /\ \A k \in DOMAIN nodes :
        /\ nodes'[k].parent = nodes[k].parent
        /\ nodes'[k].name = nodes[k].name
        /\ nodes[k].status \subseteq nodes'[k].status
        /\ \A bit \in nodes'[k].status \ nodes[k].status :
               bit = status /\ \E i \in 1..n : route[i] = k
    /\ \A i \in 1..n : status \in nodes'[route[i]].status
    /\ \A k \in DOMAIN nodes' \ DOMAIN nodes :
        /\ nodes'[k].parent = IF k = Len(nodes) + 1 THEN Reached(route, n) ELSE k - 1
        /\ nodes'[k].name = parts[Len(parts)]
        /\ nodes'[k].status = {status}

\* tree_node_add adds as AddedTo says, and every node keeps its type and a
\* parent that was made before it.
LEMMA AddStep ==
    ASSUME TypeOK,
           NEW parts \in Seq(Name), NEW status \in Bit, Add(parts, status)
    PROVE  /\ \E n \in 0..Len(parts) : \E route \in [1..n -> DOMAIN nodes] :
                  AddedTo(n, route, parts, status)
           /\ nodes' \in Seq(Node)
           /\ \A k \in DOMAIN nodes' : nodes'[k].parent < k
<1>1. PICK n \in 0..Len(parts) : \E route \in [1..n -> DOMAIN nodes] :
        /\ IsRoute(route, n, parts)
        /\ nodes' = [k \in 1..(Len(nodes) + Len(parts) - n) |->
                        IF k <= Len(nodes)
                        THEN OldNode(k, route, n, status)
                        ELSE NewNode(k, route, n, parts, status)]
  BY DEF Add
<1>2. PICK route \in [1..n -> DOMAIN nodes] :
        /\ IsRoute(route, n, parts)
        /\ nodes' = [k \in 1..(Len(nodes) + Len(parts) - n) |->
                        IF k <= Len(nodes)
                        THEN OldNode(k, route, n, status)
                        ELSE NewNode(k, route, n, parts, status)]
  BY <1>1
<1> DEFINE size == Len(nodes) + Len(parts) - n
<1>3. /\ Len(nodes) \in Nat /\ Len(parts) \in Nat
      /\ n \in Nat /\ n <= Len(parts)
      /\ size \in Nat /\ Len(nodes) <= size
      /\ DOMAIN nodes = 1..Len(nodes)
      /\ DOMAIN nodes' = 1..size
      /\ \A k \in DOMAIN nodes : nodes[k] \in Node /\ nodes[k].parent < k
  BY <1>2 DEF TypeOK
<1>4. Reached(route, n) \in 0..Len(nodes)
  BY <1>2, <1>3 DEF Reached, Root
<1>5. ASSUME NEW k \in DOMAIN nodes
      PROVE  /\ nodes'[k] = OldNode(k, route, n, status)
             /\ nodes'[k] \in Node
             /\ nodes'[k].parent = nodes[k].parent
             /\ nodes'[k].name = nodes[k].name
             /\ nodes[k].status \subseteq nodes'[k].status
             /\ \A bit \in nodes'[k].status \ nodes[k].status :
                    bit = status /\ \E i \in 1..n : route[i] = k
             /\ (\E i \in 1..n : route[i] = k) => status \in nodes'[k].status
  <2>1. nodes'[k] = OldNode(k, route, n, status)
    BY <1>2, <1>3
  <2>2. nodes[k] \in Node
    BY <1>3
  <2>3. CASE \E i \in 1..n : route[i] = k
    <3>1. nodes'[k] = [nodes[k] EXCEPT !.status = @ \cup {status}]
      BY <2>1, <2>3 DEF OldNode
    <3> QED BY <2>1, <2>2, <2>3, <3>1 DEF Node
  <2>4. CASE ~\E i \in 1..n : route[i] = k
    <3>1. nodes'[k] = nodes[k]
      BY <2>1, <2>4 DEF OldNode
    <3> QED BY <2>1, <2>2, <2>4, <3>1
  <2> QED BY <2>3, <2>4
<1>6. ASSUME NEW k \in DOMAIN nodes' \ DOMAIN nodes
      PROVE  /\ nodes'[k] = NewNode(k, route, n, parts, status)
             /\ nodes'[k] \in Node
             /\ nodes'[k].parent < k
             /\ nodes'[k].parent = IF k = Len(nodes) + 1 THEN Reached(route, n) ELSE k - 1
             /\ nodes'[k].name = parts[Len(parts)]
             /\ nodes'[k].status = {status}
  <2>1. k \in 1..size /\ k > Len(nodes)
    BY <1>3
  <2>2. nodes'[k] = NewNode(k, route, n, parts, status)
    BY <1>2, <1>3, <2>1
  <2>3. Len(parts) \in 1..Len(parts)
    BY <1>3, <2>1
  <2>4. parts[Len(parts)] \in Name /\ SubSeq(parts, 1, Len(parts) - 1) \in Seq(Name)
    BY <2>3
  <2>5. LET up == IF k = Len(nodes) + 1 THEN Reached(route, n) ELSE k - 1 IN
            up \in Nat /\ up < k
    BY <1>3, <1>4, <2>1
  <2> QED BY <2>2, <2>4, <2>5 DEF NewNode, Node
<1>7. AddedTo(n, route, parts, status)
  <2>1. \A i \in 1..n : status \in nodes'[route[i]].status
    BY <1>2, <1>5
  <2> QED BY <1>2, <1>3, <1>5, <1>6, <2>1 DEF AddedTo
<1>8. nodes' \in Seq(Node)
  <2>1. \A k \in 1..size : nodes'[k] \in Node
    BY <1>3, <1>5, <1>6
  <2>2. nodes' = [k \in 1..size |-> nodes'[k]]
    BY <1>2
  <2>3. nodes' \in [1..size -> Node]
    BY <2>1, <2>2
  <2> QED BY <1>3, <2>3
<1>9. \A k \in DOMAIN nodes' : nodes'[k].parent < k
  BY <1>3, <1>5, <1>6
<1> QED BY <1>7, <1>8, <1>9

-----------------------------------------------------------------------------
\* A line leaves the tree and the history with the right types.
LEMMA TypeStep ==
    ASSUME DiffTreeAssumption, TypeOK, [Next]_vars
    PROVE  TypeOK'
<1>1. CASE UNCHANGED vars
  BY <1>1 DEF vars, TypeOK
<1>2. ASSUME NEW p \in todo, Line(p)
      PROVE  TypeOK'
  <2> DEFINE call == Parse(p, report[p])
             new  == [of |-> p, kind |-> report[p], parts |-> call.parts, status |-> call.status]
  <2>1. /\ call.parts \in Seq(Name)
        /\ call.status \in Bit
        /\ p \in Path
        /\ report[p] \in Bit
    BY ParseType
  <2>2. /\ Add(call.parts, call.status)
        /\ added' = added \cup {new}
        /\ todo' = todo \ {p}
        /\ UNCHANGED <<report, surplus>>
    BY <1>2 DEF Line
  <2> HIDE DEF call
  <2>3. nodes' \in Seq(Node) /\ \A k \in DOMAIN nodes' : nodes'[k].parent < k
    BY <2>1, <2>2, AddStep
  <2>4. new \in Call
    BY <2>1 DEF Call
  <2> QED BY <2>2, <2>3, <2>4 DEF TypeOK
<1> QED BY <1>1, <1>2 DEF Next, Done

\* The tree, and the calls that built it, keep their types; every node hangs
\* on one that was made before it, so that the tree has no cycle.
THEOREM TypeCorrect == DiffTreeAssumption /\ Spec => []TypeOK
<1> SUFFICES ASSUME DiffTreeAssumption PROVE Spec => []TypeOK
  OBVIOUS
<1>1. Init => TypeOK
  BY DEF Init, TypeOK, DiffTreeAssumption
<1>2. TypeOK /\ [Next]_vars => TypeOK'
  BY TypeStep
<1> QED BY <1>1, <1>2, PTL DEF Spec

-----------------------------------------------------------------------------
\* What an action does to the tree, for the three proofs below.
LEMMA LineAdds ==
    ASSUME DiffTreeAssumption, TypeOK, NEW p \in todo, Line(p)
    PROVE  \E call \in Call :
               /\ added' = added \cup {call}
               /\ \E n \in 0..Len(call.parts) : \E route \in [1..n -> DOMAIN nodes] :
                      AddedTo(n, route, call.parts, call.status)
<1> DEFINE parsed == Parse(p, report[p])
           call == [of |-> p, kind |-> report[p], parts |-> parsed.parts, status |-> parsed.status]
<1>1. /\ parsed.parts \in Seq(Name)
      /\ parsed.status \in Bit
      /\ p \in Path
      /\ report[p] \in Bit
  BY ParseType
<1>2. Add(parsed.parts, parsed.status) /\ added' = added \cup {call}
  BY DEF Line
<1> HIDE DEF parsed
<1>3. \E n \in 0..Len(parsed.parts) : \E route \in [1..n -> DOMAIN nodes] :
          AddedTo(n, route, parsed.parts, parsed.status)
  BY <1>1, <1>2, AddStep
<1>4. call \in Call /\ call.parts = parsed.parts /\ call.status = parsed.status
  BY <1>1 DEF Call
<1> QED BY <1>2, <1>3, <1>4

\* A bit set in a node is set in the node above it: a found node is reached
\* through its parent, which gains the same bit.
THEOREM Accumulation == DiffTreeAssumption /\ Spec => []StatusAccumulates
<1> SUFFICES ASSUME DiffTreeAssumption PROVE Spec => []StatusAccumulates
  OBVIOUS
<1>1. Init => StatusAccumulates
  BY DEF Init, StatusAccumulates
<1>2. ASSUME TypeOK, StatusAccumulates, [Next]_vars
      PROVE  StatusAccumulates'
  <2>1. CASE UNCHANGED vars
    BY <1>2, <2>1 DEF vars, StatusAccumulates
  <2>2. ASSUME NEW p \in todo, Line(p) PROVE StatusAccumulates'
    <3>1. PICK call \in Call : \E n \in 0..Len(call.parts) :
            \E route \in [1..n -> DOMAIN nodes] :
                AddedTo(n, route, call.parts, call.status)
      BY <1>2, <2>2, LineAdds
    <3>2. PICK n \in 0..Len(call.parts) : \E route \in [1..n -> DOMAIN nodes] :
            AddedTo(n, route, call.parts, call.status)
      BY <3>1
    <3>3. PICK route \in [1..n -> DOMAIN nodes] :
            AddedTo(n, route, call.parts, call.status)
      BY <3>2
    <3>4. SUFFICES ASSUME NEW k \in DOMAIN nodes', nodes'[k].parent # Root
                   PROVE  nodes'[k].status \subseteq nodes'[nodes'[k].parent].status
      BY DEF StatusAccumulates
    <3>5. /\ n \in Nat
          /\ Len(nodes) \in Nat
          /\ Len(call.parts) \in Nat
          /\ DOMAIN nodes = 1..Len(nodes)
          /\ \A j \in DOMAIN nodes : nodes[j].parent \in Nat /\ nodes[j].parent < j
      <4>1. call.parts \in Seq(Name) /\ nodes \in Seq(Node)
        BY <1>2 DEF TypeOK, Call
      <4>2. \A j \in DOMAIN nodes : nodes[j] \in Node /\ nodes[j].parent < j
        BY <1>2, <4>1 DEF TypeOK
      <4> QED BY <4>1, <4>2 DEF Node
    <3>6. /\ \A i \in 1..n : route[i] \in DOMAIN nodes
          /\ DOMAIN nodes' = 1..(Len(nodes) + Len(call.parts) - n)
          /\ n <= Len(call.parts)
      BY <3>3, <3>5 DEF AddedTo
    <3>7. ASSUME NEW i \in 1..n
          PROVE  nodes[route[i]].parent = Reached(route, i - 1)
      <4>1. Finds(Reached(route, i - 1), call.parts[i], route[i])
        BY <3>3 DEF AddedTo, IsRoute
      <4> QED BY <4>1 DEF Finds, ChildrenNamed
    <3>8. CASE k \in DOMAIN nodes
      <4> DEFINE up == nodes[k].parent
      <4>1. nodes'[k].parent = up /\ up \in DOMAIN nodes
        BY <3>3, <3>4, <3>5, <3>8 DEF AddedTo, Root
      <4>2. nodes[k].status \subseteq nodes[up].status
        BY <1>2, <3>4, <3>8, <4>1 DEF StatusAccumulates
      <4>3. nodes[up].status \subseteq nodes'[up].status
        BY <3>3, <4>1 DEF AddedTo
      <4>4. ASSUME NEW i \in 1..n, route[i] = k
            PROVE  call.status \in nodes'[up].status
        <5>1. up = Reached(route, i - 1)
          BY <3>7, <4>4
        <5>2. i - 1 \in 1..n /\ route[i - 1] = up
          BY <3>4, <3>5, <4>1, <5>1 DEF Reached
        <5> QED BY <3>3, <5>2 DEF AddedTo
      <4>5. \A bit \in nodes'[k].status \ nodes[k].status :
                bit = call.status /\ \E i \in 1..n : route[i] = k
        BY <3>3, <3>8 DEF AddedTo
      <4> QED BY <4>1, <4>2, <4>3, <4>4, <4>5
    <3>9. CASE k \notin DOMAIN nodes /\ k = Len(nodes) + 1
      <4> DEFINE up == Reached(route, n)
      <4>1. nodes'[k].parent = up /\ nodes'[k].status = {call.status}
        BY <3>3, <3>9 DEF AddedTo
      <4>2. n \in 1..n /\ route[n] = up
        BY <3>4, <3>5, <4>1 DEF Reached
      <4>3. up \in DOMAIN nodes /\ call.status \in nodes'[up].status
        BY <3>3, <3>6, <4>2 DEF AddedTo
      <4> QED BY <4>1, <4>3
    <3>10. CASE k \notin DOMAIN nodes /\ k # Len(nodes) + 1
      <4>1. k - 1 \in DOMAIN nodes' \ DOMAIN nodes
        BY <3>5, <3>6, <3>10
      <4>2. nodes'[k].parent = k - 1 /\ nodes'[k].status = {call.status}
        BY <3>3, <3>10 DEF AddedTo
      <4>3. nodes'[k - 1].status = {call.status}
        BY <3>3, <4>1 DEF AddedTo
      <4> QED BY <4>2, <4>3
    <3> QED BY <3>8, <3>9, <3>10
  <2> QED BY <1>2, <2>1, <2>2 DEF Next, Done
<1> QED BY <1>1, <1>2, TypeCorrect, PTL DEF Spec

\* Each added path keeps its chain of nodes, with its status on all of them:
\* the nodes it found and, below them, those that were made for it.  Later
\* lines move and rename no node and take no status away.
THEOREM NoLoss == DiffTreeAssumption /\ Spec => []NothingLost
<1> SUFFICES ASSUME DiffTreeAssumption PROVE Spec => []NothingLost
  OBVIOUS
<1>1. Init => NothingLost
  BY DEF Init, NothingLost
<1>2. ASSUME TypeOK, NothingLost, [Next]_vars
      PROVE  NothingLost'
  <2>1. CASE UNCHANGED vars
    <3>1. added' = added /\ nodes' = nodes
      BY <2>1 DEF vars
    <3>2. \A status : Showing(status)' = Showing(status)
      BY <3>1 DEF Showing
    <3>3. SUFFICES ASSUME NEW call \in added
                   PROVE  \E n \in 0..Len(call.parts) :
                             \E route \in [1..Len(call.parts) -> Showing(call.status)'] :
                                \A i \in 1..Len(call.parts) :
                                   /\ nodes'[route[i]].parent = Reached(route, i - 1)
                                   /\ nodes'[route[i]].name =
                                         call.parts[IF i <= n THEN i ELSE Len(call.parts)]
      BY <3>1, Zenon DEF NothingLost, Reached
    <3>4. Showing(call.status)' = Showing(call.status)
      BY <3>2
    <3> QED BY <1>2, <3>1, <3>4 DEF NothingLost
  <2>2. ASSUME NEW p \in todo, Line(p) PROVE NothingLost'
    <3>1. PICK new \in Call :
            /\ added' = added \cup {new}
            /\ \E n \in 0..Len(new.parts) : \E route \in [1..n -> DOMAIN nodes] :
                   AddedTo(n, route, new.parts, new.status)
      BY <1>2, <2>2, LineAdds
    <3>2. PICK n \in 0..Len(new.parts) : \E route \in [1..n -> DOMAIN nodes] :
            AddedTo(n, route, new.parts, new.status)
      BY <3>1
    <3>3. PICK route \in [1..n -> DOMAIN nodes] :
            AddedTo(n, route, new.parts, new.status)
      BY <3>2
    <3>4. /\ n \in Nat
          /\ Len(nodes) \in Nat
          /\ Len(new.parts) \in Nat
          /\ n <= Len(new.parts)
          /\ DOMAIN nodes = 1..Len(nodes)
          /\ DOMAIN nodes' = 1..(Len(nodes) + Len(new.parts) - n)
          /\ new.parts \in Seq(Name)
      BY <1>2, <3>3 DEF TypeOK, AddedTo, Call
    <3>5. \A k \in DOMAIN nodes :
            /\ k \in DOMAIN nodes'
            /\ nodes'[k].parent = nodes[k].parent
            /\ nodes'[k].name = nodes[k].name
            /\ nodes[k].status \subseteq nodes'[k].status
      BY <3>3, <3>4 DEF AddedTo
    <3> DEFINE Shows(status) == {k \in DOMAIN nodes' : status \in nodes'[k].status}
               Spells(call, m, r) ==
                  \A i \in 1..Len(call.parts) :
                      /\ nodes'[r[i]].parent = Reached(r, i - 1)
                      /\ nodes'[r[i]].name = call.parts[IF i <= m THEN i ELSE Len(call.parts)]
    <3>6. ASSUME NEW call \in added
          PROVE  \E m \in 0..Len(call.parts) :
                    \E r \in [1..Len(call.parts) -> Shows(call.status)] : Spells(call, m, r)
      <4>1. PICK m \in 0..Len(call.parts) :
              \E r \in [1..Len(call.parts) -> Showing(call.status)] :
                  \A i \in 1..Len(call.parts) :
                      /\ nodes[r[i]].parent = Reached(r, i - 1)
                      /\ nodes[r[i]].name = call.parts[IF i <= m THEN i ELSE Len(call.parts)]
        BY <1>2, <3>6 DEF NothingLost
      <4>2. PICK r \in [1..Len(call.parts) -> Showing(call.status)] :
              \A i \in 1..Len(call.parts) :
                  /\ nodes[r[i]].parent = Reached(r, i - 1)
                  /\ nodes[r[i]].name = call.parts[IF i <= m THEN i ELSE Len(call.parts)]
        BY <4>1
      <4>3. \A i \in 1..Len(call.parts) : r[i] \in DOMAIN nodes /\ r[i] \in Shows(call.status)
        BY <3>5, <4>2 DEF Showing
      <4>4. r \in [1..Len(call.parts) -> Shows(call.status)]
        BY <4>2, <4>3
      <4>5. Spells(call, m, r)
        BY <3>5, <4>2, <4>3
      <4> QED BY <4>4, <4>5
    <3>7. \E r \in [1..Len(new.parts) -> Shows(new.status)] : Spells(new, n, r)
      <4> DEFINE r == [i \in 1..Len(new.parts) |-> IF i <= n THEN route[i] ELSE Len(nodes) + (i - n)]
      <4>1. ASSUME NEW i \in 1..Len(new.parts)
            PROVE  /\ r[i] \in Shows(new.status)
                   /\ nodes'[r[i]].parent = Reached(r, i - 1)
                   /\ nodes'[r[i]].name = new.parts[IF i <= n THEN i ELSE Len(new.parts)]
        <5>1. i \in Nat /\ i >= 1 /\ i <= Len(new.parts)
          BY <3>4
        <5>2. CASE i <= n
          <6>1. i \in 1..n /\ r[i] = route[i] /\ route[i] \in DOMAIN nodes
            BY <3>3, <3>4, <5>1, <5>2
          <6>2. new.status \in nodes'[route[i]].status
            BY <3>3, <6>1 DEF AddedTo
          <6>3. Finds(Reached(route, i - 1), new.parts[i], route[i])
            BY <3>3, <6>1 DEF AddedTo, IsRoute
          <6>4. nodes[route[i]].parent = Reached(route, i - 1) /\ nodes[route[i]].name = new.parts[i]
            BY <6>3 DEF Finds, ChildrenNamed
          <6>5. Reached(r, i - 1) = Reached(route, i - 1)
            <7>1. i - 1 # 0 => r[i - 1] = route[i - 1]
              BY <3>4, <5>1, <5>2
            <7> HIDE DEF r
            <7> QED BY <7>1 DEF Reached
          <6> HIDE DEF r
          <6> QED BY <3>5, <5>2, <6>1, <6>2, <6>4, <6>5
        <5>3. CASE i > n
          <6> DEFINE k == Len(nodes) + (i - n)
          <6>1. r[i] = k /\ k \in DOMAIN nodes' \ DOMAIN nodes /\ k \in Nat
            BY <3>4, <5>1, <5>3
          <6>2. /\ nodes'[k].name = new.parts[Len(new.parts)]
                /\ nodes'[k].status = {new.status}
                /\ nodes'[k].parent = IF k = Len(nodes) + 1 THEN Reached(route, n) ELSE k - 1
            BY <3>3, <6>1 DEF AddedTo
          <6>3. nodes'[k].parent = Reached(r, i - 1)
            <7>1. CASE i = n + 1
              <8>1. k = Len(nodes) + 1 /\ i - 1 = n
                BY <3>4, <7>1
              <8>2. n # 0 => r[n] = route[n]
                BY <3>4, <5>1, <7>1
              <8> HIDE DEF r, k
              <8> QED BY <6>2, <8>1, <8>2 DEF Reached
            <7>2. CASE i # n + 1
              <8>1. k # Len(nodes) + 1 /\ i - 1 # 0 /\ r[i - 1] = k - 1
                BY <3>4, <5>1, <5>3, <7>2
              <8> HIDE DEF r, k
              <8> QED BY <6>2, <8>1 DEF Reached
            <7> QED BY <7>1, <7>2
          <6>4. ~(i <= n)
            BY <3>4, <5>1, <5>3
          <6> HIDE DEF r, k
          <6> QED BY <6>1, <6>2, <6>3, <6>4
        <5> HIDE DEF r, Shows
        <5> QED BY <3>4, <5>1, <5>2, <5>3
      <4>2. r \in [1..Len(new.parts) -> Shows(new.status)]
        <5>1. r = [i \in 1..Len(new.parts) |-> r[i]]
          OBVIOUS
        <5> HIDE DEF r, Shows
        <5> QED BY <4>1, <5>1
      <4>3. Spells(new, n, r)
        <5> HIDE DEF r
        <5> QED BY <4>1
      <4> HIDE DEF r, Shows, Spells
      <4> QED BY <4>2, <4>3
    <3>8. \A call \in added' : \E m \in 0..Len(call.parts) :
              \E r \in [1..Len(call.parts) -> Shows(call.status)] : Spells(call, m, r)
      <4> HIDE DEF Shows, Spells
      <4> QED BY <3>1, <3>6, <3>7
    <3> QED BY <3>8 DEF NothingLost, Showing, Reached
  <2> QED BY <1>2, <2>1, <2>2 DEF Next, Done
<1> QED BY <1>1, <1>2, TypeCorrect, PTL DEF Spec

\* A node has no bit but those of added paths that hold its name: on a route
\* the names are those of the parts, and a new node has the last of them.
THEOREM NoInvention == DiffTreeAssumption /\ Spec => []NothingInvented
<1> SUFFICES ASSUME DiffTreeAssumption PROVE Spec => []NothingInvented
  OBVIOUS
<1>1. Init => NothingInvented
  BY DEF Init, NothingInvented
<1>2. ASSUME TypeOK, NothingInvented, [Next]_vars
      PROVE  NothingInvented'
  <2>1. CASE UNCHANGED vars
    BY <1>2, <2>1 DEF vars, NothingInvented
  <2>2. ASSUME NEW p \in todo, Line(p) PROVE NothingInvented'
    <3>1. PICK new \in Call :
            /\ added' = added \cup {new}
            /\ \E n \in 0..Len(new.parts) : \E route \in [1..n -> DOMAIN nodes] :
                   AddedTo(n, route, new.parts, new.status)
      BY <1>2, <2>2, LineAdds
    <3>2. PICK n \in 0..Len(new.parts) : \E route \in [1..n -> DOMAIN nodes] :
            AddedTo(n, route, new.parts, new.status)
      BY <3>1
    <3>3. PICK route \in [1..n -> DOMAIN nodes] :
            AddedTo(n, route, new.parts, new.status)
      BY <3>2
    <3>4. /\ n \in Nat /\ n <= Len(new.parts)
          /\ Len(nodes) \in Nat
          /\ Len(new.parts) \in Nat
          /\ DOMAIN nodes = 1..Len(nodes)
          /\ DOMAIN nodes' = 1..(Len(nodes) + Len(new.parts) - n)
          /\ DOMAIN new.parts = 1..Len(new.parts)
      BY <1>2, <3>3 DEF TypeOK, AddedTo, Call
    <3>5. SUFFICES ASSUME NEW k \in DOMAIN nodes', NEW bit \in nodes'[k].status
                   PROVE  \E call \in added' :
                              /\ call.status = bit
                              /\ \E i \in DOMAIN call.parts : call.parts[i] = nodes'[k].name
      BY DEF NothingInvented
    <3>6. CASE k \in DOMAIN nodes /\ bit \in nodes[k].status
      <4>1. PICK call \in added :
              /\ call.status = bit
              /\ \E i \in DOMAIN call.parts : call.parts[i] = nodes[k].name
        BY <1>2, <3>6 DEF NothingInvented
      <4>2. nodes'[k].name = nodes[k].name
        BY <3>3, <3>6 DEF AddedTo
      <4> QED BY <3>1, <4>1, <4>2
    <3>7. CASE k \in DOMAIN nodes /\ bit \notin nodes[k].status
      <4>2. PICK i \in 1..n : route[i] = k /\ bit = new.status
        BY <3>3, <3>5, <3>7 DEF AddedTo
      <4>3. Finds(Reached(route, i - 1), new.parts[i], k)
        BY <3>3, <4>2 DEF AddedTo, IsRoute
      <4>4. new.parts[i] = nodes[k].name /\ nodes'[k].name = nodes[k].name
        BY <3>3, <3>7, <4>3 DEF Finds, ChildrenNamed, AddedTo
      <4>5. i \in DOMAIN new.parts
        BY <3>4
      <4> QED BY <3>1, <4>2, <4>4, <4>5
    <3>8. CASE k \notin DOMAIN nodes
      <4>1. nodes'[k].status = {new.status} /\ nodes'[k].name = new.parts[Len(new.parts)]
        BY <3>3, <3>8 DEF AddedTo
      <4>2. Len(new.parts) \in DOMAIN new.parts
        BY <3>4, <3>8
      <4> QED BY <3>1, <3>5, <4>1, <4>2
    <3> QED BY <3>6, <3>7, <3>8
  <2> QED BY <1>2, <2>1, <2>2 DEF Next, Done
<1> QED BY <1>1, <1>2, TypeCorrect, PTL DEF Spec
=============================================================================
