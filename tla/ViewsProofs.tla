---------------------------- MODULE ViewsProofs ----------------------------
(* Proofs about run_diff and the reading of its pipes (module Spawn), for  *)
(* any set of runs, any amount of output and any capacity of the pipes,    *)
(* and about the loads of the views and the pumps inside them (module      *)
(* Views), for any set of views, any output of diff and any session.       *)
EXTENDS Views, FiniteSetTheorems, TLAPS

-----------------------------------------------------------------------------
(* Spawn *)

Gone == {"exiting", "zombie", "reaped"}

\* Which processes can hold the write end of a pipe, by the state of its
\* stream.
WriteEnds(r) ==
    /\ stream[r] = "none" => wend[r] = {}
    /\ stream[r] = "forked" => wend[r] \subseteq {Gdiff, r}
    /\ stream[r] \in {"open", "closed"} => wend[r] \subseteq {r}

\* A diff holds its own write end until it leaves; there is a child exactly
\* for the runs that forked.
OwnEnd(r) ==
    /\ child[r] \in {"forked", "running"} => r \in wend[r]
    /\ stream[r] \in {"none", "failed"} <=> child[r] = "none"

Drained(r) ==
    stream[r] = "closed" => child[r] \in Gone /\ got[r] = sent[r]

\* The inductive invariant behind WriteEndIsolation and DrainedAtClose.
SpawnInv ==
    /\ SpawnTypeOK
    /\ \A r \in Run : WriteEnds(r) /\ OwnEnd(r) /\ Drained(r)

-----------------------------------------------------------------------------
\* What every step of gdiff and of the children does to one pipe keeps the
\* types.
LEMMA SpawnTypeStep ==
    ASSUME SpawnAssumption, SpawnTypeOK, [SpawnNext]_spawnVars
    PROVE  SpawnTypeOK'
<1> USE DEF SpawnTypeOK, StreamState, ChildState, Proc
<1>1. CASE Exit
  BY <1>1 DEF Exit, Without
<1>2. ASSUME NEW r \in Run, Caller(r) PROVE SpawnTypeOK'
  <2>1. CASE PipeFails(r) BY <2>1 DEF PipeFails
  <2>2. CASE ForkFails(r) BY <2>2 DEF ForkFails
  <2>3. CASE Fork(r) BY <2>3 DEF Fork, Inherit
  <2>4. CASE Return(r)
    <3>1. child' \in [Run -> ChildState]
      BY <2>4 DEF Return, Waitpid, Zombies
    <3>2. Cardinality(Alive) \in Nat
      <4>1. IsFiniteSet(Alive) BY FS_Subset DEF SpawnAssumption, Alive
      <4> QED BY <4>1, FS_CardinalityType
    <3>3. peak' \in Nat
      BY <2>4, <3>2 DEF Return, Larger
    <3> QED BY <2>4, <3>1, <3>3 DEF Return
  <2>5. CASE Read(r) BY <2>5 DEF Read
  <2>6. CASE Eof(r) BY <2>6 DEF Eof, Fclose
  <2> QED BY <1>2, <2>1, <2>2, <2>3, <2>4, <2>5, <2>6 DEF Caller
<1>3. ASSUME NEW r \in Run, Child(r) PROVE SpawnTypeOK'
  BY <1>3 DEF Child, Exec, ExecFails, Write, Finish, Die, BecomeZombie, LeaveFiles, Without
<1>4. CASE UNCHANGED spawnVars
  BY <1>4 DEF spawnVars
<1> QED BY <1>1, <1>2, <1>3, <1>4 DEF SpawnNext

\* gdiff runs with variables of the right types, whatever is spawned.
THEOREM SpawnTypeCorrect == SpawnAssumption /\ SpawnSafe => []SpawnTypeOK
<1> SUFFICES ASSUME SpawnAssumption PROVE SpawnSafe => []SpawnTypeOK
  OBVIOUS
<1>1. SpawnInit => SpawnTypeOK
  BY DEF SpawnInit, SpawnTypeOK, StreamState, ChildState
<1>2. SpawnTypeOK /\ [SpawnNext]_spawnVars => SpawnTypeOK'
  BY SpawnTypeStep
<1> QED BY <1>1, <1>2, PTL DEF SpawnSafe

-----------------------------------------------------------------------------
\* No step lets a stranger at the write end of a pipe that is read, lets a
\* diff lose its own, or closes a stream before its diff has left.
LEMMA SpawnInvStep ==
    ASSUME SpawnAssumption, SpawnInv, [SpawnNext]_spawnVars
    PROVE  SpawnInv'
<1> USE DEF SpawnInv
<1>1. SpawnTypeOK'
  BY SpawnTypeStep
<1> SUFFICES ASSUME NEW q \in Run
             PROVE  WriteEnds(q)' /\ OwnEnd(q)' /\ Drained(q)'
  BY <1>1
<1> USE DEF SpawnTypeOK, WriteEnds, OwnEnd, Drained, Gone, SpawnAssumption
<1>2. CASE Exit
  BY <1>2 DEF Exit, Without
<1>3. ASSUME NEW r \in Run, Caller(r)
      PROVE  WriteEnds(q)' /\ OwnEnd(q)' /\ Drained(q)'
  <2>1. CASE PipeFails(r) BY <2>1 DEF PipeFails, CanCall
  <2>2. CASE ForkFails(r) BY <2>2 DEF ForkFails, CanCall
  <2>3. CASE Fork(r)
    <3>1. WriteEnds(q)'
      BY <2>3 DEF Fork, CanCall, Inherit, StreamState
    <3>2. OwnEnd(q)' /\ Drained(q)'
      BY <2>3 DEF Fork, CanCall, Inherit
    <3> QED BY <3>1, <3>2
  <2>4. CASE Return(r)
    <3>1. WriteEnds(q)'
      BY <2>4 DEF Return
    <3>2. OwnEnd(q)' /\ Drained(q)'
      BY <2>4 DEF Return, Waitpid, Zombies
    <3> QED BY <3>1, <3>2
  <2>5. CASE Read(r) BY <2>5 DEF Read
  <2>6. CASE Eof(r) BY <2>6 DEF Eof, Fclose, AtEof, ChildState
  <2> QED BY <1>3, <2>1, <2>2, <2>3, <2>4, <2>5, <2>6 DEF Caller
<1>4. ASSUME NEW r \in Run, Child(r)
      PROVE  WriteEnds(q)' /\ OwnEnd(q)' /\ Drained(q)'
  <2>1. CASE Exec(r) BY <2>1 DEF Exec
  <2>2. CASE Write(r) BY <2>2 DEF Write
  <2>3. CASE ExecFails(r) \/ Finish(r) \/ Die(r)
    BY <2>3 DEF ExecFails, Finish, Die, LeaveFiles, Without
  <2>4. CASE BecomeZombie(r) BY <2>4 DEF BecomeZombie
  <2> QED BY <1>4, <2>1, <2>2, <2>3, <2>4 DEF Child
<1>5. CASE UNCHANGED spawnVars
  BY <1>5 DEF spawnVars
<1> QED BY <1>2, <1>3, <1>4, <1>5 DEF SpawnNext

LEMMA SpawnInvHolds == SpawnAssumption /\ SpawnSafe => []SpawnInv
<1> SUFFICES ASSUME SpawnAssumption PROVE SpawnSafe => []SpawnInv
  OBVIOUS
<1>1. SpawnInit => SpawnInv
  BY DEF SpawnInit, SpawnInv, SpawnTypeOK, StreamState, ChildState,
         WriteEnds, OwnEnd, Drained
<1>2. SpawnInv /\ [SpawnNext]_spawnVars => SpawnInv'
  BY SpawnInvStep
<1> QED BY <1>1, <1>2, PTL DEF SpawnSafe

\* For any number of overlapping runs, only a run's own diff can hold back
\* the end of the file that gdiff reads from it.
THEOREM Isolation == SpawnAssumption /\ SpawnSafe => []WriteEndIsolation
<1>1. SpawnInv => WriteEndIsolation
  BY DEF SpawnInv, WriteEnds, WriteEndIsolation
<1> QED BY <1>1, SpawnInvHolds, PTL

\* Whatever the interleaving, a stream is closed only after its diff has
\* left and all it wrote has been read.
THEOREM DrainedBeforeClose == SpawnAssumption /\ SpawnSafe => []DrainedAtClose
<1>1. SpawnInv => DrainedAtClose
  BY DEF SpawnInv, Drained, Gone, DrainedAtClose
<1> QED BY <1>1, SpawnInvHolds, PTL

-----------------------------------------------------------------------------
(* The bound on the zombies *)

\* The children that count: run_diff is done with their start.
Counted == {r \in Unreaped : stream[r] # "forked"}

\* run_diff is not re-entered, and the children that count are no more than
\* once ran together.
ZombieInv ==
    /\ \A q, r \in Run : stream[q] = "forked" /\ stream[r] = "forked" => q = r
    /\ Cardinality(Counted) <= peak

\* A step that brings no child to those that count, and leaves peak alone,
\* keeps their bound.
LEMMA FewerCounted ==
    ASSUME SpawnAssumption, SpawnInv, ZombieInv,
           Counted' \subseteq Counted, peak' = peak
    PROVE  Cardinality(Counted') <= peak'
<1>1. IsFiniteSet(Counted)
  BY FS_Subset DEF SpawnAssumption, Counted, Unreaped, Alive, Zombies
<1>2. IsFiniteSet(Counted') /\ Cardinality(Counted') <= Cardinality(Counted)
  BY <1>1, FS_Subset
<1>3. Cardinality(Counted) <= peak
  BY DEF ZombieInv
<1>4. Cardinality(Counted) \in Nat /\ Cardinality(Counted') \in Nat /\ peak \in Nat
  BY <1>1, <1>2, FS_CardinalityType DEF SpawnInv, SpawnTypeOK
<1> QED BY <1>2, <1>3, <1>4

\* A waitpid that takes a dead child makes up for the child that its
\* run_diff has forked.
LEMMA OneInOneOut ==
    ASSUME NEW S, NEW T, NEW r, NEW z, IsFiniteSet(S),
           z \in S \cup {r}, T \subseteq (S \cup {r}) \ {z}
    PROVE  Cardinality(T) <= Cardinality(S)
<1> DEFINE U == S \cup {r}
<1>1. IsFiniteSet(U) /\ Cardinality(U) <= Cardinality(S) + 1 /\ Cardinality(S) \in Nat
  <2>1. Cardinality(S) \in Nat
    BY FS_CardinalityType
  <2>2. /\ IsFiniteSet(S \cup {r})
        /\ Cardinality(S \cup {r}) = IF r \in S THEN Cardinality(S) ELSE Cardinality(S) + 1
    BY FS_AddElement
  <2> QED BY <2>1, <2>2
<1>2. /\ IsFiniteSet(U \ {z}) /\ Cardinality(U) \in Nat
      /\ Cardinality(U \ {z}) = Cardinality(U) - 1
  BY <1>1, FS_RemoveElement, FS_CardinalityType
<1>3. IsFiniteSet(T) /\ Cardinality(T) <= Cardinality(U \ {z})
  BY <1>2, FS_Subset
<1>4. Cardinality(T) \in Nat
  BY <1>3, FS_CardinalityType
<1> HIDE DEF U
<1> QED BY <1>1, <1>2, <1>3, <1>4

\* Each run_diff adds a child to those that count, and its waitpid takes one
\* away unless none of them is dead, in which case all of them run.
LEMMA ZombieStep ==
    ASSUME SpawnAssumption, SpawnInv, ZombieInv, [SpawnNext]_spawnVars
    PROVE  ZombieInv'
<1> USE DEF Counted, Unreaped, Alive, Zombies
<1>1. /\ stream \in [Run -> StreamState] /\ child \in [Run -> ChildState]
      /\ peak \in Nat /\ IsFiniteSet(Run)
      /\ \A r \in Run : stream[r] \in {"none", "failed"} <=> child[r] = "none"
  BY DEF SpawnInv, SpawnTypeOK, SpawnAssumption, OwnEnd
<1>2. ASSUME NEW r \in Run, Caller(r) PROVE ZombieInv'
  <2>1. CASE PipeFails(r) \/ ForkFails(r)
    <3>1. Counted' \subseteq Counted /\ peak' = peak
      BY <1>1, <2>1 DEF PipeFails, ForkFails, CanCall
    <3>2. \A q \in Run : stream'[q] = "forked" => stream[q] = "forked"
      BY <1>1, <2>1 DEF PipeFails, ForkFails
    <3> QED BY <3>1, <3>2, FewerCounted DEF ZombieInv
  <2>2. CASE Fork(r)
    <3>1. Counted' \subseteq Counted /\ peak' = peak
      BY <1>1, <2>2 DEF Fork
    <3>2. \A q \in Run : stream'[q] = "forked" => q = r
      BY <1>1, <2>2 DEF Fork, CanCall
    <3>3. Cardinality(Counted') <= peak'
      BY <3>1, FewerCounted
    <3> QED BY <3>2, <3>3 DEF ZombieInv
  <2>3. CASE Return(r)
    <3>1. \A q \in Run : stream'[q] # "forked"
      BY <1>1, <2>3 DEF Return, ZombieInv
    <3>2. /\ stream[r] = "forked" /\ stream' = [stream EXCEPT ![r] = "open"]
          /\ peak' = Larger(peak, Cardinality(Alive)) /\ Waitpid
      BY <2>3 DEF Return
    <3>3. IsFiniteSet(Counted) /\ IsFiniteSet(Alive)
      BY <1>1, FS_Subset
    <3>4. Cardinality(Counted) \in Nat /\ Cardinality(Alive) \in Nat
      BY <3>3, FS_CardinalityType
    <3>5. peak' >= peak /\ peak' >= Cardinality(Alive) /\ peak' \in Nat
      BY <1>1, <3>2, <3>4 DEF Larger
    <3>6. CASE Zombies = {}
      <4>1. Counted' \subseteq Alive
        BY <1>1, <3>2, <3>6 DEF Waitpid
      <4>2. IsFiniteSet(Counted') /\ Cardinality(Counted') <= Cardinality(Alive)
        BY <3>3, <4>1, FS_Subset
      <4>3. Cardinality(Counted') \in Nat
        BY <4>2, FS_CardinalityType
      <4> HIDE DEF Counted, Alive
      <4> QED BY <3>1, <3>4, <3>5, <4>2, <4>3 DEF ZombieInv
    <3>7. CASE Zombies # {}
      <4>1. PICK z \in Zombies : child' = [child EXCEPT ![z] = "reaped"]
        BY <3>2, <3>7 DEF Waitpid
      <4>2. z \in Counted \cup {r}
        BY <3>2, <4>1 DEF ZombieInv
      <4>3. Counted' \subseteq (Counted \cup {r}) \ {z}
        BY <1>1, <3>2, <4>1
      <4>4. Cardinality(Counted') <= Cardinality(Counted)
        BY <3>3, <4>2, <4>3, OneInOneOut
      <4>5. IsFiniteSet(Counted')
        BY <1>1, FS_Subset
      <4>6. Cardinality(Counted') \in Nat
        BY <4>5, FS_CardinalityType
      <4>7. Cardinality(Counted) <= peak
        BY DEF ZombieInv
      <4> HIDE DEF Counted
      <4>8. Cardinality(Counted') <= peak'
        BY <1>1, <3>4, <3>5, <4>4, <4>6, <4>7
      <4> QED BY <3>1, <4>8 DEF ZombieInv
    <3> QED BY <3>6, <3>7
  <2>4. CASE Read(r)
    <3>1. Counted' \subseteq Counted /\ peak' = peak /\ stream' = stream
      BY <2>4 DEF Read
    <3> QED BY <3>1, FewerCounted DEF ZombieInv
  <2>5. CASE Eof(r)
    <3>1. Counted' \subseteq Counted /\ peak' = peak
      BY <1>1, <2>5 DEF Eof, Fclose, AtEof
    <3>2. \A q \in Run : stream'[q] = "forked" => stream[q] = "forked"
      BY <1>1, <2>5 DEF Eof, Fclose, AtEof
    <3> QED BY <3>1, <3>2, FewerCounted DEF ZombieInv
  <2> QED BY <1>2, <2>1, <2>2, <2>3, <2>4, <2>5 DEF Caller
<1>3. ASSUME NEW r \in Run, Child(r) PROVE ZombieInv'
  <2>1. stream' = stream /\ peak' = peak
    BY <1>3 DEF Child, Exec, ExecFails, Write, Finish, Die, BecomeZombie, LeaveFiles
  <2>2. Counted' \subseteq Counted
    BY <1>1, <1>3 DEF Child, Exec, ExecFails, Write, Finish, Die, BecomeZombie, LeaveFiles
  <2> QED BY <2>1, <2>2, FewerCounted DEF ZombieInv
<1>4. CASE Exit \/ UNCHANGED spawnVars
  <2>1. Counted' \subseteq Counted /\ peak' = peak /\ stream' = stream
    BY <1>4 DEF Exit, spawnVars
  <2> QED BY <2>1, FewerCounted DEF ZombieInv
<1> QED BY <1>2, <1>3, <1>4 DEF SpawnNext

\* However many views are loaded in a session, the children that gdiff has
\* not reaped never outnumber the diffs that once ran at the same time.
THEOREM ZombiesBounded == SpawnAssumption /\ SpawnSafe => []ZombieBound
<1> SUFFICES ASSUME SpawnAssumption PROVE SpawnSafe => []ZombieBound
  OBVIOUS
<1>1. SpawnInit => ZombieInv
  <2> SUFFICES ASSUME SpawnInit PROVE ZombieInv
    OBVIOUS
  <2>1. Counted = {}
    BY DEF SpawnInit, Counted, Unreaped, Alive, Zombies
  <2> QED BY <2>1, FS_EmptySet DEF SpawnInit, ZombieInv
<1>2. SpawnInv /\ ZombieInv /\ [SpawnNext]_spawnVars => ZombieInv'
  BY ZombieStep
<1>3. ZombieInv => ZombieBound
  BY DEF ZombieInv, ZombieBound, Counted
<1>4. SpawnSafe => []SpawnInv
  BY SpawnInvHolds
<1> QED BY <1>1, <1>2, <1>3, <1>4, PTL DEF SpawnSafe

-----------------------------------------------------------------------------
(* Views *)

OnStack(v) == \E i \in DOMAIN stack : stack[i] = v

\* The stack holds each unfinished load once; all but the innermost wait in
\* a pump.
StackInv ==
    /\ \A i, j \in DOMAIN stack : stack[i] = stack[j] => i = j
    /\ \A i \in DOMAIN stack : i < Len(stack) => at[stack[i]] \in Pump
    /\ \A v \in View : at[v] \notin {"idle", "done"} <=> OnStack(v)
    /\ \A v \in View : ~drawn[v] => at[v] = "idle"

\* Where a load stands tells the state of its stream; a list is frozen
\* between clear and close; directory views neither pump nor freeze.
LoadOk(v) ==
    /\ stream[v] = "forked" => at[v] = "spawn"
    /\ stream[v] = "open" => at[v] \in {"pump2", "clear", "read"}
    /\ Gdiff \in rend[v] => stream[v] \in {"forked", "open", "failed"}
    /\ frozen[v] => at[v] = "read"
    /\ v \in Tree => at[v] \notin Pump \cup {"clear"} /\ ~frozen[v]

LoadInv == \A v \in View : LoadOk(v)

FreedInv == freed # {} => ~up /\ stack = << >>

\* The inductive invariant.
IInv ==
    /\ SpawnInv
    /\ TypeOK
    /\ StackInv
    /\ LoadInv
    /\ FreedInv

-----------------------------------------------------------------------------
\* Every step of the window is, for run_diff and its pipes, a step of module
\* Spawn or none at all.
LEMMA SpawnStep ==
    ASSUME [Next]_vars
    PROVE  [SpawnNext]_spawnVars
<1>1. ASSUME NEW v \in View, Draw(v) PROVE UNCHANGED spawnVars
  BY <1>1 DEF Draw, DrawCompare, DrawTree, FirstDraw
<1>2. ASSUME NEW v \in View, Load(v) PROVE [SpawnNext]_spawnVars
  <2>1. CASE PumpEnds(v) \/ Clear(v)
    BY <2>1 DEF PumpEnds, Clear
  <2>2. CASE CompareCrashes(v) \/ TreeCrashes(v)
    BY <2>2 DEF CompareCrashes, TreeCrashes, SpawnNext
  <2>3. CASE Forks(v) \/ Returns(v) \/ ReturnsNull(v) \/ CompareReads(v)
             \/ CompareCloses(v) \/ TreeReads(v) \/ TreeCloses(v)
    BY <2>3 DEF Forks, Returns, ReturnsNull, CompareReads, CompareCloses,
                TreeReads, TreeCloses, View, SpawnNext, Caller
  <2> QED BY <1>2, <2>1, <2>2, <2>3 DEF Load
<1>3. ASSUME NEW v \in View, User(v) PROVE UNCHANGED spawnVars
  BY <1>3 DEF User, Open, Select, CloseDisplay
<1>4. ASSUME NEW v \in View, DiffProcess(v) PROVE SpawnNext
  BY <1>4 DEF DiffProcess, View, SpawnNext
<1>5. CASE ExitMenu \/ CloseWindow
  BY <1>5 DEF ExitMenu, CloseWindow
<1>6. CASE MainReturns
  BY <1>6 DEF MainReturns, SpawnNext
<1>7. CASE UNCHANGED vars
  BY <1>7 DEF vars
<1> QED BY <1>1, <1>2, <1>3, <1>4, <1>5, <1>6, <1>7 DEF Next

\* The loads of the views use run_diff as module Spawn says it is used, so
\* what is proved of it there holds in every session.
THEOREM ViewsImplementSpawn == Safe => SpawnSafe
<1>1. Init => SpawnInit
  BY DEF Init
<1>2. [Next]_vars => [SpawnNext]_spawnVars
  BY SpawnStep
<1> QED BY <1>1, <1>2, PTL DEF Safe, SpawnSafe

-----------------------------------------------------------------------------
\* No step puts a variable of the window out of its type.
LEMMA TypeStep ==
    ASSUME SpawnAssumption, ViewsAssumption, TypeOK, [Next]_vars
    PROVE  TypeOK'
<1>1. SpawnTypeOK'
  BY SpawnTypeStep, SpawnStep DEF TypeOK
<1> USE DEF TypeOK, Place, Pump
<1>2. ASSUME NEW v \in View, Draw(v) PROVE TypeOK'
  <2>1. FirstDraw(v, "pump1") \/ FirstDraw(v, "spawn")
    BY <1>2 DEF Draw, DrawCompare, DrawTree
  <2>2. stack' = Append(stack, v)
    BY <2>1 DEF FirstDraw
  <2>3. stack' \in Seq(View)
    BY <2>2
  <2> QED BY <1>1, <2>1, <2>3 DEF FirstDraw
<1>3. ASSUME NEW v \in View, Load(v) PROVE TypeOK'
  <2>1. ASSUME Leave(v), stack # << >> PROVE stack' \in Seq(View)
    BY <2>1 DEF Leave
  <2>2. CASE PumpEnds(v)
    <3>1. stack' \in Seq(View)
      BY <2>1, <2>2 DEF PumpEnds, Goto, Executing
    <3>2. at' \in [View -> Place]
      BY <2>2 DEF PumpEnds, Goto, Leave
    <3> QED BY <1>1, <2>2, <3>1, <3>2 DEF PumpEnds
  <2>3. CASE Forks(v) \/ TreeReads(v) \/ CompareCrashes(v) \/ TreeCrashes(v)
    BY <1>1, <2>3 DEF Forks, TreeReads, CompareCrashes, TreeCrashes, viewVars
  <2>4. CASE Returns(v)
    BY <1>1, <2>4 DEF Returns, Goto
  <2>5. CASE ReturnsNull(v)
    BY <1>1, <2>1, <2>5 DEF ReturnsNull, Goto, Leave, Executing
  <2>6. CASE Clear(v)
    BY <1>1, <2>6 DEF Clear, Goto
  <2>7. CASE CompareReads(v)
    <3>1. got'[v] \in Nat
      BY <1>1, <2>7 DEF SpawnTypeOK, View
    <3> QED BY <1>1, <2>7, <3>1 DEF CompareReads
  <2>8. CASE CompareCloses(v)
    BY <1>1, <2>8 DEF CompareCloses, Goto
  <2>9. CASE TreeCloses(v)
    BY <1>1, <2>1, <2>9 DEF TreeCloses, Leave, Executing
  <2> QED BY <1>3, <2>2, <2>3, <2>4, <2>5, <2>6, <2>7, <2>8, <2>9 DEF Load
<1>4. ASSUME NEW v \in View, User(v) PROVE TypeOK'
  BY <1>1, <1>4 DEF User, Open, Select, CloseDisplay, Opened
<1>5. ASSUME NEW v \in View, DiffProcess(v) PROVE TypeOK'
  BY <1>1, <1>5 DEF DiffProcess, viewVars
<1>6. CASE ExitMenu \/ CloseWindow
  BY <1>1, <1>6 DEF ExitMenu, CloseWindow, RemoveAll
<1>7. CASE MainReturns
  BY <1>1, <1>7 DEF MainReturns, ViewsAssumption
<1>8. CASE UNCHANGED vars
  BY <1>1, <1>8 DEF vars, viewVars
<1> QED BY <1>2, <1>3, <1>4, <1>5, <1>6, <1>7, <1>8 DEF Next

\* The window runs with variables of the right types in every session.
THEOREM TypeCorrect == SpawnAssumption /\ ViewsAssumption /\ Safe => []TypeOK
<1> SUFFICES ASSUME SpawnAssumption, ViewsAssumption PROVE Safe => []TypeOK
  OBVIOUS
<1>1. Init => TypeOK
  <2> SUFFICES ASSUME Init PROVE TypeOK
    OBVIOUS
  <2>1. SpawnTypeOK
    BY DEF Init, SpawnInit, SpawnTypeOK, StreamState, ChildState
  <2>2. rows \in [View -> Seq(Nat \cup {Wait})]
    <3>1. <<Wait>> \in Seq(Nat \cup {Wait}) /\ << >> \in Seq(Nat \cup {Wait})
      OBVIOUS
    <3> QED BY <3>1 DEF Init, NewList
  <2>3. stack \in Seq(View)
    BY DEF Init
  <2> QED BY <2>1, <2>2, <2>3 DEF ViewsAssumption, Init, TypeOK, Place, Pump
<1>2. TypeOK /\ [Next]_vars => TypeOK'
  BY TypeStep
<1> QED BY <1>1, <1>2, PTL DEF Safe

-----------------------------------------------------------------------------
\* The first draw of a view pushes its load, from a pump or from gtk_main:
\* its drawn flag tells that it is not on the stack yet.
LEMMA PushStack ==
    ASSUME TypeOK, StackInv, NEW v \in View,
           FirstDraw(v, "pump1") \/ FirstDraw(v, "spawn")
    PROVE  StackInv'
<1>1. /\ stack' = Append(stack, v)
      /\ drawn' = [drawn EXCEPT ![v] = TRUE]
      /\ \/ at' = [at EXCEPT ![v] = "pump1"]
         \/ at' = [at EXCEPT ![v] = "spawn"]
      /\ ~drawn[v]
      /\ Dispatching
  BY DEF FirstDraw
<1>2. stack \in Seq(View) /\ drawn \in [View -> BOOLEAN] /\ at \in [View -> Place]
  BY DEF TypeOK
<1>3. ~OnStack(v) /\ at[v] = "idle"
  BY <1>1 DEF StackInv
<1>4. /\ DOMAIN stack' = 1..(Len(stack) + 1)
      /\ Len(stack') = Len(stack) + 1
      /\ DOMAIN stack = 1..Len(stack)
      /\ Len(stack) \in Nat
  BY <1>1, <1>2
<1>5. /\ stack'[Len(stack) + 1] = v
      /\ \A i \in DOMAIN stack : stack'[i] = stack[i] /\ stack[i] \in View
  BY <1>1, <1>2
<1>6. \A i \in DOMAIN stack : stack[i] # v
  BY <1>3 DEF OnStack
<1>7. \A i \in DOMAIN stack : at'[stack[i]] = at[stack[i]]
  BY <1>1, <1>2, <1>5, <1>6
<1>8. \A i \in DOMAIN stack' : i \in DOMAIN stack \/ i = Len(stack) + 1
  BY <1>4
<1>9. \A i, j \in DOMAIN stack' : stack'[i] = stack'[j] => i = j
  BY <1>5, <1>6, <1>8 DEF StackInv
<1>10. \A i \in DOMAIN stack : at[stack[i]] \in Pump
  <2> SUFFICES ASSUME NEW i \in DOMAIN stack PROVE at[stack[i]] \in Pump
    OBVIOUS
  <2>1. CASE i < Len(stack) BY <2>1 DEF StackInv
  <2>2. CASE i = Len(stack) BY <1>1, <1>4, <2>2 DEF Dispatching
  <2> QED BY <1>4, <2>1, <2>2
<1>11. \A i \in DOMAIN stack' : i < Len(stack') => at'[stack'[i]] \in Pump
  <2> SUFFICES ASSUME NEW i \in DOMAIN stack', i < Len(stack')
               PROVE  at'[stack'[i]] \in Pump
    OBVIOUS
  <2>1. i \in DOMAIN stack
    BY <1>4
  <2> QED BY <2>1, <1>5, <1>7, <1>10
<1>12. ASSUME NEW w \in View PROVE OnStack(w)' <=> OnStack(w) \/ w = v
  <2>1. OnStack(w) => OnStack(w)'
    BY <1>4, <1>5 DEF OnStack
  <2>2. w = v => OnStack(w)'
    BY <1>4, <1>5 DEF OnStack
  <2>3. OnStack(w)' => OnStack(w) \/ w = v
    BY <1>5, <1>8 DEF OnStack
  <2> QED BY <2>1, <2>2, <2>3
<1>13. \A w \in View : at'[w] \notin {"idle", "done"} <=> OnStack(w)'
  <2> SUFFICES ASSUME NEW w \in View
               PROVE  at'[w] \notin {"idle", "done"} <=> OnStack(w)'
    OBVIOUS
  <2>1. w # v => at'[w] = at[w]
    BY <1>1, <1>2
  <2>2. at'[v] \in {"pump1", "spawn"}
    BY <1>1, <1>2
  <2> QED BY <1>12, <2>1, <2>2 DEF StackInv
<1>14. \A w \in View : ~drawn'[w] => at'[w] = "idle"
  BY <1>1, <1>2 DEF StackInv
<1> QED BY <1>9, <1>11, <1>13, <1>14 DEF StackInv

\* The load that executes moves on: the others wait where they were.
LEMMA GotoStack ==
    ASSUME TypeOK, StackInv, NEW v \in View, Executing(v),
           NEW place \in {"spawn", "pump2", "clear", "read", "pump3"},
           Goto(v, place), UNCHANGED drawn
    PROVE  StackInv'
<1>1. /\ stack' = stack /\ drawn' = drawn
      /\ at' = [at EXCEPT ![v] = place]
      /\ stack # << >> /\ stack[Len(stack)] = v
  BY DEF Goto, Executing
<1>2. stack \in Seq(View) /\ at \in [View -> Place]
  BY DEF TypeOK
<1>3. Len(stack) \in DOMAIN stack /\ DOMAIN stack = 1..Len(stack)
  BY <1>1, <1>2
<1>4. OnStack(v)
  BY <1>1, <1>3 DEF OnStack
<1>5. ASSUME NEW i \in DOMAIN stack, i < Len(stack) PROVE at'[stack[i]] \in Pump
  <2>1. stack[i] # v
    BY <1>1, <1>3, <1>5 DEF StackInv
  <2>2. stack[i] \in View
    BY <1>2
  <2> QED BY <1>1, <1>2, <1>5, <2>1, <2>2 DEF StackInv
<1>6. \A w \in View : at'[w] \notin {"idle", "done"} <=> OnStack(w)'
  <2> SUFFICES ASSUME NEW w \in View
               PROVE  at'[w] \notin {"idle", "done"} <=> OnStack(w)'
    OBVIOUS
  <2>1. OnStack(w)' <=> OnStack(w)
    BY <1>1 DEF OnStack
  <2>2. CASE w = v
    BY <1>1, <1>2, <1>4, <2>1, <2>2
  <2>3. CASE w # v
    BY <1>1, <1>2, <2>1, <2>3 DEF StackInv
  <2> QED BY <2>2, <2>3
<1>7. \A w \in View : ~drawn'[w] => at'[w] = "idle"
  BY <1>1, <1>2, <1>4 DEF StackInv
<1> QED BY <1>1, <1>5, <1>6, <1>7 DEF StackInv

\* The load that executes returns: the one below it, in its pump, goes on.
LEMMA LeaveStack ==
    ASSUME TypeOK, StackInv, NEW v \in View, Executing(v),
           Leave(v), UNCHANGED drawn
    PROVE  StackInv'
<1>1. /\ stack' = SubSeq(stack, 1, Len(stack) - 1) /\ drawn' = drawn
      /\ at' = [at EXCEPT ![v] = "done"]
      /\ stack # << >> /\ stack[Len(stack)] = v
  BY DEF Leave, Executing
<1>2. stack \in Seq(View) /\ at \in [View -> Place]
  BY DEF TypeOK
<1>3. Len(stack) \in DOMAIN stack /\ DOMAIN stack = 1..Len(stack) /\ Len(stack) \in Nat
  BY <1>1, <1>2
<1>4. /\ DOMAIN stack' = 1..(Len(stack) - 1)
      /\ Len(stack') = Len(stack) - 1
      /\ \A i \in DOMAIN stack' : stack'[i] = stack[i]
  BY <1>1, <1>2, <1>3
<1>5. ASSUME NEW i \in DOMAIN stack'
      PROVE  i \in DOMAIN stack /\ i < Len(stack) /\ stack[i] # v /\ stack[i] \in View
  <2>1. i \in DOMAIN stack /\ i < Len(stack)
    BY <1>3, <1>4
  <2>2. stack[i] # v
    BY <1>1, <1>3, <2>1 DEF StackInv
  <2> QED BY <1>2, <2>1, <2>2
<1>6. \A i, j \in DOMAIN stack' : stack'[i] = stack'[j] => i = j
  BY <1>4, <1>5 DEF StackInv
<1>7. ASSUME NEW i \in DOMAIN stack' PROVE at'[stack'[i]] \in Pump
  BY <1>1, <1>2, <1>4, <1>5 DEF StackInv
<1>8. ASSUME NEW w \in View PROVE OnStack(w)' <=> OnStack(w) /\ w # v
  <2>1. OnStack(w)' => OnStack(w) /\ w # v
    BY <1>4, <1>5 DEF OnStack
  <2>2. ASSUME OnStack(w), w # v PROVE OnStack(w)'
    <3>1. PICK i \in DOMAIN stack : stack[i] = w
      BY <2>2 DEF OnStack
    <3>2. i # Len(stack)
      BY <1>1, <2>2, <3>1
    <3>3. i \in DOMAIN stack'
      BY <1>3, <1>4, <3>1, <3>2
    <3> QED BY <1>4, <3>1, <3>3 DEF OnStack
  <2> QED BY <2>1, <2>2
<1>9. OnStack(v)
  BY <1>1, <1>3 DEF OnStack
<1>10. \A w \in View : at'[w] \notin {"idle", "done"} <=> OnStack(w)'
  <2> SUFFICES ASSUME NEW w \in View
               PROVE  at'[w] \notin {"idle", "done"} <=> OnStack(w)'
    OBVIOUS
  <2>1. CASE w = v
    BY <1>1, <1>2, <1>8, <2>1
  <2>2. CASE w # v
    BY <1>1, <1>2, <1>8, <2>2 DEF StackInv
  <2> QED BY <2>1, <2>2
<1>11. \A w \in View : ~drawn'[w] => at'[w] = "idle"
  BY <1>1, <1>2, <1>9 DEF StackInv
<1> QED BY <1>6, <1>7, <1>10, <1>11 DEF StackInv

\* The user, diff, and the steps of a load within one place leave the stack.
LEMMA SameStack ==
    ASSUME StackInv, UNCHANGED <<stack, at, drawn>>
    PROVE  StackInv'
BY DEF StackInv, OnStack

\* Every step keeps the shape of the stack.
LEMMA StackStep ==
    ASSUME TypeOK, StackInv, [Next]_vars
    PROVE  StackInv'
<1>1. ASSUME NEW v \in View, Draw(v) PROVE StackInv'
  BY <1>1, PushStack DEF Draw, DrawCompare, DrawTree
<1>2. ASSUME NEW v \in View, Load(v) PROVE StackInv'
  <2>1. CASE PumpEnds(v)
    <3>1. Executing(v) /\ UNCHANGED drawn
      BY <2>1 DEF PumpEnds
    <3>2. Goto(v, "spawn") \/ Goto(v, "clear") \/ Leave(v)
      BY <2>1 DEF PumpEnds
    <3> QED BY <3>1, <3>2, GotoStack, LeaveStack
  <2>2. CASE Returns(v)
    <3>1. Executing(v) /\ UNCHANGED drawn /\ (Goto(v, "read") \/ Goto(v, "pump2"))
      BY <2>2 DEF Returns
    <3> QED BY <3>1, GotoStack
  <2>3. CASE ReturnsNull(v)
    <3>1. Executing(v) /\ UNCHANGED drawn /\ (Leave(v) \/ Goto(v, "pump2"))
      BY <2>3 DEF ReturnsNull
    <3> QED BY <3>1, GotoStack, LeaveStack
  <2>4. CASE Clear(v) \/ CompareCloses(v)
    <3>1. Executing(v) /\ UNCHANGED drawn /\ (Goto(v, "read") \/ Goto(v, "pump3"))
      BY <2>4 DEF Clear, CompareCloses
    <3> QED BY <3>1, GotoStack
  <2>5. CASE TreeCloses(v)
    BY <2>5, LeaveStack DEF TreeCloses
  <2>6. CASE Forks(v) \/ CompareReads(v) \/ CompareCrashes(v) \/ TreeReads(v)
             \/ TreeCrashes(v)
    BY <2>6, SameStack DEF Forks, CompareReads, CompareCrashes, TreeReads,
                           TreeCrashes, viewVars
  <2> QED BY <1>2, <2>1, <2>2, <2>3, <2>4, <2>5, <2>6 DEF Load
<1>3. ASSUME NEW v \in View, User(v) \/ DiffProcess(v) PROVE StackInv'
  BY <1>3, SameStack DEF User, Open, Select, CloseDisplay, DiffProcess, viewVars
<1>4. CASE ExitMenu \/ CloseWindow \/ MainReturns \/ UNCHANGED vars
  BY <1>4, SameStack DEF ExitMenu, CloseWindow, MainReturns, vars, viewVars
<1> QED BY <1>1, <1>2, <1>3, <1>4 DEF Next

\* Init establishes the inductive invariant.
LEMMA IInvInit == SpawnAssumption /\ ViewsAssumption /\ Init => StackInv /\ LoadInv /\ FreedInv
<1> SUFFICES ASSUME SpawnAssumption, ViewsAssumption, Init
             PROVE  StackInv /\ LoadInv /\ FreedInv
  OBVIOUS
<1>1. DOMAIN stack = {}
  BY DEF Init
<1> QED BY <1>1 DEF Init, SpawnInit, View, StackInv, OnStack, LoadInv, LoadOk, Pump, FreedInv

-----------------------------------------------------------------------------
\* Every step keeps the streams, the descriptors and the frozen lists in
\* line with the places of the loads.
LEMMA LoadStep ==
    ASSUME SpawnAssumption, TypeOK, StackInv, LoadInv, [Next]_vars
    PROVE  LoadInv'
<1> SUFFICES ASSUME NEW w \in View PROVE LoadOk(w)'
  BY DEF LoadInv
<1>1. LoadOk(w)
  BY DEF LoadInv
<1>2. /\ at \in [View -> Place] /\ frozen \in [View -> BOOLEAN]
      /\ stream \in [View -> StreamState] /\ rend \in [View -> SUBSET Proc]
      /\ Gdiff \notin View
  BY DEF TypeOK, SpawnTypeOK, View, SpawnAssumption
<1>3. ASSUME NEW v \in View, Draw(v) PROVE LoadOk(w)'
  <2>1. at[v] = "idle"
    BY <1>3 DEF Draw, DrawCompare, DrawTree, FirstDraw, StackInv
  <2>2. /\ UNCHANGED <<stream, rend, frozen>>
        /\ \/ at' = [at EXCEPT ![v] = "pump1"] /\ v \notin Tree
           \/ at' = [at EXCEPT ![v] = "spawn"]
    BY <1>3 DEF Draw, DrawCompare, DrawTree, FirstDraw, spawnVars, Compare
  <2> QED BY <1>1, <1>2, <2>1, <2>2 DEF LoadOk, Pump
<1>4. ASSUME NEW v \in View, Load(v) PROVE LoadOk(w)'
  <2>1. CASE PumpEnds(v)
    BY <1>1, <1>2, <2>1 DEF LoadOk, Pump, PumpEnds, Goto, Leave, spawnVars
  <2>2. CASE Forks(v)
    BY <1>1, <1>2, <2>2 DEF LoadOk, Forks, Fork, Inherit, View, viewVars
  <2>3. CASE Returns(v)
    BY <1>1, <1>2, <2>3 DEF LoadOk, Pump, Returns, Return, Goto
  <2>4. CASE ReturnsNull(v)
    BY <1>1, <1>2, <2>4 DEF LoadOk, Pump, ReturnsNull, PipeFails, ForkFails, Goto, Leave
  <2>5. CASE Clear(v)
    BY <1>1, <1>2, <2>5 DEF LoadOk, Pump, Clear, Goto, spawnVars
  <2>6. CASE CompareReads(v) \/ TreeReads(v)
    BY <1>1, <2>6 DEF LoadOk, CompareReads, TreeReads, Read, viewVars
  <2>7. CASE CompareCrashes(v) \/ TreeCrashes(v)
    BY <1>1, <1>2, <2>7 DEF LoadOk, CompareCrashes, TreeCrashes, Exit, Without, View, viewVars
  <2>8. CASE CompareCloses(v)
    BY <1>1, <1>2, <2>8 DEF LoadOk, Compare, CompareCloses, Eof, Fclose, Goto
  <2>9. CASE TreeCloses(v)
    BY <1>1, <1>2, <2>9 DEF LoadOk, Pump, TreeCloses, Eof, Fclose, Leave
  <2> QED BY <1>4, <2>1, <2>2, <2>3, <2>4, <2>5, <2>6, <2>7, <2>8, <2>9 DEF Load
<1>5. ASSUME NEW v \in View, User(v) PROVE LoadOk(w)'
  BY <1>1, <1>5 DEF LoadOk, User, Open, Select, CloseDisplay, spawnVars
<1>6. ASSUME NEW v \in View, DiffProcess(v) PROVE LoadOk(w)'
  <2>1. UNCHANGED <<stream, at, frozen>>
    BY <1>6 DEF DiffProcess, viewVars, Child, Exec, ExecFails, Write, Finish, Die,
                BecomeZombie, LeaveFiles
  <2>2. rend'[w] \subseteq rend[w]
    BY <1>2, <1>6 DEF DiffProcess, Child, Exec, ExecFails, Write, Finish, Die,
                      BecomeZombie, LeaveFiles, Without, View
  <2> QED BY <1>1, <2>1, <2>2 DEF LoadOk
<1>7. CASE ExitMenu \/ CloseWindow
  BY <1>1, <1>7 DEF LoadOk, ExitMenu, CloseWindow, spawnVars
<1>8. CASE MainReturns
  BY <1>1, <1>2, <1>8 DEF LoadOk, MainReturns, Exit, Without, View
<1>9. CASE UNCHANGED vars
  BY <1>1, <1>9 DEF LoadOk, vars, viewVars, spawnVars
<1> QED BY <1>3, <1>4, <1>5, <1>6, <1>7, <1>8, <1>9 DEF Next

-----------------------------------------------------------------------------
\* Every step keeps the inductive invariant.
LEMMA IInvStep ==
    ASSUME SpawnAssumption, ViewsAssumption, IInv, [Next]_vars
    PROVE  IInv'
<1>1. SpawnInv'
  BY SpawnStep, SpawnInvStep DEF IInv
<1>2. TypeOK' /\ StackInv' /\ LoadInv'
  BY TypeStep, StackStep, LoadStep DEF IInv
<1>3. FreedInv'
  <2> USE DEF IInv, FreedInv
  <2>1. CASE MainReturns
    BY <2>1 DEF MainReturns, Exit
  <2>2. CASE ExitMenu \/ CloseWindow
    BY <2>2 DEF ExitMenu, CloseWindow, spawnVars
  <2>3. ASSUME NEW v \in View, Draw(v) \/ User(v) PROVE FreedInv'
    BY <2>3 DEF Draw, DrawCompare, DrawTree, FirstDraw, User, Open, Select,
                CloseDisplay, Dispatching, spawnVars
  <2>4. ASSUME NEW v \in View, Load(v) PROVE FreedInv'
    <3>1. up /\ UNCHANGED freed
      BY <2>4 DEF Load, PumpEnds, Forks, Returns, ReturnsNull, Clear, CompareReads,
                  CompareCrashes, CompareCloses, TreeReads, TreeCloses, TreeCrashes,
                  Executing, viewVars
    <3> QED BY <3>1
  <2>5. ASSUME NEW v \in View, DiffProcess(v) PROVE FreedInv'
    BY <2>5 DEF DiffProcess, Child, Exec, ExecFails, Write, Finish, Die,
                BecomeZombie, LeaveFiles, viewVars
  <2>6. CASE UNCHANGED vars
    BY <2>6 DEF vars, viewVars, spawnVars
  <2> QED BY <2>1, <2>2, <2>3, <2>4, <2>5, <2>6 DEF Next
<1> QED BY <1>1, <1>2, <1>3 DEF IInv

LEMMA IInvHolds == SpawnAssumption /\ ViewsAssumption /\ Safe => []IInv
<1> SUFFICES ASSUME SpawnAssumption, ViewsAssumption PROVE Safe => []IInv
  OBVIOUS
<1>1. Init => StackInv /\ LoadInv /\ FreedInv
  BY IInvInit
<1>2. IInv /\ [Next]_vars => IInv'
  BY IInvStep
<1>3. Safe => []SpawnInv /\ []TypeOK
  BY SpawnInvHolds, ViewsImplementSpawn, TypeCorrect
<1>4. Init /\ SpawnInv /\ TypeOK => IInv
  BY <1>1 DEF IInv
<1> QED BY <1>2, <1>3, <1>4, PTL DEF Safe

-----------------------------------------------------------------------------
\* In every session, however many views are opened and drawn from inside the
\* pumps of others, no view is loaded twice at once.
THEOREM NoReentry == SpawnAssumption /\ ViewsAssumption /\ Safe => []SingleLoad
<1>1. IInv => SingleLoad
  BY DEF IInv, StackInv, SingleLoad
<1> QED BY <1>1, IInvHolds, PTL

\* No event is dispatched while any list is frozen.
THEOREM HalfListsStayHidden ==
    SpawnAssumption /\ ViewsAssumption /\ Safe => []HalfListHidden
<1>1. IInv => HalfListHidden
  <2> SUFFICES ASSUME IInv, NEW v \in View, frozen[v], up
               PROVE  Executing(v) /\ at[v] = "read"
    BY DEF HalfListHidden
  <2>1. at[v] = "read" /\ OnStack(v)
    BY DEF IInv, LoadInv, LoadOk, StackInv
  <2>2. PICK i \in DOMAIN stack : stack[i] = v
    BY <2>1 DEF OnStack
  <2>3. stack \in Seq(View) /\ DOMAIN stack = 1..Len(stack)
    BY DEF IInv, TypeOK
  <2>4. ~(i < Len(stack))
    BY <2>1, <2>2 DEF IInv, StackInv, Pump
  <2>5. i = Len(stack) /\ stack # << >>
    BY <2>2, <2>3, <2>4
  <2> QED BY <2>1, <2>2, <2>5 DEF Executing
<1> QED BY <1>1, IInvHolds, PTL

\* No load reads DiffOptions that were freed.
THEOREM OptionsOutliveLoads ==
    SpawnAssumption /\ ViewsAssumption /\ Safe => []NoUseAfterFree
<1>1. IInv => NoUseAfterFree
  BY DEF IInv, FreedInv, NoUseAfterFree
<1> QED BY <1>1, IInvHolds, PTL

\* Whenever no load is in progress, the only pipes that gdiff still holds are
\* those whose fork failed.
THEOREM PipesAreClosed ==
    SpawnAssumption /\ ViewsAssumption /\ Safe => []NoPipeAtRest
<1>1. IInv => NoPipeAtRest
  <2> SUFFICES ASSUME IInv, stack = << >>, NEW r \in View,
                      Gdiff \in wend[r] \cup rend[r]
               PROVE  stream[r] = "failed"
    BY DEF NoPipeAtRest, View
  <2>1. at[r] \in {"idle", "done"}
    BY DEF IInv, StackInv, OnStack
  <2>2. stream[r] \notin {"forked", "open"}
    BY <2>1 DEF IInv, LoadInv, LoadOk
  <2>3. stream[r] \in StreamState /\ Gdiff # r
    BY SpawnAssumption DEF IInv, TypeOK, SpawnTypeOK, View, SpawnAssumption
  <2>4. stream[r] \notin {"none", "closed"}
    BY <2>3 DEF IInv, SpawnInv, WriteEnds, LoadInv, LoadOk, View
  <2> QED BY <2>2, <2>3, <2>4 DEF StreamState
<1> QED BY <1>1, IInvHolds, PTL

-----------------------------------------------------------------------------
(* A compare view implements module Display. *)

\* The list of a compare view, by the place of its load.
ListOk(v) ==
    /\ at[v] \in {"idle", "pump1", "spawn", "pump2", "clear"} =>
           rows[v] = <<Wait>> /\ ~frozen[v] /\ got[v] = 0
    /\ at[v] = "read" =>
           frozen[v] /\ Display!IsComparison(rows[v], v, got[v])

ListInv == \A v \in Compare : ListOk(v)

\* A line that is read comes after those that were, and is appended when it
\* is one of the comparison.
LEMMA AppendLine ==
    ASSUME NEW s \in Seq(Nat \cup {Wait}), NEW v \in Compare, NEW n \in Nat,
           Tagged[v] \subseteq Nat, Display!IsComparison(s, v, n)
    PROVE  /\ n + 1 \in Tagged[v] => Display!IsComparison(Append(s, n + 1), v, n + 1)
           /\ n + 1 \notin Tagged[v] => Display!IsComparison(s, v, n + 1)
<1> DEFINE t == Append(s, n + 1)
<1>1. /\ DOMAIN s = 1..Len(s) /\ Len(s) \in Nat
      /\ DOMAIN t = 1..(Len(s) + 1)
      /\ t[Len(s) + 1] = n + 1
      /\ \A i \in DOMAIN s : t[i] = s[i]
  OBVIOUS
<1>2. 1..(n + 1) = 1..n \cup {n + 1}
  OBVIOUS
<1>3. /\ {s[i] : i \in DOMAIN s} = Tagged[v] \cap 1..n
      /\ \A i, j \in DOMAIN s : i < j => s[i] < s[j]
  BY DEF Display!IsComparison
<1>4. n + 1 \notin Tagged[v] => Display!IsComparison(s, v, n + 1)
  BY <1>2, <1>3 DEF Display!IsComparison
<1>5. ASSUME n + 1 \in Tagged[v] PROVE Display!IsComparison(t, v, n + 1)
  <2>1. {t[i] : i \in DOMAIN t} = {s[i] : i \in DOMAIN s} \cup {n + 1}
    <3>1. DOMAIN t = DOMAIN s \cup {Len(s) + 1}
      BY <1>1
    <3> HIDE DEF t
    <3> QED BY <1>1, <3>1
  <2>2. {t[i] : i \in DOMAIN t} = Tagged[v] \cap 1..(n + 1)
    BY <1>2, <1>3, <1>5, <2>1
  <2>3. \A i \in DOMAIN s : s[i] \in 1..n
    BY <1>3
  <2>4. ASSUME NEW i \in DOMAIN t, NEW j \in DOMAIN t, i < j PROVE t[i] < t[j]
    <3>1. i \in DOMAIN s
      BY <1>1, <2>4
    <3>2. CASE j \in DOMAIN s
      BY <1>1, <1>3, <2>4, <3>1, <3>2
    <3>3. CASE j = Len(s) + 1
      BY <1>1, <2>3, <3>1, <3>3
    <3> QED BY <1>1, <3>2, <3>3
  <2> QED BY <2>2, <2>4 DEF Display!IsComparison
<1> QED BY <1>4, <1>5

\* Every step keeps the lists in line with the places of the loads.
LEMMA ListStep ==
    ASSUME ViewsAssumption, IInv, ListInv, [Next]_vars
    PROVE  ListInv'
<1> SUFFICES ASSUME NEW w \in Compare PROVE ListOk(w)'
  BY DEF ListInv, Compare
<1>1. ListOk(w) /\ w \in View
  BY DEF ListInv, Compare
<1>2. /\ at \in [View -> Place] /\ frozen \in [View -> BOOLEAN]
      /\ rows \in [View -> Seq(Nat \cup {Wait})] /\ got \in [View -> Nat]
  BY DEF IInv, TypeOK, SpawnTypeOK, View
<1>3. ASSUME NEW v \in View, Draw(v) PROVE ListOk(w)'
  <2>1. at[v] = "idle"
    BY <1>3 DEF Draw, DrawCompare, DrawTree, FirstDraw, IInv, StackInv
  <2>2. /\ UNCHANGED <<rows, frozen, got>>
        /\ \/ at' = [at EXCEPT ![v] = "pump1"]
           \/ at' = [at EXCEPT ![v] = "spawn"]
    BY <1>3 DEF Draw, DrawCompare, DrawTree, FirstDraw, spawnVars
  <2> QED BY <1>1, <1>2, <2>1, <2>2 DEF ListOk
<1>4. ASSUME NEW v \in View, Load(v) PROVE ListOk(w)'
  <2>1. CASE PumpEnds(v)
    BY <1>1, <1>2, <2>1 DEF ListOk, PumpEnds, Goto, Leave, spawnVars
  <2>2. CASE Forks(v)
    BY <1>1, <2>2 DEF ListOk, Forks, Fork, viewVars
  <2>3. CASE Returns(v)
    <3>1. UNCHANGED <<rows, frozen, got>>
      BY <2>3 DEF Returns, Return
    <3>2. w # v => at'[w] = at[w]
      BY <1>1, <1>2, <2>3 DEF Returns, Goto
    <3>3. w = v => at[w] = "spawn" /\ at'[w] = "pump2"
      BY <1>1, <1>2, <2>3 DEF Returns, Goto, Compare
    <3> QED BY <1>1, <3>1, <3>2, <3>3 DEF ListOk
  <2>4. CASE ReturnsNull(v)
    <3>1. UNCHANGED <<rows, frozen, got>>
      BY <2>4 DEF ReturnsNull, PipeFails, ForkFails
    <3>2. w # v => at'[w] = at[w]
      BY <1>1, <1>2, <2>4 DEF ReturnsNull, Goto, Leave
    <3>3. w = v => at[w] = "spawn" /\ at'[w] = "pump2"
      BY <1>1, <1>2, <2>4 DEF ReturnsNull, Goto, Compare
    <3> QED BY <1>1, <3>1, <3>2, <3>3 DEF ListOk
  <2>5. CASE Clear(v)
    <3>1. /\ rows' = [rows EXCEPT ![v] = << >>] /\ frozen' = [frozen EXCEPT ![v] = TRUE]
          /\ at' = [at EXCEPT ![v] = "read"] /\ at[v] = "clear" /\ got' = got
      BY <2>5 DEF Clear, Goto, spawnVars
    <3>2. CASE w # v
      BY <1>1, <1>2, <3>1, <3>2 DEF ListOk
    <3>3. CASE w = v
      <4>1. Display!IsComparison(<< >>, w, 0)
        BY DEF Display!IsComparison
      <4>2. got'[w] = 0 /\ rows'[w] = << >> /\ frozen'[w] /\ at'[w] = "read"
        BY <1>1, <1>2, <3>1, <3>3 DEF ListOk
      <4> QED BY <4>1, <4>2 DEF ListOk
    <3> QED BY <3>2, <3>3
  <2>6. CASE CompareReads(v)
    <3>1. /\ at' = at /\ frozen' = frozen /\ at[v] = "read"
          /\ got' = [got EXCEPT ![v] = @ + 1]
          /\ rows' = IF got'[v] \in Tagged[v]
                     THEN [rows EXCEPT ![v] = Append(@, got'[v])] ELSE rows
      BY <2>6 DEF CompareReads, Read
    <3>2. CASE w # v
      BY <1>1, <1>2, <3>1, <3>2 DEF ListOk
    <3>3. CASE w = v
      <4>1. Tagged[w] \subseteq Nat
        BY <1>1, ViewsAssumption DEF ViewsAssumption
      <4>2. frozen[w] /\ Display!IsComparison(rows[w], w, got[w])
        BY <1>1, <3>1, <3>3 DEF ListOk
      <4>3. /\ got[w] \in Nat /\ rows[w] \in Seq(Nat \cup {Wait})
            /\ got'[w] = got[w] + 1
        BY <1>1, <1>2, <3>1, <3>3
      <4>4. rows'[w] = IF got[w] + 1 \in Tagged[w]
                       THEN Append(rows[w], got[w] + 1) ELSE rows[w]
        BY <1>1, <1>2, <3>1, <3>3, <4>3
      <4>5. Display!IsComparison(rows'[w], w, got'[w])
        <5>1. /\ got[w] + 1 \in Tagged[w] =>
                     Display!IsComparison(Append(rows[w], got[w] + 1), w, got[w] + 1)
              /\ got[w] + 1 \notin Tagged[w] =>
                     Display!IsComparison(rows[w], w, got[w] + 1)
          BY <4>1, <4>2, <4>3, AppendLine
        <5>2. CASE got[w] + 1 \in Tagged[w]
          BY <4>3, <4>4, <5>1, <5>2
        <5>3. CASE got[w] + 1 \notin Tagged[w]
          BY <4>3, <4>4, <5>1, <5>3
        <5> QED BY <5>2, <5>3
      <4> QED BY <3>1, <3>3, <4>2, <4>5 DEF ListOk
    <3> QED BY <3>2, <3>3
  <2>7. CASE CompareCrashes(v) \/ TreeCrashes(v)
    BY <1>1, <2>7 DEF ListOk, CompareCrashes, TreeCrashes, Exit, viewVars
  <2>8. CASE CompareCloses(v)
    BY <1>1, <1>2, <2>8 DEF ListOk, CompareCloses, Eof, Fclose, Goto
  <2>9. CASE TreeReads(v)
    <3>1. w # v /\ got'[w] = got[w] /\ UNCHANGED viewVars
      BY <1>1, <1>2, <2>9 DEF TreeReads, Read, Compare
    <3> QED BY <1>1, <3>1 DEF ListOk, viewVars
  <2>10. CASE TreeCloses(v)
    <3>1. w # v /\ got' = got /\ frozen' = frozen /\ at'[w] = at[w] /\ rows'[w] = rows[w]
      BY <1>1, <1>2, <2>10 DEF TreeCloses, Eof, Fclose, Leave, Compare
    <3> QED BY <1>1, <3>1 DEF ListOk
  <2> QED BY <1>4, <2>1, <2>2, <2>3, <2>4, <2>5, <2>6, <2>7, <2>8, <2>9, <2>10 DEF Load
<1>5. ASSUME NEW v \in View, User(v) PROVE ListOk(w)'
  BY <1>1, <1>5 DEF ListOk, User, Open, Select, CloseDisplay, spawnVars
<1>6. ASSUME NEW v \in View, DiffProcess(v) PROVE ListOk(w)'
  BY <1>1, <1>6 DEF ListOk, DiffProcess, viewVars, Child, Exec, ExecFails, Write,
                    Finish, Die, BecomeZombie, LeaveFiles
<1>7. CASE ExitMenu \/ CloseWindow \/ MainReturns \/ UNCHANGED vars
  BY <1>1, <1>7 DEF ListOk, ExitMenu, CloseWindow, MainReturns, Exit, vars,
                    viewVars, spawnVars
<1> QED BY <1>3, <1>4, <1>5, <1>6, <1>7 DEF Next

Ended == {v \in Compare : child[v] \in {"exiting", "zombie", "reaped"}}

ShownC   == [v \in Compare |-> Shown[v]]
WrittenC == [v \in Compare |-> sent[v]]

\* A step that leaves lists, places, output and children alone changes
\* nothing a user of module Display sees.
LEMMA DisplaySame ==
    ASSUME UNCHANGED <<rows, frozen, sent, child>>
    PROVE  UNCHANGED <<ShownC, WrittenC, Ended>>
BY DEF ShownC, WrittenC, Ended, Shown

\* A step of a diff is a step of module Display, or none.
LEMMA DisplayChild ==
    ASSUME IInv, NEW r \in View, DiffProcess(r)
    PROVE  [Display!Next]_<<ShownC, WrittenC, Ended>>
<1>1. UNCHANGED ShownC
  BY DEF DiffProcess, viewVars, ShownC, Shown
<1>2. child \in [View -> ChildState] /\ sent \in [View -> Nat]
  BY DEF IInv, TypeOK, SpawnTypeOK, View
<1>3. CASE Exec(r) \/ BecomeZombie(r)
  <2>1. UNCHANGED WrittenC
    BY <1>3 DEF Exec, BecomeZombie, WrittenC
  <2>2. UNCHANGED Ended
    BY <1>2, <1>3 DEF Exec, BecomeZombie, Ended, Compare
  <2> QED BY <1>1, <2>1, <2>2
<1>4. CASE Write(r)
  <2>1. UNCHANGED Ended
    BY <1>4 DEF Write, Ended
  <2>2. CASE r \in Tree
    <3>1. UNCHANGED WrittenC
      BY <1>2, <1>4, <2>2 DEF Write, WrittenC, Compare
    <3> QED BY <1>1, <2>1, <3>1
  <2>3. CASE r \in Compare
    <3>1. WrittenC' = [WrittenC EXCEPT ![r] = @ + 1]
      BY <1>2, <1>4, <2>3 DEF Write, WrittenC, Compare
    <3>2. r \notin Ended
      BY <1>4 DEF Write, Ended
    <3> QED BY <1>1, <2>1, <2>3, <3>1, <3>2
            DEF Display!Next, Display!Write, ShownC, WrittenC, Ended
  <2> QED BY <2>2, <2>3 DEF Compare
<1>5. CASE ExecFails(r) \/ Finish(r) \/ Die(r)
  <2>1. UNCHANGED WrittenC /\ child' = [child EXCEPT ![r] = "exiting"]
    BY <1>5 DEF ExecFails, Finish, Die, LeaveFiles, WrittenC
  <2>2. r \notin Ended
    BY <1>5 DEF ExecFails, Finish, Die, Ended
  <2>3. CASE r \in Tree
    <3>1. UNCHANGED Ended
      BY <1>2, <2>1, <2>3 DEF Ended, Compare
    <3> QED BY <1>1, <2>1, <3>1
  <2>4. CASE r \in Compare
    <3>1. Ended' = Ended \cup {r}
      BY <1>2, <2>1, <2>4 DEF Ended, Compare
    <3> QED BY <1>1, <2>1, <2>2, <2>4, <3>1
            DEF Display!Next, Display!End, ShownC, WrittenC, Ended
  <2> QED BY <2>3, <2>4 DEF Compare
<1> QED BY <1>3, <1>4, <1>5 DEF DiffProcess, Child

\* The end of a load presents the whole comparison; the rest of a load, with
\* its list frozen, and all else that gdiff does, shows nothing new.
LEMMA DisplayLoad ==
    ASSUME SpawnAssumption, IInv, ListInv, NEW v \in View, Load(v)
    PROVE  [Display!Next]_<<ShownC, WrittenC, Ended>>
<1>1. /\ child \in [View -> ChildState] /\ frozen \in [View -> BOOLEAN]
      /\ rows \in [View -> Seq(Nat \cup {Wait})] /\ sent \in [View -> Nat]
  BY DEF IInv, TypeOK, SpawnTypeOK, View
<1>2. CASE PumpEnds(v) \/ CompareCrashes(v) \/ TreeReads(v) \/ TreeCrashes(v)
  BY <1>2, DisplaySame DEF PumpEnds, CompareCrashes, TreeReads, TreeCrashes, Exit,
                           Read, spawnVars, viewVars
<1>3. CASE ReturnsNull(v)
  BY <1>3, DisplaySame DEF ReturnsNull, PipeFails, ForkFails
<1>4. CASE Forks(v)
  <2>1. UNCHANGED <<ShownC, WrittenC>>
    BY <1>4 DEF Forks, Fork, viewVars, ShownC, Shown, WrittenC
  <2>2. child' = [child EXCEPT ![v] = "forked"] /\ stream[v] = "none"
    BY <1>4 DEF Forks, Fork, CanCall
  <2>3. v \notin Ended
    BY <2>2 DEF IInv, SpawnInv, OwnEnd, Ended, View
  <2>4. UNCHANGED Ended
    BY <1>1, <2>2, <2>3 DEF Ended, Compare
  <2> QED BY <2>1, <2>4
<1>5. CASE Returns(v)
  <2>1. UNCHANGED <<ShownC, WrittenC>>
    BY <1>5 DEF Returns, Return, ShownC, Shown, WrittenC
  <2>2. \/ child' = child
        \/ \E z \in Run : child[z] = "zombie" /\ child' = [child EXCEPT ![z] = "reaped"]
    BY <1>5 DEF Returns, Return, Waitpid, Zombies
  <2>3. UNCHANGED Ended
    BY <1>1, <2>2 DEF Ended, Compare
  <2> QED BY <2>1, <2>3
<1>6. CASE Clear(v)
  <2>1. /\ rows' = [rows EXCEPT ![v] = << >>] /\ frozen' = [frozen EXCEPT ![v] = TRUE]
        /\ at[v] = "clear" /\ UNCHANGED <<sent, child>>
    BY <1>6 DEF Clear, spawnVars
  <2>2. v \in Compare
    BY <2>1 DEF IInv, LoadInv, LoadOk, Compare
  <2>3. rows[v] = <<Wait>>
    BY <2>1, <2>2 DEF ListInv, ListOk
  <2>4. UNCHANGED ShownC
    BY <1>1, <2>1, <2>3 DEF ShownC, Shown, NewList, Compare
  <2> QED BY <2>1, <2>4 DEF WrittenC, Ended
<1>7. CASE CompareReads(v)
  <2>1. /\ v \in Compare /\ at[v] = "read"
        /\ UNCHANGED <<frozen, sent, child>>
        /\ \A w \in View : w # v => rows'[w] = rows[w]
    BY <1>1, <1>7 DEF CompareReads, Read
  <2>2. frozen[v]
    BY <2>1 DEF ListInv, ListOk
  <2>3. UNCHANGED ShownC
    BY <1>1, <2>1, <2>2 DEF ShownC, Shown, Compare
  <2> QED BY <2>1, <2>3 DEF WrittenC, Ended
<1>8. CASE CompareCloses(v)
  <2>1. /\ v \in Compare /\ at[v] = "read" /\ AtEof(v)
        /\ frozen' = [frozen EXCEPT ![v] = FALSE]
        /\ UNCHANGED <<rows, sent, child>>
    BY <1>8 DEF CompareCloses, Eof, Fclose
  <2>2. v \in Ended
    <3>1. wend[v] = {} /\ stream[v] = "open"
      BY <2>1 DEF AtEof
    <3>2. child[v] \notin {"none", "forked", "running"} /\ child[v] \in ChildState
      BY <1>1, <3>1 DEF IInv, SpawnInv, OwnEnd, View
    <3> QED BY <2>1, <3>2 DEF Ended, ChildState
  <2>3. frozen[v] /\ Display!IsComparison(rows[v], v, got[v]) /\ got[v] = sent[v]
    BY <2>1 DEF ListInv, ListOk, AtEof
  <2>4. ShownC[v] = <<Wait>> /\ WrittenC[v] = sent[v]
    BY <1>1, <2>1, <2>3 DEF ShownC, WrittenC, Shown, NewList, Compare
  <2>5. ShownC' = [ShownC EXCEPT ![v] = rows[v]]
    BY <1>1, <2>1 DEF ShownC, Shown, Compare
  <2>6. ShownC'[v] = rows[v]
    BY <2>1, <2>5 DEF ShownC
  <2>7. Display!Present(v)
    BY <2>1, <2>2, <2>3, <2>4, <2>5, <2>6
       DEF Display!Present, ShownC, WrittenC, Ended
  <2> QED BY <2>1, <2>7 DEF Display!Next
<1>9. CASE TreeCloses(v)
  <2>1. /\ v \notin Compare /\ UNCHANGED <<frozen, sent, child>>
        /\ \A w \in View : w # v => rows'[w] = rows[w]
    BY <1>1, <1>9 DEF TreeCloses, Eof, Fclose, Compare
  <2>2. UNCHANGED ShownC
    BY <1>1, <2>1 DEF ShownC, Shown, Compare
  <2> QED BY <2>1, <2>2 DEF WrittenC, Ended
<1> QED BY <1>2, <1>3, <1>4, <1>5, <1>6, <1>7, <1>8, <1>9 DEF Load

\* Whatever is opened, closed or drawn meanwhile, and whatever fails, a
\* compare view goes in one step from the row that asks to wait to every
\* line of the comparison its diff wrote, in their order, once diff has
\* ended; no state between the two is ever shown.
THEOREM ViewsImplementDisplay ==
    SpawnAssumption /\ ViewsAssumption /\ Safe => ShowsWholeDiffs
<1> SUFFICES ASSUME SpawnAssumption, ViewsAssumption PROVE Safe => Display!Spec
  BY DEF ShowsWholeDiffs
<1>1. Init => ListInv
  <2> SUFFICES ASSUME Init, NEW v \in Compare PROVE ListOk(v)
    BY DEF ListInv
  <2> QED BY DEF Init, SpawnInit, NewList, ListOk, Compare, View
<1>2. IInv /\ ListInv /\ [Next]_vars => ListInv'
  BY ListStep
<1>3. Init => Display!Init
  BY DEF Init, SpawnInit, Display!Init, Shown, NewList, Compare, View
<1>4. IInv /\ ListInv /\ [Next]_vars => [Display!Next]_<<ShownC, WrittenC, Ended>>
  <2> SUFFICES ASSUME IInv, ListInv, [Next]_vars
               PROVE  [Display!Next]_<<ShownC, WrittenC, Ended>>
    OBVIOUS
  <2>1. ASSUME NEW v \in View, Draw(v) \/ User(v)
        PROVE  UNCHANGED <<ShownC, WrittenC, Ended>>
    BY <2>1, DisplaySame DEF Draw, DrawCompare, DrawTree, FirstDraw, User, Open,
                             Select, CloseDisplay, spawnVars
  <2>2. CASE ExitMenu \/ CloseWindow \/ MainReturns \/ UNCHANGED vars
    BY <2>2, DisplaySame DEF ExitMenu, CloseWindow, MainReturns, Exit, vars,
                             spawnVars, viewVars
  <2> QED BY <2>1, <2>2, DisplayLoad, DisplayChild DEF Next
<1>5. IInv /\ ListInv /\ [Next]_vars
      => [Display!Next]_<<[v \in Compare |-> Shown[v]], [v \in Compare |-> sent[v]],
                          {v \in Compare : child[v] \in {"exiting", "zombie", "reaped"}}>>
  BY <1>4 DEF ShownC, WrittenC, Ended
<1>6. Safe => []IInv
  BY IInvHolds
<1> QED BY <1>1, <1>2, <1>3, <1>5, <1>6, PTL DEF Safe, Display!Spec
=============================================================================
