------------------------------- MODULE Spawn -------------------------------
(***************************************************************************)
(* run_diff (spawn.c): gdiff forks diff with a pipe on its stdout and      *)
(* stderr, and its callers read that pipe with fgets until end of file.    *)
(*                                                                         *)
(* gdiff is one thread, every diff a process of its own.  A pipe gives end *)
(* of file when no process holds its write end, and a forked process       *)
(* inherits every descriptor gdiff holds at that moment, those of the      *)
(* other runs too.  The model therefore keeps, for each pipe, the set of   *)
(* processes that hold each end.  The kernel's part (pipes, exec, exit,    *)
(* wait) and diff itself are external: they are modelled from how run_diff *)
(* and the read loops use them.                                            *)
(***************************************************************************)
EXTENDS Naturals, FiniteSets

CONSTANTS
    Run,      \* the runs of diff; a run also names its child process
    Gdiff,    \* the gdiff process
    Lines,    \* how many lines (fgets buffers) the diff of each run prints
    PipeCap   \* how many lines a pipe holds before its writer blocks

ASSUME SpawnAssumption ==
    /\ Gdiff \notin Run
    /\ IsFiniteSet(Run)
    /\ Lines \in [Run -> Nat]
    /\ PipeCap \in Nat \ {0}

VARIABLES
    up,       \* gdiff is running
    stream,   \* the FILE* of each run, as its caller sees it
    child,    \* the process of each run
    wend,     \* the processes that hold the write end of each run's pipe
    rend,     \* the processes that hold the read end of each run's pipe
    sent,     \* lines diff has written into the pipe
    got,      \* lines gdiff has read out of the pipe
    peak      \* history: most children alive at once when gdiff reaped

spawnVars == <<up, stream, child, wend, rend, sent, got, peak>>

Proc == Run \cup {Gdiff}

StreamState == {"none", "forked", "open", "closed", "failed"}
ChildState  == {"none", "forked", "running", "exiting", "zombie", "reaped"}

SpawnTypeOK ==
    /\ up \in BOOLEAN
    /\ stream \in [Run -> StreamState]
    /\ child \in [Run -> ChildState]
    /\ wend \in [Run -> SUBSET Proc]
    /\ rend \in [Run -> SUBSET Proc]
    /\ sent \in [Run -> Nat]
    /\ got \in [Run -> Nat]
    /\ \A r \in Run : got[r] <= sent[r]
    /\ peak \in Nat

SpawnInit ==
    /\ up = TRUE
    /\ stream = [r \in Run |-> "none"]
    /\ child = [r \in Run |-> "none"]
    /\ wend = [r \in Run |-> {}]
    /\ rend = [r \in Run |-> {}]
    /\ sent = [r \in Run |-> 0]
    /\ got = [r \in Run |-> 0]
    /\ peak = 0

-----------------------------------------------------------------------------
(* gdiff: run_diff and the reading of its result *)

\* run_diff calls nothing that dispatches events: no other step of gdiff
\* falls between the fork and the return of the parent branch.
CanCall(r) ==
    /\ up
    /\ stream[r] = "none"
    /\ \A q \in Run : stream[q] # "forked"

\* pipe() fails and run_diff returns NULL.
PipeFails(r) ==
    /\ CanCall(r)
    /\ stream' = [stream EXCEPT ![r] = "failed"]
    /\ UNCHANGED <<up, child, wend, rend, sent, got, peak>>

\* fork() fails and run_diff returns NULL, with both ends still open.
ForkFails(r) ==
    /\ CanCall(r)
    /\ stream' = [stream EXCEPT ![r] = "failed"]
    /\ wend' = [wend EXCEPT ![r] = {Gdiff}]
    /\ rend' = [rend EXCEPT ![r] = {Gdiff}]
    /\ UNCHANGED <<up, child, sent, got, peak>>

\* What gdiff holds, its new child c holds too.
Inherit(ends, c) ==
    [q \in Run |-> IF q = c THEN {Gdiff, c}
                   ELSE IF Gdiff \in ends[q] THEN ends[q] \cup {c} ELSE ends[q]]

Fork(r) ==
    /\ CanCall(r)
    /\ stream' = [stream EXCEPT ![r] = "forked"]
    /\ child' = [child EXCEPT ![r] = "forked"]
    /\ wend' = Inherit(wend, r)
    /\ rend' = Inherit(rend, r)
    /\ UNCHANGED <<up, sent, got, peak>>

Zombies  == {q \in Run : child[q] = "zombie"}
Alive    == {q \in Run : child[q] \in {"forked", "running", "exiting"}}
Unreaped == Alive \cup Zombies

\* The larger of two counts.
Larger(m, n) == IF m < n THEN n ELSE m

\* waitpid (-1, NULL, WNOHANG): takes one dead child, whichever it is.
Waitpid ==
    IF Zombies = {}
    THEN UNCHANGED child
    ELSE \E z \in Zombies : child' = [child EXCEPT ![z] = "reaped"]

\* Faulty: the parent forgets to close its copy of the write end.
ReturnKeepsWriteEnd(r) ==
    /\ up
    /\ stream[r] = "forked"
    /\ Waitpid
    /\ stream' = [stream EXCEPT ![r] = "open"]
    /\ peak' = Larger(peak, Cardinality(Alive))
    /\ UNCHANGED <<up, wend, rend, sent, got>>

\* Faulty: waitpid (childpid, NULL, WNOHANG), which leaves earlier children.
ReturnReapsOwn(r) ==
    /\ up
    /\ stream[r] = "forked"
    /\ wend' = [wend EXCEPT ![r] = @ \ {Gdiff}]
    /\ child' = [child EXCEPT ![r] = IF @ = "zombie" THEN "reaped" ELSE @]
    /\ stream' = [stream EXCEPT ![r] = "open"]
    /\ peak' = Larger(peak, Cardinality(Alive))
    /\ UNCHANGED <<up, rend, sent, got>>

\* Faulty: the waitpid that is commented out at spawn.c:83 waits for the
\* child before anything is read.
ReturnWaitsForChild(r) ==
    /\ up
    /\ stream[r] = "forked"
    /\ child[r] = "zombie"
    /\ wend' = [wend EXCEPT ![r] = @ \ {Gdiff}]
    /\ child' = [child EXCEPT ![r] = "reaped"]
    /\ stream' = [stream EXCEPT ![r] = "open"]
    /\ peak' = Larger(peak, Cardinality(Alive))
    /\ UNCHANGED <<up, rend, sent, got>>

\* The parent branch: close (fds[1]), waitpid, fdopen (fds[0]).
Return(r) ==
    /\ up
    /\ stream[r] = "forked"
    /\ wend' = [wend EXCEPT ![r] = @ \ {Gdiff}]
    /\ Waitpid
    /\ stream' = [stream EXCEPT ![r] = "open"]
    /\ peak' = Larger(peak, Cardinality(Alive))
    /\ UNCHANGED <<up, rend, sent, got>>

\* Nothing is left in the pipe and nobody can write to it any more.
AtEof(r) ==
    /\ stream[r] = "open"
    /\ got[r] = sent[r]
    /\ wend[r] = {}

\* Faulty: a loop that looks for the end only after it has used the buffer.
ReadPastEnd(r) ==
    /\ up
    /\ stream[r] = "open"
    /\ got[r] < sent[r] \/ AtEof(r)
    /\ got' = [got EXCEPT ![r] = @ + 1]
    /\ UNCHANGED <<up, stream, child, wend, rend, sent, peak>>

\* fgets returns the next line.
Read(r) ==
    /\ up
    /\ stream[r] = "open"
    /\ got[r] < sent[r]
    /\ got' = [got EXCEPT ![r] = @ + 1]
    /\ UNCHANGED <<up, stream, child, wend, rend, sent, peak>>

\* The caller closes the stream.
Fclose(r) ==
    /\ stream' = [stream EXCEPT ![r] = "closed"]
    /\ rend' = [rend EXCEPT ![r] = @ \ {Gdiff}]
    /\ UNCHANGED <<up, child, wend, sent, got, peak>>

\* Faulty: an empty pipe is taken for the end of the file.
EofWhenEmpty(r) ==
    /\ up
    /\ stream[r] = "open"
    /\ got[r] = sent[r]
    /\ Fclose(r)

\* fgets sees the end of the file, the caller closes the stream.
Eof(r) ==
    /\ up
    /\ AtEof(r)
    /\ Fclose(r)

\* Every descriptor of process p is closed when it ends.
Without(ends, p) == [q \in Run |-> ends[q] \ {p}]

\* gdiff ends: main returns, it crashes, or it is killed.
Exit ==
    /\ up
    /\ up' = FALSE
    /\ wend' = Without(wend, Gdiff)
    /\ rend' = Without(rend, Gdiff)
    /\ UNCHANGED <<stream, child, sent, got, peak>>

-----------------------------------------------------------------------------
(* The child: the rest of run_diff, then diff *)

\* execvp succeeds.  No descriptor is close-on-exec and the child closed
\* none, so diff keeps what it inherited, the read end of its own pipe too.
Exec(r) ==
    /\ child[r] = "forked"
    /\ child' = [child EXCEPT ![r] = "running"]
    /\ UNCHANGED <<up, stream, wend, rend, sent, got, peak>>

\* A process on its way out: its files are closed before it is a zombie.
LeaveFiles(r) ==
    /\ child' = [child EXCEPT ![r] = "exiting"]
    /\ wend' = Without(wend, r)
    /\ rend' = Without(rend, r)
    /\ UNCHANGED <<up, stream, sent, got, peak>>

\* execvp fails: exit (69), nothing written.
ExecFails(r) ==
    /\ child[r] = "forked"
    /\ LeaveFiles(r)

\* diff writes a line, if somebody can read it and the pipe has room.
Write(r) ==
    /\ child[r] = "running"
    /\ sent[r] < Lines[r]
    /\ rend[r] # {}
    /\ sent[r] - got[r] < PipeCap
    /\ sent' = [sent EXCEPT ![r] = @ + 1]
    /\ UNCHANGED <<up, stream, child, wend, rend, got, peak>>

\* diff has printed everything.
Finish(r) ==
    /\ child[r] = "running"
    /\ sent[r] = Lines[r]
    /\ LeaveFiles(r)

\* diff is killed before it has printed everything.
Die(r) ==
    /\ child[r] = "running"
    /\ sent[r] < Lines[r]
    /\ LeaveFiles(r)

BecomeZombie(r) ==
    /\ child[r] = "exiting"
    /\ child' = [child EXCEPT ![r] = "zombie"]
    /\ UNCHANGED <<up, stream, wend, rend, sent, got, peak>>

-----------------------------------------------------------------------------
Child(r) ==
    \/ Exec(r)
    \/ ExecFails(r)
    \/ Write(r)
    \/ Finish(r)
    \/ Die(r)
    \/ BecomeZombie(r)

Caller(r) ==
    \/ PipeFails(r)
    \/ ForkFails(r)
    \/ Fork(r)
    \/ Return(r)
    \/ Read(r)
    \/ Eof(r)

SpawnNext ==
    \/ Exit
    \/ \E r \in Run : Caller(r) \/ Child(r)

\* A process that can run does run; nobody is obliged to call run_diff, to
\* kill diff or to leave gdiff.
ChildFairness(r) ==
    /\ WF_spawnVars(Exec(r) \/ ExecFails(r))
    /\ WF_spawnVars(Write(r))
    /\ WF_spawnVars(Finish(r))
    /\ WF_spawnVars(BecomeZombie(r))

CallerFairness(r) ==
    /\ WF_spawnVars(Return(r))
    /\ WF_spawnVars(Read(r))
    /\ WF_spawnVars(Eof(r))

SpawnSafe == SpawnInit /\ [][SpawnNext]_spawnVars

SpawnSpec ==
    /\ SpawnSafe
    /\ \A r \in Run : ChildFairness(r) /\ CallerFairness(r)

-----------------------------------------------------------------------------
(* Properties *)

\* While gdiff reads a run, only that run's own diff can hold back the end
\* of its file: neither gdiff (spawn.c:82) nor a diff forked meanwhile has
\* a copy of the write end.
WriteEndIsolation ==
    \A r \in Run : stream[r] = "open" => wend[r] \subseteq {r}

\* A stream is closed only after its diff is gone and everything that diff
\* wrote has been read: no output is cut off by the read loops' end.
DrainedAtClose ==
    \A r \in Run : stream[r] = "closed" =>
        /\ child[r] \in {"exiting", "zombie", "reaped"}
        /\ got[r] = sent[r]

\* The non-blocking waitpid of each run_diff keeps the dead children in
\* check: the children not reaped, but for one that run_diff has just
\* forked, are never more than the diffs that once ran at the same time.
ZombieBound ==
    Cardinality({r \in Unreaped : stream[r] # "forked"}) <= peak

\* A run_diff that has forked comes back and its output is read to the end,
\* however much of it there is, unless gdiff ends: the parent must not wait
\* for the child before it reads (the waitpid commented out at spawn.c:83).
ForkedIsRead ==
    \A r \in Run : stream[r] = "forked" ~> (stream[r] = "closed" \/ ~up)
=============================================================================
