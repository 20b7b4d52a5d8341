------------------------------ MODULE FindMsg -------------------------------
(***************************************************************************)
(* How a message is found in a catalogue that is loaded (find_msg of       *)
(* intl/dcgettext.c): in the hash table of the file, by double hashing, or *)
(* by bisection when the file has none.  The file is one that msgfmt       *)
(* writes: its messages ascend, and each is in the first empty entry of    *)
(* its own sequence of probes.                                             *)
(*                                                                         *)
(* Messages are numbers in the order of strcmp.                            *)
(***************************************************************************)
EXTENDS Integers, Sequences, FiniteSetsExt, SequencesExt

CONSTANTS
    Message,  \* the messages that are asked for
    Hash,     \* the values of hash_string
    Sizes     \* the sizes of hash tables, 0 for none

Start(h, n) == h % n
Incr(h, n)  == 1 + (h % (n - 2))

\* msgfmt makes a table of a size such that the probes get to each entry,
\* from everywhere.
FindMsgAssumption ==
    /\ Message \subseteq Int /\ IsFiniteSet(Message)
    /\ Hash \cup Sizes \subseteq Nat
    /\ \A n \in Sizes, h \in Hash :
          n > 2 => \A i \in 0..(n - 1) : \E j \in 0..(n - 1) : (Start(h, n) + j * Incr(h, n)) % n = i

VARIABLES
    hash,     \* hash_string, as far as it matters here
    orig,     \* orig_tab: the messages of the file
    hash_tab, \* positions in orig_tab, 0 where it is empty
    msgid,    \* what is looked for, a singleton during a call
    idx,      \* the entry that is looked at
    answer    \* the position that the last call found, 0 for NULL

vars == <<hash, orig, hash_tab, msgid, idx, answer>>

size == Len(hash_tab)

\* Where a message is in the file, as a reference.
Position(m) == IF \E i \in DOMAIN orig : orig[i] = m THEN CHOOSE i \in DOMAIN orig : orig[i] = m ELSE 0

TypeOK ==
    /\ msgid \subseteq Message
    /\ idx \in 0..Max({0, size - 1})
    /\ answer \in 0..Len(orig)

-----------------------------------------------------------------------------
(* The file *)

\* The entries where a message may be: the first, the next one, and so on.
ProbeAt(m, j, n) == (Start(hash[m], n) + j * Incr(hash[m], n)) % n

\* The table of n entries, as msgfmt fills it.
Table(n) ==
    LET fill[k \in 0..Len(orig)] ==
            IF k = 0 THEN [i \in 1..n |-> 0]
            ELSE LET free == {j \in 0..(n - 1) : fill[k - 1][1 + ProbeAt(orig[k], j, n)] = 0}
                 IN  [fill[k - 1] EXCEPT ![1 + ProbeAt(orig[k], Min(free), n)] = k]
    IN  fill[Len(orig)]

Ascends(s) == \A i, j \in DOMAIN s : i < j => s[i] < s[j]

Init ==
    /\ hash \in [Message -> Hash]
    /\ orig \in {s \in BoundedSeq(Message, Cardinality(Message)) : Ascends(s)}
    /\ \E n \in Sizes :
          /\ n > 2 => Len(orig) < n
          /\ hash_tab = IF n > 2 THEN Table(n) ELSE [i \in 1..n |-> 0]
    /\ msgid = {}
    /\ idx = 0
    /\ answer = 0

-----------------------------------------------------------------------------
(* find_msg *)

Ask(m) ==
    /\ msgid = {}
    /\ msgid' = {m}
    /\ idx' = IF size > 2 THEN Start(hash[m], size) ELSE 0
    /\ UNCHANGED <<hash, orig, hash_tab, answer>>

Return(position) ==
    /\ answer' = position
    /\ msgid' = {}
    /\ UNCHANGED <<hash, orig, hash_tab, idx>>

Entry == hash_tab[idx + 1]

Empty == size > 2 /\ msgid # {} /\ Entry = 0 /\ Return(0)

Hit == size > 2 /\ \E m \in msgid : Entry # 0 /\ orig[Entry] = m /\ Return(Entry)

\* Faulty: the index stays when it would wrap around.
ProbeShort ==
    /\ size > 2
    /\ \E m \in msgid :
          /\ Entry # 0 /\ orig[Entry] # m
          /\ LET incr == Incr(hash[m], size) IN
             idx' = IF idx >= size - incr THEN idx ELSE idx + incr
    /\ UNCHANGED <<hash, orig, hash_tab, msgid, answer>>

\* Another message: the next entry of the sequence, in unsigned arithmetic
\* that never goes beyond the size.
Probe ==
    /\ size > 2
    /\ \E m \in msgid :
          /\ Entry # 0 /\ orig[Entry] # m
          /\ LET incr == Incr(hash[m], size) IN
             idx' = IF idx >= size - incr THEN idx - (size - incr) ELSE idx + incr
    /\ UNCHANGED <<hash, orig, hash_tab, msgid, answer>>

\* bsearch in orig_tab[b] to orig_tab[t - 1], for <<m, b, t>>.
Search[s \in Message \X (0..Len(orig)) \X (0..Len(orig))] ==
    LET act == (s[2] + s[3]) \div 2 IN
    IF s[2] >= s[3] THEN 0
    ELSE IF s[1] < orig[act + 1] THEN Search[<<s[1], s[2], act>>]
    ELSE IF s[1] > orig[act + 1] THEN Search[<<s[1], act + 1, s[3]>>]
    ELSE act + 1

\* Without a table of a usable size.
Bisect == size <= 2 /\ \E m \in msgid : Return(Search[<<m, 0, Len(orig)>>])

Turn == Empty \/ Hit \/ Probe \/ Bisect

Next == (\E m \in Message : Ask(m)) \/ Turn

\* A call runs to its end; nothing obliges the program to make one.
Spec == Init /\ [][Next]_vars /\ WF_vars(Turn)

-----------------------------------------------------------------------------
(* Properties *)

\* A message is found where it is in the file, and only if it is in it,
\* whatever collides with it (dcgettext.c:407-446, 452-473).
Finds   == \A m \in msgid : msgid' = {} => answer' = Position(m)
FindsIt == [][Finds]_vars

\* A search in the table ends at the message or at an empty entry: the
\* probes get to each entry (dcgettext.c:427-446).
Ends == msgid # {} ~> msgid = {}
=============================================================================
