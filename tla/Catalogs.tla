------------------------------ MODULE Catalogs ------------------------------
(***************************************************************************)
(* The search for a translation: dcgettext (dcgettext.c), the entries for  *)
(* the catalogues of a locale (finddomain.c, l10nflist.c, explodename.c)   *)
(* and the loading of a catalogue (loadmsgcat.c).                          *)
(*                                                                         *)
(* A locale name is the function from its parts to their values.  A file   *)
(* name is the set of the parts it shows, each with the character before   *)
(* it; directory and domain are the same in all of them.  The bits of a    *)
(* mask are its parts.  The entries are a function on file names: the      *)
(* order of the list they are linked in only shortens the search.          *)
(*                                                                         *)
(* Left out: running out of memory.                                        *)
(***************************************************************************)
EXTENDS Integers, Sequences, FiniteSets, FiniteSetsExt

CONSTANTS
    Locale,    \* the names of locales the environment may hold
    Normal(_), \* _nl_normalize_codeset
    Alias,     \* the locales that are aliases, and what they stand for
    Untranslatable, \* the locales C and POSIX
    Msg,       \* messages
    Contents,  \* what may be in the files: functions on file names
    Languages  \* the lists of locales that may be asked for

\* The values of the bits order the masks.
Bit == [modifier |-> 128, audience |-> 64, territory |-> 32, codeset |-> 16,
        norm |-> 8, special |-> 4, sponsor |-> 2, revision |-> 1]
Part == DOMAIN Bit

Mark == [language |-> "", modifier |-> "@", audience |-> "+", territory |-> "_",
         codeset |-> ".", norm |-> ".", special |-> "+", sponsor |-> ",",
         revision |-> ",_"]

CatalogsAssumption ==
    /\ \A l \in Locale \cup {Alias[a] : a \in DOMAIN Alias} :
          /\ DOMAIN l \subseteq Part \cup {"language"} /\ "language" \in DOMAIN l
          /\ "codeset" \in DOMAIN l => "territory" \in DOMAIN l
    /\ DOMAIN Alias \cup Untranslatable \subseteq Locale
    /\ Languages \subseteq Seq(Locale)

Missing == {"missing"} \* no such file
Broken  == {"broken"}  \* not a message catalogue, or of another revision
NoData  == {"NULL"}    \* the data pointer of an entry is NULL
MsgId   == {<<"msgid">>}   \* the answer is the message itself, not a file
None    == {}          \* no question, no answer yet

VARIABLES
    contents, \* what is in each file
    entries,  \* _nl_loaded_domains: the entries made, by file name
    asked,    \* the last question: a list of locales and a message
    answer    \* its answer: the file of the translation, or MsgId

vars == <<contents, entries, asked, answer>>

-----------------------------------------------------------------------------
(* Names *)

\* What is asked for first: the name as it stands, a language with mask 0.
Raw(l) == {<<Mark[p], l[p]>> : p \in DOMAIN l}

\* The file name for a mask.  A modifier has the mark of CEN if both of its
\* bits are set; the second of two codesets is told from the first, which it
\* may be equal to.
Name(x, mask) ==
    {<<IF p = "norm" /\ "codeset" \in mask THEN ".." ELSE Mark[p], x[p]>> : p \in
        {"language"} \cup (IF "audience" \in mask THEN mask \ {"modifier"} ELSE mask)}

\* The parts of a locale: the codeset also in its normal form, unless that
\* is how it is written and nothing follows it (the comparison reaches over
\* an "@" that is not cut off yet); a modifier both as XPG's and as CEN's.
Explode(l) ==
    LET modified   == DOMAIN l \cap {"modifier", "audience"}
        normalized == /\ "codeset" \in DOMAIN l
                      /\ Normal(l["codeset"]) # l["codeset"] \/ modified # {}
    IN  [p \in DOMAIN l \cup (IF modified # {} THEN {"modifier", "audience"} ELSE {})
                        \cup (IF normalized THEN {"norm"} ELSE {}) |->
            IF p = "norm" THEN Normal(l["codeset"])
            ELSE IF p \in {"modifier", "audience"} THEN l[CHOOSE q \in modified : TRUE]
            ELSE l[p]]

Weight(mask) == MapThenSumSet(LAMBDA p : Bit[p], mask)

\* The masks below one: they mix neither CEN with XPG nor the two codesets.
Submasks(mask) ==
    {m \in (SUBSET mask) \ {mask} :
        /\ \/ m \cap {"revision", "sponsor", "special", "audience"} = {}
           \/ m \cap {"codeset", "norm", "modifier"} = {}
        /\ ~({"codeset", "norm"} \subseteq m)}

-----------------------------------------------------------------------------
(* Entries and catalogues *)

\* _nl_load_domain
Load(n, e) ==
    [e EXCEPT !.decided = TRUE,
              !.data = IF n \in DOMAIN contents /\ contents[n] \notin {Missing, Broken}
                       THEN contents[n] ELSE NoData]

Entry(x, mask) == [of |-> x, mask |-> mask,
                   decided |-> {"codeset", "norm"} \subseteq mask, data |-> NoData]

\* _nl_make_l10nflist, with do_allocate: an entry for a mask that has none,
\* and before that it is linked to them, one for each mask below.
Make(es, x, mask) ==
    LET made == [n \in {Name(x, m) : m \in Submasks(mask) \cup {mask}} |->
                    Entry(x, IF n = Name(x, mask) THEN mask
                             ELSE CHOOSE m \in Submasks(mask) : Name(x, m) = n)]
    IN  IF Name(x, mask) \in DOMAIN es THEN es
        ELSE [n \in DOMAIN es \cup DOMAIN made |-> IF n \in DOMAIN es THEN es[n] ELSE made[n]]

Has(n, msg) ==
    n \in DOMAIN contents /\ contents[n] \in SUBSET Msg /\ msg \in contents[n]

Successors(e) == Submasks(e.mask)

\* Faulty: the search ends at the first successor that has a catalogue.
FirstCatalogue(n, e, msg) ==
    LET mine == IF e.decided THEN e.data # NoData /\ msg \in e.data ELSE Has(n, msg)
        cats == {m \in Successors(e) : \E k \in Msg : Has(Name(e.of, m), k)}
        best == CHOOSE m \in cats : \A k \in cats : Weight(k) <= Weight(m)
    IN  IF mine THEN n
        ELSE IF cats = {} \/ ~Has(Name(e.of, best), msg) THEN MsgId
        ELSE Name(e.of, best)

\* find_msg for an entry and its successors, in the order of the masks, and
\* the file it ends with.
FoundIn(n, e, msg) ==
    LET mine == IF e.decided THEN e.data # NoData /\ msg \in e.data ELSE Has(n, msg)
        hits == {m \in Successors(e) : Has(Name(e.of, m), msg)}
    IN  IF mine THEN n
        ELSE IF hits = {} THEN MsgId
        ELSE Name(e.of, CHOOSE m \in hits : \A k \in hits : Weight(k) <= Weight(m))

\* The entries that _nl_find_domain and find_msg have loaded by then.
Visited(n, e, found) ==
    {n} \cup {Name(e.of, m) : m \in {k \in Successors(e) :
        \/ found = MsgId
        \/ /\ found # n
           /\ \E m \in Successors(e) : Name(e.of, m) = found /\ Weight(k) >= Weight(m)}}

\* _nl_find_domain makes the entries of a locale it does not know.
Find(es, l) ==
    LET x == Explode(IF l \in DOMAIN Alias THEN Alias[l] ELSE l)
    IN  IF Raw(l) \in DOMAIN es THEN [es |-> es, top |-> Raw(l)]
        ELSE [es  |-> Make(es, x, DOMAIN x \ {"language"}),
              top |-> Name(x, DOMAIN x \ {"language"})]

\* One turn of the loop of dcgettext, unless an earlier one has returned.
Turn(so_far, l) ==
    IF so_far.answer # None THEN so_far
    ELSE IF l \in Untranslatable THEN [so_far EXCEPT !.answer = MsgId]
    ELSE LET found   == Find(so_far.es, l)
             e       == found.es[found.top]
             file    == FoundIn(found.top, e, so_far.msg)
             visited == Visited(found.top, e, file)
         IN  [so_far EXCEPT
                !.es = [n \in DOMAIN found.es |->
                          IF n \in visited /\ ~found.es[n].decided
                          THEN Load(n, found.es[n]) ELSE found.es[n]],
                !.answer = IF file = MsgId THEN None ELSE file]

-----------------------------------------------------------------------------
Init ==
    /\ contents \in Contents
    /\ entries = << >>
    /\ asked = [list |-> << >>, msg |-> ""]
    /\ answer = None

\* dcgettext: the list ends as if with C.
Dcgettext(list, msg) ==
    LET turn[i \in 0..Len(list)] ==
            IF i = 0 THEN [es |-> entries, msg |-> msg, answer |-> None]
            ELSE Turn(turn[i - 1], list[i])
        end == turn[Len(list)]
    IN  /\ entries' = end.es
        /\ asked' = [list |-> list, msg |-> msg]
        /\ answer' = IF end.answer = None THEN MsgId ELSE end.answer
        /\ UNCHANGED contents

Next == \E list \in Languages, msg \in Msg : Dcgettext(list, msg)

Spec == Init /\ [][Next]_vars

-----------------------------------------------------------------------------
(* Properties *)

\* Entries have masks and loaded entries the messages of their files; each
\* successor of an entry is an entry (l10nflist.c:322-343).
TypeOK ==
    \A n \in DOMAIN entries :
        LET e == entries[n] IN
        /\ e.mask \subseteq DOMAIN e.of \cap Part
        /\ e.data # NoData => e.decided /\ n \in DOMAIN contents /\ e.data = contents[n]
        /\ \A m \in Successors(e) : Name(e.of, m) \in DOMAIN entries

\* The masks of the files that dcgettext may look at for a locale, down the
\* stripping order of finddomain.c:99-109.
Meant(l) == Explode(IF l \in DOMAIN Alias THEN Alias[l] ELSE l)
AllMasks(l) == LET all == DOMAIN Meant(l) \ {"language"} IN {all} \cup Submasks(all)

Looked == \* the locales of the last question before the first C
    SubSeq(asked.list, 1,
        Min({i \in DOMAIN asked.list : asked.list[i] \in Untranslatable}
            \cup {Len(asked.list) + 1}) - 1)

\* A translation comes from a catalogue that has the message and that is
\* named by parts of one of the locales asked for: the entries that locales
\* share bring no catalogue of another locale in (l10nflist.c:272-296).
AnswerFits ==
    answer \notin {None, MsgId} =>
        /\ Has(answer, asked.msg)
        /\ \E i \in DOMAIN Looked : \E m \in AllMasks(Looked[i]) :
               Name(Meant(Looked[i]), m) = answer

\* The parts as the user wrote them, and the files their masks name.
Written(l) == DOMAIN (IF l \in DOMAIN Alias THEN Alias[l] ELSE l) \ {"language"}
AsWritten(l) == {m \in AllMasks(l) : m \subseteq Written(l)}

Earlier(i, m, j, k) == i < j \/ (i = j /\ Weight(m) > Weight(k))

\* Whatever was asked before, the answer is at least as good as the best of
\* the catalogues named as the user writes: an earlier locale of the list
\* wins over a later one, a fuller name over a shorter one, and a catalogue
\* that lacks the message hides none that has it.
BestAsWritten ==
    answer # None =>
        \A j \in DOMAIN Looked : \A k \in AsWritten(Looked[j]) :
            Has(Name(Meant(Looked[j]), k), asked.msg) =>
                \E i \in DOMAIN Looked : \E m \in AllMasks(Looked[i]) :
                    /\ answer = Name(Meant(Looked[i]), m)
                    /\ ~Earlier(j, k, i, m)

\* A catalogue is read once and stays: the translations handed out point
\* into its data (dcgettext.c:423-425, loadmsgcat.c:76).
StaysDecided ==
    \A n \in DOMAIN entries :
        /\ n \in DOMAIN entries'
        /\ entries[n].decided => entries'[n] = entries[n]
DecidedOnce == [][StaysDecided]_vars

\* A locale with a codeset finds the catalogue with the codeset's normal
\* form (finddomain.c:106).
NormalTried ==
    answer = MsgId =>
        \A i \in DOMAIN Looked : \A m \in AllMasks(Looked[i]) :
            "norm" \in m => ~Has(Name(Meant(Looked[i]), m), asked.msg)
=============================================================================
