------------------------- MODULE PreferencesProofs --------------------------
(* Proofs about the preferences (module Preferences), for any number of    *)
(* gdiffs over one file, any options, numbers and colours.                 *)
EXTENDS Preferences, TLAPS

\* gdiff does not die reading the file f.
Readable(f) == \A k \in Key : ~Malformed(k, f[k])

\* Who is not behind has the file in its cache.
CacheFits(g) == g \notin behind => cache[g] = file

\* Until someone edits the file, gdiff can read all there is of it.
FilesReadable ==
    ~edited =>
        /\ crashed = {}
        /\ Readable(file)
        /\ \A g \in Gdiff : cache[g] = NotCached \/ Readable(cache[g])

\* A dialog has a copy of its cache, but for the options that were touched:
\* saved and read again, the others mean what they meant in the cache, low
\* bytes of colours or not.
CopyFits(g) ==
    g \in dialog =>
        /\ IsFile(cache[g])
        /\ \A k \in Key \ touched[g] : Kept(k, opts[g][k]) = Meaning(k, cache[g][k])

\* The inductive invariant behind UntouchedKept, AppliedIsRead and
\* DiesOfEditsOnly.
PreferencesInv ==
    /\ TypeOK
    /\ dirty \subseteq dialog
    /\ FilesReadable
    /\ \A g \in Gdiff : CacheFits(g) /\ CopyFits(g)

-----------------------------------------------------------------------------
(* What becomes of one option, saved and read *)

LEMMA KeyValues ==
    ASSUME PreferencesAssumption, NEW k \in Key
    PROVE  /\ k \in Number <=> k \notin StyleOption
           /\ k \in Number => Value(k) = Numbers
           /\ k \in StyleOption => Value(k) = Colour \X Colour
           /\ << >> \in Text(k)
BY DEF PreferencesAssumption, Key, Value, Text

\* A colour is read as a colour, and one that was read is written as it was.
LEMMA ColourRead ==
    ASSUME PreferencesAssumption, NEW f \in Field
    PROVE  Parse(f) \in Colour /\ Format(Parse(f)) = f
BY DEF PreferencesAssumption, Field, Colour, Parse, Format

\* A colour that is saved and read keeps its high byte, and stays the
\* default if it was and only then.
LEMMA ColourSaved ==
    ASSUME PreferencesAssumption, NEW c \in Colour
    PROVE  /\ Format(c) \in Field
           /\ IF c = DEFAULT THEN Parse(Format(c)) = DEFAULT
              ELSE Parse(Format(c)) # DEFAULT /\ Parse(Format(c))[1] = c[1]
BY DEF PreferencesAssumption, Field, Colour, Parse, Format

LEMMA OptionSaved ==
    ASSUME PreferencesAssumption, NEW k \in Key, NEW v \in Value(k)
    PROVE  SaveOption(k, v) \in Text(k) /\ ~Malformed(k, SaveOption(k, v))
<1>1. CASE k \in Number
  BY <1>1, KeyValues DEF SaveOption, Text, Malformed
<1>2. CASE k \in StyleOption
  <2>1. v[1] \in Colour /\ v[2] \in Colour
    BY <1>2, KeyValues
  <2>2. SaveOption(k, v) = <<Format(v[1]), Format(v[2])>>
    BY <1>2, KeyValues DEF SaveOption
  <2>3. Format(v[1]) \in Field /\ Format(v[2]) \in Field
    BY <2>1, ColourSaved
  <2> QED BY <1>2, <2>2, <2>3, KeyValues DEF Text, Malformed
<1> QED BY <1>1, <1>2 DEF Key

LEMMA OptionRead ==
    ASSUME PreferencesAssumption, NEW k \in Key, NEW t \in Text(k), ~Malformed(k, t)
    PROVE  ReadOption(k, t) \in Value(k) /\ Kept(k, ReadOption(k, t)) = ReadOption(k, t)
<1>1. CASE k \in Number
  <2>1. ReadOption(k, t) \in Numbers
    BY <1>1 DEF ReadOption, Text, PreferencesAssumption
  <2> QED BY <1>1, <2>1, KeyValues DEF Kept, SaveOption, ReadOption
<1>2. CASE k \in StyleOption /\ t = << >>
  <2>1. ReadOption(k, t) = <<DEFAULT, DEFAULT>>
    BY <1>2, KeyValues DEF ReadOption
  <2>2. SaveOption(k, <<DEFAULT, DEFAULT>>) = <<DEFAULT, DEFAULT>>
    BY <1>2, KeyValues DEF SaveOption, Format
  <2>3. ReadOption(k, <<DEFAULT, DEFAULT>>) = <<DEFAULT, DEFAULT>>
    BY <1>2, KeyValues DEF ReadOption, Parse
  <2> QED BY <1>2, <2>1, <2>2, <2>3, KeyValues DEF Kept, Colour
<1>3. CASE k \in StyleOption /\ t # << >>
  <2>1. PICK f \in Field, g \in Field : t = <<f, g>>
    BY <1>3, KeyValues DEF Text, Malformed
  <2>2. ReadOption(k, t) = <<Parse(f), Parse(g)>>
    BY <1>3, <2>1, KeyValues DEF ReadOption
  <2>3. SaveOption(k, <<Parse(f), Parse(g)>>) = t
    BY <1>3, <2>1, ColourRead, KeyValues DEF SaveOption
  <2> QED BY <1>3, <2>2, <2>3, ColourRead, KeyValues DEF Kept
<1> QED BY <1>1, <1>2, <1>3 DEF Key

\* A style, saved and read, keeps its defaults and the high bytes.
LEMMA StyleKept ==
    ASSUME PreferencesAssumption, NEW k \in StyleOption, NEW v \in Value(k), NEW i \in {1, 2}
    PROVE  IF v[i] = DEFAULT THEN Kept(k, v)[i] = DEFAULT
           ELSE Kept(k, v)[i] # DEFAULT /\ Kept(k, v)[i][1] = v[i][1]
<1>1. v[1] \in Colour /\ v[2] \in Colour /\ k \notin Number
  BY KeyValues DEF Key
<1>2. Kept(k, v) = <<Parse(Format(v[1])), Parse(Format(v[2]))>>
  BY <1>1 DEF Kept, SaveOption, ReadOption
<1> QED BY <1>1, <1>2, ColourSaved

LEMMA DefaultsTyped ==
    ASSUME PreferencesAssumption
    PROVE  IsOptions(Defaults)
<1>1. ASSUME NEW k \in Key PROVE ReadOption(k, << >>) \in Value(k)
  <2>1. << >> \in Text(k) /\ ~Malformed(k, << >>)
    BY KeyValues DEF Malformed
  <2> QED BY <2>1, OptionRead
<1> QED BY <1>1 DEF IsOptions, Defaults

-----------------------------------------------------------------------------
(* What the steps do *)

LEMMA InvInit == PreferencesAssumption /\ Init => PreferencesInv
<1> SUFFICES ASSUME PreferencesAssumption, Init PROVE PreferencesInv
  OBVIOUS
<1> USE DEF Init
<1>1. IsFile(file) /\ Readable(file)
  <2>1. ASSUME NEW k \in Key PROVE << >> \in Text(k) /\ ~Malformed(k, << >>)
    BY KeyValues DEF Malformed
  <2>2. ASSUME NEW k \in Key
        PROVE  SaveOption(k, Defaults[k]) \in Text(k) /\ ~Malformed(k, SaveOption(k, Defaults[k]))
    BY DefaultsTyped, OptionSaved DEF IsOptions
  <2> QED BY <2>1, <2>2 DEF IsFile, Readable
<1>2. TypeOK
  BY <1>1, DefaultsTyped DEF TypeOK
<1> QED BY <1>1, <1>2 DEF PreferencesInv, FilesReadable, CacheFits, CopyFits

LEMMA ChangeKeeps ==
    ASSUME PreferencesAssumption, PreferencesInv,
           NEW g \in Gdiff, NEW k \in Key, NEW v \in Value(k), Change(g, k, v)
    PROVE  PreferencesInv'
<1> USE DEF PreferencesInv, TypeOK, Change
<1>1. ASSUME NEW h \in Gdiff PROVE IsOptions(opts'[h])
  BY DEF IsOptions
<1>2. TypeOK'
  BY <1>1
<1>3. ASSUME NEW h \in Gdiff PROVE CacheFits(h)' /\ CopyFits(h)'
  <2>1. CASE h = g
    BY <2>1 DEF CacheFits, CopyFits, IsOptions
  <2>2. CASE h # g
    BY <2>2 DEF CacheFits, CopyFits
  <2> QED BY <2>1, <2>2
<1> QED BY <1>2, <1>3 DEF FilesReadable

\* The widgets write values of their options.
LEMMA WidgetsChange ==
    ASSUME PreferencesAssumption, PreferencesInv, NEW g \in Gdiff,
           CheckToggled(g) \/ RadioPressed(g) \/ ColourChanged(g)
    PROVE  PreferencesInv'
<1>1. CASE CheckToggled(g)
  <2>1. PICK k \in Check : Change(g, k, IF opts[g][k] = 0 THEN 1 ELSE 0)
    BY <1>1 DEF CheckToggled
  <2>2. k \in Key /\ {0, 1} \subseteq Value(k)
    BY DEF Key, Number, Value, PreferencesAssumption
  <2> QED BY <2>1, <2>2, ChangeKeeps
<1>2. CASE RadioPressed(g)
  <2>1. PICK k \in Radio, i \in 0..(Choices - 1) : Change(g, k, i)
    BY <1>2 DEF RadioPressed
  <2>2. k \in Key /\ i \in Value(k)
    BY DEF Key, Number, Value, PreferencesAssumption
  <2> QED BY <2>1, <2>2, ChangeKeeps
<1>3. CASE ColourChanged(g)
  <2>1. PICK k \in StyleOption, c \in High \X Low :
           Change(g, k, <<c, opts[g][k][2]>>) \/ Change(g, k, <<opts[g][k][1], c>>)
    BY <1>3 DEF ColourChanged
  <2>2. k \in Key /\ Value(k) = Colour \X Colour /\ c \in Colour
    BY KeyValues DEF Key, Colour
  <2>3. opts[g][k] \in Colour \X Colour
    BY <2>2 DEF PreferencesInv, TypeOK, IsOptions
  <2>4. <<c, opts[g][k][2]>> \in Value(k) /\ <<opts[g][k][1], c>> \in Value(k)
    BY <2>2, <2>3
  <2> QED BY <2>1, <2>2, <2>4, ChangeKeeps
<1> QED BY <1>1, <1>2, <1>3

LEMMA OpenDialogKeeps ==
    ASSUME PreferencesAssumption, PreferencesInv, NEW g \in Gdiff, OpenDialog(g)
    PROVE  PreferencesInv'
<1> USE DEF PreferencesInv, TypeOK
<1>1. PICK text \in Consulted(g) :
         /\ cache' = [cache EXCEPT ![g] = text]
         /\ behind' = IF text = file THEN behind \ {g} ELSE behind
         /\ IF \E k \in Key : Malformed(k, text[k])
            THEN /\ crashed' = crashed \cup {g}
                 /\ UNCHANGED <<dialog, opts, touched>>
            ELSE /\ dialog' = dialog \cup {g}
                 /\ Opens(g, text)
                 /\ touched' = [touched EXCEPT ![g] = {}]
                 /\ UNCHANGED crashed
  BY DEF OpenDialog
<1>2. g \notin dialog /\ UNCHANGED <<file, dirty, edited>>
  BY DEF OpenDialog
<1>3. IsFile(text) /\ (~edited => Readable(text))
  BY DEF Consulted, FilesReadable
<1>4. ASSUME NEW h \in Gdiff PROVE CacheFits(h)'
  BY <1>1, <1>2 DEF CacheFits, Consulted
<1>5. FilesReadable'
  BY <1>1, <1>2, <1>3 DEF FilesReadable, Readable
<1>6. CASE \E k \in Key : Malformed(k, text[k])
  <2>1. TypeOK'
    BY <1>1, <1>2, <1>3, <1>6
  <2>2. ASSUME NEW h \in Gdiff PROVE CopyFits(h)'
    BY <1>1, <1>2, <1>6 DEF CopyFits
  <2> QED BY <1>1, <1>2, <1>4, <1>5, <1>6, <2>1, <2>2
<1>7. CASE ~\E k \in Key : Malformed(k, text[k])
  <2> DEFINE copy == [k \in Key |-> ReadOption(k, text[k])]
  <2>1. opts' = [opts EXCEPT ![g] = copy]
    BY <1>1, <1>7 DEF Opens
  <2>2. ASSUME NEW k \in Key
        PROVE  copy[k] \in Value(k) /\ Kept(k, copy[k]) = Meaning(k, text[k])
    BY <1>3, <1>7, OptionRead DEF IsFile, Meaning
  <2>3. IsOptions(copy)
    BY <2>2 DEF IsOptions
  <2> HIDE DEF copy
  <2>4. TypeOK'
    BY <1>1, <1>2, <1>3, <1>7, <2>1, <2>3
  <2>5. ASSUME NEW h \in Gdiff PROVE CopyFits(h)'
    <3>1. CASE h = g
      BY <1>1, <1>3, <1>7, <2>1, <2>2, <3>1 DEF CopyFits
    <3>2. CASE h # g
      BY <1>1, <1>7, <2>1, <3>2 DEF CopyFits
    <3> QED BY <3>1, <3>2
  <2> QED BY <1>1, <1>2, <1>4, <1>5, <1>7, <2>4, <2>5
<1> QED BY <1>6, <1>7

\* A save leaves a file that gdiff can read, and no one's cache but its own.
LEMMA SavesReadable ==
    ASSUME PreferencesAssumption, PreferencesInv, NEW g \in Gdiff, Saves(g)
    PROVE  /\ IsFile(file') /\ Readable(file')
           /\ \A h \in Gdiff : cache'[h] = IF h = g THEN file' ELSE cache[h]
           /\ DOMAIN cache' = Gdiff
<1>1. ASSUME NEW k \in Key
      PROVE  SaveOption(k, opts[g][k]) \in Text(k) /\ ~Malformed(k, SaveOption(k, opts[g][k]))
  BY OptionSaved DEF PreferencesInv, TypeOK, IsOptions
<1>2. IsFile(file') /\ Readable(file')
  BY <1>1 DEF Saves, IsFile, Readable
<1>3. /\ \A h \in Gdiff : cache'[h] = IF h = g THEN file' ELSE cache[h]
      /\ DOMAIN cache' = Gdiff
  BY DEF Saves, PreferencesInv, TypeOK
<1> QED BY <1>2, <1>3

LEMMA ApplyKeeps ==
    ASSUME PreferencesAssumption, PreferencesInv, NEW g \in Gdiff, Apply(g)
    PROVE  PreferencesInv'
<1> USE DEF PreferencesInv, TypeOK
<1>1. Saves(g) /\ UNCHANGED <<dialog, opts, touched, crashed, edited>>
  BY DEF Apply
<1>2. /\ IsFile(file') /\ Readable(file')
      /\ \A h \in Gdiff : cache'[h] = IF h = g THEN file' ELSE cache[h]
      /\ DOMAIN cache' = Gdiff
  BY <1>1, SavesReadable
<1>3. TypeOK' /\ dirty' \subseteq dialog'
  BY <1>1, <1>2 DEF Saves
<1>4. FilesReadable'
  BY <1>1, <1>2 DEF FilesReadable, Readable
<1>5. ASSUME NEW h \in Gdiff PROVE CacheFits(h)'
  BY <1>1, <1>2 DEF Saves, CacheFits
<1>6. ASSUME NEW h \in Gdiff PROVE CopyFits(h)'
  <2>1. CASE h = g
    BY <1>1, <1>2, <2>1 DEF CopyFits, Saves, Kept, Meaning
  <2>2. CASE h # g
    BY <1>1, <1>2, <2>2 DEF CopyFits
  <2> QED BY <2>1, <2>2
<1> QED BY <1>3, <1>4, <1>5, <1>6

\* The dialog of g is gone; the others, with their copies, stay.
LEMMA ClosesFits ==
    ASSUME PreferencesAssumption, PreferencesInv, NEW g \in Gdiff, Closes(g)
    PROVE  /\ dialog' \in SUBSET Gdiff /\ g \notin dialog'
           /\ DOMAIN opts' = Gdiff /\ \A h \in Gdiff : IsOptions(opts'[h])
           /\ touched' \in [Gdiff -> SUBSET Key]
           /\ \A h \in Gdiff \ {g} :
                 (h \in dialog' <=> h \in dialog) /\ UNCHANGED <<opts[h], touched[h]>>
<1>1. \A h \in Gdiff : opts'[h] = IF h = g THEN Defaults ELSE opts[h]
  BY DEF Closes, PreferencesInv, TypeOK
<1>2. \A h \in Gdiff : IsOptions(opts'[h])
  BY <1>1, DefaultsTyped DEF PreferencesInv, TypeOK
<1> QED BY <1>1, <1>2 DEF Closes, PreferencesInv, TypeOK

LEMMA CloseDialogKeeps ==
    ASSUME PreferencesAssumption, PreferencesInv, NEW g \in Gdiff, CloseDialog(g)
    PROVE  PreferencesInv'
<1> USE DEF PreferencesInv, TypeOK
<1>1. Closes(g) /\ dirty' = dirty \ {g} /\ UNCHANGED <<file, cache, crashed, behind, edited>>
  BY DEF CloseDialog
<1>2. TypeOK' /\ dirty' \subseteq dialog'
  BY <1>1, ClosesFits
<1>3. FilesReadable' /\ \A h \in Gdiff : CacheFits(h)'
  BY <1>1 DEF FilesReadable, CacheFits
<1>4. \A h \in Gdiff : CopyFits(h)'
  BY <1>1, ClosesFits DEF CopyFits
<1> QED BY <1>2, <1>3, <1>4

LEMMA OkKeeps ==
    ASSUME PreferencesAssumption, PreferencesInv, NEW g \in Gdiff, Ok(g)
    PROVE  PreferencesInv'
<1> USE DEF PreferencesInv, TypeOK
<1>1. Closes(g) /\ UNCHANGED <<crashed, edited>>
  BY DEF Ok
<1>2. CASE g \in dirty
  <2>1. Saves(g)
    BY <1>2 DEF Ok
  <2>2. /\ IsFile(file') /\ Readable(file')
        /\ \A h \in Gdiff : cache'[h] = IF h = g THEN file' ELSE cache[h]
        /\ DOMAIN cache' = Gdiff
    BY <2>1, SavesReadable
  <2>3. TypeOK' /\ dirty' \subseteq dialog'
    BY <1>1, <2>1, <2>2, ClosesFits DEF Saves
  <2>4. FilesReadable'
    BY <1>1, <2>2 DEF FilesReadable, Readable
  <2>5. \A h \in Gdiff : CacheFits(h)'
    BY <2>1, <2>2 DEF CacheFits, Saves
  <2>6. \A h \in Gdiff : CopyFits(h)'
    BY <1>1, <2>2, ClosesFits DEF CopyFits
  <2> QED BY <2>3, <2>4, <2>5, <2>6
<1>3. CASE g \notin dirty
  <2>1. UNCHANGED <<file, cache, behind, dirty>>
    BY <1>3 DEF Ok
  <2>2. TypeOK' /\ dirty' \subseteq dialog'
    BY <1>1, <1>3, <2>1, ClosesFits
  <2>3. FilesReadable' /\ \A h \in Gdiff : CacheFits(h)'
    BY <1>1, <2>1 DEF FilesReadable, CacheFits
  <2>4. \A h \in Gdiff : CopyFits(h)'
    BY <1>1, <2>1, ClosesFits DEF CopyFits
  <2> QED BY <2>2, <2>3, <2>4
<1> QED BY <1>2, <1>3

LEMMA RestartKeeps ==
    ASSUME PreferencesAssumption, PreferencesInv, NEW g \in Gdiff, Restart(g)
    PROVE  PreferencesInv'
<1> USE DEF PreferencesInv, TypeOK
<1>1. /\ Closes(g)
      /\ cache' = [cache EXCEPT ![g] = NotCached]
      /\ behind' = behind \cup {g} /\ dirty' = dirty \ {g} /\ crashed' = crashed \ {g}
      /\ UNCHANGED <<file, edited>>
  BY DEF Restart
<1>2. TypeOK' /\ dirty' \subseteq dialog'
  BY <1>1, ClosesFits
<1>3. FilesReadable' /\ \A h \in Gdiff : CacheFits(h)'
  BY <1>1 DEF FilesReadable, CacheFits
<1>4. \A h \in Gdiff : CopyFits(h)'
  BY <1>1, ClosesFits DEF CopyFits
<1> QED BY <1>2, <1>3, <1>4

LEMMA HandEditKeeps ==
    ASSUME PreferencesAssumption, PreferencesInv, HandEdit
    PROVE  PreferencesInv'
<1> USE DEF PreferencesInv, TypeOK
<1>1. IsFile(file')
  BY DEF HandEdit, IsFile
<1>2. TypeOK' /\ dirty' \subseteq dialog'
  BY <1>1 DEF HandEdit
<1>3. FilesReadable' /\ \A h \in Gdiff : CacheFits(h)' /\ CopyFits(h)'
  BY DEF HandEdit, FilesReadable, CacheFits, CopyFits
<1> QED BY <1>2, <1>3

LEMMA InvStep ==
    ASSUME PreferencesAssumption, PreferencesInv, [Next]_vars
    PROVE  PreferencesInv'
<1>1. CASE UNCHANGED vars
  BY <1>1 DEF vars, PreferencesInv, TypeOK, FilesReadable, CacheFits, CopyFits
<1> QED BY <1>1, WidgetsChange, OpenDialogKeeps, ApplyKeeps, OkKeeps, CloseDialogKeeps,
           RestartKeeps, HandEditKeeps
        DEF Next

-----------------------------------------------------------------------------
(* What a save does to the meaning of the file *)

LEMMA SaveSteps ==
    ASSUME PreferencesInv, [Next]_vars,
           NEW g \in Gdiff, g \in dirty, g \notin dirty', file' # file
    PROVE  Saves(g)
<1>1. ASSUME NEW h \in Gdiff, CheckToggled(h) \/ RadioPressed(h) \/ ColourChanged(h) PROVE FALSE
  BY <1>1 DEF CheckToggled, RadioPressed, ColourChanged, Change
<1>2. ASSUME NEW h \in Gdiff, OpenDialog(h) \/ CloseDialog(h) \/ Restart(h) PROVE FALSE
  BY <1>2 DEF OpenDialog, CloseDialog, Restart
<1>3. ASSUME NEW h \in Gdiff, Apply(h) PROVE Saves(g)
  BY <1>3 DEF Apply, Saves
<1>4. ASSUME NEW h \in Gdiff, Ok(h) PROVE Saves(g)
  BY <1>4 DEF Ok, Saves
<1>5. ~HandEdit /\ ~UNCHANGED vars
  BY DEF HandEdit, vars
<1> QED BY <1>1, <1>2, <1>3, <1>4, <1>5 DEF Next

LEMMA SavesKeep ==
    ASSUME PreferencesAssumption, PreferencesInv, [Next]_vars
    PROVE  KeepsUntouched /\ ReadsApplied
<1> SUFFICES ASSUME NEW g \in Gdiff, g \in dirty, g \notin dirty', file' # file
             PROVE  /\ g \notin behind =>
                          \A k \in Key \ touched[g] : Meaning(k, file'[k]) = Meaning(k, file[k])
                    /\ \A k \in StyleOption, i \in {1, 2} :
                          LET was == opts[g][k][i]
                              is  == Meaning(k, file'[k])[i]
                          IN  IF was = DEFAULT THEN is = DEFAULT
                              ELSE is # DEFAULT /\ is[1] = was[1]
  BY DEF KeepsUntouched, ReadsApplied
<1>1. \A k \in Key : Meaning(k, file'[k]) = Kept(k, opts[g][k])
  BY SaveSteps DEF Saves, Meaning, Kept
<1>2. g \in dialog
  BY DEF PreferencesInv
<1>3. ASSUME g \notin behind, NEW k \in Key \ touched[g]
      PROVE  Meaning(k, file'[k]) = Meaning(k, file[k])
  BY <1>1, <1>2, <1>3 DEF PreferencesInv, CacheFits, CopyFits
<1>4. ASSUME NEW k \in StyleOption, NEW i \in {1, 2}
      PROVE  IF opts[g][k][i] = DEFAULT THEN Meaning(k, file'[k])[i] = DEFAULT
             ELSE Meaning(k, file'[k])[i] # DEFAULT /\ Meaning(k, file'[k])[i][1] = opts[g][k][i][1]
  <2>1. k \in Key /\ opts[g][k] \in Value(k)
    BY DEF Key, PreferencesInv, TypeOK, IsOptions
  <2> QED BY <1>1, <2>1, StyleKept
<1> QED BY <1>3, <1>4

-----------------------------------------------------------------------------
(* The theorems *)

LEMMA InvHolds == PreferencesAssumption /\ Spec => []PreferencesInv
<1> SUFFICES ASSUME PreferencesAssumption PROVE Spec => []PreferencesInv
  OBVIOUS
<1>1. Init => PreferencesInv
  BY InvInit
<1>2. PreferencesInv /\ [Next]_vars => PreferencesInv'
  BY InvStep
<1> QED BY <1>1, <1>2, PTL DEF Spec

\* The preferences run with variables of the right types.
THEOREM PreferencesTypeCorrect == PreferencesAssumption /\ Spec => []TypeOK
<1>1. PreferencesInv => TypeOK
  BY DEF PreferencesInv
<1> QED BY <1>1, InvHolds, PTL

\* However many gdiffs write the file, none changes what its user left
\* alone, unless it was behind.
THEOREM KeepsHold == PreferencesAssumption /\ Spec => UntouchedKept
<1> SUFFICES ASSUME PreferencesAssumption PROVE Spec => UntouchedKept
  OBVIOUS
<1>1. PreferencesInv /\ [Next]_vars => [KeepsUntouched]_vars
  BY SavesKeep
<1> QED BY <1>1, InvHolds, PTL DEF Spec, UntouchedKept

\* What is applied is what the next dialog shows.
THEOREM AppliedHolds == PreferencesAssumption /\ Spec => AppliedIsRead
<1> SUFFICES ASSUME PreferencesAssumption PROVE Spec => AppliedIsRead
  OBVIOUS
<1>1. PreferencesInv /\ [Next]_vars => [ReadsApplied]_vars
  BY SavesKeep
<1> QED BY <1>1, InvHolds, PTL DEF Spec, AppliedIsRead

\* A gdiff dies of the file only if someone has edited it.
THEOREM ReadableHolds == PreferencesAssumption /\ Spec => []DiesOfEditsOnly
<1>1. PreferencesInv => DiesOfEditsOnly
  BY DEF PreferencesInv, FilesReadable, DiesOfEditsOnly
<1> QED BY <1>1, InvHolds, PTL
=============================================================================
