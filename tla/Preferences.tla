---------------------------- MODULE Preferences ----------------------------
(***************************************************************************)
(* The preferences of several gdiffs over one configuration file           *)
(* (options.c, global.c).                                                  *)
(*                                                                         *)
(* A dialog gets a copy of all options, read from the file when the dialog *)
(* is made; its widgets change the copy in place, and apply writes all of  *)
(* the copy back.  gnome_config keeps what it read of the file in the      *)
(* memory of its process; whether a later read looks at the file again is  *)
(* the library's affair.                                                   *)
(*                                                                         *)
(* The text of a key is the sequence of its fields: none if the key is     *)
(* missing, a number, or the two colours of a style, which a comma         *)
(* separates.  A colour has 16 bits in memory and 8 in the file, or is the *)
(* default of the theme (PIXEL_DEFAULT).  The empty key that               *)
(* save_config_file writes for each label is never read and left out.      *)
(***************************************************************************)
EXTENDS Integers, Sequences

CONSTANTS
    Gdiff,       \* the processes
    Check,       \* the options of check buttons
    Radio,       \* the options of groups of radio buttons
    StyleOption, \* the options with two colours
    Choices,     \* the number of buttons in a group
    Numbers,     \* the numbers that can be in the file
    High, Low,   \* the high and the low bytes of colours
    DEFAULT,
    NotCached

Number == Check \cup Radio
Key    == Number \cup StyleOption
Colour == (High \X Low) \cup {DEFAULT}
Field  == High \cup {DEFAULT}

Value(k) == IF k \in Number THEN Numbers ELSE Colour \X Colour
Text(k)  == IF k \in Number THEN {<< >>} \cup {<<n>> : n \in Numbers}
            ELSE {<< >>} \cup {<<f>> : f \in Field} \cup (Field \X Field)

IsOptions(o) == o = [k \in Key |-> o[k]] /\ \A k \in Key : o[k] \in Value(k)
IsFile(f)    == f = [k \in Key |-> f[k]] /\ \A k \in Key : f[k] \in Text(k)

PreferencesAssumption ==
    /\ Number \cap StyleOption = {}
    /\ Choices \in Nat
    /\ {0, 1} \cup 0..(Choices - 1) \subseteq Numbers
    /\ 0 \in Low
    /\ DEFAULT \notin High \cup (High \X Low)

VARIABLES
    file,     \* the configuration file
    cache,    \* what the gnome_config of each process has read or written
    dialog,   \* the processes with a preferences dialog
    opts,     \* the copy of the options each dialog works on
    touched,  \* the options the user has changed in each dialog
    dirty,    \* the dialogs with a page that has changes to apply
    crashed,  \* the processes that died reading the file
    behind,   \* the processes whose cache misses a change of the file
    edited    \* someone has edited the file by hand

vars == <<file, cache, dialog, opts, touched, dirty, crashed, behind, edited>>

TypeOK ==
    /\ IsFile(file)
    /\ DOMAIN cache = Gdiff
    /\ \A g \in Gdiff : cache[g] = NotCached \/ IsFile(cache[g])
    /\ dialog \in SUBSET Gdiff
    /\ DOMAIN opts = Gdiff
    /\ \A g \in Gdiff : IsOptions(opts[g])
    /\ touched \in [Gdiff -> SUBSET Key]
    /\ dirty \in SUBSET Gdiff
    /\ crashed \in SUBSET Gdiff
    /\ behind \in SUBSET Gdiff
    /\ edited \in BOOLEAN

-----------------------------------------------------------------------------
(* read_config_file and save_config_file, for one option *)

\* Faulty: the pixel that says "default" is not changed.
ParseUnmarked(f) == DEFAULT

\* gdk_color_parse: the low byte is zero; what is no colour stays default.
Parse(f) == IF f = DEFAULT THEN DEFAULT ELSE <<f, 0>>

\* "default", or the high bytes.
Format(c) == IF c = DEFAULT THEN DEFAULT ELSE c[1]

\* strchr finds no comma, and its result is written through.
Malformed(k, text) == k \in StyleOption /\ Len(text) = 1

ReadOption(k, text) ==
    IF k \in Number
    THEN IF text = << >> THEN 0 ELSE text[1]
    ELSE IF text = << >> THEN <<DEFAULT, DEFAULT>>
         ELSE <<Parse(text[1]), Parse(text[2])>>

\* Faulty: a style that is the default all over is written as one word.
SaveOptionShort(k, v) ==
    IF k \in Number THEN <<v>>
    ELSE IF v = <<DEFAULT, DEFAULT>> THEN <<DEFAULT>>
    ELSE <<Format(v[1]), Format(v[2])>>

SaveOption(k, v) ==
    IF k \in Number THEN <<v>> ELSE <<Format(v[1]), Format(v[2])>>

\* What an option will be after the next read: the low bytes are lost.
Kept(k, v) == ReadOption(k, SaveOption(k, v))

Defaults == [k \in Key |-> ReadOption(k, << >>)]

\* No configuration file yet, or one that gdiff wrote.
Init ==
    /\ file \in {[k \in Key |-> << >>], [k \in Key |-> SaveOption(k, Defaults[k])]}
    /\ cache = [g \in Gdiff |-> NotCached]
    /\ dialog = {}
    /\ opts = [g \in Gdiff |-> Defaults]
    /\ touched = [g \in Gdiff |-> {}]
    /\ dirty = {}
    /\ crashed = {}
    /\ behind = Gdiff
    /\ edited = FALSE

-----------------------------------------------------------------------------
(* The dialog *)

\* What gnome_config answers from: the file, or what it has in memory.
Consulted(g) == {file} \cup ({cache[g]} \ {NotCached})

\* global_get_options: every dialog reads a fresh copy.
Opens(g, text) ==
    opts' = [opts EXCEPT ![g] = [k \in Key |-> ReadOption(k, text[k])]]

OpenDialog(g) ==
    /\ g \notin dialog \cup crashed
    /\ \E text \in Consulted(g) :
          /\ cache' = [cache EXCEPT ![g] = text]
          /\ behind' = IF text = file THEN behind \ {g} ELSE behind
          /\ IF \E k \in Key : Malformed(k, text[k])
             THEN /\ crashed' = crashed \cup {g}
                  /\ UNCHANGED <<dialog, opts, touched>>
             ELSE /\ dialog' = dialog \cup {g}
                  /\ Opens(g, text)
                  /\ touched' = [touched EXCEPT ![g] = {}]
                  /\ UNCHANGED crashed
    /\ UNCHANGED <<file, dirty, edited>>

\* A widget writes through its pointer into the copy and marks its page.
Change(g, k, v) ==
    /\ g \in dialog
    /\ opts' = [opts EXCEPT ![g][k] = v]
    /\ touched' = [touched EXCEPT ![g] = @ \cup {k}]
    /\ dirty' = dirty \cup {g}
    /\ UNCHANGED <<file, cache, dialog, crashed, behind, edited>>

\* Faulty: each toggle counts.
CheckCounts(g) ==
    \E k \in Check : Change(g, k, opts[g][k] + 1)

CheckToggled(g) ==
    \E k \in Check : Change(g, k, IF opts[g][k] = 0 THEN 1 ELSE 0)

\* Pressed is enough: the button need not become active.
RadioPressed(g) ==
    \E k \in Radio, i \in 0..(Choices - 1) : Change(g, k, i)

\* fg_changed and bg_changed.
ColourChanged(g) ==
    \E k \in StyleOption, c \in High \X Low :
        \/ Change(g, k, <<c, opts[g][k][2]>>)
        \/ Change(g, k, <<opts[g][k][1], c>>)

\* Apply: save_config_file sets every key, once for each page with changes,
\* and gnome_config_sync writes the file.
Saves(g) ==
    /\ file' = [k \in Key |-> SaveOption(k, opts[g][k])]
    /\ cache' = [cache EXCEPT ![g] = file']
    /\ behind' = Gdiff \ {g}
    /\ dirty' = dirty \ {g}

Apply(g) ==
    /\ g \in dirty
    /\ Saves(g)
    /\ UNCHANGED <<dialog, opts, touched, crashed, edited>>

\* The dialog is gone and its copy forgotten.
Closes(g) ==
    /\ dialog' = dialog \ {g}
    /\ opts' = [opts EXCEPT ![g] = Defaults]
    /\ touched' = [touched EXCEPT ![g] = {}]

\* OK applies what has changed and closes the dialog.
Ok(g) ==
    /\ g \in dialog
    /\ IF g \in dirty THEN Saves(g) ELSE UNCHANGED <<file, cache, behind, dirty>>
    /\ Closes(g)
    /\ UNCHANGED <<crashed, edited>>

\* Cancel, the window manager, or the parent is destroyed (module Dialogs).
CloseDialog(g) ==
    /\ g \in dialog
    /\ Closes(g)
    /\ dirty' = dirty \ {g}
    /\ UNCHANGED <<file, cache, crashed, behind, edited>>

\* gdiff ends, in whatever way, and is started again.
Restart(g) ==
    /\ cache' = [cache EXCEPT ![g] = NotCached]
    /\ behind' = behind \cup {g}
    /\ Closes(g)
    /\ dirty' = dirty \ {g}
    /\ crashed' = crashed \ {g}
    /\ UNCHANGED <<file, edited>>

\* Someone edits the file, once: the bound of the model.
HandEdit ==
    /\ ~edited
    /\ \E k \in Key : \E t \in Text(k) : file' = [file EXCEPT ![k] = t]
    /\ behind' = Gdiff
    /\ edited' = TRUE
    /\ UNCHANGED <<cache, dialog, opts, touched, dirty, crashed>>

Next ==
    \/ \E g \in Gdiff :
          \/ OpenDialog(g)
          \/ CheckToggled(g)
          \/ RadioPressed(g)
          \/ ColourChanged(g)
          \/ Apply(g)
          \/ Ok(g)
          \/ CloseDialog(g)
          \/ Restart(g)
    \/ HandEdit

Spec == Init /\ [][Next]_vars

-----------------------------------------------------------------------------
(* Properties *)

\* An option means what the next reader of the file will make of it.
Meaning(k, text) == ReadOption(k, text)

\* Although every save writes every option, a save changes the meaning of no
\* option that the user left alone in this dialog, unless the file was
\* changed by another gdiff or by hand after this one read it
\* (options.c:503-586).
KeepsUntouched ==
    \A g \in Gdiff : g \in dirty /\ g \notin dirty' /\ file' # file /\ g \notin behind =>
        \A k \in Key \ touched[g] : Meaning(k, file'[k]) = Meaning(k, file[k])
UntouchedKept == [][KeepsUntouched]_vars

\* The next dialog, of whichever gdiff, that reads the file shows what was
\* applied: defaults stay defaults, colours keep their high bytes
\* (options.c:537-570, 626-650).
ReadsApplied ==
    \A g \in Gdiff : g \in dirty /\ g \notin dirty' /\ file' # file =>
        \A k \in StyleOption, i \in {1, 2} :
            LET was == opts[g][k][i]
                is  == Meaning(k, file'[k])[i]
            IN  IF was = DEFAULT THEN is = DEFAULT
                ELSE is # DEFAULT /\ is[1] = was[1]
AppliedIsRead == [][ReadsApplied]_vars

\* gdiff can read whatever gdiff wrote, however many of them write and in
\* whichever state they are restarted: it dies on the file (options.c:635)
\* only if someone else has edited it.
DiesOfEditsOnly == crashed # {} => edited
=============================================================================
