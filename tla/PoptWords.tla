----------------------------- MODULE PoptWords ------------------------------
(***************************************************************************)
(* The words of a command line and the tables of options and aliases that  *)
(* popt looks them up in (popt/popt.c).  A word is a sequence of strings:  *)
(* dashes, a name or one-letter names, "=" and a value.  A value after "="  *)
(* is not empty.  An option that is not returned has a callback.           *)
(***************************************************************************)
EXTENDS Integers, Sequences

CONSTANTS
    Options, \* records: long and short name, onedash, takes, returns
    Alias,   \* the aliases: functions from <<"-", "-", name>> or <<"-", c>>
    Exec,    \* the options that run another program
    Numbers  \* the words that are numbers

Argv     == Seq(Seq(STRING))
NULL     == << >>
DashDash == <<"-", "-">>

IsOption(w) == w # NULL /\ w[1] = "-"

PoptAssumption ==
    /\ \A o \in Options :
          /\ o.long \in Seq(STRING) /\ o.short \in STRING
          /\ o.takes \in {"none", "val", "string", "int"}
          /\ {o.onedash, o.returns} \subseteq BOOLEAN
          /\ o.takes = "val" => ~o.returns
          /\ \A p \in Options : (o.long = p.long /\ o.long # NULL) \/ (o.short = p.short /\ o.short # "") => o = p
    /\ DOMAIN Alias \cap Exec = {}
    /\ \A key \in DOMAIN Alias \cup Exec : key \in Seq(STRING) /\ IsOption(key) /\ Len(key) >= 2 /\ key # DashDash
    /\ \A key \in DOMAIN Alias : Alias[key] \in Argv

IsLong(w)   == Len(w) >= 2 /\ w[2] = "-"

\* The word without its dashes, and its two sides of "=".
Bare(w) == SubSeq(w, IF IsLong(w) THEN 3 ELSE 2, Len(w))
Cut(w)  == {i \in DOMAIN Bare(w) : Bare(w)[i] = "="}
Name(w) == IF Cut(w) = {} THEN Bare(w)
           ELSE SubSeq(Bare(w), 1, (CHOOSE i \in Cut(w) : \A j \in Cut(w) : i <= j) - 1)
Given(w) == SubSeq(Bare(w), Len(Name(w)) + 2, Len(Bare(w)))

\* findOption for a word, which may be a lone dash, and for a letter.
FindLong(w) ==
    {o \in Options :
        \/ o.long # NULL /\ o.long = Name(w) /\ (IsLong(w) \/ o.onedash)
        \/ w = <<"-">> /\ o.short = "-"}
FindShort(c) == {o \in Options : o.short = c}

\* How aliases and execs are looked up.
LongKey(w)  == DashDash \o Bare(w)
ShortKey(c) == <<"-", c>>
LongOnes(keys) == {key \in keys : IsLong(key)}

Argument(o) == o.takes \in {"string", "int"}
=============================================================================
