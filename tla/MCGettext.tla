------------------------------ MODULE MCGettext ------------------------------
(* The translation library on small tables.  Bindings of four domains, the *)
(* default one between the others, to three directories.  Paths of three   *)
(* files of aliases, some missing, with up to two aliases each, in the     *)
(* wrong order and in two cases.  Four German locales that share           *)
(* catalogues, one of them an alias, one with a modifier, beside a French  *)
(* one and C.  Every file of some of three messages, with every way in     *)
(* which they collide in a table of five entries, and files without one.   *)
EXTENDS Gettext

MCDomain == 1..4
MCDir    == {"/usr/share/locale", "/opt", "locale"}

Line(n, case, value) == [alias |-> <<n, case>>, value |-> value]

MCAliasName == {<<1, "lower">>, <<2, "lower">>, <<2, "upper">>, <<3, "lower">>, <<4, "lower">>}

AliasFile == {
    << >>,
    <<Line(1, "lower", "C")>>,
    <<Line(3, "upper", "de"), Line(2, "lower", "fr")>>,
    <<Line(2, "upper", "fr_FR"), Line(1, "upper", "POSIX")>>}
MCAliasFiles == {<<f, g, h>> : f \in AliasFile, g \in AliasFile, h \in AliasFile}

De     == [language |-> "de", territory |-> "DE", codeset |-> "UTF-8"]
DeNorm == [De EXCEPT !.codeset = "utf8"]
DeEuro == [language |-> "de", territory |-> "DE", codeset |-> "utf8", modifier |-> "euro"]
German == [language |-> "german"]
Fr     == [language |-> "fr"]
C      == [language |-> "C"]

Utf8(codeset) == "utf8"

MCLocale         == {De, DeNorm, DeEuro, German, Fr, C}
MCAlias          == [l \in {German} |-> De]
MCUntranslatable == {C}
MCMsg            == {"m1", "m2"}
MCLanguages      == {<<De>>, <<DeNorm>>, <<German>>, <<Fr, De>>, <<DeEuro, C, Fr>>}

De_DE == {<<"", "de">>, <<"_", "DE">>}
GermanFiles == {
    De_DE \cup {<<".", "UTF-8">>},
    De_DE \cup {<<".", "utf8">>},
    {<<"", "de">>},
    {<<"", "de">>, <<"@", "euro">>}}
FrenchFile == {<<"", "fr">>}

\* A missing file, one that is no catalogue, and catalogues.
MCContents ==
    {c \in [GermanFiles \cup {FrenchFile} -> {{"missing"}, {"broken"}, {"m1"}, {"m2"}}] :
        /\ c[FrenchFile] \in {{"broken"}, {"m1"}}
        /\ \A n \in GermanFiles : c[n] # {"broken"}}

MCHash == 0..14
=============================================================================
