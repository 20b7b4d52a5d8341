------------------------------ MODULE Gettext -------------------------------
(* The translation library.  A lookup goes through its parts one behind    *)
(* the other, each with a state of its own: the binding of the domain, the *)
(* aliases of the locale, the catalogues, and the message in a catalogue.  *)
(* A behaviour is one of one part, which `part' names; the other parts     *)
(* stay in an initial state.  The aliases are there twice, with memory and *)
(* short of it.                                                            *)
EXTENDS Integers, Sequences

CONSTANTS
    NULL,
    Domain, Dir, Relative, DefaultDir, Messages,       \* of Bindings
    AliasName, AliasFiles, First,                      \* of Aliases
    Locale, Normal(_), Alias, Untranslatable,          \* of Catalogs
    Msg, Contents, Languages,
    Message, Hash, Sizes                               \* of FindMsg

VARIABLES
    part,
    bindings, current, bound,
    path, read, map, maxmap, item, expansion,
    contents, entries, asked, found,
    hash, orig, hash_tab, msgid, idx, position

Bindings == INSTANCE Bindings WITH None <- NULL, answer <- bound

Aliases == INSTANCE Aliases WITH
    Name <- AliasName, Files <- AliasFiles, Fails <- {}, answer <- expansion

ShortOfMemory == INSTANCE Aliases WITH
    Name <- AliasName, Files <- AliasFiles, Fails <- {"string"}, answer <- expansion

Catalogs == INSTANCE Catalogs WITH answer <- found

FindMsg == INSTANCE FindMsg WITH answer <- position

ASSUME GettextAssumption ==
    /\ Bindings!BindingsAssumption
    /\ Aliases!AliasesAssumption
    /\ Catalogs!CatalogsAssumption
    /\ FindMsg!FindMsgAssumption
    /\ 0 \in Sizes

bindingsVars == <<bindings, current, bound>>
aliasesVars  == <<path, read, map, maxmap, item, expansion>>
catalogsVars == <<contents, entries, asked, found>>
findMsgVars  == <<hash, orig, hash_tab, msgid, idx, position>>
vars         == <<part, bindingsVars, aliasesVars, catalogsVars, findMsgVars>>

\* A part that does not run has some path, file or catalogue before it.
Init ==
    /\ part \in {"bindings", "aliases", "short", "catalogs", "find_msg"}
    /\ part \notin {"aliases", "short"} => path = CHOOSE files \in AliasFiles : TRUE
    /\ part # "catalogs" => contents = CHOOSE c \in Contents : TRUE
    /\ part # "find_msg" =>
          hash = (CHOOSE h \in [Message -> Hash] : TRUE) /\ orig = << >> /\ hash_tab = << >>
    /\ Bindings!Init /\ Aliases!Init /\ Catalogs!Init /\ FindMsg!Init

Next ==
    /\ UNCHANGED part
    /\ \/ /\ part = "bindings" /\ Bindings!Next
          /\ UNCHANGED <<aliasesVars, catalogsVars, findMsgVars>>
       \/ /\ part = "aliases" /\ Aliases!Next
          /\ UNCHANGED <<bindingsVars, catalogsVars, findMsgVars>>
       \/ /\ part = "short" /\ ShortOfMemory!Next
          /\ UNCHANGED <<bindingsVars, catalogsVars, findMsgVars>>
       \/ /\ part = "catalogs" /\ Catalogs!Next
          /\ UNCHANGED <<bindingsVars, aliasesVars, findMsgVars>>
       \/ /\ part = "find_msg" /\ FindMsg!Next
          /\ UNCHANGED <<bindingsVars, aliasesVars, catalogsVars>>

\* A call runs to its end; nothing obliges the program to make one.
Expands  == part = "aliases" /\ Aliases!Turn /\ UNCHANGED <<part, bindingsVars, catalogsVars, findMsgVars>>
Searches == part = "find_msg" /\ FindMsg!Turn /\ UNCHANGED <<part, bindingsVars, aliasesVars, catalogsVars>>

Spec == Init /\ [][Next]_vars /\ WF_vars(Expands) /\ WF_vars(Searches)

-----------------------------------------------------------------------------
(* The properties of the parts, which their modules state *)

TypeOK == Bindings!TypeOK /\ Bindings!Sorted /\ Aliases!TypeOK /\ Catalogs!TypeOK /\ FindMsg!TypeOK

\* The list of bindings answers as a map from domains to directories
\* (DomainMap), although each search stops early (bindtextdom.c:88,
\* dcgettext.c:254).
IsMap == Bindings!IsMap

\* A name is expanded to what some file says of it, and while there is
\* memory no alias is missed (localealias.c:148-184, 277-291); a message is
\* found where it is in its file (dcgettext.c:407-473).  A catalogue is read
\* once and stays for later searches (loadmsgcat.c:76).
SearchesFind ==
    [][CASE part = "aliases"  -> Aliases!AnswersAFile /\ Aliases!MissesNone
         [] part = "short"    -> ShortOfMemory!AnswersAFile
         [] part = "catalogs" -> Catalogs!StaysDecided
         [] part = "find_msg" -> FindMsg!Finds
         [] OTHER             -> TRUE]_vars

\* A translation is from a catalogue of a locale asked for and of the
\* message (l10nflist.c:272-296), and from the best of those named as the
\* user writes, whatever was asked before (dcgettext.c:352-377).
BestCatalogue == Catalogs!AnswerFits /\ Catalogs!BestAsWritten

\* The search for an alias returns (localealias.c:148-184), and so does that
\* for a message (dcgettext.c:427-446).
CallsReturn ==
    /\ part = "aliases" /\ item # {} ~> item = {}
    /\ FindMsg!Ends
=============================================================================
