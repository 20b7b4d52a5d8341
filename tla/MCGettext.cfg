SPECIFICATION Spec
CONSTANTS
    NULL = NULL
    Domain <- MCDomain
    Dir <- MCDir
    Relative = {"locale"}
    DefaultDir = "/usr/share/locale"
    Messages = 3
    AliasName <- MCAliasName
    AliasFiles <- MCAliasFiles
    First = 2
    Locale <- MCLocale
    Normal <- Utf8
    Alias <- MCAlias
    Untranslatable <- MCUntranslatable
    Msg <- MCMsg
    Contents <- MCContents
    Languages <- MCLanguages
    Message = {1, 2, 3}
    Hash <- MCHash
    Sizes = {0, 5}
INVARIANTS
    TypeOK
    BestCatalogue
PROPERTIES
    IsMap
    SearchesFind
    CallsReturn
CHECK_DEADLOCK FALSE
