SPECIFICATION Spec
CONSTANTS
    Options <- MCOptions
    Alias <- MCAlias
    Exec <- MCExec
    Numbers <- MCNumbers
    Depth = 6
    Posix = FALSE
    Lines <- MCLines
    Stuffs <- MCStuffs
    Stuffed = 1
    LoopOptions <- MCLoopOptions
    LoopAlias <- MCLoopAlias
    LoopDepth = 4
    LoopPosix = TRUE
    LoopLines <- MCLoopLines
    AgainLines <- MCAgainLines
    Stored <- MCStored
    KeepFirst = FALSE
    Program <- MCProgram
    App <- MCApp
    Files <- MCFiles
    Texts <- MCTexts
    LeftCols <- MCLeftCols
    Columns = 19
INVARIANTS
    TypeOK
    ReadsConfig
    BreaksHelp
    ReadsAgain
PROPERTIES
    ReadsAsText
    CallsReturn
CHECK_DEADLOCK FALSE
