CONSTANTS
    c1 = c1
    c2 = c2
    t1 = t1
    gd = gd
    Gdiff = gd
    NoView = NoView
    Wait = Wait
    PipeCap = 1
    Tree <- MCTree
    Lines <- MCLines
    Tagged <- MCTagged
    Run <- MCAllViews
    Arg = c1
SPECIFICATION Safe
INVARIANTS
    TypeOK
    SingleLoad
    HalfListHidden
    NoUseAfterFree
    NoPipeAtRest
PROPERTY ShowsWholeDiffs
CHECK_DEADLOCK FALSE
