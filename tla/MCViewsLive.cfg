CONSTANTS
    c1 = c1
    c2 = c2
    t1 = t1
    gd = gd
    Gdiff = gd
    NoView = NoView
    Wait = Wait
    PipeCap = 1
    Tree <- MCTree
    Lines <- MCLines
    Tagged <- MCTagged
    Run = {c1, c2}
    Arg = c1
SPECIFICATION Spec
PROPERTIES
    ActiveIsDrawn
    LoadEnds
    QuitEnds
CHECK_DEADLOCK FALSE
