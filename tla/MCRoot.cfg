SPECIFICATION Spec
CONSTANTS
    None = None
    Dot = "."
    Name <- MCName
    Inputs <- MCInputs
    FileSystems <- MCFileSystems
    Widget = {w1, w2, w3}
    Window = Window
    NULL = NULL
    MaxNest = 2
    View = {"d1", "d2", "f1", "f2"}
    Tree = {"d1", "d2"}
    NoView = NoView
    Sharers = {g1, g2}
    Loners = {g3}
    Check = {check}
    Radio = {radio}
    StyleOption = {style}
    Choices = 2
    Numbers = {0, 1, 5}
    High = {7, 8}
    Low = {0, 1}
    DEFAULT = DEFAULT
    NotCached = NotCached
    SharedRadio = {}
    SharedNumbers = {0, 1}
    SharedHigh = {7}
INVARIANT DirectoriesCompared
CHECK_DEADLOCK FALSE
