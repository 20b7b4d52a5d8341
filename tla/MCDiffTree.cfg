CONSTANTS
    NoSurplus = NoSurplus
    MCSize = 4
    MCDepth = 3
    Name <- MCName
    Reports <- MCReports
    Surpluses <- MCSurpluses
SPECIFICATION Spec
INVARIANTS
    TypeOK
    StatusAccumulates
    NothingLost
    NothingInvented
