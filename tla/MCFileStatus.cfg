CONSTANTS
    NoSurplus = NoSurplus
    MCSize = 2
    MCDepth = 2
    Name <- MCName
    Reports <- MCReports
    Surpluses <- MCSurpluses
SPECIFICATION Spec
INVARIANT FilesHaveOneStatus
