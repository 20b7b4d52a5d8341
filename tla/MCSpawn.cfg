CONSTANTS
    r1 = r1
    r2 = r2
    r3 = r3
    gd = gd
    Run <- MCRun
    Gdiff <- MCGdiff
    Lines <- MCLines
    PipeCap = 1
SPECIFICATION SpawnSpec
INVARIANTS
    SpawnTypeOK
    WriteEndIsolation
    DrainedAtClose
    ZombieBound
PROPERTY ForkedIsRead
CHECK_DEADLOCK FALSE
