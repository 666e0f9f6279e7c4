SPECIFICATION HeapSpec
CONSTANTS
    FrameCount = 7
    FrameUnits = 4096
    Regions <- MCRegions
    Survivors <- MCSurvivors
    RefMax = 255
    MaxOwners = 1
    MaxRun = 3
    MaxClaims = 0
    ClaimFree = TRUE
    ClassSizes <- MCClassSizes
    ObjectOffset = 64
    HeaderSize = 40
    Redzone = 8
    TrailerSize = 24
    Sizes = {600, 2048, 2049}
    Alignments = {8, 4096, 8192}
    GrowTo = {2048, 8168, 8180, 9000}
    MaxHeld = 3
CONSTRAINT BeforeOverrun
INVARIANTS HeapSound BlocksSound FreeListsExact
CHECK_DEADLOCK FALSE
