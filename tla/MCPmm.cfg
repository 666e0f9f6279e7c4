SPECIFICATION Spec
CONSTANTS
    FrameCount = 9
    FrameUnits = 2
    Regions <- MCRegions
    Survivors <- MCSurvivors
    RefMax = 2
    MaxOwners = 2
    MaxRun = 3
    MaxClaims = 1
    ClaimFree = TRUE
INVARIANTS CountsExact HandedOutIsUsable
CHECK_DEADLOCK FALSE
