SPECIFICATION Spec
CONSTANTS
    SectorCount = 4
    RequestSectors = 2
    QueueSizes = {2, 256}
    IndexMod = 4
    Lbas = {0, 3}
    Counts = {0, 1, 3}
    Values = {1}
    MaxCalls = 3
INVARIANTS RequestsSound ReadReturnsDisk WritesReachTheirSectors
PROPERTY CallReturns
CHECK_DEADLOCK FALSE
