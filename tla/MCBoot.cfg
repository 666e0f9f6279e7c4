SPECIFICATION Spec
CONSTANTS
    Firmwares <- MCFirmwares
    MaxRegions = 8
    Storage = 9
    Slack = 1
    MaxAttempts = 4
    MaxChanges = 4
    KernelBase = 4
    KernelPages = 2
    InfoFrame = 3
    BackupFrame = 2
    MinFrames = 8
    MetaFrames = 1
    MetaSpare = 2
INVARIANTS HandsOutSound HandoffSound
PROPERTY BootSettles
CHECK_DEADLOCK FALSE
