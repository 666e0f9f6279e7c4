SPECIFICATION Spec
CONSTANTS
    Disks <- MCDisks
    Paths <- MCPaths
    DeviceSectors = 11
    Breakable = {4, 10}
    EntrySectorSize = 4
    EntrySizeMin = 2
    EntriesMax = 4
    MaxPartitions = 2
    U64 = 256
    U32 = 64
    SectorSize = 4
    WordSize = 1
    SlotSize = 1
    Mask = 16
    EOC = 14
    MinClusters = 5
    BufferSize = 8
    NameMax = 5
    MaxOrdinal = 3
    MaxOpen = 1
    MaxDepth = 3
    Requests = {3, 6}
    Rooms = {5}
INVARIANTS VolumeSound LookupExact FilesSound
CHECK_DEADLOCK FALSE
