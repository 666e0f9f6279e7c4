SPECIFICATION TickingSpec
CONSTANTS
    Threads = {1, 2, 3, 4}
    Boot = 1
    Idle = 2
    Levels = 3
    Prio <- MCPrio
    Root <- MCRoot
    KernelRoot = 0
    Slice = 2
    MaxSleep = 1
    MaxZombies = 2
CONSTRAINT BeforeTear
INVARIANT ThreadsSound
PROPERTY ThreadsRun
