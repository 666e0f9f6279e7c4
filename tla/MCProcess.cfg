SPECIFICATION FairSpec
CONSTANTS
    t1 = t1
    t2 = t2
    t3 = t3
    NoThread = NoThread
    MaxProcesses = 3
    Threads = {t1, t2, t3}
    Codes = {0, 1}
    ThreadsEach = 1
INVARIANTS TableSound WaitsSound
PROPERTY WaiterReturns
CHECK_DEADLOCK FALSE
