SPECIFICATION FairSpec
CONSTANTS
    t1 = t1
    t2 = t2
    idle = idle
    b1 = b1
    Threads = {t1, t2, idle}
    Idle = idle
    Endpoints = {1, 2}
    QueueLen = 1
    Bodies = {b1}
    NoBody = NoBody
    MaxId = 2
    MaxRefs = 2
INVARIANTS EndpointsSound NoneStranded
PROPERTIES  WaitersServed
CONSTRAINTS OneServed IdleServes
CHECK_DEADLOCK FALSE
