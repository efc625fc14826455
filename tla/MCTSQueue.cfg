SPECIFICATION FairSpec
CONSTANTS
    e1 = e1
    e2 = e2
    d1 = d1
    d2 = d2
    x = x
    y = y
    controller = controller
    Garbage = Garbage
    NoThread = NoThread
    Enqueuers <- TwoEnqueuers
    Dequeuers <- TwoDequeuers
    Observers <- Controller
    Items <- TwoItems
    buffer_size = 2
INVARIANTS
    TypeOK
    MutualExclusion
    RingConsistent
    NoGarbage
    NoLostItemWakeup
    NoLostRoomWakeup
PROPERTY
    ImplementsFIFO
    QueueProgress
