SPECIFICATION Spec
CONSTANTS
    t1 = t1
    t2 = t2
    Worker = Worker
    Nobody = Nobody
    NoMail = NoMail
    Users <- UserOrder
    Threads <- AllThreads
    Locks <- AllLocks
    Semaphores <- AllSemaphores
    Boxes = {"box"}
    MaxCalls <- OneRepeats
    MaxKeys = 1
    MaxMail = 2
INVARIANTS
    TypeOK
    OneInside
    OwnAnswer
    NoAssertionFails
    NobodyForgotten
PROPERTIES
    ImplementsMailboxes
    OutputEnds
    MailIsReceived
CHECK_DEADLOCK FALSE
