SPECIFICATION FairSpec
CONSTANTS
    p1 = p1
    Nothing = Nothing
    Lines = 4
    Producers <- OneProducer
    ReaderQueueSize = 1
    WorkerQueueSize = 2
    WriterQueueSize = 1
    LowThreshold = 1
    HighThreshold = 1
    MaxConsumers = 3
INVARIANTS
    TypeOK
    LineConserved
    OutputComplete
    OneConsumerServes
PROPERTY
    JoinsReturn
