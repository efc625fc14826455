SPECIFICATION FairSpec
CONSTANTS
    p1 = p1
    Nothing = Nothing
    Lines = 2
    Producers <- OneProducer
    ReaderQueueSize = 1
    WorkerQueueSize = 3
    WriterQueueSize = 1
    LowThreshold = 1
    HighThreshold = 2
    MaxConsumers = 2
PROPERTY
    JoinsReturn
