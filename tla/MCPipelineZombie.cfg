SPECIFICATION Spec
CONSTANTS
    p1 = p1
    Nothing = Nothing
    Lines = 7
    Producers <- OneProducer
    ReaderQueueSize = 1
    WorkerQueueSize = 2
    WriterQueueSize = 1
    LowThreshold = 1
    HighThreshold = 1
    MaxConsumers = 3
INVARIANT
    RemovedConsumerStops
