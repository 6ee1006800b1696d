CONSTANTS
    Producers = {p1, p2}
    Consumers = {c1, c2}
    Capacity = 1
    MaxSent = 2
SPECIFICATION FairSpec
INVARIANTS
    TypeOK
    ProducerOrder
    SoftLimit
    NoLostWakeup
PROPERTIES
    EveryOpcodeTaken
    ImplementsFifo
