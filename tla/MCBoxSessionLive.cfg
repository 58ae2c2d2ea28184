\* Three workers without symmetry: two subscribers and a publisher, or fewer.
CONSTANTS
    w1 = w1
    w2 = w2
    w3 = w3
    a = a
    NoWorker = NoWorker
    Worker = {w1, w2, w3}
    Message = {a}
    BoxCapacity = 2
    MaxOpenFiles = 2
    MaxSubNum = 2
SPECIFICATION FairSpec
PROPERTIES
    DeliveredWhilePublishing
    PublisherGetsOn
