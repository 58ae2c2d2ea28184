\* Three workers: a publisher and two subscribers, or two publishers that race
\* for the box and a subscriber.
CONSTANTS
    w1 = w1
    w2 = w2
    w3 = w3
    a = a
    b = b
    NoWorker = NoWorker
    Worker = {w1, w2, w3}
    Message = {a, b}
    BoxCapacity = 3
    MaxOpenFiles = 3
    MaxSubNum = 3
SPECIFICATION Spec
SYMMETRY WorkerSymmetry
INVARIANTS
    TypeOK
    SleeperMissesAtMostOne
    SizeCountsStored
    CountersCoverSessions
PROPERTY
    FeedSpec
