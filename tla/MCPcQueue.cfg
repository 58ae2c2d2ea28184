\* One thread on each side, a queue of three slots that wraps around.
CONSTANTS
    p1 = p1
    c1 = c1
    a = a
    b = b
    Producer = {p1}
    Consumer = {c1}
    Elem = {a, b}
    NoElem = NoElem
    Capacity = 3
    SizeMod = 16
SPECIFICATION FairSpec
INVARIANT
    TypeOK
PROPERTIES
    FifoSpec
    WaitingWorkerIsServed
    FullQueueReopens
