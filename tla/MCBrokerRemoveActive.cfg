\* The instance of MCBroker.cfg: a removal checks a box and then removes it, and a
\* session may join the box in between.
CONSTANTS
    worker1 = worker1
    worker2 = worker2
    Worker = {worker1, worker2}
    box1 = box1
    box2 = box2
    NoBox = NoBox
    Box = {box1, box2}
    name1 = name1
    name2 = name2
    name3 = name3
    NoName = NoName
    Name = {name1, name2, name3}
    StartCapacity = 2
    MaxFiles = 2
    MaxOpenFiles = 2
    MaxSubNum = 2
SPECIFICATION Spec
SYMMETRY BrokerSymmetry
PROPERTY
    RemovesOnlyIdle
