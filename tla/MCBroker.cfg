\* Two workers, three names for two boxes and two inodes, two handles: an inode or
\* a handle may be missing, and a slot, an address and an inode are used again.  A
\* box in the first of two slots, once the second is taken, moves the array.
CONSTANTS
    worker1 = worker1
    worker2 = worker2
    Worker = {worker1, worker2}
    box1 = box1
    box2 = box2
    NoBox = NoBox
    Box = {box1, box2}
    name1 = name1
    name2 = name2
    name3 = name3
    NoName = NoName
    Name = {name1, name2, name3}
    StartCapacity = 2
    MaxFiles = 2
    MaxOpenFiles = 2
    MaxSubNum = 2
SPECIFICATION Spec
SYMMETRY BrokerSymmetry
INVARIANTS
    TypeOK
    UsesNoFreed
    NamesHaveFiles
    SessionsInPlace
PROPERTY
    DirectorySpec
