\* Up to three boxes in an array that starts with two slots, and a manager whose
\* own array starts with two entries.  manager_list_subs locks the table for
\* ever: then the system stops.
CONSTANTS
    box1 = box1
    box2 = box2
    box3 = box3
    NoBox = NoBox
    Box = {box1, box2, box3}
    name1 = name1
    name2 = name2
    NoName = NoName
    Name = {name1, name2}
    StartCapacity = 2
    ListStart = 2
SPECIFICATION FairSpec
CHECK_DEADLOCK FALSE
INVARIANTS
    TypeOK
    BoxesInTable
    HoleWhenCounted
    TableFollowsPeak
    ListingTells
    ListFits
PROPERTIES
    ListingEnds
    ListingUnlocks
