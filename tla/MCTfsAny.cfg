\* Any clients: stale handles, truncations under open handles, handles that read
\* on behind their block.  The process may abort or crash, and then nothing
\* happens any more.
CONSTANTS
    name1 = name1
    name2 = name2
    longname = longname
    byte1 = byte1
    Garbage = Garbage
    Name = {name1, name2}
    LongName = {longname}
    Byte = {byte1}
    Mode = {{}, {"append"}, {"creat"}, {"creat", "trunc"}}
    MaxInodes = 3
    MaxBlocks = 3
    MaxOpenFiles = 2
    BlockSize = 1
    DirEntries = 2
    MaxLen = 2
    MaxOffset = 3
    Careful = FALSE
SPECIFICATION Spec
CHECK_DEADLOCK FALSE
SYMMETRY DataSymmetry
INVARIANTS
    TypeOK
    BlocksOwned
    DirMatchesInodes
