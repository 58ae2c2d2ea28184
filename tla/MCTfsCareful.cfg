\* Clients that neither truncate nor unlink a file that others use: two files, two
\* handles, which may leak, and two bytes to tell contents apart.
CONSTANTS
    name1 = name1
    name2 = name2
    byte1 = byte1
    byte2 = byte2
    Garbage = Garbage
    Name = {name1, name2}
    LongName = {}
    Byte = {byte1, byte2}
    Mode = {{}, {"append"}, {"creat"}, {"creat", "trunc"}}
    MaxInodes = 3
    MaxBlocks = 3
    MaxOpenFiles = 2
    BlockSize = 2
    DirEntries = 2
    MaxLen = 2
    MaxOffset = 3
    Careful = TRUE
SPECIFICATION Spec
SYMMETRY DataSymmetry
INVARIANTS
    NoBlockLost
    HandlesInFiles
    StaysRunning
PROPERTY
    FileStoreSpec
