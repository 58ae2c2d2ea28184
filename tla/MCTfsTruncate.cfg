\* A client reads through a handle of a file that another one truncates.
CONSTANTS
    name1 = name1
    name2 = name2
    longname = longname
    byte1 = byte1
    Garbage = Garbage
    Name = {name1, name2}
    LongName = {longname}
    Byte = {byte1}
    Mode = {{}, {"append"}, {"creat"}, {"creat", "trunc"}}
    MaxInodes = 3
    MaxBlocks = 3
    MaxOpenFiles = 2
    BlockSize = 2
    DirEntries = 2
    MaxLen = 2
    MaxOffset = 3
    Careful = FALSE
SPECIFICATION Spec
CHECK_DEADLOCK FALSE
PROPERTY
    ReadsStayInFile
