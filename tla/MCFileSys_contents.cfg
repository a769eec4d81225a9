CONSTANTS
    a = a
    b = b
    j1 = j1
    j2 = j2
    LastClstr = 4
    PerSect = 8
    SecPerClstr = 1
    nEntries = 2
    Name = {a, b}
    Job = {j1}
    nFCBs = 2
    nFUBs = 6
    Sizes = {1, 2}
    MaxBlks = 2
    Val = {0, 1}
    Attrs = {FALSE}
    Renames = FALSE
    ReadsPast = FALSE
    CutsBehind = FALSE
SPECIFICATION Spec
PROPERTY ImplementsFileStore
