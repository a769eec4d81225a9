CONSTANTS
    a = a
    b = b
    j1 = j1
    j2 = j2
    LastClstr = 5
    PerSect = 4
    SecPerClstr = 2
    nEntries = 2
    Name = {a, b}
    Job = {j1, j2}
    nFCBs = 2
    nFUBs = 6
    Sizes = {0, 5}
    MaxBlks = 2
    Val = {0}
    Attrs = {FALSE, TRUE}
    Renames = TRUE
    ReadsPast = FALSE
    CutsBehind = FALSE
SPECIFICATION Spec
SYMMETRY Symmetry
INVARIANTS TypeOK VolumeSound HelperInFile UsersCounted ClosedIsOnDisk
