CONSTANTS
    Sector = 2
    sBuf = 4
    bpc = 4
    Byte = {0, 1}
    Sizes = {0, 1, 2, 4, 6}
    MaxBytes = 3
    ReadsDirty = FALSE
    SeeksEnd = FALSE
SPECIFICATION StreamSpec
PROPERTY ImplementsByteFile
