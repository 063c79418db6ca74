SPECIFICATION Spec
CONSTANTS
    File = {f, g}
    Fd = {1}
    SS = 3
    SPB = 2
    DPTR = 1
    LEV = 2
    NumBlock = 6
    Sizes = {1, 7}
    Offsets = {10}
    MaxWrites = 2
    MaxRead = 7
    Misuse = {}
    NoFile = NoFile
    Unwritten = Unwritten
SYMMETRY Alike
INVARIANT ReadsBack
INVARIANT NothingLeaked
PROPERTY IsFlatFile
