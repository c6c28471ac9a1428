SPECIFICATION Spec
CONSTANTS
    IntBits = 4
    LongBits = 8
    TempSize = 3
    Parts = 8
    Char <- MCChar
    Formats <- MCFormats
    Header <- MCHeader
    Tag <- MCTag
    Sizes = {3, 5, 8}
    LogLevel = 1
    MaxFd = 4
INVARIANTS
    FormatIsCutText
    LineIsText
    FdIsLog
