SPECIFICATION Spec
CONSTANTS
    HdrSize = 2
    HdrBufSize = 3
    PkgMaxSize = 5
    PkgSlack = 1
    Sizes = {0, 2, 3, 4, 5}
    StreamLen = 6
INVARIANTS
    TypeOK
    WritesInBounds
    NoLeak
    DeliveredWhole
    DeliveredIsParse
