SPECIFICATION FairSpec
CONSTANTS
    EXTENT_SIZE = 3
    GAM_MAX_BITS = 3
    MaxExtent = 6
    TouchedPages = {7}
    WrittenBits = {{0}}
    WrittenHints = {0}
    WrittenLinks = {3}
INVARIANTS
    TypeOK
    NothingFreeIsSkipped
    OneUserPerExtent
PROPERTIES
    ImplementsSpace
    AllocationEnds
