SPECIFICATION FairSpec
CONSTANTS
    PAGE_SIZE = 7
    HEADER_SIZE = 1
    SLOT_SIZE = 1
    Payload = {"a"}
    Sizes = {1, 2}
    EXTENT_SIZE = 1
    MaxExtent = 1
    UINT32 = 16
INVARIANTS
    TypeOK
PROPERTIES
    ImplementsBag
    ScanIsComplete
    StatementEnds
