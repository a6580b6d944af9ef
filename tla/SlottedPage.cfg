SPECIFICATION Spec
CONSTANTS
    PAGE_SIZE = 14
    HEADER_SIZE = 2
    SLOT_SIZE = 2
    Payload = {"a", "b"}
    Sizes = {1, 3}
INVARIANTS
    TypeOK
    NothingOverlaps
PROPERTIES
    ImplementsRows
    RebuildReclaimsAll
