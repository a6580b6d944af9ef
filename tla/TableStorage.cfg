SPECIFICATION StorageSpec
CONSTANTS
    Table = {t1, t2}
    NoTable = none
    Row = {r1}
    RowsPerPage = 1
    EXTENT_SIZE = 2
    IAM_MAX_EXTENTS = 1
    MaxExtent = 6
SYMMETRY Symmetry
INVARIANTS
    StorageTypeOK
    OneOwner
    TailIsLast
    TablesKeepTheirRows
    RefusedOnlyAfterFailure
PROPERTIES
    ImplementsExtents
    HintsGoStaleByFailure
    LostByFailureOrUnlinking
