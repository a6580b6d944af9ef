SPECIFICATION Spec
CONSTANTS
    Name = {t, u}
    Column <- MCColumn
    MAX_COLUMNS = 2
    EXTENT_SIZE = 2
    PAGE_ROOM = 2
    MaxCreations = 3
SYMMETRY Symmetry
INVARIANTS
    TypeOK
    OidsNameOneTable
    CreatedOnce
PROPERTIES
    ReopenKeepsTables
