SPECIFICATION Spec
CONSTANTS
    Name = {t, u}
    Column <- MCColumn
    MAX_COLUMNS = 3
    EXTENT_SIZE = 2
    PAGE_ROOM = 3
    MaxCreations = 3
PROPERTIES
    ReopenKeepsColumnOrder
