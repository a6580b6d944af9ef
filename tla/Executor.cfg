SPECIFICATION Spec
CONSTANTS
    Schema <- MCSchema
    BITS = 2
    BUF_SIZE = 9
    Byte = {0, 2}
    NameLists <- MCNameLists
    LiteralRows <- MCLiteralRows
    Expressions <- MCExpressions
    WhereClauses <- MCWhereClauses
    Selections <- MCSelections
    INT32 = 4
    MaxRows = 2
    MaxPins = 1
INVARIANTS
    TypeOK
PROPERTIES
    RowsReadBack
    ScanAnswersQuery
