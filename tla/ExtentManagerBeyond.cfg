SPECIFICATION Spec
CONSTANTS
    EXTENT_SIZE = 2
    GAM_MAX_BITS = 2
    MaxExtent = 6
    TouchedPages = {4, 5, 6}
    WrittenBits = {{}}
    WrittenHints = {0}
    WrittenLinks = {0}
INVARIANTS
    GamPagesAreNotHandedOut
