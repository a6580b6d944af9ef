SPECIFICATION Spec
CONSTANTS
    Client = {c1, c2}
    PoolSize = 2
    MaxPage = 2
    Content = {v}
    Zero = zero
    Torn = torn
SYMMETRY Symmetry
INVARIANTS
    TypeOK
    FrameAccounting
    PageTableConsistent
    PinsMatchHolders
    CleanMatchesDisk
PROPERTIES
    LruKeepsOrder
    CheckpointIsDurable
    ImplementsStore
