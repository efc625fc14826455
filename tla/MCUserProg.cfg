SPECIFICATION Spec
CONSTANTS
    p = p
    q = q
    r = r
    Programs = {p, q, r}
    Nobody = Nobody
    NumPages <- Sizes
    RodataPage <- RodataInQ
    NumPhysPages = 3
    MAX_OPEN_FILES = 2
SYMMETRY Alike
INVARIANTS
    TypeOK
    FramesOwned
    OwnTable
    NoDescriptorLost
PROPERTIES
    Isolated
CHECK_DEADLOCK FALSE
