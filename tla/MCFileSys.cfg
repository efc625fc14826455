SPECIFICATION Spec
CONSTANTS
    Names = {f, g, h}
    Sizes <- OddSizes
    Buffers <- OneBuffer
    ReadSizes = {1}
    Bytes = {"x", "y"}
    Junk = Junk
    NumSectors = 13
    SectorSize = 2
    NumDirect = 1
    BitsPerSector = 7
    NumDirEntries = 2
    Split = 1
SYMMETRY SymmetricNames
INVARIANTS
    TypeOK
    SoleOwner
    MapAgrees
    EntriesWhole
    AllocateExact
    AssertionsHold
PROPERTIES
    ImplementsFlatFiles
