SPECIFICATION AllSpec
CONSTANTS
    MR = 2
    NR = 2
    KC = 2
    Kinds = {"serial", "parallel", "grid"}
    OwnKinds = {"tiles", "slabs", "gemv", "pairs"}
    TileSize <- OneCell
    SliceUnit <- OneCell
    Shapes <- MCShapes
    Teams = {1, 2, 3, 4}
    RefusalsDiffer = FALSE
    Junk = Junk
INVARIANTS
    TypeOK
    EveryStoreIsTheProduct
    NoElementMissed
    OneWriter
