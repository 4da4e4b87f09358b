SPECIFICATION AllSpec
CONSTANTS
    MR = 2
    NR = 2
    KC = 2
    Kinds = {"grid16"}
    OwnKinds = {}
    TileSize <- Grid16Cells
    SliceUnit <- GridCells
    Shapes <- Grid16Shapes
    Teams = {2}
    RefusalsDiffer = FALSE
    Junk = Junk
INVARIANTS
    EveryStoreIsTheProduct
