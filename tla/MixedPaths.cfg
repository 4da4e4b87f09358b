SPECIFICATION AllSpec
CONSTANTS
    MR = 2
    NR = 2
    KC = 2
    Kinds = {"serial"}
    OwnKinds = {}
    TileSize <- OneCell
    SliceUnit <- OneCell
    Shapes <- FewShapes
    Teams = {2}
    RefusalsDiffer = TRUE
    Junk = Junk
INVARIANTS
    NoElementMissed
