SPECIFICATION Spec
CONSTANTS
    Bytes <- MCBytes
    Fp <- MCFp
    NoTensor = NoTensor
    NoBuf = NoBuf
    NoFp = NoFp
    Junk = Junk
    Tensor = {"p"}
    Serial = {}
    Content <- Told
    Tiles = 2
    Ctx = {"c1", "c2"}
    Thread = {1, 2, 3, 4}
    CtxOf <- TwoCtx
    Ith <- TwoIth
    Uses <- AnyTensor
    Buf = {b1}
    Cap = 2
    FirstGrowth = 2
    MaxOps = 2
    AllocMayFail = FALSE
    TableMayMove = TRUE
    InFlight = {}
INVARIANTS
    UsersSeeWholePack
