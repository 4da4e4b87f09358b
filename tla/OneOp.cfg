SPECIFICATION Spec
CONSTANTS
    Bytes <- MCBytes
    Fp <- MCFp
    NoTensor = NoTensor
    NoBuf = NoBuf
    NoFp = NoFp
    Junk = Junk
    Tensor = {"s", "p", "big", "huge"}
    Serial = {"s"}
    Content <- Told
    Tiles = 4
    Ctx = {"c1"}
    Thread = {1, 2, 3}
    CtxOf <- OneCtx
    Ith <- OneIth
    Uses <- AnyTensor
    Buf = {b1, b2, b3}
    Cap = 2
    FirstGrowth = 2
    MaxOps = 3
    AllocMayFail = FALSE
    TableMayMove = TRUE
    InFlight = {}
INVARIANTS
    UsersSeeWholePack
    OnePathPerOp
    PendingIsExact
    OneSerialPacker
PROPERTIES
    NoWriteUnderReader
    OnlyClearUncaches
