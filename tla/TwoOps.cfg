SPECIFICATION FairSpec
CONSTANTS
    Bytes <- MCBytes
    Fp <- MCFp
    NoTensor = NoTensor
    NoBuf = NoBuf
    NoFp = NoFp
    Junk = Junk
    Tensor = {"s", "p"}
    Serial = {"s"}
    Content <- Told
    Tiles = 2
    Ctx = {"c1", "c2"}
    Thread = {1, 2, 3}
    CtxOf <- TwoCtx
    Ith <- TwoIth
    Uses <- OwnPar
    Buf = {b1, b2}
    Cap = 2
    FirstGrowth = 2
    MaxOps = 3
    AllocMayFail = FALSE
    TableMayMove = TRUE
    InFlight = {}
INVARIANTS
    UsersSeeWholePack
    OnePathPerOp
    PendingIsExact
    OneSerialPacker
    NobodyWaitsInVain
PROPERTIES
    EveryCallReturns
    ImplementsDirect
    NoWriteUnderReader
