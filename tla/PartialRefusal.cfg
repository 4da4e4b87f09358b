SPECIFICATION FairSpec
CONSTANTS
    Bytes <- MCBytes
    Fp <- MCFp
    NoTensor = NoTensor
    NoBuf = NoBuf
    NoFp = NoFp
    Junk = Junk
    Tensor = {"p"}
    Serial = {}
    Content <- Told
    Tiles = 2
    Ctx = {"c1"}
    Thread = {1, 2}
    CtxOf <- OneCtx
    Ith <- OneIth
    Uses <- AnyTensor
    Buf = {b1}
    Cap = 2
    FirstGrowth = 2
    MaxOps = 1
    AllocMayFail = TRUE
    TableMayMove = TRUE
    InFlight = {}
PROPERTIES
    EveryCallReturns
CHECK_DEADLOCK FALSE
