SPECIFICATION Spec
CONSTANTS
    Bytes <- MCBytes
    Fp <- MCFp
    NoTensor = NoTensor
    NoBuf = NoBuf
    NoFp = NoFp
    Junk = Junk
    Tensor = {"s", "p"}
    Serial = {"s"}
    Content <- Told
    Tiles = 2
    Ctx = {"c1", "c2"}
    Thread = {1, 2, 3}
    CtxOf <- TwoCtx
    Ith <- TwoIth
    Uses <- AnyTensor
    Buf = {b1, b2}
    Cap = 2
    FirstGrowth = 1
    MaxOps = 2
    AllocMayFail = TRUE
    TableMayMove = TRUE
    InFlight = {"clear", "reload"}
INVARIANTS
    TypeOK
    OneSlotPerKey
    BuffersOwned
    BytesAccounted
    ReadyIsSettled
CHECK_DEADLOCK FALSE
