CONSTANTS
    A = A
    B = B
    C = C
    M1 = M1
    M2 = M2
    M3 = M3
    NoEntry = NoEntry
    Chains <- MCChains
    Msgs <- MCMsgs3
    Src <- MCSrc3
    Dst <- MCDst3
    Height <- MCHeight3
    InitHead <- MCInitHead
    StartHeight <- MCStartZero
    MaxHeight = 4
    DefaultTxRetry = 2
    SaveHeightMaxAfter = 1
    WordSize = 16
    StoreCanFail = FALSE
    RouteCanError = FALSE
    QueryCanFail = FALSE
    FreshStarts = {FALSE}
    MaxSpawn = 2
    MaxCrashes = 0
SPECIFICATION Spec
PROPERTY EventuallySettled

