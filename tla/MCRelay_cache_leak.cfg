CONSTANTS
    A = A
    B = B
    C = C
    M1 = M1
    M2 = M2
    M3 = M3
    NoEntry = NoEntry
    Chains <- MCChains
    Msgs <- MCMsgs
    Src <- MCSrc
    Dst <- MCDst
    Height <- MCHeight
    InitHead <- MCInitHead
    StartHeight <- MCStartZero
    MaxHeight = 4
    DefaultTxRetry = 2
    SaveHeightMaxAfter = 1
    WordSize = 16
    StoreCanFail = FALSE
    RouteCanError = FALSE
    QueryCanFail = FALSE
    FreshStarts = {FALSE}
    MaxSpawn = 2
    MaxCrashes = 1
SPECIFICATION Spec
PROPERTY EventuallyEvicted
