CONSTANTS
    Nil = Nil
    Start = 1
    InitHead = 1
    MaxHeight = 5
    MaxLatest = 6
    Concurrency = 3
    FetchRetries = 3
    RPCCanHang = FALSE
SPECIFICATION Spec
PROPERTY ListenerRefines
