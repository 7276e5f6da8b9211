SPECIFICATION Spec
CONSTANTS
    Key = {k1, k2, u}
    Unparsed = {u}
    TxId = {t1, t2}
    MaxQueries = 2
    Box = 2
    CacheSize = 1
    TTL = 1
    MaxTime = 0
    Never = 10
    NoKey = NoKey
    NoEntry = NoEntry
    NoAnswer = NoAnswer
    Portal = Portal
    InProvisioning = TRUE
    Faults = {}
INVARIANT
    CaptiveAnswersAll
