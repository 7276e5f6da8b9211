SPECIFICATION FairSpec
CONSTANTS
    Key = {k1, k2, u}
    Unparsed = {u}
    TxId = {t1}
    MaxQueries = 3
    Box = 2
    CacheSize = 1
    TTL = 0
    MaxTime = 1
    Never = 10
    NoKey = NoKey
    NoEntry = NoEntry
    NoAnswer = NoAnswer
    Portal = Portal
    InProvisioning = FALSE
    Faults = {"loss", "send", "socket", "stop", "switch"}
INVARIANTS
    ProxyInv
    OneReplyEach
    OnlyAskedAnswers
    AcceptedAnswersMatch
PROPERTIES
    CacheUsedAsAssumed
    QueriesAreTaken
