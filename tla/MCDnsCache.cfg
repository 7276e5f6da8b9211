SPECIFICATION MCSpec
CONSTANTS
    Key = {k1, k2, k3}
    Resp = {r1, r2}
    CacheSize = 2
    TTL = 2
    MaxTime = 7
    Never = 10
    NoKey = NoKey
    NoEntry = NoEntry
    NoAnswer = NoAnswer
    QnameSize = 4
    BufSize = 37
    MaxLen = 23
    Address <- MCAddress
    Heads <- MCHeads
    Pieces <- MCPieces
SYMMETRY Symm
INVARIANTS
    CacheInv
    NamesTellQuestions
    AnswersReadBack
PROPERTIES
    EvictsOnlyOldest
    ImplementsMemo
