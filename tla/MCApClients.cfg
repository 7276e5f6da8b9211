SPECIFICATION Spec
CONSTANTS
    Mac = {m1, m2, m3}
    Ip = {a1, a2}
    NoMac = NoMac
    NoIp = NoIp
    MaxConn = 2
    MaxQueue = 3
SYMMETRY Symm
CONSTRAINT LookupsWithShortQueues
INVARIANTS
    TableInv
    KnowsItsClients
    LookupIsRight
PROPERTY
    ImplementsBook
