SPECIFICATION MCSpec
CONSTANTS
    SaveOrder <- ThreeKeys
    Val <- MCVal
    Bad <- MCBad
    Default = "d"
    Absent = Absent
    Requests <- MCRequests
    None = None
    MaxTimers = 2
    Ssid = {"s1", "s2", "s3", "s4"}
    MaxHistory = 3
    Empty = ""
    NoKey = NoKey
    NoSsid = "none"
    Faults = {"power", "nvs", "timer", "button"}
INVARIANTS
    SaveInv
    SavedIsStored
    WebResetIsFinal
    AddedIsFirst
PROPERTIES
    SavedIsApplied
    SavedTakesEffect
    ImplementsRecent
