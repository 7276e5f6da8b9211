SPECIFICATION Spec
CONSTANTS
    SaveOrder <- AllKeys
    Val <- MCVal
    Bad <- MCBad
    Default = "d"
    Absent = Absent
    Requests <- MCRequests
    None = None
    MaxTimers = 2
    Faults = {"button"}
INVARIANT
    ResetIsFinal
