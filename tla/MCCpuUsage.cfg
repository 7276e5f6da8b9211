SPECIFICATION MCSpec
CONSTANTS
    Query = {q1, q2}
    MaxEntries = 3
    MaxAsked = 4
    MaxTime = 3
    Idle = Idle
    Word = 1000
    Byte = 256
    Counter = 4
    PacketBytes = 2
    Margin = 1
    MaxTasks = 2
    Task = {"IDLE", "wifi", "httpd"}
    IdleTask = "IDLE"
    Load <- MCLoad
    Traffic = {0, 3, 5}
    Heap = {4, 8}
    TaskCount = {2, 3}
    Latency = {1, 600}
    MaxUptime = 18
    MaxCount = 3
SYMMETRY Symm
INVARIANT CpuUsageIsShare
