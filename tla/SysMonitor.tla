----------------------------- MODULE SysMonitor -----------------------------
(***************************************************************************)
(* sys_monitor.c: the figures that the device tells about itself, computed *)
(* in unsigned words from counters that wrap around.  Its own task takes a *)
(* sample every three seconds; the DNS proxy and the web server add what   *)
(* they measured.  A field has one task that writes it, hence one step per *)
(* call.                                                                   *)
(*                                                                         *)
(* Abstracted: one direction of traffic stands for both; what is copied    *)
(* from a driver as it is (errors, stacks, signal) is left out, and so is  *)
(* the copy for /api/stats, which relates no field to another.             *)
(***************************************************************************)
EXTENDS Integers, FiniteSets, Functions

CONSTANTS
    Word,         \* 2^32, the size of an unsigned long
    Byte,         \* 2^8
    Counter,      \* size of the counters of lwIP
    PacketBytes,  \* 800, what a packet is taken to have
    Margin,       \* 32768, what is taken to be in use at the first sample
    MaxTasks,     \* 16
    Task, IdleTask, \* the tasks, and the one that runs when no other does
    Load,         \* how long the tasks run between two samples, together at
                  \* least the three seconds that monitor_task waits
    Traffic,      \* packets sent between two samples
    Heap,         \* sizes of the free heap
    TaskCount,    \* numbers of tasks
    Latency,      \* what is measured
    MaxUptime, MaxCount  \* bounds on the clock and on what is recorded

\* A hundredfold heap fits into a word, a percentage into a byte, and the
\* hundredth of a word that a task may run is a word for all of them at most.
ASSUME MonitorAssumption ==
    /\ Word \in Nat \ {0} /\ Byte \in Nat /\ Byte > 100
    /\ Counter \in Nat \ {0} /\ PacketBytes \in Nat /\ Margin \in Nat \ {0}
    /\ MaxTasks \in Nat
    /\ IsFiniteSet(Task) /\ Cardinality(Task) <= 100 /\ IdleTask \in Task
    /\ Load \subseteq [Task -> Nat] /\ \A load \in Load : SumFunction(load) > 0
    /\ Traffic \subseteq Nat /\ Latency \subseteq Nat
    /\ \A free \in Heap : free \in Nat /\ 100 * (free + Margin) < Word

VARIABLES
    cpu,        \* g_stats.cpu; `read' is whether the last sample had all tasks
    mem,        \* g_stats.mem, its static total_heap included
    net,        \* g_stats.net; `prev' is g_prev_tx_bytes
    bench,      \* g_stats.bench: what is counted of queries and requests ...
    hits, misses, \* ... and how queries fared
    uptime, ran, sent, \* the time since the start, the tasks' share of it, the packets
    told,       \* for the properties: the bytes that the throughputs add up to,
    spent,      \* the latencies recorded, and the queries that did not look
    uncached    \* into the cache

sampled == <<cpu, mem, net, uptime, ran, sent, told>>
recorded == <<bench, hits, misses, spent, uncached>>
monitorVars == <<sampled, recorded>>

User == {"dns", "http"}

NoCpu == [percent |-> [t \in Task |-> 0], total |-> 0, read |-> FALSE]
NoMem == [free |-> 0, heap |-> 0, percent |-> 0]
NoNet == [prev |-> 0, rate |-> 0]
NoTime == [t \in Task |-> 0]
NoBench == [u \in User |-> [count |-> 0, total |-> 0, average |-> 0, maximum |-> 0]]
NoLatency == [u \in User |-> 0]

\* The zero-initialised variables of the file
MonitorInit ==
    /\ cpu = NoCpu /\ mem = NoMem /\ net = NoNet /\ bench = NoBench
    /\ hits = 0 /\ misses = 0 /\ uncached = 0
    /\ uptime = 0 /\ ran = NoTime /\ sent = 0 /\ told = 0 /\ spent = NoLatency

-----------------------------------------------------------------------------

Capped(n) == IF n > 100 THEN 100 ELSE n

\* Mutant: the idle task is counted as well.
CpuSampleOfAll(n, allocated, run) ==
    LET all == SumFunction(run) % Word
        share(t) == IF all = 0 THEN 0 ELSE (((run[t] * 100) % Word) \div all) % Byte
    IN  IF ~allocated THEN [cpu EXCEPT !.read = FALSE]
        ELSE IF n > MaxTasks THEN [cpu EXCEPT !.total = 0, !.read = FALSE]
        ELSE [percent |-> [t \in Task |-> share(t)], read |-> TRUE,
              total |-> Capped(SumFunction([t \in Task |-> share(t)]))]

\* update_cpu_stats for n tasks: no task at all is read when there are more
\* than the array has room for.
CpuSample(n, allocated, run) ==
    LET all == SumFunction(run) % Word
        share(t) == IF all = 0 THEN 0 ELSE (((run[t] * 100) % Word) \div all) % Byte
    IN  IF ~allocated THEN [cpu EXCEPT !.read = FALSE]
        ELSE IF n > MaxTasks THEN [cpu EXCEPT !.total = 0, !.read = FALSE]
        ELSE [percent |-> [t \in Task |-> share(t)], read |-> TRUE,
              total |-> Capped(SumFunction([t \in Task \ {IdleTask} |-> share(t)]))]

\* update_mem_stats
MemSample(free) ==
    LET heap == IF mem.heap = 0 THEN (free + Margin) % Word ELSE mem.heap
        used == (heap - free) % Word
    IN  [free |-> free, heap |-> heap,
         percent |-> Capped((((used * 100) % Word) \div heap) % Byte)]

\* Mutant: the delta is taken in the width of the counter.
NetSampleUnsigned(packets, time) ==
    LET bytes == (packets % Counter) * PacketBytes
    IN  [prev |-> bytes, rate |-> (((bytes - net.prev) % Word) \div time) % Word]

\* update_net_stats; the test for less than a millisecond since the last
\* sample never holds here.
NetSample(packets, time) ==
    LET bytes == (packets % Counter) * PacketBytes
        delta == IF bytes >= net.prev THEN bytes - net.prev ELSE 0
    IN  [prev |-> bytes, rate |-> (delta \div time) % Word]

\* sys_monitor_update, called by monitor_task
Update ==
    /\ \E load \in Load :
          /\ ran' = [t \in Task |-> ran[t] + load[t]]
          /\ uptime' = uptime + SumFunction(load)
    /\ uptime' <= MaxUptime
    /\ \E n \in TaskCount, allocated \in BOOLEAN :
          cpu' = CpuSample(n, allocated, [t \in Task |-> ran'[t] % Word])
    /\ \E free \in Heap : mem' = MemSample(free)
    /\ \E packets \in Traffic : sent' = sent + packets
    /\ net' = NetSample(sent', uptime' - uptime)
    /\ told' = told + net'.rate * (uptime' - uptime)
    /\ UNCHANGED recorded

\* sys_monitor_record_dns_query and sys_monitor_record_http_request
Record(u, l) ==
    LET b == bench[u]
        total == (b.total + l) % Word
    IN  /\ b.count < MaxCount
        /\ bench' = [bench EXCEPT ![u] =
              [count |-> b.count + 1, total |-> total, average |-> total \div (b.count + 1),
               maximum |-> IF l > b.maximum THEN l ELSE b.maximum]]
        /\ spent' = [spent EXCEPT ![u] = @ + l]
        /\ UNCHANGED sampled

\* Mutant: the path for hits forgets the query itself.
HitUnrecorded(l) ==
    /\ hits < MaxCount /\ hits' = hits + 1
    /\ UNCHANGED <<sampled, bench, spent, misses, uncached>>

\* The ways of a query through dns_proxy_task: served from the cache,
Hit(l) == Record("dns", l) /\ hits' = hits + 1 /\ UNCHANGED <<misses, uncached>>

\* missed and then answered, or not answered in time,
Miss(l) == Record("dns", l) /\ misses' = misses + 1 /\ UNCHANGED <<hits, uncached>>

MissInVain ==
    /\ misses < MaxCount /\ misses' = misses + 1
    /\ UNCHANGED <<sampled, bench, hits, spent, uncached>>

\* or answered in captive mode or without having been understood.
Uncached(l) == Record("dns", l) /\ uncached' = uncached + 1 /\ UNCHANGED <<hits, misses>>

\* api_stats_handler, when it has sent its answer
Request(l) == Record("http", l) /\ UNCHANGED <<hits, misses, uncached>>

Recording == MissInVain \/ \E l \in Latency : Hit(l) \/ Miss(l) \/ Uncached(l) \/ Request(l)

\* All of it is lost when the device restarts (restart_timer_cb and others).
Restart ==
    /\ cpu' = NoCpu /\ mem' = NoMem /\ net' = NoNet /\ bench' = NoBench
    /\ hits' = 0 /\ misses' = 0 /\ uncached' = 0
    /\ uptime' = 0 /\ ran' = NoTime /\ sent' = 0 /\ told' = 0 /\ spent' = NoLatency

MonitorNext == Update \/ Recording \/ Restart

MonitorSpec == MonitorInit /\ [][MonitorNext]_monitorVars

-----------------------------------------------------------------------------

(* MONITORING_GUIDE.md:12: the total is what all tasks but the idle one     *)
(* have taken of the time since the start, in per cent, rounded down task   *)
(* by task.                                                                 *)
CpuUsageIsShare ==
    LET busy == SumFunction(ran) - ran[IdleTask]
        rounded == SumFunction([t \in Task |-> 1])
    IN  cpu.read => /\ cpu.total * uptime <= 100 * busy
                    /\ 100 * busy < (cpu.total + rounded) * uptime

(* What a sample says is so, through the wrapping of all counters: the      *)
(* throughputs never add up to more than was sent; the heap's percentage is *)
(* what is used of the total, rounded down, as long as no more is free than *)
(* was thought there is, and at most 100 in any case (with more free, the   *)
(* difference wraps and is cut to a byte before it is capped: the figure    *)
(* then means nothing); and the CPU usage is right as long as a hundredfold *)
(* run time fits into a word, which on the device are 43 seconds.           *)
SamplesAreTrue ==
    /\ told <= sent * PacketBytes
    /\ mem.free <= mem.heap =>
          /\ mem.percent * mem.heap <= 100 * (mem.heap - mem.free)
          /\ 100 * (mem.heap - mem.free) < (mem.percent + 1) * mem.heap \/ mem.heap = 0
    /\ mem.percent <= 100
    /\ (\A t \in Task : 100 * ran[t] < Word) => CpuUsageIsShare

(* The counts of queries fit together, every hit being a query and every    *)
(* query a hit, a miss or one that was not looked up; and as long as the    *)
(* sum of the latencies fits into a word, the average is one and not above  *)
(* the maximum.  (When it wraps the average falls, and stays below.)        *)
BenchmarksAgree ==
    /\ hits + uncached <= bench["dns"].count
    /\ bench["dns"].count <= hits + misses + uncached
    /\ \A u \in User :
          LET b == bench[u]
          IN  /\ b.average <= b.maximum
              /\ spent[u] < Word /\ b.count > 0 =>
                    /\ b.average * b.count <= spent[u]
                    /\ spent[u] < (b.average + 1) * b.count

=============================================================================
