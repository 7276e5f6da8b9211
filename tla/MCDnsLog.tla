------------------------------ MODULE MCDnsLog ------------------------------
(* What the device keeps for the dashboard: the query log (DnsLog), with    *)
(* three slots and two kinds of queries, where readers ask for one line up  *)
(* to one more than the ring holds, and the figures of the system monitor   *)
(* (SysMonitor).  Samples, what is recorded and the log share no state, so  *)
(* that a behaviour is one of only one of them.                             *)
(*                                                                          *)
(* Words are so small that run times and latencies overflow them, and the   *)
(* counter of packets wraps around with every few packets.                  *)
EXTENDS DnsLog, SysMonitor, TLC

VARIABLE part

\* The idle task runs for none or five units of time between two samples.
MCLoad ==
    {[IDLE |-> idle, wifi |-> wifi, httpd |-> 1] : idle \in {0, 5}, wifi \in {2, 4}}

MCInit == part \in {"log", "samples", "benchmarks"} /\ Init /\ MonitorInit

MCNext ==
    /\ UNCHANGED part
    /\ \/ part = "log" /\ Next /\ UNCHANGED monitorVars
       \/ part = "samples" /\ Update /\ UNCHANGED vars
       \/ part = "benchmarks" /\ Recording /\ UNCHANGED vars
       \/ part # "log" /\ Restart /\ UNCHANGED vars

MCSpec == MCInit /\ [][MCNext]_<<part, vars, monitorVars>>

Symm == Permutations(Query)

=============================================================================
