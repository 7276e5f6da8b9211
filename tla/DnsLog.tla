------------------------------- MODULE DnsLog -------------------------------
(***************************************************************************)
(* dns_log.c: the ring buffer in which the DNS proxy task logs each query  *)
(* and from which the web server task reads the latest ones.  The buffer   *)
(* is only touched inside a critical section, which makes the body of each *)
(* call one step; the time stamp is taken before the section is entered,   *)
(* so other tasks run, and time passes, between the two.                   *)
(*                                                                         *)
(* Abstracted: MAC, address, name and type of a query are one member of    *)
(* Query (over-long names are cut when they are copied).                   *)
(***************************************************************************)
EXTENDS Integers, Sequences

CONSTANTS
    Query,       \* what is logged of a query
    MaxEntries,  \* DNS_LOG_MAX_ENTRIES
    MaxAsked,    \* bound on the number of lines a reader asks for
    MaxTime,     \* bound on the clock
    Idle         \* no add is under way

ASSUME LogAssumption ==
    /\ MaxEntries \in Nat \ {0}
    /\ MaxAsked \in Nat
    /\ MaxTime \in Nat
    /\ Idle \notin [query : Query, ts : 0 .. MaxTime]

VARIABLES
    entries,   \* s_entries
    head,      \* s_head
    count,     \* s_count
    now,       \* esp_timer_get_time() in seconds
    adding,    \* the line of the dns_log_add under way in the proxy task
    report     \* what the last dns_log_get_latest wrote to its caller

vars == <<entries, head, count, now, adding, report>>

Slots == 0 .. MaxEntries - 1
Line == [query : Query, ts : 0 .. MaxTime]

TypeOK ==
    /\ entries \in [Slots -> Line \union {Idle}]
    /\ head \in Slots
    /\ count \in 0 .. MaxEntries
    /\ now \in 0 .. MaxTime
    /\ adding \in Line \union {Idle}
    /\ report \in Seq(Line)

-----------------------------------------------------------------------------

Init ==
    /\ entries = [i \in Slots |-> Idle]
    /\ head = 0
    /\ count = 0
    /\ now = 0
    /\ adding = Idle
    /\ report = <<>>

\* dns_log_add up to the critical section.  There is one proxy task, hence
\* one add at a time.
BeginAdd(q) ==
    /\ adding = Idle
    /\ adding' = [query |-> q, ts |-> now]
    /\ UNCHANGED <<entries, head, count, now, report>>

\* Mutant: the count is not capped in time.
FinishAddOvercounts ==
    /\ adding # Idle
    /\ entries' = [entries EXCEPT ![head] = adding]
    /\ head' = (head + 1) % MaxEntries
    /\ count' = IF count <= MaxEntries THEN count + 1 ELSE count
    /\ adding' = Idle
    /\ UNCHANGED <<now, report>>

\* The critical section of dns_log_add.
FinishAdd ==
    /\ adding # Idle
    /\ entries' = [entries EXCEPT ![head] = adding]
    /\ head' = (head + 1) % MaxEntries
    /\ count' = IF count < MaxEntries THEN count + 1 ELSE count
    /\ adding' = Idle
    /\ UNCHANGED <<now, report>>

\* Mutants: oldest first; and off by one.
SlotFromOldest(k) == (head + MaxEntries - count + k - 1) % MaxEntries
SlotOffByOne(k) == (head + MaxEntries - k + 1) % MaxEntries

\* The slot of the k-th newest line, in the unsigned arithmetic of the code.
SlotOf(k) == (head + MaxEntries - k) % MaxEntries

\* dns_log_get_latest, called by add_dns_logs_json (for as many as there are).
GetLatest(n) ==
    /\ report' = [k \in 1 .. (IF count > n THEN n ELSE count) |-> entries[SlotOf(k)]]
    /\ UNCHANGED <<entries, head, count, now, adding>>

Tick ==
    /\ now < MaxTime
    /\ now' = now + 1
    /\ UNCHANGED <<entries, head, count, adding, report>>

Next ==
    \/ \E q \in Query : BeginAdd(q)
    \/ FinishAdd
    \/ \E n \in 1 .. MaxAsked : GetLatest(n)
    \/ Tick

Spec == Init /\ [][Next]_vars

-----------------------------------------------------------------------------

\* The lines the buffer holds, newest first.
Recent == [k \in 1 .. count |-> entries[SlotOf(k)]]

Descending(s) == \A i, j \in DOMAIN s : i <= j => s[i].ts >= s[j].ts

(* The page never shows an older query above a newer one, although the      *)
(* stamp is taken before the lock is.                                       *)
NewestFirst == Descending(report)

\* The inductive invariant: what is in the ring is made of lines, is sorted,
\* and is older than the line being added.
LogInv ==
    /\ TypeOK
    /\ NewestFirst
    /\ \A k \in 1 .. count : Recent[k] \in Line
    /\ Descending(Recent)
    /\ \A k \in 1 .. count : Recent[k].ts <= now
    /\ adding # Idle => /\ adding.ts <= now
                        /\ \A k \in 1 .. count : Recent[k].ts <= adding.ts

Abs == INSTANCE RecentQueries WITH recent <- Recent, Capacity <- MaxEntries

(* The ring implements the list of recent queries: wrapping around, a full  *)
(* buffer and a reader asking for fewer or more lines than there are lose   *)
(* or repeat nothing.                                                       *)
ImplementsRecent == Abs!Spec

=============================================================================
