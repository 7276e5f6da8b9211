--------------------------- MODULE RecentQueries ---------------------------
(***************************************************************************)
(* What the DNS query log promises to the web server: the most recent      *)
(* queries, newest first, none of them missing, repeated or out of order,  *)
(* and never more than the log's capacity.                                 *)
(***************************************************************************)
EXTENDS Integers, Sequences

CONSTANTS
    Line,      \* what is logged: a query and the second it arrived in
    Capacity,  \* how many lines are remembered
    MaxAsked   \* the most lines a reader asks for

VARIABLES
    recent,    \* the remembered lines, newest first
    report     \* what the last reader was given

recentVars == <<recent, report>>

Smaller(m, n) == IF m <= n THEN m ELSE n

Init == recent = <<>> /\ report = <<>>

Record(line) ==
    /\ recent' = SubSeq(<<line>> \o recent, 1, Smaller(Len(recent) + 1, Capacity))
    /\ UNCHANGED report

Show(n) ==
    /\ report' = SubSeq(recent, 1, Smaller(Len(recent), n))
    /\ UNCHANGED recent

Next == (\E line \in Line : Record(line)) \/ (\E n \in 1 .. MaxAsked : Show(n))

Spec == Init /\ [][Next]_recentVars

=============================================================================
