---------------------------- MODULE RecentSsids ----------------------------
(***************************************************************************)
(* What the history of station SSIDs promises: "deduplicates, newest       *)
(* first" (wifi_config_manager.h:174).  The SSIDs used last, each of them  *)
(* once, in the order of their last use.                                   *)
(***************************************************************************)
EXTENDS Integers, Sequences

CONSTANTS Ssid, MaxHistory

VARIABLE recent

Init == recent = <<>>

\* Where the SSID is, or the next place, or the last one if all are taken:
\* the SSID there, not used for longest, is then forgotten.
Place(s) ==
    IF \E k \in 1 .. Len(recent) : recent[k] = s
    THEN CHOOSE k \in 1 .. Len(recent) : recent[k] = s
    ELSE IF Len(recent) < MaxHistory THEN Len(recent) + 1 ELSE MaxHistory

\* The SSID moves from there to the front, those before it make room.
Use(s) ==
    LET k == Place(s)
        length == IF k <= Len(recent) THEN Len(recent) ELSE k
    IN  recent' = [i \in 1 .. length |->
                     IF i = 1 THEN s ELSE IF i <= k THEN recent[i - 1] ELSE recent[i]]

Forget == recent' = <<>>

Next == Forget \/ \E s \in Ssid : Use(s)

Spec == Init /\ [][Next]_recent

=============================================================================
