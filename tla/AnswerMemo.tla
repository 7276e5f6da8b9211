----------------------------- MODULE AnswerMemo -----------------------------
(***************************************************************************)
(* What the DNS proxy's answer cache promises to the task that uses it: a  *)
(* partial map from questions to answers.  An answer found in the map is   *)
(* the last one put there for that very question and is at most TTL old;   *)
(* the map may forget, but a Put costs at most one other question.         *)
(*                                                                         *)
(* Written from the comments of dns_proxy.c on the cache, it knows nothing *)
(* of slots, of their order, or of the valid flags.                        *)
(***************************************************************************)
EXTENDS Integers

CONSTANTS
    Key,       \* the questions: a domain name and a query type
    Resp,      \* the answers
    NoEntry,   \* memo[k] of a question the map does not know
    NoAnswer,  \* what a lookup that found nothing returns
    TTL        \* how long an answer may be given out, in clock units

VARIABLES
    memo,      \* [Key -> answer with its deadline, or NoEntry]
    now,       \* the clock
    served     \* what the last lookup returned

memoVars == <<memo, now, served>>

Fresh(k) == memo[k] # NoEntry /\ now <= memo[k].expiry

Init ==
    /\ memo = [k \in Key |-> NoEntry]
    /\ now = 0
    /\ served = NoAnswer

\* A fresh answer is returned and stays.
GetHit(k) ==
    /\ Fresh(k)
    /\ served' = [key |-> k, resp |-> memo[k].resp]
    /\ UNCHANGED <<memo, now>>

\* No fresh answer: nothing is returned, and a stale one may be dropped.
GetMiss(k) ==
    /\ ~Fresh(k)
    /\ served' = NoAnswer
    /\ memo' \in {memo, [memo EXCEPT ![k] = NoEntry]}
    /\ UNCHANGED now

Put(k, r) ==
    /\ \E forgotten \in Key :
          memo' = [memo EXCEPT ![forgotten] = NoEntry,
                               ![k] = [resp |-> r, expiry |-> now + TTL]]
    /\ UNCHANGED <<now, served>>

Clear ==
    /\ memo' = [k \in Key |-> NoEntry]
    /\ UNCHANGED <<now, served>>

Tick ==
    /\ now' = now + 1
    /\ UNCHANGED <<memo, served>>

Next ==
    \/ \E k \in Key : GetHit(k) \/ GetMiss(k)
    \/ \E k \in Key, r \in Resp : Put(k, r)
    \/ Clear
    \/ Tick

Spec == Init /\ [][Next]_memoVars

=============================================================================
