------------------------------ MODULE DnsCache ------------------------------
(***************************************************************************)
(* The answer cache of dns_proxy.c (s_dns_cache): an array of slots        *)
(* searched front to back.  Only the DNS proxy task touches it, so each    *)
(* call is one step; what is modelled around the calls is the order in     *)
(* which that task makes them: a lookup, and only after a miss, perhaps    *)
(* much later, a store for the question that missed (`pending').           *)
(*                                                                         *)
(* Abstracted: names and types are members of Key, answers members of      *)
(* Resp; the length tests never fail, because the one caller passes what   *)
(* recvfrom put into a buffer of DNS_PROXY_BUF_SIZE bytes.                 *)
(***************************************************************************)
EXTENDS Integers, FiniteSets

CONSTANTS
    Key,        \* the questions (qname, qtype)
    Resp,       \* the answers upstream servers give
    CacheSize,  \* DNS_CACHE_SIZE
    TTL,        \* DNS_CACHE_TTL_SEC, in clock units
    MaxTime,    \* bound on the clock
    Never,      \* INT64_MAX, beyond every deadline
    NoKey,      \* no question is pending
    NoEntry, NoAnswer

ASSUME CacheAssumption ==
    /\ CacheSize \in Nat \ {0}
    /\ TTL \in Nat
    /\ MaxTime \in Nat
    /\ Never \in Nat /\ MaxTime + TTL < Never
    /\ NoKey \notin Key
    /\ NoAnswer \notin [key : Key, resp : Resp]
    /\ NoEntry \notin [resp : Resp, expiry : Nat]

VARIABLES
    slot,     \* s_dns_cache
    now,      \* esp_timer_get_time()
    pending,  \* the question whose lookup missed and whose answer is awaited
    served    \* what the last lookup returned

vars == <<slot, now, pending, served>>

Slots == 0 .. CacheSize - 1

Entry == [valid : BOOLEAN, key : Key \union {NoKey},
          resp : Resp \union {NoAnswer}, expiry : Nat]

TypeOK ==
    /\ slot \in [Slots -> Entry]
    /\ now \in 0 .. MaxTime
    /\ pending \in Key \union {NoKey}
    /\ served \in [key : Key, resp : Resp] \union {NoAnswer}

-----------------------------------------------------------------------------

\* The zero-initialised array: nothing in it is valid.
Init ==
    /\ slot = [i \in Slots |-> [valid |-> FALSE, key |-> NoKey,
                                resp |-> NoAnswer, expiry |-> 0]]
    /\ now = 0
    /\ pending = NoKey
    /\ served = NoAnswer

\* Mutant: the name in the slot is not compared.
MatchesAny(i, k) == slot[i].valid

Matches(i, k) == slot[i].valid /\ slot[i].key = k

\* The loop of the lookup stops at the first slot that matches.
FirstMatch(i, k) == Matches(i, k) /\ \A j \in Slots : j < i => ~Matches(j, k)

Expired(i) == now > slot[i].expiry

\* Mutant: the expiry test is missing.
FindsHitForever(k) ==
    /\ \E i \in Slots :
          /\ FirstMatch(i, k)
          /\ served' = [key |-> k, resp |-> slot[i].resp]
    /\ UNCHANGED <<slot, now>>

\* dns_cache_lookup
FindsHit(k) ==
    /\ \E i \in Slots :
          /\ FirstMatch(i, k)
          /\ ~Expired(i)
          /\ served' = [key |-> k, resp |-> slot[i].resp]
    /\ UNCHANGED <<slot, now>>

\* Mutant: the stale slot stays valid.
FindsExpiredKeeps(k) ==
    /\ \E i \in Slots : FirstMatch(i, k) /\ Expired(i)
    /\ served' = NoAnswer
    /\ UNCHANGED <<slot, now>>

\* The first match is too old: it is invalidated and the lookup gives up
\* without looking at the slots behind it.
FindsExpired(k) ==
    /\ \E i \in Slots :
          /\ FirstMatch(i, k)
          /\ Expired(i)
          /\ slot' = [slot EXCEPT ![i].valid = FALSE]
    /\ served' = NoAnswer
    /\ UNCHANGED now

FindsNone(k) ==
    /\ \A i \in Slots : ~Matches(i, k)
    /\ served' = NoAnswer
    /\ UNCHANGED <<slot, now>>

\* The search of dns_cache_store: the slot at which it stops, or -1 as long as
\* it goes on, and of the slots it has passed the one that expires first.
Start == [idx |-> -1, oldest |-> 0, soonest |-> Never]

\* Mutant: an answer is taken for expired at its deadline.
TurnTooEarly(s, i) ==
    CASE s.idx # -1 -> s
      [] s.idx = -1 /\ (~slot[i].valid \/ now >= slot[i].expiry) -> [s EXCEPT !.idx = i]
      [] OTHER -> IF slot[i].expiry < s.soonest
                    THEN [s EXCEPT !.oldest = i, !.soonest = slot[i].expiry] ELSE s

\* Mutant: the earliest deadline so far is not remembered.
TurnForgetsDeadline(s, i) ==
    CASE s.idx # -1 -> s
      [] s.idx = -1 /\ (~slot[i].valid \/ now > slot[i].expiry) -> [s EXCEPT !.idx = i]
      [] OTHER -> IF slot[i].expiry < s.soonest THEN [s EXCEPT !.oldest = i] ELSE s

\* What the turn of the loop for slot i makes of it
Turn(s, i) ==
    CASE s.idx # -1 -> s
      [] s.idx = -1 /\ (~slot[i].valid \/ now > slot[i].expiry) -> [s EXCEPT !.idx = i]
      [] OTHER -> IF slot[i].expiry < s.soonest
                    THEN [s EXCEPT !.oldest = i, !.soonest = slot[i].expiry] ELSE s

\* The search before slot n
Search[n \in 0 .. CacheSize] == IF n = 0 THEN Start ELSE Turn(Search[n - 1], n - 1)

Victim == LET s == Search[CacheSize] IN IF s.idx = -1 THEN s.oldest ELSE s.idx

Filled(k, r) == [valid |-> TRUE, key |-> k, resp |-> r, expiry |-> now + TTL]

\* dns_cache_store
Write(k, r) ==
    /\ slot' = [slot EXCEPT ![Victim] = Filled(k, r)]
    /\ UNCHANGED <<now, served>>

\* Mutant: the names are cleared, the flags are not.
EmptyKeepsFlags ==
    /\ slot' = [i \in Slots |-> [slot[i] EXCEPT !.key = NoKey]]
    /\ UNCHANGED <<now, served>>

\* dns_cache_init.  What the slots held stays behind their cleared flags.
Empty ==
    /\ slot' = [i \in Slots |-> [slot[i] EXCEPT !.valid = FALSE]]
    /\ UNCHANGED <<now, served>>

-----------------------------------------------------------------------------
\* The order in which the proxy task makes the calls.

LookupHit(k) ==
    /\ pending = NoKey
    /\ FindsHit(k)
    /\ UNCHANGED pending

LookupExpired(k) ==
    /\ pending = NoKey
    /\ FindsExpired(k)
    /\ pending' = k

LookupAbsent(k) ==
    /\ pending = NoKey
    /\ FindsNone(k)
    /\ pending' = k

\* Upstream answered the pending question.
Store(r) ==
    /\ pending # NoKey
    /\ Write(pending, r)
    /\ pending' = NoKey

\* The forward failed or upstream did not answer in time: `continue'.
Abandon ==
    /\ pending # NoKey
    /\ pending' = NoKey
    /\ UNCHANGED <<slot, now, served>>

\* At the head of a newly created proxy task.
CacheInit ==
    /\ Empty
    /\ pending' = NoKey

Tick ==
    /\ now < MaxTime
    /\ now' = now + 1
    /\ UNCHANGED <<slot, pending, served>>

Next ==
    \/ \E k \in Key : LookupHit(k) \/ LookupExpired(k) \/ LookupAbsent(k)
    \/ \E r \in Resp : Store(r)
    \/ Abandon
    \/ CacheInit
    \/ Tick

Spec == Init /\ [][Next]_vars

-----------------------------------------------------------------------------

(* No question has two valid answers: a store never leaves an older answer  *)
(* to the same question behind, although it never looks for one.  A second  *)
(* entry would be served again once the first is overwritten or expires.    *)
UniqueKeys ==
    \A i, j \in Slots : \A k \in Key : Matches(i, k) /\ Matches(j, k) => i = j

(* While an answer is awaited no valid slot answers that question: this is  *)
(* what makes the unchecked store of dns_cache_store sound.                 *)
PendingIsAbsent ==
    pending # NoKey => \A i \in Slots : ~Matches(i, pending)

(* A valid slot was really filled, at some moment not in the future.        *)
ValidIsFilled ==
    \A i \in Slots : slot[i].valid => /\ slot[i].key \in Key
                                      /\ slot[i].resp \in Resp
                                      /\ slot[i].expiry <= now + TTL

\* The inductive invariant.
CacheInv == TypeOK /\ UniqueKeys /\ PendingIsAbsent /\ ValidIsFilled

\* Refinement: the map a reader of the cache sees.
Memo ==
    [k \in Key |->
        IF \E i \in Slots : Matches(i, k)
          THEN LET e == slot[CHOOSE i \in Slots : Matches(i, k)]
               IN  [resp |-> e.resp, expiry |-> e.expiry]
          ELSE NoEntry]

Abs == INSTANCE AnswerMemo WITH memo <- Memo

(* A store throws away an answer that lookups would still return only when  *)
(* there are as many of those as slots, and then the one with the earliest  *)
(* deadline: no slot stays empty, and no answer goes a moment too soon.     *)
(* (When nothing is left at all, the task has been started anew.)           *)
EvictsOnlyOldest ==
    [][LET fresh == {q \in Key : Abs!Fresh(q)}
       IN  \A k \in fresh :
              Memo'[k] = NoEntry /\ (\E q \in Key : Memo'[q] # NoEntry) =>
                  /\ Cardinality(fresh) = CacheSize
                  /\ \A q \in fresh : Memo[k].expiry <= Memo[q].expiry]_vars

(* The slot array implements the map: a hit is the latest answer stored for *)
(* the question asked and no older than TTL, and a store forgets at most    *)
(* one other question.                                                      *)
ImplementsMemo == Abs!Spec

=============================================================================
