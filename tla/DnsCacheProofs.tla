--------------------------- MODULE DnsCacheProofs ---------------------------
(***************************************************************************)
(* Proofs about DnsCache, for every set of questions and answers, every    *)
(* number of slots and every TTL.                                          *)
(***************************************************************************)
EXTENDS DnsCache, FiniteSetTheorems, WellFoundedInduction, TLAPS

(* Initially every slot is invalid, so nothing is cached twice.             *)
LEMMA InitCacheInv == Init => CacheInv
  BY CacheAssumption
  DEF Init, CacheInv, TypeOK, Entry, UniqueKeys, PendingIsAbsent,
      ValidIsFilled, Matches, Slots

(* The slot a store picks is a slot, and what it writes there is an entry.  *)
LEMMA FilledIsEntry ==
  ASSUME NEW k \in Key, NEW r \in Resp, now \in Nat
  PROVE  /\ Filled(k, r) \in Entry
         /\ Filled(k, r).valid
         /\ Filled(k, r).key = k
         /\ Filled(k, r).resp = r
         /\ Filled(k, r).expiry = now + TTL
  BY CacheAssumption DEF Filled, Entry

-----------------------------------------------------------------------------
\* The search of a store.

(* What holds at zero and passes on to the next number holds up to n.       *)
LEMMA HoldsUpTo ==
  ASSUME NEW n \in Nat, NEW A, 0 \in A, \A i \in 1 .. n : i - 1 \in A => i \in A
  PROVE  \A i \in 0 .. n : i \in A
<1> DEFINE Bad == {i \in 0 .. n : i \notin A}
<1>1. SUFFICES ASSUME Bad # {} PROVE FALSE
  OBVIOUS
<1>2. PICK i \in Bad : \A k \in Bad : ~(<<k, i>> \in OpToRel(<, Nat))
  <2>1. Bad \subseteq Nat
    OBVIOUS
  <2> HIDE DEF Bad
  <2> QED
    BY <1>1, <2>1, NatLessThanWellFounded, WFMin
<1>3. i \in 1 .. n /\ i - 1 \in 0 .. n
  OBVIOUS
<1>4. i - 1 \notin Bad
  <2>1. <<i - 1, i>> \in OpToRel(<, Nat)
    BY <1>3 DEF OpToRel
  <2> HIDE DEF Bad
  <2> QED
    BY <1>2, <2>1
<1> QED
  BY <1>3, <1>4

(* The loop is what each turn makes of the one before.                      *)
LEMMA SearchEquation ==
  /\ Search[0] = Start
  /\ \A n \in 1 .. CacheSize : Search[n] = Turn(Search[n - 1], n - 1)
<1> DEFINE Body(f, n) == IF n = 0 THEN Start ELSE Turn(f[n - 1], n - 1)
           A == {k \in 0 .. CacheSize : \E f : f = [n \in 0 .. k |-> Body(f, n)]}
<1>1. 0 \in A
  <2> DEFINE f == [n \in 0 .. 0 |-> Start]
  <2>1. \A n \in 0 .. 0 : Body(f, n) = Start
    OBVIOUS
  <2>2. f = [n \in 0 .. 0 |-> Body(f, n)]
    BY <2>1
  <2>3. 0 \in 0 .. CacheSize
    BY CacheAssumption
  <2> HIDE DEF f
  <2> QED
    BY <2>2, <2>3
<1>2. ASSUME NEW k \in 1 .. CacheSize, k - 1 \in A PROVE k \in A
  <2>1. PICK f : f = [n \in 0 .. k - 1 |-> Body(f, n)]
    BY <1>2
  <2>2. \A n \in 0 .. k - 1 : f[n] = Body(f, n)
    BY <2>1
  <2> DEFINE g == [n \in 0 .. k |-> IF n < k THEN f[n] ELSE Body(f, k)]
  <2>3. ASSUME NEW n \in 0 .. k PROVE g[n] = Body(g, n)
    <3>1. CASE n = 0
      BY <2>2, <3>1
    <3>2. CASE n > 0 /\ n < k
      <4>1. f[n] = Body(f, n) /\ g[n - 1] = f[n - 1] /\ g[n] = f[n]
        BY <2>2, <3>2
      <4> QED
        BY <3>2, <4>1
    <3>3. CASE n = k
      <4>1. g[k - 1] = f[k - 1] /\ g[k] = Body(f, k)
        OBVIOUS
      <4> QED
        BY <3>3, <4>1
    <3> QED
      BY <3>1, <3>2, <3>3
  <2>4. g = [n \in 0 .. k |-> Body(g, n)]
    BY <2>3
  <2>5. k \in 0 .. CacheSize
    BY CacheAssumption
  <2> HIDE DEF g
  <2> QED
    BY <2>4, <2>5
<1>3. CacheSize \in A
  <2>1. CacheSize \in Nat /\ CacheSize \in 0 .. CacheSize
    BY CacheAssumption
  <2> HIDE DEF A
  <2> QED
    BY <1>1, <1>2, <2>1, HoldsUpTo
<1>4. \E f : f = [n \in 0 .. CacheSize |-> Body(f, n)]
  BY <1>3
<1>5. Search = [n \in 0 .. CacheSize |-> Body(Search, n)]
  BY <1>4 DEF Search
<1>6. \A n \in 0 .. CacheSize : Search[n] = Body(Search, n)
  BY <1>5
<1> QED
  BY <1>6, CacheAssumption

\* What the search knows before slot n: as long as it goes on, all slots it has
\* passed hold answers that lookups would return, and it remembers the one
\* with the earliest deadline; where it stopped there is none.
InUse(i) == slot[i].valid /\ now <= slot[i].expiry

Knows(s, n) ==
    /\ s \in [idx : {-1} \union Slots, oldest : Slots, soonest : Nat]
    /\ s.idx # -1 => ~InUse(s.idx)
    /\ s.idx = -1 => /\ \A j \in Slots : j < n => InUse(j) /\ s.soonest <= slot[j].expiry
                     /\ n = 0 => s.soonest = Never
                     /\ n > 0 => s.soonest = slot[s.oldest].expiry

(* Each turn of the loop keeps to that.                                     *)
LEMMA TurnKnows ==
  ASSUME CacheInv, NEW n \in Slots, NEW s, Knows(s, n)
  PROVE  Knows(Turn(s, n), n + 1)
<1> USE CacheAssumption
<1>1. /\ slot[n].valid \in BOOLEAN /\ slot[n].expiry \in Nat
      /\ \A j \in Slots : slot[j].expiry \in Nat
      /\ slot[n].valid => slot[n].expiry < Never
      /\ now \in Nat /\ n \in Nat
  BY DEF CacheInv, TypeOK, ValidIsFilled, Entry, Slots
<1>2. /\ s \in [idx : {-1} \union Slots, oldest : Slots, soonest : Nat]
      /\ s.idx \in {-1} \union Slots /\ s.oldest \in Slots /\ s.soonest \in Nat
      /\ Slots \subseteq Nat
  BY DEF Knows, Slots
<1>3. CASE s.idx # -1
  BY <1>1, <1>2, <1>3 DEF Turn, Knows, InUse
<1>4. CASE s.idx = -1 /\ ~InUse(n)
  <2>1. Turn(s, n) = [s EXCEPT !.idx = n]
    BY <1>1, <1>4 DEF Turn, InUse
  <2> DEFINE t == Turn(s, n)
  <2>2. /\ t \in [idx : {-1} \union Slots, oldest : Slots, soonest : Nat]
        /\ t.idx = n /\ n # -1
    BY <1>1, <1>2, <2>1
  <2> HIDE DEF t
  <2> QED
    BY <1>4, <2>2 DEF Knows, t
<1>5. CASE s.idx = -1 /\ InUse(n) /\ slot[n].expiry < s.soonest
  <2>1. Turn(s, n) = [s EXCEPT !.oldest = n, !.soonest = slot[n].expiry]
    BY <1>1, <1>5 DEF Turn, InUse
  <2> DEFINE t == Turn(s, n)
  <2>2. /\ t \in [idx : {-1} \union Slots, oldest : Slots, soonest : Nat]
        /\ t.idx = -1 /\ t.oldest = n /\ t.soonest = slot[n].expiry
    BY <1>1, <1>2, <1>5, <2>1
  <2>3. \A j \in Slots : j < n + 1 => InUse(j) /\ t.soonest <= slot[j].expiry
    <3> SUFFICES ASSUME NEW j \in Slots, j < n + 1
                 PROVE  InUse(j) /\ t.soonest <= slot[j].expiry
      OBVIOUS
    <3> HIDE DEF t
    <3>1. CASE j = n
      BY <1>1, <1>5, <2>2, <3>1
    <3>2. CASE j < n
      <4>1. InUse(j) /\ s.soonest <= slot[j].expiry
        BY <1>5, <3>2 DEF Knows
      <4> QED
        BY <1>1, <1>2, <1>5, <2>2, <4>1
    <3> QED
      BY <1>1, <1>2, <3>1, <3>2
  <2> HIDE DEF t
  <2> QED
    BY <1>1, <2>2, <2>3 DEF Knows, t
<1>6. CASE s.idx = -1 /\ InUse(n) /\ ~(slot[n].expiry < s.soonest)
  <2>1. Turn(s, n) = s
    BY <1>1, <1>6 DEF Turn, InUse
  <2>2. n > 0
    BY <1>1, <1>6 DEF Knows, InUse
  <2>3. \A j \in Slots : j < n + 1 => InUse(j) /\ s.soonest <= slot[j].expiry
    <3> SUFFICES ASSUME NEW j \in Slots, j < n + 1
                 PROVE  InUse(j) /\ s.soonest <= slot[j].expiry
      OBVIOUS
    <3>1. CASE j = n
      BY <1>1, <1>2, <1>6, <3>1
    <3>2. CASE j < n
      BY <1>6, <3>2 DEF Knows
    <3> QED
      BY <1>1, <1>2, <3>1, <3>2
  <2>4. s.soonest = slot[s.oldest].expiry
    BY <1>6, <2>2 DEF Knows
  <2> QED
    BY <1>1, <1>2, <1>6, <2>1, <2>2, <2>3, <2>4 DEF Knows
<1> QED
  BY <1>3, <1>4, <1>5, <1>6

(* The slot a store picks is one that lookups would not return anything     *)
(* from or, when there is none, the one with the earliest deadline.         *)
LEMMA VictimIsRight ==
  ASSUME CacheInv
  PROVE  /\ Victim \in Slots
         /\ InUse(Victim) =>
               \A j \in Slots : InUse(j) /\ slot[Victim].expiry <= slot[j].expiry
<1> DEFINE A == {n \in 0 .. CacheSize : Knows(Search[n], n)}
<1> USE CacheAssumption
<1>1. 0 \in A
  <2>1. Start \in [idx : {-1} \union Slots, oldest : Slots, soonest : Nat]
    BY DEF Start, Slots
  <2>2. \A j \in Slots : ~(j < 0)
    BY DEF Slots
  <2>3. Knows(Start, 0)
    BY <2>1, <2>2 DEF Knows, Start
  <2> QED
    BY <2>3, SearchEquation
<1>2. ASSUME NEW n \in 1 .. CacheSize, n - 1 \in A PROVE n \in A
  <2> DEFINE s == Search[n - 1]
  <2>1. n - 1 \in Slots /\ n - 1 + 1 = n /\ n \in 0 .. CacheSize
    BY DEF Slots
  <2>2. Knows(s, n - 1) /\ Search[n] = Turn(s, n - 1)
    BY <1>2, SearchEquation
  <2> HIDE DEF s
  <2>3. Knows(Turn(s, n - 1), n - 1 + 1)
    BY <2>1, <2>2, TurnKnows
  <2> QED
    BY <2>1, <2>2, <2>3
<1>3. CacheSize \in A
  <2>1. CacheSize \in Nat /\ CacheSize \in 0 .. CacheSize
    OBVIOUS
  <2> HIDE DEF A
  <2> QED
    BY <1>1, <1>2, <2>1, HoldsUpTo
<1> DEFINE s == Search[CacheSize]
<1>4. Knows(s, CacheSize) /\ Victim = IF s.idx = -1 THEN s.oldest ELSE s.idx
  BY <1>3 DEF Victim
<1> HIDE DEF s
<1>5. \A j \in Slots : j < CacheSize
  BY DEF Slots
<1>6. /\ s.idx \in {-1} \union Slots /\ s.oldest \in Slots
      /\ CacheSize > 0
  BY <1>4 DEF Knows
<1>7. CASE s.idx = -1
  BY <1>4, <1>5, <1>6, <1>7 DEF Knows
<1>8. CASE s.idx # -1
  BY <1>4, <1>6, <1>8 DEF Knows
<1> QED
  BY <1>7, <1>8

-----------------------------------------------------------------------------

(* Every operation of the cache preserves the invariant.  The store is the  *)
(* interesting step: it keeps the questions distinct because no valid slot  *)
(* answers the pending one.                                                 *)
LEMMA StepCacheInv == CacheInv /\ [Next]_vars => CacheInv'
<1> SUFFICES ASSUME CacheInv, [Next]_vars PROVE CacheInv'
  OBVIOUS
<1> USE CacheAssumption DEF CacheInv
<1>1. ASSUME NEW k \in Key, LookupHit(k) PROVE CacheInv'
  <2>1. TypeOK'
    BY <1>1 DEF LookupHit, FindsHit, TypeOK, FirstMatch, Matches, ValidIsFilled
  <2> QED
    BY <1>1, <2>1 DEF LookupHit, FindsHit, UniqueKeys, PendingIsAbsent, ValidIsFilled, Matches
<1>2. ASSUME NEW k \in Key, LookupExpired(k) PROVE CacheInv'
  <2>1. PICK i \in Slots : /\ FirstMatch(i, k)
                           /\ slot' = [slot EXCEPT ![i].valid = FALSE]
    BY <1>2 DEF LookupExpired, FindsExpired
  <2>2. /\ now' = now
        /\ pending' = k
        /\ served' = NoAnswer
        /\ pending = NoKey
    BY <1>2 DEF LookupExpired, FindsExpired
  <2>3. TypeOK'
    BY <2>1, <2>2 DEF TypeOK, Entry
  <2>4. \A j \in Slots : slot'[j].valid => j # i /\ slot[j].valid
    BY <2>1 DEF TypeOK, Entry
  <2>5. \A j \in Slots : j # i => slot'[j] = slot[j]
    BY <2>1 DEF TypeOK
  <2>6. UniqueKeys'
    BY <2>4, <2>5 DEF UniqueKeys, Matches
  <2>7. PendingIsAbsent'
    BY <2>1, <2>2, <2>4, <2>5 DEF PendingIsAbsent, UniqueKeys, Matches, FirstMatch
  <2>8. ValidIsFilled'
    BY <2>2, <2>4, <2>5 DEF ValidIsFilled
  <2> QED BY <2>3, <2>6, <2>7, <2>8
<1>3. ASSUME NEW k \in Key, LookupAbsent(k) PROVE CacheInv'
  BY <1>3 DEF LookupAbsent, FindsNone, TypeOK, UniqueKeys, PendingIsAbsent, ValidIsFilled, Matches
<1>4. ASSUME NEW r \in Resp, Store(r) PROVE CacheInv'
  <2>1. PICK i \in Slots : slot' = [slot EXCEPT ![i] = Filled(pending, r)]
    BY <1>4, VictimIsRight DEF Store, Write
  <2>2. pending \in Key /\ pending' = NoKey /\ now' = now /\ served' = served
    BY <1>4 DEF Store, Write, TypeOK
  <2>3. /\ slot'[i] = Filled(pending, r)
        /\ \A j \in Slots : j # i => slot'[j] = slot[j]
    BY <2>1 DEF TypeOK
  <2>4. now \in Nat
    BY DEF TypeOK
  <2>5. TypeOK'
    BY <2>1, <2>2, <2>4, FilledIsEntry DEF TypeOK
  <2>6. UniqueKeys'
    BY <2>2, <2>3, <2>4, FilledIsEntry, <1>4
    DEF UniqueKeys, PendingIsAbsent, Matches, Store, Write
  <2>7. PendingIsAbsent'
    BY <2>2 DEF PendingIsAbsent
  <2>8. ValidIsFilled'
    BY <2>2, <2>3, <2>4, FilledIsEntry DEF ValidIsFilled
  <2> QED BY <2>5, <2>6, <2>7, <2>8
<1>5. CASE Abandon
  BY <1>5 DEF Abandon, TypeOK, UniqueKeys, PendingIsAbsent, ValidIsFilled, Matches
<1>6. CASE CacheInit
  <2>1. \A i \in Slots : slot'[i] = [slot[i] EXCEPT !.valid = FALSE]
    BY <1>6 DEF CacheInit, Empty
  <2>2. \A i \in Slots : ~slot'[i].valid
    BY <2>1 DEF TypeOK, Entry
  <2>3. TypeOK'
    BY <1>6 DEF CacheInit, Empty, TypeOK, Entry
  <2> QED
    BY <2>2, <2>3 DEF UniqueKeys, PendingIsAbsent, ValidIsFilled, Matches
<1>7. CASE Tick
  <2>1. slot' = slot /\ pending' = pending /\ served' = served /\ now' = now + 1
    BY <1>7 DEF Tick
  <2>2. TypeOK'
    BY <1>7, <2>1, CacheAssumption DEF Tick, TypeOK
  <2>3. UniqueKeys' /\ PendingIsAbsent'
    BY <2>1 DEF UniqueKeys, PendingIsAbsent, Matches
  <2>4. ValidIsFilled'
    BY <2>1 DEF ValidIsFilled, TypeOK, Entry
  <2> QED BY <2>2, <2>3, <2>4
<1>8. CASE UNCHANGED vars
  BY <1>8 DEF vars, TypeOK, UniqueKeys, PendingIsAbsent, ValidIsFilled, Matches
<1> QED
  BY <1>1, <1>2, <1>3, <1>4, <1>5, <1>6, <1>7, <1>8 DEF Next

(* The cache is well typed, holds one valid answer per question, none for   *)
(* the question being asked upstream, and none from the future.             *)
THEOREM CacheInvariant == Spec => []CacheInv
  BY InitCacheInv, StepCacheInv, PTL DEF Spec

(* No question ever has two valid slots in s_dns_cache.                     *)
THEOREM KeysStayUnique == Spec => []UniqueKeys
  BY CacheInvariant, PTL DEF CacheInv

-----------------------------------------------------------------------------

(* Because its questions are distinct, the array determines the map: a slot *)
(* that matches k holds what the map says of k.                             *)
LEMMA MemoOfMatch ==
  ASSUME CacheInv, NEW k \in Key, NEW i \in Slots, Matches(i, k)
  PROVE  Memo[k] = [resp |-> slot[i].resp, expiry |-> slot[i].expiry]
<1>1. (CHOOSE j \in Slots : Matches(j, k)) = i
  BY DEF CacheInv, UniqueKeys
<1> QED
  BY <1>1 DEF Memo

LEMMA MemoOfNoMatch ==
  ASSUME NEW k \in Key, \A i \in Slots : ~Matches(i, k)
  PROVE  Memo[k] = NoEntry
  BY DEF Memo

(* What the map says is an entry, and an entry is never NoEntry.            *)
LEMMA MemoEntry ==
  ASSUME CacheInv, NEW k \in Key, NEW i \in Slots, Matches(i, k)
  PROVE  /\ Memo[k] # NoEntry
         /\ Memo[k].resp = slot[i].resp
         /\ Memo[k].expiry = slot[i].expiry
<1>1. slot[i].resp \in Resp /\ slot[i].expiry \in Nat
  BY DEF CacheInv, TypeOK, Entry, ValidIsFilled, Matches
<1>2. Memo[k] = [resp |-> slot[i].resp, expiry |-> slot[i].expiry]
  BY MemoOfMatch
<1>3. Memo[k] \in [resp : Resp, expiry : Nat]
  BY <1>1, <1>2
<1>4. NoEntry \notin [resp : Resp, expiry : Nat]
  BY CacheAssumption
<1>5. Memo[k] # NoEntry
  BY <1>3, <1>4
<1> QED
  BY <1>2, <1>5

(* The array of invalid slots is the map that knows nothing.                *)
LEMMA InitRefines == Init => Abs!Init
<1> SUFFICES ASSUME Init PROVE Abs!Init
  OBVIOUS
<1>1. \A k \in Key : \A i \in Slots : ~Matches(i, k)
  BY DEF Init, Matches
<1>2. Memo = [k \in Key |-> NoEntry]
  BY <1>1 DEF Memo
<1> QED
  BY <1>2 DEF Init, Abs!Init

(* Invalidating a slot makes the map forget that slot's question, no more.  *)
LEMMA InvalidateRefines ==
  ASSUME CacheInv, CacheInv', NEW k \in Key, NEW i \in Slots, Matches(i, k),
         slot' = [slot EXCEPT ![i].valid = FALSE]
  PROVE  Memo' = [Memo EXCEPT ![k] = NoEntry]
<1>1. /\ ~slot'[i].valid
      /\ \A j \in Slots : j # i => slot'[j] = slot[j]
  BY DEF CacheInv, TypeOK, Entry
<1>2. \A j \in Slots : ~Matches(j, k)'
  BY <1>1 DEF CacheInv, UniqueKeys, Matches
<1>3. ASSUME NEW x \in Key, x # k
      PROVE  \A j \in Slots : Matches(j, x)' <=> Matches(j, x)
  BY <1>1, <1>3 DEF Matches
<1>4. Memo'[k] = NoEntry
  BY <1>2 DEF Memo
<1>5. ASSUME NEW x \in Key, x # k PROVE Memo'[x] = Memo[x]
  <2>1. CASE \E j \in Slots : Matches(j, x)
    <3>1. PICK j \in Slots : Matches(j, x)
      BY <2>1
    <3>2. Matches(j, x)' /\ slot'[j] = slot[j]
      BY <1>1, <1>3, <1>5, <3>1 DEF Matches
    <3>3. (CHOOSE m \in Slots : Matches(m, x)) = j
      BY <3>1 DEF CacheInv, UniqueKeys
    <3>4. (CHOOSE m \in Slots : Matches(m, x)') = j
      BY <3>2 DEF CacheInv, UniqueKeys
    <3> QED BY <3>1, <3>2, <3>3, <3>4 DEF Memo
  <2>2. CASE \A j \in Slots : ~Matches(j, x)
    BY <1>3, <1>5, <2>2 DEF Memo
  <2> QED BY <2>1, <2>2
<1> QED
  BY <1>4, <1>5 DEF Memo

(* Filling a slot enters the pending question into the map and makes it     *)
(* forget the question the slot held before, if that was still valid.       *)
LEMMA StoreRefines ==
  ASSUME CacheInv, CacheInv', pending \in Key, NEW r \in Resp, NEW i \in Slots,
         slot' = [slot EXCEPT ![i] = Filled(pending, r)]
  PROVE  \E gone \in Key :
           Memo' = [Memo EXCEPT ![gone] = NoEntry,
                                ![pending] = [resp |-> r, expiry |-> now + TTL]]
<1> DEFINE gone == IF slot[i].valid THEN slot[i].key ELSE pending
           new  == [resp |-> r, expiry |-> now + TTL]
<1>1. gone \in Key
  BY DEF CacheInv, ValidIsFilled
<1>2. /\ slot'[i] = Filled(pending, r)
      /\ \A j \in Slots : j # i => slot'[j] = slot[j]
  BY DEF CacheInv, TypeOK
<1>3. /\ Filled(pending, r).valid
      /\ Filled(pending, r).key = pending
      /\ Filled(pending, r).resp = r
      /\ Filled(pending, r).expiry = now + TTL
  BY FilledIsEntry DEF CacheInv, TypeOK
<1>4. Memo'[pending] = new
  <2>1. \A j \in Slots : (slot'[j].valid /\ slot'[j].key = pending) <=> j = i
    BY <1>2, <1>3, CacheAssumption DEF CacheInv, PendingIsAbsent, Matches
  <2>2. (CHOOSE j \in Slots : slot'[j].valid /\ slot'[j].key = pending) = i
    BY <2>1
  <2>3. \E j \in Slots : slot'[j].valid /\ slot'[j].key = pending
    BY <2>1
  <2> HIDE DEF gone
  <2> QED
    BY <1>2, <1>3, <2>2, <2>3 DEF Memo, Matches
<1>5. ASSUME NEW x \in Key, x # pending, x = gone PROVE Memo'[x] = NoEntry
  <2>1. Matches(i, x)
    BY <1>5 DEF Matches
  <2>2. \A j \in Slots : ~(slot'[j].valid /\ slot'[j].key = x)
    BY <1>2, <1>3, <1>5, <2>1 DEF CacheInv, UniqueKeys, Matches
  <2> QED
    BY <2>2 DEF Memo, Matches
<1>6. ASSUME NEW x \in Key, x # pending, x # gone PROVE Memo'[x] = Memo[x]
  <2>1. ~Matches(i, x)
    BY <1>6 DEF Matches
  <2>2. \A j \in Slots : Matches(j, x)' <=> Matches(j, x)
    BY <1>2, <1>3, <1>6, <2>1 DEF Matches
  <2>3. CASE \E j \in Slots : Matches(j, x)
    <3>1. PICK j \in Slots : Matches(j, x)
      BY <2>3
    <3>2. Matches(j, x)' /\ slot'[j] = slot[j]
      BY <1>2, <2>1, <2>2, <3>1
    <3>3. (CHOOSE m \in Slots : Matches(m, x)) = j
      BY <3>1 DEF CacheInv, UniqueKeys
    <3>4. (CHOOSE m \in Slots : Matches(m, x)') = j
      BY <3>2 DEF CacheInv, UniqueKeys
    <3> QED BY <3>1, <3>2, <3>3, <3>4 DEF Memo
  <2>4. CASE \A j \in Slots : ~Matches(j, x)
    BY <2>2, <2>4 DEF Memo
  <2> QED BY <2>3, <2>4
<1>7. Memo' = [Memo EXCEPT ![gone] = NoEntry, ![pending] = new]
  <2> HIDE DEF gone, new
  <2> QED
    BY <1>1, <1>4, <1>5, <1>6 DEF Memo
<1> QED
  BY <1>1, <1>7

(* An answer in the map lies in a slot, and a slot kept by a step keeps it. *)
LEMMA FreshHasSlot ==
  ASSUME CacheInv, NEW k \in Key, Abs!Fresh(k)
  PROVE  \E i \in Slots : Matches(i, k) /\ InUse(i) /\ Memo[k].expiry = slot[i].expiry
<1>1. PICK i \in Slots : Matches(i, k)
  BY MemoOfNoMatch DEF Abs!Fresh
<1> QED
  BY <1>1, MemoEntry DEF Abs!Fresh, Matches, InUse

LEMMA KeptStays ==
  ASSUME CacheInv', NEW k \in Key, NEW i \in Slots, Matches(i, k), slot'[i] = slot[i]
  PROVE  Memo'[k] # NoEntry
<1> DEFINE M(j) == slot'[j].valid /\ slot'[j].key = k
           j == CHOOSE j \in Slots : M(j)
<1>1. j \in Slots /\ M(j)
  BY DEF Matches
<1> DEFINE e == [resp |-> slot'[j].resp, expiry |-> slot'[j].expiry]
<1>2. Memo'[k] = e
  BY <1>1 DEF Memo, Matches
<1>3. e \in [resp : Resp, expiry : Nat]
  BY <1>1 DEF CacheInv, TypeOK, Entry, ValidIsFilled
<1> HIDE DEF e
<1> QED
  BY <1>2, <1>3, CacheAssumption

(* When every slot is in use there are as many fresh answers as slots: the  *)
(* slots' questions are distinct.                                           *)
LEMMA FullMeansAllFresh ==
  ASSUME CacheInv, \A j \in Slots : InUse(j)
  PROVE  Cardinality({q \in Key : Abs!Fresh(q)}) = CacheSize
<1> DEFINE fresh == {q \in Key : Abs!Fresh(q)}
           f == [j \in Slots |-> slot[j].key]
<1>1. ASSUME NEW j \in Slots PROVE f[j] \in fresh /\ Matches(j, f[j])
  <2> DEFINE k == slot[j].key
  <2>1. k \in Key /\ Matches(j, k) /\ now <= slot[j].expiry
    BY DEF InUse, CacheInv, ValidIsFilled, Matches
  <2> HIDE DEF k
  <2>2. Abs!Fresh(k)
    BY <2>1, MemoEntry DEF Abs!Fresh
  <2> QED
    BY <2>1, <2>2 DEF k
<1>2. ASSUME NEW k \in fresh PROVE \E j \in Slots : f[j] = k
  BY FreshHasSlot DEF Matches
<1>3. \A i, j \in Slots : f[i] = f[j] => i = j
  BY <1>1 DEF CacheInv, UniqueKeys
<1> HIDE DEF fresh
<1>4. f \in Bijection(Slots, fresh)
  <2>1. f \in [Slots -> fresh]
    BY <1>1
  <2> HIDE DEF f
  <2> QED
    BY <1>2, <1>3, <2>1 DEF Bijection, Injection, Surjection, IsInjective
<1>5. IsFiniteSet(Slots) /\ Cardinality(Slots) = CacheSize
  BY FS_Interval, CacheAssumption DEF Slots
<1> QED
  BY <1>4, <1>5, FS_Bijection DEF ExistsBijection, fresh

(* A store makes the map forget an answer that lookups would still return   *)
(* only when the cache is full of those, and then the one that expires      *)
(* first: what the search of dns_cache_store is for.                        *)
THEOREM EvictionIsOldest == Spec => EvictsOnlyOldest
<1> DEFINE fresh == {q \in Key : Abs!Fresh(q)}
           Evicts == \A k \in fresh :
              Memo'[k] = NoEntry /\ (\E q \in Key : Memo'[q] # NoEntry) =>
                  /\ Cardinality(fresh) = CacheSize
                  /\ \A q \in fresh : Memo[k].expiry <= Memo[q].expiry
<1>1. CacheInv /\ CacheInv' /\ [Next]_vars => [Evicts]_vars
  <2> SUFFICES ASSUME CacheInv, CacheInv', Next,
                      NEW k \in Key, Abs!Fresh(k), Memo'[k] = NoEntry,
                      \E q \in Key : Memo'[q] # NoEntry
               PROVE  /\ Cardinality(fresh) = CacheSize
                      /\ \A q \in fresh : Memo[k].expiry <= Memo[q].expiry
    OBVIOUS
  <2>1. PICK i \in Slots : Matches(i, k) /\ InUse(i) /\ Memo[k].expiry = slot[i].expiry
    BY FreshHasSlot
  <2>2. slot'[i] # slot[i]
    BY <2>1, KeptStays
  <2>3. ASSUME NEW r \in Resp, Store(r) PROVE i = Victim
    BY <2>2, <2>3, VictimIsRight DEF Store, Write, CacheInv, TypeOK
  <2>4. ASSUME NEW x \in Key, LookupExpired(x) PROVE FALSE
    <3>1. PICK j \in Slots : Expired(j) /\ slot' = [slot EXCEPT ![j].valid = FALSE]
      BY <2>4 DEF LookupExpired, FindsExpired
    <3>2. i = j
      BY <2>2, <3>1 DEF CacheInv, TypeOK
    <3> QED
      BY <2>1, <3>1, <3>2 DEF InUse, Expired, CacheInv, TypeOK, Entry
  <2>5. ~CacheInit
    <3>1. SUFFICES ASSUME CacheInit PROVE FALSE
      OBVIOUS
    <3>2. \A j \in Slots : slot'[j] = [slot[j] EXCEPT !.valid = FALSE]
      BY <3>1 DEF CacheInit, Empty
    <3>3. \A j \in Slots : ~slot'[j].valid
      BY <3>2 DEF CacheInv, TypeOK, Entry
    <3>4. \A q \in Key : Memo'[q] = NoEntry
      BY <3>3 DEF Memo, Matches
    <3> QED
      BY <3>4
  <2>6. \E r \in Resp : Store(r)
    BY <2>2, <2>4, <2>5 DEF Next, LookupHit, FindsHit, LookupAbsent, FindsNone, Abandon, Tick
  <2>7. \A j \in Slots : InUse(j) /\ slot[i].expiry <= slot[j].expiry
    BY <2>1, <2>3, <2>6, VictimIsRight
  <2>8. Cardinality(fresh) = CacheSize
    BY <2>7, FullMeansAllFresh
  <2>9. ASSUME NEW q \in fresh PROVE Memo[k].expiry <= Memo[q].expiry
    BY <2>1, <2>7, <2>9, FreshHasSlot
  <2> QED
    BY <2>8, <2>9
<1> QED
  BY <1>1, CacheInvariant, PTL DEF Spec, EvictsOnlyOldest

-----------------------------------------------------------------------------

(* Each step of the array is a step of the map, or leaves it as it is.      *)
LEMMA StepRefines ==
  CacheInv /\ CacheInv' /\ [Next]_vars => [Abs!Next]_<<Memo, now, served>>
<1> SUFFICES ASSUME CacheInv, CacheInv', [Next]_vars
             PROVE  Abs!Next \/ UNCHANGED <<Memo, now, served>>
  OBVIOUS
<1>1. ASSUME slot' = slot PROVE Memo' = Memo
  BY <1>1 DEF Memo, Matches
<1>2. ASSUME NEW k \in Key, LookupHit(k) PROVE Abs!Next
  <2>1. PICK i \in Slots : /\ Matches(i, k)
                           /\ ~Expired(i)
                           /\ served' = [key |-> k, resp |-> slot[i].resp]
    BY <1>2 DEF LookupHit, FindsHit, FirstMatch
  <2>2. now <= slot[i].expiry
    BY <2>1 DEF Expired, CacheInv, TypeOK, Entry
  <2>3. Abs!GetHit(k)
    BY <1>1, <1>2, <2>1, <2>2, MemoEntry DEF LookupHit, FindsHit, Abs!GetHit, Abs!Fresh
  <2> QED BY <2>3 DEF Abs!Next
<1>3. ASSUME NEW k \in Key, LookupExpired(k) PROVE Abs!Next
  <2>1. PICK i \in Slots : /\ Matches(i, k)
                           /\ Expired(i)
                           /\ slot' = [slot EXCEPT ![i].valid = FALSE]
    BY <1>3 DEF LookupExpired, FindsExpired, FirstMatch
  <2>2. Memo' = [Memo EXCEPT ![k] = NoEntry]
    BY <2>1, InvalidateRefines
  <2>3. ~(now <= Memo[k].expiry)
    BY <2>1, MemoEntry DEF Expired, CacheInv, TypeOK, Entry
  <2>4. Abs!GetMiss(k)
    BY <1>3, <2>2, <2>3 DEF LookupExpired, FindsExpired, Abs!GetMiss, Abs!Fresh
  <2> QED BY <2>4 DEF Abs!Next
<1>4. ASSUME NEW k \in Key, LookupAbsent(k) PROVE Abs!Next
  <2>1. Memo[k] = NoEntry
    BY <1>4, MemoOfNoMatch DEF LookupAbsent, FindsNone
  <2>2. Abs!GetMiss(k)
    BY <1>1, <1>4, <2>1 DEF LookupAbsent, FindsNone, Abs!GetMiss, Abs!Fresh
  <2> QED BY <2>2 DEF Abs!Next
<1>5. ASSUME NEW r \in Resp, Store(r) PROVE Abs!Next
  <2>1. pending \in Key
    BY <1>5 DEF Store, Write, CacheInv, TypeOK
  <2>2. PICK i \in Slots : slot' = [slot EXCEPT ![i] = Filled(pending, r)]
    BY <1>5, VictimIsRight DEF Store, Write
  <2>3. Abs!Put(pending, r)
    BY <1>5, <2>1, <2>2, StoreRefines DEF Store, Write, Abs!Put
  <2> QED BY <2>1, <2>3 DEF Abs!Next
<1>6. CASE Abandon
  BY <1>1, <1>6 DEF Abandon
<1>7. CASE CacheInit
  <2>1. \A i \in Slots : slot'[i] = [slot[i] EXCEPT !.valid = FALSE]
    BY <1>7 DEF CacheInit, Empty
  <2>2. \A i \in Slots : ~slot'[i].valid
    BY <2>1 DEF CacheInv, TypeOK, Entry
  <2>3. Memo' = [k \in Key |-> NoEntry]
    BY <2>2 DEF Memo, Matches
  <2> QED BY <1>7, <2>3 DEF CacheInit, Empty, Abs!Clear, Abs!Next
<1>8. CASE Tick
  BY <1>1, <1>8 DEF Tick, Abs!Tick, Abs!Next
<1>9. CASE UNCHANGED vars
  BY <1>1, <1>9 DEF vars
<1> QED
  BY <1>2, <1>3, <1>4, <1>5, <1>6, <1>7, <1>8, <1>9 DEF Next

(* The array of slots implements the map: whatever the proxy is served from *)
(* the cache is the latest answer stored for the question it asked, and is  *)
(* no older than the TTL.                                                   *)
THEOREM SlotsImplementMemo == Spec => ImplementsMemo
<1>1. CacheInv /\ CacheInv' /\ [Next]_vars => [Abs!Next]_(Abs!memoVars)
  BY StepRefines DEF Abs!memoVars
<1> QED
  BY <1>1, InitRefines, CacheInvariant, PTL DEF Spec, ImplementsMemo, Abs!Spec

=============================================================================
