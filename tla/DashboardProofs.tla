--------------------------- MODULE DashboardProofs ---------------------------
(***************************************************************************)
(* Proofs about what the device keeps for the dashboard.                   *)
(*                                                                         *)
(* DnsLog: for every size of the ring and every query, readers see the     *)
(* newest lines, in order.                                                 *)
(*                                                                         *)
(* SysMonitor: the benchmarks agree, and what the samples say is true.     *)
(* The latter needs to know what SumFunction does, of which the community  *)
(* modules have no theorems that could be cited here: it is proved first,  *)
(* from its definition.                                                    *)
(***************************************************************************)
EXTENDS DnsLog, SysMonitor, FiniteSetTheorems, TLAPS

-----------------------------------------------------------------------------
(* Arithmetic of ring indices.                                              *)

LEMMA ModBelow ==
  ASSUME NEW n \in Nat \ {0}, NEW a \in 0 .. n - 1
  PROVE  a % n = a
  BY SMT

LEMMA ModAbove ==
  ASSUME NEW n \in Nat \ {0}, NEW a \in n .. n + n - 1
  PROVE  a % n = a - n
  BY SMT

(* Where dns_log_get_latest finds the k-th newest line when the next one    *)
(* will be written to slot h.                                               *)
LEMMA StepsBack ==
  ASSUME NEW h \in Slots, NEW k \in 1 .. MaxEntries
  PROVE  (h + MaxEntries - k) % MaxEntries =
            IF k <= h THEN h - k ELSE h + MaxEntries - k
<1>1. CASE k <= h
  <2>1. h + MaxEntries - k \in MaxEntries .. MaxEntries + MaxEntries - 1
    BY <1>1, LogAssumption DEF Slots
  <2> QED BY <1>1, <2>1, ModAbove, LogAssumption DEF Slots
<1>2. CASE k > h
  <2>1. h + MaxEntries - k \in 0 .. MaxEntries - 1
    BY <1>2, LogAssumption DEF Slots
  <2> QED BY <1>2, <2>1, ModBelow, LogAssumption DEF Slots
<1> QED BY <1>1, <1>2, LogAssumption DEF Slots

LEMMA SlotOfIsSlot ==
  ASSUME head \in Slots, NEW k \in 1 .. MaxEntries
  PROVE  SlotOf(k) \in Slots
  BY StepsBack, LogAssumption DEF SlotOf, Slots

(* Where dns_log_add writes next.                                           *)
LEMMA NextHead ==
  ASSUME head \in Slots
  PROVE  /\ (head + 1) % MaxEntries = IF head + 1 = MaxEntries THEN 0 ELSE head + 1
         /\ (head + 1) % MaxEntries \in Slots
<1>1. CASE head + 1 = MaxEntries
  BY <1>1, ModAbove, LogAssumption DEF Slots
<1>2. CASE head + 1 < MaxEntries
  BY <1>2, ModBelow, LogAssumption DEF Slots
<1> QED BY <1>1, <1>2, LogAssumption DEF Slots

(* After an add the newest line is the one just written, and every other    *)
(* line that survives has moved one place back, in the slot it was in.      *)
LEMMA SlotOfAfterAdd ==
  ASSUME TypeOK, TypeOK', head' = (head + 1) % MaxEntries
  PROVE  /\ SlotOf(1)' = head
         /\ \A k \in 1 .. MaxEntries - 1 : /\ SlotOf(k + 1)' = SlotOf(k)
                                          /\ SlotOf(k) # head
<1>1. head \in Slots /\ head' \in Slots
  BY DEF TypeOK
<1>2. \A k \in 1 .. MaxEntries :
         SlotOf(k) = IF k <= head THEN head - k ELSE head + MaxEntries - k
  BY <1>1, StepsBack DEF SlotOf
<1>3. \A k \in 1 .. MaxEntries :
         SlotOf(k)' = IF k <= head' THEN head' - k ELSE head' + MaxEntries - k
  BY <1>1, StepsBack DEF SlotOf
<1>4. head' = IF head + 1 = MaxEntries THEN 0 ELSE head + 1
  BY <1>1, NextHead
<1>5. SlotOf(1)' = head
  BY <1>1, <1>3, <1>4, LogAssumption DEF Slots
<1>6. ASSUME NEW k \in 1 .. MaxEntries - 1
      PROVE  SlotOf(k + 1)' = SlotOf(k) /\ SlotOf(k) # head
  <2>1. k \in 1 .. MaxEntries /\ k + 1 \in 1 .. MaxEntries
    BY LogAssumption
  <2>2. SlotOf(k + 1)' = IF k + 1 <= head' THEN head' - (k + 1)
                                           ELSE head' + MaxEntries - (k + 1)
    BY <1>3, <2>1
  <2>3. SlotOf(k) = IF k <= head THEN head - k ELSE head + MaxEntries - k
    BY <1>2, <2>1
  <2> QED BY <1>1, <1>4, <2>1, <2>2, <2>3, LogAssumption DEF Slots
<1> QED BY <1>5, <1>6

LEMMA PredecessorInRange ==
  ASSUME NEW n \in Nat, NEW k \in 1 .. n, k # 1
  PROVE  k - 1 \in 1 .. n - 1 /\ (k - 1) + 1 = k
  OBVIOUS

-----------------------------------------------------------------------------
(* The invariant.                                                           *)

LEMMA InitLogInv == Init => LogInv
  BY LogAssumption
  DEF Init, LogInv, TypeOK, Slots, Line, NewestFirst, Descending, Recent

(* The lines in the ring after an add: the new one, then the survivors.     *)
LEMMA RecentAfterAdd ==
  ASSUME LogInv, TypeOK', FinishAdd
  PROVE  /\ count' = IF count < MaxEntries THEN count + 1 ELSE count
         /\ count' \in 1 .. MaxEntries
         /\ Recent'[1] = adding
         /\ \A k \in 1 .. count' - 1 : k \in 1 .. count /\ Recent'[k + 1] = Recent[k]
<1>1. /\ entries' = [entries EXCEPT ![head] = adding]
      /\ head' = (head + 1) % MaxEntries
      /\ count' = IF count < MaxEntries THEN count + 1 ELSE count
  BY DEF FinishAdd
<1>2. TypeOK
  BY DEF LogInv
<1>3. /\ count' \in 1 .. MaxEntries
      /\ \A k \in 1 .. count' - 1 : k \in 1 .. count /\ k \in 1 .. MaxEntries - 1
                                    /\ k \in 1 .. MaxEntries
                                    /\ k + 1 \in 1 .. count'
  BY <1>1, <1>2, LogAssumption DEF TypeOK
<1>4. /\ SlotOf(1)' = head
      /\ \A k \in 1 .. MaxEntries - 1 : SlotOf(k + 1)' = SlotOf(k) /\ SlotOf(k) # head
  BY <1>1, <1>2, SlotOfAfterAdd
<1>5. Recent'[1] = adding
  BY <1>1, <1>2, <1>3, <1>4 DEF Recent, TypeOK
<1>6. ASSUME NEW k \in 1 .. count' - 1 PROVE Recent'[k + 1] = Recent[k]
  <2>1. Recent'[k + 1] = entries'[SlotOf(k + 1)'] /\ Recent[k] = entries[SlotOf(k)]
    BY <1>3, <1>6 DEF Recent
  <2>2. SlotOf(k) \in Slots
    <3>1. k \in 1 .. MaxEntries
      BY <1>3, <1>6
    <3> QED BY <1>2, <3>1, SlotOfIsSlot DEF TypeOK
  <2> QED BY <1>1, <1>2, <1>3, <1>4, <1>6, <2>1, <2>2 DEF TypeOK
<1> QED BY <1>1, <1>3, <1>5, <1>6

LEMMA StepLogInv == LogInv /\ [Next]_vars => LogInv'
<1> SUFFICES ASSUME LogInv, [Next]_vars PROVE LogInv'
  OBVIOUS
<1> USE LogAssumption
<1>1. ASSUME NEW q \in Query, BeginAdd(q) PROVE LogInv'
  <2>1. adding' = [query |-> q, ts |-> now]
    BY <1>1 DEF BeginAdd
  <2>2. adding' \in Line /\ adding'.ts = now
    BY <2>1 DEF LogInv, TypeOK, Line
  <2>3. Recent' = Recent /\ count' = count /\ now' = now /\ report' = report
    BY <1>1 DEF BeginAdd, Recent, SlotOf
  <2>4. TypeOK'
    BY <1>1, <2>2 DEF BeginAdd, LogInv, TypeOK
  <2> QED
    BY <2>2, <2>3, <2>4 DEF LogInv, NewestFirst, Descending, TypeOK
<1>2. CASE FinishAdd
  <2>1. /\ adding' = Idle
        /\ now' = now
        /\ report' = report
        /\ adding \in Line
    BY <1>2 DEF FinishAdd, LogInv, TypeOK
  <2>2. TypeOK'
    BY <1>2, <2>1, NextHead DEF FinishAdd, LogInv, TypeOK
  <2>3. /\ count' \in 1 .. MaxEntries
        /\ Recent'[1] = adding
        /\ \A k \in 1 .. count' - 1 : k \in 1 .. count /\ Recent'[k + 1] = Recent[k]
    BY <1>2, <2>2, RecentAfterAdd
  <2>4. \A k \in 1 .. count : /\ Recent[k] \in Line
                              /\ Recent[k].ts <= adding.ts
                              /\ adding.ts <= now
    BY <1>2 DEF FinishAdd, LogInv
  <2>5. ASSUME NEW k \in 1 .. count'
        PROVE  /\ Recent'[k] = IF k = 1 THEN adding ELSE Recent[k - 1]
               /\ k # 1 => k - 1 \in 1 .. count
    <3>1. CASE k = 1
      BY <2>3, <3>1
    <3>2. CASE k # 1
      <4>1. k - 1 \in 1 .. count' - 1 /\ (k - 1) + 1 = k
        <5>1. count' \in Nat
          BY <2>3
        <5>2. k \in 1 .. count'
          BY <2>5
        <5> QED BY <3>2, <5>1, <5>2, PredecessorInRange
      <4> QED BY <2>3, <3>2, <4>1
    <3> QED BY <3>1, <3>2
  <2>6. adding.ts <= now
    BY <1>2 DEF FinishAdd, LogInv
  <2>7. \A k \in 1 .. count' : Recent'[k] \in Line /\ Recent'[k].ts <= now'
    <3>1. /\ adding.ts \in Int
          /\ now \in Int
          /\ \A k \in 1 .. count : Recent[k].ts \in Int
      BY <2>1, <2>4 DEF LogInv, TypeOK, Line
    <3>2. \A k \in 1 .. count : Recent[k].ts <= now
      BY <2>4, <3>1
    <3> QED BY <2>1, <2>4, <2>5, <2>6, <3>2
  <2>8. Descending(Recent)'
    <3> SUFFICES ASSUME NEW i \in 1 .. count', NEW j \in 1 .. count', i <= j
                 PROVE  Recent'[i].ts >= Recent'[j].ts
      BY DEF Descending, Recent
    <3>1. \A k, m \in 1 .. count : k <= m => Recent[k].ts >= Recent[m].ts
      BY DEF LogInv, Descending, Recent
    <3>2. \A k \in 1 .. count : Recent[k].ts \in 0 .. MaxTime
      BY <2>4 DEF Line
    <3>3. adding.ts \in 0 .. MaxTime
      BY <2>1 DEF Line
    <3>4. CASE i = 1 /\ j = 1
      BY <2>5, <3>3, <3>4
    <3>5. CASE i = 1 /\ j # 1
      BY <2>4, <2>5, <3>2, <3>3, <3>5
    <3>6. CASE i # 1
      <4>1. i - 1 \in 1 .. count /\ j - 1 \in 1 .. count /\ i - 1 <= j - 1
        <5>1. i \in Nat /\ j \in Nat /\ i > 0 /\ j # 1 /\ i - 1 <= j - 1
          BY <3>6
        <5> QED BY <2>5, <3>6, <5>1
      <4> QED BY <2>5, <3>1, <3>6, <4>1
    <3> QED BY <3>4, <3>5, <3>6
  <2> QED
    BY <2>1, <2>2, <2>7, <2>8 DEF LogInv, NewestFirst, Descending
<1>3. ASSUME NEW n \in 1 .. MaxAsked, GetLatest(n) PROVE LogInv'
  <2>1. /\ report' = [k \in 1 .. (IF count > n THEN n ELSE count) |-> entries[SlotOf(k)]]
        /\ adding' = adding /\ now' = now /\ count' = count
        /\ entries' = entries /\ head' = head
    BY <1>3 DEF GetLatest
  <2>2. Recent' = Recent
    BY <2>1 DEF Recent, SlotOf
  <2>3. (IF count > n THEN n ELSE count) \in 0 .. count /\ count \in Nat
    BY DEF LogInv, TypeOK
  <2>4. report' = [k \in 1 .. (IF count > n THEN n ELSE count) |-> Recent[k]]
    BY <2>1, <2>3 DEF Recent
  <2>5. report' \in Seq(Line)
    BY <2>3, <2>4 DEF LogInv
  <2>6. NewestFirst'
    BY <2>3, <2>4 DEF LogInv, NewestFirst, Descending, Recent
  <2>7. TypeOK'
    BY <2>1, <2>5 DEF LogInv, TypeOK
  <2> QED
    BY <2>1, <2>2, <2>6, <2>7 DEF LogInv, Descending
<1>4. CASE Tick
  <2>1. /\ now' = now + 1 /\ now < MaxTime
        /\ adding' = adding /\ count' = count /\ report' = report
    BY <1>4 DEF Tick
  <2>2. Recent' = Recent
    BY <1>4 DEF Tick, Recent, SlotOf
  <2>3. TypeOK'
    BY <1>4 DEF Tick, LogInv, TypeOK
  <2>4. \A k \in 1 .. count : Recent[k].ts \in 0 .. MaxTime
    BY DEF LogInv, Line
  <2>5. adding # Idle => adding.ts \in 0 .. MaxTime
    BY DEF LogInv, TypeOK, Line
  <2> QED
    BY <2>1, <2>2, <2>3, <2>4, <2>5 DEF LogInv, NewestFirst, Descending, TypeOK
<1>5. CASE UNCHANGED vars
  <2>1. Recent' = Recent
    BY <1>5 DEF vars, Recent, SlotOf
  <2> QED
    BY <1>5, <2>1 DEF vars, LogInv, NewestFirst, Descending, TypeOK
<1> QED BY <1>1, <1>2, <1>3, <1>4, <1>5 DEF Next

(* The ring is well typed, holds lines only, sorted by their stamps, none   *)
(* of them newer than the line the proxy task is adding.                    *)
THEOREM LogInvariant == Spec => []LogInv
  BY InitLogInv, StepLogInv, PTL DEF Spec

(* Whatever a reader is shown is sorted, newest query first.                *)
THEOREM ReportsNewestFirst == Spec => []NewestFirst
  BY LogInvariant, PTL DEF LogInv

-----------------------------------------------------------------------------
(* The refinement.                                                          *)

LEMMA RecentIsSeq ==
  ASSUME LogInv
  PROVE  Recent \in Seq(Line) /\ Len(Recent) = count
<1>1. count \in Nat
  BY LogAssumption DEF LogInv, TypeOK
<1>2. Recent \in [1 .. count -> Line]
  BY DEF LogInv, Recent
<1> QED BY <1>1, <1>2

(* Putting a line in front of a sequence and cutting it to n lines.         *)
LEMMA PrependAndCut ==
  ASSUME NEW S, NEW s \in Seq(S), NEW x \in S, NEW n \in 1 .. Len(s) + 1
  PROVE  SubSeq(<<x>> \o s, 1, n) = [k \in 1 .. n |-> IF k = 1 THEN x ELSE s[k - 1]]
<1>1. <<x>> \in Seq(S) /\ Len(<<x>>) = 1 /\ <<x>>[1] = x
  OBVIOUS
<1>2. /\ <<x>> \o s \in Seq(S)
      /\ Len(<<x>> \o s) = 1 + Len(s)
  BY <1>1
<1>3. \A k \in 1 .. n : (<<x>> \o s)[k] = IF k = 1 THEN x ELSE s[k - 1]
  BY <1>1, <1>2
<1>4. SubSeq(<<x>> \o s, 1, n) = [k \in 1 .. n |-> (<<x>> \o s)[k]]
  BY <1>2
<1> QED BY <1>3, <1>4

LEMMA InitRefines == Init => Abs!Init
<1> SUFFICES ASSUME Init PROVE Abs!Init
  OBVIOUS
<1>1. Recent = <<>>
  BY DEF Init, Recent
<1> QED BY <1>1 DEF Init, Abs!Init

(* Writing at the head of the ring and advancing it is prepending a line to *)
(* the list and cutting it to the capacity.                                 *)
LEMMA AddRefines ==
  ASSUME LogInv, LogInv', FinishAdd
  PROVE  Abs!Record(adding)
<1>1. adding \in Line /\ report' = report
  BY DEF FinishAdd, LogInv, TypeOK
<1>2. Recent \in Seq(Line) /\ Len(Recent) = count /\ count \in 0 .. MaxEntries
  BY RecentIsSeq DEF LogInv, TypeOK
<1>3. /\ count' = IF count < MaxEntries THEN count + 1 ELSE count
      /\ count' \in 1 .. MaxEntries
      /\ Recent'[1] = adding
      /\ \A k \in 1 .. count' - 1 : k \in 1 .. count /\ Recent'[k + 1] = Recent[k]
  BY RecentAfterAdd DEF LogInv
<1>4. Abs!Smaller(Len(Recent) + 1, MaxEntries) = count'
  BY <1>2, <1>3, LogAssumption DEF Abs!Smaller
<1>5. count' \in 1 .. Len(Recent) + 1
  BY <1>2, <1>3, LogAssumption
<1>6. SubSeq(<<adding>> \o Recent, 1, count') =
        [k \in 1 .. count' |-> IF k = 1 THEN adding ELSE Recent[k - 1]]
  BY <1>1, <1>2, <1>5, PrependAndCut
<1>7. ASSUME NEW k \in 1 .. count'
      PROVE  Recent'[k] = IF k = 1 THEN adding ELSE Recent[k - 1]
  <2>1. CASE k = 1
    BY <1>3, <2>1
  <2>2. CASE k # 1
    <3>1. count' \in Nat
      BY <1>3
    <3>2. k \in 1 .. count'
      BY <1>7
    <3>3. k - 1 \in 1 .. count' - 1 /\ (k - 1) + 1 = k
      BY <2>2, <3>1, <3>2, PredecessorInRange
    <3> QED BY <1>3, <2>2, <3>3
  <2> QED BY <2>1, <2>2
<1>8. Recent' = [k \in 1 .. count' |-> Recent'[k]]
  BY DEF Recent
<1>9. Recent' = SubSeq(<<adding>> \o Recent, 1, count')
  BY <1>6, <1>7, <1>8
<1> QED BY <1>1, <1>4, <1>9 DEF Abs!Record

(* Reading n lines from the ring is taking the first n of the list.         *)
LEMMA GetRefines ==
  ASSUME LogInv, NEW n \in 1 .. MaxAsked, GetLatest(n)
  PROVE  Abs!Show(n)
<1> DEFINE m == IF count > n THEN n ELSE count
<1>1. Recent \in Seq(Line) /\ Len(Recent) = count /\ count \in 0 .. MaxEntries
  BY RecentIsSeq DEF LogInv, TypeOK
<1>2. m \in 0 .. count /\ m = Abs!Smaller(Len(Recent), n)
  BY <1>1, LogAssumption DEF Abs!Smaller
<1>3. report' = [k \in 1 .. m |-> Recent[k]]
  <2>1. \A k \in 1 .. m : k \in 1 .. count
    BY <1>1, <1>2
  <2> QED BY <2>1 DEF GetLatest, Recent
<1>4. SubSeq(Recent, 1, m) = [k \in 1 .. m |-> Recent[k]]
  <2> HIDE DEF m
  <2> QED BY <1>1, <1>2
<1>5. Recent' = Recent
  BY DEF GetLatest, Recent, SlotOf
<1> QED BY <1>2, <1>3, <1>4, <1>5 DEF Abs!Show

LEMMA StepRefines ==
  LogInv /\ LogInv' /\ [Next]_vars => [Abs!Next]_<<Recent, report>>
<1> SUFFICES ASSUME LogInv, LogInv', [Next]_vars
             PROVE  Abs!Next \/ UNCHANGED <<Recent, report>>
  OBVIOUS
<1>1. ASSUME NEW q \in Query, BeginAdd(q) PROVE UNCHANGED <<Recent, report>>
  BY <1>1 DEF BeginAdd, Recent, SlotOf
<1>2. CASE FinishAdd
  BY <1>2, AddRefines DEF FinishAdd, LogInv, TypeOK, Abs!Next
<1>3. ASSUME NEW n \in 1 .. MaxAsked, GetLatest(n) PROVE Abs!Next
  BY <1>3, GetRefines DEF Abs!Next
<1>4. CASE Tick
  BY <1>4 DEF Tick, Recent, SlotOf
<1>5. CASE UNCHANGED vars
  BY <1>5 DEF vars, Recent, SlotOf
<1> QED BY <1>1, <1>2, <1>3, <1>4, <1>5 DEF Next

(* The ring buffer implements the list of the most recent queries, for      *)
(* every capacity: no wrap-around loses, repeats or reorders a line.        *)
THEOREM RingImplementsRecent == Spec => ImplementsRecent
<1>1. LogInv /\ LogInv' /\ [Next]_vars => [Abs!Next]_(Abs!recentVars)
  BY StepRefines DEF Abs!recentVars
<1> QED
  BY <1>1, InitRefines, LogInvariant, PTL DEF Spec, ImplementsRecent, Abs!Spec

-----------------------------------------------------------------------------

(* Division rounds down.                                                    *)
LEMMA Rounded ==
    ASSUME NEW a \in Nat, NEW n \in Nat, n > 0
    PROVE  /\ a \div n \in Nat
           /\ (a \div n) * n <= a
           /\ a < (a \div n + 1) * n
BY SMT

(* An average of what is bounded is bounded.                                *)
LEMMA Bounded ==
    ASSUME NEW a \in Nat, NEW n \in Nat, n > 0, NEW m \in Nat, a <= m * n
    PROVE  a \div n <= m
BY SMT

(* What a word leaves of a sum                                              *)
LEMMA Wrapped ==
    ASSUME NEW a \in Nat, NEW w \in Nat, w > 0
    PROVE  a % w \in Nat /\ a % w <= a /\ (a < w => a % w = a)
BY SMT

-----------------------------------------------------------------------------

(***************************************************************************)
(* Sums: what SumFunction does for the functions on a finite set, in       *)
(* whatever order it takes the elements.                                   *)
(***************************************************************************)

Total(f, S) == SumFunctionOnSet(f, S)

Pick(S) == CHOOSE x \in S : TRUE

(* A set of numbers has a least.                                            *)
LEMMA LeastNumber ==
  ASSUME NEW N \in SUBSET Nat, N # {}
  PROVE  \E n \in N : \A k \in N : n <= k
<1>1. PICK n \in N : \A k \in N : ~(<<k, n>> \in OpToRel(<, Nat))
  BY NatLessThanWellFounded, WFMin
<1>2. \A k \in N : ~(k < n)
  BY <1>1 DEF OpToRel
<1> QED
  BY <1>2

(* What holds for a set when it holds for its proper subsets holds for a    *)
(* finite set, and for its subsets.                                         *)
LEMMA SubsetInduction ==
  ASSUME NEW S, IsFiniteSet(S), NEW A,
         \A T \in SUBSET S : (\A U \in SUBSET T : U # T => U \in A) => T \in A
  PROVE  \A T \in SUBSET S : T \in A
<1> DEFINE Bad == {T \in SUBSET S : T \notin A}
           Sizes == {Cardinality(T) : T \in Bad}
<1>1. \A T \in SUBSET S : IsFiniteSet(T) /\ Cardinality(T) \in Nat
  BY FS_Subset, FS_CardinalityType
<1>2. SUFFICES ASSUME Sizes # {} PROVE FALSE
  OBVIOUS
<1>3. Sizes \subseteq Nat
  BY <1>1
<1>4. PICK n \in Sizes : \A k \in Sizes : n <= k
  BY <1>2, <1>3, LeastNumber
<1>5. PICK T \in Bad : n = Cardinality(T)
  BY <1>4
<1>6. ASSUME NEW U \in SUBSET T, U # T PROVE U \in A
  <2>1. U \in SUBSET S /\ Cardinality(U) \in Nat
    BY <1>1
  <2>2. Cardinality(U) < Cardinality(T)
    BY <1>1, <1>6, FS_Subset, FS_CardinalityType
  <2>3. Cardinality(U) \notin Sizes
    BY <1>1, <1>4, <1>5, <2>1, <2>2
  <2> QED
    BY <2>1, <2>3
<1> QED
  BY <1>5, <1>6

(* The recursion that the sum of a finite set's elements goes through       *)
LEMMA TotalEquation ==
  ASSUME NEW f, NEW S, IsFiniteSet(S)
  PROVE  \A T \in SUBSET S :
            Total(f, T) = IF T = {} THEN 0 ELSE f[Pick(T)] + Total(f, T \ {Pick(T)})
<1> DEFINE Body(g, T) == IF T = {} THEN 0 ELSE f[Pick(T)] + g[T \ {Pick(T)}]
           Good == {T \in SUBSET S :
                      Total(f, T) = IF T = {} THEN 0 ELSE f[Pick(T)] + Total(f, T \ {Pick(T)})}
<1>1. ASSUME NEW T \in SUBSET S, \A U \in SUBSET T : U # T => U \in Good
      PROVE  T \in Good
  <2> DEFINE Sum(U) == IF U = T /\ T # {} THEN f[Pick(T)] + Total(f, T \ {Pick(T)})
                       ELSE IF U = {} THEN 0 ELSE Total(f, U)
             g == [U \in SUBSET T |-> Sum(U)]
             h == CHOOSE iter : iter = [U \in SUBSET T |-> Body(iter, U)]
  <2>1. \A U \in SUBSET T : U # {} => Pick(U) \in U
    BY DEF Pick
  <2>2. \A U \in SUBSET T : Sum(U) = Body(g, U)
    BY <1>1, <2>1
  <2>3. g = [U \in SUBSET T |-> Body(g, U)]
    BY <2>2
  <2>4. h = [U \in SUBSET T |-> Body(h, U)]
    BY <2>3
  <2>5. Total(f, T) = h[T]
    BY DEF Total, SumFunctionOnSet, FoldFunctionOnSet, MapThenFoldSet, Pick
  <2>6. ASSUME NEW U \in SUBSET T, U # T PROVE h[U] = Total(f, U)
    <3> DEFINE Same == {V \in SUBSET U : h[V] = Total(f, V)}
    <3>1. ASSUME NEW V \in SUBSET U, \A W \in SUBSET V : W # V => W \in Same
          PROVE  V \in Same
      <4>1. V \in SUBSET T /\ V \in SUBSET S /\ V # T
        BY <2>6
      <4>2. h[V] = Body(h, V)
        <5> HIDE DEF h
        <5> QED
          BY <2>4, <4>1
      <4>3. V # {} => V \ {Pick(V)} \in Same
        BY <2>1, <3>1, <4>1
      <4>4. V \in Good
        BY <1>1, <4>1
      <4> HIDE DEF h
      <4> QED
        BY <4>2, <4>3, <4>4
    <3>2. IsFiniteSet(U)
      BY FS_Subset
    <3>3. \A V \in SUBSET U : V \in Same
      <4> HIDE DEF Same
      <4> QED
        BY <3>1, <3>2, SubsetInduction
    <3> QED
      BY <3>3
  <2>7. h[T] = Body(h, T)
    <3> HIDE DEF h
    <3> QED
      BY <2>4
  <2>8. T # {} => h[T \ {Pick(T)}] = Total(f, T \ {Pick(T)})
    <3> HIDE DEF h
    <3> QED
      BY <2>1, <2>6
  <2> HIDE DEF h
  <2> QED
    BY <2>5, <2>7, <2>8
<1>2. \A T \in SUBSET S : T \in Good
  <2> HIDE DEF Good
  <2> QED
    BY <1>1, SubsetInduction
<1> QED
  BY <1>2

(* Nothing adds up to zero.                                                 *)
LEMMA TotalOfNone ==
  ASSUME NEW f
  PROVE  Total(f, {}) = 0
BY TotalEquation, FS_EmptySet

(* A sum of numbers is one.                                                 *)
LEMMA TotalNat ==
  ASSUME NEW S, IsFiniteSet(S), NEW f, \A x \in S : f[x] \in Nat
  PROVE  \A T \in SUBSET S : Total(f, T) \in Nat
<1> DEFINE Good == {T \in SUBSET S : Total(f, T) \in Nat}
<1>1. ASSUME NEW T \in SUBSET S, \A U \in SUBSET T : U # T => U \in Good
      PROVE  T \in Good
  <2>1. CASE T = {}
    BY <2>1, TotalEquation
  <2>2. CASE T # {}
    <3>1. Pick(T) \in T
      BY <2>2 DEF Pick
    <3>2. T \ {Pick(T)} \in Good
      BY <1>1, <3>1
    <3> QED
      BY <2>2, <3>1, <3>2, TotalEquation
  <2> QED
    BY <2>1, <2>2
<1>2. \A T \in SUBSET S : T \in Good
  <2> HIDE DEF Good
  <2> QED
    BY <1>1, SubsetInduction
<1> QED
  BY <1>2

(* Any element can be taken first.                                          *)
LEMMA TotalOfRest ==
  ASSUME NEW S, IsFiniteSet(S), NEW f, \A x \in S : f[x] \in Nat
  PROVE  \A T \in SUBSET S : \A x \in T : Total(f, T) = f[x] + Total(f, T \ {x})
<1> DEFINE Good == {T \in SUBSET S : \A x \in T : Total(f, T) = f[x] + Total(f, T \ {x})}
<1>1. ASSUME NEW T \in SUBSET S, \A U \in SUBSET T : U # T => U \in Good
      PROVE  T \in Good
  <2> SUFFICES ASSUME NEW x \in T PROVE Total(f, T) = f[x] + Total(f, T \ {x})
    OBVIOUS
  <2> DEFINE p == Pick(T)
             R == T \ {p, x}
  <2>1. p \in T
    BY DEF Pick
  <2>2. Total(f, T) = f[p] + Total(f, T \ {p})
    BY TotalEquation
  <2>3. CASE x = p
    BY <2>2, <2>3
  <2>4. CASE x # p
    <3>1. Total(f, T \ {p}) = f[x] + Total(f, R)
      <4>1. T \ {p} \in Good /\ x \in T \ {p} /\ (T \ {p}) \ {x} = R
        BY <1>1, <2>1, <2>4
      <4> QED
        BY <4>1
    <3>2. Total(f, T \ {x}) = f[p] + Total(f, R)
      <4>1. T \ {x} \in Good /\ p \in T \ {x} /\ (T \ {x}) \ {p} = R
        BY <1>1, <2>1, <2>4
      <4> QED
        BY <4>1
    <3>3. f[x] \in Nat /\ f[p] \in Nat /\ Total(f, R) \in Nat
      BY <2>1, TotalNat
    <3> QED
      BY <2>2, <3>1, <3>2, <3>3
  <2> QED
    BY <2>3, <2>4
<1>2. \A T \in SUBSET S : T \in Good
  <2> HIDE DEF Good
  <2> QED
    BY <1>1, SubsetInduction
<1> QED
  BY <1>2

(* A sum of sums is the sum of both.                                        *)
LEMMA TotalOfSums ==
  ASSUME NEW S, IsFiniteSet(S), NEW f, NEW g, NEW h,
         \A x \in S : f[x] \in Nat /\ g[x] \in Nat /\ h[x] = f[x] + g[x]
  PROVE  Total(h, S) = Total(f, S) + Total(g, S)
<1> DEFINE Good == {T \in SUBSET S : Total(h, T) = Total(f, T) + Total(g, T)}
<1>1. ASSUME NEW T \in SUBSET S, \A U \in SUBSET T : U # T => U \in Good
      PROVE  T \in Good
  <2>1. CASE T = {}
    BY <2>1, TotalOfNone
  <2>2. CASE T # {}
    <3> DEFINE p == Pick(T)
               R == T \ {p}
    <3>1. p \in T
      BY <2>2 DEF Pick
    <3>2. R \in Good
      BY <1>1, <3>1
    <3>3. /\ Total(f, T) = f[p] + Total(f, R) /\ Total(g, T) = g[p] + Total(g, R)
          /\ Total(h, T) = h[p] + Total(h, R)
      BY <2>2, TotalEquation
    <3>4. Total(f, R) \in Nat /\ Total(g, R) \in Nat
      BY TotalNat
    <3> HIDE DEF R, p
    <3> QED
      BY <3>1, <3>2, <3>3, <3>4
  <2> QED
    BY <2>1, <2>2
<1>2. \A T \in SUBSET S : T \in Good
  <2> HIDE DEF Good
  <2> QED
    BY <1>1, SubsetInduction
<1> QED
  BY <1>2

(* What holds of the elements, some multiple of one not exceeding one of    *)
(* the other, holds of the sums.                                            *)
LEMMA TotalBounded ==
  ASSUME NEW S, IsFiniteSet(S), NEW f, NEW g, NEW a \in Nat, NEW b \in Nat,
         \A x \in S : f[x] \in Nat /\ g[x] \in Nat /\ a * f[x] <= b * g[x]
  PROVE  a * Total(f, S) <= b * Total(g, S)
<1> DEFINE Good == {T \in SUBSET S : a * Total(f, T) <= b * Total(g, T)}
<1>1. ASSUME NEW T \in SUBSET S, \A U \in SUBSET T : U # T => U \in Good
      PROVE  T \in Good
  <2>1. CASE T = {}
    <3>1. Total(f, T) = 0 /\ Total(g, T) = 0 /\ a * 0 = 0 /\ b * 0 = 0
      BY <2>1, TotalOfNone
    <3> QED
      BY <3>1
  <2>2. CASE T # {}
    <3> DEFINE p == Pick(T)
               R == T \ {p}
    <3>1. p \in T
      BY <2>2 DEF Pick
    <3>2. R \in Good
      BY <1>1, <3>1
    <3>3. /\ Total(f, T) = f[p] + Total(f, R) /\ Total(g, T) = g[p] + Total(g, R)
      BY <2>2, TotalEquation
    <3>4. /\ Total(f, R) \in Nat /\ Total(g, R) \in Nat /\ f[p] \in Nat /\ g[p] \in Nat
          /\ a * f[p] <= b * g[p]
      BY <3>1, TotalNat
    <3>5. a * Total(f, R) <= b * Total(g, R)
      BY <3>2
    <3>6. /\ a * (f[p] + Total(f, R)) = a * f[p] + a * Total(f, R)
          /\ b * (g[p] + Total(g, R)) = b * g[p] + b * Total(g, R)
      <4> HIDE DEF R, p
      <4> QED
        BY <3>4
    <3> HIDE DEF R, p
    <3> QED
      BY <3>3, <3>4, <3>5, <3>6
  <2> QED
    BY <2>1, <2>2
<1>2. \A T \in SUBSET S : T \in Good
  <2> HIDE DEF Good
  <2> QED
    BY <1>1, SubsetInduction
<1> QED
  BY <1>2

(* A sum of ones counts.                                                    *)
LEMMA TotalOfOnes ==
  ASSUME NEW S, IsFiniteSet(S), NEW f, \A x \in S : f[x] = 1
  PROVE  Total(f, S) = Cardinality(S)
<1> DEFINE Good == {T \in SUBSET S : Total(f, T) = Cardinality(T)}
<1>1. ASSUME NEW T \in SUBSET S, \A U \in SUBSET T : U # T => U \in Good
      PROVE  T \in Good
  <2>1. CASE T = {}
    <3>1. Total(f, T) = 0 /\ Cardinality(T) = 0
      BY <2>1, TotalOfNone, FS_EmptySet
    <3> QED
      BY <3>1
  <2>2. CASE T # {}
    <3> DEFINE p == Pick(T)
               R == T \ {p}
    <3>1. p \in T
      BY <2>2 DEF Pick
    <3>2. R \in Good
      BY <1>1, <3>1
    <3>3. Total(f, T) = f[p] + Total(f, R)
      BY <2>2, TotalEquation
    <3>4. IsFiniteSet(T) /\ Cardinality(T) \in Nat /\ Cardinality(R) = Cardinality(T) - 1
      BY <3>1, FS_Subset, FS_CardinalityType, FS_RemoveElement
    <3> HIDE DEF R, p
    <3> QED
      BY <3>1, <3>2, <3>3, <3>4
  <2> QED
    BY <2>1, <2>2
<1>2. \A T \in SUBSET S : T \in Good
  <2> HIDE DEF Good
  <2> QED
    BY <1>1, SubsetInduction
<1> QED
  BY <1>2

-----------------------------------------------------------------------------

(* The benchmarks.                                                          *)

Benchmark == [count : Nat, total : Nat, average : Nat, maximum : Nat]

\* One user's figures: the sum is bounded by the maximum, wrapped or not, and
\* is what was spent as long as that fits.
Sound(b, s) ==
    /\ b.total <= b.maximum * b.count
    /\ s < Word => b.total = s
    /\ b.average <= b.maximum
    /\ s < Word /\ b.count > 0 => /\ b.average * b.count <= s
                                  /\ s < (b.average + 1) * b.count

BenchInv ==
    /\ bench \in [User -> Benchmark] /\ spent \in [User -> Nat]
    /\ hits \in Nat /\ misses \in Nat /\ uncached \in Nat
    /\ hits + uncached <= bench["dns"].count
    /\ bench["dns"].count <= hits + misses + uncached
    /\ \A u \in User : Sound(bench[u], spent[u])

\* Recording one latency keeps a user's figures sound, also when the sum wraps.
LEMMA RecordSound ==
    ASSUME Word \in Nat, Word > 0,
           NEW b \in Benchmark, NEW s \in Nat, NEW l \in Nat, Sound(b, s)
    PROVE  LET total == (b.total + l) % Word
               c == [count |-> b.count + 1, total |-> total, average |-> total \div (b.count + 1),
                     maximum |-> IF l > b.maximum THEN l ELSE b.maximum]
           IN  c \in Benchmark /\ Sound(c, s + l)
<1> DEFINE n == b.count + 1
           total == (b.total + l) % Word
           average == total \div n
           max == IF l > b.maximum THEN l ELSE b.maximum
<1>1. /\ b.count \in Nat /\ b.total \in Nat /\ b.average \in Nat /\ b.maximum \in Nat
      /\ n \in Nat /\ n > 0 /\ max \in Nat
      BY DEF Benchmark
<1>2. total \in Nat /\ total <= b.total + l /\ (b.total + l < Word => total = b.total + l)
      BY <1>1, Wrapped
<1>3. total <= max * n
  <2>1. b.total <= b.maximum * b.count BY DEF Sound
  <2>2. b.maximum * b.count <= max * b.count
    <3>1. b.maximum <= max BY <1>1
    <3>. HIDE DEF max
    <3>. QED BY <3>1, <1>1, SMT
  <2>3. l <= max BY <1>1
  <2>4. max * n = max * b.count + max
    <3>. HIDE DEF max
    <3>. QED BY <1>1, SMT
  <2>5. /\ b.maximum * b.count \in Nat /\ max * b.count \in Nat /\ max * n \in Nat
    <3>. HIDE DEF max
    <3>. QED BY <1>1, SMT
  <2>. HIDE DEF max, n, total
  <2>. QED BY <1>1, <1>2, <2>1, <2>2, <2>3, <2>4, <2>5, SMT
<1>4. average <= max
  <2>. HIDE DEF max, n, total
  <2>. QED BY <1>1, <1>2, <1>3, Bounded
<1>5. s + l < Word => total = s + l
      BY <1>1, <1>2 DEF Sound
<1>6. average \in Nat /\ average * n <= total /\ total < (average + 1) * n
  <2>. HIDE DEF n, total
  <2>. QED BY <1>1, <1>2, Rounded
<1>. HIDE DEF max, n, total, average
<1>7. [count |-> n, total |-> total, average |-> average, maximum |-> max] \in Benchmark
      BY <1>1, <1>2, <1>6 DEF Benchmark
<1>8. Sound([count |-> n, total |-> total, average |-> average, maximum |-> max], s + l)
      BY <1>1, <1>2, <1>3, <1>4, <1>5, <1>6 DEF Sound
<1>. QED BY <1>7, <1>8 DEF n, total, average, max

LEMMA InitBench == ASSUME Word \in Nat, Word > 0, MonitorInit PROVE BenchInv
<1>1. \A u \in User : Sound([count |-> 0, total |-> 0, average |-> 0, maximum |-> 0], 0)
      BY DEF Sound
<1>. QED BY <1>1 DEF MonitorInit, BenchInv, Benchmark, NoBench, NoLatency, User

(* What a call of sys_monitor_record_... does to the invariant              *)
LEMMA RecordKeeps ==
    ASSUME Word \in Nat, Word > 0, BenchInv, NEW u \in User, NEW l \in Nat, Record(u, l)
    PROVE  /\ bench' \in [User -> Benchmark] /\ spent' \in [User -> Nat]
           /\ bench'[u].count = bench[u].count + 1
           /\ \A v \in User : Sound(bench'[v], spent'[v]) /\ (v # u => bench'[v] = bench[v])
<1> DEFINE b == bench[u]
           total == (b.total + l) % Word
           c == [count |-> b.count + 1, total |-> total, average |-> total \div (b.count + 1),
                 maximum |-> IF l > b.maximum THEN l ELSE b.maximum]
<1>1. /\ b \in Benchmark /\ spent[u] \in Nat /\ Sound(b, spent[u])
      /\ bench \in [User -> Benchmark] /\ spent \in [User -> Nat]
      BY DEF BenchInv
<1>2. c \in Benchmark /\ Sound(c, spent[u] + l)
      BY <1>1, RecordSound
<1>3. bench' = [bench EXCEPT ![u] = c] /\ spent' = [spent EXCEPT ![u] = @ + l]
      BY DEF Record
<1>4. c.count = b.count + 1
      OBVIOUS
<1>. HIDE DEF c
<1>5. /\ bench'[u] = c /\ spent'[u] = spent[u] + l
      /\ \A v \in User : v # u => bench'[v] = bench[v] /\ spent'[v] = spent[v]
      /\ bench' \in [User -> Benchmark] /\ spent' \in [User -> Nat]
      BY <1>1, <1>2, <1>3
<1>6. \A v \in User : Sound(bench'[v], spent'[v])
      BY <1>2, <1>5 DEF BenchInv
<1>. QED BY <1>4, <1>5, <1>6

LEMMA StepBench ==
    ASSUME Word \in Nat, Word > 0, Latency \subseteq Nat, BenchInv, [MonitorNext]_monitorVars
    PROVE  BenchInv'
<1> DEFINE Counts == /\ hits \in Nat /\ misses \in Nat /\ uncached \in Nat
                     /\ hits + uncached <= bench["dns"].count
                     /\ bench["dns"].count <= hits + misses + uncached
<1>1. Counts /\ "dns" \in User /\ "http" \in User /\ "dns" # "http"
      BY DEF BenchInv, User
<1>2. bench["dns"].count \in Nat
      BY <1>1 DEF BenchInv, Benchmark
<1>3. CASE UNCHANGED recorded
      BY <1>3 DEF recorded, BenchInv, Sound
<1>4. CASE Restart
  <2>1. \A u \in User : Sound([count |-> 0, total |-> 0, average |-> 0, maximum |-> 0], 0)
        BY DEF Sound
  <2>. QED BY <1>4, <2>1 DEF Restart, BenchInv, Benchmark, NoBench, NoLatency, User
<1>5. CASE MissInVain
  <2>1. Counts' BY <1>1, <1>2, <1>5 DEF MissInVain
  <2>. QED BY <2>1, <1>5 DEF MissInVain, BenchInv
<1>6. ASSUME NEW l \in Latency, Hit(l) PROVE BenchInv'
  <2>1. Record("dns", l) /\ l \in Nat BY <1>6 DEF Hit
  <2>2. Counts' BY <1>1, <1>2, <1>6, <2>1, RecordKeeps DEF Hit
  <2>. QED BY <1>1, <2>1, <2>2, RecordKeeps DEF BenchInv
<1>7. ASSUME NEW l \in Latency, Miss(l) PROVE BenchInv'
  <2>1. Record("dns", l) /\ l \in Nat BY <1>7 DEF Miss
  <2>2. Counts' BY <1>1, <1>2, <1>7, <2>1, RecordKeeps DEF Miss
  <2>. QED BY <1>1, <2>1, <2>2, RecordKeeps DEF BenchInv
<1>8. ASSUME NEW l \in Latency, Uncached(l) PROVE BenchInv'
  <2>1. Record("dns", l) /\ l \in Nat BY <1>8 DEF Uncached
  <2>2. Counts' BY <1>1, <1>2, <1>8, <2>1, RecordKeeps DEF Uncached
  <2>. QED BY <1>1, <2>1, <2>2, RecordKeeps DEF BenchInv
<1>9. ASSUME NEW l \in Latency, Request(l) PROVE BenchInv'
  <2>1. Record("http", l) /\ l \in Nat BY <1>9 DEF Request
  <2>2. bench'["dns"] = bench["dns"] BY <1>1, <2>1, RecordKeeps
  <2>3. Counts' BY <1>1, <1>9, <2>2 DEF Request
  <2>. QED BY <1>1, <2>1, <2>3, RecordKeeps DEF BenchInv
<1>. QED BY <1>3, <1>4, <1>5, <1>6, <1>7, <1>8, <1>9
         DEF MonitorNext, Update, Recording, monitorVars

(* Hits, misses and queries fit together, and the averages are averages and *)
(* not above the maxima until the sum of the latencies has wrapped, for     *)
(* every size of a word, every set of latencies and all that the monitor's  *)
(* task does in between (sys_monitor.c:412-458).                            *)
THEOREM BenchmarksAlwaysAgree == MonitorSpec => []BenchmarksAgree
<1>1. MonitorInit => BenchInv BY InitBench, MonitorAssumption
<1>2. BenchInv /\ [MonitorNext]_monitorVars => BenchInv' BY StepBench, MonitorAssumption
<1>3. BenchInv => BenchmarksAgree BY DEF BenchInv, BenchmarksAgree, Sound
<1>. QED BY <1>1, <1>2, <1>3, PTL DEF MonitorSpec

-----------------------------------------------------------------------------

(* The samples.                                                             *)

CpuFigures == [percent : [Task -> Nat], total : Nat, read : BOOLEAN]

(* A sample of the processor's figures is one.                              *)
LEMMA CpuSampleType ==
  ASSUME cpu \in CpuFigures, NEW n, NEW allocated \in BOOLEAN, NEW run \in [Task -> Nat]
  PROVE  CpuSample(n, allocated, run) \in CpuFigures
<1> DEFINE all == SumFunction(run) % Word
           share(t) == IF all = 0 THEN 0 ELSE (((run[t] * 100) % Word) \div all) % Byte
           shares == [t \in Task \ {IdleTask} |-> share(t)]
<1>1. SumFunction(run) = Total(run, Task) /\ Total(run, Task) \in Nat
  BY MonitorAssumption, TotalNat DEF SumFunction, Total
<1>2. all \in Nat
  BY <1>1, MonitorAssumption
<1>3. ASSUME NEW t \in Task PROVE share(t) \in Nat
  <2>1. (run[t] * 100) % Word \in Nat
    BY MonitorAssumption
  <2> HIDE DEF all
  <2>2. all # 0 => ((run[t] * 100) % Word) \div all \in Nat
    BY <1>2, <2>1, Rounded
  <2> QED
    BY <2>2, MonitorAssumption
<1>4. SumFunction(shares) = Total(shares, Task \ {IdleTask})
  BY DEF SumFunction, Total
<1>5. Total(shares, Task \ {IdleTask}) \in Nat
  <2>1. \A t \in Task \ {IdleTask} : shares[t] \in Nat
    BY <1>3
  <2>2. IsFiniteSet(Task \ {IdleTask})
    BY MonitorAssumption, FS_Subset
  <2> HIDE DEF shares
  <2> QED
    BY <2>1, <2>2, TotalNat
<1>6. Capped(SumFunction(shares)) \in Nat
  BY <1>4, <1>5 DEF Capped
<1>7. [t \in Task |-> share(t)] \in [Task -> Nat]
  BY <1>3
<1>8. /\ [cpu EXCEPT !.read = FALSE] \in CpuFigures
      /\ [cpu EXCEPT !.total = 0, !.read = FALSE] \in CpuFigures
  BY DEF CpuFigures
<1>9. [percent |-> [t \in Task |-> share(t)], read |-> TRUE,
       total |-> Capped(SumFunction(shares))] \in CpuFigures
  <2> HIDE DEF share, shares
  <2> QED
    BY <1>6, <1>7 DEF CpuFigures
<1> QED
  BY <1>8, <1>9 DEF CpuSample

(* As long as a hundredfold run time fits into a word, the total of a       *)
(* sample is what all tasks but the idle one have had of the time, rounded  *)
(* down task by task.                                                       *)
LEMMA CpuSampleTrue ==
  ASSUME cpu \in CpuFigures, NEW n, NEW allocated \in BOOLEAN,
         NEW r \in [Task -> Nat], \A t \in Task : 100 * r[t] < Word, SumFunction(r) > 0,
         NEW c, c = CpuSample(n, allocated, [t \in Task |-> r[t] % Word]), c.read
  PROVE  LET busy == SumFunction(r) - r[IdleTask]
             rounded == SumFunction([t \in Task |-> 1])
         IN  /\ c.total * SumFunction(r) <= 100 * busy
             /\ 100 * busy < (c.total + rounded) * SumFunction(r)
<1> DEFINE all == Total(r, Task)
           Others == Task \ {IdleTask}
           share(t) == (100 * r[t]) \div all
           shares == [t \in Others |-> share(t)]
           ones == [t \in Task |-> 1]
           more == [t \in Others |-> share(t) + 1]
           busy == Total(r, Others)
           part == Total(shares, Others)
<1>1. /\ IsFiniteSet(Task) /\ IsFiniteSet(Others) /\ IdleTask \in Task
      /\ Cardinality(Task) \in Nat /\ Cardinality(Others) = Cardinality(Task) - 1
      /\ Cardinality(Task) <= 100
  BY MonitorAssumption, FS_Subset, FS_CardinalityType, FS_RemoveElement
<1>2. SumFunction(r) = all /\ all \in Nat /\ all > 0
  <2>1. DOMAIN r = Task
    OBVIOUS
  <2>2. SumFunction(r) = all
    BY <2>1 DEF SumFunction, Total
  <2>3. all \in Nat
    BY <1>1, TotalNat
  <2> QED
    BY <2>2, <2>3
<1>3. all = r[IdleTask] + busy /\ busy \in Nat
  BY <1>1, TotalOfRest, TotalNat
<1>4. all < Word
  <2>1. \A t \in Task : r[t] \in Nat /\ ones[t] = 1 /\ 100 * r[t] <= (Word - 1) * ones[t]
    BY MonitorAssumption
  <2>2. Word - 1 \in Nat /\ Total(ones, Task) = Cardinality(Task)
    <3>1. Word - 1 \in Nat
      BY <1>1, MonitorAssumption
    <3> HIDE DEF ones
    <3> QED
      BY <1>1, <2>1, <3>1, TotalOfOnes
  <2>3. 100 * all <= (Word - 1) * Cardinality(Task)
    <3> HIDE DEF ones
    <3> QED
      BY <1>1, <2>1, <2>2, TotalBounded
  <2>4. (Word - 1) * Cardinality(Task) <= (Word - 1) * 100
    BY <1>1, <2>2
  <2> QED
    BY <1>1, <1>2, <2>2, <2>3, <2>4, MonitorAssumption
<1>5. ASSUME NEW t \in Task
      PROVE  /\ share(t) \in Nat
             /\ share(t) = ((((r[t] % Word) * 100) % Word) \div (all % Word)) % Byte
             /\ all * share(t) <= 100 * r[t]
             /\ 100 * r[t] <= all * (share(t) + 1)
  <2>1. r[t] \in Nat /\ 100 * r[t] < Word
    OBVIOUS
  <2>2. r[t] % Word = r[t] /\ (r[t] * 100) % Word = 100 * r[t] /\ all % Word = all
    BY <1>2, <1>4, <2>1, MonitorAssumption
  <2>3. r[t] <= all
    <3>1. all = r[t] + Total(r, Task \ {t}) /\ Total(r, Task \ {t}) \in Nat
      BY <1>1, TotalOfRest, TotalNat
    <3> QED
      BY <2>1, <3>1
  <2> HIDE DEF all
  <2>4. /\ share(t) \in Nat /\ share(t) * all <= 100 * r[t]
        /\ 100 * r[t] < (share(t) + 1) * all
    BY <1>2, <2>1, Rounded
  <2>5. share(t) <= 100
    BY <1>2, <2>1, <2>3, Bounded
  <2>6. share(t) % Byte = share(t)
    <3> HIDE DEF share
    <3> QED
      BY <2>4, <2>5, MonitorAssumption
  <2>7. share(t) * all = all * share(t) /\ (share(t) + 1) * all = all * (share(t) + 1)
    <3> HIDE DEF share
    <3> QED
      BY <1>2, <2>4
  <2>8. share(t) = ((((r[t] % Word) * 100) % Word) \div (all % Word)) % Byte
    BY <2>2, <2>6
  <2> QED
    <3> HIDE DEF share
    <3> QED
      BY <1>2, <2>1, <2>4, <2>7, <2>8
<1>6. all * part <= 100 * busy /\ part \in Nat
  <2>1. \A t \in Others : shares[t] \in Nat /\ r[t] \in Nat /\ all * shares[t] <= 100 * r[t]
    BY <1>5
  <2> HIDE DEF all, shares, Others
  <2> QED
    BY <1>1, <1>2, <2>1, TotalBounded, TotalNat
<1>7. 100 * busy <= all * (part + (Cardinality(Task) - 1))
  <2>1. \A t \in Others : /\ more[t] \in Nat /\ r[t] \in Nat /\ 100 * r[t] <= all * more[t]
                          /\ shares[t] \in Nat /\ ones[t] = 1 /\ more[t] = shares[t] + ones[t]
    BY <1>5
  <2> HIDE DEF all, more, shares, ones, Others
  <2>2. 100 * busy <= all * Total(more, Others)
    <3>1. \A t \in Others : r[t] \in Nat /\ more[t] \in Nat /\ 100 * r[t] <= all * more[t]
      BY <2>1
    <3> QED
      BY <1>1, <1>2, <3>1, TotalBounded
  <2>3. Total(more, Others) = part + Total(ones, Others)
    BY <1>1, <2>1, TotalOfSums
  <2>4. Total(ones, Others) = Cardinality(Others)
    BY <1>1, <2>1, TotalOfOnes
  <2> QED
    BY <1>1, <2>2, <2>3, <2>4
<1>8. part <= 100
  <2> HIDE DEF all, part, busy
  <2>1. busy <= all
    BY <1>1, <1>2, <1>3
  <2>2. ASSUME part >= 101 PROVE FALSE
    <3>1. all * part >= all * 101
      BY <1>2, <1>6, <2>2
    <3> QED
      BY <1>2, <1>3, <1>6, <2>1, <3>1
  <2> QED
    BY <1>6, <2>2
<1>9. c.total = part
  <2> DEFINE run == [t \in Task |-> r[t] % Word]
             shared(t) == IF all % Word = 0 THEN 0
                          ELSE (((run[t] * 100) % Word) \div (all % Word)) % Byte
  <2>1. run = r
    BY MonitorAssumption
  <2>2. SumFunction(run) = all
    BY <1>2, <2>1
  <2>3. all % Word = all
    BY <1>2, <1>4, MonitorAssumption
  <2>4. \A t \in Others : shared(t) = share(t)
    BY <1>2, <1>5, <2>3
  <2>5. [t \in Others |-> shared(t)] = shares
    BY <2>4
  <2>6. SumFunction(shares) = part
    BY DEF SumFunction, Total
  <2>7. c.total = Capped(SumFunction([t \in Others |-> shared(t)]))
    BY <2>2 DEF CpuSample, CpuFigures
  <2> QED
    BY <1>6, <1>8, <2>5, <2>6, <2>7 DEF Capped
<1>10. SumFunction(ones) = Cardinality(Task)
  BY <1>1, TotalOfOnes DEF SumFunction, Total
<1>11. 100 * busy < (part + Cardinality(Task)) * all
  <2> HIDE DEF all, part, busy
  <2>1. all * (part + (Cardinality(Task) - 1)) = (part + Cardinality(Task)) * all - all
    BY <1>1, <1>2, <1>6
  <2> QED
    BY <1>1, <1>2, <1>3, <1>6, <1>7, <2>1
<1>12. part * all = all * part
  <2> HIDE DEF all, part
  <2> QED
    BY <1>2, <1>6
<1> HIDE DEF all, part, busy
<1> QED
  BY <1>1, <1>2, <1>3, <1>6, <1>9, <1>10, <1>11, <1>12

-----------------------------------------------------------------------------

MemFigures == [free : Nat, heap : Nat, percent : Nat]

\* The heap's percentage is one of the total, which is known from the first
\* sample on.
MemTrue(m) ==
    /\ m \in MemFigures
    /\ m.percent <= 100
    /\ 100 * m.heap < Word
    /\ m.free <= m.heap =>
          /\ m.percent * m.heap <= 100 * (m.heap - m.free)
          /\ 100 * (m.heap - m.free) < (m.percent + 1) * m.heap \/ m.heap = 0

(* A sample of the heap is true, and the total stays what it was.           *)
LEMMA MemSampleTrue ==
  ASSUME MemTrue(mem), NEW free \in Heap
  PROVE  MemTrue(MemSample(free))
<1> DEFINE heap == IF mem.heap = 0 THEN (free + Margin) % Word ELSE mem.heap
           used == (heap - free) % Word
           percent == Capped((((used * 100) % Word) \div heap) % Byte)
<1>1. /\ free \in Nat /\ 100 * (free + Margin) < Word /\ mem.heap \in Nat
      /\ Word \in Nat /\ Word > 0 /\ Margin \in Nat /\ Margin > 0
      /\ Byte \in Nat /\ Byte > 100
  BY MonitorAssumption DEF MemTrue, MemFigures
<1>2. (free + Margin) % Word = free + Margin
  BY <1>1
<1>3. heap \in Nat /\ heap > 0 /\ 100 * heap < Word
  BY <1>1, <1>2 DEF MemTrue
<1> HIDE DEF heap
<1>4. used \in Nat /\ (used * 100) % Word \in Nat
  BY <1>1, <1>3
<1>5. ((used * 100) % Word) \div heap \in Nat
  <2> HIDE DEF used
  <2> QED
    BY <1>3, <1>4, Rounded
<1>6. percent \in Nat /\ percent <= 100
  <2>1. (((used * 100) % Word) \div heap) % Byte \in Nat
    <3> HIDE DEF used
    <3> QED
      BY <1>1, <1>5
  <2> QED
    BY <2>1 DEF Capped
<1>7. ASSUME free <= heap
      PROVE  /\ percent * heap <= 100 * (heap - free)
             /\ 100 * (heap - free) < (percent + 1) * heap
  <2> DEFINE rest == 100 * (heap - free)
             part == rest \div heap
  <2>1. used = heap - free /\ (used * 100) % Word = rest /\ rest \in Nat /\ rest <= 100 * heap
    BY <1>1, <1>3, <1>7
  <2>2. part \in Nat /\ part * heap <= rest /\ rest < (part + 1) * heap
    <3> HIDE DEF rest
    <3> QED
      BY <1>3, <2>1, Rounded
  <2>3. part <= 100
    <3> HIDE DEF rest
    <3> QED
      BY <1>3, <2>1, Bounded
  <2>4. percent = part
    <3>1. percent = Capped(part % Byte)
      BY <2>1
    <3> HIDE DEF part, percent
    <3> QED
      BY <1>1, <2>2, <2>3, <3>1 DEF Capped
  <2> HIDE DEF part, percent
  <2> QED
    BY <2>2, <2>4
<1>8. MemSample(free) = [free |-> free, heap |-> heap, percent |-> percent]
  BY DEF MemSample, heap
<1> HIDE DEF percent
<1> QED
  BY <1>1, <1>3, <1>6, <1>7, <1>8 DEF MemTrue, MemFigures

(* A counter that wraps does not get ahead by more than was counted.        *)
LEMMA Advance ==
  ASSUME NEW n \in Nat, NEW k \in Nat, NEW w \in Nat, w > 0
  PROVE  /\ n % w \in Nat /\ (n + k) % w \in Nat
         /\ (n + k) % w <= (n % w) + k
<1> DEFINE p == n \div w
           q == (n + k) \div w
<1>1. /\ p \in Nat /\ p * w <= n /\ n < (p + 1) * w
      /\ q \in Nat /\ q * w <= n + k /\ n + k < (q + 1) * w
  BY Rounded
<1>2. n % w = n - p * w /\ (n + k) % w = n + k - q * w
  BY SMT
<1> HIDE DEF p, q
<1>3. p <= q
  <2>1. ASSUME q + 1 <= p PROVE FALSE
    <3>1. (q + 1) * w <= p * w
      BY <1>1, <2>1
    <3> QED
      BY <1>1, <3>1
  <2> QED
    BY <1>1, <2>1
<1>4. p * w <= q * w
  BY <1>1, <1>3
<1> QED
  BY <1>1, <1>2, <1>4

NetFigures == [prev : Nat, rate : Nat]

(* A sample of the traffic tells of no more bytes than were sent since the  *)
(* last one.                                                                *)
LEMMA NetSampleTrue ==
  ASSUME net \in NetFigures, NEW n \in Nat, net.prev = (n % Counter) * PacketBytes,
         NEW k \in Nat, NEW time \in Nat, time > 0,
         NEW sample, sample = NetSample(n + k, time)
  PROVE  /\ sample \in NetFigures
         /\ sample.prev = ((n + k) % Counter) * PacketBytes
         /\ sample.rate * time <= k * PacketBytes
<1> DEFINE old == (n % Counter) * PacketBytes
           bytes == ((n + k) % Counter) * PacketBytes
           delta == IF bytes >= old THEN bytes - old ELSE 0
           rate == delta \div time
<1>1. /\ Counter \in Nat /\ Counter > 0 /\ PacketBytes \in Nat /\ Word \in Nat /\ Word > 0
  BY MonitorAssumption
<1>2. /\ n % Counter \in Nat /\ (n + k) % Counter \in Nat
      /\ (n + k) % Counter <= (n % Counter) + k
  BY <1>1, Advance
<1>3. /\ old \in Nat /\ bytes \in Nat /\ k * PacketBytes \in Nat
      /\ bytes <= old + k * PacketBytes
  <2> DEFINE x == n % Counter
             y == (n + k) % Counter
  <2>1. x \in Nat /\ y \in Nat /\ y <= x + k
    BY <1>2
  <2> HIDE DEF x, y
  <2>2. y * PacketBytes <= (x + k) * PacketBytes
    BY <1>1, <2>1
  <2>3. (x + k) * PacketBytes = x * PacketBytes + k * PacketBytes
    BY <1>1, <2>1
  <2>4. /\ x * PacketBytes \in Nat /\ y * PacketBytes \in Nat /\ k * PacketBytes \in Nat
        /\ y * PacketBytes <= x * PacketBytes + k * PacketBytes
    BY <1>1, <2>1, <2>2, <2>3
  <2> QED
    BY <2>4 DEF x, y
<1>4. delta \in Nat /\ delta <= k * PacketBytes
  <2> HIDE DEF old, bytes
  <2> QED
    BY <1>3
<1> HIDE DEF old, bytes, delta
<1>5. rate \in Nat /\ rate * time <= delta
  BY <1>4, Rounded
<1>6. rate % Word \in Nat /\ (rate % Word) * time <= rate * time
  <2> HIDE DEF rate
  <2>1. rate % Word \in Nat /\ rate % Word <= rate
    BY <1>1, <1>5, Wrapped
  <2> QED
    BY <1>5, <2>1
<1>7. sample = [prev |-> bytes, rate |-> rate % Word]
  BY DEF NetSample, old, bytes, delta
<1>8. (rate % Word) * time <= k * PacketBytes
  <2> HIDE DEF rate
  <2>1. rate * time \in Nat /\ (rate % Word) * time \in Nat
    BY <1>5, <1>6
  <2> QED
    BY <1>3, <1>4, <1>5, <1>6, <2>1
<1> HIDE DEF rate
<1> QED
  BY <1>3, <1>6, <1>7, <1>8 DEF NetFigures, bytes

-----------------------------------------------------------------------------

\* The throughputs, whose counter the monitor remembers as it was
TrafficInv ==
    /\ sent \in Nat /\ told \in Nat /\ net \in NetFigures
    /\ net.prev = (sent % Counter) * PacketBytes
    /\ told <= sent * PacketBytes

\* The processor's figures, of the time that the tasks have shared out
CpuInv ==
    /\ cpu \in CpuFigures /\ ran \in [Task -> Nat]
    /\ uptime = SumFunction(ran)
    /\ (\A t \in Task : 100 * ran[t] < Word) => CpuUsageIsShare

SampleInv == TrafficInv /\ CpuInv /\ MemTrue(mem)

(* Nothing has been sampled when the device starts.                         *)
LEMMA NothingYet ==
  /\ NoNet \in NetFigures /\ NoNet.prev = (0 % Counter) * PacketBytes /\ 0 <= 0 * PacketBytes
  /\ NoCpu \in CpuFigures /\ ~NoCpu.read
  /\ NoTime \in [Task -> Nat] /\ SumFunction(NoTime) = 0
  /\ MemTrue(NoMem)
<1>1. NoNet \in NetFigures /\ NoNet.prev = (0 % Counter) * PacketBytes /\ 0 <= 0 * PacketBytes
  <2>1. 0 % Counter = 0 /\ 0 * PacketBytes = 0
    BY MonitorAssumption
  <2> QED
    BY <2>1 DEF NetFigures, NoNet
<1>2. NoCpu \in CpuFigures /\ ~NoCpu.read
  BY DEF CpuFigures, NoCpu
<1>3. NoTime \in [Task -> Nat] /\ SumFunction(NoTime) = 0
  <2>1. \A t \in Task : NoTime[t] \in Nat /\ 1 * NoTime[t] <= 0 * NoTime[t]
    BY DEF NoTime
  <2>2. 1 * Total(NoTime, Task) <= 0 * Total(NoTime, Task) /\ Total(NoTime, Task) \in Nat
    BY <2>1, MonitorAssumption, TotalBounded, TotalNat
  <2>3. SumFunction(NoTime) = Total(NoTime, Task)
    BY DEF SumFunction, Total, NoTime
  <2> QED
    BY <2>2, <2>3 DEF NoTime
<1>4. MemTrue(NoMem)
  BY MonitorAssumption DEF MemTrue, MemFigures, NoMem
<1> QED
  BY <1>1, <1>2, <1>3, <1>4

(* The time between two samples is what the tasks have run in it.           *)
LEMMA TimePasses ==
  ASSUME CpuInv, NEW load \in Load, ran' = [t \in Task |-> ran[t] + load[t]],
         uptime' = uptime + SumFunction(load)
  PROVE  /\ ran' \in [Task -> Nat] /\ uptime' = SumFunction(ran')
         /\ uptime \in Nat /\ SumFunction(load) \in Nat /\ SumFunction(load) > 0
<1>1. load \in [Task -> Nat] /\ ran \in [Task -> Nat] /\ IsFiniteSet(Task)
  BY MonitorAssumption DEF CpuInv
<1>2. /\ SumFunction(load) = Total(load, Task) /\ SumFunction(ran) = Total(ran, Task)
  BY <1>1 DEF SumFunction, Total
<1>3. ran' \in [Task -> Nat]
  BY <1>1
<1>4. SumFunction(ran') = Total(ran', Task)
  BY <1>3 DEF SumFunction, Total
<1>5. Total(ran', Task) = Total(ran, Task) + Total(load, Task)
  <2>1. \A t \in Task : ran[t] \in Nat /\ load[t] \in Nat /\ ran'[t] = ran[t] + load[t]
    BY <1>1
  <2> QED
    BY <1>1, <2>1, TotalOfSums
<1>6. Total(ran, Task) \in Nat /\ Total(load, Task) \in Nat
  BY <1>1, TotalNat
<1> QED
  BY <1>2, <1>3, <1>4, <1>5, <1>6, MonitorAssumption DEF CpuInv

(* A sample keeps the invariant.                                            *)
LEMMA UpdateKeeps ==
  ASSUME SampleInv, Update
  PROVE  SampleInv'
<1> USE DEF SampleInv
<1>1. PICK load \in Load : /\ ran' = [t \in Task |-> ran[t] + load[t]]
                           /\ uptime' = uptime + SumFunction(load)
  BY DEF Update
<1>2. /\ ran' \in [Task -> Nat] /\ uptime' = SumFunction(ran')
      /\ uptime \in Nat /\ SumFunction(load) \in Nat /\ SumFunction(load) > 0
  BY <1>1, TimePasses
<1> DEFINE time == uptime' - uptime
<1>3. time \in Nat /\ time > 0 /\ SumFunction(ran') > 0
  BY <1>1, <1>2
<1>4. TrafficInv'
  <2>1. PICK k \in Traffic : sent' = sent + k
    BY DEF Update
  <2>2. k \in Nat /\ sent \in Nat /\ told \in Nat /\ PacketBytes \in Nat
    BY MonitorAssumption DEF TrafficInv
  <2>3. net' = NetSample(sent + k, time) /\ told' = told + net'.rate * time
    BY <2>1 DEF Update
  <2> HIDE DEF time
  <2>4. /\ net' \in NetFigures
        /\ net'.prev = ((sent + k) % Counter) * PacketBytes
        /\ net'.rate * time <= k * PacketBytes
    BY <1>3, <2>2, <2>3, NetSampleTrue DEF TrafficInv
  <2>5. /\ net'.rate \in Nat /\ net'.rate * time \in Nat /\ k * PacketBytes \in Nat
        /\ sent * PacketBytes \in Nat
        /\ (sent + k) * PacketBytes = sent * PacketBytes + k * PacketBytes
    <3>1. net'.rate \in Nat
      BY <2>4 DEF NetFigures
    <3>2. net'.rate * time \in Nat
      BY <1>3, <3>1
    <3> QED
      BY <2>2, <3>1, <3>2
  <2>6. told' \in Nat /\ told' <= (sent + k) * PacketBytes
    BY <2>2, <2>3, <2>4, <2>5 DEF TrafficInv
  <2> QED
    BY <2>1, <2>2, <2>4, <2>6 DEF TrafficInv
<1>5. CpuInv'
  <2>1. PICK n \in TaskCount, allocated \in BOOLEAN :
           cpu' = CpuSample(n, allocated, [t \in Task |-> ran'[t] % Word])
    BY DEF Update
  <2>2. [t \in Task |-> ran'[t] % Word] \in [Task -> Nat]
    BY <1>2, MonitorAssumption
  <2>3. cpu' \in CpuFigures
    BY <2>1, <2>2, CpuSampleType DEF CpuInv
  <2>4. ASSUME \A t \in Task : 100 * ran'[t] < Word, cpu'.read
        PROVE  LET busy == SumFunction(ran') - ran'[IdleTask]
                   rounded == SumFunction([t \in Task |-> 1])
               IN  /\ cpu'.total * SumFunction(ran') <= 100 * busy
                   /\ 100 * busy < (cpu'.total + rounded) * SumFunction(ran')
    BY <1>2, <1>3, <2>1, <2>4, CpuSampleTrue DEF CpuInv
  <2> QED
    BY <1>2, <2>3, <2>4 DEF CpuInv, CpuUsageIsShare
<1>6. MemTrue(mem)'
  <2>1. PICK free \in Heap : mem' = MemSample(free)
    BY DEF Update
  <2>2. MemTrue(MemSample(free))
    BY MemSampleTrue
  <2> QED
    BY <2>1, <2>2 DEF MemTrue
<1> QED
  BY <1>4, <1>5, <1>6

(* What a sample says is so, through the wrapping of all counters: for      *)
(* every number of tasks up to a hundred, every length of the words and     *)
(* the counters and every traffic, the throughputs never add up to more     *)
(* than was sent, the heap's percentage is one, and the CPU usage is what   *)
(* the tasks have had of the time for as long as a hundredfold run time     *)
(* fits into a word (sys_monitor.c:96-263).                                 *)
THEOREM SamplesAlwaysTrue == MonitorSpec => []SamplesAreTrue
<1>1. MonitorInit => SampleInv
  BY NothingYet DEF MonitorInit, SampleInv, TrafficInv, CpuInv, CpuUsageIsShare
<1>2. SampleInv /\ [MonitorNext]_monitorVars => SampleInv'
  <2> SUFFICES ASSUME SampleInv, [MonitorNext]_monitorVars PROVE SampleInv'
    OBVIOUS
  <2>1. CASE Update
    BY <2>1, UpdateKeeps
  <2>2. CASE Recording \/ UNCHANGED monitorVars
    <3>1. UNCHANGED sampled
      BY <2>2 DEF Recording, MissInVain, Hit, Miss, Uncached, Request, Record, monitorVars, sampled
    <3> QED
      BY <3>1 DEF sampled, SampleInv, TrafficInv, CpuInv, CpuUsageIsShare
  <2>3. CASE Restart
    BY <2>3, NothingYet DEF Restart, SampleInv, TrafficInv, CpuInv, CpuUsageIsShare
  <2> QED
    BY <2>1, <2>2, <2>3 DEF MonitorNext
<1>3. SampleInv => SamplesAreTrue
  BY DEF SampleInv, TrafficInv, CpuInv, MemTrue, SamplesAreTrue
<1> QED
  BY <1>1, <1>2, <1>3, PTL DEF MonitorSpec

=============================================================================
