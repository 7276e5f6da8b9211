------------------------- MODULE SsidHistoryProofs -------------------------
(***************************************************************************)
(* Proofs about SsidHistory: an SSID that was reported as added comes      *)
(* first, and until something cuts in the history is the list of the SSIDs *)
(* used last.  Both rest on what the loop of the addition leaves of the    *)
(* old list.                                                               *)
(***************************************************************************)
EXTENDS SsidHistory, WellFoundedInduction, TLAPS

Name == Ssid \union {Empty}

\* The list `others' of Merged, after so many entries of the old one
Remaining(old, s) ==
    CHOOSE f : f = [i \in 0 .. Len(old) |->
                      IF i = 0 THEN <<>>
                      ELSE IF old[i] = s THEN f[i - 1] ELSE Append(f[i - 1], old[i])]

-----------------------------------------------------------------------------

(* What holds at zero and passes on to the next number holds up to n.       *)
LEMMA UpTo ==
  ASSUME NEW n \in Nat, NEW A, 0 \in A, \A i \in 0 .. n : i > 0 /\ i - 1 \in A => i \in A
  PROVE  \A i \in 0 .. n : i \in A
<1> DEFINE Bad == {i \in 0 .. n : i \notin A}
<1>1. SUFFICES ASSUME Bad # {} PROVE FALSE
  OBVIOUS
<1>2. PICK i \in Bad : \A k \in Bad : ~(<<k, i>> \in OpToRel(<, Nat))
  <2>1. Bad \subseteq Nat
    OBVIOUS
  <2> HIDE DEF Bad
  <2> QED
    BY <1>1, <2>1, NatLessThanWellFounded, WFMin
<1>3. i \in 0 .. n /\ i > 0 /\ i - 1 \in 0 .. n
  OBVIOUS
<1>4. i - 1 \notin Bad
  <2>1. <<i - 1, i>> \in OpToRel(<, Nat)
    BY <1>3 DEF OpToRel
  <2> HIDE DEF Bad
  <2> QED
    BY <1>2, <2>1
<1> QED
  BY <1>3, <1>4

(* The loop's list is what each turn makes of the one before.               *)
LEMMA RemainingEquation ==
  ASSUME NEW V, NEW old \in Seq(V), NEW s
  PROVE  /\ Remaining(old, s)[0] = <<>>
         /\ \A i \in 1 .. Len(old) :
               Remaining(old, s)[i] = IF old[i] = s THEN Remaining(old, s)[i - 1]
                                      ELSE Append(Remaining(old, s)[i - 1], old[i])
<1> DEFINE Turn(f, i) == IF i = 0 THEN <<>>
                         ELSE IF old[i] = s THEN f[i - 1] ELSE Append(f[i - 1], old[i])
           A == {k \in 0 .. Len(old) : \E f : f = [i \in 0 .. k |-> Turn(f, i)]}
<1>1. 0 \in A
  <2> DEFINE f == [i \in 0 .. 0 |-> <<>>]
  <2>1. \A i \in 0 .. 0 : Turn(f, i) = <<>>
    OBVIOUS
  <2>2. f = [i \in 0 .. 0 |-> Turn(f, i)]
    BY <2>1
  <2>3. 0 \in 0 .. Len(old)
    OBVIOUS
  <2> HIDE DEF f
  <2> QED
    BY <2>2, <2>3
<1>2. ASSUME NEW k \in 0 .. Len(old), k > 0, k - 1 \in A PROVE k \in A
  <2>1. PICK f : f = [i \in 0 .. k - 1 |-> Turn(f, i)]
    BY <1>2
  <2>0. \A i \in 0 .. k - 1 : f[i] = Turn(f, i)
    BY <2>1
  <2> DEFINE g == [i \in 0 .. k |-> IF i < k THEN f[i] ELSE Turn(f, k)]
  <2>2. ASSUME NEW i \in 0 .. k PROVE g[i] = Turn(g, i)
    <3>1. CASE i = 0
      <4>1. f[0] = <<>>
        BY <1>2, <2>0
      <4> QED
        BY <1>2, <3>1, <4>1
    <3>2. CASE i > 0 /\ i < k
      <4>1. f[i] = Turn(f, i) /\ g[i - 1] = f[i - 1] /\ g[i] = f[i]
        BY <2>0, <3>2
      <4> QED
        BY <3>2, <4>1
    <3>3. CASE i = k
      <4>1. g[k - 1] = f[k - 1] /\ g[k] = Turn(f, k)
        BY <1>2
      <4> QED
        BY <1>2, <3>3, <4>1
    <3> QED
      BY <3>1, <3>2, <3>3
  <2>3. g = [i \in 0 .. k |-> Turn(g, i)]
    BY <2>2
  <2> HIDE DEF g
  <2> QED
    BY <2>3
<1>3. Len(old) \in A
  <2>1. Len(old) \in Nat /\ Len(old) \in 0 .. Len(old)
    OBVIOUS
  <2> HIDE DEF A
  <2> QED
    BY <1>1, <1>2, <2>1, UpTo
<1>4. \E f : f = [i \in 0 .. Len(old) |-> Turn(f, i)]
  BY <1>3
<1> DEFINE R == Remaining(old, s)
<1>5. R = [i \in 0 .. Len(old) |-> Turn(R, i)]
  BY <1>4 DEF Remaining
<1> HIDE DEF R
<1>6. \A i \in 0 .. Len(old) : R[i] = Turn(R, i)
  BY <1>5
<1> QED
  BY <1>6 DEF R

(* It is made of the old entries but the SSID.                              *)
LEMMA RemainingType ==
  ASSUME NEW V, NEW old \in Seq(V), NEW s
  PROVE  \A i \in 0 .. Len(old) :
            /\ Remaining(old, s)[i] \in Seq(V)
            /\ \A j \in 1 .. Len(Remaining(old, s)[i]) : Remaining(old, s)[i][j] # s
<1> DEFINE R == Remaining(old, s)
           A == {i \in 0 .. Len(old) :
                   R[i] \in Seq(V) /\ \A j \in 1 .. Len(R[i]) : R[i][j] # s}
<1>1. /\ R[0] = <<>>
      /\ \A i \in 1 .. Len(old) :
            R[i] = IF old[i] = s THEN R[i - 1] ELSE Append(R[i - 1], old[i])
  BY RemainingEquation
<1> HIDE DEF R
<1>2. 0 \in A
  <2>1. <<>> \in Seq(V) /\ Len(<<>>) = 0 /\ 0 \in 0 .. Len(old)
    OBVIOUS
  <2>2. R[0] \in Seq(V) /\ \A j \in 1 .. Len(R[0]) : R[0][j] # s
    BY <1>1, <2>1
  <2> QED
    BY <2>1, <2>2
<1>3. ASSUME NEW i \in 0 .. Len(old), i > 0, i - 1 \in A PROVE i \in A
  <2>1. old[i] \in V /\ i \in 1 .. Len(old)
    BY <1>3
  <2>2. CASE old[i] = s
    BY <1>1, <1>3, <2>1, <2>2
  <2>3. CASE old[i] # s
    <3>1. R[i] = Append(R[i - 1], old[i])
      BY <1>1, <2>1, <2>3
    <3>2. /\ R[i] \in Seq(V) /\ Len(R[i]) = Len(R[i - 1]) + 1
          /\ \A j \in 1 .. Len(R[i - 1]) : R[i][j] = R[i - 1][j]
          /\ R[i][Len(R[i])] = old[i]
      BY <1>3, <2>1, <3>1
    <3>3. \A j \in 1 .. Len(R[i]) : j \in 1 .. Len(R[i - 1]) \/ j = Len(R[i])
      BY <1>3, <3>2
    <3> QED
      BY <1>3, <2>3, <3>2, <3>3
  <2> QED
    BY <2>2, <2>3
<1>4. \A i \in 0 .. Len(old) : i \in A
  <2>1. Len(old) \in Nat
    OBVIOUS
  <2> HIDE DEF A
  <2> QED
    BY <1>2, <1>3, <2>1, UpTo
<1> QED
  BY <1>4 DEF R

(* If the SSID is there once, or not at all, the others are those before it *)
(* and those behind it.                                                     *)
LEMMA RemainingOfDistinct ==
  ASSUME NEW V, NEW old \in Seq(V), NEW s, NEW k \in 1 .. Len(old) + 1,
         \A j \in 1 .. Len(old) : old[j] = s <=> j = k
  PROVE  Remaining(old, s)[Len(old)] =
            IF k <= Len(old)
            THEN [j \in 1 .. Len(old) - 1 |-> IF j < k THEN old[j] ELSE old[j + 1]]
            ELSE old
<1> DEFINE R == Remaining(old, s)
           S(i) == IF i < k THEN [j \in 1 .. i |-> old[j]]
                   ELSE [j \in 1 .. i - 1 |-> IF j < k THEN old[j] ELSE old[j + 1]]
           A == {i \in 0 .. Len(old) : R[i] = S(i)}
<1>1. /\ R[0] = <<>>
      /\ \A i \in 1 .. Len(old) :
            R[i] = IF old[i] = s THEN R[i - 1] ELSE Append(R[i - 1], old[i])
  BY RemainingEquation
<1> HIDE DEF R
<1>2. 0 \in A
  <2>1. R[0] = <<>> /\ 0 < k
    BY <1>1
  <2>2. S(0) = <<>>
    BY <2>1
  <2> QED
    BY <2>1, <2>2
<1>3. ASSUME NEW i \in 0 .. Len(old), i > 0, i - 1 \in A PROVE i \in A
  <2>1. R[i - 1] = S(i - 1)
    BY <1>3
  <2>2. i \in 1 .. Len(old) /\ R[i] = IF i = k THEN R[i - 1] ELSE Append(R[i - 1], old[i])
    BY <1>1, <1>3
  <2>3. CASE i < k
    <3>1. R[i] = Append([j \in 1 .. i - 1 |-> old[j]], old[i])
      <4>1. R[i - 1] = [j \in 1 .. i - 1 |-> old[j]]
        BY <2>1, <2>3, <2>2
      <4> QED
        BY <2>3, <2>2, <4>1
    <3>2. Append([j \in 1 .. i - 1 |-> old[j]], old[i]) = [j \in 1 .. i |-> old[j]]
      BY <1>3
    <3> QED
      BY <1>3, <2>3, <3>1, <3>2
  <2>4. CASE i = k
    <3>1. R[i] = [j \in 1 .. i - 1 |-> old[j]]
      BY <2>1, <2>4, <2>2
    <3>2. [j \in 1 .. i - 1 |-> old[j]] =
             [j \in 1 .. i - 1 |-> IF j < k THEN old[j] ELSE old[j + 1]]
      BY <1>3, <2>4
    <3> QED
      BY <1>3, <2>4, <3>1, <3>2
  <2>5. CASE i > k
    <3> DEFINE f == [j \in 1 .. i - 2 |-> IF j < k THEN old[j] ELSE old[j + 1]]
    <3>1. R[i] = Append(f, old[i])
      <4>1. R[i - 1] = f
        BY <1>3, <2>1, <2>5
      <4> HIDE DEF f
      <4> QED
        BY <2>5, <2>2, <4>1
    <3>2. Append(f, old[i]) = [j \in 1 .. i - 1 |-> IF j < k THEN old[j] ELSE old[j + 1]]
      BY <1>3, <2>5
    <3>3. S(i) = [j \in 1 .. i - 1 |-> IF j < k THEN old[j] ELSE old[j + 1]]
      BY <2>5
    <3> HIDE DEF f, S
    <3> QED
      BY <1>3, <3>1, <3>2, <3>3
  <2> QED
    BY <2>3, <2>4, <2>5
<1>4. Len(old) \in A
  <2>1. \A i \in 0 .. Len(old) : i \in A
    <3>1. Len(old) \in Nat
      OBVIOUS
    <3> HIDE DEF A
    <3> QED
      BY <1>2, <1>3, <3>1, UpTo
  <2> QED
    BY <2>1
<1>5. k > Len(old) => [j \in 1 .. Len(old) |-> old[j]] = old
  OBVIOUS
<1> QED
  BY <1>4, <1>5 DEF R

InFrontOf(list, s) ==
    [i \in 1 .. (IF Len(list) < MaxHistory THEN Len(list) + 1 ELSE MaxHistory) |->
       IF i = 1 THEN s ELSE list[i - 1]]

(* The addition puts the SSID in front of what the loop leaves.             *)
LEMMA MergedIsRemaining ==
  ASSUME NEW V, NEW old \in Seq(V), NEW s \in V
  PROVE  /\ Merged(old, s) \in Seq(V)
         /\ Len(Merged(old, s)) \in 1 .. MaxHistory
         /\ Merged(old, s)[1] = s
         /\ \A i \in 2 .. Len(Merged(old, s)) : Merged(old, s)[i] # s
         /\ Merged(old, s) = InFrontOf(Remaining(old, s)[Len(old)], s)
<1> DEFINE all == Remaining(old, s)[Len(old)]
           kept == IF Len(all) < MaxHistory - 1 THEN Len(all) ELSE MaxHistory - 1
           rest == SubSeq(all, 1, kept)
<1>1. all \in Seq(V) /\ \A j \in 1 .. Len(all) : all[j] # s
  <2>1. Len(old) \in 0 .. Len(old)
    OBVIOUS
  <2> QED
    BY <2>1, RemainingType
<1>2. Merged(old, s) = <<s>> \o rest
  BY DEF Merged, Remaining
<1> HIDE DEF all
<1>3. kept \in 0 .. Len(all) /\ kept \in 0 .. MaxHistory - 1
  BY <1>1, HistoryAssumption
<1>4. /\ rest \in Seq(V) /\ Len(rest) = kept
      /\ \A j \in 1 .. kept : rest[j] = all[j] /\ all[j] # s
  <2> HIDE DEF kept
  <2> QED
    BY <1>1, <1>3
<1> HIDE DEF rest
<1>5. /\ <<s>> \o rest \in Seq(V) /\ Len(<<s>> \o rest) = kept + 1
      /\ (<<s>> \o rest)[1] = s
      /\ \A i \in 2 .. kept + 1 : (<<s>> \o rest)[i] = rest[i - 1] /\ i - 1 \in 1 .. kept
  <2> HIDE DEF kept
  <2> QED
    BY <1>3, <1>4
<1>6. <<s>> \o rest = [i \in 1 .. kept + 1 |-> IF i = 1 THEN s ELSE all[i - 1]]
  <2>1. DOMAIN (<<s>> \o rest) = 1 .. kept + 1
    BY <1>5
  <2>2. \A i \in 1 .. kept + 1 : (<<s>> \o rest)[i] = IF i = 1 THEN s ELSE all[i - 1]
    <3> HIDE DEF kept
    <3> QED
      BY <1>3, <1>4, <1>5
  <2>3. <<s>> \o rest = [i \in 1 .. kept + 1 |-> (<<s>> \o rest)[i]]
    BY <1>5, <2>1
  <2> HIDE DEF kept
  <2> QED
    BY <2>2, <2>3
<1>7. kept + 1 = IF Len(all) < MaxHistory THEN Len(all) + 1 ELSE MaxHistory
  BY <1>1, HistoryAssumption
<1>8. \A i \in 2 .. kept + 1 : (<<s>> \o rest)[i] # s
  BY <1>4, <1>5
<1> HIDE DEF kept
<1>9. /\ Merged(old, s) \in Seq(V) /\ Len(Merged(old, s)) \in 1 .. MaxHistory
      /\ Merged(old, s)[1] = s
      /\ \A i \in 2 .. Len(Merged(old, s)) : Merged(old, s)[i] # s
  BY <1>2, <1>3, <1>5, <1>8, HistoryAssumption
<1>10. Merged(old, s) = InFrontOf(all, s)
  BY <1>2, <1>6, <1>7 DEF InFrontOf
<1> QED
  BY <1>9, <1>10 DEF all

\* The abstract list's next value, see RecentSsids!Use
Place(old, s) ==
    IF \E k \in 1 .. Len(old) : old[k] = s
    THEN CHOOSE k \in 1 .. Len(old) : old[k] = s
    ELSE IF Len(old) < MaxHistory THEN Len(old) + 1 ELSE MaxHistory

MovedToFront(old, s) ==
    LET k == Place(old, s)
        length == IF k <= Len(old) THEN Len(old) ELSE k
    IN  [i \in 1 .. length |-> IF i = 1 THEN s ELSE IF i <= k THEN old[i - 1] ELSE old[i]]

Distinct(list) == \A i, j \in 1 .. Len(list) : list[i] = list[j] => i = j

(* A list without repetitions is moved to the front, and stays without.     *)
LEMMA MergedMoves ==
  ASSUME NEW V, NEW old \in Seq(V), NEW s \in V, Distinct(old), Len(old) <= MaxHistory
  PROVE  Merged(old, s) = MovedToFront(old, s) /\ Distinct(Merged(old, s))
<1> DEFINE all == Remaining(old, s)[Len(old)]
           m == Merged(old, s)
           n == IF Len(all) < MaxHistory THEN Len(all) + 1 ELSE MaxHistory
<1>1. m = [i \in 1 .. n |-> IF i = 1 THEN s ELSE all[i - 1]]
  <2>1. m = InFrontOf(all, s)
    BY MergedIsRemaining
  <2> HIDE DEF m, all
  <2> QED
    BY <2>1 DEF InFrontOf
<1>2. MaxHistory \in Nat /\ MaxHistory > 0 /\ Len(old) \in Nat
  BY HistoryAssumption
<1>3. CASE \E k \in 1 .. Len(old) : old[k] = s
  <2> DEFINE k == Place(old, s)
  <2>1. k \in 1 .. Len(old) /\ old[k] = s
    BY <1>3 DEF Place
  <2>2. \A j \in 1 .. Len(old) : old[j] = s <=> j = k
    BY <2>1 DEF Distinct
  <2> HIDE DEF k
  <2>3. all = [j \in 1 .. Len(old) - 1 |-> IF j < k THEN old[j] ELSE old[j + 1]]
    BY <2>1, <2>2, RemainingOfDistinct
  <2> HIDE DEF all
  <2>4. n = Len(old)
    <3>1. Len(all) = Len(old) - 1
      BY <1>2, <2>1, <2>3
    <3> QED
      BY <1>2, <3>1
  <2>5. m = [i \in 1 .. Len(old) |-> IF i = 1 THEN s ELSE IF i <= k THEN old[i - 1] ELSE old[i]]
    <3>1. \A i \in 2 .. Len(old) : all[i - 1] = IF i <= k THEN old[i - 1] ELSE old[i]
      <4> SUFFICES ASSUME NEW i \in 2 .. Len(old)
                   PROVE  all[i - 1] = IF i <= k THEN old[i - 1] ELSE old[i]
        OBVIOUS
      <4>1. /\ i - 1 \in 1 .. Len(old) - 1 /\ (i - 1) + 1 = i
            /\ i - 1 < k <=> i <= k
        BY <1>2, <2>1
      <4> QED
        BY <2>3, <4>1
    <3> HIDE DEF n, m
    <3> QED
      BY <1>1, <1>2, <2>4, <3>1
  <2>6. m = MovedToFront(old, s)
    <3> HIDE DEF m
    <3> QED
      BY <2>1, <2>5 DEF MovedToFront, k
  <2>7. Distinct(m)
    <3> HIDE DEF m
    <3> QED
      BY <1>2, <2>1, <2>2, <2>5 DEF Distinct
  <2> QED
    BY <2>6, <2>7
<1>4. CASE \A k \in 1 .. Len(old) : old[k] # s
  <2> DEFINE k == Place(old, s)
  <2>1. k = IF Len(old) < MaxHistory THEN Len(old) + 1 ELSE MaxHistory
    BY <1>4 DEF Place
  <2> HIDE DEF k
  <2>2. all = old
    <3>1. PICK q \in 1 .. Len(old) + 1 : q = Len(old) + 1
      BY <1>2
    <3>2. \A j \in 1 .. Len(old) : old[j] = s <=> j = q
      BY <1>2, <1>4, <3>1
    <3>3. all = IF q <= Len(old)
                THEN [j \in 1 .. Len(old) - 1 |-> IF j < q THEN old[j] ELSE old[j + 1]]
                ELSE old
      BY <3>2, RemainingOfDistinct
    <3> QED
      BY <1>2, <3>1, <3>3
  <2> HIDE DEF all
  <2>3. n = k
    BY <2>1, <2>2
  <2>4. k \in 1 .. Len(old) + 1 /\ k >= Len(old) /\ k \in Nat
    BY <1>2, <2>1
  <2>5. m = [i \in 1 .. k |-> IF i = 1 THEN s ELSE old[i - 1]]
    <3> HIDE DEF m, n
    <3> QED
      BY <1>1, <2>2, <2>3
  <2>6. m = MovedToFront(old, s)
    <3>1. (IF k <= Len(old) THEN Len(old) ELSE k) = k
      BY <1>2, <2>4
    <3>2. \A i \in 1 .. k : i <= k
      OBVIOUS
    <3> HIDE DEF m
    <3> QED
      BY <2>5, <3>1, <3>2 DEF MovedToFront, k
  <2>7. Distinct(m)
    <3>1. Len(m) = k
      BY <2>4, <2>5
    <3> HIDE DEF m
    <3> QED
      BY <1>2, <1>4, <2>4, <2>5, <3>1 DEF Distinct
  <2> QED
    BY <2>6, <2>7
<1> QED
  BY <1>3, <1>4

-----------------------------------------------------------------------------

\* What the addition under way is about to write, and has written unless the
\* flash was erased meanwhile
Adds ==
    pc # "idle" => /\ Len(history) >= 1 /\ history[1] \in Ssid
                   /\ \A i \in 2 .. Len(history) : history[i] # history[1]
                   /\ added = NoSsid

Wrote ==
    /\ pc = "entries" => position < Len(history)
    /\ pc \in {"entries", "commit"} /\ ~wiped =>
          /\ count = Len(history)
          /\ \A i \in 1 .. Len(history) :
                pc = "commit" \/ i <= position => entry[i - 1] = history[i]

First ==
    added # NoSsid => /\ count > 0
                      /\ \A i \in 1 .. count : entry[i - 1] = added <=> i = 1

HistoryType ==
    /\ count \in -1 .. MaxHistory
    /\ entry \in [Slot -> Name \union {NoKey}]
    /\ pc \in {"idle", "count", "entries", "commit"}
    /\ history \in Seq(Name) /\ Len(history) <= MaxHistory
    /\ position \in Nat
    /\ added \in Ssid \union {NoSsid}
    /\ wiped \in BOOLEAN /\ disturbed \in BOOLEAN

AddInv == HistoryType /\ Adds /\ Wrote /\ First

\* As long as nothing cut in, the list has no repetitions and is what the
\* flash holds between two additions.
Undisturbed ==
    ~disturbed => /\ pc # "idle" => ~wiped /\ Distinct(history)
                  /\ pc = "idle" => Distinct(LoadHistory)

RecentInv == AddInv /\ Undisturbed

(* What is read from the flash is a list, no longer than it may be.         *)
LEMMA LoadedType ==
  ASSUME HistoryType
  PROVE  /\ LoadHistory \in Seq(Name)
         /\ Len(LoadHistory) = IF count = -1 THEN 0 ELSE count
         /\ Len(LoadHistory) <= MaxHistory
         /\ \A i \in 1 .. Len(LoadHistory) :
               LoadHistory[i] = IF entry[i - 1] = NoKey THEN Empty ELSE entry[i - 1]
<1> DEFINE listed == IF count = -1 THEN 0 ELSE count
<1>1. listed \in Nat /\ listed <= MaxHistory /\ MaxHistory \in Nat
  BY HistoryAssumption DEF HistoryType
<1> HIDE DEF listed
<1>2. \A i \in 1 .. listed : i - 1 \in Slot
  BY <1>1 DEF Slot
<1>3. \A i \in 1 .. listed : (IF entry[i - 1] = NoKey THEN Empty ELSE entry[i - 1]) \in Name
  BY <1>2 DEF HistoryType, Name
<1>4. LoadHistory = [i \in 1 .. listed |-> IF entry[i - 1] = NoKey THEN Empty ELSE entry[i - 1]]
  BY DEF LoadHistory, listed
<1> QED
  BY <1>1, <1>3, <1>4 DEF listed

LEMMA NoNames == <<>> \in Seq(Name) /\ Len(<<>>) = 0 /\ -1 \in -1 .. MaxHistory /\ 0 <= MaxHistory
BY HistoryAssumption

(* Nothing is added at first.                                               *)
LEMMA InitRecent == HistoryInit => RecentInv
<1> SUFFICES ASSUME HistoryInit PROVE RecentInv
  OBVIOUS
<1>1. HistoryType
  BY NoNames DEF HistoryInit, HistoryType
<1>2. Len(LoadHistory) = 0
  BY <1>1, LoadedType DEF HistoryInit
<1> QED
  BY <1>1, <1>2 DEF HistoryInit, RecentInv, AddInv, Adds, Wrote, First, Undisturbed, Distinct

(* The steps of an addition keep its invariant.                             *)
LEMMA BeginAddKeeps ==
  ASSUME AddInv, NEW s \in Ssid, BeginAdd(s)
  PROVE  AddInv'
<1>1. LoadHistory \in Seq(Name) /\ s \in Name
  BY LoadedType DEF AddInv, Name
<1>2. /\ history' \in Seq(Name) /\ Len(history') \in 1 .. MaxHistory
      /\ history'[1] = s /\ \A i \in 2 .. Len(history') : history'[i] # s
  <2> DEFINE m == Merged(LoadHistory, s)
  <2>1. history' = m
    BY DEF BeginAdd
  <2>2. /\ m \in Seq(Name) /\ Len(m) \in 1 .. MaxHistory
        /\ m[1] = s /\ \A i \in 2 .. Len(m) : m[i] # s
    BY <1>1, MergedIsRemaining
  <2> HIDE DEF m
  <2> QED
    BY <2>1, <2>2
<1>3. HistoryType'
  <2>1. Len(history') <= MaxHistory
    BY <1>2, HistoryAssumption
  <2>2. UNCHANGED <<count, entry, position, disturbed>>
    BY DEF BeginAdd, listKeys
  <2>3. pc' = "count" /\ added' = NoSsid /\ wiped' = FALSE
    BY DEF BeginAdd
  <2> QED
    BY <1>2, <2>1, <2>2, <2>3 DEF AddInv, HistoryType
<1>4. Adds'
  BY <1>2, HistoryAssumption DEF BeginAdd, Adds
<1>5. Wrote' /\ First'
  BY DEF BeginAdd, Wrote, First
<1> QED
  BY <1>3, <1>4, <1>5 DEF AddInv

(* The two kinds of writes of an addition: the count, and one entry.        *)
LEMMA WriteCountKeeps ==
  ASSUME AddInv, WriteCount
  PROVE  AddInv'
<1>1. Len(history) \in 1 .. MaxHistory /\ MaxHistory \in Nat
  BY HistoryAssumption DEF WriteCount, AddInv, Adds, HistoryType
<1>2. HistoryType'
  BY <1>1 DEF WriteCount, AddInv, HistoryType
<1>3. Adds'
  BY DEF WriteCount, AddInv, Adds
<1>4. Wrote'
  BY <1>1 DEF WriteCount, AddInv, Wrote
<1>5. First'
  BY DEF WriteCount, AddInv, Adds, First
<1> QED
  BY <1>2, <1>3, <1>4, <1>5 DEF AddInv

LEMMA WriteEntryKeeps ==
  ASSUME AddInv, WriteEntry
  PROVE  AddInv'
<1>1. /\ Len(history) \in Nat /\ Len(history) <= MaxHistory /\ MaxHistory \in Nat
      /\ position \in Nat /\ position < Len(history)
      /\ position \in Slot /\ position + 1 \in 1 .. Len(history)
  BY HistoryAssumption DEF WriteEntry, AddInv, HistoryType, Wrote, Slot
<1>2. history[position + 1] \in Name
  BY <1>1 DEF AddInv, HistoryType
<1>3. HistoryType'
  BY <1>1, <1>2 DEF WriteEntry, AddInv, HistoryType
<1>4. Adds'
  BY DEF WriteEntry, AddInv, Adds
<1>5. Wrote'
  <2>1. \A i \in 1 .. Len(history) :
           /\ i - 1 \in Slot
           /\ entry'[i - 1] = IF i = position + 1 THEN history[i] ELSE entry[i - 1]
    <3>1. \A i \in 1 .. Len(history) : i - 1 \in Slot /\ (i - 1 = position <=> i = position + 1)
      BY <1>1 DEF Slot
    <3> QED
      BY <1>1, <3>1 DEF WriteEntry, AddInv, HistoryType
  <2>2. history' = history /\ wiped' = wiped /\ count' = count
    BY DEF WriteEntry
  <2>3. pc' = "entries" => position' < Len(history)
    BY <1>1 DEF WriteEntry
  <2>4. ASSUME ~wiped PROVE count = Len(history)
    BY <2>4 DEF AddInv, Wrote, WriteEntry
  <2>5. ASSUME ~wiped, NEW i \in 1 .. Len(history), pc' = "commit" \/ i <= position'
        PROVE  entry'[i - 1] = history[i]
    <3>1. i <= position \/ i = position + 1
      BY <1>1, <2>5 DEF WriteEntry
    <3> QED
      BY <2>1, <2>5, <3>1 DEF AddInv, Wrote, WriteEntry
  <2> QED
    BY <2>2, <2>3, <2>4, <2>5 DEF Wrote
<1>6. First'
  BY DEF WriteEntry, AddInv, Adds, First
<1> QED
  BY <1>3, <1>4, <1>5, <1>6 DEF AddInv

(* What is reported as added has been written, unless it was erased.        *)
LEMMA CommitKeeps ==
  ASSUME AddInv, Commit
  PROVE  AddInv'
<1>1. /\ Len(history) \in Nat /\ Len(history) >= 1 /\ history[1] \in Ssid
      /\ \A i \in 2 .. Len(history) : history[i] # history[1]
      /\ Head(history) = history[1] /\ added = NoSsid
  BY DEF Commit, AddInv, Adds, HistoryType
<1>2. HistoryType'
  BY <1>1 DEF Commit, AddInv, HistoryType, listKeys
<1>3. Adds' /\ Wrote'
  BY DEF Commit, Adds, Wrote
<1>4. CASE wiped
  BY <1>2, <1>3, <1>4 DEF Commit, AddInv, First
<1>5. CASE ~wiped
  <2>1. count = Len(history) /\ \A i \in 1 .. Len(history) : entry[i - 1] = history[i]
    BY <1>5 DEF Commit, AddInv, Wrote
  <2>2. \A i \in 1 .. count : entry[i - 1] = history[1] <=> i = 1
    BY <1>1, <2>1
  <2> QED
    BY <1>1, <1>2, <1>3, <1>5, <2>1, <2>2 DEF Commit, AddInv, First, listKeys
<1> QED
  BY <1>2, <1>3, <1>4, <1>5 DEF AddInv

(* So do the erases, whose left-overs no addition was reported for, and     *)
(* what cuts an addition off.                                               *)
LEMMA ErasedKeeps ==
  ASSUME AddInv, Erased \/ ErasedPartly, UNCHANGED listTask \/ Reset
  PROVE  AddInv'
<1>1. count' \in -1 .. MaxHistory /\ entry' \in [Slot -> Name \union {NoKey}]
  <2>1. CASE Erased
    BY <2>1, HistoryAssumption DEF Erased
  <2>2. CASE ErasedPartly
    <3>1. PICK left \in SUBSET Slot :
             entry' = [i \in Slot |-> IF i \in left THEN entry[i] ELSE NoKey]
      BY <2>2 DEF ErasedPartly
    <3>2. entry' \in [Slot -> Name \union {NoKey}]
      BY <3>1 DEF AddInv, HistoryType
    <3>3. count' \in -1 .. MaxHistory
      BY <2>2, HistoryAssumption DEF ErasedPartly, AddInv, HistoryType
    <3> QED
      BY <3>2, <3>3
  <2> QED
    BY <2>1, <2>2
<1>2. added' = NoSsid /\ wiped' = TRUE /\ disturbed' \in BOOLEAN
  BY DEF Erased, ErasedPartly
<1>3. HistoryType'
  <2>1. /\ pc' \in {"idle", "count", "entries", "commit"} /\ position' \in Nat
        /\ history' \in Seq(Name) /\ Len(history') <= MaxHistory
    <3>1. CASE UNCHANGED listTask
      BY <3>1 DEF AddInv, HistoryType, listTask
    <3>2. CASE Reset
      <4>1. history' = <<>> /\ pc' = "idle" /\ position' = 0
        BY <3>2 DEF Reset
      <4> QED
        BY <4>1, NoNames
    <3> QED
      BY <3>1, <3>2
  <2> QED
    BY <1>1, <1>2, <2>1 DEF HistoryType
<1>4. Adds' /\ Wrote' /\ First'
  BY <1>2 DEF AddInv, Adds, Wrote, First, listTask, Reset
<1> QED
  BY <1>3, <1>4 DEF AddInv

(* Every step keeps the invariant.                                          *)
LEMMA StepAdd ==
  ASSUME AddInv, [HistoryNext]_historyVars
  PROVE  AddInv'
<1>1. CASE \E s \in Ssid : BeginAdd(s)
  BY <1>1, BeginAddKeeps
<1>2. CASE WriteCount \/ WriteEntry \/ Commit
  BY <1>2, WriteCountKeeps, WriteEntryKeeps, CommitKeeps
<1>3. CASE AddFails
  BY <1>3 DEF AddFails, AddInv, HistoryType, Adds, Wrote, First, listKeys
<1>4. CASE EraseHistory \/ EraseHistoryFails \/ EraseHistoryCutOff
  BY <1>4, ErasedKeeps DEF EraseHistory, EraseHistoryFails, EraseHistoryCutOff
<1>5. CASE RestartDevice
  <2>1. HistoryType'
    BY <1>5, NoNames DEF RestartDevice, Reset, AddInv, HistoryType, listKeys
  <2> QED
    BY <1>5, <2>1 DEF RestartDevice, Reset, AddInv, Adds, Wrote, First, listKeys
<1>6. CASE UNCHANGED historyVars
  BY <1>6 DEF historyVars, AddInv, HistoryType, Adds, Wrote, First
<1> QED
  BY <1>1, <1>2, <1>3, <1>4, <1>5, <1>6 DEF HistoryNext

(* An addition that was reported as done leaves its SSID first, and once,   *)
(* whatever earlier additions that failed or were cut off have left behind, *)
(* and through every restart: for every number of SSIDs and every length of *)
(* the history (wifi_config_manager.c:486-572).                             *)
THEOREM AddedComesFirst == HistorySpec => []AddedIsFirst
<1>1. HistoryInit => AddInv
  BY InitRecent DEF RecentInv
<1>2. AddInv /\ [HistoryNext]_historyVars => AddInv'
  BY StepAdd
<1>3. AddInv => AddedIsFirst
  <2> SUFFICES ASSUME AddInv, added # NoSsid
               PROVE  count > 0 /\ \A i \in 1 .. count : LoadHistory[i] = added <=> i = 1
    BY DEF AddedIsFirst
  <2>1. count > 0 /\ \A i \in 1 .. count : entry[i - 1] = added <=> i = 1
    BY DEF AddInv, First
  <2>2. added \in Ssid /\ added # NoKey /\ added # Empty
    BY HistoryAssumption DEF AddInv, HistoryType
  <2>3. \A i \in 1 .. count :
           LoadHistory[i] = IF entry[i - 1] = NoKey THEN Empty ELSE entry[i - 1]
    BY <2>1, LoadedType DEF AddInv, HistoryType
  <2> QED
    BY <2>1, <2>2, <2>3
<1> QED
  BY <1>1, <1>2, <1>3, PTL DEF HistorySpec

-----------------------------------------------------------------------------

\* The abstract list, see ImplementsRecent
Listed == IF disturbed THEN <<>> ELSE IF pc = "idle" THEN LoadHistory ELSE history

(* When all is written the flash holds the list.                            *)
LEMMA CommittedIsLoaded ==
  ASSUME AddInv, pc = "commit", ~wiped
  PROVE  LoadHistory = history
<1>1. /\ count = Len(history) /\ \A i \in 1 .. Len(history) : entry[i - 1] = history[i]
      /\ history \in Seq(Name)
  BY DEF AddInv, Wrote, HistoryType
<1>2. /\ LoadHistory \in Seq(Name) /\ Len(LoadHistory) = Len(history)
      /\ \A i \in 1 .. Len(LoadHistory) :
            LoadHistory[i] = IF entry[i - 1] = NoKey THEN Empty ELSE entry[i - 1]
  <2>1. Len(history) # -1
    BY <1>1
  <2> QED
    BY <1>1, <2>1, LoadedType DEF AddInv
<1>3. ASSUME NEW i \in 1 .. Len(history) PROVE LoadHistory[i] = history[i]
  <2>1. history[i] \in Name /\ history[i] # NoKey
    BY <1>1, HistoryAssumption DEF Name
  <2> QED
    BY <1>1, <1>2, <2>1
<1> QED
  BY <1>1, <1>2, <1>3

(* An addition that finds the list undisturbed uses the SSID.               *)
LEMMA BeginAddUses ==
  ASSUME RecentInv, NEW s \in Ssid, BeginAdd(s), ~disturbed
  PROVE  /\ ~disturbed' /\ pc' = "count" /\ ~wiped'
         /\ history' = MovedToFront(LoadHistory, s) /\ Distinct(history')
<1>1. LoadHistory \in Seq(Name) /\ s \in Name /\ Len(LoadHistory) <= MaxHistory
  BY LoadedType DEF RecentInv, AddInv, Name
<1>2. Distinct(LoadHistory)
  BY DEF RecentInv, Undisturbed, BeginAdd
<1> DEFINE m == Merged(LoadHistory, s)
<1>3. m = MovedToFront(LoadHistory, s) /\ Distinct(m)
  BY <1>1, <1>2, MergedMoves
<1>4. history' = m /\ ~disturbed' /\ pc' = "count" /\ ~wiped'
  BY DEF BeginAdd
<1> HIDE DEF m
<1> QED
  BY <1>3, <1>4 DEF Distinct

(* Without a count there is no list.                                        *)
LEMMA NothingListed ==
  ASSUME count = -1 PROVE LoadHistory = <<>>
BY DEF LoadHistory

(* An erase leaves nothing of the list.                                     *)
LEMMA ErasedLoads ==
  ASSUME Erased PROVE LoadHistory' = <<>>
BY DEF Erased, LoadHistory

(* The list keeps being one without repetitions, or is disturbed.           *)
LEMMA StepUndisturbed ==
  ASSUME RecentInv, [HistoryNext]_historyVars
  PROVE  Undisturbed'
<1> SUFFICES ASSUME ~disturbed'
             PROVE  /\ pc' # "idle" => ~wiped' /\ Distinct(history')
                    /\ pc' = "idle" => Distinct(LoadHistory')
  BY DEF Undisturbed, Distinct
<1> USE DEF RecentInv, Undisturbed
<1>1. CASE \E s \in Ssid : BeginAdd(s)
  <2>1. PICK s \in Ssid : BeginAdd(s)
    BY <1>1
  <2>2. ~disturbed
    BY <2>1 DEF BeginAdd
  <2> QED
    BY <2>1, <2>2, BeginAddUses
<1>2. CASE WriteCount \/ WriteEntry
  BY <1>2 DEF WriteCount, WriteEntry
<1>3. CASE Commit
  <2>1. LoadHistory' = LoadHistory /\ pc' = "idle" /\ ~disturbed /\ ~wiped /\ Distinct(history)
    BY <1>3 DEF Commit, LoadHistory, listKeys
  <2>2. LoadHistory = history
    BY <1>3, <2>1, CommittedIsLoaded DEF Commit
  <2> QED
    BY <2>1, <2>2
<1>4. CASE AddFails \/ EraseHistoryFails \/ EraseHistoryCutOff
  BY <1>4 DEF AddFails, EraseHistoryFails, EraseHistoryCutOff, ErasedPartly
<1>5. CASE EraseHistory
  <2>1. LoadHistory' = <<>> /\ pc' = "idle"
    BY <1>5, ErasedLoads DEF EraseHistory, Erased, listTask
  <2> QED
    BY <2>1 DEF Distinct
<1>6. CASE RestartDevice
  <2>1. LoadHistory' = LoadHistory /\ pc' = "idle" /\ ~disturbed /\ pc = "idle"
    BY <1>6 DEF RestartDevice, Reset, LoadHistory, listKeys
  <2> QED
    BY <2>1
<1>7. CASE UNCHANGED historyVars
  BY <1>7 DEF historyVars, LoadHistory
<1> QED
  BY <1>1, <1>2, <1>3, <1>4, <1>5, <1>6, <1>7 DEF HistoryNext

(* An addition uses an SSID, what cuts in forgets the list, and no other    *)
(* step can be seen in it.                                                  *)
LEMMA StepListed ==
  ASSUME RecentInv, [HistoryNext]_historyVars
  PROVE  \/ Listed' = Listed
         \/ Listed' = <<>>
         \/ \E s \in Ssid : Listed' = MovedToFront(Listed, s)
<1> USE DEF Listed
<1>1. CASE \E s \in Ssid : BeginAdd(s)
  <2>1. PICK s \in Ssid : BeginAdd(s)
    BY <1>1
  <2>2. pc = "idle" /\ disturbed' = disturbed
    BY <2>1 DEF BeginAdd
  <2>3. CASE disturbed
    BY <2>2, <2>3
  <2>4. CASE ~disturbed
    BY <2>1, <2>2, <2>4, BeginAddUses
  <2> QED
    BY <2>3, <2>4
<1>2. CASE WriteCount \/ WriteEntry
  BY <1>2 DEF WriteCount, WriteEntry
<1>3. CASE Commit
  <2>1. LoadHistory' = LoadHistory /\ pc' = "idle" /\ disturbed' = disturbed /\ pc = "commit"
    BY <1>3 DEF Commit, LoadHistory, listKeys
  <2>2. ~disturbed => LoadHistory = history
    BY <2>1, CommittedIsLoaded DEF RecentInv, Undisturbed
  <2> QED
    BY <2>1, <2>2
<1>4. CASE AddFails \/ EraseHistoryFails \/ EraseHistoryCutOff
  BY <1>4 DEF AddFails, EraseHistoryFails, EraseHistoryCutOff, ErasedPartly
<1>5. CASE EraseHistory
  BY <1>5, ErasedLoads DEF EraseHistory, Erased, listTask
<1>6. CASE RestartDevice
  BY <1>6 DEF RestartDevice, Reset, LoadHistory, listKeys
<1>7. CASE UNCHANGED historyVars
  BY <1>7 DEF historyVars, LoadHistory
<1> QED
  BY <1>1, <1>2, <1>3, <1>4, <1>5, <1>6, <1>7 DEF HistoryNext

(* From the first boot or an erase on, until something cuts in on an        *)
(* addition or an erase, the history is the list of the SSIDs used last,    *)
(* each of them once, in the order of their last use, as                    *)
(* wifi_config_manager.h:174 has it, for every length of the history.       *)
THEOREM HistoryIsRecent == HistorySpec => ImplementsRecent
<1>1. HistoryInit => RecentInv
  BY InitRecent
<1>2. RecentInv /\ [HistoryNext]_historyVars => RecentInv'
  BY StepAdd, StepUndisturbed DEF RecentInv
<1>3. HistoryInit => Recent!Init
  BY NothingListed DEF HistoryInit, Recent!Init
<1>4. RecentInv /\ [HistoryNext]_historyVars => [Recent!Next]_Listed
  <2> SUFFICES ASSUME RecentInv, [HistoryNext]_historyVars
               PROVE  Recent!Next \/ Listed' = Listed
    OBVIOUS
  <2>1. CASE Listed' = <<>>
    BY <2>1 DEF Recent!Next, Recent!Forget, Listed
  <2>2. ASSUME NEW s \in Ssid, Listed' = MovedToFront(Listed, s) PROVE Recent!Use(s)
    BY <2>2 DEF Recent!Use, Recent!Place, MovedToFront, Place, Listed
  <2>3. (\E s \in Ssid : Recent!Use(s)) => Recent!Next
    BY DEF Recent!Next
  <2> QED
    BY <2>1, <2>2, <2>3, StepListed
<1> QED
  BY <1>1, <1>2, <1>3, <1>4, PTL DEF HistorySpec, ImplementsRecent, Recent!Spec, Listed

=============================================================================
