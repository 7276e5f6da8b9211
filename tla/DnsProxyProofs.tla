--------------------------- MODULE DnsProxyProofs ---------------------------
(***************************************************************************)
(* Proofs about DnsProxy, for every number of queries, every capacity of   *)
(* sockets and cache, and every combination of faults.  The theorems about *)
(* the cache are taken over from DnsCacheProofs: the proxy task is shown   *)
(* to make its calls in the order that module assumes.                     *)
(***************************************************************************)
EXTENDS DnsProxy, TLAPS

CP == INSTANCE DnsCacheProofs WITH Resp <- Key, pending <- Pending

-----------------------------------------------------------------------------
\* What DnsCacheProofs says, in terms of the instance of DnsProxy.

(* The proxy's constants are such that the cache's theorems apply.          *)
LEMMA CacheAssumptionHolds == CP!CacheAssumption
  BY ProxyAssumption DEF CP!CacheAssumption

(* The two instances of the cache have the same search and the same steps.  *)
LEMMA SameVictim == Cache!Victim = CP!Victim
<1>1. Cache!Start = CP!Start /\ \A s, i : Cache!Turn(s, i) = CP!Turn(s, i)
  BY DEF Cache!Start, CP!Start, Cache!Turn, CP!Turn
<1>2. Cache!Search = CP!Search
  BY <1>1 DEF Cache!Search, CP!Search
<1> QED
  BY <1>2 DEF Cache!Victim, CP!Victim

LEMMA SameNext == [Cache!Next]_(Cache!vars) <=> [CP!Next]_(CP!vars)
  BY SameVictim DEF Cache!vars, CP!vars, Cache!Slots, CP!Slots, Cache!Matches, CP!Matches,
         Cache!FirstMatch, CP!FirstMatch, Cache!Expired, CP!Expired,
         Cache!FindsHit, CP!FindsHit, Cache!FindsExpired, CP!FindsExpired,
         Cache!FindsNone, CP!FindsNone, Cache!Filled, CP!Filled, Cache!Write, CP!Write, Cache!Empty, CP!Empty,
         Cache!LookupHit, CP!LookupHit, Cache!LookupExpired, CP!LookupExpired,
         Cache!LookupAbsent, CP!LookupAbsent, Cache!Store, CP!Store,
         Cache!Abandon, CP!Abandon, Cache!CacheInit, CP!CacheInit,
         Cache!Tick, CP!Tick, Cache!Next, CP!Next

(* And the same invariant.                                                  *)
LEMMA SameInv == Cache!CacheInv <=> CP!CacheInv
  BY DEF Cache!Slots, CP!Slots, Cache!Entry, CP!Entry, Cache!TypeOK, CP!TypeOK,
         Cache!Matches, CP!Matches, Cache!UniqueKeys, CP!UniqueKeys,
         Cache!PendingIsAbsent, CP!PendingIsAbsent,
         Cache!ValidIsFilled, CP!ValidIsFilled, Cache!CacheInv, CP!CacheInv

(* The cache's invariant holds of an empty cache.                           *)
LEMMA InitCache == Cache!Init => Cache!CacheInv
<1>1. Cache!Init => CP!Init
  BY DEF Cache!Init, CP!Init, Cache!Slots, CP!Slots
<1> QED
  BY <1>1, SameInv, CP!InitCacheInv, CacheAssumptionHolds DEF CP!InitCacheInv

(* And every step of the cache preserves it.                                *)
LEMMA StepCache == Cache!CacheInv /\ [Cache!Next]_(Cache!vars) => Cache!CacheInv'
<1>1. CP!CacheInv /\ [CP!Next]_(CP!vars) => CP!CacheInv'
  BY CP!StepCacheInv, CacheAssumptionHolds DEF CP!StepCacheInv
<1>2. Cache!CacheInv' <=> CP!CacheInv'
  BY SameInv, PTL
<1> QED
  BY <1>1, <1>2, SameInv, SameNext

-----------------------------------------------------------------------------
\* The task makes the calls in the order the cache relies on.

(* A step that leaves the cache alone, and neither takes up nor puts down a *)
(* question that missed, is no step of the cache.                           *)
LEMMA CacheStutters ==
  ASSUME UNCHANGED cacheVars, Pending' = Pending
  PROVE  [Cache!Next]_(Cache!vars)
  BY DEF cacheVars, Cache!vars

(* Nor is one that does not move the task.                                  *)
LEMMA PendingStays ==
  ASSUME TypeOK, ProxyInv,
         UNCHANGED <<pc, cur>>,
         Len(sent') >= Len(sent),
         \A i \in 1 .. Len(sent) : sent'[i] = sent[i]
  PROVE  Pending' = Pending
<1>1. Serving => sent'[cur] = sent[cur]
  BY DEF TypeOK, ProxyInv
<1>2. CASE Serving
  <2>1. sent'[cur'] = sent[cur] /\ pc' = pc
    BY <1>1, <1>2
  <2>2. Parsed(cur)' <=> Parsed(cur)
    BY <2>1 DEF Parsed
  <2> QED BY <2>1, <2>2 DEF Pending
<1>3. CASE ~Serving
  <2>1. pc' = pc /\ pc \notin {"forward", "await"}
    BY <1>3 DEF Serving
  <2> QED BY <2>1 DEF Pending
<1> QED BY <1>2, <1>3

(* What the task asks about is a question.                                  *)
LEMMA CurrentKey ==
  ASSUME ProxyInv, Serving
  PROVE  cur \in 1 .. Len(sent) /\ sent[cur] \in Message /\ sent[cur].key \in Key
<1>1. cur \in 1 .. Len(sent) /\ sent \in Seq(Message)
  BY DEF ProxyInv, TypeOK
<1>2. sent[cur] \in Message
  BY <1>1
<1> QED
  BY <1>1, <1>2 DEF Message

(* Every step of the proxy is one call of the cache, a tick of its clock,   *)
(* or nothing to it.                                                        *)
LEMMA StepIsCacheStep == ProxyInv /\ [Next]_vars => [Cache!Next]_(Cache!vars)
<1> SUFFICES ASSUME ProxyInv, [Next]_vars PROVE [Cache!Next]_(Cache!vars)
  OBVIOUS
<1> USE ProxyAssumption
<1>0. TypeOK
  BY DEF ProxyInv
<1>1. ASSUME UNCHANGED <<cacheVars, pc, cur, sent>> PROVE [Cache!Next]_(Cache!vars)
  BY <1>0, <1>1, PendingStays, CacheStutters DEF TypeOK
<1>2. ASSUME UNCHANGED cacheVars, Pending = NoKey, Pending' = NoKey
      PROVE  [Cache!Next]_(Cache!vars)
  BY <1>2, CacheStutters
<1>3. CASE Start
  <2>1. CASE pc = "none"
    BY <2>1, <1>2, <1>3 DEF Start, Pending, cacheVars
  <2>2. CASE pc # "none"
    BY <2>2, <1>1, <1>3 DEF Start, cacheVars, clientVars
  <2> QED BY <2>1, <2>2
<1>4. CASE StopProxy \/ SetUpstream \/ ClearUpstream
  BY <1>1, <1>4 DEF StopProxy, SetUpstream, ClearUpstream, cacheVars, clientVars
<1>5. ASSUME NEW enable \in BOOLEAN, SetCaptiveMode(enable)
      PROVE  [Cache!Next]_(Cache!vars)
  BY <1>1, <1>5 DEF SetCaptiveMode, cacheVars, clientVars
<1>6. ASSUME NEW k \in Key, NEW t \in TxId, ClientSends(k, t)
      PROVE  [Cache!Next]_(Cache!vars)
  <2>1. /\ Len(sent') >= Len(sent)
        /\ \A i \in 1 .. Len(sent) : sent'[i] = sent[i]
    BY <1>0, <1>6 DEF ClientSends, TypeOK
  <2>2. UNCHANGED <<cacheVars, pc, cur>>
    BY <1>6 DEF ClientSends, taskVars
  <2> QED BY <1>0, <2>1, <2>2, PendingStays, CacheStutters
<1>7. ASSUME NEW i \in asked, UpstreamAnswers(i) \/ DatagramLost(i)
      PROVE  [Cache!Next]_(Cache!vars)
  BY <1>1, <1>7 DEF UpstreamAnswers, DatagramLost, cacheVars, clientVars, taskVars
<1>8. CASE SetupOk \/ SetupFails
  <2>1. Pending = NoKey /\ Pending' = NoKey
    BY <1>8 DEF SetupOk, SetupFails, At, Goto, Done, Pending
  <2>2. Cache!CacheInit
    BY <1>8, <2>1 DEF SetupOk, SetupFails, Cache!CacheInit
  <2> QED BY <2>2 DEF Cache!Next
<1>9. CASE Receive
  BY <1>2, <1>9 DEF Receive, At, Pending, cacheVars
<1>10. CASE AnswerCaptive \/ Continue \/ ReceiveTimeout
  BY <1>2, <1>10 DEF AnswerCaptive, Continue, ReceiveTimeout, At, Goto, Pending, cacheVars
<1>11. CASE AnswerFromCache
  <2>1. Pending = NoKey /\ Pending' = NoKey
    BY <1>11 DEF AnswerFromCache, At, Goto, Pending
  <2>2. sent[cur].key \in Key
    BY <1>11, CurrentKey DEF AnswerFromCache, At, Serving
  <2>3. Cache!LookupHit(sent[cur].key)
    BY <1>11, <2>1 DEF AnswerFromCache, Cache!LookupHit
  <2> QED BY <2>2, <2>3 DEF Cache!Next
<1>12. CASE CacheMiss
  <2>1. UNCHANGED <<cur, sent>> /\ pc = "query" /\ pc' = "forward" /\ Parsed(cur)
    BY <1>12 DEF CacheMiss, At, Goto, clientVars
  <2>2. Pending = NoKey /\ Pending' = sent[cur].key
    BY <2>1 DEF Pending, Parsed
  <2>3. sent[cur].key \in Key
    BY <2>1, CurrentKey DEF Serving
  <2>4. Cache!LookupExpired(sent[cur].key) \/ Cache!LookupAbsent(sent[cur].key)
    BY <1>12, <2>2 DEF CacheMiss, Cache!LookupExpired, Cache!LookupAbsent
  <2> QED BY <2>3, <2>4 DEF Cache!Next
<1>13. CASE PassUnparsed
  <2>1. Pending = NoKey /\ Pending' = NoKey
    BY <1>13 DEF PassUnparsed, At, Goto, Pending, Parsed, clientVars
  <2> QED BY <1>2, <1>13, <2>1 DEF PassUnparsed, cacheVars
<1>14. CASE Forward
  <2>1. Pending' = Pending
    BY <1>14 DEF Forward, At, Goto, Pending, Parsed, clientVars
  <2> QED BY <1>14, <2>1, CacheStutters DEF Forward, cacheVars
<1>15. CASE GiveUp
  <2>1. UNCHANGED <<slot, now, served>> /\ Pending' = NoKey
    BY <1>15 DEF GiveUp, Goto, Pending, cacheVars
  <2>2. CASE Pending = NoKey
    BY <2>1, <2>2, <1>2 DEF cacheVars
  <2>3. CASE Pending # NoKey
    BY <2>1, <2>3 DEF Cache!Abandon, Cache!Next
  <2> QED BY <2>2, <2>3
<1>16. CASE TakeResponse
  <2>1. pc = "await" /\ pc' = "top" /\ upBox # <<>>
    BY <1>16 DEF TakeResponse, At, Goto
  <2>2. Pending' = NoKey
    BY <2>1 DEF Pending
  <2>3. CASE Parsed(cur)
    <3>1. Pending = sent[cur].key /\ Pending # NoKey
      BY <2>1, <2>3, CurrentKey DEF Pending, Serving
    <3>2. Head(upBox).key \in Key
      <4>1. upBox \in Seq(Message)
        BY <1>0 DEF TypeOK
      <4>2. Head(upBox) \in Message
        BY <2>1, <4>1
      <4> QED BY <4>2 DEF Message
    <3>3. Cache!Store(Head(upBox).key)
      BY <1>16, <2>2, <2>3, <3>1 DEF TakeResponse, Cache!Store
    <3> QED BY <3>2, <3>3 DEF Cache!Next
  <2>4. CASE ~Parsed(cur)
    BY <1>2, <1>16, <2>2, <2>4 DEF TakeResponse, Pending, cacheVars
  <2> QED BY <2>3, <2>4
<1>17. CASE Exit
  <2>1. Pending = NoKey /\ Pending' = NoKey
    BY <1>17 DEF Exit, At, Done, Pending
  <2> QED BY <1>2, <1>17, <2>1 DEF Exit
<1>18. CASE Tick
  <2>1. Pending' = Pending
    BY <1>18 DEF Tick, taskVars, clientVars, Pending, Parsed
  <2> QED BY <1>18, <2>1 DEF Tick, Cache!Tick, Cache!Next
<1>19. CASE UNCHANGED vars
  BY <1>1, <1>19 DEF vars, cacheVars
<1> QED
  BY <1>3, <1>4, <1>5, <1>6, <1>7, <1>8, <1>9, <1>10, <1>11, <1>12, <1>13,
     <1>14, <1>15, <1>16, <1>17, <1>18, <1>19 DEF Next, Task

-----------------------------------------------------------------------------
\* One reply to each query.

(* Initially nothing was asked, and the cache is empty.                     *)
LEMMA InitProxyInv == Init => ProxyInv /\ Cache!CacheInv
<1> SUFFICES ASSUME Init PROVE ProxyInv /\ Cache!CacheInv
  OBVIOUS
<1>1. ProxyInv
  <2>1. /\ sent = <<>> /\ got = <<>> /\ listen = <<>> /\ upBox = <<>>
        /\ asked = {} /\ dropped = {} /\ pc = "none" /\ cur = 0
        /\ running \in BOOLEAN
        /\ captive \in BOOLEAN /\ hasUpstream \in BOOLEAN
    BY ProxyAssumption DEF Init
  <2>2. TypeOK
    BY <2>1, ProxyAssumption DEF TypeOK
  <2>3. ~Serving /\ DOMAIN got = {} /\ DOMAIN listen = {}
    BY <2>1 DEF Serving
  <2> QED BY <2>2, <2>3 DEF ProxyInv, OneReplyEach
<1>2. Cache!CacheInv
  BY InitCache DEF Init
<1> QED BY <1>1, <1>2

(* Taking the first of the waiting queries leaves the others in order.      *)
LEMMA TakeFirst ==
  ASSUME ProxyInv, listen # <<>>
  PROVE  /\ Head(listen) \in 1 .. Len(sent)
         /\ got[Head(listen)] = <<>>
         /\ Tail(listen) \in Seq(1 .. Len(sent))
         /\ Len(Tail(listen)) <= Box
         /\ \A i \in DOMAIN Tail(listen) :
               got[Tail(listen)[i]] = <<>> /\ Head(listen) < Tail(listen)[i]
         /\ \A i, j \in DOMAIN Tail(listen) :
               i < j => Tail(listen)[i] < Tail(listen)[j]
<1>1. listen \in Seq(1 .. Len(sent)) /\ Len(listen) <= Box
  BY DEF ProxyInv, TypeOK
<1>2. Len(Tail(listen)) = Len(listen) - 1
  BY <1>1
<1>3. \A i \in 1 .. Len(listen) - 1 : Tail(listen)[i] = listen[i + 1]
  BY <1>1
<1>4. Head(listen) = listen[1] /\ 1 \in DOMAIN listen
  BY <1>1
<1>5. DOMAIN Tail(listen) = 1 .. Len(listen) - 1 /\ DOMAIN listen = 1 .. Len(listen)
  BY <1>1, <1>2
<1>6. \A i \in DOMAIN Tail(listen) : i + 1 \in DOMAIN listen /\ 1 < i + 1
  BY <1>1, <1>5
<1>7. \A i \in DOMAIN listen : got[listen[i]] = <<>>
  BY DEF ProxyInv
<1>8. \A i, j \in DOMAIN listen : i < j => listen[i] < listen[j]
  BY DEF ProxyInv
<1>9. \A i, j \in DOMAIN Tail(listen) : i < j => i + 1 < j + 1
  BY <1>5
<1>10. Tail(listen) \in Seq(1 .. Len(sent)) /\ Len(Tail(listen)) <= Box
  BY <1>1, <1>2, ProxyAssumption
<1> QED
  BY <1>3, <1>4, <1>5, <1>6, <1>7, <1>8, <1>9, <1>10, <1>1

(* A reply to the query being served, which had none, is its only one, and  *)
(* concerns none of those that wait.                                        *)
LEMMA AnswerCurrent ==
  ASSUME ProxyInv, Serving, NEW m \in Reply, SendTo(cur, m),
         UNCHANGED listen
  PROVE  /\ got' \in Seq(Seq(Reply)) /\ Len(got') = Len(sent')
         /\ \A i \in DOMAIN got' : Len(got'[i]) <= 1
         /\ \A i \in DOMAIN listen' : got'[listen'[i]] = <<>>
<1>1. /\ got \in Seq(Seq(Reply)) /\ Len(got) = Len(sent)
      /\ listen \in Seq(1 .. Len(sent)) /\ sent \in Seq(Message)
  BY DEF ProxyInv, TypeOK
<1>2. cur \in 1 .. Len(sent) /\ got[cur] = <<>>
  BY CurrentKey DEF ProxyInv
<1>3. got' = [got EXCEPT ![cur] = Append(got[cur], m)] /\ sent' = sent
  BY DEF SendTo
<1>4. Append(got[cur], m) = <<m>> /\ <<m>> \in Seq(Reply)
  BY <1>2
<1>5. got' = [got EXCEPT ![cur] = <<m>>]
  BY <1>3, <1>4
<1>6. got' \in Seq(Seq(Reply)) /\ Len(got') = Len(sent')
  BY <1>1, <1>2, <1>3, <1>4, <1>5
<1>7. \A i \in DOMAIN got' : i # cur => got'[i] = got[i] /\ i \in DOMAIN got
  BY <1>1, <1>5
<1>8. got'[cur] = <<m>> /\ Len(<<m>>) = 1
  BY <1>1, <1>2, <1>5
<1>9. ASSUME NEW i \in DOMAIN got' PROVE Len(got'[i]) <= 1
  <2>1. CASE i = cur
    BY <1>8, <2>1
  <2>2. CASE i # cur
    BY <1>7, <2>2 DEF ProxyInv, OneReplyEach
  <2> QED BY <2>1, <2>2
<1>10. ASSUME NEW i \in DOMAIN listen PROVE got'[listen[i]] = <<>>
  <2>1. listen[i] \in 1 .. Len(sent) /\ got[listen[i]] = <<>>
    <3>1. listen[i] \in 1 .. Len(sent)
      BY <1>1
    <3> QED BY <3>1 DEF ProxyInv
  <2>2. cur < listen[i]
    BY DEF ProxyInv
  <2>3. listen[i] # cur
    BY <1>2, <2>1, <2>2
  <2> QED BY <1>1, <1>5, <2>1, <2>3
<1> QED BY <1>6, <1>9, <1>10

(* The types once and for all: a step that leaves the queries alone.        *)
LEMMA KeepsQueries ==
  ASSUME ProxyInv, TypeOK',
         UNCHANGED <<listen, sent, got>>,
         Serving' => Serving /\ cur' = cur
  PROVE  ProxyInv'
  BY DEF ProxyInv, OneReplyEach

(* A client's query joins the queue behind the others, or is lost.          *)
LEMMA SendKeeps ==
  ASSUME ProxyInv, NEW k \in Key, NEW t \in TxId, ClientSends(k, t)
  PROVE  ProxyInv'
<1> DEFINE m == [key |-> k, txid |-> t]
           n == Len(sent) + 1
<1>1. /\ got \in Seq(Seq(Reply)) /\ Len(got) = Len(sent)
      /\ listen \in Seq(1 .. Len(sent)) /\ sent \in Seq(Message)
      /\ Len(listen) <= Box
  BY DEF ProxyInv, TypeOK
<1>2. /\ sent' = Append(sent, m) /\ got' = Append(got, <<>>) /\ Len(sent) < MaxQueries
      /\ listen' = IF Len(listen) < Box THEN Append(listen, n) ELSE listen
      /\ UNCHANGED <<pc, running, captive, hasUpstream, cur, asked, upBox, dropped>>
  BY DEF ClientSends, taskVars
<1> m \in Message
  BY DEF Message
<1> HIDE DEF m
<1>3. /\ sent' \in Seq(Message) /\ Len(sent') = n
      /\ got' \in Seq(Seq(Reply)) /\ Len(got') = n
      /\ \A i \in 1 .. Len(sent) : got'[i] = got[i]
      /\ got'[n] = <<>>
  BY <1>1, <1>2
<1>4. listen' \in Seq(1 .. n) /\ Len(listen') <= Box
  <2>1. listen \in Seq(1 .. n)
    BY <1>1
  <2>2. n \in 1 .. n /\ Box \in Nat
    BY <1>1, ProxyAssumption
  <2>3. CASE Len(listen) < Box
    <3>1. listen' = Append(listen, n)
      BY <1>2, <2>3
    <3>2. Append(listen, n) \in Seq(1 .. n) /\ Len(Append(listen, n)) = Len(listen) + 1
      BY <2>1, <2>2
    <3> HIDE DEF n
    <3> QED BY <1>1, <2>2, <2>3, <3>1, <3>2
  <2>4. CASE ~(Len(listen) < Box)
    BY <1>1, <1>2, <2>1, <2>4
  <2> QED BY <2>3, <2>4
<1>5. TypeOK'
  <2>1. cur \in Nat /\ cur <= n /\ asked \subseteq 1 .. n /\ dropped \subseteq 1 .. n
    BY <1>1 DEF ProxyInv, TypeOK
  <2>2. n <= MaxQueries
    BY <1>1, <1>2, ProxyAssumption
  <2> QED BY <1>2, <1>3, <1>4, <2>1, <2>2 DEF ProxyInv, TypeOK
<1>6. \A i \in 1 .. Len(listen) :
         /\ listen[i] \in 1 .. Len(sent) /\ got[listen[i]] = <<>>
         /\ Serving => cur < listen[i]
  BY <1>1 DEF ProxyInv
<1>7. ASSUME NEW i \in DOMAIN listen'
      PROVE  \/ i \in 1 .. Len(listen) /\ listen'[i] = listen[i]
             \/ i = Len(listen) + 1 /\ listen'[i] = n
  BY <1>1, <1>2
<1>8. \A i \in DOMAIN listen' : got'[listen'[i]] = <<>>
  BY <1>3, <1>6, <1>7
<1>9. ASSUME NEW i \in DOMAIN listen', NEW j \in DOMAIN listen', i < j
      PROVE  listen'[i] < listen'[j]
  <2>1. i \in 1 .. Len(listen) /\ listen'[i] = listen[i]
    BY <1>1, <1>7, <1>9, <1>4
  <2>2. CASE j \in 1 .. Len(listen) /\ listen'[j] = listen[j]
    <3>1. i \in DOMAIN listen /\ j \in DOMAIN listen /\ i < j
      BY <1>1, <1>9, <2>1, <2>2
    <3>2. listen[i] < listen[j]
      BY <3>1 DEF ProxyInv
    <3> QED BY <2>1, <2>2, <3>2
  <2>3. CASE listen'[j] = n
    BY <1>1, <1>6, <2>1, <2>3
  <2> QED BY <1>7, <2>2, <2>3
<1>10. ASSUME NEW i \in DOMAIN got' PROVE Len(got'[i]) <= 1
  <2>1. CASE i = n
    BY <1>3, <2>1
  <2>2. CASE i # n
    <3>1. i \in 1 .. Len(sent) /\ i \in DOMAIN got
      BY <1>1, <1>3, <2>2
    <3>2. Len(got[i]) <= 1
      BY <3>1 DEF ProxyInv, OneReplyEach
    <3> QED BY <1>3, <3>1, <3>2
  <2> QED BY <2>1, <2>2
<1>11. ASSUME Serving'
       PROVE  cur' # 0 /\ got'[cur'] = <<>> /\ \A i \in DOMAIN listen' : cur' < listen'[i]
  <2>1. Serving /\ cur' = cur
    BY <1>2, <1>11 DEF Serving
  <2>2. cur \in 1 .. Len(sent) /\ got[cur] = <<>>
    BY <2>1, CurrentKey DEF ProxyInv
  <2>3. ASSUME NEW i \in DOMAIN listen' PROVE cur < listen'[i]
    <3>1. CASE i \in 1 .. Len(listen) /\ listen'[i] = listen[i]
      BY <1>6, <2>1, <3>1
    <3>2. CASE listen'[i] = n
      BY <1>1, <2>2, <3>2
    <3> QED BY <1>7, <3>1, <3>2
  <2> QED BY <1>3, <2>1, <2>2, <2>3
<1> QED
  BY <1>5, <1>8, <1>9, <1>10, <1>11 DEF ProxyInv, OneReplyEach

(* A reply to the query in hand ends its service.                           *)
LEMMA ReplyKeeps ==
  ASSUME ProxyInv, Serving, NEW m \in Reply, SendTo(cur, m), Goto("top"),
         UNCHANGED <<listen, asked>>,
         upBox' \in Seq(Message), Len(upBox') <= Box
  PROVE  ProxyInv'
<1>1. /\ got' \in Seq(Seq(Reply)) /\ Len(got') = Len(sent')
      /\ \A i \in DOMAIN got' : Len(got'[i]) <= 1
      /\ \A i \in DOMAIN listen' : got'[listen'[i]] = <<>>
  BY AnswerCurrent
<1>2. UNCHANGED <<sent, dropped, listen, asked, running, captive, hasUpstream, cur>>
      /\ pc' = "top"
  BY DEF SendTo, Goto
<1>3. TypeOK'
  BY <1>1, <1>2 DEF ProxyInv, TypeOK
<1>4. \A i, j \in DOMAIN listen' : i < j => listen'[i] < listen'[j]
  BY <1>2 DEF ProxyInv
<1>5. ~Serving'
  BY <1>2 DEF Serving
<1> QED BY <1>1, <1>3, <1>4, <1>5 DEF ProxyInv, OneReplyEach

(* The task ends: the sockets are closed and nobody waits any more.         *)
LEMMA DoneKeeps ==
  ASSUME ProxyInv, Done
  PROVE  ProxyInv'
<1>1. TypeOK'
  <2>1. /\ pc' = "none" /\ running' = FALSE
        /\ listen' = <<>> /\ upBox' = <<>> /\ asked' = {}
        /\ UNCHANGED <<captive, hasUpstream, cur, sent, got, dropped>>
    BY DEF Done, clientVars
  <2>2. <<>> \in Seq(Message) /\ Len(<<>>) <= Box /\ <<>> \in Seq(1 .. Len(sent))
    BY ProxyAssumption
  <2> QED BY <2>1, <2>2 DEF ProxyInv, TypeOK
<1>2. ~Serving' /\ DOMAIN listen' = {} /\ UNCHANGED got
  BY DEF Done, Serving, clientVars
<1> QED BY <1>1, <1>2 DEF ProxyInv, OneReplyEach

(* No step makes the proxy answer twice.                                    *)
LEMMA StepProxyInv ==
  ASSUME ProxyInv, Cache!CacheInv, [Next]_vars
  PROVE  ProxyInv'
<1>0. TypeOK
  BY DEF ProxyInv
<1>1. CASE Start
  <2>1. TypeOK'
    BY <1>0, <1>1 DEF Start, TypeOK, netVars, clientVars
  <2>2. Serving' => Serving
    BY <1>1 DEF Start, Serving
  <2> QED BY <1>1, <2>1, <2>2, KeepsQueries DEF Start, netVars, clientVars
<1>2. CASE StopProxy \/ SetUpstream \/ ClearUpstream
  <2>1. TypeOK'
    BY <1>0, <1>2 DEF StopProxy, SetUpstream, ClearUpstream, TypeOK, netVars, clientVars
  <2>2. UNCHANGED <<pc, cur, listen, sent, got>>
    BY <1>2 DEF StopProxy, SetUpstream, ClearUpstream, netVars, clientVars
  <2> QED BY <2>1, <2>2, KeepsQueries DEF Serving
<1>3. ASSUME NEW enable \in BOOLEAN, SetCaptiveMode(enable) PROVE ProxyInv'
  <2>1. TypeOK'
    BY <1>0, <1>3 DEF SetCaptiveMode, TypeOK, netVars, clientVars
  <2>2. UNCHANGED <<pc, cur, listen, sent, got>>
    BY <1>3 DEF SetCaptiveMode, netVars, clientVars
  <2> QED BY <2>1, <2>2, KeepsQueries DEF Serving
<1>4. ASSUME NEW k \in Key, NEW t \in TxId, ClientSends(k, t) PROVE ProxyInv'
  BY <1>4, SendKeeps
<1>5. ASSUME NEW i \in asked, UpstreamAnswers(i) \/ DatagramLost(i) PROVE ProxyInv'
  <2>1. UNCHANGED <<pc, running, captive, hasUpstream, cur, listen, sent, got, dropped>>
    BY <1>5 DEF UpstreamAnswers, DatagramLost, taskVars, clientVars
  <2>2. upBox' \in Seq(Message) /\ Len(upBox') <= Box
    <3>1. i \in 1 .. Len(sent) /\ sent \in Seq(Message) /\ upBox \in Seq(Message)
          /\ Len(upBox) <= Box /\ Box \in Nat
      BY <1>0, ProxyAssumption DEF TypeOK
    <3>2. sent[i] \in Message
      BY <3>1
    <3>3. upBox' = upBox \/ (Len(upBox) < Box /\ upBox' = Append(upBox, sent[i]))
      BY <1>5 DEF UpstreamAnswers, DatagramLost
    <3>4. Append(upBox, sent[i]) \in Seq(Message) /\ Len(Append(upBox, sent[i])) = Len(upBox) + 1
      BY <3>1, <3>2
    <3> QED BY <3>1, <3>3, <3>4
  <2>3. asked' \subseteq asked
    BY <1>5 DEF UpstreamAnswers, DatagramLost
  <2>4. TypeOK'
    BY <1>0, <2>1, <2>2, <2>3 DEF TypeOK
  <2> QED BY <2>1, <2>4, KeepsQueries DEF Serving
<1>6. CASE SetupOk
  <2>1. TypeOK'
    BY <1>0, <1>6 DEF SetupOk, Goto, TypeOK, netVars, clientVars
  <2>2. ~Serving'
    BY <1>6 DEF SetupOk, Goto, Serving
  <2> QED BY <1>6, <2>1, <2>2, KeepsQueries DEF SetupOk, netVars, clientVars
<1>7. CASE SetupFails \/ Exit
  BY <1>7, DoneKeeps DEF SetupFails, Exit
<1>8. CASE Receive
  <2>1. listen # <<>> /\ listen' = Tail(listen) /\ UNCHANGED <<sent, got, asked, upBox>>
        /\ UNCHANGED <<running, captive, hasUpstream>>
    BY <1>8 DEF Receive
  <2>2. \/ pc' = "query" /\ cur' = Head(listen) /\ dropped' = dropped
        \/ pc' = "top" /\ cur' = cur /\ dropped' = dropped \union {Head(listen)}
    BY <1>8 DEF Receive, At
  <2>3. TypeOK'
    <3>1. Head(listen) \in 1 .. Len(sent) /\ Len(sent) \in Nat
      BY <1>0, <2>1, TakeFirst DEF TypeOK
    <3>2. listen' \in Seq(1 .. Len(sent')) /\ Len(listen') <= Box
      BY <2>1, TakeFirst
    <3>3. cur' \in Nat /\ cur' <= Len(sent)
      BY <1>0, <2>2, <3>1 DEF TypeOK
    <3>4. dropped' \subseteq 1 .. Len(sent)
      BY <1>0, <2>2, <3>1 DEF TypeOK
    <3>5. pc' \in {"top", "query"}
      BY <2>2
    <3> QED BY <1>0, <2>1, <3>2, <3>3, <3>4, <3>5 DEF TypeOK
  <2>4. Serving' => cur' = Head(listen)
    BY <2>2 DEF Serving
  <2>5. Head(listen) # 0
    BY <2>1, TakeFirst
  <2> QED BY <2>1, <2>3, <2>4, <2>5, TakeFirst DEF ProxyInv, OneReplyEach
<1>9. CASE AnswerCaptive
  <2>1. /\ Serving /\ Goto("top") /\ UNCHANGED <<listen, asked, upBox>>
        /\ \/ SendTo(cur, [txid |-> sent[cur].txid, key |-> Portal])
           \/ UNCHANGED clientVars
    BY <1>9 DEF AnswerCaptive, Serving, At, netVars
  <2>2. [txid |-> sent[cur].txid, key |-> Portal] \in Reply
    BY <2>1, CurrentKey DEF Reply, Message
  <2>3. upBox' \in Seq(Message) /\ Len(upBox') <= Box
    BY <1>0, <2>1 DEF TypeOK
  <2>4. CASE UNCHANGED clientVars
    <3>1. TypeOK' /\ ~Serving'
      BY <1>0, <2>1, <2>4 DEF TypeOK, Goto, Serving, clientVars
    <3> QED BY <2>1, <2>4, <3>1, KeepsQueries DEF clientVars
  <2> QED BY <2>1, <2>2, <2>3, <2>4, ReplyKeeps
<1>10. CASE AnswerFromCache
  <2>1. /\ Serving /\ Goto("top") /\ Cache!FindsHit(sent[cur].key)
        /\ SendTo(cur, [txid |-> sent[cur].txid, key |-> served'.resp])
        /\ UNCHANGED <<listen, asked, upBox>>
    BY <1>10 DEF AnswerFromCache, Serving, At, netVars
  <2>2. served'.resp \in Key
    <3>1. PICK i \in Cache!Slots : /\ Cache!FirstMatch(i, sent[cur].key)
                                  /\ served' = [key |-> sent[cur].key, resp |-> slot[i].resp]
      BY <2>1 DEF Cache!FindsHit
    <3>2. slot[i].resp \in Key
      BY <3>1 DEF Cache!FirstMatch, Cache!Matches, Cache!CacheInv, Cache!ValidIsFilled
    <3> QED BY <3>1, <3>2
  <2>3. [txid |-> sent[cur].txid, key |-> served'.resp] \in Reply
    BY <2>1, <2>2, CurrentKey DEF Reply, Message
  <2>4. upBox' \in Seq(Message) /\ Len(upBox') <= Box
    BY <1>0, <2>1 DEF TypeOK
  <2> QED BY <2>1, <2>3, <2>4, ReplyKeeps
<1>11. CASE CacheMiss \/ PassUnparsed
  <2>1. /\ Serving /\ pc' = "forward"
        /\ UNCHANGED <<running, captive, hasUpstream, cur,
                       listen, asked, upBox, sent, got, dropped>>
    BY <1>11 DEF CacheMiss, PassUnparsed, Goto, At, Serving, netVars, clientVars
  <2>2. TypeOK'
    BY <1>0, <2>1 DEF TypeOK
  <2> QED BY <2>1, <2>2, KeepsQueries
<1>12. CASE Forward
  <2>1. /\ Serving /\ pc' = "await" /\ asked' = asked \union {cur}
        /\ UNCHANGED <<running, captive, hasUpstream, cur,
                       listen, upBox, sent, got, dropped>>
    BY <1>12 DEF Forward, Goto, At, Serving, clientVars
  <2>2. TypeOK'
    BY <1>0, <2>1, CurrentKey DEF TypeOK
  <2> QED BY <2>1, <2>2, KeepsQueries
<1>13. CASE GiveUp \/ Continue \/ ReceiveTimeout
  <2>1. /\ pc' \in {"top", "recv"}
        /\ UNCHANGED <<running, captive, hasUpstream, cur,
                       listen, asked, upBox, sent, got, dropped>>
    BY <1>13 DEF GiveUp, Continue, ReceiveTimeout, Goto, netVars, clientVars
  <2>2. TypeOK' /\ ~Serving'
    BY <1>0, <2>1 DEF TypeOK, Serving
  <2> QED BY <2>1, <2>2, KeepsQueries
<1>14. CASE TakeResponse
  <2>1. /\ Serving /\ Goto("top") /\ upBox # <<>> /\ upBox' = Tail(upBox)
        /\ SendTo(cur, Head(upBox)) /\ UNCHANGED <<listen, asked>>
    BY <1>14 DEF TakeResponse, Serving, At
  <2>2. upBox \in Seq(Message) /\ Len(upBox) <= Box /\ Box \in Nat
    BY <1>0, ProxyAssumption DEF TypeOK
  <2>3. Head(upBox) \in Message
    BY <2>1, <2>2
  <2>4. Head(upBox) \in Reply
    BY <2>3 DEF Message, Reply
  <2>5. upBox' \in Seq(Message) /\ Len(upBox') <= Box
    BY <2>1, <2>2
  <2> QED BY <2>1, <2>4, <2>5, ReplyKeeps
<1>15. CASE Tick \/ UNCHANGED vars
  <2>1. UNCHANGED <<pc, running, captive, hasUpstream, cur,
                    listen, asked, upBox, sent, got, dropped>>
    BY <1>15 DEF Tick, vars, taskVars, netVars, clientVars
  <2>2. TypeOK' /\ (Serving' <=> Serving)
    BY <1>0, <2>1 DEF TypeOK, Serving
  <2> QED BY <2>1, <2>2, KeepsQueries
<1> QED
  BY <1>1, <1>2, <1>3, <1>4, <1>5, <1>6, <1>7, <1>8, <1>9, <1>10, <1>11, <1>12,
     <1>13, <1>14, <1>15 DEF Next, Task

\* What is true of the proxy and of the cache it uses.
Inv == ProxyInv /\ Cache!CacheInv

(* Both invariants hold together: the proxy's replies are well typed        *)
(* because the cache is sound, and the cache is sound because the proxy     *)
(* makes its calls in order.                                                *)
LEMMA ProxyAndCache == Spec => []Inv
<1>1. Init => Inv
  BY InitProxyInv DEF Inv
<1>2. Inv /\ [Next]_vars => Inv'
  BY StepProxyInv, StepIsCacheStep, StepCache DEF Inv
<1> QED BY <1>1, <1>2, PTL DEF Spec

(* The invariant of the proxy task, its sockets and its clients.            *)
THEOREM ProxyInvariant == Spec => []ProxyInv
  BY ProxyAndCache, PTL DEF Inv

(* No query is ever answered twice, whatever is lost, late, duplicated,     *)
(* stopped or switched while it is served.                                  *)
THEOREM RepliesOnce == Spec => []OneReplyEach
<1>1. ProxyInv => OneReplyEach
  BY DEF ProxyInv
<1> QED BY <1>1, ProxyInvariant, PTL

(* The proxy is a user of the cache that DnsCache allows for: what is       *)
(* proved there holds of the cache in the running proxy.                    *)
THEOREM ProxyUsesCacheAsAssumed == Spec => CacheUsedAsAssumed
<1>1. Init => Cache!Init
  BY DEF Init
<1>2. Inv /\ [Next]_vars => [Cache!Next]_(Cache!vars)
  BY StepIsCacheStep DEF Inv
<1> QED
  BY <1>1, <1>2, ProxyAndCache, PTL DEF Spec, CacheUsedAsAssumed, Cache!Spec

(* In the running proxy, too, no question has two valid slots.              *)
THEOREM ProxyKeepsKeysUnique == Spec => []Cache!UniqueKeys
<1>1. Inv => Cache!UniqueKeys
  BY DEF Inv, Cache!CacheInv
<1> QED BY <1>1, ProxyAndCache, PTL

-----------------------------------------------------------------------------
\* What clients are told was asked before.

\* Everything that is on its way to a client came from a query that the task
\* has taken: queries wait behind it, what the upstream server has of the
\* task's was taken before, and so was whatever a slot got its answer from.
Taken(m) == \E q \in 1 .. cur : sent[q] = m
TakenKey(k) == \E q \in 1 .. cur : sent[q].key = k

AskedInv ==
    /\ \A n \in DOMAIN listen : cur < listen[n]
    /\ asked \subseteq 1 .. cur
    /\ \A n \in DOMAIN upBox : Taken(upBox[n])
    /\ \A s \in Cache!Slots : slot[s].valid => TakenKey(slot[s].resp)
    /\ OnlyAskedAnswers


(* A reply to the query in hand that says what was asked before.            *)
LEMMA ReplyWasAsked ==
  ASSUME ProxyInv, AskedInv, Serving, NEW m \in Reply, SendTo(cur, m),
         m.key = Portal \/ TakenKey(m.key)
  PROVE  OnlyAskedAnswers'
<1>1. /\ got \in Seq(Seq(Reply)) /\ Len(got) = Len(sent)
      /\ sent \in Seq(Message) /\ sent' = sent
  BY DEF ProxyInv, TypeOK, SendTo
<1>2. cur \in 1 .. Len(sent) /\ got[cur] = <<>>
  BY CurrentKey DEF ProxyInv
<1>3. got' = [got EXCEPT ![cur] = <<m>>]
  BY <1>2 DEF SendTo
<1>4. ASSUME NEW i \in DOMAIN got', NEW k \in DOMAIN got'[i]
      PROVE  \/ got'[i][k].key = Portal
             \/ \E q \in DOMAIN sent' : q <= i /\ sent'[q].key = got'[i][k].key
  <2>1. i \in 1 .. Len(sent)
    BY <1>1, <1>3
  <2>2. CASE i = cur
    <3>1. got'[i][k] = m
      BY <1>1, <1>2, <1>3, <2>2
    <3>2. ASSUME TakenKey(m.key) PROVE \E q \in DOMAIN sent : q <= i /\ sent[q].key = m.key
      BY <1>1, <1>2, <2>2, <3>2 DEF TakenKey
    <3> QED BY <1>1, <3>1, <3>2
  <2>3. CASE i # cur
    <3>1. got'[i] = got[i] /\ i \in DOMAIN got
      BY <1>1, <1>2, <1>3, <2>1, <2>3
    <3> QED BY <1>1, <3>1 DEF AskedInv, OnlyAskedAnswers
  <2> QED BY <2>2, <2>3
<1> QED BY <1>4 DEF OnlyAskedAnswers

(* A step that leaves clients and the query in hand alone.                  *)
LEMMA AskedStays ==
  ASSUME AskedInv, UNCHANGED <<listen, sent, got, cur>>,
         asked' \subseteq 1 .. cur,
         \A n \in DOMAIN upBox' : Taken(upBox'[n]),
         \A s \in Cache!Slots : slot'[s].valid => TakenKey(slot'[s].resp)
  PROVE  AskedInv'
  BY DEF AskedInv, OnlyAskedAnswers, Taken, TakenKey, Cache!Slots

(* A step that replies, after which nothing of the sockets is new.          *)
LEMMA AskedReplies ==
  ASSUME ProxyInv, AskedInv, Serving, NEW m \in Reply, SendTo(cur, m),
         m.key = Portal \/ TakenKey(m.key),
         UNCHANGED <<listen, cur, asked>>,
         \A n \in DOMAIN upBox' : Taken(upBox'[n]),
         \A s \in Cache!Slots : slot'[s].valid => TakenKey(slot'[s].resp)
  PROVE  AskedInv'
<1>1. OnlyAskedAnswers' /\ sent' = sent
  BY ReplyWasAsked DEF SendTo
<1> QED
  BY <1>1 DEF AskedInv, Taken, TakenKey, Cache!Slots

(* The calls of the cache but for a store make no slot valid.               *)
LEMMA NoSlotFilled ==
  ASSUME Cache!CacheInv,
         \/ UNCHANGED cacheVars
         \/ Cache!Empty
         \/ \E k \in Key : Cache!FindsHit(k) \/ Cache!FindsExpired(k) \/ Cache!FindsNone(k)
         \/ Cache!Tick,
         NEW s \in Cache!Slots, slot'[s].valid
  PROVE  slot[s].valid /\ slot'[s].resp = slot[s].resp /\ slot'[s].key = slot[s].key
<1>1. slot \in [Cache!Slots -> Cache!Entry]
  BY DEF Cache!CacheInv, Cache!TypeOK
<1>2. CASE slot' = slot
  BY <1>2
<1>3. CASE Cache!Empty
  BY <1>1, <1>3 DEF Cache!Empty, Cache!Entry
<1>4. ASSUME NEW k \in Key, Cache!FindsExpired(k)
      PROVE  slot[s].valid /\ slot'[s].resp = slot[s].resp /\ slot'[s].key = slot[s].key
  <2>1. PICK i \in Cache!Slots : slot' = [slot EXCEPT ![i].valid = FALSE]
    BY <1>4 DEF Cache!FindsExpired
  <2> QED BY <1>1, <2>1 DEF Cache!Entry
<1> QED
  BY <1>2, <1>3, <1>4 DEF cacheVars, Cache!FindsHit, Cache!FindsNone, Cache!Tick

(* Writing makes one slot valid, and nothing else changes.                  *)
LEMMA OneSlotFilled ==
  ASSUME Cache!CacheInv, NEW k, NEW r, Cache!Write(k, r), NEW s \in Cache!Slots
  PROVE  slot'[s] = slot[s] \/ (slot'[s].key = k /\ slot'[s].resp = r)
<1>1. slot \in [Cache!Slots -> Cache!Entry]
  BY DEF Cache!CacheInv, Cache!TypeOK
<1>2. slot' = [slot EXCEPT ![Cache!Victim] = Cache!Filled(k, r)]
  BY DEF Cache!Write
<1> QED BY <1>1, <1>2 DEF Cache!Filled

LEMMA InitAsked == Init => AskedInv
<1> SUFFICES ASSUME Init PROVE AskedInv
  OBVIOUS
<1>1. \A s \in Cache!Slots : ~slot[s].valid
  BY DEF Init, Cache!Init
<1>2. DOMAIN listen = {} /\ DOMAIN upBox = {} /\ DOMAIN got = {} /\ asked = {}
  BY DEF Init
<1> QED
  BY <1>1, <1>2 DEF AskedInv, OnlyAskedAnswers

(* Clients only ask, and what they ask is behind all that the task took.    *)
LEMMA AskedWhenSent ==
  ASSUME ProxyInv, AskedInv, NEW k \in Key, NEW t \in TxId, ClientSends(k, t)
  PROVE  AskedInv'
<1> DEFINE m == [key |-> k, txid |-> t]
           n == Len(sent) + 1
<1>1. /\ got \in Seq(Seq(Reply)) /\ Len(got) = Len(sent) /\ cur \in Nat /\ cur <= Len(sent)
      /\ listen \in Seq(1 .. Len(sent)) /\ sent \in Seq(Message)
  BY DEF ProxyInv, TypeOK
<1>2. /\ sent' = Append(sent, m) /\ got' = Append(got, <<>>)
      /\ listen' = IF Len(listen) < Box THEN Append(listen, n) ELSE listen
      /\ UNCHANGED <<cur, slot, asked, upBox>>
  BY DEF ClientSends, taskVars, cacheVars
<1> m \in Message
  BY DEF Message
<1> HIDE DEF m
<1>3. /\ Len(sent') = n /\ DOMAIN sent' = 1 .. n
      /\ \A q \in 1 .. Len(sent) : sent'[q] = sent[q]
      /\ \A i \in DOMAIN got' : got'[i] = <<>> \/ (i \in DOMAIN got /\ got'[i] = got[i])
  BY <1>1, <1>2
<1>4. \A i \in DOMAIN listen' : (i \in DOMAIN listen /\ listen'[i] = listen[i]) \/ listen'[i] = n
  BY <1>1, <1>2
<1>5. \A i \in DOMAIN listen' : cur < listen'[i]
  <2>1. cur < n /\ \A i \in DOMAIN listen : cur < listen[i]
    BY <1>1 DEF AskedInv
  <2> HIDE DEF n
  <2> QED
    BY <1>4, <2>1
<1>6. \A x : Taken(x) => Taken(x)'
  BY <1>1, <1>2, <1>3 DEF Taken
<1>7. \A x : TakenKey(x) => TakenKey(x)'
  BY <1>1, <1>2, <1>3 DEF TakenKey
<1>8. ASSUME NEW i \in DOMAIN got', NEW a \in DOMAIN got'[i]
      PROVE  \/ got'[i][a].key = Portal
             \/ \E q \in DOMAIN sent' : q <= i /\ sent'[q].key = got'[i][a].key
  <2>1. i \in DOMAIN got /\ got'[i] = got[i]
    BY <1>3
  <2>2. \/ got[i][a].key = Portal
        \/ \E q \in DOMAIN sent : q <= i /\ sent[q].key = got[i][a].key
    BY <2>1 DEF AskedInv, OnlyAskedAnswers
  <2>3. \A q \in DOMAIN sent : q \in DOMAIN sent' /\ sent'[q] = sent[q]
    BY <1>1, <1>3
  <2> QED BY <2>1, <2>2, <2>3
<1>9. OnlyAskedAnswers'
  BY <1>8 DEF OnlyAskedAnswers
<1> QED
  BY <1>2, <1>5, <1>6, <1>7, <1>9 DEF AskedInv, Cache!Slots

(* The task goes on to a query that all those it took before precede.       *)
LEMMA AskedWhenReceived ==
  ASSUME ProxyInv, AskedInv, Receive
  PROVE  AskedInv'
<1>1. /\ cur \in Nat /\ listen # <<>> /\ listen' = Tail(listen)
      /\ cur' \in {cur, Head(listen)}
      /\ UNCHANGED <<asked, upBox, slot, sent, got>>
  BY DEF Receive, ProxyInv, TypeOK, cacheVars
<1>2. /\ Head(listen) \in 1 .. Len(sent)
      /\ Len(sent) \in Nat
      /\ \A i \in DOMAIN Tail(listen) : Head(listen) < Tail(listen)[i]
  BY <1>1, TakeFirst DEF ProxyInv, TypeOK
<1>3. cur < Head(listen)
  <2>1. listen \in Seq(1 .. Len(sent))
    BY DEF ProxyInv, TypeOK
  <2>2. Head(listen) = listen[1] /\ 1 \in DOMAIN listen
    BY <1>1, <2>1
  <2> QED BY <2>2 DEF AskedInv
<1>4. \A i \in DOMAIN Tail(listen) : Tail(listen)[i] \in 1 .. Len(sent)
  <2>1. Tail(listen) \in Seq(1 .. Len(sent))
    BY <1>1, TakeFirst
  <2> QED BY <2>1
<1>5. cur' \in Nat /\ cur <= cur'
  BY <1>1, <1>2, <1>3
<1>6. \A i \in DOMAIN listen' : cur' < listen'[i]
  BY <1>1, <1>2, <1>3, <1>4
<1>7. \A x : (Taken(x) => Taken(x)') /\ (TakenKey(x) => TakenKey(x)')
  BY <1>1, <1>5 DEF Taken, TakenKey
<1>8. asked' \subseteq 1 .. cur'
  BY <1>1, <1>5 DEF AskedInv
<1> QED
  BY <1>1, <1>6, <1>7, <1>8 DEF AskedInv, OnlyAskedAnswers, Cache!Slots

(* The upstream server answers what it was asked.                           *)
LEMMA AskedWhenAnswered ==
  ASSUME ProxyInv, AskedInv, NEW i \in asked, UpstreamAnswers(i)
  PROVE  AskedInv'
<1>1. upBox \in Seq(Message) /\ i \in 1 .. cur /\ sent \in Seq(Message) /\ i \in 1 .. Len(sent)
  BY DEF ProxyInv, TypeOK, AskedInv
<1>2. upBox' = Append(upBox, sent[i]) \/ upBox' = upBox
  BY DEF UpstreamAnswers
<1>3. \A n \in DOMAIN upBox' : (n \in DOMAIN upBox /\ upBox'[n] = upBox[n]) \/ upBox'[n] = sent[i]
  <2>1. sent[i] \in Message
    BY <1>1
  <2> QED BY <1>1, <1>2, <2>1
<1>4. \A n \in DOMAIN upBox' : Taken(upBox'[n])
  BY <1>1, <1>3 DEF AskedInv, Taken
<1>5. asked' \subseteq asked /\ UNCHANGED <<listen, sent, got, cur, slot>>
  BY DEF UpstreamAnswers, taskVars, cacheVars, clientVars
<1> QED
  BY <1>4, <1>5, AskedStays DEF AskedInv

(* What the task takes for the answer is stored and passed on.              *)
LEMMA AskedWhenTaken ==
  ASSUME ProxyInv, Cache!CacheInv, AskedInv, TakeResponse
  PROVE  AskedInv'
<1>1. /\ Serving /\ upBox # <<>> /\ upBox' = Tail(upBox) /\ upBox \in Seq(Message)
      /\ SendTo(cur, Head(upBox)) /\ UNCHANGED <<listen, cur, asked>>
  BY DEF TakeResponse, At, Goto, Serving, ProxyInv, TypeOK
<1>2. Head(upBox) \in Message /\ Head(upBox) \in Reply
  <2>1. Head(upBox) \in Message
    BY <1>1
  <2> QED BY <2>1 DEF Message, Reply
<1>3. Taken(Head(upBox)) /\ \A n \in DOMAIN upBox' : Taken(upBox'[n])
  <2>1. /\ Head(upBox) = upBox[1] /\ 1 \in DOMAIN upBox
        /\ \A n \in DOMAIN upBox' : n + 1 \in DOMAIN upBox /\ upBox'[n] = upBox[n + 1]
    BY <1>1
  <2> QED BY <2>1 DEF AskedInv
<1>4. TakenKey(Head(upBox).key)
  BY <1>3 DEF Taken, TakenKey
<1>5. ASSUME NEW s \in Cache!Slots, slot'[s].valid PROVE TakenKey(slot'[s].resp)
  <2>1. slot' = slot \/ Cache!Write(sent[cur].key, Head(upBox).key)
    BY DEF TakeResponse, cacheVars
  <2>2. slot'[s] = slot[s] \/ slot'[s].resp = Head(upBox).key
    BY <2>1, OneSlotFilled
  <2> QED BY <1>4, <1>5, <2>2 DEF AskedInv
<1> QED
  BY <1>1, <1>2, <1>3, <1>4, <1>5, AskedReplies

(* A hit was put into its slot earlier.                                     *)
LEMMA AskedWhenHit ==
  ASSUME ProxyInv, Cache!CacheInv, AskedInv, AnswerFromCache
  PROVE  AskedInv'
<1>1. /\ Serving /\ Cache!FindsHit(sent[cur].key)
      /\ SendTo(cur, [txid |-> sent[cur].txid, key |-> served'.resp])
      /\ UNCHANGED <<listen, cur, asked, upBox, slot>>
  BY DEF AnswerFromCache, At, Goto, Serving, netVars, Cache!FindsHit
<1>2. PICK i \in Cache!Slots : slot[i].valid /\ served'.resp = slot[i].resp
  BY <1>1 DEF Cache!FindsHit, Cache!FirstMatch, Cache!Matches
<1>3. TakenKey(served'.resp) /\ served'.resp \in Key
  BY <1>2 DEF AskedInv, Cache!CacheInv, Cache!ValidIsFilled
<1>4. [txid |-> sent[cur].txid, key |-> served'.resp] \in Reply
  BY <1>1, <1>3, CurrentKey DEF Reply, Message
<1> QED
  BY <1>1, <1>3, <1>4, AskedReplies DEF AskedInv

LEMMA StepAsked ==
  ASSUME ProxyInv, Cache!CacheInv, AskedInv, [Next]_vars
  PROVE  AskedInv'
<1>0. ASSUME UNCHANGED <<listen, sent, got, cur, upBox>>, asked' \subseteq 1 .. cur,
             \A s \in Cache!Slots : slot'[s].valid => slot[s].valid /\ slot'[s].resp = slot[s].resp
      PROVE  AskedInv'
  BY <1>0, AskedStays DEF AskedInv
<1>1. CASE Start \/ StopProxy \/ SetUpstream \/ ClearUpstream
           \/ (\E enable \in BOOLEAN : SetCaptiveMode(enable))
  BY <1>0, <1>1 DEF Start, StopProxy, SetUpstream, ClearUpstream, SetCaptiveMode,
     AskedInv, cacheVars, netVars, clientVars
<1>2. ASSUME NEW k \in Key, NEW t \in TxId, ClientSends(k, t) PROVE AskedInv'
  BY <1>2, AskedWhenSent
<1>3. ASSUME NEW i \in asked, UpstreamAnswers(i) PROVE AskedInv'
  BY <1>3, AskedWhenAnswered
<1>4. ASSUME NEW i \in asked, DatagramLost(i) PROVE AskedInv'
  BY <1>0, <1>4 DEF DatagramLost, AskedInv, taskVars, cacheVars, clientVars
<1>5. CASE SetupOk
  BY <1>0, <1>5, NoSlotFilled DEF SetupOk, Goto, AskedInv, netVars, clientVars
<1>6. CASE SetupFails \/ Exit
  <2>1. /\ listen' = <<>> /\ upBox' = <<>> /\ asked' = {} /\ UNCHANGED <<cur, sent, got>>
        /\ Cache!Empty \/ UNCHANGED cacheVars
    BY <1>6 DEF SetupFails, Exit, Done, clientVars
  <2>2. \A s \in Cache!Slots : slot'[s].valid => slot[s].valid /\ slot'[s].resp = slot[s].resp
    BY <2>1, NoSlotFilled
  <2>3. DOMAIN listen' = {} /\ DOMAIN upBox' = {}
    BY <2>1
  <2> QED
    BY <2>1, <2>2, <2>3 DEF AskedInv, OnlyAskedAnswers, TakenKey, Cache!Slots
<1>7. CASE Receive
  BY <1>7, AskedWhenReceived
<1>8. CASE AnswerCaptive
  <2>1. /\ Serving /\ UNCHANGED <<listen, cur, asked, upBox, slot>>
        /\ SendTo(cur, [txid |-> sent[cur].txid, key |-> Portal]) \/ UNCHANGED clientVars
    BY <1>8 DEF AnswerCaptive, Serving, At, Goto, netVars, cacheVars
  <2>2. [txid |-> sent[cur].txid, key |-> Portal] \in Reply
    BY <2>1, CurrentKey DEF Reply, Message
  <2>3. CASE UNCHANGED clientVars
    BY <1>0, <2>1, <2>3 DEF AskedInv, clientVars
  <2> QED BY <2>1, <2>2, <2>3, AskedReplies DEF AskedInv
<1>9. CASE AnswerFromCache
  BY <1>9, AskedWhenHit
<1>10. CASE CacheMiss \/ PassUnparsed \/ GiveUp \/ Continue \/ ReceiveTimeout
  <2>1. /\ \/ UNCHANGED cacheVars
           \/ At("query") /\ (Cache!FindsExpired(sent[cur].key) \/ Cache!FindsNone(sent[cur].key))
        /\ UNCHANGED <<listen, sent, got, cur, upBox, asked>>
    BY <1>10 DEF CacheMiss, PassUnparsed, GiveUp, Continue, ReceiveTimeout, Goto, netVars, clientVars
  <2>2. At("query") => sent[cur].key \in Key
    BY CurrentKey DEF At, Serving
  <2>3. \A s \in Cache!Slots : slot'[s].valid => slot[s].valid /\ slot'[s].resp = slot[s].resp
    BY <2>1, <2>2, NoSlotFilled
  <2> QED BY <1>0, <2>1, <2>3 DEF AskedInv
<1>11. CASE Forward
  <2>1. asked' = asked \union {cur} /\ cur \in 1 .. cur
    BY <1>11, CurrentKey DEF Forward, At, Serving
  <2> QED BY <1>0, <1>11, <2>1 DEF Forward, Goto, AskedInv, cacheVars, clientVars
<1>12. CASE TakeResponse
  BY <1>12, AskedWhenTaken
<1>13. CASE Tick \/ UNCHANGED vars
  BY <1>0, <1>13 DEF Tick, Cache!Tick, AskedInv, vars, taskVars, netVars, clientVars
<1> QED
  BY <1>1, <1>2, <1>3, <1>4, <1>5, <1>6, <1>7, <1>8, <1>9, <1>10, <1>11, <1>12, <1>13
     DEF Next, Task

(* Whatever is late, lost, duplicated, stopped or switched, and however     *)
(* often slots are reused: a client is only told what some client had asked *)
(* by then, or the portal's address.                                        *)
THEOREM OnlyAskedIsAnswered == Spec => []OnlyAskedAnswers
<1>1. Init => AskedInv
  BY InitAsked
<1>2. Inv /\ AskedInv /\ [Next]_vars => AskedInv'
  BY StepAsked DEF Inv
<1>3. AskedInv => OnlyAskedAnswers
  BY DEF AskedInv
<1> QED
  BY <1>1, <1>2, <1>3, ProxyAndCache, PTL DEF Spec

\* The task asks for one answer at a time, and nothing but the answer to the
\* query it waits for can reach it.
OneAtATime ==
    /\ asked \subseteq IF pc = "await" THEN {cur} ELSE {}
    /\ asked # {} => upBox = <<>>
    /\ pc # "await" => upBox = <<>>
    /\ Len(upBox) <= 1
    /\ \A n \in DOMAIN upBox : upBox[n] = sent[cur]

\* With that every slot holds the answer to its own question, and each client
\* has the answer to what it asked.
OwnAnswers == \A s \in Cache!Slots : slot[s].valid => slot[s].resp = slot[s].key
Matched == \A i \in DOMAIN got : \A k \in DOMAIN got[i] : got[i][k].key \in {sent[i].key, Portal}
MatchInv == OneAtATime /\ OwnAnswers /\ Matched

LEMMA InitMatch == Init => MatchInv
<1> SUFFICES ASSUME Init PROVE MatchInv
  OBVIOUS
<1>1. \A s \in Cache!Slots : ~slot[s].valid
  BY DEF Init, Cache!Init
<1>2. upBox = <<>> /\ DOMAIN upBox = {} /\ Len(upBox) = 0 /\ DOMAIN got = {} /\ asked = {}
  BY DEF Init
<1> QED
  BY <1>1, <1>2 DEF MatchInv, OneAtATime, OwnAnswers, Matched

(* An answer that is under way is waited for, and comes once.               *)
LEMMA StepOneAtATime ==
  ASSUME ProxyInv, OneAtATime, "late" \notin Faults, "dup" \notin Faults, [Next]_vars
  PROVE  OneAtATime'
<1>0. /\ upBox \in Seq(Message) /\ sent \in Seq(Message) /\ cur \in Nat /\ cur <= Len(sent)
      /\ asked \subseteq 1 .. Len(sent) /\ Box \in Nat \ {0}
  BY ProxyAssumption DEF ProxyInv, TypeOK
<1>1. ASSUME UNCHANGED <<pc, cur, asked, upBox, sent>> PROVE OneAtATime'
  BY <1>1 DEF OneAtATime
<1>2. ASSUME upBox' = <<>>, asked' = {} PROVE OneAtATime'
  <2>1. DOMAIN upBox' = {} /\ Len(upBox') = 0
    BY <1>2
  <2> QED BY <1>2, <2>1 DEF OneAtATime
<1>3. pc # "await" => upBox = <<>> /\ asked = {}
  BY DEF OneAtATime
<1>4. CASE StopProxy \/ SetUpstream \/ ClearUpstream
           \/ (\E enable \in BOOLEAN : SetCaptiveMode(enable)) \/ Tick \/ UNCHANGED vars
  BY <1>1, <1>4 DEF StopProxy, SetUpstream, ClearUpstream, SetCaptiveMode, Tick,
     taskVars, netVars, clientVars, vars
<1>5. CASE Start
  BY <1>1, <1>2, <1>3, <1>5 DEF Start, netVars, clientVars
<1>6. ASSUME NEW k \in Key, NEW t \in TxId, ClientSends(k, t) PROVE OneAtATime'
  <2>1. /\ sent' = Append(sent, [key |-> k, txid |-> t])
        /\ UNCHANGED <<pc, cur, asked, upBox>>
    BY <1>6 DEF ClientSends, taskVars
  <2>2. CASE pc = "await"
    <3>1. cur \in 1 .. Len(sent)
      BY <2>2, CurrentKey DEF Serving
    <3>2. sent'[cur] = sent[cur]
      BY <1>0, <2>1, <3>1
    <3> QED BY <2>1, <3>2 DEF OneAtATime
  <2>3. CASE pc # "await"
    BY <1>2, <1>3, <2>1, <2>3
  <2> QED BY <2>2, <2>3
<1>7. ASSUME NEW i \in asked, UpstreamAnswers(i) PROVE OneAtATime'
  <2>1. pc = "await" /\ i = cur /\ asked = {cur} /\ upBox = <<>>
    BY <1>7 DEF OneAtATime
  <2>2. sent[cur] \in Message
    BY <2>1, CurrentKey DEF Serving
  <2>3. asked' = {} /\ UNCHANGED <<pc, cur, sent>>
    BY <1>7, <2>1 DEF UpstreamAnswers, taskVars, clientVars
  <2>4. Len(upBox) < Box => upBox' = <<sent[cur]>>
    BY <1>7, <2>1, <2>2 DEF UpstreamAnswers
  <2>5. upBox' = <<sent[cur]>>
    BY <1>0, <2>1, <2>4
  <2> QED BY <2>1, <2>3, <2>5 DEF OneAtATime
<1>8. ASSUME NEW i \in asked, DatagramLost(i) PROVE OneAtATime'
  BY <1>8 DEF DatagramLost, OneAtATime, taskVars, clientVars
<1>9. CASE SetupOk \/ Continue \/ Receive \/ ReceiveTimeout \/ AnswerCaptive
           \/ AnswerFromCache \/ CacheMiss \/ PassUnparsed
  <2>1. pc # "await" /\ UNCHANGED <<asked, upBox>>
    BY <1>9 DEF SetupOk, Continue, Receive, ReceiveTimeout, AnswerCaptive, AnswerFromCache, CacheMiss, PassUnparsed,
       At, netVars
  <2> QED BY <1>2, <1>3, <2>1
<1>10. CASE SetupFails \/ Exit
  BY <1>2, <1>10 DEF SetupFails, Exit, Done
<1>11. CASE Forward
  <2>1. pc = "forward" /\ pc' = "await" /\ asked' = asked \union {cur}
        /\ UNCHANGED <<cur, upBox, sent>>
    BY <1>11 DEF Forward, At, Goto, clientVars
  <2>2. upBox = <<>> /\ asked' = {cur} /\ DOMAIN upBox = {} /\ Len(upBox) = 0
    BY <1>3, <2>1
  <2> QED BY <2>1, <2>2 DEF OneAtATime
<1>12. CASE GiveUp
  <2>1. pc # "await" \/ (upBox = <<>> /\ cur \notin asked)
    BY <1>12 DEF GiveUp, At
  <2>2. upBox = <<>> /\ asked = {}
    BY <1>3, <2>1 DEF OneAtATime
  <2> QED BY <1>2, <1>12, <2>2 DEF GiveUp, netVars
<1>13. CASE TakeResponse
  <2>1. upBox # <<>> /\ upBox' = Tail(upBox) /\ asked' = asked
    BY <1>13 DEF TakeResponse
  <2>4. Len(upBox) # 0 /\ Len(upBox) \in Nat
    BY <1>0, <2>1
  <2>5. asked = {} /\ Len(upBox) <= 1
    BY <2>1 DEF OneAtATime
  <2>2. asked = {} /\ Len(upBox) = 1
    BY <2>4, <2>5
  <2>3. upBox' = <<>>
    BY <1>0, <2>1, <2>2
  <2> QED BY <1>2, <2>1, <2>2, <2>3
<1> QED
  BY <1>4, <1>5, <1>6, <1>7, <1>8, <1>9, <1>10, <1>11, <1>12, <1>13 DEF Next, Task

(* A reply about the question of its query, or the portal's, may be sent.   *)
LEMMA ReplyMatches ==
  ASSUME ProxyInv, Matched, Serving, NEW m \in Reply, SendTo(cur, m),
         m.key \in {sent[cur].key, Portal}
  PROVE  Matched'
<1>1. /\ got \in Seq(Seq(Reply)) /\ Len(got) = Len(sent)
      /\ sent \in Seq(Message) /\ sent' = sent
  BY DEF ProxyInv, TypeOK, SendTo
<1>2. cur \in 1 .. Len(sent) /\ got[cur] = <<>>
  BY CurrentKey DEF ProxyInv
<1>3. got' = [got EXCEPT ![cur] = <<m>>]
  BY <1>2 DEF SendTo
<1>4. ASSUME NEW i \in DOMAIN got', NEW k \in DOMAIN got'[i]
      PROVE  got'[i][k].key \in {sent'[i].key, Portal}
  <2>1. CASE i = cur
    <3>1. got'[i][k] = m
      BY <1>1, <1>2, <1>3, <2>1
    <3> QED BY <1>1, <2>1, <3>1
  <2>2. CASE i # cur
    <3>1. got'[i] = got[i] /\ i \in DOMAIN got
      BY <1>1, <1>2, <1>3, <2>2
    <3> QED BY <1>1, <3>1 DEF Matched
  <2> QED BY <2>1, <2>2
<1> QED BY <1>4 DEF Matched

LEMMA StepOwnAnswers ==
  ASSUME ProxyInv, Cache!CacheInv, OneAtATime, OwnAnswers, [Next]_vars
  PROVE  OwnAnswers'
<1>1. CASE TakeResponse /\ Parsed(cur)
  <2>1. /\ Serving /\ upBox # <<>> /\ upBox \in Seq(Message)
        /\ Cache!Write(sent[cur].key, Head(upBox).key)
    BY <1>1 DEF TakeResponse, At, Serving, ProxyInv, TypeOK
  <2>2. Head(upBox) = sent[cur]
    BY <2>1 DEF OneAtATime
  <2>3. ASSUME NEW s \in Cache!Slots, slot'[s].valid PROVE slot'[s].resp = slot'[s].key
    BY <2>1, <2>2, <2>3, OneSlotFilled DEF OwnAnswers
  <2> QED BY <2>3 DEF OwnAnswers, Cache!Slots
<1>2. CASE ~(TakeResponse /\ Parsed(cur))
  <2>1. \/ UNCHANGED cacheVars
        \/ Cache!Empty
        \/ At("query") /\ (\/ Cache!FindsHit(sent[cur].key)
                           \/ Cache!FindsExpired(sent[cur].key)
                           \/ Cache!FindsNone(sent[cur].key))
        \/ Cache!Tick
    BY <1>2 DEF Next, Task, Start, StopProxy, SetUpstream, ClearUpstream, SetCaptiveMode,
       ClientSends, UpstreamAnswers, DatagramLost, SetupOk, Continue, Receive, ReceiveTimeout, AnswerCaptive,
       AnswerFromCache, CacheMiss, PassUnparsed, Forward, GiveUp, TakeResponse, Exit,
       SetupFails, Tick, vars, cacheVars
  <2>2. At("query") => sent[cur].key \in Key
    BY CurrentKey DEF At, Serving
  <2>3. ASSUME NEW s \in Cache!Slots, slot'[s].valid PROVE slot'[s].resp = slot'[s].key
    BY <2>1, <2>2, <2>3, NoSlotFilled DEF OwnAnswers
  <2> QED BY <2>3 DEF OwnAnswers, Cache!Slots
<1> QED BY <1>1, <1>2

LEMMA StepMatched ==
  ASSUME ProxyInv, Cache!CacheInv, OneAtATime, OwnAnswers, Matched, [Next]_vars
  PROVE  Matched'
<1>1. CASE UNCHANGED <<sent, got>>
  BY <1>1 DEF Matched
<1>2. ASSUME NEW k \in Key, NEW t \in TxId, ClientSends(k, t) PROVE Matched'
  <2> DEFINE m == [key |-> k, txid |-> t]
  <2>1. /\ got \in Seq(Seq(Reply)) /\ sent \in Seq(Message) /\ Len(got) = Len(sent)
        /\ sent' = Append(sent, m) /\ got' = Append(got, <<>>) /\ m \in Message
    BY <1>2 DEF ClientSends, ProxyInv, TypeOK, Message
  <2> HIDE DEF m
  <2>2. \A i \in DOMAIN got' : got'[i] = <<>> \/ (i \in DOMAIN got /\ got'[i] = got[i])
    BY <2>1
  <2>3. \A i \in DOMAIN got : sent'[i] = sent[i]
    BY <2>1
  <2> QED BY <2>2, <2>3 DEF Matched
<1>3. CASE AnswerCaptive
  <2>1. Serving /\ (UNCHANGED clientVars \/ SendTo(cur, [txid |-> sent[cur].txid, key |-> Portal]))
    BY <1>3 DEF AnswerCaptive, Serving, At
  <2>2. [txid |-> sent[cur].txid, key |-> Portal] \in Reply
    BY <2>1, CurrentKey DEF Reply, Message
  <2> QED BY <1>1, <2>1, <2>2, ReplyMatches DEF clientVars
<1>4. CASE AnswerFromCache
  <2>1. /\ Serving /\ Cache!FindsHit(sent[cur].key)
        /\ SendTo(cur, [txid |-> sent[cur].txid, key |-> served'.resp])
    BY <1>4 DEF AnswerFromCache, At, Serving
  <2>2. PICK i \in Cache!Slots : /\ slot[i].valid /\ slot[i].key = sent[cur].key
                                /\ served'.resp = slot[i].resp
    BY <2>1 DEF Cache!FindsHit, Cache!FirstMatch, Cache!Matches
  <2>3. served'.resp = sent[cur].key /\ served'.resp \in Key
    BY <2>2 DEF OwnAnswers, Cache!CacheInv, Cache!ValidIsFilled
  <2>4. [txid |-> sent[cur].txid, key |-> served'.resp] \in Reply
    BY <2>1, <2>3, CurrentKey DEF Reply, Message
  <2> QED BY <2>1, <2>3, <2>4, ReplyMatches
<1>5. CASE TakeResponse
  <2>1. /\ Serving /\ upBox # <<>> /\ upBox \in Seq(Message)
        /\ SendTo(cur, Head(upBox))
    BY <1>5 DEF TakeResponse, At, Serving, ProxyInv, TypeOK
  <2>2. Head(upBox) = sent[cur]
    BY <2>1 DEF OneAtATime
  <2>3. sent[cur] \in Reply
    BY <2>1, CurrentKey DEF Reply, Message
  <2> QED BY <2>1, <2>2, <2>3, ReplyMatches
<1> QED
  BY <1>1, <1>2, <1>3, <1>4, <1>5
  DEF Next, Task, Start, StopProxy, SetUpstream, ClearUpstream, SetCaptiveMode,
      UpstreamAnswers, DatagramLost, SetupOk, Continue, Receive, ReceiveTimeout, CacheMiss, PassUnparsed, Forward,
      GiveUp, Exit, SetupFails, Done, Tick, vars, netVars, clientVars

(* As long as no answer is late or comes twice, no client that checks the   *)
(* transaction id is told the answer to another question, whatever is lost, *)
(* stopped or switched.  The conditions are needed: run `late_answer' shows *)
(* what happens without the first.                                          *)
THEOREM AnswersMatchInTime ==
  ASSUME "late" \notin Faults, "dup" \notin Faults
  PROVE  Spec => []AcceptedAnswersMatch
<1>1. Init => MatchInv
  BY InitMatch
<1>2. Inv /\ MatchInv /\ [Next]_vars => MatchInv'
  BY StepOneAtATime, StepOwnAnswers, StepMatched DEF Inv, MatchInv
<1>3. MatchInv => AcceptedAnswersMatch
  BY DEF MatchInv, Matched, AcceptedAnswersMatch
<1> QED
  BY <1>1, <1>2, <1>3, ProxyAndCache, PTL DEF Spec

=============================================================================
