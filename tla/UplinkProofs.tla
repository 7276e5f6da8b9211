---------------------------- MODULE UplinkProofs ----------------------------
(***************************************************************************)
(* Proofs about Uplink, for every set of networks, any number of moves of  *)
(* router and radio, and whichever calls fail.                             *)
(***************************************************************************)
EXTENDS Uplink, TLAPS

(* What Head and Tail leave of a queue: every element of the tail is the    *)
(* next one of the queue.                                                   *)
LEMMA TailOf ==
  ASSUME NEW S, NEW q \in Seq(S), q # <<>>
  PROVE  /\ Head(q) = q[1] /\ Head(q) \in S
         /\ Tail(q) \in Seq(S) /\ Len(Tail(q)) = Len(q) - 1
         /\ \A i \in DOMAIN Tail(q) : i + 1 \in DOMAIN q /\ Tail(q)[i] = q[i + 1]
         /\ \A i \in DOMAIN q : i # 1 => i - 1 \in DOMAIN Tail(q) /\ Tail(q)[i - 1] = q[i]
  OBVIOUS

(* And what Append makes of it.                                             *)
LEMMA AppendTo ==
  ASSUME NEW S, NEW q \in Seq(S), NEW e \in S
  PROVE  /\ Append(q, e) \in Seq(S)
         /\ DOMAIN Append(q, e) = DOMAIN q \union {Len(q) + 1}
         /\ Len(q) + 1 \notin DOMAIN q
         /\ Append(q, e)[Len(q) + 1] = e
         /\ \A i \in DOMAIN q : Append(q, e)[i] = q[i]
  OBVIOUS

(* The invariant holds when app_main is done.                               *)
LEMMA InitInv == Init => UplinkInv
<1> SUFFICES ASSUME Init PROVE UplinkInv
  OBVIOUS
<1> USE UplinkAssumption DEF Init
<1>1. TypeOK
  <2>1. queue \in Seq(Event)
    BY DEF Event
  <2>2. /\ provisioning \in BOOLEAN /\ dhcps \in BOOLEAN /\ bwTask \in BOOLEAN
        /\ failed \subseteq {"connect", "memory", "dhcps"}
        /\ proxy \in {"off", "starting", "on", "ended"}
    BY Zenon
  <2>3. moves \in 0 .. MaxMoves
    OBVIOUS
  <2> QED BY <2>1, <2>2, <2>3 DEF TypeOK
<1>2. DOMAIN queue = {1} /\ queue[1] = "start"
  OBVIOUS
<1>3. NeverStranded /\ NeverTwice
  BY <1>2 DEF NeverStranded, NeverTwice, Reconnects
<1> QED
  BY <1>1, <1>2, <1>3 DEF UplinkInv, ProvisioningStaysHome, OffersWhatWasStarted, Reconnects

-----------------------------------------------------------------------------

(* Handling an event, with all that the invariant says of the queue.        *)
LEMMA Handled ==
  ASSUME UplinkInv, NEW e, Handle(e)
  PROVE  /\ e \in Event /\ queue[1] = e /\ 1 \in DOMAIN queue
         /\ queue' \in Seq(Event)
         /\ \A i \in DOMAIN queue' : i + 1 \in DOMAIN queue /\ queue'[i] = queue[i + 1]
         /\ \A i \in DOMAIN queue : i # 1 => i - 1 \in DOMAIN queue' /\ queue'[i - 1] = queue[i]
         /\ pc = "idle" /\ provisioning' = provisioning /\ provisioning \in BOOLEAN
         /\ e = "gotIp" => dns # None
         /\ provisioning => Reconnects(e)
<1>1. queue \in Seq(Event) /\ queue # <<>> /\ queue' = Tail(queue) /\ e = Head(queue)
  BY DEF UplinkInv, TypeOK, Handle
<1>2. e \in Event /\ queue[1] = e /\ 1 \in DOMAIN queue
  BY <1>1
<1>3. /\ Tail(queue) \in Seq(Event)
      /\ \A i \in DOMAIN Tail(queue) :
            i + 1 \in DOMAIN queue /\ Tail(queue)[i] = queue[i + 1]
      /\ \A i \in DOMAIN queue :
            i # 1 => i - 1 \in DOMAIN Tail(queue) /\ Tail(queue)[i - 1] = queue[i]
  BY <1>1, TailOf
<1>4. pc = "idle" /\ provisioning' = provisioning /\ provisioning \in BOOLEAN
  BY Zenon DEF Handle, UplinkInv, TypeOK
<1>5. (e = "gotIp" => dns # None) /\ (provisioning => Reconnects(e))
  BY <1>2, Zenon DEF UplinkInv
<1> QED
  BY <1>1, <1>2, <1>3, <1>4, <1>5, Zenon

(* Posting an event.                                                        *)
LEMMA Posted ==
  ASSUME UplinkInv, NEW e \in Event, Post(e)
  PROVE  /\ queue' \in Seq(Event)
         /\ DOMAIN queue' = DOMAIN queue \union {Len(queue) + 1}
         /\ Len(queue) + 1 \notin DOMAIN queue
         /\ queue'[Len(queue) + 1] = e
         /\ \A i \in DOMAIN queue : queue'[i] = queue[i]
<1>1. queue \in Seq(Event) /\ queue' = Append(queue, e)
  BY DEF UplinkInv, TypeOK, Post
<1> QED
  BY <1>1, AppendTo

(* After an event that does not reconnect, the station is as attended to as *)
(* before.                                                                  *)
LEMMA OtherHandled ==
  ASSUME UplinkInv, NEW e, Handle(e), ~Reconnects(e), sta' = sta,
         failed \subseteq failed'
  PROVE  NeverTwice' /\ (NeverStranded => NeverStranded')
<1>1. /\ queue[1] = e /\ 1 \in DOMAIN queue
      /\ \A i \in DOMAIN queue' : i + 1 \in DOMAIN queue /\ queue'[i] = queue[i + 1]
      /\ \A i \in DOMAIN queue : i # 1 => i - 1 \in DOMAIN queue' /\ queue'[i - 1] = queue[i]
      /\ provisioning' = provisioning
      /\ queue \in Seq(Event) /\ queue' \in Seq(Event)
  BY Handled DEF UplinkInv, TypeOK
<1>2. \A i, j \in DOMAIN queue' : Reconnects(queue'[i]) /\ Reconnects(queue'[j]) => i = j
  BY <1>1 DEF UplinkInv, NeverTwice
<1>3. (\E i \in DOMAIN queue : Reconnects(queue[i])) <=> (\E i \in DOMAIN queue' : Reconnects(queue'[i]))
  BY <1>1
<1>4. \A i \in DOMAIN queue' : Reconnects(queue'[i]) => sta' = "idle"
  BY <1>1 DEF UplinkInv, NeverTwice
<1> QED
  BY <1>1, <1>2, <1>3, <1>4 DEF NeverStranded, NeverTwice, Reconnects

(* Posting anything else changes nothing for the station either.            *)
LEMMA OtherPosted ==
  ASSUME UplinkInv, NEW e \in Event, Post(e), ~Reconnects(e),
         sta' = "idle" <=> sta = "idle"
  PROVE  NeverTwice' /\ (NeverStranded => NeverStranded')
<1>1. /\ DOMAIN queue' = DOMAIN queue \union {Len(queue) + 1}
      /\ queue'[Len(queue) + 1] = e
      /\ \A i \in DOMAIN queue : queue'[i] = queue[i]
      /\ provisioning' = provisioning /\ failed' = failed
  BY Posted DEF Post
<1>2. \A i \in DOMAIN queue' : Reconnects(queue'[i]) => i \in DOMAIN queue /\ Reconnects(queue[i])
  BY <1>1
<1>3. \A i \in DOMAIN queue : Reconnects(queue[i]) => i \in DOMAIN queue' /\ Reconnects(queue'[i])
  BY <1>1
<1> QED
  BY <1>1, <1>2, <1>3 DEF UplinkInv, NeverTwice, NeverStranded, Reconnects

(* An event that reconnects is the only one, and is handled by connecting.  *)
LEMMA ReconnectHandled ==
  ASSUME UplinkInv, NEW e, Handle(e), Reconnects(e)
  PROVE  /\ NeverTwice'
         /\ \/ ~provisioning /\ sta' = "idle" /\ "connect" \notin failed'
            \/ NeverStranded'
<1>1. /\ queue[1] = e /\ 1 \in DOMAIN queue
      /\ \A i \in DOMAIN queue' : i + 1 \in DOMAIN queue /\ queue'[i] = queue[i + 1]
      /\ provisioning' = provisioning
      /\ queue' \in Seq(Event)
  BY Handled
<1>2. \A i \in DOMAIN queue' : ~Reconnects(queue'[i])
  <2> SUFFICES ASSUME NEW i \in DOMAIN queue', Reconnects(queue'[i]) PROVE FALSE
    OBVIOUS
  <2>1. i + 1 = 1
    BY <1>1 DEF UplinkInv, NeverTwice
  <2>2. i \in Nat \ {0}
    BY <1>1
  <2> QED BY <2>1, <2>2
<1> QED
  BY <1>1, <1>2, Zenon DEF NeverStranded, NeverTwice, Reconnects

(* Losing the link, or failing to get one, queues the only such event.      *)
LEMMA ReconnectPosted ==
  ASSUME UplinkInv, NEW e \in Event, Post(e), Reconnects(e),
         sta # "idle", sta' = "idle"
  PROVE  NeverTwice' /\ NeverStranded'
<1>1. /\ DOMAIN queue' = DOMAIN queue \union {Len(queue) + 1}
      /\ queue'[Len(queue) + 1] = e
      /\ \A i \in DOMAIN queue : queue'[i] = queue[i]
  BY Posted
<1>2. \A i \in DOMAIN queue' : Reconnects(queue'[i]) => i = Len(queue) + 1
  BY <1>1 DEF UplinkInv, NeverTwice
<1> QED
  BY <1>1, <1>2, Zenon DEF NeverStranded, NeverTwice, Reconnects

-----------------------------------------------------------------------------

(* The invariant, in the parts in which it is proved.                       *)
Rest ==
    /\ ProvisioningStaysHome
    /\ provisioning => /\ pc = "idle" /\ dhcpc = "off"
                       /\ \A i \in DOMAIN queue : Reconnects(queue[i])
    /\ OffersWhatWasStarted
    /\ dhcps => pc \in {"idle", "started"}
    /\ pc \in {"idle", "started"} => dhcps \/ "dhcps" \in failed
    /\ \A i \in DOMAIN queue : queue[i] = "gotIp" => dns # None
    /\ pc \in {"stopped", "offered"} =>
          /\ upstream # None
          /\ IF willOffer = "ap" THEN proxy # "off" ELSE proxy = "off" /\ willOffer = upstream
    /\ pc = "offered" => offer = willOffer

(* Every step preserves it.                                                 *)
LEMMA StepInv == UplinkInv /\ [Next]_vars => UplinkInv'
<1> SUFFICES ASSUME UplinkInv, [Next]_vars PROVE UplinkInv'
  OBVIOUS
<1> USE UplinkAssumption
<1>1. ASSUME TypeOK', NeverTwice', NeverStranded', Rest' PROVE UplinkInv'
  BY <1>1 DEF UplinkInv, Rest
<1>2. TypeOK /\ NeverTwice /\ NeverStranded /\ Rest
  BY DEF UplinkInv, Rest
<1>3. CASE OnStart
  <2>1. Handle("start") /\ Reconnects("start")
    BY <1>3 DEF OnStart, Reconnects
  <2>2. /\ queue' \in Seq(Event)
        /\ \A i \in DOMAIN queue' : i + 1 \in DOMAIN queue /\ queue'[i] = queue[i + 1]
        /\ provisioning' = provisioning /\ provisioning \in BOOLEAN
    BY <2>1, Handled
  <2>idle. sta = "idle"
    BY <1>2, <2>1, Handled DEF NeverTwice
  <2>fail. failed \subseteq failed' /\ failed' \subseteq {"connect", "memory", "dhcps"}
    BY <1>2, <1>3 DEF OnStart, Connect, Fail, TypeOK
  <2>3. TypeOK'
    BY <1>2, <1>3, <2>2, <2>idle, <2>fail DEF OnStart, Connect, TypeOK, linkVars, setVars, dhcpVars
  <2>4. NeverTwice' /\ NeverStranded'
    <3>1. "connect" \notin failed' /\ ~provisioning => sta' # "idle"
      BY <1>3 DEF OnStart, Connect, Fail
    <3> QED BY <1>2, <2>1, <3>1, ReconnectHandled
  <2>5. Rest'
    BY <1>2, <1>3, <2>2, <2>fail DEF OnStart, Connect, Rest, ProvisioningStaysHome,
       OffersWhatWasStarted, linkVars, setVars, dhcpVars
  <2> QED BY <1>1, <2>3, <2>4, <2>5
<1>4. CASE OnConnected
  <2>1. PICK n \in Net : Handle(n) /\ apChannel' = n
    BY <1>4 DEF OnConnected
  <2>2. ~Reconnects(n) /\ n # "gotIp"
    BY DEF Reconnects
  <2>3. /\ queue' \in Seq(Event)
        /\ \A i \in DOMAIN queue' : i + 1 \in DOMAIN queue /\ queue'[i] = queue[i + 1]
        /\ provisioning' = provisioning /\ provisioning \in BOOLEAN
        /\ ~provisioning
    BY <2>1, <2>2, Handled
  <2>4. TypeOK'
    BY <1>2, <1>4, <2>1, <2>3 DEF OnConnected, TypeOK, linkVars
  <2>5. NeverTwice' /\ NeverStranded'
    BY <1>2, <1>4, <2>1, <2>2, OtherHandled DEF OnConnected, linkVars
  <2>6. Rest'
    BY <1>2, <1>4, <2>3 DEF OnConnected, Rest, ProvisioningStaysHome,
       OffersWhatWasStarted, linkVars
  <2> QED BY <1>1, <2>4, <2>5, <2>6
<1>5. CASE OnDisconnected
  <2>1. Handle("disconnected") /\ Reconnects("disconnected")
    BY <1>5 DEF OnDisconnected, Reconnects
  <2>2. /\ queue' \in Seq(Event)
        /\ \A i \in DOMAIN queue' : i + 1 \in DOMAIN queue /\ queue'[i] = queue[i + 1]
        /\ provisioning' = provisioning /\ provisioning \in BOOLEAN
    BY <2>1, Handled
  <2>idle. sta = "idle"
    BY <1>2, <2>1, Handled DEF NeverTwice
  <2>fail. failed \subseteq failed' /\ failed' \subseteq {"connect", "memory", "dhcps"}
    BY <1>2, <1>5 DEF OnDisconnected, Connect, Fail, TypeOK
  <2>3. TypeOK'
    <3>1. /\ net' = net /\ link' = link /\ moves' = moves
          /\ sta' \in {"idle", "connecting"}
      BY <1>5, <2>idle DEF OnDisconnected, Connect, linkVars
    <3>2. /\ dhcpc' = "off" /\ bwTask' = FALSE
          /\ UNCHANGED <<pc, willOffer, apChannel, upstream, proxy, dhcps, offer, dns>>
      BY <1>5 DEF OnDisconnected
    <3>3. proxy' \in {"off", "starting", "on", "ended"} /\ dhcps' \in BOOLEAN /\ bwTask' \in BOOLEAN
      BY <1>2, <3>2, Zenon DEF TypeOK
    <3> QED BY <1>2, <2>2, <2>idle, <2>fail, <3>1, <3>2, <3>3 DEF TypeOK
  <2>4. NeverTwice' /\ NeverStranded'
    <3>1. "connect" \notin failed' /\ ~provisioning => sta' # "idle"
      BY <1>5 DEF OnDisconnected, Connect, Fail
    <3> QED BY <1>2, <2>1, <3>1, ReconnectHandled
  <2>5. Rest'
    BY <1>2, <1>5, <2>2, <2>fail DEF OnDisconnected, Connect, Rest, ProvisioningStaysHome,
       OffersWhatWasStarted, linkVars
  <2> QED BY <1>1, <2>3, <2>4, <2>5
<1>6. CASE OnGotIp
  <2>1. Handle("gotIp") /\ ~Reconnects("gotIp")
    BY <1>6 DEF OnGotIp, Reconnects
  <2>2. /\ queue' \in Seq(Event)
        /\ \A i \in DOMAIN queue' : i + 1 \in DOMAIN queue /\ queue'[i] = queue[i + 1]
        /\ provisioning' = provisioning /\ provisioning \in BOOLEAN
        /\ ~provisioning /\ dns # None
    BY <2>1, Handled
  <2>3. proxy' \in {"starting", "on", "off"}
    BY <1>2, <1>6, Zenon DEF OnGotIp, StartProxy, TypeOK
  <2>fail. failed \subseteq failed' /\ failed' \subseteq {"connect", "memory", "dhcps"}
    BY <1>2, <1>6 DEF OnGotIp, StartProxy, Fail, TypeOK
  <2>4. TypeOK'
    BY <1>2, <1>6, <2>2, <2>3, <2>fail DEF OnGotIp, TypeOK, linkVars, dhcpVars
  <2>5. NeverTwice' /\ NeverStranded'
    BY <1>2, <1>6, <2>1, <2>fail, OtherHandled DEF OnGotIp, linkVars
  <2>6. Rest'
    BY <1>2, <1>6, <2>2, <2>3 DEF OnGotIp, StartProxy, Rest, ProvisioningStaysHome,
       OffersWhatWasStarted, linkVars, dhcpVars, TypeOK
  <2> QED BY <1>1, <2>4, <2>5, <2>6
<1>7. CASE SetOffer
  <2>1. TypeOK'
    BY <1>2, <1>7 DEF SetOffer, TypeOK, linkVars, dhcpVars
  <2>2. NeverTwice' /\ NeverStranded'
    BY <1>2, <1>7 DEF SetOffer, NeverStranded, NeverTwice, Reconnects, linkVars
  <2>3. Rest'
    BY <1>2, <1>7 DEF SetOffer, Rest, ProvisioningStaysHome, OffersWhatWasStarted,
       Reconnects, linkVars, dhcpVars
  <2> QED BY <1>1, <2>1, <2>2, <2>3
<1>8. CASE StartDhcps
  <2>1. dhcps' \in BOOLEAN
    BY <1>2, <1>8, Zenon DEF StartDhcps, TypeOK
  <2>fail. /\ failed \subseteq failed' /\ failed' \subseteq {"connect", "memory", "dhcps"}
           /\ "connect" \notin failed' => "connect" \notin failed
           /\ dhcps' \/ "dhcps" \in failed'
    BY <1>2, <1>8 DEF StartDhcps, Fail, TypeOK
  <2>2. TypeOK'
    BY <1>2, <1>8, <2>1, <2>fail DEF StartDhcps, TypeOK, linkVars, dhcpVars
  <2>3. NeverTwice' /\ NeverStranded'
    BY <1>2, <1>8, <2>fail DEF StartDhcps, NeverStranded, NeverTwice, Reconnects, linkVars
  <2>4. Rest'
    BY <1>2, <1>8, <2>fail DEF StartDhcps, Rest, ProvisioningStaysHome, OffersWhatWasStarted,
       Reconnects, linkVars, dhcpVars
  <2> QED BY <1>1, <2>2, <2>3, <2>4
<1>9. CASE StartBandwidthTask
  <2>1. bwTask' \in BOOLEAN
    BY <1>2, <1>9, Zenon DEF StartBandwidthTask, TypeOK
  <2>fail. failed \subseteq failed' /\ failed' \subseteq {"connect", "memory", "dhcps"}
    BY <1>2, <1>9 DEF StartBandwidthTask, Fail, TypeOK
  <2>2. TypeOK'
    BY <1>2, <1>9, <2>1, <2>fail DEF StartBandwidthTask, TypeOK, linkVars, dhcpVars
  <2>3. NeverTwice' /\ NeverStranded'
    BY <1>2, <1>9, <2>fail DEF StartBandwidthTask, NeverStranded, NeverTwice, Reconnects, linkVars
  <2>4. Rest'
    BY <1>2, <1>9, <2>fail DEF StartBandwidthTask, Rest, ProvisioningStaysHome, OffersWhatWasStarted,
       Reconnects, linkVars, dhcpVars
  <2> QED BY <1>1, <2>2, <2>3, <2>4
<1>10. CASE \E n \in Net \union {None} : RouterMoves(n)
  <2>1. TypeOK'
    BY <1>2, <1>10 DEF RouterMoves, Move, TypeOK, loopVars, setVars, dhcpVars
  <2>2. NeverTwice' /\ NeverStranded'
    BY <1>2, <1>10 DEF RouterMoves, NeverStranded, NeverTwice, Reconnects, loopVars
  <2>3. Rest'
    BY <1>2, <1>10 DEF RouterMoves, Rest, ProvisioningStaysHome, OffersWhatWasStarted,
       Reconnects, loopVars, setVars, dhcpVars
  <2> QED BY <1>1, <2>1, <2>2, <2>3
<1>11. CASE Associates
  <2>1. net \in Net /\ net \in Event /\ Post(net) /\ ~Reconnects(net) /\ net # "gotIp"
    BY <1>2, <1>11 DEF Associates, TypeOK, Event, Reconnects
  <2>2. /\ queue' \in Seq(Event)
        /\ DOMAIN queue' = DOMAIN queue \union {Len(queue) + 1}
        /\ queue'[Len(queue) + 1] = net
        /\ \A i \in DOMAIN queue : queue'[i] = queue[i]
    BY <2>1, Posted
  <2>3. ~provisioning /\ ~provisioning'
    BY <1>2, <1>11, <2>1 DEF Associates, Rest, ProvisioningStaysHome, Post
  <2>4. TypeOK'
    BY <1>2, <1>11, <2>1, <2>2 DEF Associates, Post, TypeOK, setVars, dhcpVars
  <2>5. NeverTwice' /\ NeverStranded'
    BY <1>2, <1>11, <2>1, OtherPosted DEF Associates
  <2>6. Rest'
    BY <1>2, <1>11, <2>1, <2>2, <2>3 DEF Associates, Post, Rest, ProvisioningStaysHome,
       OffersWhatWasStarted, setVars, dhcpVars
  <2> QED BY <1>1, <2>4, <2>5, <2>6
<1>12. CASE Fails \/ LinkLost
  <2>1. "disconnected" \in Event /\ Post("disconnected") /\ Reconnects("disconnected")
    BY <1>12 DEF Fails, LinkLost, Event, Reconnects
  <2>2. /\ queue' \in Seq(Event)
        /\ DOMAIN queue' = DOMAIN queue \union {Len(queue) + 1}
        /\ queue'[Len(queue) + 1] = "disconnected"
        /\ \A i \in DOMAIN queue : queue'[i] = queue[i]
    BY <2>1, Posted
  <2>3. sta # "idle" /\ sta' = "idle" /\ ~provisioning /\ ~provisioning'
    BY <1>2, <1>12, <2>1 DEF Fails, LinkLost, Rest, ProvisioningStaysHome, Post
  <2>4. TypeOK'
    BY <1>2, <1>12, <2>1, <2>2 DEF Fails, LinkLost, Move, Post, TypeOK, setVars, dhcpVars
  <2>5. NeverTwice' /\ NeverStranded'
    BY <1>2, <2>1, <2>3, ReconnectPosted
  <2>6. Rest'
    BY <1>2, <1>12, <2>1, <2>2, <2>3 DEF Fails, LinkLost, Post, Rest, ProvisioningStaysHome,
       OffersWhatWasStarted, setVars, dhcpVars
  <2> QED BY <1>1, <2>4, <2>5, <2>6
<1>13. CASE LeaseGranted
  <2>1. link \in Net /\ link # None /\ ~provisioning /\ ~provisioning'
    BY <1>2, <1>13 DEF LeaseGranted, TypeOK, Rest
  <2>2. TypeOK'
    BY <1>2, <1>13, <2>1 DEF LeaseGranted, TypeOK, loopVars, setVars, linkVars
  <2>3. NeverTwice' /\ NeverStranded'
    BY <1>2, <1>13 DEF LeaseGranted, NeverStranded, NeverTwice, Reconnects, loopVars, linkVars
  <2>4. Rest'
    BY <1>2, <1>13, <2>1 DEF LeaseGranted, Rest, ProvisioningStaysHome, OffersWhatWasStarted,
       loopVars, setVars, linkVars
  <2> QED BY <1>1, <2>2, <2>3, <2>4
<1>14. CASE LeaseTaken
  <2>1. /\ "gotIp" \in Event /\ Post("gotIp") /\ ~Reconnects("gotIp")
        /\ dns # None /\ ~provisioning /\ ~provisioning'
    BY <1>2, <1>14 DEF LeaseTaken, Event, Reconnects, TypeOK, Rest, Post
  <2>2. /\ queue' \in Seq(Event)
        /\ DOMAIN queue' = DOMAIN queue \union {Len(queue) + 1}
        /\ queue'[Len(queue) + 1] = "gotIp"
        /\ \A i \in DOMAIN queue : queue'[i] = queue[i]
    BY <2>1, Posted
  <2>3. TypeOK'
    BY <1>2, <1>14, <2>1, <2>2 DEF LeaseTaken, Post, TypeOK, setVars, linkVars
  <2>4. NeverTwice' /\ NeverStranded'
    BY <1>2, <1>14, <2>1, OtherPosted DEF LeaseTaken, linkVars
  <2>5. Rest'
    BY <1>2, <1>14, <2>1, <2>2 DEF LeaseTaken, Post, Rest, ProvisioningStaysHome,
       OffersWhatWasStarted, setVars, linkVars
  <2> QED BY <1>1, <2>3, <2>4, <2>5
<1>15. CASE ProxySetup
  <2>1. TypeOK'
    BY <1>2, <1>15 DEF ProxySetup, TypeOK, loopVars, linkVars, dhcpVars
  <2>2. NeverTwice' /\ NeverStranded'
    BY <1>2, <1>15 DEF ProxySetup, NeverStranded, NeverTwice, Reconnects, loopVars, linkVars
  <2>3. Rest'
    BY <1>2, <1>15 DEF ProxySetup, Rest, ProvisioningStaysHome, OffersWhatWasStarted,
       Reconnects, loopVars, linkVars, dhcpVars
  <2> QED BY <1>1, <2>1, <2>2, <2>3
<1>16. CASE UNCHANGED vars
  BY <1>1, <1>2, <1>16 DEF vars, TypeOK, NeverStranded, NeverTwice, Rest, ProvisioningStaysHome,
     OffersWhatWasStarted, Reconnects
<1> QED
  BY <1>3, <1>4, <1>5, <1>6, <1>7, <1>8, <1>9, <1>10, <1>11, <1>12, <1>13, <1>14, <1>15, <1>16
     DEF Next, EventLoop

-----------------------------------------------------------------------------

(* The invariant holds for every set of networks and whatever fails.        *)
THEOREM UplinkInvariant == Spec => []UplinkInv
<1> QED
  BY InitInv, StepInv, PTL DEF Spec

(* Until a call of esp_wifi_connect fails the station is never left alone:  *)
(* whatever router and radio do, and in whichever order, either the driver  *)
(* is at work or an event is queued that starts it.                         *)
THEOREM StationNeverStranded == Spec => []NeverStranded
<1>1. UplinkInv => NeverStranded
  BY DEF UplinkInv
<1> QED
  BY <1>1, UplinkInvariant, PTL

(* The DHCP server of a repeater announces the device itself only with an   *)
(* upstream server and after the proxy's task was created, whatever failed  *)
(* at an earlier address.  It is said of what the handler knows: a task     *)
(* that ended without its sockets counts as started.                        *)
THEOREM OffersOnlyStarted == Spec => []OffersWhatWasStarted
<1>1. UplinkInv => OffersWhatWasStarted
  BY DEF UplinkInv
<1> QED
  BY <1>1, UplinkInvariant, PTL

-----------------------------------------------------------------------------

(* What is left to happen when the queue is not empty.                      *)

\* No event of a new link is queued.
NoLink == \A i \in DOMAIN queue : queue[i] \notin Net
NoStart == \A i \in DOMAIN queue : queue[i] # "start"

\* The order of the events: the first of all is alone, at most one tells of a
\* link, and the end of a link comes after it.
Order ==
    /\ ~NoStart => Len(queue) = 1
    /\ \A i, j \in DOMAIN queue : queue[i] \in Net /\ queue[j] \in Net => i = j
    /\ \A i, j \in DOMAIN queue : queue[i] = "disconnected" /\ queue[j] \in Net => j < i

\* The handler has seen the address of the link, or is at work on it.
Served ==
    /\ upstream = link
    /\ pc = "idle" => offer # None /\ (bwTask \/ "memory" \in failed)

\* Either the handler has yet to hear of the link, and then the DHCP client is
\* still off, or the access point has followed it and what the client has
\* learned is the resolver of this link and no earlier one.
LinkKnown ==
    /\ NoLink /\ apChannel = link
    /\ dhcpc \in {"acked", "bound"} => dns = link
    /\ dhcpc = "bound" => Served \/ \E i \in DOMAIN queue : queue[i] = "gotIp"

LinkInv ==
    /\ Order
    /\ ~NoStart => dhcpc = "off"
    /\ pc = "started" => offer # None
    /\ sta = "connecting" => dhcpc = "off" /\ NoLink
    /\ sta = "linked" =>
          \/ dhcpc = "off" /\ \E i \in DOMAIN queue : queue[i] = link
          \/ LinkKnown

(* Once all is handled, what is left to happen is nothing.                  *)
LEMMA LinkInvFollows == UplinkInv /\ LinkInv => FollowsLink
<1> SUFFICES ASSUME UplinkInv, LinkInv, Quiet, sta = "linked"
             PROVE  /\ apChannel = link
                    /\ dhcpc = "bound" => /\ upstream = link
                                          /\ dhcps \/ "dhcps" \in failed
                                          /\ offer # None
                                          /\ bwTask \/ "memory" \in failed
  BY DEF FollowsLink
<1>1. DOMAIN queue = {} /\ pc = "idle"
  BY DEF Quiet
<1>2. LinkKnown
  BY <1>1 DEF LinkInv
<1>3. dhcps \/ "dhcps" \in failed
  BY <1>1, Zenon DEF UplinkInv
<1> QED BY <1>1, <1>2, <1>3 DEF LinkKnown, Served

(* The order survives the handling of an event, and the one that tells of a *)
(* link, or of its end, leaves no other that tells of a link.               *)
LEMMA OrderHandled ==
  ASSUME UplinkInv, Order, NEW e, Handle(e)
  PROVE  /\ Order' /\ NoStart'
         /\ NoLink \/ e \in Net \/ e = "disconnected" => NoLink'
         /\ \A x : x # e /\ (\E i \in DOMAIN queue : queue[i] = x)
                   => \E i \in DOMAIN queue' : queue'[i] = x
<1>1. /\ queue[1] = e /\ 1 \in DOMAIN queue
      /\ \A i \in DOMAIN queue' : i + 1 \in DOMAIN queue /\ queue'[i] = queue[i + 1]
      /\ \A i \in DOMAIN queue : i # 1 => i - 1 \in DOMAIN queue' /\ queue'[i - 1] = queue[i]
      /\ queue \in Seq(Event) /\ queue' \in Seq(Event)
  BY Handled DEF UplinkInv, TypeOK
<1>2. NoStart'
  <2> SUFFICES ASSUME NEW i \in DOMAIN queue', queue'[i] = "start" PROVE FALSE
    BY DEF NoStart
  <2>1. queue[i + 1] = "start" /\ i + 1 \in DOMAIN queue
    BY <1>1
  <2>2. Len(queue) = 1
    BY <2>1 DEF Order, NoStart
  <2> QED BY <1>1, <2>1, <2>2
<1>3. \A i, j \in DOMAIN queue' : queue'[i] \in Net /\ queue'[j] \in Net => i = j
  <2> SUFFICES ASSUME NEW i \in DOMAIN queue', NEW j \in DOMAIN queue',
                      queue'[i] \in Net, queue'[j] \in Net
               PROVE  i = j
    OBVIOUS
  <2>1. i + 1 = j + 1
    BY <1>1 DEF Order
  <2> QED BY <1>1, <2>1
<1>4. \A i, j \in DOMAIN queue' : queue'[i] = "disconnected" /\ queue'[j] \in Net => j < i
  <2> SUFFICES ASSUME NEW i \in DOMAIN queue', NEW j \in DOMAIN queue',
                      queue'[i] = "disconnected", queue'[j] \in Net
               PROVE  j < i
    OBVIOUS
  <2>1. j + 1 < i + 1
    BY <1>1 DEF Order
  <2> QED BY <1>1, <2>1
<1>5. ASSUME NoLink \/ e \in Net \/ e = "disconnected", NEW i \in DOMAIN queue'
      PROVE  queue'[i] \notin Net
  <2>1. i + 1 \in DOMAIN queue /\ queue'[i] = queue[i + 1] /\ i + 1 # 1 /\ ~(i + 1 < 1)
    BY <1>1
  <2> QED BY <1>1, <1>5, <2>1 DEF NoLink, Order
<1>6. ASSUME NEW x, x # e, NEW i \in DOMAIN queue, queue[i] = x
      PROVE  \E j \in DOMAIN queue' : queue'[j] = x
  BY <1>1, <1>6
<1> QED
  BY <1>2, <1>3, <1>4, <1>5, <1>6 DEF Order, NoLink

(* And the posting of one, if no event of a link or its end is queued when  *)
(* the driver reports a link.                                               *)
LEMMA OrderPosted ==
  ASSUME UplinkInv, Order, NoStart, NEW e \in Event \ {"start"}, Post(e),
         e \in Net => NoLink /\ \A i \in DOMAIN queue : queue[i] # "disconnected"
  PROVE  /\ Order' /\ NoStart'
         /\ NoLink /\ e \notin Net => NoLink'
         /\ \E i \in DOMAIN queue' : queue'[i] = e
         /\ \A x : (\E i \in DOMAIN queue : queue[i] = x) => \E i \in DOMAIN queue' : queue'[i] = x
<1> DEFINE k == Len(queue) + 1
<1>1. /\ DOMAIN queue' = DOMAIN queue \union {k} /\ k \notin DOMAIN queue
      /\ queue'[k] = e
      /\ \A i \in DOMAIN queue : queue'[i] = queue[i]
      /\ \A i \in DOMAIN queue : i < k
      /\ "disconnected" \notin Net
  <2>1. queue \in Seq(Event)
    BY DEF UplinkInv, TypeOK
  <2>2. \A i \in DOMAIN queue : i < k
    BY <2>1
  <2> QED BY <2>2, Posted, UplinkAssumption
<1> HIDE DEF k
<1>2. NoStart' /\ (NoLink /\ e \notin Net => NoLink')
  BY <1>1 DEF NoStart, NoLink
<1>3. \A i, j \in DOMAIN queue' : queue'[i] \in Net /\ queue'[j] \in Net => i = j
  BY <1>1 DEF Order, NoLink
<1>4. \A i, j \in DOMAIN queue' : queue'[i] = "disconnected" /\ queue'[j] \in Net => j < i
  BY <1>1 DEF Order, NoLink
<1> QED
  BY <1>1, <1>2, <1>3, <1>4 DEF Order

(* Every step keeps it.                                                     *)
LEMMA StepLinkInv == UplinkInv /\ LinkInv /\ [Next]_vars => LinkInv'
<1> SUFFICES ASSUME UplinkInv, LinkInv, [Next]_vars PROVE LinkInv'
  OBVIOUS
<1> USE UplinkAssumption
<1>1. /\ Order /\ (~NoStart => dhcpc = "off") /\ (pc = "started" => offer # None)
      /\ sta = "connecting" => dhcpc = "off" /\ NoLink
      /\ sta = "linked" => \/ dhcpc = "off" /\ \E i \in DOMAIN queue : queue[i] = link
                           \/ LinkKnown
      /\ sta = "linked" <=> link # None
      /\ sta \in {"idle", "connecting", "linked"}
  BY DEF LinkInv, UplinkInv, TypeOK
<1>2. /\ sta # "idle" => NoStart /\ \A i \in DOMAIN queue : queue[i] # "disconnected"
  BY DEF UplinkInv, NeverTwice, Reconnects, NoStart
<1>3. ASSUME UNCHANGED queue, dhcpc' = "off" \/ NoStart PROVE Order' /\ (~NoStart' => dhcpc' = "off")
  BY <1>1, <1>3 DEF Order, NoStart
<1>4. CASE OnStart \/ OnDisconnected
  <2>1. PICK e \in {"start", "disconnected"} : Handle(e)
    BY <1>4 DEF OnStart, OnDisconnected
  <2>2. sta = "idle" /\ queue[1] = e /\ 1 \in DOMAIN queue /\ pc = "idle"
    BY <2>1, Handled DEF UplinkInv, NeverTwice, Reconnects
  <2>3. Order' /\ NoStart' /\ (e = "disconnected" => NoLink')
    BY <1>1, <2>1, OrderHandled
  <2>4. dhcpc' = "off"
    <3>1. CASE OnStart
      <4>1. Handle("start") /\ dhcpc' = dhcpc
        BY <3>1 DEF OnStart, dhcpVars
      <4>2. queue[1] = "start" /\ 1 \in DOMAIN queue
        BY <4>1, Handled
      <4> QED BY <1>1, <4>1, <4>2 DEF NoStart
    <3>2. CASE OnDisconnected
      BY <3>2 DEF OnDisconnected
    <3> QED BY <1>4, <3>1, <3>2
  <2>5. NoLink'
    <3>1. CASE e = "start"
      <4>1. Len(queue) = 1 /\ queue \in Seq(Event) /\ queue' = Tail(queue)
        BY <1>1, <2>1, <2>2, <3>1 DEF Order, NoStart, UplinkInv, TypeOK, Handle
      <4>2. DOMAIN queue' = {}
        BY <4>1
      <4> QED BY <4>2 DEF NoLink
    <3> QED BY <2>1, <2>3, <3>1
  <2>6. sta' \in {"idle", "connecting"} /\ pc' = "idle"
    BY <1>4, <2>2 DEF OnStart, OnDisconnected, Connect, linkVars
  <2> QED BY <2>3, <2>4, <2>5, <2>6 DEF LinkInv
<1>5. CASE OnConnected
  <2>1. PICK n \in Net : Handle(n) /\ apChannel' = n
    BY <1>5 DEF OnConnected
  <2>2. Order' /\ NoStart' /\ NoLink' /\ queue[1] = n /\ 1 \in DOMAIN queue /\ pc = "idle"
    BY <1>1, <2>1, OrderHandled, Handled
  <2>3. dhcpc' = "waiting" /\ UNCHANGED <<sta, link, pc, offer>>
    BY <1>5 DEF OnConnected, linkVars
  <2>4. sta # "connecting"
    BY <1>1, <2>2 DEF NoLink
  <2>5. sta = "linked" => apChannel' = link
    <3>1. sta = "linked" => \E i \in DOMAIN queue : queue[i] = link /\ link \in Net
      BY <1>1, <2>2 DEF LinkKnown, NoLink, UplinkInv, TypeOK
    <3> QED BY <1>1, <2>1, <2>2, <3>1 DEF Order
  <2> QED BY <2>2, <2>3, <2>4, <2>5 DEF LinkInv, LinkKnown
<1>6. CASE OnGotIp
  <2>1. Handle("gotIp") /\ pc' = "stopped" /\ upstream' = dns
        /\ UNCHANGED <<sta, link, dhcpc, dns, apChannel>>
    BY <1>6 DEF OnGotIp, linkVars, dhcpVars
  <2>2. /\ Order' /\ NoStart' /\ (NoLink => NoLink')
        /\ \A x : x # "gotIp" /\ (\E i \in DOMAIN queue : queue[i] = x)
                  => \E i \in DOMAIN queue' : queue'[i] = x
    BY <1>1, <2>1, OrderHandled
  <2>3. ASSUME sta = "linked", dhcpc = "off", NEW i \in DOMAIN queue, queue[i] = link
        PROVE  \E j \in DOMAIN queue' : queue'[j] = link
    <3>1. link \in Net /\ link # "gotIp"
      BY <1>1, <2>3 DEF UplinkInv, TypeOK
    <3> QED BY <2>2, <2>3, <3>1
  <2>4. ASSUME LinkKnown PROVE LinkKnown'
    BY <2>1, <2>2, <2>4 DEF LinkKnown, Served
  <2> QED BY <1>1, <2>1, <2>2, <2>3, <2>4 DEF LinkInv
<1>7. CASE SetOffer \/ StartDhcps \/ StartBandwidthTask
  <2>1. UNCHANGED <<queue, sta, link, dhcpc, dns, apChannel, upstream>>
    BY <1>7 DEF SetOffer, StartDhcps, StartBandwidthTask, linkVars, dhcpVars
  <2>2. pc' = "started" => offer' # None
    BY <1>7 DEF SetOffer, StartDhcps, StartBandwidthTask, UplinkInv
  <2>3. pc' = "idle" => offer' # None /\ (bwTask' \/ "memory" \in failed')
    BY <1>1, <1>7 DEF SetOffer, StartDhcps, StartBandwidthTask, Fail
  <2>4. Order' /\ (NoStart' <=> NoStart) /\ (NoLink' <=> NoLink)
    BY <1>1, <2>1 DEF Order, NoStart, NoLink
  <2>5. LinkKnown => LinkKnown'
    BY <2>1, <2>3, <2>4 DEF LinkKnown, Served
  <2> QED BY <1>1, <2>1, <2>2, <2>4, <2>5 DEF LinkInv
<1>8. CASE (\E n \in Net \union {None} : RouterMoves(n)) \/ ProxySetup \/ UNCHANGED vars
  <2>1. UNCHANGED <<queue, pc, sta, link, dhcpc, dns, apChannel, upstream, offer, bwTask, failed>>
    BY <1>8 DEF RouterMoves, ProxySetup, vars, loopVars, setVars, linkVars, dhcpVars
  <2>2. Order' /\ (NoStart' <=> NoStart) /\ (NoLink' <=> NoLink)
    BY <1>1, <2>1 DEF Order, NoStart, NoLink
  <2>3. LinkKnown => LinkKnown'
    BY <2>1, <2>2 DEF LinkKnown, Served
  <2> QED BY <1>1, <2>1, <2>2, <2>3 DEF LinkInv
<1>9. CASE Associates
  <2>1. net \in Net /\ net \in Event \ {"start"} /\ Post(net)
    BY <1>9 DEF Associates, Event, UplinkInv, TypeOK
  <2>2. /\ sta = "connecting" /\ sta' = "linked" /\ link' = net
        /\ UNCHANGED <<pc, offer, dhcpc>>
    BY <1>9 DEF Associates, Post, setVars, dhcpVars
  <2>3. Order' /\ NoStart' /\ \E i \in DOMAIN queue' : queue'[i] = net
    BY <1>1, <1>2, <2>1, <2>2, OrderPosted
  <2> QED BY <1>1, <2>2, <2>3 DEF LinkInv
<1>10. CASE Fails \/ LinkLost
  <2>1. "disconnected" \in Event \ {"start"} /\ "disconnected" \notin Net /\ Post("disconnected")
    BY <1>10 DEF Fails, LinkLost, Event
  <2>2. sta # "idle" /\ sta' = "idle" /\ UNCHANGED <<pc, offer, dhcpc>>
    BY <1>10 DEF Fails, LinkLost, Post, setVars, dhcpVars
  <2>3. Order' /\ NoStart'
    BY <1>1, <1>2, <2>1, <2>2, OrderPosted
  <2> QED BY <1>1, <2>2, <2>3 DEF LinkInv
<1>11. CASE LeaseGranted
  <2>1. /\ sta = "linked" /\ dhcpc = "waiting" /\ dhcpc' = "acked" /\ dns' = link
        /\ UNCHANGED <<queue, pc, sta, link, apChannel, upstream, offer, bwTask, failed>>
    BY <1>11 DEF LeaseGranted, loopVars, setVars, linkVars
  <2>2. LinkKnown' /\ NoStart
    BY <1>1, <1>2, <2>1 DEF LinkKnown, NoLink
  <2> QED BY <1>1, <1>3, <2>1, <2>2 DEF LinkInv
<1>12. CASE LeaseTaken
  <2>1. /\ "gotIp" \in Event \ {"start"} /\ "gotIp" \notin Net /\ Post("gotIp")
        /\ dhcpc = "acked" /\ dhcpc' = "bound"
        /\ UNCHANGED <<pc, sta, link, dns, apChannel, upstream, offer, bwTask, failed>>
    BY <1>12 DEF LeaseTaken, Event, Post, linkVars, setVars
  <2>2. NoStart
    BY <1>1, <2>1
  <2>3. /\ Order' /\ NoStart' /\ (NoLink => NoLink')
        /\ \E i \in DOMAIN queue' : queue'[i] = "gotIp"
    BY <1>1, <2>1, <2>2, OrderPosted
  <2>4. LinkKnown => LinkKnown'
    BY <2>1, <2>3 DEF LinkKnown
  <2> QED BY <1>1, <2>1, <2>3, <2>4 DEF LinkInv
<1> QED
  BY <1>4, <1>5, <1>6, <1>7, <1>8, <1>9, <1>10, <1>11, <1>12 DEF Next, EventLoop

(* Whatever the link does while events wait and while the handler sleeps:   *)
(* when the last event has been handled the access point is on the channel  *)
(* of the link and proxy, DHCP server and bandwidth task serve it.          *)
THEOREM HandlerFollowsLink == Spec => []FollowsLink
<1>1. Init => LinkInv
  <2> SUFFICES ASSUME Init PROVE LinkInv
    OBVIOUS
  <2>1. /\ DOMAIN queue = {1} /\ queue[1] = "start" /\ Len(queue) = 1 /\ pc = "idle"
        /\ sta = "idle" /\ dhcpc = "off" /\ "start" \notin Net
    BY UplinkAssumption DEF Init
  <2> QED BY <2>1 DEF LinkInv, Order
<1> QED
  BY <1>1, StepLinkInv, LinkInvFollows, UplinkInvariant, PTL DEF Spec

=============================================================================
