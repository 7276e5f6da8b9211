------------------------------- MODULE Uplink -------------------------------
(***************************************************************************)
(* main.c, wifi_event_handler: how the repeater follows its uplink.  The   *)
(* Wi-Fi driver and the DHCP client post events to the queue of the event  *)
(* loop; its one task runs the handler, which asks the driver to connect   *)
(* again, keeps the access point on the uplink's channel, and on a new     *)
(* address configures NAT, the DNS proxy and the DHCP server of the access *)
(* point.  That last part sleeps three times, while the driver goes on.    *)
(*                                                                         *)
(* Driver, DHCP client and router are external.  A network stands for its  *)
(* channel and for the resolver it announces (or the fallback 8.8.8.8,     *)
(* when it announces none); s_retry_num is only logged as long as          *)
(* ESP_WIFI_MAXIMUM_RETRY is negative, and is left out, as are the events  *)
(* of the access point's clients, which are only logged here.              *)
(***************************************************************************)
EXTENDS Integers, Sequences

CONSTANTS
    Net,       \* the networks the router offers, one at a time
    None,      \* no network
    HomeChannel,  \* the channel the access point starts on
    MaxMoves   \* bound on what router and radio do to the link

ASSUME UplinkAssumption ==
    /\ Net \intersect {"start", "disconnected", "gotIp", "ap"} = {}
    /\ None \notin Net \union {"ap"}
    /\ HomeChannel \notin Net
    /\ MaxMoves \in Nat

VARIABLES
    provisioning,  \* g_provisioning_mode
    \* the event loop
    queue,      \* events not yet handled
    pc,         \* "idle", or where in its GOT_IP branch the handler sleeps
    willOffer,  \* its local dns_offer
    \* what the handler sets
    apChannel, upstream, dhcps, offer, bwTask,
    proxy,      \* the proxy's task: "off" if there is none, "starting" until
                \* it has its sockets, "on", or "ended" when it got none
    \* external: router, driver, DHCP client
    net,        \* the network the router offers
    sta, link,  \* the station: "idle", "connecting", "linked" and to what
    dhcpc, dns, \* the DHCP client, and the resolver it learned
    moves,
    failed      \* history: the calls that have failed, "connect" for
                \* esp_wifi_connect, "memory" for the creation of a task,
                \* "dhcps" for esp_netif_dhcps_start

loopVars == <<queue, pc, willOffer>>
setVars == <<apChannel, upstream, proxy, dhcps, offer, bwTask>>
linkVars == <<net, sta, link, moves>>
dhcpVars == <<dhcpc, dns>>
vars == <<provisioning, queue, pc, willOffer, apChannel, upstream, proxy,
          dhcps, offer, bwTask, net, sta, link, dhcpc, dns, moves, failed>>

Event == {"start", "disconnected", "gotIp"} \union Net  \* n: connected to n

TypeOK ==
    /\ provisioning \in BOOLEAN
    /\ queue \in Seq(Event)
    /\ pc \in {"idle", "stopped", "offered", "started"}
    /\ willOffer \in Net \union {"ap", None}
    /\ apChannel \in Net \union {HomeChannel}
    /\ upstream \in Net \union {None}
    /\ proxy \in {"off", "starting", "on", "ended"}
    /\ dhcps \in BOOLEAN /\ bwTask \in BOOLEAN
    /\ offer \in Net \union {"ap", None}
    /\ net \in Net \union {None} /\ link \in Net \union {None}
    /\ sta \in {"idle", "connecting", "linked"}
    /\ sta = "linked" <=> link # None
    /\ dhcpc \in {"off", "waiting", "acked", "bound"}
    /\ dns \in Net \union {None}
    /\ dhcpc \in {"acked", "bound"} => dns # None
    /\ moves \in 0 .. MaxMoves
    /\ failed \subseteq {"connect", "memory", "dhcps"}

\* app_main is done: esp_wifi_start has posted STA_START, and the DHCP server
\* of the access point runs, with its defaults or, when unprovisioned, with
\* the captive portal as resolver, whether or not the proxy could be started.
Init ==
    /\ provisioning \in BOOLEAN
    /\ queue = <<"start">> /\ pc = "idle" /\ willOffer = None
    /\ apChannel = HomeChannel /\ upstream = None /\ bwTask = FALSE
    /\ failed \in IF provisioning THEN {{}, {"memory"}} ELSE {{}}
    /\ proxy = IF provisioning /\ failed = {} THEN "starting" ELSE "off"
    /\ dhcps = TRUE /\ offer = IF provisioning THEN "ap" ELSE None
    /\ net \in Net \union {None}
    /\ sta = "idle" /\ link = None /\ dhcpc = "off" /\ dns = None
    /\ moves = 0

-----------------------------------------------------------------------------
\* wifi_event_handler.

Handle(e) ==
    /\ pc = "idle" /\ queue # <<>> /\ Head(queue) = e
    /\ queue' = Tail(queue)
    /\ UNCHANGED provisioning

Fail(call) == failed' = failed \union {call}

\* esp_wifi_connect, whose result nobody looks at.
Connect ==
    /\ \/ sta' = "connecting" /\ UNCHANGED failed
       \/ Fail("connect") /\ UNCHANGED sta
    /\ UNCHANGED <<net, link, moves>>

\* Mutant: the mode is not looked at.
OnStartAlways ==
    /\ Handle("start")
    /\ Connect
    /\ UNCHANGED <<pc, willOffer, setVars, dhcpVars>>

OnStart ==
    /\ Handle("start")
    /\ IF provisioning THEN UNCHANGED <<linkVars, failed>> ELSE Connect
    /\ UNCHANGED <<pc, willOffer, setVars, dhcpVars>>

\* Mutant: the access point stays where it is.
OnConnectedKeepsChannel ==
    /\ \E n \in Net : Handle(n)
    /\ dhcpc' = "waiting"
    /\ UNCHANGED <<pc, willOffer, setVars, linkVars, dns, failed>>

\* The access point follows the uplink to its channel.  The netif's own
\* handler of this event starts the DHCP client.
OnConnected ==
    /\ \E n \in Net : Handle(n) /\ apChannel' = n
    /\ dhcpc' = "waiting"
    /\ UNCHANGED <<pc, willOffer, upstream, proxy, dhcps, offer, bwTask, linkVars, dns, failed>>

\* Mutant: the call to connect slipped into the branch that stops the task.
OnDisconnectedOnlyAfterUse ==
    /\ Handle("disconnected")
    /\ bwTask' = FALSE
    /\ IF bwTask THEN Connect ELSE UNCHANGED <<linkVars, failed>>
    /\ dhcpc' = "off"
    /\ UNCHANGED <<pc, willOffer, apChannel, upstream, proxy, dhcps, offer, dns>>

\* The bandwidth task is killed, wherever it is, and the driver asked to
\* connect again.  The netif's own handler stops the DHCP client.
OnDisconnected ==
    /\ Handle("disconnected")
    /\ bwTask' = FALSE
    /\ IF provisioning THEN UNCHANGED <<linkVars, failed>> ELSE Connect
    /\ dhcpc' = "off"
    /\ UNCHANGED <<pc, willOffer, apChannel, upstream, proxy, dhcps, offer, dns>>

\* dns_proxy_start, for which a task that exists runs: see module DnsProxy.
StartProxy ==
    IF proxy \in {"starting", "on"}
      THEN UNCHANGED <<proxy, failed>>
      ELSE \/ proxy' = "starting" /\ UNCHANGED failed
           \/ proxy' = "off" /\ Fail("memory")

\* Mutant: the result of dns_proxy_start is not looked at.
OnGotIpTrustsStart ==
    /\ Handle("gotIp")
    /\ upstream' = dns
    /\ StartProxy
    /\ willOffer' = "ap"
    /\ dhcps' = FALSE
    /\ pc' = "stopped"
    /\ UNCHANGED <<apChannel, offer, bwTask, linkVars, dhcpVars>>

\* Mutant: the upstream server is set once and for all.
OnGotIpOnce ==
    /\ Handle("gotIp")
    /\ upstream' = IF upstream = None THEN dns ELSE upstream
    /\ StartProxy
    /\ willOffer' = IF proxy' # "off" THEN "ap" ELSE upstream'
    /\ dhcps' = FALSE
    /\ pc' = "stopped"
    /\ UNCHANGED <<apChannel, offer, bwTask, linkVars, dhcpVars>>

\* GOT_IP up to the first sleep: the proxy gets its upstream server and is
\* started unless it runs, the DHCP server is stopped.  The resolver is read
\* from the netif, not from the event.
OnGotIp ==
    /\ Handle("gotIp")
    /\ upstream' = dns
    /\ StartProxy
    /\ willOffer' = IF proxy' # "off" THEN "ap" ELSE dns
    /\ dhcps' = FALSE
    /\ pc' = "stopped"
    /\ UNCHANGED <<apChannel, offer, bwTask, linkVars, dhcpVars>>

\* Up to the second sleep.
SetOffer ==
    /\ pc = "stopped" /\ pc' = "offered"
    /\ offer' = willOffer
    /\ UNCHANGED <<provisioning, queue, willOffer, apChannel, upstream, proxy, dhcps,
                   bwTask, linkVars, dhcpVars, failed>>

\* Up to the third.  That the DHCP server did not start is only logged.
StartDhcps ==
    /\ pc = "offered" /\ pc' = "started"
    /\ \/ dhcps' = TRUE /\ UNCHANGED failed
       \/ Fail("dhcps") /\ UNCHANGED dhcps
    /\ UNCHANGED <<provisioning, queue, willOffer, apChannel, upstream, proxy, offer,
                   bwTask, linkVars, dhcpVars>>

StartBandwidthTask ==
    /\ pc = "started" /\ pc' = "idle"
    /\ \/ bwTask' = TRUE /\ UNCHANGED failed
       \/ ~bwTask /\ Fail("memory") /\ UNCHANGED bwTask
    /\ UNCHANGED <<provisioning, queue, willOffer, apChannel, upstream, proxy, dhcps,
                   offer, linkVars, dhcpVars>>

EventLoop ==
    \/ OnStart \/ OnConnected \/ OnDisconnected \/ OnGotIp
    \/ SetOffer \/ StartDhcps \/ StartBandwidthTask

-----------------------------------------------------------------------------
\* The world outside.

\* The proxy's task opens its sockets, or ends without; nobody is told.
ProxySetup ==
    /\ proxy = "starting"
    /\ proxy' \in {"on", "ended"}
    /\ UNCHANGED <<provisioning, loopVars, apChannel, upstream, dhcps, offer, bwTask,
                   linkVars, dhcpVars, failed>>

Post(e) ==
    /\ queue' = Append(queue, e)
    /\ UNCHANGED <<provisioning, pc, willOffer, setVars, failed>>

Move == moves < MaxMoves /\ moves' = moves + 1

\* The router goes away, comes back, or changes its channel.
RouterMoves(n) ==
    /\ Move
    /\ n # net /\ net' = n
    /\ UNCHANGED <<provisioning, loopVars, setVars, sta, link, dhcpVars, failed>>

\* The driver ends an attempt, and does not start another by itself.
Associates ==
    /\ sta = "connecting" /\ net # None
    /\ sta' = "linked" /\ link' = net
    /\ Post(net)
    /\ UNCHANGED <<net, moves, dhcpVars>>

Fails ==
    /\ sta = "connecting"
    /\ IF net = None THEN UNCHANGED moves ELSE Move
    /\ sta' = "idle"
    /\ Post("disconnected")
    /\ UNCHANGED <<net, link, dhcpVars>>

\* The router is gone, or sends the station away.
LinkLost ==
    /\ sta = "linked"
    /\ IF link # net THEN UNCHANGED moves ELSE Move
    /\ sta' = "idle" /\ link' = None
    /\ Post("disconnected")
    /\ UNCHANGED <<net, dhcpVars>>

\* The router's DHCP server grants a lease ...
LeaseGranted ==
    /\ dhcpc = "waiting" /\ sta = "linked"
    /\ dhcpc' = "acked" /\ dns' = link
    /\ UNCHANGED <<provisioning, loopVars, setVars, linkVars, failed>>

\* ... and the client takes it, even if the link has been lost meanwhile, as
\* long as that event has not been handled.
LeaseTaken ==
    /\ dhcpc = "acked"
    /\ dhcpc' = "bound"
    /\ Post("gotIp")
    /\ UNCHANGED <<linkVars, dns>>

-----------------------------------------------------------------------------

Next ==
    \/ EventLoop \/ ProxySetup
    \/ \E n \in Net \union {None} : RouterMoves(n)
    \/ Associates \/ Fails \/ LinkLost \/ LeaseGranted \/ LeaseTaken

Spec == Init /\ [][Next]_vars

\* The event task runs and its sleeps end; the driver ends every attempt and
\* notices that its network is gone; a router that stays serves a lease.
FairSpec ==
    /\ Spec
    /\ WF_vars(EventLoop)
    /\ WF_vars(Associates \/ Fails) /\ WF_vars(net # link /\ LinkLost)
    /\ WF_vars(LeaseGranted) /\ WF_vars(LeaseTaken)

-----------------------------------------------------------------------------

Quiet == pc = "idle" /\ queue = <<>>
Reconnects(e) == e \in {"start", "disconnected"}

(* The station is never left alone: when the driver is idle an event is     *)
(* queued that makes the handler connect.  Nothing else in the firmware     *)
(* ever would ("-1 = retry forever", main.c:41), so that it holds until a   *)
(* call to connect fails, and no longer.                                    *)
NeverStranded ==
    ~provisioning /\ sta = "idle" /\ "connect" \notin failed =>
        \E i \in DOMAIN queue : Reconnects(queue[i])

(* Nor is the driver asked to connect while it is busy: there is one such   *)
(* event at most, and only when the driver is idle.                         *)
NeverTwice ==
    /\ \A i, j \in DOMAIN queue :
          Reconnects(queue[i]) /\ Reconnects(queue[j]) => i = j
    /\ \A i \in DOMAIN queue : Reconnects(queue[i]) => sta = "idle"

(* An unprovisioned device never leaves its own channel for an uplink.      *)
ProvisioningStaysHome ==
    provisioning => /\ sta = "idle" /\ apChannel = HomeChannel
                    /\ upstream = None

(* The clients of a repeater are never told of a server that is not there   *)
(* as far as the firmware knows: the DHCP server announces the device       *)
(* itself only with an upstream server to ask and after the proxy's task    *)
(* was created, and otherwise ("advertising upstream DNS", main.c:181) it   *)
(* announces the uplink's own resolver, and only while there is no proxy.   *)
(* This is as much as there is: the task may have ended without sockets     *)
(* after dns_proxy_start said ESP_OK, and an unprovisioned device announces *)
(* itself although it never has an upstream server.                         *)
OffersWhatWasStarted ==
    dhcps /\ ~provisioning =>
        IF offer = "ap" THEN proxy # "off" /\ upstream # None
                        ELSE proxy = "off" /\ offer \in {None, upstream}

\* The inductive invariant behind all these: the handler announces what it
\* has found out before its first sleep, with the DHCP server off until then.
UplinkInv ==
    /\ TypeOK
    /\ NeverTwice
    /\ NeverStranded
    /\ ProvisioningStaysHome
    /\ provisioning => /\ pc = "idle" /\ dhcpc = "off"
                       /\ \A i \in DOMAIN queue : Reconnects(queue[i])
    /\ OffersWhatWasStarted
    /\ dhcps => pc \in {"idle", "started"}
    /\ pc \in {"idle", "started"} => dhcps \/ "dhcps" \in failed
    /\ \A i \in DOMAIN queue : queue[i] = "gotIp" => dns # None
    /\ pc \in {"stopped", "offered"} =>
          /\ upstream # None
          /\ IF willOffer = "ap" THEN proxy # "off" ELSE proxy = "off" /\ willOffer = upstream
    /\ pc = "offered" => offer = willOffer

(* When no event is left, handler and driver agree: the access point is on  *)
(* the channel of the link (main.c:80), and once there is an address the    *)
(* proxy asks the resolver of the link, the DHCP server announces one, if   *)
(* it could be started, and the bandwidth task runs, if there was memory    *)
(* for it.  No event of an earlier link, handled late, has the last word.   *)
FollowsLink ==
    Quiet /\ sta = "linked" =>
        /\ apChannel = link
        /\ dhcpc = "bound" => /\ upstream = link
                              /\ dhcps \/ "dhcps" \in failed
                              /\ offer # None
                              /\ bwTask \/ "memory" \in failed

Settled == sta = "linked" /\ Quiet /\ dhcpc = "bound" /\ upstream = net /\ apChannel = net

(* The repeater finds its uplink again, whatever happened to it before, if  *)
(* no call to connect fails.                                                *)
UplinkRecovers ==
    ~provisioning /\ []("connect" \notin failed) =>
        (<>[](net = None) \/ <>[]Settled)

=============================================================================
