----------------------------- MODULE ApClients -----------------------------
(***************************************************************************)
(* ap_clients.c: the table of the addresses of the access point's clients. *)
(* The task of the event loop changes it on two kinds of events; the web   *)
(* server and the DNS proxy look clients up in it.  There is no lock: the  *)
(* firmware runs on one core, the event loop has the higher priority and   *)
(* its handlers do not wait, so that a handler is one step, but a lookup   *)
(* is not.                                                                 *)
(*                                                                         *)
(* Clients, Wi-Fi driver and DHCP server are external.  The driver posts   *)
(* that a client left; the DHCP server posts an address it has given, also *)
(* for a request that was received before the client left, and drops the   *)
(* event when the queue is full.                                           *)
(***************************************************************************)
EXTENDS Integers, Sequences, FiniteSets

CONSTANTS
    Mac, Ip,   \* clients and addresses
    NoMac, NoIp,  \* all bytes zero
    MaxConn,   \* ESP_WIFI_MAX_CONN_NUM
    MaxQueue   \* bound on the events in the queue

ASSUME ApClientsAssumption ==
    /\ NoMac \notin Mac /\ NoIp \notin Ip
    /\ MaxConn \in Nat \ {0} /\ MaxQueue \in Nat \ {0}

VARIABLES
    slot,     \* s_client_ips
    handlers, \* which handlers ap_clients_init has registered
    queue,    \* events not yet handled
    \* ap_clients_get, for one client of the driver's list
    pc,       \* "idle", "test" or "copy"
    who,      \* the client
    j,        \* the loop's index
    found,    \* its address, NoIp as long as has_ip is false
    quiet,    \* history: no event of this client was handled since the lookup
              \* began
    \* external
    joined,   \* the clients of the access point
    lease,    \* their addresses
    amiss,    \* history: clients of whom an event was lost or came late, or found
              \* no room when not calm, unless another was posted since
    calm      \* history: no client has been in amiss since the queue was last
              \* empty with none in it

readerVars == <<pc, who, j, found, quiet>>
netVars == <<joined, lease>>
vars == <<slot, handlers, queue, pc, who, j, found, quiet, joined, lease, amiss, calm>>

Slots == 0 .. MaxConn - 1
EmptySlot == [mac |-> NoMac, ip |-> NoIp]
Entry == [mac : Mac, ip : Ip] \union {EmptySlot}
Kinds == {"assigned", "left"}
Event == [kind : {"assigned"}, mac : Mac, ip : Ip] \union [kind : {"left"}, mac : Mac]

TypeOK ==
    /\ slot \in [Slots -> Entry]
    /\ handlers \subseteq Kinds
    /\ queue \in Seq(Event) /\ Len(queue) <= MaxQueue
    /\ pc \in {"idle", "test", "copy"} /\ who \in Mac \union {NoMac}
    /\ j \in Slots /\ found \in Ip \union {NoIp} /\ quiet \in BOOLEAN
    /\ joined \subseteq Mac /\ lease \in [Mac -> Ip \union {NoIp}]
    /\ amiss \subseteq Mac /\ calm \in BOOLEAN

\* The access point is up, ap_clients_init has cleared the table.
Init ==
    /\ slot = [i \in Slots |-> EmptySlot]
    /\ handlers = {} /\ queue = <<>>
    /\ pc = "idle" /\ who = NoMac /\ j = 0 /\ found = NoIp /\ quiet = FALSE
    /\ joined = {} /\ lease = [m \in Mac |-> NoIp]
    /\ amiss = {} /\ calm = TRUE

-----------------------------------------------------------------------------
\* ap_clients_init registers one handler after the other.

Register(kind) ==
    /\ kind \notin handlers
    /\ kind = "left" => "assigned" \in handlers
    /\ handlers' = handlers \union {kind}
    /\ UNCHANGED <<slot, queue, readerVars, netVars, amiss>>

-----------------------------------------------------------------------------
\* The handlers.

SlotsOf(m) == {i \in Slots : slot[i].mac = m}
First(S) == CHOOSE i \in S : \A k \in S : i <= k

Handle(e) ==
    /\ queue # <<>> /\ e = Head(queue) /\ queue' = Tail(queue)
    /\ quiet' = (quiet /\ e.mac # who)
    /\ UNCHANGED <<handlers, pc, who, j, found, netVars>>

\* Mutant: the first free slot is taken, without a look for an older entry.
TargetIsFree(m) == {i \in Slots : slot[i].ip = NoIp}

\* Mutant: the last slot is never given to a new client.
TargetStopsShort(m) ==
    IF SlotsOf(m) # {} THEN SlotsOf(m)
    ELSE {i \in Slots : i + 1 < MaxConn /\ slot[i].ip = NoIp}

\* The slot with the client's MAC if there is one, else the first that is free;
\* of the slots returned the first is meant, and there may be none.
Target(m) ==
    IF SlotsOf(m) # {} THEN SlotsOf(m) ELSE {i \in Slots : slot[i].ip = NoIp}

\* No client may find all slots taken, unless an event of some client was lost
\* or late and others are still queued that were posted before all was well again.
Denied(m) == IF calm THEN amiss ELSE amiss \union {m}

\* Mutant: when no slot is free the first one is taken.
AssignedOverwrites(e) ==
    /\ e.kind = "assigned" /\ "assigned" \in handlers
    /\ Handle(e)
    /\ slot' = [slot EXCEPT ![IF Target(e.mac) = {} THEN 0 ELSE First(Target(e.mac))] =
                   [mac |-> e.mac, ip |-> e.ip]]
    /\ UNCHANGED amiss

\* Mutant: an entry that exists is not updated.
AssignedOnce(e) ==
    /\ e.kind = "assigned" /\ "assigned" \in handlers
    /\ Handle(e)
    /\ IF Target(e.mac) = {}
         THEN amiss' = Denied(e.mac) /\ UNCHANGED slot
         ELSE /\ slot' = IF SlotsOf(e.mac) # {} THEN slot
                         ELSE [slot EXCEPT ![First(Target(e.mac))] = [mac |-> e.mac, ip |-> e.ip]]
              /\ UNCHANGED amiss

\* handle_ap_staipassigned
Assigned(e) ==
    /\ e.kind = "assigned" /\ "assigned" \in handlers
    /\ Handle(e)
    /\ IF Target(e.mac) = {}
         THEN amiss' = Denied(e.mac) /\ UNCHANGED slot
         ELSE /\ slot' = [slot EXCEPT ![First(Target(e.mac))] = [mac |-> e.mac, ip |-> e.ip]]
              /\ UNCHANGED amiss

\* handle_ap_stadisconnected
Disconnected(e) ==
    /\ e.kind = "left" /\ "left" \in handlers
    /\ Handle(e)
    /\ slot' = IF SlotsOf(e.mac) = {} THEN slot
               ELSE [slot EXCEPT ![First(SlotsOf(e.mac))] = EmptySlot]
    /\ UNCHANGED amiss

\* An event for which no handler is registered yet.
Missed(e) ==
    /\ e.kind \notin handlers
    /\ Handle(e)
    /\ amiss' = amiss \union {e.mac}
    /\ UNCHANGED slot

-----------------------------------------------------------------------------
\* ap_clients_get, for one of the clients.

Lookup(m) ==
    /\ pc = "idle" /\ pc' = "test"
    /\ who' = m /\ j' = 0 /\ found' = NoIp /\ quiet' = TRUE
    /\ UNCHANGED <<slot, handlers, queue, netVars, amiss>>

\* Mutant: the last slot is not looked at.
TestStopsShort ==
    /\ pc = "test"
    /\ IF slot[j].ip # NoIp /\ slot[j].mac = who THEN pc' = "copy" /\ UNCHANGED j
       ELSE IF j + 2 < MaxConn THEN j' = j + 1 /\ UNCHANGED pc
       ELSE pc' = "idle" /\ UNCHANGED j
    /\ UNCHANGED <<slot, handlers, queue, who, found, quiet, netVars, amiss>>

Test ==
    /\ pc = "test"
    /\ IF slot[j].ip # NoIp /\ slot[j].mac = who THEN pc' = "copy" /\ UNCHANGED j
       ELSE IF j + 1 < MaxConn THEN j' = j + 1 /\ UNCHANGED pc
       ELSE pc' = "idle" /\ UNCHANGED j
    /\ UNCHANGED <<slot, handlers, queue, who, found, quiet, netVars, amiss>>

\* The address is read again.
Copy ==
    /\ pc = "copy" /\ pc' = "idle"
    /\ found' = slot[j].ip
    /\ UNCHANGED <<slot, handlers, queue, who, j, quiet, netVars, amiss>>

-----------------------------------------------------------------------------
\* The world outside.

HasRoom == Len(queue) < MaxQueue
Post(e) == queue' = Append(queue, e)

\* The driver lets no more than MaxConn clients in.
Joins(m) ==
    /\ m \notin joined /\ Cardinality(joined) < MaxConn
    /\ joined' = joined \union {m}
    /\ UNCHANGED <<slot, handlers, queue, readerVars, lease, amiss>>

Leaves(m) ==
    /\ m \in joined /\ HasRoom
    /\ joined' = joined \ {m}
    /\ lease' = [lease EXCEPT ![m] = NoIp]
    /\ Post([kind |-> "left", mac |-> m])
    /\ amiss' = amiss \ {m}
    /\ UNCHANGED <<slot, handlers, readerVars>>

\* The DHCP server gives a client an address that no other has.
GivesLease(m, a) ==
    /\ m \in joined /\ \A n \in Mac : lease[n] = a => n = m
    /\ lease' = [lease EXCEPT ![m] = a]
    /\ IF HasRoom
         THEN Post([kind |-> "assigned", mac |-> m, ip |-> a]) /\ amiss' = amiss \ {m}
         ELSE amiss' = amiss \union {m} /\ UNCHANGED queue
    /\ UNCHANGED <<slot, handlers, readerVars, joined>>

\* It answers a client that has left meanwhile.
GivesLeaseLate(m, a) ==
    /\ m \notin joined /\ HasRoom
    /\ Post([kind |-> "assigned", mac |-> m, ip |-> a])
    /\ amiss' = amiss \union {m}
    /\ UNCHANGED <<slot, handlers, readerVars, netVars>>

-----------------------------------------------------------------------------

Step ==
    \/ \E kind \in Kinds : Register(kind)
    \/ \E e \in Event : Assigned(e) \/ Disconnected(e) \/ Missed(e)
    \/ \E m \in Mac : Lookup(m) \/ Joins(m) \/ Leaves(m)
    \/ Test \/ Copy
    \/ \E m \in Mac, a \in Ip : GivesLease(m, a) \/ GivesLeaseLate(m, a)

Next == Step /\ calm' = (amiss' = {} /\ (calm \/ queue' = <<>>))

Spec == Init /\ [][Next]_vars

-----------------------------------------------------------------------------

\* The inductive invariant: a client has one slot at most, which is how the
\* handlers and the lookup can stop at the first they find.
TableInv ==
    /\ TypeOK
    /\ \A i, k \in Slots : slot[i].mac = slot[k].mac /\ slot[i] # EmptySlot => i = k

Known(m) == IF SlotsOf(m) = {} THEN NoIp ELSE slot[First(SlotsOf(m))].ip

(* The slots are a map from clients to addresses that changes at an event   *)
(* only, and then as that event says: a client given an address is entered  *)
(* under it if it is listed or fewer than MaxConn are, and only then, and   *)
(* it is forgotten when it left, and only then.                             *)
Book == INSTANCE AddressBook WITH book <- [m \in Mac |-> Known(m)]
ImplementsBook == Book!Spec

(* When all events have been handled the table says what the DHCP server    *)
(* does, for every client none of whose events got lost or came late, and   *)
(* that was not kept out by the entry of one whose events did, or by what   *)
(* such events were followed by in the queue.  In particular a lost event   *)
(* does no harm beyond the client's next one, and as long as no event is    *)
(* amiss every client finds a free slot.                                    *)
KnowsItsClients ==
    queue = <<>> => \A m \in Mac \ amiss : Known(m) = lease[m]

(* A lookup finds what the table holds of its client, whatever events of    *)
(* other clients clear and fill the slots while it goes through them.  Only *)
(* events of this very client can make it report no address or, with one    *)
(* between the test of its slot and the copy of the address, another's.     *)
LookupIsRight == pc = "idle" /\ quiet => found = Known(who)

=============================================================================
