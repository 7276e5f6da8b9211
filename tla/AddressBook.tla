---------------------------- MODULE AddressBook ----------------------------
(***************************************************************************)
(* What the table of ap_clients.c promises the dashboard and the DNS log:  *)
(* a map from the access point's clients to the addresses they were given  *)
(* last.  It hears the events of driver and DHCP server in their order,    *)
(* and each says what becomes of the map: a client is entered whenever     *)
(* there is room, and stays until the event that it left.                  *)
(***************************************************************************)
EXTENDS Integers, Sequences, FiniteSets

CONSTANTS Mac, Ip, NoIp, MaxConn

VARIABLES
    queue,     \* events not yet heard
    handlers,  \* the kinds of events that are listened to
    book       \* the map

vars == <<queue, handlers, book>>

Kinds == {"assigned", "left"}
Event == [kind : {"assigned"}, mac : Mac, ip : Ip] \union [kind : {"left"}, mac : Mac]

Listed == {m \in Mac : book[m] # NoIp}
HasPlace(m) == m \in Listed \/ Cardinality(Listed) < MaxConn

Init == queue = <<>> /\ handlers = {} /\ book = [m \in Mac |-> NoIp]

Post(e) == queue' = Append(queue, e) /\ UNCHANGED <<handlers, book>>

Listen(kind) == handlers' = handlers \union {kind} /\ UNCHANGED <<queue, book>>

Hear(e) ==
    /\ queue # <<>> /\ e = Head(queue)
    /\ queue' = Tail(queue)
    /\ UNCHANGED handlers

\* Nobody listens yet.
Ignore(e) == e.kind \notin handlers /\ Hear(e) /\ UNCHANGED book

\* The client is listed, or there is room to list it ...
Learn(e) ==
    /\ e.kind = "assigned" /\ e.kind \in handlers
    /\ Hear(e)
    /\ HasPlace(e.mac)
    /\ book' = [book EXCEPT ![e.mac] = e.ip]

\* ... or else the map stays as it is.
Refuse(e) ==
    /\ e.kind = "assigned" /\ e.kind \in handlers
    /\ Hear(e)
    /\ ~HasPlace(e.mac)
    /\ UNCHANGED book

Forget(e) ==
    /\ e.kind = "left" /\ e.kind \in handlers
    /\ Hear(e)
    /\ book' = [book EXCEPT ![e.mac] = NoIp]

Next ==
    \/ \E e \in Event : Post(e) \/ Ignore(e) \/ Learn(e) \/ Refuse(e) \/ Forget(e)
    \/ \E kind \in Kinds : Listen(kind)

Spec == Init /\ [][Next]_vars

=============================================================================
