-------------------------- MODULE ApClientsProofs --------------------------
(***************************************************************************)
(* Proofs about ApClients, for any number of clients, addresses and slots  *)
(* and any length of the queue.                                            *)
(***************************************************************************)
EXTENDS ApClients, FiniteSetTheorems, WellFoundedInduction, TLAPS

(* The loops of the handlers stop at a slot of the kind they look for.      *)
LEMMA FirstIsOne ==
  ASSUME NEW S \in SUBSET Slots, S # {}
  PROVE  First(S) \in S
<1>1. S \subseteq Nat
  BY ApClientsAssumption DEF Slots
<1>2. PICK i \in S : \A k \in S : ~(<<k, i>> \in OpToRel(<, Nat))
  BY <1>1, NatLessThanWellFounded, WFMin
<1>3. \A k \in S : ~(k < i)
  BY <1>1, <1>2 DEF OpToRel
<1>4. \A k \in S : i <= k
  BY <1>1, <1>3
<1> QED
  BY <1>4 DEF First

LEMMA FirstOfOne ==
  ASSUME NEW i \in Slots
  PROVE  First({i}) = i
  BY FirstIsOne

(* An assigned event names a client and an address.                         *)
LEMMA EventFields ==
  ASSUME NEW e \in Event
  PROVE  /\ e.mac \in Mac
         /\ e.kind = "assigned" => e.ip \in Ip
  BY DEF Event

-----------------------------------------------------------------------------

(* The table is empty at first.                                             *)
LEMMA InitTableInv == Init => TableInv
<1> SUFFICES ASSUME Init PROVE TableInv
  OBVIOUS
<1>1. slot \in [Slots -> Entry] /\ \A i \in Slots : slot[i] = EmptySlot
  BY DEF Init, Entry
<1>2. queue \in Seq(Event) /\ Len(queue) <= MaxQueue
  BY ApClientsAssumption DEF Init
<1>3. 0 \in Slots
  BY ApClientsAssumption DEF Slots
<1>4. TypeOK
  BY <1>1, <1>2, <1>3 DEF Init, TypeOK
<1> QED
  BY <1>1, <1>4 DEF TableInv

(* Handling an event and posting one leave everything else well-typed.      *)
LEMMA HandleType ==
  ASSUME TypeOK, NEW e \in Event, Handle(e), slot' \in [Slots -> Entry], amiss' \subseteq Mac,
         calm' \in BOOLEAN
  PROVE  TypeOK'
<1>1. Tail(queue) \in Seq(Event) /\ Len(Tail(queue)) <= MaxQueue
  BY ApClientsAssumption DEF TypeOK, Handle
<1> QED
  BY <1>1 DEF TypeOK, Handle, netVars

LEMMA PostType ==
  ASSUME TypeOK, NEW e \in Event, HasRoom, Post(e)
  PROVE  queue' \in Seq(Event) /\ Len(queue') <= MaxQueue
<1>1. queue \in Seq(Event) /\ Len(queue) \in Nat /\ Len(queue) < MaxQueue
  BY DEF TypeOK, HasRoom
<1>2. Append(queue, e) \in Seq(Event) /\ Len(Append(queue, e)) = Len(queue) + 1
  BY <1>1
<1> QED
  BY <1>1, <1>2, ApClientsAssumption DEF Post

(* Where an assigned address goes: to the slot of its client, or to an empty *)
(* one when the client has none.                                            *)
LEMMA TargetIs ==
  ASSUME TableInv, NEW m \in Mac, Target(m) # {}
  PROVE  /\ First(Target(m)) \in Slots
         /\ \/ slot[First(Target(m))].mac = m
            \/ SlotsOf(m) = {} /\ slot[First(Target(m))] = EmptySlot
<1>1. Target(m) \subseteq Slots
  BY DEF Target, SlotsOf
<1>2. First(Target(m)) \in Target(m)
  BY <1>1, FirstIsOne
<1>3. ASSUME NEW i \in Slots, slot[i].ip = NoIp PROVE slot[i] = EmptySlot
  BY <1>3, ApClientsAssumption DEF TableInv, TypeOK, Entry
<1> QED
  BY <1>1, <1>2, <1>3 DEF Target, SlotsOf

(* Writing a client's entry there.                                          *)
LEMMA AssignedKeeps ==
  ASSUME TableInv, NEW e \in Event, Assigned(e), calm' \in BOOLEAN
  PROVE  TableInv'
<1>1. e.mac \in Mac /\ e.ip \in Ip
  BY EventFields DEF Assigned
<1>2. CASE Target(e.mac) = {}
  <2>1. slot' = slot /\ amiss' \subseteq Mac /\ Handle(e)
    BY <1>1, <1>2 DEF Assigned, Denied, TableInv, TypeOK
  <2>2. TypeOK'
    BY <2>1, HandleType DEF TableInv, TypeOK
  <2> QED
    BY <2>1, <2>2 DEF TableInv
<1>3. CASE Target(e.mac) # {}
  <2> DEFINE t == First(Target(e.mac))
  <2>1. t \in Slots /\ (slot[t].mac = e.mac \/ (SlotsOf(e.mac) = {} /\ slot[t] = EmptySlot))
    BY <1>1, <1>3, TargetIs
  <2>2. slot' = [slot EXCEPT ![t] = [mac |-> e.mac, ip |-> e.ip]] /\ amiss' = amiss /\ Handle(e)
    BY <1>3 DEF Assigned
  <2> HIDE DEF t
  <2>3. slot' \in [Slots -> Entry]
    BY <1>1, <2>1, <2>2 DEF TableInv, TypeOK, Entry
  <2>4. TypeOK'
    BY <2>2, <2>3, HandleType DEF TableInv, TypeOK
  <2>5. slot'[t].mac = e.mac /\ \A k \in Slots : k # t => slot'[k] = slot[k]
    BY <2>1, <2>2 DEF TableInv, TypeOK
  <2>6. \A k \in Slots : slot[k].mac = e.mac => k = t
    <3>1. e.mac # NoMac /\ EmptySlot.mac = NoMac
      BY <1>1, ApClientsAssumption DEF EmptySlot
    <3> QED
      BY <2>1, <3>1 DEF TableInv, SlotsOf
  <2>7. \A i, k \in Slots : slot'[i].mac = slot'[k].mac /\ slot'[i] # EmptySlot => i = k
    BY <2>5, <2>6 DEF TableInv
  <2> QED
    BY <2>4, <2>7 DEF TableInv
<1> QED
  BY <1>2, <1>3

(* Clearing the slot of a client that left.                                 *)
LEMMA DisconnectedKeeps ==
  ASSUME TableInv, NEW e \in Event, Disconnected(e), calm' \in BOOLEAN
  PROVE  TableInv'
<1>1. Handle(e) /\ amiss' = amiss
  BY DEF Disconnected
<1>2. CASE SlotsOf(e.mac) = {}
  <2>1. slot' = slot
    BY <1>2 DEF Disconnected
  <2>2. TypeOK'
    BY <1>1, <2>1, HandleType DEF TableInv, TypeOK
  <2> QED
    BY <2>1, <2>2 DEF TableInv
<1>3. CASE SlotsOf(e.mac) # {}
  <2> DEFINE t == First(SlotsOf(e.mac))
  <2>1. t \in Slots
    BY <1>3, FirstIsOne DEF SlotsOf
  <2>2. slot' = [slot EXCEPT ![t] = EmptySlot]
    BY <1>3 DEF Disconnected
  <2> HIDE DEF t
  <2>3. slot' \in [Slots -> Entry]
    BY <2>1, <2>2 DEF TableInv, TypeOK, Entry
  <2>4. TypeOK'
    BY <1>1, <2>3, HandleType DEF TableInv, TypeOK
  <2>5. slot'[t] = EmptySlot /\ \A k \in Slots : k # t => slot'[k] = slot[k]
    BY <2>1, <2>2 DEF TableInv, TypeOK
  <2>6. \A i \in Slots : slot[i] \in Entry /\ (slot[i].mac = NoMac => slot[i] = EmptySlot)
    BY ApClientsAssumption DEF TableInv, TypeOK, Entry
  <2>7. \A i, k \in Slots : slot'[i].mac = slot'[k].mac /\ slot'[i] # EmptySlot => i = k
    <3>1. EmptySlot.mac = NoMac
      BY DEF EmptySlot
    <3> QED
      BY <2>5, <2>6, <3>1 DEF TableInv
  <2> QED
    BY <2>4, <2>7 DEF TableInv
<1> QED
  BY <1>2, <1>3

(* Every step keeps the invariant.                                          *)
LEMMA StepTableInv == TableInv /\ [Next]_vars => TableInv'
<1> SUFFICES ASSUME TableInv, [Next]_vars PROVE TableInv'
  OBVIOUS
<1>1. TypeOK /\ (slot' = slot /\ TypeOK' => TableInv')
  BY DEF TableInv
<1>0. calm' \in BOOLEAN
  BY <1>1, Zenon DEF Next, vars, TypeOK
<1>2. ASSUME NEW kind \in Kinds, Register(kind) PROVE TableInv'
  <2>1. TypeOK'
    BY <1>0, <1>1, <1>2 DEF Register, TypeOK, readerVars, netVars
  <2> QED BY <1>1, <1>2, <2>1 DEF Register
<1>3. ASSUME NEW e \in Event, Missed(e) PROVE TableInv'
  <2>1. slot' \in [Slots -> Entry] /\ amiss' \subseteq Mac /\ Handle(e)
    BY <1>1, <1>3, EventFields DEF Missed, TypeOK
  <2>2. TypeOK'
    BY <1>0, <1>1, <2>1, HandleType
  <2> QED BY <1>1, <1>3, <2>2 DEF Missed
<1>4. ASSUME NEW m \in Mac, Lookup(m) PROVE TableInv'
  <2>1. 0 \in Slots
    BY ApClientsAssumption DEF Slots
  <2>2. TypeOK'
    BY <1>0, <1>1, <1>4, <2>1 DEF Lookup, TypeOK, netVars
  <2> QED BY <1>1, <1>4, <2>2 DEF Lookup
<1>5. CASE Test
  <2>1. j + 1 < MaxConn => j + 1 \in Slots
    BY <1>1, ApClientsAssumption DEF TypeOK, Slots
  <2>2. j' \in Slots /\ pc' \in {"idle", "test", "copy"}
    BY <1>1, <1>5, <2>1 DEF Test, TypeOK
  <2>3. TypeOK'
    BY <1>0, <1>1, <1>5, <2>2 DEF Test, TypeOK, netVars
  <2> QED BY <1>1, <1>5, <2>3 DEF Test
<1>6. CASE Copy
  <2>1. slot[j].ip \in Ip \union {NoIp}
    BY <1>1 DEF TypeOK, Entry, EmptySlot
  <2>2. TypeOK'
    BY <1>0, <1>1, <1>6, <2>1 DEF Copy, TypeOK, netVars
  <2> QED BY <1>1, <1>6, <2>2 DEF Copy
<1>7. ASSUME NEW m \in Mac, Joins(m) PROVE TableInv'
  <2>1. TypeOK'
    BY <1>0, <1>1, <1>7 DEF Joins, TypeOK, readerVars
  <2> QED BY <1>1, <1>7, <2>1 DEF Joins
<1>8. ASSUME NEW m \in Mac, Leaves(m) PROVE TableInv'
  <2>1. [kind |-> "left", mac |-> m] \in Event
    BY DEF Event
  <2>2. queue' \in Seq(Event) /\ Len(queue') <= MaxQueue
    BY <1>1, <1>8, <2>1, PostType DEF Leaves
  <2>3. TypeOK'
    BY <1>0, <1>1, <1>8, <2>2 DEF Leaves, TypeOK, readerVars
  <2> QED BY <1>1, <1>8, <2>3 DEF Leaves
<1>9. ASSUME NEW m \in Mac, NEW a \in Ip, GivesLease(m, a) \/ GivesLeaseLate(m, a)
      PROVE  TableInv'
  <2>1. [kind |-> "assigned", mac |-> m, ip |-> a] \in Event
    BY DEF Event
  <2>2. CASE HasRoom /\ Post([kind |-> "assigned", mac |-> m, ip |-> a])
    <3>1. queue' \in Seq(Event) /\ Len(queue') <= MaxQueue
      BY <1>1, <2>1, <2>2, PostType
    <3>2. lease' \in [Mac -> Ip \union {NoIp}] /\ amiss' \subseteq Mac /\ joined' \subseteq Mac
      BY <1>1, <1>9, <2>2 DEF GivesLease, GivesLeaseLate, TypeOK, netVars
    <3>3. slot' = slot /\ handlers' = handlers /\ UNCHANGED readerVars
      BY <1>9 DEF GivesLease, GivesLeaseLate
    <3>4. TypeOK'
      BY <1>0, <1>1, <3>1, <3>2, <3>3 DEF TypeOK, readerVars
    <3> QED BY <1>1, <3>3, <3>4
  <2>3. CASE GivesLease(m, a) /\ ~HasRoom
    <3>1. TypeOK'
      BY <1>0, <1>1, <2>3 DEF GivesLease, TypeOK, readerVars
    <3> QED BY <1>1, <2>3, <3>1 DEF GivesLease
  <2> QED BY <1>9, <2>2, <2>3 DEF GivesLease, GivesLeaseLate
<1>10. CASE UNCHANGED vars
  <2>1. TypeOK'
    BY <1>0, <1>1, <1>10 DEF vars, TypeOK, readerVars, netVars
  <2> QED BY <1>1, <1>10, <2>1 DEF vars
<1> QED
  BY AssignedKeeps, DisconnectedKeeps, <1>0, <1>2, <1>3, <1>4, <1>5, <1>6, <1>7, <1>8, <1>9, <1>10 DEF Next, Step

(* A client never has two slots, whatever events are lost, late, or handled *)
(* before both handlers are registered.                                     *)
THEOREM TableInvariant == Spec => []TableInv
  BY InitTableInv, StepTableInv, PTL DEF Spec

-----------------------------------------------------------------------------

(* The address a client is listed under is that of its slot.                *)
LEMMA KnownBySlot ==
  ASSUME TableInv, NEW m \in Mac, NEW i \in Slots, slot[i].mac = m
  PROVE  SlotsOf(m) = {i} /\ Known(m) = slot[i].ip /\ Known(m) \in Ip
<1>1. slot[i] # EmptySlot
  BY ApClientsAssumption DEF EmptySlot
<1>2. SlotsOf(m) = {i}
  BY <1>1 DEF TableInv, SlotsOf
<1>3. slot[i].ip \in Ip
  BY <1>1 DEF TableInv, TypeOK, Entry
<1> QED
  BY <1>2, <1>3, FirstOfOne DEF Known

(* With a free slot fewer than MaxConn clients are listed.                  *)
LEMMA FreeSlotIsRoom ==
  ASSUME TableInv, NEW i \in Slots, slot[i] = EmptySlot
  PROVE  Cardinality({m \in Mac : Known(m) # NoIp}) < MaxConn
<1> DEFINE Listed == {m \in Mac : Known(m) # NoIp}
           Others == Slots \ {i}
           f == [m \in Listed |-> First(SlotsOf(m))]
<1>1. ASSUME NEW m \in Listed
      PROVE  First(SlotsOf(m)) \in Others /\ slot[First(SlotsOf(m))].mac = m
  <2>1. SlotsOf(m) # {} /\ SlotsOf(m) \subseteq Slots
    BY DEF Known, SlotsOf
  <2>2. First(SlotsOf(m)) \in SlotsOf(m)
    BY <2>1, FirstIsOne
  <2>3. m # NoMac /\ slot[i].mac = NoMac
    BY ApClientsAssumption DEF EmptySlot
  <2> QED
    BY <2>1, <2>2, <2>3 DEF SlotsOf
<1>2. f \in Injection(Listed, Others)
  BY <1>1 DEF Injection, IsInjective
<1>3. IsFiniteSet(Slots) /\ Cardinality(Slots) = MaxConn
  BY FS_Interval, ApClientsAssumption DEF Slots
<1>4. IsFiniteSet(Others) /\ Cardinality(Others) = MaxConn - 1
  BY <1>3, FS_RemoveElement
<1>5. IsFiniteSet(Listed) /\ Cardinality(Listed) <= MaxConn - 1
  BY <1>2, <1>4, FS_Injection
<1>6. Cardinality(Listed) \in Nat
  BY <1>5, FS_CardinalityType
<1> QED
  BY <1>5, <1>6, ApClientsAssumption

(* Without one, and without one of its own, there is no place for a client: *)
(* as many others are listed as there are slots.                            *)
LEMMA FullIsNoRoom ==
  ASSUME TableInv, NEW m \in Mac, Target(m) = {}
  PROVE  Known(m) = NoIp /\ ~(Cardinality({n \in Mac : Known(n) # NoIp}) < MaxConn)
<1> DEFINE Listed == {n \in Mac : Known(n) # NoIp}
           f == [n \in Listed |-> First(SlotsOf(n))]
           g == [i \in Slots |-> slot[i].mac]
<1>1. SlotsOf(m) = {} /\ \A i \in Slots : slot[i].ip # NoIp
  BY DEF Target
<1>2. Known(m) = NoIp
  BY <1>1 DEF Known
<1>3. IsFiniteSet(Slots) /\ Cardinality(Slots) = MaxConn
  BY FS_Interval, ApClientsAssumption DEF Slots
<1>4. ASSUME NEW n \in Listed
      PROVE  First(SlotsOf(n)) \in Slots /\ slot[First(SlotsOf(n))].mac = n
  <2>1. SlotsOf(n) # {} /\ SlotsOf(n) \subseteq Slots
    BY DEF Known, SlotsOf
  <2>2. First(SlotsOf(n)) \in SlotsOf(n)
    BY <2>1, FirstIsOne
  <2> QED
    BY <2>1, <2>2 DEF SlotsOf
<1>5. f \in Injection(Listed, Slots)
  BY <1>4 DEF Injection, IsInjective
<1>6. IsFiniteSet(Listed) /\ Cardinality(Listed) \in Nat
  BY <1>3, <1>5, FS_Injection, FS_CardinalityType
<1>7. ASSUME NEW i \in Slots PROVE slot[i].mac \in Listed /\ slot[i] # EmptySlot
  <2>1. slot[i] # EmptySlot /\ slot[i].mac \in Mac
    BY <1>1 DEF TableInv, TypeOK, Entry, EmptySlot
  <2>2. Known(slot[i].mac) \in Ip
    BY <2>1, KnownBySlot
  <2> QED
    BY <2>1, <2>2, ApClientsAssumption
<1>8. g \in Injection(Slots, Listed)
  BY <1>7 DEF TableInv, Injection, IsInjective
<1>9. MaxConn <= Cardinality(Listed)
  BY <1>3, <1>6, <1>8, FS_Injection
<1> QED
  BY <1>2, <1>6, <1>9, ApClientsAssumption

LEMMA InitRefines == Init => Book!Init
<1> SUFFICES ASSUME Init PROVE Book!Init
  OBVIOUS
<1>1. \A m \in Mac : SlotsOf(m) = {}
  BY ApClientsAssumption DEF Init, EmptySlot, SlotsOf
<1>2. \A m \in Mac : Known(m) = NoIp
  BY <1>1 DEF Known
<1> QED
  BY <1>2 DEF Init, Book!Init

(* After an assigned event that found a slot the client is known by the new *)
(* address, and every other as before.                                      *)
LEMMA AssignedTells ==
  ASSUME TableInv, TableInv', NEW e \in Event, Assigned(e), Target(e.mac) # {}
  PROVE  /\ Known(e.mac)' = e.ip
         /\ \A m \in Mac : m # e.mac => Known(m)' = Known(m)
<1> DEFINE t == First(Target(e.mac))
<1>1. e.mac \in Mac /\ e.ip \in Ip
  BY EventFields DEF Assigned
<1>2. slot' = [slot EXCEPT ![t] = [mac |-> e.mac, ip |-> e.ip]]
  BY DEF Assigned
<1>3. t \in Slots /\ (slot[t].mac = e.mac \/ (SlotsOf(e.mac) = {} /\ slot[t] = EmptySlot))
  BY <1>1, TargetIs
<1> HIDE DEF t
<1>4. slot'[t] = [mac |-> e.mac, ip |-> e.ip] /\ \A k \in Slots : k # t => slot'[k] = slot[k]
  BY <1>2, <1>3 DEF TableInv, TypeOK
<1>5. Known(e.mac)' = e.ip
  <2>1. SlotsOf(e.mac)' = {t}
    <3>1. slot'[t] # EmptySlot /\ slot'[t].mac = e.mac
      BY <1>1, <1>4, ApClientsAssumption DEF EmptySlot
    <3> QED
      BY <1>3, <3>1 DEF TableInv, SlotsOf
  <2> QED
    BY <1>3, <1>4, <2>1, FirstOfOne DEF Known
<1>6. ASSUME NEW m \in Mac, m # e.mac PROVE Known(m)' = Known(m)
  <2>1. slot[t].mac # m
    BY <1>3, <1>6, ApClientsAssumption DEF EmptySlot
  <2>2. slot'[t].mac # m
    BY <1>4, <1>6
  <2>3. SlotsOf(m)' = SlotsOf(m)
    BY <1>4, <2>1, <2>2 DEF SlotsOf
  <2>4. CASE SlotsOf(m) = {}
    BY <2>3, <2>4 DEF Known
  <2>5. CASE SlotsOf(m) # {}
    <3>1. First(SlotsOf(m)) \in SlotsOf(m)
      BY <2>5, FirstIsOne DEF SlotsOf
    <3>2. slot'[First(SlotsOf(m))] = slot[First(SlotsOf(m))]
      BY <1>4, <2>1, <3>1 DEF SlotsOf
    <3> QED
      BY <2>3, <3>2 DEF Known
  <2> QED
    BY <2>4, <2>5
<1> QED
  BY <1>5, <1>6

(* After the event that it left a client is not known any more, and every   *)
(* other as before.                                                         *)
LEMMA DisconnectedTells ==
  ASSUME TableInv, TableInv', NEW e \in Event, Disconnected(e)
  PROVE  /\ Known(e.mac)' = NoIp
         /\ \A m \in Mac : m # e.mac => Known(m)' = Known(m)
<1>1. CASE SlotsOf(e.mac) = {}
  <2>1. slot' = slot
    BY <1>1 DEF Disconnected
  <2> QED
    BY <1>1, <2>1 DEF Known, SlotsOf
<1>2. CASE SlotsOf(e.mac) # {}
  <2> DEFINE t == First(SlotsOf(e.mac))
  <2>1. e.mac \in Mac
    BY EventFields
  <2>2. slot' = [slot EXCEPT ![t] = EmptySlot]
    BY <1>2 DEF Disconnected
  <2>3. t \in Slots /\ slot[t].mac = e.mac
    BY <1>2, FirstIsOne DEF SlotsOf
  <2> HIDE DEF t
  <2>4. slot'[t].mac = NoMac /\ \A k \in Slots : k # t => slot'[k] = slot[k]
    BY <2>2, <2>3 DEF TableInv, TypeOK, EmptySlot
  <2>5. SlotsOf(e.mac) = {t}
    BY <2>1, <2>3, KnownBySlot
  <2>6. SlotsOf(e.mac)' = {}
    BY <2>1, <2>4, <2>5, ApClientsAssumption DEF SlotsOf
  <2>7. Known(e.mac)' = NoIp
    BY <2>6 DEF Known
  <2>8. ASSUME NEW m \in Mac, m # e.mac PROVE Known(m)' = Known(m)
    <3>1. SlotsOf(m)' = SlotsOf(m) /\ t \notin SlotsOf(m)
      BY <2>3, <2>4, <2>8, ApClientsAssumption DEF SlotsOf
    <3>2. CASE SlotsOf(m) = {}
      BY <3>1, <3>2 DEF Known
    <3>3. CASE SlotsOf(m) # {}
      <4>1. First(SlotsOf(m)) \in SlotsOf(m)
        BY <3>3, FirstIsOne DEF SlotsOf
      <4>2. slot'[First(SlotsOf(m))] = slot[First(SlotsOf(m))]
        BY <2>4, <3>1, <4>1 DEF SlotsOf
      <4> QED
        BY <3>1, <4>2 DEF Known
    <3> QED
      BY <3>2, <3>3
  <2> QED
    BY <2>7, <2>8
<1> QED
  BY <1>1, <1>2

(* The map of AddressBook, as it is kept in the slots.                      *)
Map == [m \in Mac |-> Known(m)]

LEMMA MapSame ==
  ASSUME slot' = slot
  PROVE  Map' = Map
BY DEF Map, Known, SlotsOf

(* Room in the map is a slot for the client, its own or a free one.         *)
LEMMA PlaceIsTarget ==
  ASSUME TableInv, NEW m \in Mac
  PROVE  Book!HasPlace(m) <=> Target(m) # {}
<1>1. Book!Listed = {n \in Mac : Known(n) # NoIp}
  BY DEF Book!Listed
<1>2. CASE Target(m) = {}
  <2>1. ~(Cardinality(Book!Listed) < MaxConn) /\ m \notin Book!Listed
    BY <1>1, <1>2, FullIsNoRoom
  <2> QED
    BY <1>2, <2>1, Zenon DEF Book!HasPlace, Cardinality, Book!Cardinality
<1>3. CASE Target(m) # {}
  <2> DEFINE t == First(Target(m))
  <2>1. t \in Slots /\ (slot[t].mac = m \/ slot[t] = EmptySlot)
    BY <1>3, TargetIs
  <2> HIDE DEF t
  <2>2. m \in Book!Listed \/ Cardinality(Book!Listed) < MaxConn
    <3>1. CASE slot[t].mac = m
      <4>1. Known(m) \in Ip
        BY <2>1, <3>1, KnownBySlot
      <4> QED
        BY <1>1, <4>1, ApClientsAssumption
    <3>2. CASE slot[t] = EmptySlot
      BY <1>1, <2>1, <3>2, FreeSlotIsRoom
    <3> QED
      BY <2>1, <3>1, <3>2
  <2> QED
    BY <1>3, <2>2, Zenon DEF Book!HasPlace, Cardinality, Book!Cardinality
<1> QED
  BY <1>2, <1>3

(* Handling an event is hearing it.                                         *)
LEMMA HandleHears ==
  ASSUME NEW e \in Event, Handle(e)
  PROVE  Book!Hear(e)
BY DEF Handle, Book!Hear

(* An assigned event enters its client if there is room, and only then.     *)
LEMMA AssignedRefines ==
  ASSUME TableInv, TableInv', NEW e \in Event, Assigned(e)
  PROVE  Book!Learn(e) \/ Book!Refuse(e)
<1>1. e.mac \in Mac /\ e.kind = "assigned" /\ e.kind \in handlers /\ Book!Hear(e)
  BY EventFields, HandleHears DEF Assigned
<1>2. CASE Target(e.mac) # {}
  <2>1. Map' = [Map EXCEPT ![e.mac] = e.ip]
    BY <1>1, <1>2, AssignedTells DEF Map
  <2>2. Book!HasPlace(e.mac)
    BY <1>1, <1>2, PlaceIsTarget
  <2> QED
    BY <1>1, <2>1, <2>2, Zenon DEF Book!Learn, Map
<1>3. CASE Target(e.mac) = {}
  <2>1. Map' = Map
    BY <1>3, MapSame DEF Assigned
  <2>2. ~Book!HasPlace(e.mac)
    BY <1>1, <1>3, PlaceIsTarget
  <2> QED
    BY <1>1, <2>1, <2>2, Zenon DEF Book!Refuse, Map
<1> QED
  BY <1>2, <1>3

(* Clearing its slot is forgetting it.                                      *)
LEMMA DisconnectedRefines ==
  ASSUME TableInv, TableInv', NEW e \in Event, Disconnected(e)
  PROVE  Book!Forget(e)
<1>1. e.mac \in Mac /\ e.kind = "left" /\ e.kind \in handlers /\ Book!Hear(e)
  BY EventFields, HandleHears DEF Disconnected
<1>2. Map' = [Map EXCEPT ![e.mac] = NoIp]
  BY <1>1, DisconnectedTells DEF Map
<1> QED
  BY <1>1, <1>2, Zenon DEF Book!Forget, Map

(* Every step is a step of the map or leaves it as it is.                   *)
LEMMA StepRefines == TableInv /\ TableInv' /\ [Next]_vars => [Book!Next]_<<queue, handlers, Map>>
<1> SUFFICES ASSUME TableInv, TableInv', [Next]_vars
             PROVE  Book!Next \/ UNCHANGED <<queue, handlers, Map>>
  OBVIOUS
<1>0. Event = Book!Event /\ Kinds = Book!Kinds
  BY DEF Event, Book!Event, Kinds, Book!Kinds
<1>1. ASSUME NEW e \in Event, Assigned(e) PROVE Book!Next
  BY <1>0, <1>1, AssignedRefines, Zenon DEF Book!Next
<1>2. ASSUME NEW e \in Event, Disconnected(e) PROVE Book!Next
  BY <1>0, <1>2, DisconnectedRefines, Zenon DEF Book!Next
<1>3. ASSUME NEW e \in Event, Missed(e) PROVE Book!Next
  <2>1. e.kind \notin handlers /\ Book!Hear(e) /\ Map' = Map
    BY <1>3, HandleHears, MapSame DEF Missed
  <2>2. Book!Ignore(e)
    BY <2>1, Zenon DEF Book!Ignore, Map
  <2> QED BY <1>0, <2>2, Zenon DEF Book!Next
<1>4. ASSUME NEW e \in Event, Post(e), UNCHANGED <<slot, handlers>> PROVE Book!Next
  <2>1. Book!Post(e)
    BY <1>4, MapSame, Zenon DEF Post, Book!Post, Map
  <2> QED BY <1>0, <2>1, Zenon DEF Book!Next
<1>5. ASSUME NEW m \in Mac, Leaves(m) PROVE Book!Next
  <2>1. [kind |-> "left", mac |-> m] \in Event
    BY DEF Event
  <2> QED BY <1>4, <1>5, <2>1 DEF Leaves
<1>6. ASSUME NEW m \in Mac, NEW a \in Ip, GivesLease(m, a) \/ GivesLeaseLate(m, a)
      PROVE  Book!Next \/ UNCHANGED <<queue, handlers, Map>>
  <2>1. [kind |-> "assigned", mac |-> m, ip |-> a] \in Event
    BY DEF Event
  <2>2. UNCHANGED <<slot, handlers>>
        /\ (Post([kind |-> "assigned", mac |-> m, ip |-> a]) \/ queue' = queue)
    BY <1>6 DEF GivesLease, GivesLeaseLate
  <2> QED BY <1>4, <2>1, <2>2, MapSame
<1>7. ASSUME NEW kind \in Kinds, Register(kind) PROVE Book!Next
  <2>1. Book!Listen(kind)
    BY <1>7, MapSame, Zenon DEF Register, Book!Listen, Map
  <2> QED BY <1>0, <2>1, Zenon DEF Book!Next
<1>8. ASSUME NEW m \in Mac, Lookup(m) \/ Joins(m) PROVE UNCHANGED <<queue, handlers, Map>>
  BY <1>8, MapSame DEF Lookup, Joins
<1>9. Test \/ Copy \/ UNCHANGED vars => UNCHANGED <<queue, handlers, Map>>
  BY MapSame DEF Test, Copy, vars
<1> QED
  BY <1>1, <1>2, <1>3, <1>5, <1>6, <1>7, <1>8, <1>9 DEF Next, Step

(* The slots implement the map of module AddressBook: what every event does *)
(* to it is what the module says, for any number of clients and slots.      *)
THEOREM SlotsImplementBook == Spec => ImplementsBook
<1>1. TableInv /\ TableInv' /\ [Next]_vars => [Book!Next]_Book!vars
  BY StepRefines DEF Book!vars, Map
<1> QED
  BY <1>1, TableInvariant, InitRefines, PTL DEF Spec, ImplementsBook, Book!Spec

-----------------------------------------------------------------------------

(* How far a lookup has come that no event of its client interrupts: no     *)
(* slot before its index is its client's.                                   *)
LookupInv ==
    quiet => /\ who \in Mac
             /\ pc = "test" => found = NoIp /\ \A i \in Slots : i < j => slot[i].mac # who
             /\ pc = "copy" => slot[j].mac = who
             /\ pc = "idle" => found = Known(who)

(* The steps of a lookup.                                                   *)
LEMMA TestKeeps ==
  ASSUME TableInv, LookupInv, Test
  PROVE  LookupInv'
<1> SUFFICES ASSUME quiet PROVE LookupInv'
  BY DEF Test, LookupInv
<1>1. /\ who \in Mac /\ found = NoIp /\ \A i \in Slots : i < j => slot[i].mac # who
      /\ who' = who /\ found' = found /\ slot' = slot /\ j \in Slots
  BY DEF Test, LookupInv, TableInv, TypeOK
<1>2. slot[j].ip # NoIp <=> slot[j] # EmptySlot
  BY <1>1, ApClientsAssumption DEF TableInv, TypeOK, Entry, EmptySlot
<1>3. CASE slot[j].ip # NoIp /\ slot[j].mac = who
  BY <1>1, <1>3 DEF Test, LookupInv
<1>4. CASE ~(slot[j].ip # NoIp /\ slot[j].mac = who)
  <2>1. slot[j].mac # who
    BY <1>1, <1>2, <1>4, ApClientsAssumption DEF EmptySlot
  <2>2. \A i \in Slots : i < j + 1 => slot[i].mac # who
    <3>1. \A i \in Slots : i < j + 1 => i < j \/ i = j
      BY <1>1, ApClientsAssumption DEF Slots
    <3> QED
      BY <1>1, <2>1, <3>1
  <2>3. CASE j + 1 < MaxConn
    BY <1>1, <1>4, <2>2, <2>3 DEF Test, LookupInv
  <2>4. CASE ~(j + 1 < MaxConn)
    <3>1. \A i \in Slots : i < j + 1
      BY <1>1, <2>4, ApClientsAssumption DEF Slots
    <3>2. SlotsOf(who) = {}
      BY <2>2, <3>1 DEF SlotsOf
    <3>3. SlotsOf(who)' = {}
      BY <1>1, <3>2 DEF SlotsOf
    <3>4. Known(who)' = NoIp
      BY <3>3 DEF Known
    <3> QED
      BY <1>1, <1>4, <2>4, <3>4 DEF Test, LookupInv
  <2> QED
    BY <2>3, <2>4
<1> QED
  BY <1>3, <1>4

(* The copy that ends a lookup is of the slot that was found.               *)
LEMMA CopyKeeps ==
  ASSUME TableInv, LookupInv, Copy
  PROVE  LookupInv'
<1> SUFFICES ASSUME quiet PROVE LookupInv'
  BY DEF Copy, LookupInv
<1>1. who \in Mac /\ slot[j].mac = who /\ j \in Slots
  BY DEF Copy, LookupInv, TableInv, TypeOK
<1>2. Known(who) = slot[j].ip
  BY <1>1, KnownBySlot
<1>3. Known(who)' = Known(who)
  BY DEF Copy, Known, SlotsOf
<1> QED
  BY <1>1, <1>2, <1>3 DEF Copy, LookupInv

(* Handlers do not touch the slots of any but the client of their event.    *)
LEMMA HandlerLeavesOthers ==
  ASSUME TableInv, TableInv', LookupInv, NEW e \in Event,
         Assigned(e) \/ Disconnected(e) \/ Missed(e)
  PROVE  LookupInv'
<1> SUFFICES ASSUME quiet' PROVE LookupInv'
  BY DEF LookupInv
<1>1. Handle(e)
  BY DEF Assigned, Disconnected, Missed
<1>2. quiet /\ who \in Mac /\ e.mac # who /\ UNCHANGED <<pc, who, j, found>> /\ e.mac \in Mac
  BY <1>1, EventFields DEF Handle, LookupInv
<1>3. \A i \in Slots : slot'[i].mac = who <=> slot[i].mac = who
  <2>1. CASE slot' = slot
    BY <2>1
  <2>2. ASSUME NEW t \in Slots, NEW r \in Entry, slot' = [slot EXCEPT ![t] = r],
               slot[t].mac # who, r.mac # who
        PROVE  \A i \in Slots : slot'[i].mac = who <=> slot[i].mac = who
    BY <2>2 DEF TableInv, TypeOK
  <2>3. CASE Assigned(e) /\ slot' # slot
    <3> DEFINE t == First(Target(e.mac))
               r == [mac |-> e.mac, ip |-> e.ip]
    <3>1. Target(e.mac) # {} /\ slot' = [slot EXCEPT ![t] = r] /\ r \in Entry
      BY <1>2, <2>3, EventFields DEF Assigned, Entry
    <3>2. t \in Slots /\ (slot[t].mac = e.mac \/ slot[t] = EmptySlot)
      BY <1>2, <3>1, TargetIs
    <3>3. slot[t].mac # who /\ r.mac # who
      BY <1>2, <3>2, ApClientsAssumption DEF EmptySlot
    <3> HIDE DEF t, r
    <3> QED BY <2>2, <3>1, <3>2, <3>3
  <2>4. CASE Disconnected(e) /\ slot' # slot
    <3> DEFINE t == First(SlotsOf(e.mac))
    <3>1. SlotsOf(e.mac) # {} /\ slot' = [slot EXCEPT ![t] = EmptySlot] /\ EmptySlot \in Entry
      BY <2>4 DEF Disconnected, Entry
    <3>2. t \in Slots /\ slot[t].mac = e.mac
      BY <3>1, FirstIsOne DEF SlotsOf
    <3>3. EmptySlot.mac # who
      BY <1>2, ApClientsAssumption DEF EmptySlot
    <3> HIDE DEF t
    <3> QED BY <1>2, <2>2, <3>1, <3>2, <3>3
  <2> QED BY <2>1, <2>3, <2>4 DEF Missed
<1>4. Known(who)' = Known(who)
  <2>1. CASE Missed(e)
    BY <1>2, <2>1 DEF Missed, Known, SlotsOf
  <2>2. CASE Assigned(e) /\ Target(e.mac) = {}
    BY <1>2, <2>2 DEF Assigned, Known, SlotsOf
  <2>3. CASE Assigned(e) /\ Target(e.mac) # {}
    BY <1>2, <2>3, AssignedTells DEF Known, SlotsOf
  <2>4. CASE Disconnected(e)
    BY <1>2, <2>4, DisconnectedTells DEF Known, SlotsOf
  <2> QED BY <2>1, <2>2, <2>3, <2>4
<1>5. j \in Slots
  BY DEF TableInv, TypeOK
<1> QED
  BY <1>2, <1>3, <1>4, <1>5 DEF LookupInv

LEMMA StepLookupInv == TableInv /\ TableInv' /\ LookupInv /\ [Next]_vars => LookupInv'
<1> SUFFICES ASSUME TableInv, TableInv', LookupInv, [Next]_vars PROVE LookupInv'
  OBVIOUS
<1>1. UNCHANGED <<slot, readerVars>> => LookupInv'
  BY DEF LookupInv, readerVars, Known, SlotsOf
<1>2. ASSUME NEW e \in Event, Assigned(e) \/ Disconnected(e) \/ Missed(e) PROVE LookupInv'
  BY <1>2, HandlerLeavesOthers
<1>3. ASSUME NEW m \in Mac, Lookup(m) PROVE LookupInv'
  <2>1. \A i \in Slots : ~(i < 0)
    BY ApClientsAssumption DEF Slots
  <2> QED
    BY <1>3, <2>1 DEF Lookup, LookupInv
<1>4. ASSUME NEW m \in Mac, Joins(m) \/ Leaves(m) PROVE UNCHANGED <<slot, readerVars>>
  BY <1>4 DEF Joins, Leaves
<1>5. ASSUME NEW m \in Mac, NEW a \in Ip, GivesLease(m, a) \/ GivesLeaseLate(m, a)
      PROVE  UNCHANGED <<slot, readerVars>>
  BY <1>5 DEF GivesLease, GivesLeaseLate
<1>6. (\E kind \in Kinds : Register(kind)) \/ UNCHANGED vars => UNCHANGED <<slot, readerVars>>
  BY DEF Register, vars, readerVars
<1> QED
  BY <1>1, <1>2, <1>3, <1>4, <1>5, <1>6, TestKeeps, CopyKeeps DEF Next, Step

(* A lookup finds what the table holds, whatever is heard of other clients  *)
(* meanwhile.                                                               *)
THEOREM LookupsAreRight == Spec => []LookupIsRight
<1>1. Init => LookupInv
  BY DEF Init, LookupInv
<1>2. LookupInv => LookupIsRight
  BY DEF LookupInv, LookupIsRight
<1> QED
  BY <1>1, <1>2, TableInvariant, StepLookupInv, PTL DEF Spec

-----------------------------------------------------------------------------

(* What the table will say when the first i events of the queue have been   *)
(* handled: the last of them that is about a client decides.                *)
Gives(e) == IF e.kind = "assigned" THEN e.ip ELSE NoIp

Told(m, i, a) ==
    \/ \E k \in 1 .. i : /\ queue[k].mac = m /\ Gives(queue[k]) = a
                         /\ \A l \in k + 1 .. i : queue[l].mac # m
    \/ (\A k \in 1 .. i : queue[k].mac # m) /\ Known(m) = a

Crowd(i) == {m \in Mac : \E a \in Ip : Told(m, i, a)}
Fits(S) == IsFiniteSet(S) /\ Cardinality(S) <= MaxConn

\* Only clients of the access point have a lease, and they fit in.
LeasesInv == /\ Fits(joined)
             /\ \A m \in Mac : lease[m] # NoIp => m \in joined
             /\ calm => amiss = {}

\* In the end the table will say what the DHCP server does.
EndInv == \A m \in Mac \ amiss : Told(m, Len(queue), lease[m])

\* And when all is well it never has to hold more clients than it can.
RoomInv == calm => \A i \in 0 .. Len(queue) : Fits(Crowd(i))

(* The queue decides on one address.                                        *)
LEMMA ToldOne ==
  ASSUME NEW i \in Nat, NEW m, NEW a, NEW b, Told(m, i, a), Told(m, i, b)
  PROVE  a = b
<1>1. CASE \A k \in 1 .. i : queue[k].mac # m
  BY <1>1 DEF Told
<1>2. CASE ~ \A k \in 1 .. i : queue[k].mac # m
  <2>1. PICK k \in 1 .. i : /\ queue[k].mac = m /\ Gives(queue[k]) = a
                            /\ \A l \in k + 1 .. i : queue[l].mac # m
    BY <1>2 DEF Told
  <2>2. PICK n \in 1 .. i : /\ queue[n].mac = m /\ Gives(queue[n]) = b
                            /\ \A l \in n + 1 .. i : queue[l].mac # m
    BY <1>2 DEF Told
  <2>3. ~(k < n) /\ ~(n < k)
    BY <2>1, <2>2
  <2> QED
    BY <2>1, <2>2, <2>3
<1> QED
  BY <1>1, <1>2

(* Posting an event changes what is told of its client, at the end only.    *)
LEMMA PostTells ==
  ASSUME TypeOK, NEW e \in Event, Post(e), slot' = slot, NEW n, n = Len(queue),
         NEW m \in Mac, NEW a
  PROVE  /\ Len(queue') = n + 1
         /\ \A i \in 0 .. n : Told(m, i, a)' <=> Told(m, i, a)
         /\ m = e.mac /\ a = Gives(e) => Told(m, n + 1, a)'
         /\ m # e.mac => (Told(m, n + 1, a)' <=> Told(m, n, a))
<1>1. /\ n \in Nat /\ Len(queue') = n + 1
      /\ queue'[n + 1] = e
      /\ \A k \in 1 .. n : queue'[k] = queue[k]
  BY DEF TypeOK, Post
<1>2. Known(m)' = Known(m)
  BY DEF Known, SlotsOf
<1>3. ASSUME NEW i \in 0 .. n PROVE Told(m, i, a)' <=> Told(m, i, a)
  <2>1. \A k \in 1 .. i : queue'[k] = queue[k] /\ \A l \in k + 1 .. i : queue'[l] = queue[l]
    BY <1>1
  <2> QED
    BY <1>2, <2>1 DEF Told
<1>4. ASSUME m = e.mac, a = Gives(e) PROVE Told(m, n + 1, a)'
  <2>1. n + 1 \in 1 .. n + 1 /\ (n + 1) + 1 .. n + 1 = {}
    BY <1>1
  <2> QED
    BY <1>1, <1>4, <2>1 DEF Told
<1>5. ASSUME m # e.mac PROVE Told(m, n + 1, a)' <=> Told(m, n, a)
  <2>1. /\ \A k \in 1 .. n + 1 : k \in 1 .. n \/ queue'[k].mac # m
        /\ \A k \in 1 .. n : k \in 1 .. n + 1 /\ queue'[k] = queue[k]
        /\ \A k \in 1 .. n : \A l \in k + 1 .. n + 1 : l \in k + 1 .. n \/ queue'[l].mac # m
        /\ \A k \in 1 .. n : \A l \in k + 1 .. n : l \in k + 1 .. n + 1 /\ queue'[l] = queue[l]
    BY <1>1, <1>5
  <2> QED
    BY <1>2, <2>1 DEF Told
<1> QED
  BY <1>1, <1>3, <1>4, <1>5

(* Handling one leaves what the rest of the queue tells of a client, if it  *)
(* was about another or the table says now what it said.                    *)
LEMMA HandleTells ==
  ASSUME TypeOK, NEW e \in Event, Handle(e), NEW m \in Mac,
         IF m = e.mac THEN Known(m)' = Gives(e) ELSE Known(m)' = Known(m)
  PROVE  /\ Len(queue') = Len(queue) - 1
         /\ \A i \in 0 .. Len(queue) - 1 : \A a : Told(m, i, a)' <=> Told(m, i + 1, a)
<1>1. /\ Len(queue) \in Nat \ {0} /\ Len(queue') = Len(queue) - 1
      /\ queue[1] = e
      /\ \A k \in 1 .. Len(queue) - 1 : queue'[k] = queue[k + 1]
  BY DEF TypeOK, Handle
<1>2. ASSUME NEW i \in 0 .. Len(queue) - 1, NEW a, Told(m, i, a)' PROVE Told(m, i + 1, a)
  <2>1. \A k \in 2 .. i + 1 : k - 1 \in 1 .. i /\ queue[k] = queue'[k - 1]
    BY <1>1
  <2>2. ASSUME NEW k \in 1 .. i, queue'[k].mac = m, Gives(queue'[k]) = a,
               \A l \in k + 1 .. i : queue'[l].mac # m
        PROVE  Told(m, i + 1, a)
    <3>1. k + 1 \in 1 .. i + 1 /\ queue[k + 1] = queue'[k]
      BY <1>1
    <3>2. ASSUME NEW l \in (k + 1) + 1 .. i + 1 PROVE queue[l].mac # m
      <4>1. l - 1 \in k + 1 .. i /\ queue[l] = queue'[l - 1]
        BY <2>1
      <4> QED BY <2>2, <4>1
    <3> QED
      BY <2>2, <3>1, <3>2 DEF Told
  <2>3. ASSUME \A k \in 1 .. i : queue'[k].mac # m, Known(m)' = a
        PROVE  Told(m, i + 1, a)
    <3>1. \A k \in 2 .. i + 1 : queue[k].mac # m
      BY <2>1, <2>3
    <3>2. CASE m = e.mac
      <4>1. 1 \in 1 .. i + 1 /\ 1 + 1 = 2 /\ queue[1].mac = m /\ Gives(queue[1]) = a
        BY <1>1, <2>3, <3>2
      <4> QED BY <3>1, <4>1 DEF Told
    <3>3. CASE m # e.mac
      <4>1. \A k \in 1 .. i + 1 : k = 1 \/ k \in 2 .. i + 1
        OBVIOUS
      <4> QED BY <1>1, <2>3, <3>1, <3>3, <4>1 DEF Told
    <3> QED BY <3>2, <3>3
  <2> QED
    BY <1>2, <2>2, <2>3 DEF Told
<1>3. ASSUME NEW i \in 0 .. Len(queue) - 1, NEW a, Told(m, i + 1, a) PROVE Told(m, i, a)'
  <2>1. \A k \in 1 .. i : k + 1 \in 1 .. i + 1 /\ queue'[k] = queue[k + 1]
    BY <1>1
  <2>2. ASSUME NEW k \in 1 .. i + 1, queue[k].mac = m, Gives(queue[k]) = a,
               \A l \in k + 1 .. i + 1 : queue[l].mac # m
        PROVE  Told(m, i, a)'
    <3>1. CASE k = 1
      <4>1. m = e.mac /\ Known(m)' = a
        BY <1>1, <2>2, <3>1
      <4>2. ASSUME NEW l \in 1 .. i PROVE queue'[l].mac # m
        <5>1. l + 1 \in k + 1 .. i + 1
          BY <3>1
        <5> QED BY <2>1, <2>2, <5>1
      <4> QED BY <4>1, <4>2 DEF Told
    <3>2. CASE k # 1
      <4>1. k - 1 \in 1 .. i /\ queue'[k - 1] = queue[k]
        BY <1>1, <3>2
      <4>2. ASSUME NEW l \in (k - 1) + 1 .. i PROVE queue'[l].mac # m
        <5>1. l + 1 \in k + 1 .. i + 1 /\ l \in 1 .. i
          BY <3>2
        <5> QED BY <2>1, <2>2, <5>1
      <4> QED BY <2>2, <4>1, <4>2 DEF Told
    <3> QED BY <3>1, <3>2
  <2>3. ASSUME \A k \in 1 .. i + 1 : queue[k].mac # m, Known(m) = a
        PROVE  Told(m, i, a)'
    <3>1. m # e.mac
      BY <1>1, <2>3
    <3> QED
      BY <2>1, <2>3, <3>1 DEF Told
  <2> QED
    BY <1>3, <2>2, <2>3 DEF Told
<1> QED
  BY <1>1, <1>2, <1>3

(* When all is well the table has a slot for every client it is told of:    *)
(* with all of them taken by others the crowd would not fit.                *)
LEMMA CalmHasRoom ==
  ASSUME TableInv, RoomInv, calm, NEW e \in Event, e.kind = "assigned", Handle(e)
  PROVE  Target(e.mac) # {}
<1> SUFFICES ASSUME Target(e.mac) = {} PROVE FALSE
  OBVIOUS
<1> DEFINE C == Crowd(1)
           f == [i \in Slots |-> slot[i].mac]
<1>1. e.mac \in Mac /\ e.ip \in Ip
  BY EventFields
<1>2. 1 \in 0 .. Len(queue) /\ queue[1] = e
  BY DEF Handle, TableInv, TypeOK
<1>3. IsFiniteSet(C) /\ Cardinality(C) <= MaxConn
  BY <1>2 DEF RoomInv, Fits
<1>4. e.mac \in C
  <2>1. Told(e.mac, 1, e.ip)
    BY <1>2 DEF Told, Gives
  <2> QED BY <1>1, <2>1 DEF Crowd
<1>5. ASSUME NEW i \in Slots PROVE slot[i] # EmptySlot /\ slot[i].mac \in C \ {e.mac}
  <2>1. slot[i].mac # e.mac /\ slot[i].ip # NoIp
    BY DEF Target, SlotsOf
  <2>2. slot[i] # EmptySlot /\ slot[i].mac \in Mac
    BY <2>1 DEF TableInv, TypeOK, Entry, EmptySlot
  <2>3. Known(slot[i].mac) = slot[i].ip /\ slot[i].ip \in Ip
    BY <2>2, KnownBySlot
  <2>4. Told(slot[i].mac, 1, slot[i].ip)
    BY <1>2, <2>1, <2>3 DEF Told
  <2> QED BY <2>1, <2>2, <2>3, <2>4 DEF Crowd
<1>6. f \in Injection(Slots, C \ {e.mac})
  BY <1>5 DEF TableInv, Injection, IsInjective
<1>7. IsFiniteSet(C \ {e.mac}) /\ Cardinality(C \ {e.mac}) = Cardinality(C) - 1
  BY <1>3, <1>4, FS_RemoveElement
<1>8. Cardinality(Slots) <= Cardinality(C \ {e.mac})
  BY <1>6, <1>7, FS_Injection
<1>9. Cardinality(Slots) = MaxConn
  BY FS_Interval, ApClientsAssumption DEF Slots
<1>10. Cardinality(C) \in Nat
  BY <1>3, FS_CardinalityType
<1> QED
  BY <1>3, <1>7, <1>8, <1>9, <1>10, ApClientsAssumption

(* What the handlers do to a client that nothing is amiss with.             *)
LEMMA HandlerTells ==
  ASSUME TableInv, TableInv', RoomInv, NEW e \in Event,
         Assigned(e) \/ Disconnected(e) \/ Missed(e), NEW m \in Mac \ amiss'
  PROVE  IF m = e.mac THEN Known(m)' = Gives(e) ELSE Known(m)' = Known(m)
<1>1. slot' = slot => Known(m)' = Known(m)
  BY DEF Known, SlotsOf
<1>2. CASE Assigned(e)
  <2>1. e.kind = "assigned" /\ Handle(e)
    BY <1>2 DEF Assigned
  <2>2. CASE Target(e.mac) = {}
    <3>1. ~calm
      BY <2>1, <2>2, CalmHasRoom
    <3>2. slot' = slot /\ e.mac \in amiss'
      BY <1>2, <2>2, <3>1 DEF Assigned, Denied
    <3> QED BY <1>1, <3>2
  <2>3. CASE Target(e.mac) # {}
    BY <1>2, <2>1, <2>3, AssignedTells DEF Gives
  <2> QED BY <2>2, <2>3
<1>3. CASE Disconnected(e)
  BY <1>3, DisconnectedTells DEF Disconnected, Gives
<1>4. CASE Missed(e)
  BY <1>1, <1>4 DEF Missed
<1> QED
  BY <1>2, <1>3, <1>4

(* Clients with a lease are in, and they fit in.                            *)
LEMMA StepLeases == TableInv /\ LeasesInv /\ [Next]_vars => LeasesInv'
<1> SUFFICES ASSUME TableInv, LeasesInv, [Next]_vars PROVE LeasesInv'
  OBVIOUS
<1>1. calm' => amiss' = {}
  BY DEF Next, vars, LeasesInv
<1>2. ASSUME UNCHANGED <<joined, lease>> PROVE LeasesInv'
  BY <1>1, <1>2 DEF LeasesInv, Fits
<1>3. ASSUME NEW m \in Mac, Joins(m) PROVE LeasesInv'
  <2>1. joined' = joined \union {m} /\ lease' = lease /\ m \notin joined
        /\ Cardinality(joined) < MaxConn
    BY <1>3 DEF Joins
  <2>2. IsFiniteSet(joined') /\ Cardinality(joined') = Cardinality(joined) + 1
        /\ Cardinality(joined) \in Nat
    BY <2>1, FS_AddElement, FS_CardinalityType DEF LeasesInv, Fits
  <2>3. Cardinality(joined') <= MaxConn
    BY <2>1, <2>2, ApClientsAssumption
  <2> QED BY <1>1, <2>1, <2>2, <2>3 DEF LeasesInv, Fits
<1>4. ASSUME NEW m \in Mac, Leaves(m) PROVE LeasesInv'
  <2>1. joined' = joined \ {m} /\ lease' = [lease EXCEPT ![m] = NoIp] /\ m \in joined
    BY <1>4 DEF Leaves
  <2>2. IsFiniteSet(joined') /\ Cardinality(joined') = Cardinality(joined) - 1
        /\ Cardinality(joined) \in Nat
    BY <2>1, FS_RemoveElement, FS_CardinalityType DEF LeasesInv, Fits
  <2>3. Cardinality(joined') <= MaxConn
    BY <2>2, ApClientsAssumption DEF LeasesInv, Fits
  <2>4. \A n \in Mac : lease'[n] # NoIp => n \in joined'
    BY <2>1 DEF LeasesInv, TableInv, TypeOK
  <2> QED BY <1>1, <2>2, <2>3, <2>4 DEF LeasesInv, Fits
<1>5. ASSUME NEW m \in Mac, NEW a \in Ip, GivesLease(m, a) PROVE LeasesInv'
  <2>1. joined' = joined /\ lease' = [lease EXCEPT ![m] = a] /\ m \in joined
    BY <1>5 DEF GivesLease
  <2>2. \A n \in Mac : lease'[n] # NoIp => n \in joined'
    BY <2>1 DEF LeasesInv, TableInv, TypeOK
  <2> QED BY <1>1, <2>1, <2>2 DEF LeasesInv, Fits
<1>6. ASSUME NEW e \in Event, Assigned(e) \/ Disconnected(e) \/ Missed(e)
      PROVE  UNCHANGED <<joined, lease>>
  BY <1>6 DEF Assigned, Disconnected, Missed, Handle, netVars
<1>7. ASSUME NEW m \in Mac, Lookup(m) \/ \E a \in Ip : GivesLeaseLate(m, a)
      PROVE  UNCHANGED <<joined, lease>>
  BY <1>7 DEF Lookup, GivesLeaseLate, netVars
<1>8. (\E kind \in Kinds : Register(kind)) \/ Test \/ Copy \/ UNCHANGED vars
      => UNCHANGED <<joined, lease>>
  BY DEF Register, Test, Copy, vars, netVars
<1> QED
  BY <1>2, <1>3, <1>4, <1>5, <1>6, <1>7, <1>8 DEF Next, Step

(* The addresses in the end.                                                *)
LEMMA EndOf ==
  ASSUME NEW m \in Mac, NEW n, NEW a, n = Len(queue'), a = lease'[m], Told(m, n, a)'
  PROVE  Told(m, Len(queue), lease[m])'
  BY DEF Told

(* A step that touches neither the table nor the queue keeps EndInv.        *)
LEMMA EndSame ==
  ASSUME EndInv, UNCHANGED <<slot, queue>>,
         \A m \in Mac \ amiss' : m \notin amiss /\ lease'[m] = lease[m]
  PROVE  EndInv'
<1>1. ASSUME NEW m \in Mac \ amiss' PROVE Told(m, Len(queue), lease[m])'
  <2>1. Told(m, Len(queue), lease[m]) /\ lease'[m] = lease[m]
    BY DEF EndInv
  <2>2. Known(m)' = Known(m)
    BY DEF Known, SlotsOf
  <2> QED BY <2>1, <2>2 DEF Told
<1> QED BY <1>1 DEF EndInv

(* So does one that posts an event about what it has just granted or taken, *)
LEMMA EndPosted ==
  ASSUME TypeOK, EndInv, slot' = slot, NEW e \in Event, Post(e),
         \A m \in Mac \ amiss' : IF m = e.mac THEN lease'[m] = Gives(e)
                                 ELSE m \notin amiss /\ lease'[m] = lease[m]
  PROVE  EndInv'
<1>1. ASSUME NEW m \in Mac \ amiss' PROVE Told(m, Len(queue), lease[m])'
  <2>1. PICK n : n = Len(queue)
    OBVIOUS
  <2>2. PICK a : a = lease'[m]
    OBVIOUS
  <2>3. Len(queue') = n + 1
    BY <2>1, PostTells
  <2>4. Told(m, n + 1, a)'
    <3>1. CASE m = e.mac
      BY <2>1, <2>2, <3>1, PostTells
    <3>2. CASE m # e.mac
      <4>1. Told(m, n, a)
        BY <2>1, <2>2, <3>2 DEF EndInv
      <4> QED BY <2>1, <3>2, <4>1, PostTells
    <3> QED BY <3>1, <3>2
  <2> QED BY <2>2, <2>3, <2>4, EndOf
<1> QED BY <1>1 DEF EndInv

(* and a handler that does to the table what its event tells.               *)
LEMMA EndHandled ==
  ASSUME TypeOK, EndInv, NEW e \in Event, Handle(e), amiss \subseteq amiss',
         \A m \in Mac \ amiss' :
            IF m = e.mac THEN Known(m)' = Gives(e) ELSE Known(m)' = Known(m)
  PROVE  EndInv'
<1>1. ASSUME NEW m \in Mac \ amiss' PROVE Told(m, Len(queue), lease[m])'
  <2>1. PICK n : n = Len(queue) - 1
    OBVIOUS
  <2>2. PICK a : a = lease'[m]
    OBVIOUS
  <2>3. /\ Len(queue') = n
        /\ \A i \in 0 .. n : Told(m, i, a)' <=> Told(m, i + 1, a)
    BY <2>1, HandleTells
  <2>4. n \in 0 .. n /\ n + 1 = Len(queue)
    BY <2>1 DEF TypeOK, Handle
  <2>5. Told(m, n + 1, a)
    BY <2>2, <2>4 DEF EndInv, Handle, netVars
  <2> QED BY <2>2, <2>3, <2>4, <2>5, EndOf
<1> QED BY <1>1 DEF EndInv

LEMMA StepEnd == TableInv /\ TableInv' /\ RoomInv /\ EndInv /\ [Next]_vars => EndInv'
<1> SUFFICES ASSUME TableInv, TableInv', RoomInv, EndInv, [Next]_vars PROVE EndInv'
  OBVIOUS
<1>1. TypeOK
  BY DEF TableInv
<1>2. ASSUME NEW e \in Event, Assigned(e) \/ Disconnected(e) \/ Missed(e) PROVE EndInv'
  <2>1. Handle(e) /\ amiss \subseteq amiss'
    BY <1>2 DEF Assigned, Disconnected, Missed, Denied
  <2> QED BY <1>1, <1>2, <2>1, HandlerTells, EndHandled
<1>3. ASSUME NEW m \in Mac, Leaves(m) PROVE EndInv'
  <2> DEFINE e == [kind |-> "left", mac |-> m]
  <2>1. e \in Event /\ e.mac = m /\ Gives(e) = NoIp
    BY DEF Event, Gives
  <2>2. Post(e) /\ slot' = slot /\ amiss' = amiss \ {m} /\ lease' = [lease EXCEPT ![m] = NoIp]
    BY <1>3 DEF Leaves
  <2>3. \A n \in Mac \ amiss' : IF n = m THEN lease'[n] = NoIp
                                ELSE n \notin amiss /\ lease'[n] = lease[n]
    BY <1>1, <2>2 DEF TypeOK
  <2> QED BY <1>1, <2>1, <2>2, <2>3, EndPosted
<1>4. ASSUME NEW m \in Mac, NEW a \in Ip, GivesLease(m, a) \/ GivesLeaseLate(m, a)
      PROVE  EndInv'
  <2> DEFINE e == [kind |-> "assigned", mac |-> m, ip |-> a]
  <2>1. e \in Event /\ e.mac = m /\ Gives(e) = a
    BY DEF Event, Gives
  <2>2. slot' = slot /\ (lease' = [lease EXCEPT ![m] = a] \/ (lease' = lease /\ m \in amiss'))
        /\ amiss \ {m} \subseteq amiss'
    BY <1>4 DEF GivesLease, GivesLeaseLate, netVars
  <2>3. \A n \in Mac \ amiss' : IF n = m THEN lease'[n] = a
                                ELSE n \notin amiss /\ lease'[n] = lease[n]
    BY <1>1, <2>2 DEF TypeOK
  <2>4. CASE Post(e)
    BY <1>1, <2>1, <2>2, <2>3, <2>4, EndPosted
  <2>5. CASE ~Post(e)
    <3>1. queue' = queue /\ m \in amiss' /\ amiss \subseteq amiss'
      BY <1>4, <2>5 DEF GivesLease, GivesLeaseLate
    <3> QED BY <2>2, <2>3, <3>1, EndSame
  <2> QED BY <2>4, <2>5
<1>5. ASSUME NEW m \in Mac, Lookup(m) \/ Joins(m) PROVE UNCHANGED <<slot, queue, lease, amiss>>
  BY <1>5 DEF Lookup, Joins, netVars
<1>6. (\E kind \in Kinds : Register(kind)) \/ Test \/ Copy \/ UNCHANGED vars
      => UNCHANGED <<slot, queue, lease, amiss>>
  BY DEF Register, Test, Copy, vars, netVars
<1> QED
  BY <1>2, <1>3, <1>4, <1>5, <1>6, EndSame DEF Next, Step

(* The crowd at the end of the queue has leases, and fits in.               *)
LEMMA CrowdAtEnd ==
  TypeOK /\ LeasesInv /\ EndInv /\ amiss = {} => Fits(Crowd(Len(queue)))
<1> SUFFICES ASSUME TypeOK, LeasesInv, EndInv, amiss = {} PROVE Fits(Crowd(Len(queue)))
  OBVIOUS
<1>1. Len(queue) \in Nat
  BY DEF TypeOK
<1>2. ASSUME NEW m \in Mac, NEW a \in Ip, Told(m, Len(queue), a) PROVE m \in joined
  <2>1. Told(m, Len(queue), lease[m])
    BY DEF EndInv
  <2>2. lease[m] = a
    BY <1>1, <1>2, <2>1, ToldOne
  <2> QED BY <2>2, ApClientsAssumption DEF LeasesInv
<1>3. Crowd(Len(queue)) \subseteq joined
  BY <1>2 DEF Crowd
<1>4. /\ IsFiniteSet(Crowd(Len(queue))) /\ Cardinality(Crowd(Len(queue))) <= Cardinality(joined)
      /\ Cardinality(Crowd(Len(queue))) \in Nat /\ Cardinality(joined) \in Nat
  BY <1>3, FS_Subset, FS_CardinalityType DEF LeasesInv, Fits
<1> QED
  BY <1>4, ApClientsAssumption DEF LeasesInv, Fits

(* While all is well no event of the queue is the one too many.             *)
LEMMA StepRoom ==
  ASSUME TableInv, TableInv', LeasesInv', RoomInv, EndInv', [Next]_vars,
         (TypeOK /\ LeasesInv /\ EndInv /\ amiss = {} => Fits(Crowd(Len(queue))))'
  PROVE  RoomInv'
<1> SUFFICES ASSUME calm', NEW i \in 0 .. Len(queue') PROVE Fits(Crowd(i))'
  BY DEF RoomInv
<1>1. TypeOK /\ amiss' = {} /\ Fits(Crowd(Len(queue)))'
  BY DEF TableInv, LeasesInv
<1>2. CASE i = Len(queue')
  <2>1. Crowd(i)' = Crowd(Len(queue))'
    BY <1>2 DEF Crowd, Told
  <2> QED BY <1>1, <2>1 DEF Fits
<1>3. CASE i # Len(queue')
  <2>1. queue' \in Seq(Event) /\ i \in 0 .. Len(queue') - 1 /\ queue' # <<>>
    BY <1>3 DEF TableInv, TypeOK
  <2>2. calm
    BY <2>1 DEF Next, vars
  <2>3. ASSUME UNCHANGED <<slot, queue>> PROVE Fits(Crowd(i))'
    <3>1. \A m \in Mac : Known(m)' = Known(m)
      BY <2>3 DEF Known, SlotsOf
    <3>2. Crowd(i)' = Crowd(i)
      BY <2>3, <3>1 DEF Crowd, Told
    <3> QED BY <2>1, <2>2, <2>3, <3>2 DEF RoomInv, Fits
  <2>4. ASSUME slot' = slot, NEW e \in Event, Post(e) PROVE Fits(Crowd(i))'
    <3>1. i \in 0 .. Len(queue)
      BY <1>1, <2>1, <2>4 DEF Post, TypeOK
    <3>2. \A m \in Mac, a \in Ip : Told(m, i, a)' <=> Told(m, i, a)
      BY <1>1, <2>4, <3>1, PostTells
    <3>3. Crowd(i)' = Crowd(i)
      BY <3>2 DEF Crowd
    <3> QED BY <2>2, <3>1, <3>3 DEF RoomInv, Fits
  <2>5. ASSUME NEW e \in Event, Assigned(e) \/ Disconnected(e) \/ Missed(e)
        PROVE  Fits(Crowd(i))'
    <3>1. Handle(e)
      BY <2>5 DEF Assigned, Disconnected, Missed
    <3>2. i \in 0 .. Len(queue) - 1 /\ i + 1 \in 0 .. Len(queue)
      BY <1>1, <2>1, <3>1 DEF Handle, TypeOK
    <3>3. \A m \in Mac : IF m = e.mac THEN Known(m)' = Gives(e) ELSE Known(m)' = Known(m)
      BY <1>1, <2>5, HandlerTells
    <3>4. \A m \in Mac, a \in Ip : Told(m, i, a)' <=> Told(m, i + 1, a)
      BY <1>1, <3>1, <3>2, <3>3, HandleTells
    <3>5. Crowd(i)' = Crowd(i + 1)
      BY <3>4 DEF Crowd
    <3> QED BY <2>2, <3>2, <3>5 DEF RoomInv, Fits
  <2>6. ASSUME NEW m \in Mac, Leaves(m) PROVE Fits(Crowd(i))'
    <3>1. [kind |-> "left", mac |-> m] \in Event
      BY DEF Event
    <3> QED BY <2>4, <2>6, <3>1 DEF Leaves
  <2>7. ASSUME NEW m \in Mac, NEW a \in Ip, GivesLease(m, a) \/ GivesLeaseLate(m, a)
        PROVE  Fits(Crowd(i))'
    <3>1. [kind |-> "assigned", mac |-> m, ip |-> a] \in Event
      BY DEF Event
    <3> QED BY <2>3, <2>4, <2>7, <3>1 DEF GivesLease, GivesLeaseLate
  <2>8. ASSUME NEW m \in Mac, Lookup(m) \/ Joins(m) PROVE UNCHANGED <<slot, queue>>
    BY <2>8 DEF Lookup, Joins
  <2>9. (\E kind \in Kinds : Register(kind)) \/ Test \/ Copy \/ UNCHANGED vars
        => UNCHANGED <<slot, queue>>
    BY DEF Register, Test, Copy, vars
  <2> QED
    BY <2>3, <2>5, <2>6, <2>7, <2>8, <2>9 DEF Next, Step
<1> QED
  BY <1>2, <1>3

(* When no event is left the table says what the DHCP server does of every  *)
(* client none of whose events was lost or late, for any number of clients, *)
(* slots and queued events: as long as nothing is amiss no client finds the *)
(* table full, however the others come and go meanwhile.                    *)
THEOREM TableKnowsItsClients == Spec => []KnowsItsClients
<1>1. Init => LeasesInv /\ EndInv /\ RoomInv
  <2> SUFFICES ASSUME Init PROVE LeasesInv /\ EndInv /\ RoomInv
    OBVIOUS
  <2>1. /\ Len(queue) = 0 /\ 1 .. 0 = {} /\ joined = {} /\ amiss = {}
        /\ \A m \in Mac : lease[m] = NoIp
    BY DEF Init
  <2>2. \A m \in Mac : SlotsOf(m) = {}
    BY ApClientsAssumption DEF Init, EmptySlot, SlotsOf
  <2>3. \A m \in Mac : Known(m) = NoIp
    BY <2>2 DEF Known
  <2>4. IsFiniteSet({}) /\ Cardinality({}) = 0
    BY FS_EmptySet
  <2>5. LeasesInv
    BY <2>1, <2>4, ApClientsAssumption DEF LeasesInv, Fits
  <2>6. EndInv
    BY <2>1, <2>3 DEF EndInv, Told
  <2>7. Crowd(0) = {} /\ \A i \in 0 .. Len(queue) : i = 0
    BY <2>1, <2>3, ApClientsAssumption DEF Crowd, Told
  <2>8. RoomInv
    <3>1. Fits({})
      BY <2>4, ApClientsAssumption DEF Fits
    <3>2. ASSUME NEW i \in 0 .. Len(queue) PROVE Fits(Crowd(i))
      <4>1. Crowd(i) = {}
        BY <2>7
      <4> QED BY <3>1, <4>1
    <3> QED BY <3>2 DEF RoomInv
  <2> QED BY <2>5, <2>6, <2>8
<1>2. /\ TableInv /\ TableInv' /\ LeasesInv /\ EndInv /\ RoomInv /\ [Next]_vars
      => LeasesInv' /\ EndInv' /\ RoomInv'
  <2>1. (TypeOK /\ LeasesInv /\ EndInv /\ amiss = {} => Fits(Crowd(Len(queue))))'
    BY CrowdAtEnd, PTL
  <2> QED BY <2>1, StepLeases, StepEnd, StepRoom
<1>3. TableInv /\ EndInv => KnowsItsClients
  <2> SUFFICES ASSUME TableInv, EndInv, queue = <<>>, NEW m \in Mac \ amiss
               PROVE  Known(m) = lease[m]
    BY DEF KnowsItsClients
  <2>1. Told(m, Len(queue), lease[m]) /\ Len(queue) = 0 /\ 1 .. 0 = {}
    BY DEF EndInv
  <2> QED BY <2>1 DEF Told
<1> QED
  BY <1>1, <1>2, <1>3, TableInvariant, PTL DEF Spec

=============================================================================
