------------------------------ MODULE JsonItems ------------------------------
(***************************************************************************)
(* The tree functions of cJSON.c, with which the firmware builds what it   *)
(* answers: items are created, linked into arrays and objects, detached,   *)
(* replaced, duplicated and deleted, and any allocation can fail.          *)
(*                                                                         *)
(* The heap is a record: for each address the kind of item there ("free"   *)
(* where there is none), its pointers, its name and whether that is a      *)
(* constant; the number of strings allocated; and, within a call only, how *)
(* many allocations will still succeed.  Which of the free addresses a new *)
(* item gets makes no difference.  A function returns the new heap and its *)
(* result.                                                                 *)
(*                                                                         *)
(* The program calls as cJSON.h demands: it gives away and deletes only    *)
(* what it owns, puts no item below itself, and names the list an item is  *)
(* in.  References (cJSON_IsReference), which share members between trees, *)
(* are left out.                                                           *)
(***************************************************************************)
EXTENDS Integers, Sequences, FiniteSets, SequencesExt

CONSTANTS
    Item,      \* addresses: there is memory for so many items
    Null,      \* the NULL pointer
    Kind,      \* kinds of items that are created
    Name,      \* names of members
    NoName,    \* the NULL name
    MaxAllocs, \* bound on the allocations of a call that makes many
    MaxOwned   \* bound on the trees the program has at a time

VARIABLES
    heap,
    owned  \* the items that the program has to delete or to give away

vars == <<heap, owned>>

RECURSIVE ListFrom(_, _), DeleteList(_, _), Duplicate(_, _), DuplicateMembers(_, _, _)

IsLive(h, i) == i # Null /\ h.kind[i] # "free"
Live(h) == {i \in Item : IsLive(h, i)}

\* The items from i on along the next pointers
ListFrom(h, i) == IF i = Null THEN <<>> ELSE <<i>> \o ListFrom(h, h.next[i])
Members(h, a) == ListFrom(h, h.child[a])

HasName(h, i) == h.name[i] # NoName /\ ~h.const[i]

Init ==
    /\ heap = [kind |-> [i \in Item |-> "free"], next |-> [i \in Item |-> Null],
               prev |-> [i \in Item |-> Null], child |-> [i \in Item |-> Null],
               name |-> [i \in Item |-> NoName], const |-> [i \in Item |-> FALSE],
               strings |-> 0, left |-> 0]
    /\ owned = {}

-----------------------------------------------------------------------------
\* Memory.

\* The end of cJSON_Delete for one item: its strings and itself
FreeItem(h, i) ==
    [kind |-> [h.kind EXCEPT ![i] = "free"], next |-> [h.next EXCEPT ![i] = Null],
     prev |-> [h.prev EXCEPT ![i] = Null], child |-> [h.child EXCEPT ![i] = Null],
     name |-> [h.name EXCEPT ![i] = NoName], const |-> [h.const EXCEPT ![i] = FALSE],
     strings |-> h.strings - (IF h.kind[i] = "str" THEN 1 ELSE 0)
                           - (IF HasName(h, i) THEN 1 ELSE 0),
     left |-> h.left]

\* cJSON_Delete: an item with all below it, and all that follow it in its list
DeleteList(h, i) ==
    IF i = Null THEN h
    ELSE DeleteList(FreeItem(DeleteList(h, h.child[i]), i), h.next[i])

\* cJSON_New_Item
NewItem(h, kind) ==
    LET free == {i \in Item : h.kind[i] = "free"}
        i == CHOOSE x \in free : TRUE
    IN  IF h.left = 0 \/ free = {} THEN <<h, Null>>
        ELSE <<[h EXCEPT !.kind[i] = kind, !.left = @ - 1], i>>

\* cJSON_strdup, where it succeeds
NewString(h) == [h EXCEPT !.strings = @ + 1, !.left = @ - 1]

\* cJSON_CreateNumber, CreateString, CreateArray, CreateObject and the like
Create(h, kind) ==
    LET r == NewItem(h, kind)
    IN  CASE r[2] = Null \/ kind # "str" -> r
          [] r[2] # Null /\ kind = "str" /\ r[1].left > 0 -> <<NewString(r[1]), r[2]>>
          [] OTHER -> <<FreeItem([r[1] EXCEPT !.kind[r[2]] = "num"], r[2]), Null>>

-----------------------------------------------------------------------------
\* Lists.

\* add_item_to_array
AddToArray(h, a, i) ==
    LET first == h.child[a]
        last == h.prev[first]
    IN  CASE i = Null \/ a = i -> <<h, FALSE>>
          [] i # Null /\ a # i /\ first = Null ->
               <<[h EXCEPT !.child[a] = i, !.prev[i] = i, !.next[i] = Null], TRUE>>
          [] OTHER ->
               IF last = Null THEN <<h, TRUE>>
               ELSE <<[h EXCEPT !.next[last] = i,
                                !.prev = [@ EXCEPT ![i] = last, ![first] = i]], TRUE>>

\* i gets the name n, and the memory of its old name is freed.
SetName(h, i, n, constant) ==
    LET h1 == IF constant THEN h ELSE NewString(h)
    IN  [h1 EXCEPT !.strings = IF HasName(h, i) THEN @ - 1 ELSE @,
                   !.name[i] = n, !.const[i] = constant]

\* add_item_to_object
AddToObject(h, o, n, i, constant) ==
    IF i = Null \/ o = i \/ (~constant /\ h.left = 0) THEN <<h, FALSE>>
    ELSE AddToArray(SetName(h, i, n, constant), o, i)

\* Mutant: the item is not deleted when it could not be added.
AddNewForgets(h, o, n, kind) ==
    LET r == Create(h, kind)
    IN  AddToObject(r[1], o, n, r[2], FALSE)

\* cJSON_AddNumberToObject and the eight others of its kind
AddNew(h, o, n, kind) ==
    LET r == Create(h, kind)
        added == AddToObject(r[1], o, n, r[2], FALSE)
    IN  IF added[2] THEN added ELSE <<DeleteList(r[1], r[2]), FALSE>>

\* cJSON_DetachItemViaPointer
Detach(h, p, i) ==
    LET first == i = h.child[p]
        h1 == IF first THEN h ELSE [h EXCEPT !.next[h.prev[i]] = h.next[i]]
        h2 == IF h.next[i] = Null THEN h1 ELSE [h1 EXCEPT !.prev[h.next[i]] = h.prev[i]]
        h3 == CASE first -> [h2 EXCEPT !.child[p] = h.next[i]]
                [] ~first /\ h.next[i] = Null -> [h2 EXCEPT !.prev[h.child[p]] = h.prev[i]]
                [] OTHER -> h2
    IN  IF i = Null THEN <<h, Null>>
        ELSE IF ~first /\ h.prev[i] = Null THEN <<h, Null>>
        ELSE <<[h3 EXCEPT !.prev[i] = Null, !.next[i] = Null], i>>

\* get_array_item, at index k from 0
ItemAt(h, a, k) == IF k < Len(Members(h, a)) THEN Members(h, a)[k + 1] ELSE Null

\* get_object_item, case sensitive or with names that differ by more
ItemNamed(h, o, n) ==
    LET k == SelectInSeq(Members(h, o), LAMBDA i : h.name[i] = n)
    IN  IF k = 0 THEN Null ELSE Members(h, o)[k]

\* cJSON_InsertItemInArray
Insert(h, a, k, i) ==
    LET after == ItemAt(h, a, k)
        h1 == [h EXCEPT !.next[i] = after,
                        !.prev = [@ EXCEPT ![i] = h.prev[after], ![after] = i]]
    IN  CASE after = Null -> AddToArray(h, a, i)
          [] after # Null /\ after = h.child[a] -> <<[h1 EXCEPT !.child[a] = i], TRUE>>
          [] OTHER -> IF h.prev[after] = Null THEN <<h, FALSE>>
                      ELSE <<[h1 EXCEPT !.next[h.prev[after]] = i], TRUE>>

\* Mutant: the case of a list with one item is forgotten.
ReplaceOnly(h, p, i, r) ==
    IF i = Null \/ h.child[p] = Null THEN <<h, FALSE>>
    ELSE LET h1 == [h EXCEPT !.next[r] = h.next[i], !.prev[r] = h.prev[i]]
             h2 == IF h.next[i] = Null THEN h1 ELSE [h1 EXCEPT !.prev[h.next[i]] = r]
             h3 == IF h.child[p] = i THEN [h2 EXCEPT !.child[p] = r]
                   ELSE [h2 EXCEPT !.next[h.prev[i]] = r]
         IN  <<DeleteList([h3 EXCEPT !.next[i] = Null, !.prev[i] = Null], i), TRUE>>

\* cJSON_ReplaceItemViaPointer
Replace(h, p, i, r) ==
    LET h1 == [h EXCEPT !.next[r] = h.next[i], !.prev[r] = h.prev[i]]
        h2 == IF h.next[i] = Null THEN h1 ELSE [h1 EXCEPT !.prev[h.next[i]] = r]
        only == h2.prev[h2.child[p]] = h2.child[p]
        before == h2.prev[r]
        h3 == IF h.child[p] = i
                THEN [h2 EXCEPT !.child[p] = r, !.prev[r] = IF only THEN r ELSE @]
                ELSE LET h4 == IF before = Null THEN h2 ELSE [h2 EXCEPT !.next[before] = r]
                     IN  IF h.next[i] # Null THEN h4 ELSE [h4 EXCEPT !.prev[h.child[p]] = r]
    IN  CASE h.child[p] = Null \/ i = Null -> <<h, FALSE>>
          [] h.child[p] # Null /\ i # Null /\ r = i -> <<h, TRUE>>
          [] OTHER -> <<DeleteList([h3 EXCEPT !.next[i] = Null, !.prev[i] = Null], i), TRUE>>

\* replace_item_in_object.  The replacement loses its name first.
ReplaceNamed(h, o, n, r) ==
    LET h1 == [h EXCEPT !.strings = IF HasName(h, r) THEN @ - 1 ELSE @, !.name[r] = NoName]
    IN  IF h.left = 0 THEN <<h1, FALSE>>
        ELSE LET h2 == [NewString(h1) EXCEPT !.name[r] = n, !.const[r] = FALSE]
             IN  Replace(h2, o, ItemNamed(h, o, n), r)

-----------------------------------------------------------------------------
\* Several items at once.

\* cJSON_CreateIntArray, CreateDoubleArray, CreateStringArray: a is Null until
\* the array is there, last is the item before.
RECURSIVE FillArray(_, _, _, _, _)
FillArray(h, a, last, n, kind) ==
    LET r == Create(h, kind)
        i == r[2]
        h1 == IF last = Null THEN [r[1] EXCEPT !.child[a] = i]
              ELSE [r[1] EXCEPT !.next[last] = i, !.prev[i] = last]
    IN  CASE n = 0 -> <<IF last = Null THEN h ELSE [h EXCEPT !.prev[h.child[a]] = last], a>>
          [] n > 0 /\ i = Null -> <<DeleteList(h, a), Null>>
          [] OTHER -> FillArray(h1, a, i, n - 1, kind)

CreateFilled(h, n, kind) ==
    LET r == Create(h, "arr") IN IF r[2] = Null THEN r ELSE FillArray(r[1], r[2], Null, n, kind)

\* The copies of item i and those that follow it become the members of `copy',
\* behind the last of those there are.
DuplicateMembers(h, i, copy) ==
    LET r == Duplicate(h, i)
        h1 == r[1]
        list == Members(h, copy)
        h2 == IF list = <<>> THEN [h1 EXCEPT !.child[copy] = r[2]]
              ELSE [h1 EXCEPT !.next[Last(list)] = r[2], !.prev[r[2]] = Last(list)]
    IN  CASE i = Null ->
               <<IF list = <<>> THEN h ELSE [h EXCEPT !.prev[list[1]] = Last(list)], copy>>
          [] i # Null /\ r[2] = Null -> <<DeleteList(h1, copy), Null>>
          [] OTHER -> DuplicateMembers(h2, h.next[i], copy)

\* cJSON_Duplicate_rec, with the members
Duplicate(h, i) ==
    LET r == Create(h, h.kind[i])
        j == r[2]
        h1 == IF HasName(h, i) THEN NewString(r[1]) ELSE r[1]
    IN  IF j = Null THEN r
        ELSE IF HasName(h, i) /\ r[1].left = 0 THEN <<FreeItem(r[1], j), Null>>
        ELSE DuplicateMembers([h1 EXCEPT !.name[j] = h.name[i], !.const[j] = h.const[i]],
                              h.child[i], j)

-----------------------------------------------------------------------------
\* The calls of the program.

Containers == {a \in Live(heap) : heap.kind[a] \in {"arr", "obj"}}
IsArray(a) == heap.kind[a] = "arr"
IsObject(a) == heap.kind[a] = "obj"

RECURSIVE Below(_, _)
Below(h, i) == {i} \union UNION {Below(h, Members(h, i)[k]) : k \in DOMAIN Members(h, i)}

\* The heap a call works on: n of its allocations will succeed.
With(n) == [heap EXCEPT !.left = n]

Returns(h) == heap' = [h EXCEPT !.left = 0]

Budget == 0 .. MaxAllocs

\* The program gets a tree, or Null.
Takes(r) ==
    /\ Cardinality(owned) < MaxOwned
    /\ Returns(r[1]) /\ owned' = owned \union ({r[2]} \ {Null})

CallCreate(n, kind) == Takes(Create(With(n), kind))
CallCreateFilled(n, size, kind) == Takes(CreateFilled(With(n), size, kind))
CallDuplicate(n, i) == Takes(Duplicate(With(n), i))
CallDetach(a, k) == IsArray(a) /\ Takes(Detach(heap, a, ItemAt(heap, a, k)))
CallDetachNamed(o, m) == IsObject(o) /\ Takes(Detach(heap, o, ItemNamed(heap, o, m)))

\* What is given away and refused stays with the program.
Gives(r, i) == Returns(r[1]) /\ owned' = IF r[2] THEN owned \ {i} ELSE owned

CallAddToArray(a, i) == IsArray(a) /\ Gives(AddToArray(heap, a, i), i)
CallInsert(a, k, i) == IsArray(a) /\ Gives(Insert(heap, a, k, i), i)
CallAddToObject(n, o, m, i, constant) ==
    IsObject(o) /\ Gives(AddToObject(With(n), o, m, i, constant), i)
CallReplace(a, k, i) == IsArray(a) /\ Gives(Replace(heap, a, ItemAt(heap, a, k), i), i)
CallReplaceNamed(n, o, m, i) == IsObject(o) /\ Gives(ReplaceNamed(With(n), o, m, i), i)

CallAddNew(n, o, m, kind) ==
    /\ IsObject(o)
    /\ Returns(AddNew(With(n), o, m, kind)[1])
    /\ UNCHANGED owned

\* cJSON_DeleteItemFromArray and cJSON_DeleteItemFromObject
Deletes(r) == Returns(DeleteList(r[1], r[2])) /\ UNCHANGED owned

CallDeleteFrom(a, k) == IsArray(a) /\ Deletes(Detach(heap, a, ItemAt(heap, a, k)))
CallDeleteNamed(o, m) == IsObject(o) /\ Deletes(Detach(heap, o, ItemNamed(heap, o, m)))

CallDelete(i) == Returns(DeleteList(heap, i)) /\ owned' = owned \ {i}

\* n ranges over the allocations that each call makes.
Next ==
    \/ \E n \in 0 .. 2, kind \in Kind : CallCreate(n, kind)
    \/ \E n \in 0 .. 3, kind \in Kind, o \in Containers, m \in Name : CallAddNew(n, o, m, kind)
    \/ \E n \in 0 .. 1, o \in Containers, m \in Name, i \in owned :
        /\ o \notin Below(heap, i)
        /\ \/ \E constant \in BOOLEAN : CallAddToObject(n, o, m, i, constant)
           \/ CallReplaceNamed(n, o, m, i)
    \/ \E n \in Budget :
        \/ \E size \in 0 .. 2, kind \in Kind \ {"arr", "obj"} : CallCreateFilled(n, size, kind)
        \/ \E i \in Live(heap) : CallDuplicate(n, i)
    \/ \E a \in Containers, k \in 0 .. Cardinality(Item) :
        \/ CallDetach(a, k) \/ CallDeleteFrom(a, k)
        \/ \E i \in owned : a \notin Below(heap, i) /\ (CallInsert(a, k, i) \/ CallReplace(a, k, i))
    \/ \E a \in Containers, i \in owned : a \notin Below(heap, i) /\ CallAddToArray(a, i)
    \/ \E o \in Containers, m \in Name : CallDetachNamed(o, m) \/ CallDeleteNamed(o, m)
    \/ \E i \in owned : CallDelete(i)

Spec == Init /\ [][Next]_vars

-----------------------------------------------------------------------------

RECURSIVE DeleteAll(_, _)
DeleteAll(h, roots) ==
    IF roots = {} THEN h
    ELSE LET i == CHOOSE x \in roots : TRUE IN DeleteAll(DeleteList(h, i), roots \ {i})

(* Whatever failed before, deleting what the program owns frees every item  *)
(* and every string, each of them once.                                     *)
NothingLeaks ==
    LET h == DeleteAll(heap, owned) IN Live(h) = {} /\ h.strings = 0

Forest == INSTANCE JsonForest WITH
    kids <- [i \in Live(heap) |-> Members(heap, i)],
    name <- [i \in Live(heap) |-> heap.name[i]],
    mine <- owned

(* The links, of which one that is wrong is followed only by a later call,  *)
(* implement the forest of module JsonForest: a call that runs out of       *)
(* memory half-way leaves no trace but a name, a copy has the shape of its  *)
(* original, and a replaced or deleted member takes just what is below it   *)
(* along.                                                                   *)
ImplementsForest == Forest!Spec

=============================================================================
