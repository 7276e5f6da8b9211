------------------------------ MODULE JsonValue ------------------------------
(***************************************************************************)
(* The documents of the vendored cJSON library as its callers see them.    *)
(*                                                                         *)
(* A container is its tag, its members and `back', which says where the    *)
(* prev pointer of the first member leads: cJSON appends behind it, so it  *)
(* has to be the last member.  It is 0 for NULL and Outside when the item  *)
(* it leads to has left the container.  All other prev pointers are right  *)
(* in every list the library builds (JsonItems).                           *)
(*                                                                         *)
(* A member is a pair <<name, value>>.  Names and strings are sequences of *)
(* bytes.  Numbers are integers.                                           *)
(***************************************************************************)
EXTENDS Integers, Sequences, SequencesExt

NoName == <<0>>       \* the NULL name of array items: no string holds a zero
NoValue == <<"none">> \* a NULL item
Outside == -1

Arr(items) == <<"arr", items, Len(items)>>
Obj(items) == <<"obj", items, Len(items)>>
Num(n) == <<"num", n>>
Str(s) == <<"str", s>>
Tag(v) == v[1]
Items(v) == v[2]
Back(v) == v[3]
IsArray(v) == Tag(v) = "arr"
IsObject(v) == Tag(v) = "obj"
IsContainer(v) == IsArray(v) \/ IsObject(v)

\* tolower of the C locale
Lower(s) == [i \in DOMAIN s |-> IF s[i] \in 65 .. 90 THEN s[i] + 32 ELSE s[i]]
SameName(m, n, exact) == IF exact THEN m = n ELSE Lower(m) = Lower(n)

\* compare_strings(s, t) < 0
Less(s, t, exact) ==
    LET a == IF exact THEN s ELSE Lower(s)
        b == IF exact THEN t ELSE Lower(t)
        same == LongestCommonPrefix({a, b})
        n == Len(same)
    IN  n < Len(b) /\ (n = Len(a) \/ a[n + 1] < b[n + 1])

-----------------------------------------------------------------------------
\* The list operations; an index of a member counts from 1.

\* add_item_to_array.  With a NULL behind the first item nothing happens, with
\* a pointer to an item that has left the item is linked behind that one: in
\* both cases the caller is told that it was added, and the list is unchanged.
AddItem(v, m) ==
    CASE Items(v) = <<>> -> <<Tag(v), <<m>>, 1>>
      [] Items(v) # <<>> /\ Back(v) \in {0, Outside} -> v
      [] OTHER -> <<Tag(v), Append(SubSeq(Items(v), 1, Back(v)), m), Back(v) + 1>>

\* Mutant: when the last item leaves, the pointer still leads to it.
DetachItemForgets(v, i) ==
    LET b == Back(v)
    IN  <<Tag(v), RemoveAt(Items(v), i),
          CASE b > i -> b - 1
            [] b = i -> Outside
            [] OTHER -> b>>

\* cJSON_DetachItemViaPointer and detach_item_from_array
DetachItem(v, i) ==
    LET last == Len(Items(v))
        b == Back(v)
    IN  <<Tag(v), RemoveAt(Items(v), i),
          CASE last = 1 -> 0
            [] last > 1 /\ i = last -> i - 1
            [] i < last /\ b > i -> b - 1
            [] i < last /\ b = i -> Outside
            [] OTHER -> b>>

\* insert_item_in_array, with an index that is not behind the end
InsertItem(v, i, m) ==
    IF i > Len(Items(v)) THEN AddItem(v, m)
    ELSE <<Tag(v), InsertAt(Items(v), i, m),
           IF Back(v) >= i THEN Back(v) + 1 ELSE Back(v)>>

\* get_object_item: the index of the first member of that name, or 0.
FindMember(v, name, exact) ==
    SelectInSeq(Items(v), LAMBDA m : SameName(name, m[1], exact))

\* cJSON_GetObjectItem and its kin: nothing is found in what has no members.
GetMember(v, name, exact) ==
    IF ~IsContainer(v) \/ FindMember(v, name, exact) = 0 THEN NoValue
    ELSE Items(v)[FindMember(v, name, exact)][2]

\* cJSON_DetachItemFromObject and cJSON_DeleteItemFromObject
WithoutMember(v, name, exact) ==
    LET i == IF IsContainer(v) THEN FindMember(v, name, exact) ELSE 0
    IN  IF i = 0 THEN v ELSE DetachItem(v, i)

RECURSIVE Duplicate(_)

\* cJSON_Duplicate_rec, with memory: the copy's lists are linked afresh.
Duplicate(v) ==
    IF ~IsContainer(v) THEN v
    ELSE <<Tag(v), [i \in DOMAIN Items(v) |->
                      <<Items(v)[i][1], Duplicate(Items(v)[i][2])>>],
           Len(Items(v))>>

-----------------------------------------------------------------------------
\* Sorting.

RECURSIVE MergeLists(_, _, _), SortList(_, _)

\* The merge of sort_list: of two equal names the second list's goes first.
MergeLists(s, t, exact) ==
    CASE s = <<>> -> t
      [] t = <<>> -> s
      [] OTHER -> IF Less(Head(s)[1], Head(t)[1], exact)
                    THEN <<Head(s)>> \o MergeLists(Tail(s), t, exact)
                    ELSE <<Head(t)>> \o MergeLists(s, Tail(t), exact)

InOrder(s, exact) ==
    \A i \in 1 .. Len(s) - 1 : Less(s[i][1], s[i + 1][1], exact)

SortList(s, exact) ==
    IF InOrder(s, exact) THEN s
    ELSE LET half == (Len(s) + 1) \div 2
         IN  MergeLists(SortList(SubSeq(s, 1, half), exact),
                        SortList(SubSeq(s, half + 1, Len(s)), exact), exact)

\* Mutant: the object is left as it was.
SortObjectKeeps(v, exact) == v

\* sort_object.  The first item of a list in disorder is one of two: the item
\* that was the first before, whose prev still leads to the former last one,
\* or the head of a second half, whose prev was cleared when it was split off.
SortObject(v, exact) ==
    LET old == Items(v)
        sorted == SortList(old, exact)
        b == Back(v)
    IN  IF InOrder(old, exact) THEN v
        ELSE <<Tag(v), sorted,
               CASE sorted[1] # old[1] -> 0
                 [] sorted[1] = old[1] /\ b > 0 ->
                      SelectInSeq(sorted, LAMBDA m : m = old[b])
                 [] OTHER -> b>>

-----------------------------------------------------------------------------
\* Comparing.

RECURSIVE Compare(_, _, _), CompareJson(_, _, _), CompareItems(_, _, _, _)

\* Mutant: the second pass over the objects is missing.
CompareOneWay(a, b, exact) ==
    CASE Tag(a) # Tag(b) -> FALSE
      [] IsObject(a) /\ IsObject(b) ->
           \A i \in DOMAIN Items(a) :
              LET m == Items(a)[i]
              IN  /\ FindMember(b, m[1], exact) # 0
                  /\ Compare(m[2], GetMember(b, m[1], exact), exact)
      [] OTHER -> a = b

\* cJSON_Compare: objects are compared twice, once from either side.
Compare(a, b, exact) ==
    LET covers(x, y) ==
          \A i \in DOMAIN Items(x) :
              LET m == Items(x)[i]
              IN  /\ FindMember(y, m[1], exact) # 0
                  /\ Compare(m[2], GetMember(y, m[1], exact), exact)
    IN  CASE Tag(a) # Tag(b) -> FALSE
          [] IsArray(a) /\ IsArray(b) ->
               /\ Len(Items(a)) = Len(Items(b))
               /\ \A i \in DOMAIN Items(a) :
                     Compare(Items(a)[i][2], Items(b)[i][2], exact)
          [] IsObject(a) /\ IsObject(b) -> covers(a, b) /\ covers(b, a)
          [] OTHER -> a = b

\* The loop of compare_json over two lists; it stops at the first difference.
\* Returned are the verdict and what the comparison made of the two lists.
CompareItems(s, t, exact, named) ==
    IF s = <<>> \/ t = <<>> THEN <<s = t, s, t>>
    ELSE IF named /\ ~SameName(Head(s)[1], Head(t)[1], exact) THEN <<FALSE, s, t>>
    ELSE LET with(c, rest) ==
               <<rest[1], <<<<Head(s)[1], c[2]>>>> \o rest[2], <<<<Head(t)[1], c[3]>>>> \o rest[3]>>
             behind(c) ==
               with(c, IF c[1] THEN CompareItems(Tail(s), Tail(t), exact, named)
                       ELSE <<FALSE, Tail(s), Tail(t)>>)
         IN  behind(CompareJson(Head(s)[2], Head(t)[2], exact))

\* compare_json.  It sorts the objects it meets, in both documents.
CompareJson(a, b, exact) ==
    IF Tag(a) # Tag(b) \/ a = NoValue THEN <<FALSE, a, b>>
    ELSE IF ~IsContainer(a) THEN <<a = b, a, b>>
    ELSE LET made(a1, b1, c) ==
               <<c[1], <<Tag(a), c[2], Back(a1)>>, <<Tag(b), c[3], Back(b1)>>>>
             both(a1, b1) == made(a1, b1, CompareItems(Items(a1), Items(b1), exact, IsObject(a)))
         IN  IF IsObject(a) THEN both(SortObject(a, exact), SortObject(b, exact)) ELSE both(a, b)

-----------------------------------------------------------------------------
\* What the properties refer to.

RECURSIVE Meaning(_), WellLinked(_), Names(_)

\* The JSON value a document stands for: the members of an object have no
\* order, and where a list's pointers lead is no part of it.
Meaning(v) ==
    CASE IsArray(v) ->
           <<"arr", [i \in DOMAIN Items(v) |-> Meaning(Items(v)[i][2])]>>
      [] IsObject(v) ->
           <<"obj", {<<Items(v)[i][1], Meaning(Items(v)[i][2])>> : i \in DOMAIN Items(v)}>>
      [] OTHER -> v

\* An item added to any container of v is found at its end.
WellLinked(v) ==
    IsContainer(v) => /\ Back(v) = Len(Items(v))
                      /\ \A i \in DOMAIN Items(v) : WellLinked(Items(v)[i][2])

\* The names of all members.
Names(v) ==
    IF ~IsContainer(v) THEN {}
    ELSE UNION {Names(Items(v)[i][2]) : i \in DOMAIN Items(v)}
           \union (IF IsObject(v) THEN {Items(v)[i][1] : i \in DOMAIN Items(v)} ELSE {})

=============================================================================
