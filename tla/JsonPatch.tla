------------------------------ MODULE JsonPatch ------------------------------
(***************************************************************************)
(* cJSON_Utils.c: JSON pointers, patches (RFC 6902) and merge patches      *)
(* (RFC 7396), applied to documents and generated from two of them.        *)
(*                                                                         *)
(* A pointer is the sequence of its tokens, still escaped; one that is not *)
(* empty begins with a slash.  A patch is a record of the members that     *)
(* apply_patch looks up, with NoPath and NoValue for those it lacks.       *)
(* `exact' tells the CaseSensitive functions from the others.  There is    *)
(* memory for everything (JsonItems is about when there is not).           *)
(***************************************************************************)
EXTENDS JsonValue

NoPath == <<<<-1>>>>      \* where there is no pointer
Nowhere == <<-1>>         \* where a pointer leads nowhere
Invalid == <<"invalid">>  \* what removing the whole document leaves of it

Tilde == 126
Slash == 47
Zero == 48
Dash == <<45>>         \* "-", the place behind the last item of an array

-----------------------------------------------------------------------------
\* Pointers.

RECURSIVE Unescape(_), Decode(_, _, _, _), Find(_, _, _), Put(_, _, _), Digits(_)

\* What a token means, or Nowhere.  compare_pointers unescapes as it compares.
Unescape(tok) ==
    IF tok = <<>> THEN <<>>
    ELSE LET esc == Head(tok) = Tilde
             ok == ~esc \/ (Len(tok) > 1 /\ tok[2] \in {Zero, Zero + 1})
             rest == IF ~ok THEN Nowhere
                     ELSE Unescape(SubSeq(tok, IF esc THEN 3 ELSE 2, Len(tok)))
             char == CASE ~esc -> Head(tok) [] tok[2] = Zero -> Tilde [] OTHER -> Slash
         IN  IF rest = Nowhere THEN Nowhere ELSE <<char>> \o rest

\* compare_pointers
TokenMatches(name, tok, exact) ==
    Unescape(tok) # Nowhere /\ SameName(name, Unescape(tok), exact)

\* encode_string_as_pointer
Escape(name) ==
    FlattenSeq([i \in DOMAIN name |->
        CASE name[i] = Tilde -> <<Tilde, Zero>>
          [] name[i] = Slash -> <<Tilde, Zero + 1>>
          [] OTHER -> <<name[i]>>])

\* decode_pointer_inplace, at character r with d of the result: characters
\* that are not escaped stay where they are, and the slash lands one too far.
Decode(buf, tok, r, d) ==
    CASE r > Len(tok) -> SubSeq(buf, 1, d - 1)
      [] r <= Len(tok) /\ tok[r] # Tilde -> Decode(buf, tok, r + 1, d + 1)
      [] r < Len(tok) /\ tok[r] = Tilde /\ tok[r + 1] = Zero ->
           Decode([buf EXCEPT ![d] = Tilde], tok, r + 2, d + 1)
      [] r < Len(tok) /\ tok[r] = Tilde /\ tok[r + 1] = Zero + 1 ->
           Decode([buf EXCEPT ![d + 1] = Slash], tok, r + 2, d + 1)
      [] OTHER -> buf

\* Mutant: the last token is taken as it is.
DecodedNot(tok) == tok

Decoded(tok) == Decode(tok, tok, 1, 1)

\* decode_array_index_from_pointer: the empty token is the index 0.
IsIndex(tok) ==
    /\ \A i \in DOMAIN tok : tok[i] \in Zero .. Zero + 9
    /\ Len(tok) > 1 => tok[1] # Zero

IndexOf(tok) == FoldLeft(LAMBDA n, c : 10 * n + c - Zero, 0, tok)

\* The place of the member a token names, or 0.
Place(v, tok, exact) ==
    CASE IsArray(v) ->
           IF IsIndex(tok) /\ IndexOf(tok) < Len(Items(v)) THEN IndexOf(tok) + 1 ELSE 0
      [] IsObject(v) ->
           SelectInSeq(Items(v), LAMBDA m : TokenMatches(m[1], tok, exact))
      [] OTHER -> 0

\* get_item_from_pointer: the places on the way to the item, or Nowhere.
Find(v, path, exact) ==
    IF path = <<>> THEN <<>>
    ELSE LET i == Place(v, Head(path), exact)
             rest == IF i = 0 THEN Nowhere ELSE Find(Items(v)[i][2], Tail(path), exact)
         IN  IF rest = Nowhere THEN Nowhere ELSE <<i>> \o rest

At(v, places) == FoldLeft(LAMBDA w, i : Items(w)[i][2], v, places)

\* The document with w in place of the item there.
Put(v, places, w) ==
    LET i == Head(places)
        m == Items(v)[i]
    IN  IF places = <<>> THEN w
        ELSE <<Tag(v),
               InsertAt(RemoveAt(Items(v), i), i, <<m[1], Put(m[2], Tail(places), w)>>),
               Back(v)>>

Lookup(v, path, exact) ==
    LET p == Find(v, path, exact) IN IF p = Nowhere THEN NoValue ELSE At(v, p)

Digits(n) == IF n < 10 THEN <<Zero + n>> ELSE Digits(n \div 10) \o <<Zero + (n % 10)>>

\* Mutant: names go into the pointer as they are.
PointerToRaw(v, places) ==
    [k \in DOMAIN places |->
        LET parent == At(v, SubSeq(places, 1, k - 1))
        IN  IF IsArray(parent) THEN Digits(places[k] - 1) ELSE Items(parent)[places[k]][1]]

\* cJSONUtils_FindPointerFromObjectTo the item at these places
PointerTo(v, places) ==
    [k \in DOMAIN places |->
        LET parent == At(v, SubSeq(places, 1, k - 1))
        IN  IF IsArray(parent) THEN Digits(places[k] - 1)
            ELSE Escape(Items(parent)[places[k]][1])]

\* Where the item is that a path leads into, or Nowhere.
Parent(v, path, exact) == IF path = <<>> THEN Nowhere ELSE Find(v, Front(path), exact)

\* The end of detach_path, with the decoded last token.  It ignores the case of
\* names.
DetachFrom(v, places, tok) ==
    LET parent == IF places = Nowhere THEN NoValue ELSE At(v, places)
        i == CASE IsArray(parent) ->
                    IF IsIndex(tok) /\ IndexOf(tok) < Len(Items(parent))
                      THEN IndexOf(tok) + 1 ELSE 0
               [] IsObject(parent) -> FindMember(parent, tok, FALSE)
               [] OTHER -> 0
    IN  IF i = 0 THEN <<v, NoValue>>
        ELSE <<Put(v, places, DetachItem(parent, i)), Items(parent)[i][2]>>

\* detach_path: what is left and what was detached.
DetachPath(v, path, exact) ==
    DetachFrom(v, Parent(v, path, exact), Decoded(Last(path)))

-----------------------------------------------------------------------------
\* Patches.

\* The end of apply_patch: the value is put into what is there.
AddInto(v, places, tok, value, exact) ==
    LET parent == IF places = Nowhere THEN NoValue ELSE At(v, places)
        replaced(w) == <<0, Put(v, places, w)>>
    IN  CASE IsArray(parent) /\ tok = Dash -> replaced(AddItem(parent, <<NoName, value>>))
          [] IsArray(parent) /\ tok # Dash /\ ~IsIndex(tok) -> <<11, v>>
          [] IsArray(parent) /\ tok # Dash /\ IsIndex(tok) ->
               IF IndexOf(tok) > Len(Items(parent)) THEN <<10, v>>
               ELSE replaced(InsertItem(parent, IndexOf(tok) + 1, <<NoName, value>>))
          [] IsObject(parent) ->
               replaced(AddItem(WithoutMember(parent, tok, exact), <<tok, value>>))
          [] OTHER -> <<9, v>>

\* Mutant: a value is added without a look at what has that name already.
AddAtTwice(v, path, value, exact) ==
    LET places == Parent(v, path, exact)
    IN  IF places = Nowhere \/ ~IsObject(At(v, places)) THEN <<9, v>>
        ELSE <<0, Put(v, places,
                      AddItem(At(v, places), <<Decoded(Last(path)), value>>))>>

\* The value is put where the path leads.
AddAt(v, path, value, exact) ==
    AddInto(v, Parent(v, path, exact), Decoded(Last(path)), value, exact)

\* The operation "test", of the item at these places; comparing may sort it.
Test(v, places, value, exact) ==
    LET found(c) == <<IF c[1] THEN 0 ELSE 1, Put(v, places, c[2])>>
    IN  IF places = Nowhere THEN <<1, v>> ELSE found(CompareJson(At(v, places), value, exact))

\* What an operation leaves of the document before it adds to it, and what it
\* took out of it or is to copy.
Taken(v, p, exact) ==
    LET path == IF p.op = "move" THEN p.from ELSE p.path
    IN  CASE p.op \in {"remove", "replace", "move"} /\ path # NoPath ->
               DetachPath(v, path, exact)
          [] p.op = "copy" /\ p.from # NoPath -> <<v, Lookup(v, p.from, exact)>>
          [] OTHER -> <<v, NoValue>>

\* apply_patch behind the point where that is known
ApplyTaken(v, p, taken, exact) ==
    LET found == taken[2] # NoValue
        between == p.op \in {"move", "copy"}
        value == IF between THEN taken[2] ELSE p.value
    IN  CASE p.op \in {"remove", "replace"} /\ ~found -> <<13, v>>
          [] p.op = "remove" /\ found -> <<0, taken[1]>>
          [] between /\ ~found -> <<IF p.from = NoPath THEN 4 ELSE 5, v>>
          [] OTHER ->
               IF value = NoValue THEN <<7, taken[1]>>
               ELSE AddAt(taken[1], p.path, IF p.op = "move" THEN value ELSE Duplicate(value), exact)

\* apply_patch: the status and the document.
ApplyPatch(v, p, exact) ==
    CASE p.path = NoPath -> <<2, v>>
      [] p.path # NoPath /\ p.op = "other" -> <<3, v>>
      [] p.path # NoPath /\ p.op = "test" -> Test(v, Find(v, p.path, exact), p.value, exact)
      [] p.path = <<>> /\ p.op = "remove" -> <<0, Invalid>>
      [] p.path = <<>> /\ p.op \in {"add", "replace"} ->
           IF p.value = NoValue THEN <<7, v>> ELSE <<0, Duplicate(p.value)>>
      [] OTHER -> ApplyTaken(v, p, Taken(v, p, exact), exact)

\* cJSONUtils_ApplyPatches: the first that fails is the last.
ApplyPatches(v, patches, exact) ==
    FoldLeft(LAMBDA r, p : IF r[1] # 0 THEN r ELSE ApplyPatch(r[2], p, exact),
             <<0, v>>, patches)

-----------------------------------------------------------------------------
\* Generating patches.

RECURSIVE CreatePatches(_, _, _, _), WalkPatches(_, _, _, _), Sorted(_, _, _)

\* compose_patch
Composed(op, path, value) == [op |-> op, path |-> path, from |-> NoPath, value |-> value]

\* create_patches, into an empty array.  Each item left over in an array is
\* removed at the same index.
CreatePatches(path, a, b, exact) ==
    LET m == Len(Items(a))
        n == Len(Items(b))
        both == IF m < n THEN m ELSE n
    IN  CASE Tag(a) # Tag(b) -> <<Composed("replace", path, b)>>
          [] IsArray(a) /\ IsArray(b) ->
               FlattenSeq([i \in 1 .. both |->
                  CreatePatches(Append(path, Digits(i - 1)),
                                Items(a)[i][2], Items(b)[i][2], exact)])
                 \o [i \in 1 .. m - both |->
                       Composed("remove", Append(path, Digits(both)), NoValue)]
                 \o [i \in 1 .. n - both |->
                       Composed("add", Append(path, Dash), Items(b)[both + i][2])]
          [] IsObject(a) /\ IsObject(b) ->
               WalkPatches(path, Items(SortObject(a, exact)),
                           Items(SortObject(b, exact)), exact)
          [] OTHER -> IF a = b THEN <<>> ELSE <<Composed("replace", path, b)>>

\* The loop of create_patches over the members of two objects
WalkPatches(path, s, t, exact) ==
    LET here(m) == Append(path, Escape(m[1]))
        first == s # <<>> /\ (t = <<>> \/ Less(Head(s)[1], Head(t)[1], exact))
        second == t # <<>> /\ (s = <<>> \/ Less(Head(t)[1], Head(s)[1], exact))
    IN  CASE s = <<>> /\ t = <<>> -> <<>>
          [] first -> <<Composed("remove", here(Head(s)), NoValue)>>
                        \o WalkPatches(path, Tail(s), t, exact)
          [] second -> <<Composed("add", here(Head(t)), Head(t)[2])>>
                         \o WalkPatches(path, s, Tail(t), exact)
          [] OTHER -> CreatePatches(here(Head(s)), Head(s)[2], Head(t)[2], exact)
                        \o WalkPatches(path, Tail(s), Tail(t), exact)

\* What create_patches makes of its argument a, the other one being b: it sorts
\* the objects that it compares.
Sorted(a, b, exact) ==
    IF ~IsContainer(a) \/ Tag(a) # Tag(b) THEN a
    ELSE LET other(m, i) ==
               CASE IsObject(a) -> GetMember(b, m[1], exact)
                 [] IsArray(a) /\ i <= Len(Items(b)) -> Items(b)[i][2]
                 [] OTHER -> NoValue
             within(a1) ==
               <<Tag(a), [i \in DOMAIN Items(a1) |->
                            LET m == Items(a1)[i] IN <<m[1], Sorted(m[2], other(m, i), exact)>>],
                 Back(a1)>>
         IN  within(IF IsObject(a) THEN SortObject(a, exact) ELSE a)

\* cJSONUtils_GeneratePatches: the patches, and what became of the documents.
GeneratePatches(a, b, exact) ==
    <<CreatePatches(<<>>, a, b, exact), Sorted(a, b, exact), Sorted(b, a, exact)>>

-----------------------------------------------------------------------------
\* Merge patches.

RECURSIVE MergePatch(_, _, _), GenerateMerge(_, _, _), WalkMerge(_, _, _)

\* Mutant: a null of the patch is taken over as a value.
MergePatchKeepsNull(v, p, exact) ==
    IF ~IsObject(p) THEN Duplicate(p)
    ELSE FoldLeft(LAMBDA w, m : AddItem(WithoutMember(w, m[1], exact), m),
                  IF IsObject(v) THEN v ELSE Obj(<<>>), Items(p))

\* merge_patch
MergePatch(v, p, exact) ==
    IF ~IsObject(p) THEN Duplicate(p)
    ELSE FoldLeft(LAMBDA w, m :
                    IF m[2] = <<"null">> THEN WithoutMember(w, m[1], exact)
                    ELSE AddItem(WithoutMember(w, m[1], exact),
                                 <<m[1], MergePatch(GetMember(w, m[1], exact), m[2], exact)>>),
                  IF IsObject(v) THEN v ELSE Obj(<<>>), Items(p))

\* generate_merge_patch: the patch, or NoValue, and what became of the two.
GenerateMerge(a, b, exact) ==
    IF ~IsObject(a) \/ ~IsObject(b) THEN <<Duplicate(b), a, b>>
    ELSE LET made(a1, b1, w) ==
               <<IF w[1] = <<>> THEN NoValue ELSE Obj(w[1]),
                 <<"obj", w[2], Back(a1)>>, <<"obj", w[3], Back(b1)>>>>
             both(a1, b1) == made(a1, b1, WalkMerge(Items(a1), Items(b1), exact))
         IN  both(SortObject(a, exact), SortObject(b, exact))

\* The loop of generate_merge_patch.  Names are compared with their case, and
\* members of the same name without it, whatever `exact' says.
WalkMerge(s, t, exact) ==
    LET first == s # <<>> /\ (t = <<>> \/ Less(Head(s)[1], Head(t)[1], TRUE))
        second == t # <<>> /\ (s = <<>> \/ Less(Head(t)[1], Head(s)[1], TRUE))
        named(m, v) == IF v = NoValue THEN <<>> ELSE <<<<m[1], v>>>>
        changed(c) ==
          IF c[1] THEN <<NoValue, c[2], c[3]>> ELSE GenerateMerge(c[2], c[3], FALSE)
        both(g, rest) == <<named(Head(t), g[1]) \o rest[1],
                           named(Head(s), g[2]) \o rest[2], named(Head(t), g[3]) \o rest[3]>>
        before(rest) ==
          CASE first -> <<named(Head(s), <<"null">>) \o rest[1], <<Head(s)>> \o rest[2], rest[3]>>
            [] second -> <<named(Head(t), Duplicate(Head(t)[2])) \o rest[1],
                           rest[2], <<Head(t)>> \o rest[3]>>
            [] OTHER -> both(changed(CompareJson(Head(s)[2], Head(t)[2], exact)), rest)
    IN  IF s = <<>> /\ t = <<>> THEN <<<<>>, <<>>, <<>>>>
        ELSE before(WalkMerge(IF second THEN s ELSE Tail(s),
                              IF first THEN t ELSE Tail(t), exact))

-----------------------------------------------------------------------------
\* What the RFCs say, of the values that documents stand for (see Meaning).

RECURSIVE RefAt(_, _), RefPut(_, _, _), RefMerge(_, _)

RefFails == <<"fails">>

Without(members, name) == {m \in members : m[1] # name}

RefMember(v, tok) ==
    CASE Tag(v) = "arr" /\ tok # <<>> /\ IsIndex(tok) /\ IndexOf(tok) < Len(v[2]) ->
           v[2][IndexOf(tok) + 1]
      [] Tag(v) = "obj" /\ \E m \in v[2] : m[1] = Unescape(tok) ->
           (CHOOSE m \in v[2] : m[1] = Unescape(tok))[2]
      [] OTHER -> RefFails

\* The value that a pointer identifies
RefAt(v, path) ==
    IF path = <<>> \/ v = RefFails THEN v ELSE RefAt(RefMember(v, Head(path)), Tail(path))

\* v with w in the place that path names
RefPut(v, path, w) ==
    CASE path = <<>> -> w
      [] path # <<>> /\ Tag(v) = "arr" ->
           LET i == IndexOf(Head(path)) + 1
           IN  <<"arr", InsertAt(RemoveAt(v[2], i), i, RefPut(v[2][i], Tail(path), w))>>
      [] OTHER ->
           <<"obj", Without(v[2], Unescape(Head(path))) \union
                      {<<Unescape(Head(path)),
                         RefPut(RefMember(v, Head(path)), Tail(path), w)>>}>>

RefRemove(v, path) ==
    LET w == RefAt(v, Front(path))
        tok == Last(path)
    IN  CASE path = <<>> \/ w = RefFails \/ RefMember(w, tok) = RefFails -> RefFails
          [] OTHER ->
               RefPut(v, Front(path),
                      IF Tag(w) = "arr" THEN <<"arr", RemoveAt(w[2], IndexOf(tok) + 1)>>
                      ELSE <<"obj", Without(w[2], Unescape(tok))>>)

RefAdd(v, path, value) ==
    LET w == RefAt(v, Front(path))
        tok == Last(path)
        into == CASE Tag(w) = "arr" /\ tok = Dash -> <<"arr", Append(w[2], value)>>
                  [] Tag(w) = "arr" /\ tok \notin {Dash, <<>>} /\ IsIndex(tok) ->
                       IF IndexOf(tok) <= Len(w[2])
                         THEN <<"arr", InsertAt(w[2], IndexOf(tok) + 1, value)>>
                         ELSE RefFails
                  [] Tag(w) = "obj" /\ Unescape(tok) # Nowhere ->
                       <<"obj", Without(w[2], Unescape(tok)) \union {<<Unescape(tok), value>>}>>
                  [] OTHER -> RefFails
    IN  CASE v = RefFails \/ value = RefFails -> RefFails
          [] path = <<>> /\ v # RefFails /\ value # RefFails -> value
          [] OTHER -> IF into = RefFails THEN RefFails ELSE RefPut(v, Front(path), into)

\* RFC 6902, of an operation with the members it needs
RefApply(v, p) ==
    CASE p.op = "test" -> IF RefAt(v, p.path) = Meaning(p.value) THEN v ELSE RefFails
      [] p.op = "remove" -> RefRemove(v, p.path)
      [] p.op = "add" -> RefAdd(v, p.path, Meaning(p.value))
      [] p.op = "copy" -> RefAdd(v, p.path, RefAt(v, p.from))
      [] p.op = "move" -> RefAdd(RefRemove(v, p.from), p.path, RefAt(v, p.from))
      [] OTHER -> IF p.path = <<>> THEN Meaning(p.value)
                  ELSE RefAdd(RefRemove(v, p.path), p.path, Meaning(p.value))

\* RFC 7396
RefMerge(v, p) ==
    IF Tag(p) # "obj" THEN p
    ELSE LET old == IF Tag(v) = "obj" THEN v[2] ELSE {}
             name == {m[1] : m \in p[2]}
             value(n) == (CHOOSE m \in p[2] : m[1] = n)[2]
             was(n) == IF \E m \in old : m[1] = n
                         THEN (CHOOSE m \in old : m[1] = n)[2] ELSE RefFails
         IN  <<"obj", {m \in old : m[1] \notin name}
                        \union {<<n, RefMerge(was(n), value(n))>> :
                                n \in {k \in name : value(k) # <<"null">>}}>>

=============================================================================
