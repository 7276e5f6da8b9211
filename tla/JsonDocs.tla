------------------------------- MODULE JsonDocs -------------------------------
(***************************************************************************)
(* A program that keeps one JSON document with the vendored cJSON library: *)
(* it reads the document from text, sorts it, edits it by patches and      *)
(* merge patches, compares it with others and prints it.  The library      *)
(* keeps no state of its own; what makes a sequence of its calls go wrong  *)
(* are the pointers and the order that a call leaves in the document.      *)
(*                                                                         *)
(* The firmware itself uses less: it builds documents, prints and frees    *)
(* them (web_server.c).                                                    *)
(***************************************************************************)
EXTENDS JsonText, JsonPatch

CONSTANTS
    Texts,    \* texts that may be read
    Values,   \* documents to begin with, to merge and to compare with
    Patches,  \* operations of patches that may be applied
    MaxSize   \* bound on the size of the document

VARIABLES
    doc,  \* the document
    sorts \* history: is the last call one of those that sort?

vars == <<doc, sorts>>

RECURSIVE Size(_), Depth(_), Strings(_), Places(_)

Size(v) == IF ~IsContainer(v) THEN 1
           ELSE FoldLeft(LAMBDA n, m : n + Size(m[2]), 1, Items(v))

\* cJSON_Parse, which does not mind what follows the document.
Read(t) == Parse(t, FALSE)

Init == doc \in Values /\ sorts = FALSE

Becomes(v) == Size(v) <= MaxSize /\ doc' = v

\* A text is read with cJSON_Parse or, if it has to be the `whole' text, with
\* cJSON_ParseWithOpts.  One that is none leaves the program with what it had.
ReadText(t, whole) ==
    /\ LET read(r) == IF r[1] THEN r[2] ELSE doc
       IN  doc' = read(IF whole THEN Parse(t, TRUE) ELSE Read(t))
    /\ sorts' = FALSE

\* The document is printed, and read again from there.
Reread(format) ==
    /\ doc # Invalid
    /\ LET read(r) == r[1] /\ doc' = r[2] IN read(Read(Rendered(doc, format)))
    /\ sorts' = FALSE

\* cJSONUtils_ApplyPatches with one operation
Apply(p, exact) ==
    /\ Becomes(ApplyPatch(doc, p, exact)[2])
    /\ sorts' = (p.op = "test")

\* cJSONUtils_MergePatch
Merge(v, exact) == Becomes(MergePatch(doc, v, exact)) /\ sorts' = FALSE

\* cJSONUtils_SortObject
Sort(exact) == IsObject(doc) /\ doc' = SortObject(doc, exact) /\ sorts' = TRUE

\* The program computes what leads to another document.
Diff(v, exact) == doc' = GeneratePatches(doc, v, exact)[2] /\ sorts' = TRUE
DiffMerge(v, exact) == doc' = GenerateMerge(doc, v, exact)[2] /\ sorts' = TRUE

Next ==
    \/ \E t \in Texts, whole \in BOOLEAN : ReadText(t, whole)
    \/ \E exact \in BOOLEAN :
        \/ Reread(exact) \/ Sort(exact)
        \/ \E p \in Patches : Apply(p, exact)
        \/ \E v \in Values : Merge(v, exact) \/ Diff(v, exact) \/ DiffMerge(v, exact)

Spec == Init /\ [][Next]_vars

-----------------------------------------------------------------------------
\* What the properties refer to.

Depth(v) == IF ~IsContainer(v) THEN 0
            ELSE 1 + FoldLeft(LAMBDA n, m : IF Depth(m[2]) > n THEN Depth(m[2]) ELSE n,
                              0, Items(v))

\* The strings and names in v
Strings(v) ==
    CASE Tag(v) = "str" -> {v[2]}
      [] IsContainer(v) -> Names(v) \union UNION {Strings(Items(v)[i][2]) : i \in DOMAIN Items(v)}
      [] OTHER -> {}

\* Where there are items in v
Places(v) ==
    {<<>>} \union (IF ~IsContainer(v) THEN {}
                  ELSE UNION {{<<i>> \o p : p \in Places(Items(v)[i][2])} : i \in DOMAIN Items(v)})

\* No two of the names differ in nothing but their case.
CaseApart(names) == \A m, n \in names : Lower(m) = Lower(n) => m = n

\* The escapes of a token stand at its end, and none of them is for a slash:
\* the tokens that decode_pointer_inplace decodes.
EscapesAtEnd(tok) ==
    \E k \in 0 .. Len(tok) :
        /\ \A i \in 1 .. k : tok[i] # Tilde
        /\ (Len(tok) - k) % 2 = 0
        /\ \A i \in k + 1 .. Len(tok) : tok[i] = IF (i - k) % 2 = 1 THEN Tilde ELSE Zero

\* The names that patches can be generated for
Plain(names) == CaseApart(names) /\ \A m \in names : EscapesAtEnd(Escape(m))

\* No object has two members of the same name; one can come out of a case
\* insensitive merge into an object with two names that differ in case.
RECURSIVE UniqueNames(_)
UniqueNames(v) ==
    IsContainer(v) =>
        \A i, j \in DOMAIN Items(v) :
            /\ UniqueNames(Items(v)[i][2])
            /\ IsObject(v) /\ i # j => Items(v)[i][1] # Items(v)[j][1]

\* A document that nothing has gone wrong with yet
Sound(v) == v # Invalid /\ WellLinked(v) /\ UniqueNames(v)

\* The pointers that an operation looks up, and the ends of those at which it
\* changes something.
Pointers(p) ==
    {p.path, IF p.op \in {"move", "copy"} THEN p.from ELSE p.path} \ {NoPath}
Ends(p) ==
    {Last(path) : path \in {p.path, IF p.op = "move" THEN p.from ELSE p.path} \ {NoPath, <<>>}}

\* The empty token is a name; the library takes it for the index 0, too.
EmptyIndex(v, path) ==
    \E i \in DOMAIN path : path[i] = <<>> /\ Tag(RefAt(v, SubSeq(path, 1, i - 1))) = "arr"

\* Pointers that the library reads as RFC 6901 has it: where an operation
\* detaches something, names are compared without their case.
Understood(v, p, exact) ==
    /\ \/ exact /\ p.op \in {"add", "copy", "test"}
       \/ CaseApart(Names(v) \union Names(p.value) \union
                     {Unescape(tok) : tok \in UNION {Range(path) : path \in Pointers(p)}})
    /\ p.op # "test" => \A tok \in Ends(p) : EscapesAtEnd(tok)
    /\ \A path \in Pointers(p) :
          /\ ~EmptyIndex(Meaning(v), path)
          /\ p.op = "move" => ~EmptyIndex(RefRemove(Meaning(v), p.from), path)

\* What an operation that fails leaves of v: a move has lost what it could not
\* put, and a replacement without a value what was there.
Remainder(v, p) ==
    LET rest == CASE p.path = NoPath -> RefFails
                  [] p.path # NoPath /\ p.op = "move" /\ p.from # NoPath -> RefRemove(v, p.from)
                  [] p.path # NoPath /\ p.op = "replace" /\ p.value = NoValue ->
                       RefRemove(v, p.path)
                  [] OTHER -> RefFails
    IN  IF rest = RefFails THEN v ELSE rest

Complete(p) ==
    /\ p.path # NoPath /\ p.op # "other"
    /\ p.op \in {"move", "copy"} => p.from # NoPath
    /\ p.op \in {"add", "replace", "test"} => p.value # NoValue

-----------------------------------------------------------------------------

RECURSIVE ArraysLinked(_)
ArraysLinked(v) ==
    IsContainer(v) => /\ IsArray(v) => Back(v) = Len(Items(v))
                      /\ \A i \in DOMAIN Items(v) : ArraysLinked(Items(v)[i][2])

(* Of all calls only those that sort can leave an object to which nothing   *)
(* can be added any more; arrays stay as they should be.                    *)
OnlySortingUnlinks ==
    [][/\ ArraysLinked(doc')
       /\ WellLinked(doc) /\ ~sorts' => WellLinked(doc')]_vars

(* What a patch operation makes of a document, and whether it reports       *)
(* success, is what RFC 6902 says, when nothing was sorted since the        *)
(* document was read; and one that fails leaves it as it was, but for what  *)
(* a move had taken or a replacement without a value had removed.  This is  *)
(* said of pointers whose escapes the library decodes, whose tokens are     *)
(* not empty where they index an array, and which need their case to tell   *)
(* names apart only where nothing is detached; what RFC 6902 says is not    *)
(* asked for when the whole document is removed or the target of a move or  *)
(* copy.  A merge patch makes of a document what RFC 7396 says.             *)
PatchesAsPromised ==
    LET v == Meaning(doc)
        promised(r, says) == /\ (r[1] = 0) <=> (says # RefFails)
                             /\ r[1] = 0 => Meaning(r[2]) = says
        applied(r, p) ==
          /\ r[1] # 0 => Meaning(r[2]) = Remainder(v, p)
          /\ Complete(p) /\ (p.op \in {"move", "copy", "remove"} => p.path # <<>>) =>
                promised(r, RefApply(v, p))
    IN  Sound(doc) =>
          \A exact \in BOOLEAN :
            /\ \A p \in Patches :
                  Understood(doc, p, exact) => applied(ApplyPatch(doc, p, exact), p)
            /\ \A w \in Values :
                  CaseApart(Names(doc) \union Names(w)) =>
                     Meaning(MergePatch(doc, w, exact)) = RefMerge(v, Meaning(w))

(* cJSON_Compare and the comparison of cJSON_Utils, which sorts, agree:     *)
(* documents are equal when they mean the same.                             *)
ComparisonsAgree ==
    LET agree(c, same) == (c[1] <=> same) /\ Meaning(c[2]) = Meaning(doc)
    IN  \A v \in Values :
            doc # Invalid /\ UniqueNames(doc) =>
                /\ Compare(doc, v, TRUE) <=> Meaning(doc) = Meaning(v)
                /\ agree(CompareJson(doc, v, TRUE), Meaning(doc) = Meaning(v))

\* A merge patch cannot say that a member is to become null.
RECURSIVE NoNullMember(_)
NoNullMember(v) ==
    IsObject(v) => \A i \in DOMAIN Items(v) :
                      Items(v)[i][2] # <<"null">> /\ NoNullMember(Items(v)[i][2])

(* The patches, and the merge patch, generated from two documents lead from *)
(* one to the other, when generating them did not have to sort and, for the *)
(* merge patch, the difference can be said; and there are none exactly when *)
(* the documents are equal (the merge patch of two that are no objects is   *)
(* always there).  The pointer that is found for an item leads to it,       *)
(* whatever characters the names on the way consist of.                     *)
DifferencesLeadThere ==
    LET lead(g, v, exact) ==
          LET there(r) == r[1] = 0 /\ Meaning(r[2]) = Meaning(v)
          IN  /\ (g[1] = <<>>) <=> (Meaning(doc) = Meaning(v))
              /\ WellLinked(g[2]) => there(ApplyPatches(g[2], g[1], exact))
        merge(m, v, exact) ==
          /\ (m[1] = NoValue) <=> (IsObject(v) /\ Meaning(doc) = Meaning(v))
          /\ m[1] # NoValue /\ WellLinked(m[2]) /\ NoNullMember(v) =>
                Meaning(MergePatch(m[2], m[1], exact)) = Meaning(v)
    IN  /\ \A v \in Values, exact \in BOOLEAN :
              Sound(doc) /\ Plain(Names(doc) \union Names(v)) =>
                  /\ lead(GeneratePatches(doc, v, exact), v, exact)
                  /\ merge(GenerateMerge(doc, v, exact), v, exact)
        /\ doc # Invalid /\ UniqueNames(doc) =>
              \A places \in Places(doc) : Find(doc, PointerTo(doc, places), TRUE) = places

(* What was printed is read again as the same document, linked as a new one *)
(* is and with nothing left over, unless it is nested deeper than the       *)
(* parser goes; cut off anywhere it is not taken for an array or object.    *)
(* cJSON_Minify turns it, formatted and with comments, into what is printed *)
(* unformatted, as long as no string ends in a backslash.                   *)
ReadsWhatItPrinted ==
    LET tight == Rendered(doc, FALSE)
        wide == Rendered(doc, TRUE)
        noted == <<47, 47, Quote, Newline>> \o wide \o <<47, 42, Quote, 42, 47>>
    IN  doc # Invalid =>
          /\ \A t \in {tight, wide}, whole \in BOOLEAN :
                Parse(t, whole) =
                    IF Depth(doc) > NestingLimit THEN Failed
                    ELSE <<TRUE, Duplicate(doc), Len(t)>>
          /\ IsContainer(doc) =>
                \A n \in 0 .. Len(tight) - 1 : ~ParseBuffer(SubSeq(tight, 1, n), FALSE)[1]
          /\ (\A s \in Strings(doc) : s # <<>> => Last(s) # Backslash) =>
                Minify(noted) = tight

(* Nothing is written behind memory that was allocated: what is printed     *)
(* stays in the room that `ensure' found for it, cJSON_PrintPreallocated    *)
(* succeeds in a buffer that has five bytes more than the text, as cJSON.h  *)
(* says, and no literal decodes to a longer string than it was counted as.  *)
BuffersSuffice ==
    doc # Invalid =>
      /\ \A format \in BOOLEAN :
            /\ PrintValue(doc, 0, format)[3]
            /\ PrintPreallocated(doc, Len(Rendered(doc, format)) + 5, format)
      /\ \A t \in Texts \union {Rendered(doc, FALSE)} : \A o \in 0 .. Len(t) - 1 :
            LET end == EndOfString(t, o + 1)
                d == DecodeString(t, o + 1, end)
            IN  Char(t, o) = Quote /\ end # -1 /\ d[1] => Len(d[2]) <= Allocation(t, o)

=============================================================================
