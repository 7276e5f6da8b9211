-------------------------------- MODULE MCJson --------------------------------
(* Two programs that use cJSON: one that edits documents (JsonDocs), with   *)
(* documents of few members and operations on their paths, and one that     *)
(* builds trees (JsonItems), with four items.  They share no state, so that *)
(* a behaviour is one of the first or one of the second.                    *)
(*                                                                          *)
(* A number is to JsonItems what an empty array is that stays empty, and    *)
(* strings are its only kind without members.  Five allocations are what    *)
(* the largest tree takes that fits twice, so that each of them can be the  *)
(* first that fails.                                                        *)
EXTENDS JsonDocs

CONSTANTS i1, i2, i3, i4, n1, Null

MCItem == {i1, i2, i3, i4}
\* The addresses can be told apart by nothing but what is there.
MCSymmetry == Permutations(MCItem)

VARIABLES
    trees,  \* is this the program that builds trees?
    heap, owned

Trees == INSTANCE JsonItems WITH
    Item <- MCItem, Kind <- {"str", "arr", "obj"}, Name <- {n1}, MaxAllocs <- 5, MaxOwned <- 2

MCInit ==
    /\ trees \in BOOLEAN
    /\ Trees!Init
    /\ IF trees THEN doc = Invalid /\ sorts = FALSE ELSE Init

MCNext ==
    /\ UNCHANGED trees
    /\ \/ trees /\ Trees!Next /\ UNCHANGED vars
       \/ ~trees /\ Next /\ UNCHANGED <<heap, owned>>

MCSpec == MCInit /\ [][MCNext]_<<trees, vars, heap, owned>>

(* The properties of JsonItems, see there. *)
NothingLeaks == Trees!NothingLeaks
ImplementsForest == Trees!ImplementsForest

-----------------------------------------------------------------------------

a == <<97>>
b == <<98>>
c == <<99>>
A == <<65>>
zero == <<48>>
one == <<49>>

Members(names, values) == Obj([i \in DOMAIN names |-> <<names[i], values[i]>>])
List(values) == Arr([i \in DOMAIN values |-> <<NoName, values[i]>>])

MCValues ==
    {Members(<<b, a>>, <<Num(1), Num(2)>>),
     Members(<<a, c, b>>, <<Num(1), List(<<Num(-12), Num(0)>>), <<"true">>>>),
     Members(<<a, b>>, <<Members(<<b, a>>, <<<<"null">>, Num(1)>>), Num(1)>>),
     Members(<<a, A>>, <<Num(1), Num(2)>>),
     List(<<Num(1), Members(<<a>>, <<List(<<>>)>>)>>),
     Members(<<<<98, 126>>, <<47>>>>, <<Num(1), Str(<<34, 32>>)>>),
     Str(<<34, 92, 10, 1, 47, 34, 200, 92>>)}

\* Texts with escapes: {"a":"\u00e9\u20AC\/"} in blanks, a pair of surrogates
\* and half of one, four letters that are no hexadecimal number, what is open
\* at its end, an empty text, and an array with something behind it.
MCTexts ==
    {<<239, 187, 191, 32, 123, 10, 34, 97, 34, 9, 58, 34, 92, 117, 48, 48, 101, 57, 92,
       117, 50, 48, 65, 67, 92, 47, 34, 125, 13>>,
     <<34, 92, 117, 100, 56, 51, 100, 92, 117, 100, 101, 48, 48, 34>>,
     <<34, 92, 117, 100, 56, 51, 100, 34>>,
     <<91, 34, 120, 92, 117, 122, 122, 122, 122, 34, 93>>,
     <<91, 49, 44>>, <<34, 92>>, <<>>, <<91, 93, 32, 49>>}

Op(op, path, from, value) == [op |-> op, path |-> path, from |-> from, value |-> value]

MCPatches ==
    {Op("add", <<c>>, NoPath, Num(3)), Op("add", <<a, <<45>>>>, NoPath, Num(3)),
     Op("add", <<c, one>>, NoPath, Members(<<b, a>>, <<Num(1), Num(2)>>)),
     Op("add", <<a, b>>, NoPath, <<"false">>), Op("add", <<>>, NoPath, List(<<>>)),
     Op("add", <<<<126, 49>>>>, NoPath, Num(3)), Op("add", <<A>>, NoPath, Num(3)),
     Op("add", <<<<>>>>, NoPath, Num(3)), Op("add", <<c, <<>>>>, NoPath, Num(3)),
     Op("remove", <<<<>>>>, NoPath, NoValue), Op("remove", <<one, a>>, NoPath, NoValue),
     Op("remove", <<a>>, NoPath, NoValue), Op("remove", <<A>>, NoPath, NoValue),
     Op("remove", <<zero>>, NoPath, NoValue), Op("remove", <<>>, NoPath, NoValue),
     Op("remove", <<c, <<48, 49>>>>, NoPath, NoValue),
     Op("remove", <<c, <<50>>>>, NoPath, NoValue), Op("add", <<c, <<50>>>>, NoPath, Num(3)),
     Op("remove", <<<<98, 126, 48>>>>, NoPath, NoValue),
     Op("replace", <<b>>, NoPath, List(<<Num(7)>>)),
     Op("replace", <<c, zero>>, NoPath, NoValue),
     Op("move", <<b>>, <<a>>, NoValue), Op("move", <<a, c>>, <<a>>, NoValue),
     Op("move", <<>>, <<b>>, NoValue), Op("move", <<zero>>, <<one>>, NoValue),
     Op("move", <<zero, a, <<>>>>, <<zero>>, NoValue),
     Op("copy", <<c>>, <<<<126, 49>>>>, NoValue),
     Op("copy", <<c>>, <<a>>, NoValue), Op("copy", <<c, <<45>>>>, <<c>>, NoValue),
     Op("copy", <<>>, <<b>>, NoValue), Op("copy", <<b>>, NoPath, NoValue),
     Op("test", <<>>, NoPath, Members(<<a, b>>, <<Num(2), Num(1)>>)),
     Op("test", <<a>>, NoPath, Num(1)), Op("test", <<c>>, NoPath, NoValue),
     Op("other", <<a>>, NoPath, NoValue), Op("add", NoPath, NoPath, Num(3))}

=============================================================================
