----------------------------- MODULE JsonForest -----------------------------
(***************************************************************************)
(* What the tree functions of cJSON promise: a forest of items with        *)
(* ordered members, whose roots belong to the program.  A call either does *)
(* what it says or changes nothing but, in one case, a name.               *)
(***************************************************************************)
EXTENDS Integers, Sequences, SequencesExt, FiniteSets

CONSTANTS Item, Name, NoName

VARIABLES
    kids,  \* the live items, each with the sequence of its members
    name,  \* the name of each of them, or NoName
    mine   \* the roots: those that the program has to delete

live == DOMAIN kids

RECURSIVE Below(_, _)
\* i and everything below it
Below(k, i) == {i} \union UNION {Below(k, k[i][j]) : j \in DOMAIN k[i]}

Init == kids = [i \in {} |-> <<>>] /\ name = [i \in {} |-> NoName] /\ mine = {}

\* New items appear, as one tree that has root r and is the program's.
Grow(r) ==
    LET new == DOMAIN kids' \ live
    IN  /\ live \subseteq DOMAIN kids' /\ DOMAIN name' = DOMAIN kids' /\ new \subseteq Item
        /\ \A i \in live : kids'[i] = kids[i] /\ name'[i] = name[i]
        /\ Below(kids', r) = new
        /\ FoldSet(LAMBDA i, n : n + Len(kids'[i]), 0, new) = Cardinality(new) - 1
        /\ mine' = mine \union {r}

\* A new item, or an array of new ones; nothing has a name yet.
Create == \E r \in mine' \ mine :
    /\ Grow(r)
    /\ \A i \in DOMAIN kids' \ live : /\ name'[i] = NoName
                                      /\ i # r => kids'[i] = <<>>

\* A copy of i has the members of i, in their order, with their names.
RECURSIVE Alike(_, _, _, _, _, _)
Alike(k1, n1, i, k2, n2, j) ==
    /\ n1[i] = n2[j]
    /\ Len(k1[i]) = Len(k2[j])
    /\ \A x \in DOMAIN k1[i] : Alike(k1, n1, k1[i][x], k2, n2, k2[j][x])

Copy(i) == \E r \in mine' \ mine :
               Grow(r) /\ Alike(kids, name, i, kids', name', r)

\* Root i becomes a member of a, at any place, under any name.
Give(a, i) ==
    /\ mine' = mine \ {i}
    /\ \E p \in 1 .. Len(kids[a]) + 1 : kids' = [kids EXCEPT ![a] = InsertAt(@, p, i)]
    /\ \E n \in Name \union {NoName} : name' = [name EXCEPT ![i] = n]

\* A new item is given to a at once, at the end.
GiveNew(a) ==
    /\ UNCHANGED mine
    /\ \E i \in DOMAIN kids' \ live : \E n \in Name :
          /\ kids' = [k \in live \union {i} |->
                        CASE k = a -> Append(kids[a], i) [] k = i -> <<>> [] OTHER -> kids[k]]
          /\ name' = [k \in live \union {i} |-> IF k = i THEN n ELSE name[k]]

\* Member i of a becomes a root.
Take(a, i) ==
    /\ mine' = mine \union {i}
    /\ \E p \in DOMAIN kids[a] : /\ kids[a][p] = i
                                 /\ kids' = [kids EXCEPT ![a] = RemoveAt(@, p)]
    /\ UNCHANGED name

Gone(k, dead) == [i \in DOMAIN k \ dead |-> k[i]]

\* Root r takes the place of member i of a, which is deleted.
Replace(a, i, r) ==
    /\ mine' = mine \ {r}
    /\ \E p \in DOMAIN kids[a] :
          /\ kids[a][p] = i
          /\ kids' = Gone([kids EXCEPT ![a] = ReplaceAt(@, p, r)], Below(kids, i))
    /\ \E n \in Name \union {NoName} :
          name' = Gone([name EXCEPT ![r] = n], Below(kids, i))

\* Root i, or member i of a, is deleted with all below it.
Delete(i) ==
    /\ mine' = mine \ {i}
    /\ kids' = Gone(kids, Below(kids, i)) /\ name' = Gone(name, Below(kids, i))

DeleteFrom(a, i) ==
    /\ UNCHANGED mine
    /\ \E p \in DOMAIN kids[a] :
          /\ kids[a][p] = i
          /\ kids' = Gone([kids EXCEPT ![a] = RemoveAt(@, p)], Below(kids, i))
    /\ name' = Gone(name, Below(kids, i))

\* A replacement that is not wanted has lost its name, or got the new one.
Rename(i) ==
    /\ UNCHANGED <<mine, kids>>
    /\ \E n \in Name \union {NoName} : name' = [name EXCEPT ![i] = n]

Next ==
    \/ Create
    \/ \E i \in mine : Delete(i) \/ Rename(i) \/ \E a \in live : Give(a, i)
    \/ \E i \in live :
        \/ Copy(i) \/ GiveNew(i)
        \/ \E j \in DOMAIN kids[i] :
            LET m == kids[i][j]
            IN  Take(i, m) \/ DeleteFrom(i, m) \/ \E r \in mine : Replace(i, m, r)

Spec == Init /\ [][Next]_<<kids, name, mine>>

=============================================================================
