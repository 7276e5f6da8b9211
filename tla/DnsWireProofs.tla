---------------------------- MODULE DnsWireProofs ----------------------------
(***************************************************************************)
(* Proofs about DnsWire, for messages of any length and all bytes: that    *)
(* the name under which an answer is cached determines the labels that     *)
(* were asked for, and that what is sent in captive mode reads as the      *)
(* answer.                                                                 *)
(*                                                                         *)
(* The parser, the walk of question_end and the reader by RFC 1035 are     *)
(* three loops over one message.  What each of them does in a round is     *)
(* proved from its definition; that they go through the message in step,   *)
(* and that the text so far is what the labels so far make of it, is then  *)
(* proved by induction on the rounds.                                      *)
(***************************************************************************)
EXTENDS DnsWire, FiniteSetTheorems, WellFoundedInduction, TLAPS

-----------------------------------------------------------------------------
\* The loops, round by round

(* What holds at zero and passes on to the next number holds of all.        *)
LEMMA EachNumber ==
  ASSUME NEW A, 0 \in A, \A n \in Nat : n \in A => n + 1 \in A
  PROVE  \A n \in Nat : n \in A
<1> DEFINE Bad == {n \in Nat : n \notin A}
<1>1. SUFFICES ASSUME Bad # {} PROVE FALSE
  OBVIOUS
<1>2. PICK n \in Bad : \A k \in Bad : ~(<<k, n>> \in OpToRel(<, Nat))
  BY <1>1, NatLessThanWellFounded, WFMin
<1>3. n # 0 /\ n - 1 \in Nat /\ (n - 1) + 1 = n
  OBVIOUS
<1>4. n - 1 \notin A
  BY <1>3
<1>5. n - 1 < n
  BY <1>3
<1> QED
  BY <1>2, <1>3, <1>4, <1>5 DEF OpToRel

(* A loop has a state after every number of rounds.                         *)
LEMMA RoundsExist ==
  ASSUME NEW S, NEW a \in S, NEW step \in [S -> S]
  PROVE  \E f \in [Nat -> S] : f = [n \in Nat |-> IF n = 0 THEN a ELSE step[f[n - 1]]]
<1> DEFINE Runs(n) == {g \in [0 .. n -> S] :
                          g[0] = a /\ \A i \in 0 .. n : i > 0 => g[i] = step[g[i - 1]]}
           A == {n \in Nat : Runs(n) # {}}
           Run(n) == CHOOSE g : g \in Runs(n)
<1>1. 0 \in A
  <2>1. [i \in 0 .. 0 |-> a] \in Runs(0)
    OBVIOUS
  <2> QED BY <2>1
<1>2. ASSUME NEW n \in Nat, n \in A PROVE n + 1 \in A
  <2>1. PICK g : g \in Runs(n)
    BY <1>2
  <2> DEFINE h == [i \in 0 .. n + 1 |-> IF i = n + 1 THEN step[g[n]] ELSE g[i]]
  <2>2. h \in [0 .. n + 1 -> S]
    BY <2>1
  <2>3. h[0] = a
    BY <2>1
  <2>4. ASSUME NEW i \in 0 .. n + 1, i > 0 PROVE h[i] = step[h[i - 1]]
    <3>1. CASE i = n + 1
      <4>1. i - 1 = n /\ n \in 0 .. n + 1 /\ n # n + 1
        BY <3>1
      <4> QED BY <3>1, <4>1
    <3>2. CASE i # n + 1
      <4>1. i \in 0 .. n /\ i - 1 \in 0 .. n + 1 /\ i - 1 # n + 1
        BY <2>4, <3>2
      <4> QED BY <2>1, <2>4, <3>2, <4>1
    <3> QED BY <3>1, <3>2
  <2>5. h \in Runs(n + 1)
    BY <2>2, <2>3, <2>4
  <2> QED BY <2>5
<1>3. \A n \in Nat : Run(n) \in Runs(n)
  <2>1. \A n \in Nat : n \in A
    <3> HIDE DEF A
    <3> QED BY <1>1, <1>2, EachNumber
  <2>2. \A n \in Nat : Runs(n) # {}
    BY <2>1
  <2> HIDE DEF Runs
  <2> QED BY <2>2
<1>4. \A n \in Nat : Run(n)[n] \in S /\ Run(n)[0] = a
  <2> HIDE DEF Run
  <2> QED BY <1>3
<1>5. ASSUME NEW n \in Nat PROVE \A k \in 0 .. n : Run(n)[k] = Run(k)[k]
  <2> DEFINE B == {k \in Nat : k <= n => Run(n)[k] = Run(k)[k]}
  <2> DEFINE C(k) == {j \in Nat : j <= k => Run(n)[j] = Run(k)[j]}
  <2>1. ASSUME NEW k \in 0 .. n PROVE \A j \in 0 .. k : Run(n)[j] = Run(k)[j]
    <3>1. 0 \in C(k)
      <4>1. k \in Nat
        OBVIOUS
      <4> HIDE DEF Run
      <4> QED BY <1>4, <4>1
    <3>2. ASSUME NEW j \in Nat, j \in C(k) PROVE j + 1 \in C(k)
      <4>1. SUFFICES ASSUME j + 1 <= k PROVE Run(n)[j + 1] = Run(k)[j + 1]
        OBVIOUS
      <4>2. Run(n) \in Runs(n) /\ Run(k) \in Runs(k)
        <5>1. k \in Nat
          OBVIOUS
        <5> HIDE DEF Runs, Run
        <5> QED BY <1>3, <5>1
      <4> HIDE DEF Run
      <4>3. j + 1 \in 0 .. n /\ j + 1 \in 0 .. k /\ j + 1 > 0 /\ (j + 1) - 1 = j /\ j <= k
        BY <4>1
      <4>4. Run(n)[j + 1] = step[Run(n)[j]] /\ Run(k)[j + 1] = step[Run(k)[j]]
        BY <4>2, <4>3
      <4> QED BY <3>2, <4>3, <4>4
    <3> HIDE DEF C
    <3>3. \A j \in Nat : j \in C(k)
      BY <3>1, <3>2, EachNumber
    <3> USE DEF C
    <3> HIDE DEF Run
    <3> QED BY <3>3
  <2> HIDE DEF Run
  <2> QED BY <2>1
<1> DEFINE f == [n \in Nat |-> Run(n)[n]]
<1>6. f \in [Nat -> S]
  BY <1>4
<1>7. ASSUME NEW n \in Nat PROVE f[n] = IF n = 0 THEN a ELSE step[f[n - 1]]
  <2>1. CASE n = 0
    BY <1>4, <2>1
  <2>2. CASE n # 0
    <3>1. n - 1 \in Nat /\ n - 1 \in 0 .. n /\ n \in 0 .. n /\ n > 0
      BY <2>2
    <3>2. Run(n)[n] = step[Run(n)[n - 1]]
      <4>1. Run(n) \in Runs(n)
        BY <1>3
      <4> HIDE DEF Run
      <4> QED BY <3>1, <4>1
    <3>3. Run(n)[n - 1] = Run(n - 1)[n - 1]
      BY <1>5, <3>1
    <3> QED BY <2>2, <3>1, <3>2, <3>3
  <2> QED BY <2>1, <2>2
<1>8. f = [n \in Nat |-> IF n = 0 THEN a ELSE step[f[n - 1]]]
  <2> HIDE DEF f
  <2>1. f = [n \in Nat |-> f[n]]
    BY <1>6
  <2> QED BY <1>7, <2>1
<1> QED
  BY <1>6, <1>8

-----------------------------------------------------------------------------

Message == Seq(Byte)

ParseState == [is : {"on", "end", "failed"}, at : Nat, name : Message]
ReadState == [is : {"on", "end", "failed"}, at : Nat, labels : Seq(Message)]

(* A piece of a message is a sequence of bytes.                             *)
LEMMA BytesType ==
  ASSUME NEW m \in Message, NEW o \in Nat, NEW n \in Nat, o + n <= Len(m)
  PROVE  /\ Bytes(m, o, n) \in Message /\ Len(Bytes(m, o, n)) = n
         /\ \A i \in 1 .. n : Bytes(m, o, n)[i] = At(m, o + i - 1)
BY DEF Bytes, Message, At

(* What is cut is a beginning.                                              *)
LEMMA CutType ==
  ASSUME NEW s \in Message
  PROVE  /\ Cut(s) \in Message /\ Len(Cut(s)) < QnameSize /\ Len(Cut(s)) <= Len(s)
         /\ Len(s) < QnameSize => Cut(s) = s
         /\ Len(s) > 0 => Len(Cut(s)) > 0
BY WireAssumption DEF Cut, Message

(* A byte of a message                                                      *)
LEMMA AtType ==
  ASSUME NEW m \in Message, NEW o \in Nat, o < Len(m)
  PROVE  At(m, o) \in Byte /\ At(m, o) \in Nat /\ At(m, o) < 256
<1>1. At(m, o) \in Byte
  BY DEF At, Message
<1>2. \A c \in Byte : c \in Nat /\ c < 256
  BY DEF Byte
<1> QED
  BY <1>1, <1>2

(* The label at a place of a message that is in it                          *)
LEMMA LabelType ==
  ASSUME NEW m \in Message, NEW s \in ParseState, s.at < Len(m), s.at + 1 + At(m, s.at) <= Len(m)
  PROVE  /\ Label(m, s) \in Message /\ Len(Label(m, s)) = At(m, s.at)
         /\ \A i \in 1 .. At(m, s.at) : Label(m, s)[i] = Shown(At(m, s.at + i))
<1>1. s.at \in Nat /\ At(m, s.at) \in Nat /\ Len(m) \in Nat
  BY AtType DEF ParseState, Message
<1>2. \A i \in 1 .. At(m, s.at) : At(m, s.at + i) \in Byte
  <2> SUFFICES ASSUME NEW i \in 1 .. At(m, s.at) PROVE At(m, s.at + i) \in Byte
    OBVIOUS
  <2>1. s.at + i \in Nat /\ s.at + i < Len(m)
    BY <1>1
  <2> QED BY <2>1, AtType
<1>3. \A c \in Byte : Shown(c) \in Byte
  BY DEF Shown, Byte
<1>4. Label(m, s) \in [1 .. At(m, s.at) -> Byte]
  BY <1>2, <1>3 DEF Label
<1> QED
  BY <1>1, <1>4 DEF Message, Label

(* The body of the parser's loop                                            *)
LEMMA ParseLabelType ==
  ASSUME NEW m \in Message, NEW s \in ParseState
  PROVE  ParseLabel(m, s) \in ParseState
<1>0. s.at \in Nat /\ Len(m) \in Nat /\ s.name \in Message
  BY DEF ParseState, Message
<1>1. CASE s.is # "on" \/ s.at >= Len(m)
  BY <1>1 DEF ParseLabel
<1>2. CASE s.is = "on" /\ s.at < Len(m)
  <2>1. At(m, s.at) \in Nat
    BY <1>0, <1>2, AtType
  <2>2. CASE At(m, s.at) = 0
    <3>1. ParseLabel(m, s) = [s EXCEPT !.at = s.at + 1, !.is = "end"]
      BY <1>0, <1>2, <2>2 DEF ParseLabel
    <3>2. s.at + 1 \in Nat
      BY <1>0
    <3>3. [s EXCEPT !.at = s.at + 1, !.is = "end"] \in ParseState
      BY <3>2 DEF ParseState
    <3> QED BY <3>1, <3>3
  <2>3. CASE At(m, s.at) # 0 /\ (At(m, s.at) >= 64 \/ s.at + 1 + At(m, s.at) > Len(m))
    <3>1. ParseLabel(m, s) = [s EXCEPT !.is = "failed"]
      BY <1>0, <1>2, <2>3 DEF ParseLabel
    <3>2. [s EXCEPT !.is = "failed"] \in ParseState
      BY DEF ParseState
    <3> QED BY <3>1, <3>2
  <2>4. CASE At(m, s.at) # 0 /\ ~(At(m, s.at) >= 64 \/ s.at + 1 + At(m, s.at) > Len(m))
    <3> DEFINE dot == IF s.name = <<>> THEN <<>> ELSE <<46>>
               name == Cut(s.name \o dot \o Label(m, s))
    <3>1. Label(m, s) \in Message
      BY <1>0, <1>2, <2>1, <2>4, LabelType
    <3>2. dot \in Message
      <4>1. 46 \in Byte
        BY DEF Byte
      <4> QED BY <4>1 DEF Message
    <3>3. name \in Message
      <4>1. s.name \o dot \o Label(m, s) \in Message
        BY <1>0, <3>1, <3>2 DEF Message
      <4> QED BY <4>1, CutType
    <3>4. ParseLabel(m, s) = [s EXCEPT !.at = s.at + 1 + At(m, s.at), !.name = name]
      BY <1>0, <1>2, <2>1, <2>4 DEF ParseLabel
    <3>5. s.at + 1 + At(m, s.at) \in Nat
      BY <1>0, <2>1
    <3> HIDE DEF name
    <3> QED BY <3>3, <3>4, <3>5 DEF ParseState
  <2> QED BY <2>2, <2>3, <2>4
<1> QED
  BY <1>0, <1>1, <1>2 DEF ParseState

(* The parser's loop, round by round                                        *)
LEMMA ParsingEquation ==
  ASSUME NEW m \in Message
  PROVE  /\ Parsing(m)[0] = [is |-> "on", at |-> HeaderLen, name |-> <<>>]
         /\ \A n \in Nat : /\ Parsing(m)[n] \in ParseState
                           /\ Parsing(m)[n + 1] = ParseLabel(m, Parsing(m)[n])
<1> DEFINE a == [is |-> "on", at |-> HeaderLen, name |-> <<>>]
           step == [s \in ParseState |-> ParseLabel(m, s)]
           Is(f) == f = [n \in Nat |-> IF n = 0 THEN a ELSE ParseLabel(m, f[n - 1])]
           g == CHOOSE f : Is(f)
           A == {n \in Nat : g[n] \in ParseState}
<1>1. a \in ParseState
  BY DEF ParseState, Message, HeaderLen
<1>2. step \in [ParseState -> ParseState]
  BY ParseLabelType
<1>3. PICK f \in [Nat -> ParseState] : f = [n \in Nat |-> IF n = 0 THEN a ELSE step[f[n - 1]]]
  <2> HIDE DEF a, step
  <2> QED BY <1>1, <1>2, RoundsExist
<1>4. \A n \in Nat : n # 0 => step[f[n - 1]] = ParseLabel(m, f[n - 1])
  <2>1. \A n \in Nat : n # 0 => f[n - 1] \in ParseState
    OBVIOUS
  <2> QED BY <2>1
<1>5. Is(f)
  <2> HIDE DEF a, step
  <2> QED BY <1>3, <1>4
<1>6. Is(g)
  <2> HIDE DEF Is
  <2> QED BY <1>5
<1>7. Parsing(m) = g
  BY DEF Parsing
<1>8. g[0] = a /\ \A n \in Nat : g[n + 1] = ParseLabel(m, g[n])
  <2> HIDE DEF a, g
  <2>1. \A n \in Nat : n + 1 \in Nat /\ n + 1 # 0 /\ (n + 1) - 1 = n
    OBVIOUS
  <2> QED BY <1>6, <2>1
<1>9. 0 \in A /\ \A n \in Nat : n \in A => n + 1 \in A
  <2> HIDE DEF g, a
  <2> QED BY <1>1, <1>8, ParseLabelType
<1>10. \A n \in Nat : g[n] \in ParseState
  <2>1. \A n \in Nat : n \in A
    <3> HIDE DEF A
    <3> QED BY <1>9, EachNumber
  <2> QED BY <2>1
<1> QED
  BY <1>7, <1>8, <1>10

(* The body of the loop of question_end                                     *)
LEMMA WalkType ==
  ASSUME NEW m \in Message, NEW o \in Nat, o < Len(m), At(m, o) # 0
  PROVE  o + At(m, o) + 1 \in Nat
BY AtType DEF Message

(* The loop of question_end, round by round                                 *)
LEMMA WalkingEquation ==
  ASSUME NEW m \in Message
  PROVE  /\ Walking(m)[0] = HeaderLen
         /\ \A n \in Nat :
               LET o == Walking(m)[n]
               IN  /\ o \in Nat
                   /\ Walking(m)[n + 1] = IF o < Len(m) /\ At(m, o) # 0 THEN o + At(m, o) + 1 ELSE o
<1> DEFINE Walk(o) == IF o < Len(m) /\ At(m, o) # 0 THEN o + At(m, o) + 1 ELSE o
           step == [o \in Nat |-> Walk(o)]
           Is(f) == f = [n \in Nat |-> IF n = 0 THEN HeaderLen ELSE Walk(f[n - 1])]
           g == CHOOSE f : Is(f)
           A == {n \in Nat : g[n] \in Nat}
<1>0. \A o \in Nat : Walk(o) \in Nat
  BY WalkType
<1>1. HeaderLen \in Nat
  BY DEF HeaderLen
<1>2. step \in [Nat -> Nat]
  BY <1>0
<1>3. PICK f \in [Nat -> Nat] : f = [n \in Nat |-> IF n = 0 THEN HeaderLen ELSE step[f[n - 1]]]
  <2> DEFINE S == Nat
             a == HeaderLen
  <2>1. a \in S /\ step \in [S -> S]
    BY <1>1, <1>2
  <2> HIDE DEF step, S, a
  <2>2. \E f \in [Nat -> S] : f = [n \in Nat |-> IF n = 0 THEN a ELSE step[f[n - 1]]]
    BY <2>1, RoundsExist
  <2> USE DEF S, a
  <2> QED BY <2>2
<1>4. \A n \in Nat : n # 0 => step[f[n - 1]] = Walk(f[n - 1])
  <2>1. \A n \in Nat : n # 0 => f[n - 1] \in Nat
    OBVIOUS
  <2> HIDE DEF Walk
  <2> QED BY <2>1
<1>5. Is(f)
  <2> HIDE DEF step, Walk
  <2> QED BY <1>3, <1>4
<1>6. Is(g)
  <2> HIDE DEF Is
  <2> QED BY <1>5
<1>7. Walking(m) = g
  BY DEF Walking
<1>8. g[0] = HeaderLen /\ \A n \in Nat : g[n + 1] = Walk(g[n])
  <2> HIDE DEF g, Walk
  <2>1. \A n \in Nat : n + 1 \in Nat /\ n + 1 # 0 /\ (n + 1) - 1 = n
    OBVIOUS
  <2> QED BY <1>6, <2>1
<1>9. 0 \in A /\ \A n \in Nat : n \in A => n + 1 \in A
  <2> HIDE DEF g, Walk
  <2> QED BY <1>0, <1>1, <1>8
<1>10. \A n \in Nat : g[n] \in Nat
  <2>1. \A n \in Nat : n \in A
    <3> HIDE DEF A
    <3> QED BY <1>9, EachNumber
  <2> QED BY <2>1
<1> HIDE DEF g
<1> QED
  BY <1>7, <1>8, <1>10

(* The body of the loop that reads a name as RFC 1035 has it                *)
LEMMA ReadLabelType ==
  ASSUME NEW m \in Message, NEW s \in ReadState
  PROVE  ReadLabel(m, s) \in ReadState
<1>0. s.at \in Nat /\ Len(m) \in Nat /\ s.labels \in Seq(Message)
  BY DEF ReadState, Message
<1>1. CASE s.is # "on"
  BY <1>1 DEF ReadLabel
<1>2. [s EXCEPT !.is = "failed"] \in ReadState
  BY DEF ReadState
<1>3. CASE s.is = "on" /\ s.at >= Len(m)
  BY <1>2, <1>3 DEF ReadLabel
<1>4. CASE s.is = "on" /\ s.at < Len(m)
  <2>1. At(m, s.at) \in Nat
    BY <1>0, <1>4, AtType
  <2>2. CASE At(m, s.at) = 0
    <3>1. ReadLabel(m, s) = [s EXCEPT !.at = s.at + 1, !.is = "end"]
      BY <1>0, <1>4, <2>2 DEF ReadLabel
    <3>2. s.at + 1 \in Nat
      BY <1>0
    <3>3. [s EXCEPT !.at = s.at + 1, !.is = "end"] \in ReadState
      BY <3>2 DEF ReadState
    <3> QED BY <3>1, <3>3
  <2>3. CASE At(m, s.at) # 0 /\ (At(m, s.at) >= 64 \/ s.at + At(m, s.at) >= Len(m))
    BY <1>0, <1>2, <1>4, <2>3 DEF ReadLabel
  <2>4. CASE At(m, s.at) # 0 /\ ~(At(m, s.at) >= 64 \/ s.at + At(m, s.at) >= Len(m))
    <3> DEFINE n == At(m, s.at)
               labels == Append(s.labels, Bytes(m, s.at + 1, n))
    <3>1. ReadLabel(m, s) = [s EXCEPT !.at = s.at + 1 + n, !.labels = labels]
      BY <1>0, <1>4, <2>1, <2>4 DEF ReadLabel
    <3>2. labels \in Seq(Message)
      <4>1. s.at + 1 \in Nat /\ (s.at + 1) + n <= Len(m)
        BY <1>0, <2>1, <2>4
      <4>2. Bytes(m, s.at + 1, n) \in Message
        <5> HIDE DEF n
        <5> QED BY <2>1, <4>1, BytesType DEF n
      <4> QED BY <1>0, <4>2
    <3>3. s.at + 1 + n \in Nat
      BY <1>0, <2>1
    <3> HIDE DEF n, labels
    <3> QED BY <3>1, <3>2, <3>3 DEF ReadState
  <2> QED BY <2>2, <2>3, <2>4
<1> QED
  BY <1>0, <1>1, <1>3, <1>4 DEF ReadState

(* That loop, round by round                                                *)
LEMMA ReadingEquation ==
  ASSUME NEW m \in Message, NEW o \in Nat
  PROVE  /\ Reading(m, o)[0] = [is |-> "on", at |-> o, labels |-> <<>>]
         /\ \A n \in Nat : /\ Reading(m, o)[n] \in ReadState
                           /\ Reading(m, o)[n + 1] = ReadLabel(m, Reading(m, o)[n])
<1> DEFINE a == [is |-> "on", at |-> o, labels |-> <<>>]
           step == [s \in ReadState |-> ReadLabel(m, s)]
           Is(f) == f = [n \in Nat |-> IF n = 0 THEN a ELSE ReadLabel(m, f[n - 1])]
           g == CHOOSE f : Is(f)
           A == {n \in Nat : g[n] \in ReadState}
<1>1. a \in ReadState
  BY DEF ReadState
<1>2. step \in [ReadState -> ReadState]
  BY ReadLabelType
<1>3. PICK f \in [Nat -> ReadState] : f = [n \in Nat |-> IF n = 0 THEN a ELSE step[f[n - 1]]]
  <2> HIDE DEF a, step
  <2> QED BY <1>1, <1>2, RoundsExist
<1>4. \A n \in Nat : n # 0 => step[f[n - 1]] = ReadLabel(m, f[n - 1])
  <2>1. \A n \in Nat : n # 0 => f[n - 1] \in ReadState
    OBVIOUS
  <2> QED BY <2>1
<1>5. Is(f)
  <2> HIDE DEF a, step
  <2> QED BY <1>3, <1>4
<1>6. Is(g)
  <2> HIDE DEF Is
  <2> QED BY <1>5
<1>7. Reading(m, o) = g
  BY DEF Reading
<1>8. g[0] = a /\ \A n \in Nat : g[n + 1] = ReadLabel(m, g[n])
  <2> HIDE DEF a, g
  <2>1. \A n \in Nat : n + 1 \in Nat /\ n + 1 # 0 /\ (n + 1) - 1 = n
    OBVIOUS
  <2> QED BY <1>6, <2>1
<1>9. 0 \in A /\ \A n \in Nat : n \in A => n + 1 \in A
  <2> HIDE DEF g, a
  <2> QED BY <1>1, <1>8, ReadLabelType
<1>10. \A n \in Nat : g[n] \in ReadState
  <2>1. \A n \in Nat : n \in A
    <3> HIDE DEF A
    <3> QED BY <1>9, EachNumber
  <2> QED BY <2>1
<1> QED
  BY <1>7, <1>8, <1>10

-----------------------------------------------------------------------------

(***************************************************************************)
(* What the loops do together.                                             *)
(***************************************************************************)

Fits(m, s) == At(m, s.at) < 64 /\ s.at + 1 + At(m, s.at) <= Len(m)

(* The reader's round, case by case                                         *)
LEMMA ReadRound ==
  ASSUME NEW m \in Message, NEW s \in ReadState
  PROVE  /\ s.at \in Nat /\ Len(m) \in Nat
         /\ s.is # "on" => ReadLabel(m, s) = s
         /\ s.is = "on" /\ s.at >= Len(m) => ReadLabel(m, s).is = "failed"
         /\ s.is = "on" /\ s.at < Len(m) /\ At(m, s.at) = 0 =>
               /\ ReadLabel(m, s).is = "end" /\ ReadLabel(m, s).at = s.at + 1
               /\ ReadLabel(m, s).labels = s.labels
         /\ s.is = "on" /\ s.at < Len(m) /\ At(m, s.at) # 0 /\ ~Fits(m, s) =>
               ReadLabel(m, s).is = "failed"
         /\ s.is = "on" /\ s.at < Len(m) /\ At(m, s.at) # 0 /\ Fits(m, s) =>
               /\ ReadLabel(m, s).is = "on"
               /\ ReadLabel(m, s).at = s.at + 1 + At(m, s.at)
               /\ ReadLabel(m, s).labels = Append(s.labels, Bytes(m, s.at + 1, At(m, s.at)))
<1>1. s.at \in Nat /\ Len(m) \in Nat /\ (s.at < Len(m) => At(m, s.at) \in Nat)
  BY AtType DEF ReadState, Message
<1> DEFINE n == At(m, s.at)
<1>2. CASE s.is # "on"
  BY <1>1, <1>2 DEF ReadLabel
<1>3. CASE s.is = "on" /\ s.at >= Len(m)
  BY <1>1, <1>3 DEF ReadLabel, ReadState
<1>4. CASE s.is = "on" /\ s.at < Len(m) /\ n = 0
  <2>1. ReadLabel(m, s) = [s EXCEPT !.at = s.at + 1, !.is = "end"]
    BY <1>1, <1>4 DEF ReadLabel
  <2> QED BY <1>1, <1>4, <2>1 DEF ReadState
<1>5. CASE s.is = "on" /\ s.at < Len(m) /\ n # 0 /\ ~Fits(m, s)
  <2>1. ReadLabel(m, s) = [s EXCEPT !.is = "failed"]
    BY <1>1, <1>5 DEF ReadLabel, Fits
  <2> QED BY <1>1, <1>5, <2>1 DEF ReadState
<1>6. CASE s.is = "on" /\ s.at < Len(m) /\ n # 0 /\ Fits(m, s)
  <2>1. ReadLabel(m, s) = [s EXCEPT !.at = s.at + 1 + n,
                                    !.labels = Append(s.labels, Bytes(m, s.at + 1, n))]
    BY <1>1, <1>6 DEF ReadLabel, Fits
  <2> HIDE DEF n
  <2> QED BY <1>1, <1>6, <2>1 DEF ReadState, n
<1> QED
  BY <1>1, <1>2, <1>3, <1>4, <1>5, <1>6

(* The parser's round, case by case                                         *)
LEMMA ParseRound ==
  ASSUME NEW m \in Message, NEW s \in ParseState
  PROVE  /\ s.at \in Nat /\ s.name \in Message
         /\ s.is # "on" \/ s.at >= Len(m) => ParseLabel(m, s) = s
         /\ s.is = "on" /\ s.at < Len(m) /\ At(m, s.at) = 0 =>
               /\ ParseLabel(m, s).is = "end" /\ ParseLabel(m, s).at = s.at + 1
               /\ ParseLabel(m, s).name = s.name
         /\ s.is = "on" /\ s.at < Len(m) /\ At(m, s.at) # 0 /\ ~Fits(m, s) =>
               ParseLabel(m, s).is = "failed"
         /\ s.is = "on" /\ s.at < Len(m) /\ At(m, s.at) # 0 /\ Fits(m, s) =>
               /\ ParseLabel(m, s).is = "on"
               /\ ParseLabel(m, s).at = s.at + 1 + At(m, s.at)
               /\ ParseLabel(m, s).name =
                     Cut(s.name \o (IF s.name = <<>> THEN <<>> ELSE <<46>>) \o Label(m, s))
<1>1. /\ s.at \in Nat /\ Len(m) \in Nat /\ s.name \in Message
      /\ s.at < Len(m) => At(m, s.at) \in Nat
  BY AtType DEF ParseState, Message
<1> DEFINE n == At(m, s.at)
           dot == IF s.name = <<>> THEN <<>> ELSE <<46>>
           name == Cut(s.name \o dot \o Label(m, s))
<1>2. CASE s.is # "on" \/ s.at >= Len(m)
  BY <1>1, <1>2 DEF ParseLabel
<1>4. CASE s.is = "on" /\ s.at < Len(m) /\ n = 0
  <2>1. ParseLabel(m, s) = [s EXCEPT !.at = s.at + 1, !.is = "end"]
    BY <1>1, <1>4 DEF ParseLabel
  <2> QED BY <1>1, <1>4, <2>1 DEF ParseState
<1>5. CASE s.is = "on" /\ s.at < Len(m) /\ n # 0 /\ ~Fits(m, s)
  <2>1. ParseLabel(m, s) = [s EXCEPT !.is = "failed"]
    BY <1>1, <1>5 DEF ParseLabel, Fits
  <2> QED BY <1>1, <1>5, <2>1 DEF ParseState
<1>6. CASE s.is = "on" /\ s.at < Len(m) /\ n # 0 /\ Fits(m, s)
  <2>1. ParseLabel(m, s) = [s EXCEPT !.at = s.at + 1 + n, !.name = name]
    BY <1>1, <1>6 DEF ParseLabel, Fits
  <2> HIDE DEF n, name
  <2>2. /\ ParseLabel(m, s).is = "on" /\ ParseLabel(m, s).at = s.at + 1 + n
        /\ ParseLabel(m, s).name = name
    BY <1>6, <2>1 DEF ParseState
  <2> QED BY <1>1, <1>6, <2>2 DEF n, name
<1> QED
  BY <1>1, <1>2, <1>4, <1>5, <1>6

(* A reader that goes on has come as far as it made rounds.                 *)
LEMMA ReadingAdvances ==
  ASSUME NEW m \in Message, NEW o \in Nat, NEW n \in Nat
  PROVE  /\ Reading(m, o)[n].is = "on" => Reading(m, o)[n].at >= o + n
         /\ Reading(m, o)[n].at <= Reading(m, o)[n + 1].at
<1> DEFINE R == Reading(m, o)
           A == {k \in Nat : R[k].is = "on" => R[k].at >= o + k}
<1> HIDE DEF R
<1>1. R[0] = [is |-> "on", at |-> o, labels |-> <<>>]
  BY ReadingEquation DEF R
<1>2. \A k \in Nat : R[k] \in ReadState /\ R[k + 1] = ReadLabel(m, R[k])
  BY ReadingEquation DEF R
<1>3. 0 \in A
  BY <1>1
<1>4. ASSUME NEW k \in Nat PROVE k \in A => k + 1 \in A
  <2>1. R[k] \in ReadState /\ R[k + 1] = ReadLabel(m, R[k])
    BY <1>2
  <2>2. R[k].at < Len(m) => At(m, R[k].at) \in Nat
    BY <2>1, ReadRound, AtType
  <2> QED BY <2>1, <2>2, ReadRound
<1>5. \A k \in Nat : k \in A
  <2> HIDE DEF A
  <2> QED BY <1>3, <1>4, EachNumber
<1>6. R[n].at <= R[n + 1].at
  <2>1. R[n] \in ReadState /\ R[n + 1] = ReadLabel(m, R[n]) /\ R[n + 1] \in ReadState
    BY <1>2
  <2>2. R[n].at < Len(m) => At(m, R[n].at) \in Nat
    BY <2>1, ReadRound, AtType
  <2>3. R[n].is = "on" /\ R[n].at >= Len(m) => R[n + 1].at = R[n].at
    BY <2>1 DEF ReadLabel, ReadState
  <2>4. R[n].is = "on" /\ R[n].at < Len(m) /\ At(m, R[n].at) # 0 /\ ~Fits(m, R[n]) => R[n + 1].at = R[n].at
    BY <2>1, <2>2 DEF ReadLabel, ReadState, Fits
  <2> QED BY <2>1, <2>2, <2>3, <2>4, ReadRound
<1> QED
  BY <1>5, <1>6 DEF R

(* The parser, the walk of question_end and the reader by RFC 1035 go       *)
(* through a message in step.                                               *)
InStep(m, P, R, w, n) ==
    /\ P.is = "on" => P.at <= Len(m) /\ (P.at >= HeaderLen + n \/ P.at = Len(m))
    /\ P.is = "on" /\ P.at < Len(m) => R.is = "on" /\ R.at = P.at /\ w = P.at
    /\ P.is = "on" /\ P.at = Len(m) => R.is = "failed" \/ (R.is = "on" /\ R.at = Len(m))
    /\ P.is = "end" => /\ R.is = "end" /\ R.at = P.at /\ P.at <= Len(m)
                       /\ w = P.at - 1 /\ w \in Nat /\ At(m, w) = 0
    /\ P.is = "failed" => R.is = "failed"

LEMMA LoopsInStep ==
  ASSUME NEW m \in Message, Len(m) >= HeaderLen
  PROVE  \A n \in Nat :
            InStep(m, Parsing(m)[n], Reading(m, HeaderLen)[n], Walking(m)[n], n)
<1> DEFINE P == Parsing(m)
           R == Reading(m, HeaderLen)
           w == Walking(m)
           A == {n \in Nat : InStep(m, P[n], R[n], w[n], n)}
<1>0. HeaderLen \in Nat /\ Len(m) \in Nat
  BY DEF HeaderLen, Message
<1>1. P[0] = [is |-> "on", at |-> HeaderLen, name |-> <<>>]
  BY ParsingEquation
<1>2. R[0] = [is |-> "on", at |-> HeaderLen, labels |-> <<>>]
  BY <1>0, ReadingEquation
<1>3. w[0] = HeaderLen
  BY WalkingEquation
<1>4. \A n \in Nat : /\ P[n] \in ParseState /\ P[n + 1] = ParseLabel(m, P[n])
                     /\ R[n] \in ReadState /\ R[n + 1] = ReadLabel(m, R[n])
                     /\ w[n] \in Nat
                     /\ w[n + 1] = IF w[n] < Len(m) /\ At(m, w[n]) # 0
                                   THEN w[n] + At(m, w[n]) + 1 ELSE w[n]
  BY <1>0, ParsingEquation, ReadingEquation, WalkingEquation
<1> HIDE DEF P, R, w
<1>5. 0 \in A
  BY <1>0, <1>1, <1>2, <1>3 DEF InStep
<1>6. ASSUME NEW n \in Nat, n \in A PROVE n + 1 \in A
  <2> DEFINE p == P[n]
             r == R[n]
             v == w[n]
             p1 == P[n + 1]
             r1 == R[n + 1]
             v1 == w[n + 1]
  <2>1. InStep(m, p, r, v, n)
    BY <1>6
  <2>2. p \in ParseState /\ p1 = ParseLabel(m, p) /\ p.at \in Nat
    BY <1>4, ParseRound
  <2>3. r \in ReadState /\ r1 = ReadLabel(m, r) /\ r.at \in Nat
    BY <1>4, ReadRound
  <2>4. v \in Nat /\ v1 = IF v < Len(m) /\ At(m, v) # 0 THEN v + At(m, v) + 1 ELSE v
    BY <1>4
  <2>5. SUFFICES InStep(m, p1, r1, v1, n + 1)
    OBVIOUS
  <2> HIDE DEF p, r, v, p1, r1, v1
  <2>6. CASE p.is = "failed"
    BY <2>1, <2>2, <2>3, <2>6, ParseRound, ReadRound DEF InStep
  <2>7. CASE p.is = "end"
    <3>1. p1 = p /\ r1 = r
      BY <2>1, <2>2, <2>3, <2>7, ParseRound, ReadRound DEF InStep
    <3>2. v1 = v
      BY <2>1, <2>4, <2>7 DEF InStep
    <3> QED BY <2>1, <2>7, <3>1, <3>2 DEF InStep
  <2>8. CASE p.is = "on" /\ p.at = Len(m)
    <3>1. p1 = p
      BY <2>2, <2>8, ParseRound
    <3>2. r1.is = "failed"
      BY <2>1, <2>3, <2>8, ReadRound DEF InStep
    <3> QED BY <1>0, <2>1, <2>8, <3>1, <3>2 DEF InStep
  <2>9. CASE p.is = "on" /\ p.at < Len(m)
    <3>1. r.is = "on" /\ r.at = p.at /\ v = p.at /\ p.at >= HeaderLen + n
      BY <1>0, <2>1, <2>2, <2>9 DEF InStep
    <3>2. At(m, p.at) \in Nat
      BY <2>2, <2>9, AtType
    <3>3. CASE At(m, p.at) = 0
      <4>1. p1.is = "end" /\ p1.at = p.at + 1
        BY <2>2, <2>9, <3>3, ParseRound
      <4>2. r1.is = "end" /\ r1.at = p.at + 1
        BY <2>3, <2>9, <3>1, <3>3, ReadRound
      <4>3. v1 = p.at
        BY <2>4, <3>1, <3>3
      <4> QED BY <1>0, <2>2, <2>9, <3>3, <4>1, <4>2, <4>3 DEF InStep
    <3>4. CASE At(m, p.at) # 0 /\ ~Fits(m, p)
      <4>1. ~Fits(m, r)
        BY <3>1, <3>4 DEF Fits
      <4>2. p1.is = "failed"
        BY <2>2, <2>9, <3>4, ParseRound
      <4>3. r1.is = "failed"
        BY <2>3, <2>9, <3>1, <3>4, <4>1, ReadRound
      <4> QED BY <4>2, <4>3 DEF InStep
    <3>5. CASE At(m, p.at) # 0 /\ Fits(m, p)
      <4>1. Fits(m, r)
        BY <3>1, <3>5 DEF Fits
      <4>2. p1.is = "on" /\ p1.at = p.at + 1 + At(m, p.at)
        BY <2>2, <2>9, <3>5, ParseRound
      <4>3. r1.is = "on" /\ r1.at = p.at + 1 + At(m, p.at)
        BY <2>3, <2>9, <3>1, <3>5, <4>1, ReadRound
      <4>4. v1 = p.at + 1 + At(m, p.at)
        BY <2>2, <2>4, <2>9, <3>1, <3>2, <3>5
      <4>5. p1.at <= Len(m) /\ p1.at >= HeaderLen + (n + 1)
        BY <1>0, <2>2, <3>1, <3>2, <3>5, <4>2 DEF Fits
      <4> QED BY <4>2, <4>3, <4>4, <4>5 DEF InStep
    <3> QED BY <3>3, <3>4, <3>5
  <2>10. p.is \in {"on", "end", "failed"} /\ (p.is = "on" => p.at <= Len(m))
    BY <2>1, <2>2 DEF ParseState, InStep
  <2> QED BY <1>0, <2>2, <2>6, <2>7, <2>8, <2>9, <2>10
<1>7. \A n \in Nat : n \in A
  <2> HIDE DEF A
  <2> QED BY <1>5, <1>6, EachNumber
<1> QED
  BY <1>7 DEF P, R, w

(* After as many rounds as there are bytes, parsing is over: either the     *)
(* name has ended, or there is none, or the message is at its end.  The     *)
(* reader needs one round more to see that.                                 *)
LEMMA LoopsEnd ==
  ASSUME NEW m \in Message, Len(m) >= HeaderLen
  PROVE  LET p == Parsing(m)[Len(m)]
             r == Reading(m, HeaderLen)[Len(m) + 1]
         IN  /\ p \in ParseState /\ r \in ReadState
             /\ p.is # "end" => r.is = "failed"
             /\ p.is = "on" => p.at = Len(m)
             /\ p.is = "end" => /\ r = Reading(m, HeaderLen)[Len(m)]
                                /\ r.is = "end" /\ r.at = p.at
                                /\ p.at \in Nat /\ p.at > 0 /\ p.at <= Len(m)
                                /\ Walking(m)[Len(m)] = p.at - 1
<1> DEFINE n == Len(m)
           p == Parsing(m)[n]
           s == Reading(m, HeaderLen)[n]
           r == Reading(m, HeaderLen)[n + 1]
<1>0. HeaderLen \in Nat /\ n \in Nat /\ HeaderLen > 0
  BY DEF HeaderLen, Message
<1>1. InStep(m, p, s, Walking(m)[n], n)
  BY <1>0, LoopsInStep
<1>2. p \in ParseState /\ s \in ReadState /\ r = ReadLabel(m, s)
  BY <1>0, ParsingEquation, ReadingEquation
<1>3. r \in ReadState
  BY <1>2, ReadLabelType
<1> HIDE DEF n, p, s, r
<1>4. p.is = "on" => p.at = n
  BY <1>0, <1>1, <1>2, ParseRound DEF InStep, n
<1>5. CASE p.is = "end"
  <2>1. s.is = "end" /\ s.at = p.at /\ p.at <= n /\ Walking(m)[n] = p.at - 1 /\ p.at - 1 \in Nat
    BY <1>1, <1>5 DEF InStep, n
  <2>2. r = s
    BY <1>2, <2>1, ReadRound
  <2>3. p.at \in Nat
    BY <1>2, ParseRound
  <2> QED BY <1>2, <1>3, <1>5, <2>1, <2>2, <2>3 DEF n, p, s, r
<1>6. CASE p.is # "end"
  <2>1. r.is = "failed"
    <3>1. p.is = "on" \/ p.is = "failed"
      BY <1>2, <1>6 DEF ParseState
    <3>2. s.is = "failed" \/ (s.is = "on" /\ s.at >= n)
      BY <1>0, <1>1, <1>4, <3>1 DEF InStep, n
    <3> QED BY <1>2, <3>2, ReadRound DEF n
  <2> QED BY <1>2, <1>3, <1>4, <1>6, <2>1 DEF n, p, s, r
<1> QED
  BY <1>5, <1>6

-----------------------------------------------------------------------------

(***************************************************************************)
(* The name: labels between dots.  In `text', the i-th of the labels ls is *)
(* between the bounds b[i - 1] and b[i], where there are dots, but for the *)
(* first and the last.                                                     *)
(***************************************************************************)

Spells(text, ls, b) ==
    /\ b \in [0 .. Len(ls) -> Nat]
    /\ b[0] = 0 /\ b[Len(ls)] = Len(text) + 1
    /\ \A i \in 1 .. Len(ls) :
          /\ Len(ls[i]) > 0 /\ b[i] = b[i - 1] + Len(ls[i]) + 1
          /\ b[i - 1] + Len(ls[i]) <= Len(text)
          /\ i < Len(ls) => text[b[i]] = 46
          /\ \A j \in 1 .. Len(ls[i]) : text[b[i - 1] + j] = Shown(ls[i][j])

(* The first label is a text.                                               *)
LEMMA SpellsFirst ==
  ASSUME NEW l \in Message, NEW s \in Message, Len(l) > 0, Len(s) = Len(l),
         \A j \in 1 .. Len(l) : s[j] = Shown(l[j])
  PROVE  \E b : Spells(s, Append(<<>>, l), b)
<1> DEFINE b == [i \in 0 .. 1 |-> IF i = 0 THEN 0 ELSE Len(s) + 1]
           ls == Append(<<>>, l)
<1>1. Len(ls) = 1 /\ ls[1] = l /\ Len(s) \in Nat
  BY DEF Message
<1>2. b \in [0 .. 1 -> Nat] /\ b[0] = 0 /\ b[1] = Len(s) + 1
  BY <1>1
<1> HIDE DEF b, ls
<1>3. \A i \in 1 .. 1 : i = 1 /\ i - 1 = 0
  OBVIOUS
<1>4. Spells(s, ls, b)
  BY <1>1, <1>2, <1>3 DEF Spells
<1> QED
  BY <1>4 DEF ls

(* A text, a dot and one more label are a text.                             *)
LEMMA SpellsMore ==
  ASSUME NEW text \in Message, NEW ls \in Seq(Message), NEW b, Spells(text, ls, b),
         NEW l \in Message, NEW s \in Message, Len(l) > 0, Len(s) = Len(l),
         \A j \in 1 .. Len(l) : s[j] = Shown(l[j])
  PROVE  \E c : Spells(text \o <<46>> \o s, Append(ls, l), c)
<1> DEFINE n == Len(ls)
           t == Len(text)
           more == text \o <<46>> \o s
           c == [i \in 0 .. n + 1 |-> IF i = n + 1 THEN t + 1 + Len(s) + 1 ELSE b[i]]
           ks == Append(ls, l)
<1>1. n \in Nat /\ t \in Nat /\ Len(s) \in Nat /\ Len(l) \in Nat
  BY DEF Message
<1>2. /\ more \in Seq(Byte) /\ Len(more) = t + 1 + Len(s)
      /\ \A i \in 1 .. t : more[i] = text[i]
      /\ more[t + 1] = 46
      /\ \A j \in 1 .. Len(s) : more[t + 1 + j] = s[j]
  <2>1. 46 \in Byte
    BY DEF Byte
  <2> DEFINE u == text \o <<46>>
  <2>2. /\ u \in Seq(Byte) /\ Len(u) = t + 1 /\ u[t + 1] = 46
        /\ \A i \in 1 .. t : u[i] = text[i]
    BY <2>1 DEF Message
  <2>3. more = u \o s /\ s \in Seq(Byte)
    BY DEF Message
  <2> HIDE DEF u, more
  <2>4. more \in Seq(Byte) /\ Len(more) = t + 1 + Len(s)
    BY <1>1, <2>2, <2>3
  <2>5. \A i \in 1 .. t + 1 : more[i] = u[i]
    BY <1>1, <2>2, <2>3
  <2>6. \A j \in 1 .. Len(s) : more[t + 1 + j] = s[j]
    <3> HIDE DEF t
    <3> QED BY <1>1, <2>2, <2>3
  <2> QED BY <1>1, <2>2, <2>4, <2>5, <2>6
<1>3. /\ Len(ks) = n + 1 /\ ks[n + 1] = l
      /\ \A i \in 1 .. n : ks[i] = ls[i]
  OBVIOUS
<1>4. /\ b \in [0 .. n -> Nat] /\ b[0] = 0 /\ b[n] = t + 1
      /\ \A i \in 1 .. n :
            /\ Len(ls[i]) > 0 /\ b[i] = b[i - 1] + Len(ls[i]) + 1
            /\ b[i - 1] + Len(ls[i]) <= t
            /\ i < n => text[b[i]] = 46
            /\ \A j \in 1 .. Len(ls[i]) : text[b[i - 1] + j] = Shown(ls[i][j])
      /\ \A i \in 1 .. n : Len(ls[i]) \in Nat
  BY DEF Spells, Message
<1> HIDE DEF n, t, more, ks
<1>5. c \in [0 .. n + 1 -> Nat] /\ c[n + 1] = t + 1 + Len(s) + 1 /\ \A i \in 0 .. n : c[i] = b[i]
  BY <1>1, <1>4
<1> HIDE DEF c
<1>6. c[0] = 0
  BY <1>1, <1>4, <1>5
<1>7. ASSUME NEW i \in 1 .. n + 1
      PROVE  /\ Len(ks[i]) > 0 /\ c[i] = c[i - 1] + Len(ks[i]) + 1
             /\ c[i - 1] + Len(ks[i]) <= Len(more)
             /\ i < n + 1 => more[c[i]] = 46
             /\ \A j \in 1 .. Len(ks[i]) : more[c[i - 1] + j] = Shown(ks[i][j])
  <2>1. CASE i = n + 1
    <3>1. i - 1 = n /\ c[i - 1] = t + 1
      BY <1>1, <1>4, <1>5, <2>1
    <3> QED BY <1>1, <1>2, <1>3, <1>5, <2>1, <3>1
  <2>2. CASE i # n + 1
    <3>1. i \in 1 .. n /\ i \in 0 .. n /\ i - 1 \in 0 .. n
      BY <1>1, <2>2
    <3>2. ks[i] = ls[i] /\ c[i] = b[i] /\ c[i - 1] = b[i - 1] /\ b[i] \in Nat /\ b[i - 1] \in Nat
          /\ Len(ls[i]) \in Nat
      BY <1>3, <1>4, <1>5, <3>1
    <3>3. /\ Len(ls[i]) > 0 /\ b[i] = b[i - 1] + Len(ls[i]) + 1 /\ b[i - 1] + Len(ls[i]) <= t
          /\ i < n => text[b[i]] = 46
          /\ \A j \in 1 .. Len(ls[i]) : text[b[i - 1] + j] = Shown(ls[i][j])
      BY <1>4, <3>1
    <3>4. more[b[i]] = 46
      <4>1. CASE i = n
        BY <1>2, <1>4, <4>1
      <4>2. CASE i < n
        <5>1. i + 1 \in 1 .. n /\ (i + 1) - 1 = i
          BY <1>1, <3>1, <4>2
        <5>2. b[i] + Len(ls[i + 1]) <= t /\ Len(ls[i + 1]) > 0 /\ Len(ls[i + 1]) \in Nat
          BY <1>4, <5>1
        <5>3. b[i] \in 1 .. t
          BY <1>1, <3>2, <3>3, <5>2
        <5> QED BY <1>2, <3>3, <4>2, <5>3
      <4> QED BY <1>1, <3>1, <4>1, <4>2
    <3>5. ASSUME NEW j \in 1 .. Len(ls[i]) PROVE more[b[i - 1] + j] = Shown(ls[i][j])
      <4>1. b[i - 1] + j \in 1 .. t
        BY <1>1, <3>2, <3>3
      <4> QED BY <1>2, <3>3, <4>1
    <3>6. b[i - 1] + Len(ls[i]) <= Len(more)
      BY <1>1, <1>2, <3>2, <3>3
    <3> QED BY <3>2, <3>3, <3>4, <3>5, <3>6
  <2> QED BY <2>1, <2>2
<1>8. Spells(more, ks, c)
  BY <1>1, <1>2, <1>3, <1>5, <1>6, <1>7 DEF Spells
<1> QED
  BY <1>8 DEF more, ks

(* What is cut and extended is a beginning of what is extended and cut.     *)
LEMMA CutOnce ==
  ASSUME NEW s \in Message, NEW t \in Message
  PROVE  Cut(Cut(s) \o t) = Cut(s \o t)
<1>1. CASE Len(s) < QnameSize
  BY <1>1, CutType
<1>2. CASE Len(s) >= QnameSize
  <2> DEFINE q == QnameSize - 1
             c == Cut(s)
             u == c \o t
             v == s \o t
  <2>0. q \in Nat /\ q < Len(s) /\ Len(s) \in Nat /\ Len(t) \in Nat /\ QnameSize \in Nat
    BY <1>2, WireAssumption DEF Message
  <2>1. c = SubSeq(s, 1, q)
    BY <1>2, <2>0 DEF Cut
  <2>2. c \in Seq(Byte) /\ Len(c) = q /\ \A i \in 1 .. q : c[i] = s[i]
    BY <2>0, <2>1 DEF Message
  <2> HIDE DEF c
  <2>3. u \in Seq(Byte) /\ Len(u) = q + Len(t) /\ \A i \in 1 .. q : u[i] = s[i]
    BY <2>0, <2>2 DEF Message
  <2>4. v \in Seq(Byte) /\ Len(v) = Len(s) + Len(t) /\ \A i \in 1 .. q : v[i] = s[i]
    BY <2>0 DEF Message
  <2> HIDE DEF u, v
  <2>5. Cut(v) = SubSeq(v, 1, q)
    BY <2>0, <2>4 DEF Cut
  <2>6. Cut(u) = SubSeq(u, 1, q)
    <3>1. CASE Len(u) < QnameSize
      <4>1. Len(u) = q
        BY <2>0, <2>3, <3>1
      <4>2. SubSeq(u, 1, q) = u
        BY <2>3, <4>1
      <4> QED BY <3>1, <4>2 DEF Cut
    <3>2. CASE ~(Len(u) < QnameSize)
      BY <3>2 DEF Cut
    <3> QED BY <3>1, <3>2
  <2>7. SubSeq(u, 1, q) = SubSeq(v, 1, q)
    <3>1. /\ SubSeq(u, 1, q) = [i \in 1 .. q |-> u[i]]
          /\ SubSeq(v, 1, q) = [i \in 1 .. q |-> v[i]]
      BY <2>0, <2>3, <2>4
    <3> QED BY <2>3, <2>4, <3>1
  <2> QED BY <2>5, <2>6, <2>7 DEF u, v, c
<1> QED
  BY <1>1, <1>2, WireAssumption DEF Message

(* The name is what fits of the text that the labels make, which is t bytes *)
(* further on in the message.                                               *)
NameIs(name, ls, t) ==
    /\ ls = <<>> => name = <<>> /\ t = HeaderLen
    /\ ls # <<>> => \E text \in Message : \E b :
                       /\ Spells(text, ls, b) /\ name = Cut(text)
                       /\ Len(text) = t - HeaderLen - 1

(* Concatenations may be regrouped.                                         *)
LEMMA Regrouped ==
  ASSUME NEW s \in Message, NEW t \in Message, NEW u \in Message
  PROVE  (s \o t) \o u = s \o (t \o u)
BY DEF Message

(* One label more is read by both.                                          *)
LEMMA NameGrows ==
  ASSUME NEW m \in Message, NEW p \in ParseState, NEW r \in ReadState,
         p.is = "on", p.at < Len(m), r.at = p.at, At(m, p.at) # 0, Fits(m, p),
         p.at >= HeaderLen, NameIs(p.name, r.labels, p.at)
  PROVE  NameIs(Cut(p.name \o (IF p.name = <<>> THEN <<>> ELSE <<46>>) \o Label(m, p)),
                Append(r.labels, Bytes(m, p.at + 1, At(m, p.at))),
                p.at + 1 + At(m, p.at))
<1> DEFINE n == At(m, p.at)
           l == Bytes(m, p.at + 1, n)
           s == Label(m, p)
           dot == IF p.name = <<>> THEN <<>> ELSE <<46>>
           name == Cut(p.name \o dot \o s)
           ls == Append(r.labels, l)
<1>1. p.at \in Nat /\ Len(m) \in Nat /\ n \in Nat /\ n > 0 /\ p.at + 1 + n <= Len(m) /\ HeaderLen \in Nat
  BY AtType DEF ParseState, Message, Fits, HeaderLen
<1>2. s \in Message /\ Len(s) = n /\ \A i \in 1 .. n : s[i] = Shown(At(m, p.at + i))
  BY <1>1, LabelType
<1>3. l \in Message /\ Len(l) = n /\ \A i \in 1 .. n : l[i] = At(m, p.at + i)
  <2>1. \A i \in 1 .. n : (p.at + 1) + i - 1 = p.at + i
    BY <1>1
  <2>2. p.at + 1 \in Nat /\ (p.at + 1) + n <= Len(m)
    BY <1>1
  <2> HIDE DEF n
  <2>3. /\ l \in Message /\ Len(l) = n
        /\ \A i \in 1 .. n : l[i] = At(m, (p.at + 1) + i - 1)
    BY <1>1, <2>2, BytesType
  <2> QED BY <2>1, <2>3
<1>4. \A j \in 1 .. Len(l) : s[j] = Shown(l[j])
  BY <1>2, <1>3
<1>5. r.labels \in Seq(Message) /\ ls # <<>> /\ p.name \in Message
  BY <1>3 DEF ReadState, ParseState
<1> SUFFICES NameIs(name, ls, p.at + 1 + n)
  OBVIOUS
<1> HIDE DEF n, l, s, name, ls
<1>6. SUFFICES \E text \in Message : \E b :
                  /\ Spells(text, ls, b) /\ name = Cut(text)
                  /\ Len(text) = (p.at + 1 + n) - HeaderLen - 1
  BY <1>5 DEF NameIs
<1> USE DEF name, ls
<1>7. CASE r.labels = <<>>
  <2>1. p.name = <<>> /\ p.at = HeaderLen
    BY <1>7 DEF NameIs
  <2>2. p.name \o dot \o s = s
    BY <1>2, <2>1 DEF Message
  <2>3. \E b : Spells(s, ls, b)
    BY <1>1, <1>2, <1>3, <1>4, <1>7, SpellsFirst
  <2>4. Len(s) = (p.at + 1 + n) - HeaderLen - 1
    BY <1>1, <1>2, <2>1
  <2> QED BY <1>2, <2>2, <2>3, <2>4
<1>8. CASE r.labels # <<>>
  <2>1. PICK text \in Message : \E b : /\ Spells(text, r.labels, b) /\ p.name = Cut(text)
                                      /\ Len(text) = p.at - HeaderLen - 1
    BY <1>8 DEF NameIs
  <2>2. PICK b : Spells(text, r.labels, b)
    BY <2>1
  <2>3. Len(text) > 0 /\ Len(text) \in Nat
    <3>1. Len(r.labels) \in Nat /\ 1 \in 1 .. Len(r.labels) /\ r.labels[1] \in Message
      BY <1>5, <1>8
    <3>2. Len(r.labels[1]) \in Nat /\ Len(text) \in Nat
      BY <3>1 DEF Message
    <3>3. b[0] = 0 /\ 1 - 1 = 0
      BY <2>2 DEF Spells
    <3>4. Len(r.labels[1]) > 0 /\ b[1 - 1] + Len(r.labels[1]) <= Len(text)
      BY <2>2, <3>1 DEF Spells
    <3> QED BY <3>2, <3>3, <3>4
  <2>4. p.name # <<>>
    <3>1. Len(Cut(text)) > 0
      BY <2>3, CutType
    <3> QED BY <2>1, <3>1
  <2> DEFINE more == text \o <<46>> \o s
  <2>5. <<46>> \in Message
    <3>1. 46 \in Byte
      BY DEF Byte
    <3> QED BY <3>1 DEF Message
  <2>6. more \in Message /\ Len(more) = Len(text) + 1 + Len(s)
    BY <1>2, <2>5 DEF Message
  <2>7. name = Cut(more)
    <3>1. <<46>> \o s \in Message
      BY <1>2, <2>5 DEF Message
    <3>2. name = Cut(Cut(text) \o (<<46>> \o s))
      <4>1. (p.name \o <<46>>) \o s = p.name \o (<<46>> \o s)
        BY <1>2, <1>5, <2>5, Regrouped
      <4> QED BY <2>1, <2>4, <4>1
    <3>3. Cut(text \o (<<46>> \o s)) = Cut(Cut(text) \o (<<46>> \o s))
      BY <3>1, CutOnce
    <3>4. text \o (<<46>> \o s) = more
      BY <1>2, <2>5 DEF Message
    <3> HIDE DEF name, more
    <3> QED BY <3>2, <3>3, <3>4
  <2>8. \E c : Spells(more, ls, c)
    BY <1>1, <1>2, <1>3, <1>4, <1>5, <2>2, SpellsMore
  <2>9. Len(more) = (p.at + 1 + n) - HeaderLen - 1
    BY <1>1, <1>2, <2>1, <2>3, <2>6
  <2> HIDE DEF name, more
  <2> QED BY <2>6, <2>7, <2>8, <2>9
<1> QED
  BY <1>7, <1>8

(* The name that is parsed is the text of the labels that are read.         *)
LEMMA NameIsText ==
  ASSUME NEW m \in Message, Len(m) >= HeaderLen
  PROVE  \A n \in Nat :
            LET p == Parsing(m)[n]
                r == Reading(m, HeaderLen)[n]
            IN  /\ p.is = "on" /\ r.is = "on" => p.at >= HeaderLen /\ NameIs(p.name, r.labels, p.at)
                /\ p.is = "end" => NameIs(p.name, r.labels, p.at - 1)
<1> DEFINE P == Parsing(m)
           R == Reading(m, HeaderLen)
           Names(p, r) == /\ p.is = "on" /\ r.is = "on" => p.at >= HeaderLen /\ NameIs(p.name, r.labels, p.at)
                          /\ p.is = "end" => NameIs(p.name, r.labels, p.at - 1)
           A == {n \in Nat : Names(P[n], R[n])}
<1>0. HeaderLen \in Nat /\ Len(m) \in Nat
  BY DEF HeaderLen, Message
<1>1. P[0] = [is |-> "on", at |-> HeaderLen, name |-> <<>>]
  BY ParsingEquation
<1>2. R[0] = [is |-> "on", at |-> HeaderLen, labels |-> <<>>]
  BY <1>0, ReadingEquation
<1>3. \A n \in Nat : /\ P[n] \in ParseState /\ P[n + 1] = ParseLabel(m, P[n])
                     /\ R[n] \in ReadState /\ R[n + 1] = ReadLabel(m, R[n])
                     /\ InStep(m, P[n], R[n], Walking(m)[n], n)
  BY <1>0, ParsingEquation, ReadingEquation, LoopsInStep
<1> HIDE DEF P, R
<1>4. 0 \in A
  BY <1>0, <1>1, <1>2 DEF NameIs
<1>5. ASSUME NEW n \in Nat, n \in A PROVE n + 1 \in A
  <2> DEFINE p == P[n]
             r == R[n]
             p1 == P[n + 1]
             r1 == R[n + 1]
  <2>1. Names(p, r)
    BY <1>5
  <2>2. p \in ParseState /\ p1 = ParseLabel(m, p) /\ p.at \in Nat
    BY <1>3, ParseRound
  <2>3. r \in ReadState /\ r1 = ReadLabel(m, r) /\ r.at \in Nat
    BY <1>3, ReadRound
  <2>4. InStep(m, p, r, Walking(m)[n], n)
    BY <1>3
  <2>5. SUFFICES Names(p1, r1)
    OBVIOUS
  <2> HIDE DEF p, r, p1, r1
  <2>6. CASE p.is = "failed"
    BY <2>2, <2>6, ParseRound
  <2>7. CASE p.is = "end"
    <3>1. p1 = p /\ r1 = r
      BY <2>2, <2>3, <2>4, <2>7, ParseRound, ReadRound DEF InStep
    <3> QED BY <2>1, <2>7, <3>1
  <2>8. CASE p.is = "on" /\ p.at >= Len(m)
    <3>1. p.at = Len(m)
      BY <1>0, <2>2, <2>4, <2>8 DEF InStep
    <3>2. r1.is = "failed" /\ p1 = p
      BY <2>2, <2>3, <2>4, <2>8, <3>1, ParseRound, ReadRound DEF InStep
    <3> QED BY <2>8, <3>2
  <2>9. CASE p.is = "on" /\ p.at < Len(m)
    <3>1. r.is = "on" /\ r.at = p.at
      BY <2>4, <2>9 DEF InStep
    <3>2. At(m, p.at) \in Nat
      BY <2>2, <2>9, AtType
    <3>3. CASE At(m, p.at) = 0
      <4>1. p1.is = "end" /\ p1.at = p.at + 1 /\ p1.name = p.name
        BY <2>2, <2>9, <3>3, ParseRound
      <4>2. r1.labels = r.labels
        BY <2>3, <2>9, <3>1, <3>3, ReadRound
      <4>3. p1.at - 1 = p.at
        BY <2>2, <4>1
      <4> QED BY <2>1, <2>9, <3>1, <4>1, <4>2, <4>3
    <3>4. CASE At(m, p.at) # 0 /\ ~Fits(m, p)
      BY <2>2, <2>9, <3>4, ParseRound
    <3>5. CASE At(m, p.at) # 0 /\ Fits(m, p)
      <4> DEFINE k == At(m, p.at)
                 name == Cut(p.name \o (IF p.name = <<>> THEN <<>> ELSE <<46>>) \o Label(m, p))
                 ls == Append(r.labels, Bytes(m, p.at + 1, k))
      <4>1. Fits(m, r)
        BY <3>1, <3>5 DEF Fits
      <4>2. p1.is = "on" /\ p1.at = p.at + 1 + k /\ p1.name = name
        BY <2>2, <2>9, <3>5, ParseRound
      <4>3. r1.labels = ls
        BY <2>3, <2>9, <3>1, <3>5, <4>1, ReadRound
      <4>4. p.at >= HeaderLen /\ NameIs(p.name, r.labels, p.at)
        BY <2>1, <2>9, <3>1
      <4>5. NameIs(name, ls, p.at + 1 + k)
        BY <2>2, <2>3, <2>9, <3>1, <3>5, <4>4, NameGrows
      <4> HIDE DEF k, name, ls
      <4>6. p1.at >= HeaderLen
        BY <1>0, <2>2, <3>2, <4>2, <4>4 DEF k
      <4> QED BY <4>2, <4>3, <4>5, <4>6
    <3> QED BY <3>3, <3>4, <3>5
  <2>10. p.is \in {"on", "end", "failed"}
    BY <2>2 DEF ParseState
  <2> QED BY <1>0, <2>2, <2>6, <2>7, <2>8, <2>9, <2>10
<1>6. \A n \in Nat : n \in A
  <2> HIDE DEF A
  <2> QED BY <1>4, <1>5, EachNumber
<1> QED
  BY <1>6 DEF P, R

-----------------------------------------------------------------------------
\* The text, split at its dots

(* A set of numbers has a least.                                            *)
LEMMA LeastNumber ==
  ASSUME NEW N \in SUBSET Nat, N # {}
  PROVE  \E n \in N : \A k \in N : n <= k
<1>1. PICK n \in N : \A k \in N : ~(<<k, n>> \in OpToRel(<, Nat))
  BY NatLessThanWellFounded, WFMin
<1>2. \A k \in N : ~(k < n)
  BY <1>1 DEF OpToRel
<1> QED
  BY <1>2

(* The bounds of the labels are in order.                                   *)
LEMMA BoundsInOrder ==
  ASSUME NEW text \in Message, NEW ls \in Seq(Message), NEW b, Spells(text, ls, b)
  PROVE  \A i, k \in 0 .. Len(ls) : i < k <=> b[i] < b[k]
<1> DEFINE n == Len(ls)
           A == {k \in Nat : k <= n => \A i \in 0 .. n : i < k => b[i] < b[k]}
<1>1. n \in Nat /\ b \in [0 .. n -> Nat]
  BY DEF Spells
<1>2. \A i \in 1 .. n : b[i - 1] < b[i]
  <2> SUFFICES ASSUME NEW i \in 1 .. n PROVE b[i - 1] < b[i]
    OBVIOUS
  <2>1. b[i] = b[i - 1] + Len(ls[i]) + 1 /\ Len(ls[i]) > 0
    BY DEF Spells
  <2>2. Len(ls[i]) \in Nat /\ i - 1 \in 0 .. n
    BY <1>1 DEF Message
  <2> QED BY <1>1, <2>1, <2>2
<1> HIDE DEF n
<1>3. 0 \in A
  BY <1>1
<1>4. ASSUME NEW k \in Nat, k \in A PROVE k + 1 \in A
  <2> SUFFICES ASSUME k + 1 <= n, NEW i \in 0 .. n, i < k + 1 PROVE b[i] < b[k + 1]
    OBVIOUS
  <2>1. k + 1 \in 1 .. n /\ (k + 1) - 1 = k /\ k \in 0 .. n /\ k + 1 \in 0 .. n
    BY <1>1
  <2>2. b[k] < b[k + 1]
    BY <1>2, <2>1
  <2>3. i = k \/ b[i] < b[k]
    BY <1>1, <1>4, <2>1
  <2>4. b[i] \in Nat /\ b[k] \in Nat /\ b[k + 1] \in Nat
    BY <1>1, <2>1
  <2> QED BY <2>2, <2>3, <2>4
<1>5. \A k \in Nat : k \in A
  <2> HIDE DEF A
  <2> QED BY <1>3, <1>4, EachNumber
<1>6. \A i, k \in 0 .. n : i < k => b[i] < b[k]
  BY <1>1, <1>5
<1>7. \A i, k \in 0 .. n : b[i] < b[k] => i < k
  <2> SUFFICES ASSUME NEW i \in 0 .. n, NEW k \in 0 .. n, b[i] < b[k], ~(i < k) PROVE FALSE
    OBVIOUS
  <2>1. i = k \/ b[k] < b[i]
    BY <1>1, <1>6
  <2> QED BY <1>1, <2>1
<1> QED
  BY <1>6, <1>7 DEF n

(* The dots of a text are where the bounds are, when its labels have none.  *)
LEMMA DotsAreBounds ==
  ASSUME NEW text \in Message, NEW ls \in Seq(Message), ls # <<>>, NEW b, Spells(text, ls, b),
         \A i \in DOMAIN ls : \A j \in DOMAIN ls[i] : ls[i][j] \in 33 .. 126 \ {46}
  PROVE  {0, Len(text) + 1} \union {x \in DOMAIN text : text[x] = 46}
            = {b[i] : i \in 0 .. Len(ls)}
<1> DEFINE n == Len(ls)
           t == Len(text)
<1>1. /\ n \in Nat /\ n > 0 /\ t \in Nat /\ DOMAIN text = 1 .. t
      /\ b \in [0 .. n -> Nat] /\ b[0] = 0 /\ b[n] = t + 1
  BY DEF Spells, Message
<1>2. \A i \in 0 .. n : \A k \in 0 .. n : i < k <=> b[i] < b[k]
  BY BoundsInOrder
<1>3. \A i \in 1 .. n : i < n => text[b[i]] = 46
  BY DEF Spells
<1>4. ASSUME NEW i \in 0 .. n
      PROVE  b[i] \in {0, t + 1} \union {x \in DOMAIN text : text[x] = 46}
  <2>1. CASE i = 0 \/ i = n
    BY <1>1, <2>1
  <2>2. CASE 0 < i /\ i < n
    <3>1. 0 \in 0 .. n /\ n \in 0 .. n /\ i \in 1 .. n
      BY <1>1, <2>2
    <3>2. b[0] < b[i] /\ b[i] < b[n] /\ b[i] \in Nat
      BY <1>1, <1>2, <2>2, <3>1
    <3>3. b[i] \in 1 .. t
      BY <1>1, <3>2
    <3> QED BY <1>1, <1>3, <2>2, <3>1, <3>3
  <2> QED BY <1>1, <2>1, <2>2
<1>5. ASSUME NEW x \in 1 .. t, text[x] = 46 PROVE \E i \in 0 .. n : x = b[i]
  <2> DEFINE N == {i \in 0 .. n : b[i] >= x}
  <2>1. n \in N
    BY <1>1
  <2>2. PICK i \in N : \A k \in N : i <= k
    <3>1. N \subseteq Nat /\ N # {}
      BY <1>1, <2>1
    <3> HIDE DEF N
    <3> QED BY <3>1, LeastNumber
  <2>3. i # 0
    BY <1>1, <2>2
  <2>4. i \in 1 .. n /\ i - 1 \in 0 .. n /\ i \in 0 .. n /\ ~(i <= i - 1)
    BY <1>1, <2>2, <2>3
  <2>5. b[i - 1] < x /\ x <= b[i] /\ b[i] \in Nat /\ b[i - 1] \in Nat
    <3>1. i - 1 \notin N
      BY <2>2, <2>4
    <3> QED BY <1>1, <2>2, <2>4, <3>1
  <2>6. /\ b[i] = b[i - 1] + Len(ls[i]) + 1
        /\ \A j \in 1 .. Len(ls[i]) : text[b[i - 1] + j] = Shown(ls[i][j])
    BY <2>4 DEF Spells
  <2>7. i \in DOMAIN ls /\ ls[i] \in Message /\ Len(ls[i]) \in Nat /\ DOMAIN ls[i] = 1 .. Len(ls[i])
    BY <2>4 DEF Message
  <2>8. ASSUME x < b[i] PROVE FALSE
    <3> DEFINE j == x - b[i - 1]
    <3>1. j \in 1 .. Len(ls[i]) /\ b[i - 1] + j = x
      BY <2>5, <2>6, <2>7, <2>8
    <3>2. text[x] = Shown(ls[i][j]) /\ ls[i][j] \in 33 .. 126 /\ ls[i][j] # 46
      BY <2>6, <2>7, <3>1
    <3> HIDE DEF j
    <3>3. Shown(ls[i][j]) = ls[i][j]
      BY <3>2 DEF Shown
    <3> QED BY <1>5, <3>2, <3>3
  <2> QED BY <2>4, <2>5, <2>8
<1>6. 0 = b[0] /\ t + 1 = b[n] /\ 0 \in 0 .. n /\ n \in 0 .. n
  BY <1>1
<1> HIDE DEF n, t
<1> QED
  <2>1. {0, t + 1} \union {x \in DOMAIN text : text[x] = 46} \subseteq {b[i] : i \in 0 .. n}
    BY <1>1, <1>5, <1>6
  <2>2. {b[i] : i \in 0 .. n} \subseteq {0, t + 1} \union {x \in DOMAIN text : text[x] = 46}
    BY <1>4
  <2> QED BY <2>1, <2>2 DEF n, t

(* So many bounds are before the i-th.                                      *)
LEMMA BoundsBefore ==
  ASSUME NEW text \in Message, NEW ls \in Seq(Message), NEW b, Spells(text, ls, b),
         NEW i \in 0 .. Len(ls)
  PROVE  Cardinality({x \in {b[k] : k \in 0 .. Len(ls)} : x < b[i]}) = i
<1> DEFINE n == Len(ls)
           S == {x \in {b[k] : k \in 0 .. n} : x < b[i]}
           f == [j \in 1 .. i |-> b[j - 1]]
<1>1. n \in Nat /\ b \in [0 .. n -> Nat]
  BY DEF Spells
<1>2. \A j \in 0 .. n : \A k \in 0 .. n : j < k <=> b[j] < b[k]
  BY BoundsInOrder
<1> HIDE DEF n
<1>3. i \in Nat /\ i \in 0 .. n
  BY <1>1 DEF n
<1>4. \A j \in 1 .. i : j - 1 \in 0 .. n /\ b[j - 1] \in S
  BY <1>1, <1>2, <1>3
<1>5. \A j, k \in 1 .. i : f[j] = f[k] => j = k
  <2> SUFFICES ASSUME NEW j \in 1 .. i, NEW k \in 1 .. i, j # k PROVE b[j - 1] # b[k - 1]
    OBVIOUS
  <2>1. (j - 1) < (k - 1) \/ (k - 1) < (j - 1)
    OBVIOUS
  <2>2. j - 1 \in 0 .. n /\ k - 1 \in 0 .. n
    BY <1>4
  <2>3. b[j - 1] \in Nat /\ b[k - 1] \in Nat
    BY <1>1, <2>2
  <2>4. b[j - 1] < b[k - 1] \/ b[k - 1] < b[j - 1]
    BY <1>2, <2>1, <2>2
  <2> QED BY <2>3, <2>4
<1>6. \A x \in S : \E j \in 1 .. i : f[j] = x
  <2> SUFFICES ASSUME NEW k \in 0 .. n, b[k] < b[i] PROVE \E j \in 1 .. i : b[j - 1] = b[k]
    OBVIOUS
  <2>1. k < i
    BY <1>2, <1>3
  <2>2. k + 1 \in 1 .. i /\ (k + 1) - 1 = k
    BY <1>1, <1>3, <2>1
  <2> QED BY <2>2
<1>7. f \in [1 .. i -> S]
  BY <1>4
<1> HIDE DEF f, S
<1>8. ExistsBijection(1 .. i, S)
  BY <1>5, <1>6, <1>7 DEF ExistsBijection, Bijection, Injection, Surjection, IsInjective
<1>9. Cardinality(S) = i
  BY <1>3, <1>8, FS_CountingElements
<1> QED
  BY <1>9 DEF S, n

(* Splitting the text gives the labels.                                     *)
LEMMA SplitSpelled ==
  ASSUME NEW text \in Message, NEW ls \in Seq(Message), ls # <<>>, NEW b, Spells(text, ls, b),
         \A i \in DOMAIN ls : \A j \in DOMAIN ls[i] : ls[i][j] \in 33 .. 126 \ {46}
  PROVE  SplitAtDots(text) = ls
<1> DEFINE n == Len(ls)
           B == {0, Len(text) + 1} \union {x \in DOMAIN text : text[x] = 46}
           Bound(i) == CHOOSE x \in B : Cardinality({y \in B : y < x}) = i
<1>1. /\ n \in Nat /\ n > 0 /\ b \in [0 .. n -> Nat] /\ b[0] = 0 /\ b[n] = Len(text) + 1
      /\ Len(text) \in Nat
  BY DEF Spells, Message
<1>2. B = {b[i] : i \in 0 .. n}
  BY DotsAreBounds
<1>3. \A i \in 0 .. n : Cardinality({y \in B : y < b[i]}) = i
  <2>1. \A i \in 0 .. n : Cardinality({x \in {b[k] : k \in 0 .. n} : x < b[i]}) = i
    BY BoundsBefore
  <2>2. \A S : B = S => \A i \in 0 .. n :
           Cardinality({x \in S : x < b[i]}) = i => Cardinality({y \in B : y < b[i]}) = i
    OBVIOUS
  <2> HIDE DEF B
  <2> QED BY <1>2, <2>1, <2>2
<1>6. SplitAtDots(text) = [i \in 1 .. Cardinality(B) - 1 |->
                              SubSeq(text, Bound(i - 1) + 1, Bound(i) - 1)]
  BY DEF SplitAtDots
<1> HIDE DEF B, n
<1>4. ASSUME NEW i \in 0 .. n PROVE Bound(i) = b[i]
  <2>1. b[i] \in B /\ Cardinality({y \in B : y < b[i]}) = i
    BY <1>2, <1>3
  <2>2. Bound(i) \in B /\ Cardinality({y \in B : y < Bound(i)}) = i
    BY <2>1
  <2>3. PICK k \in 0 .. n : Bound(i) = b[k]
    <3>1. Bound(i) \in B
      BY <2>2
    <3> HIDE DEF Bound
    <3> QED BY <1>2, <3>1
  <2> HIDE DEF Bound
  <2>4. k = i
    BY <1>3, <2>2, <2>3
  <2> QED BY <2>3, <2>4
<1>5. Cardinality(B) - 1 = n
  <2> DEFINE f == [j \in 1 .. n + 1 |-> b[j - 1]]
  <2>1. \A j \in 1 .. n + 1 : j - 1 \in 0 .. n /\ b[j - 1] \in B
    BY <1>1, <1>2
  <2>2. f \in [1 .. n + 1 -> B]
    BY <2>1
  <2>3. \A j \in 1 .. n + 1, k \in 1 .. n + 1 : f[j] = f[k] => j = k
    <3> SUFFICES ASSUME NEW j \in 1 .. n + 1, NEW k \in 1 .. n + 1, b[j - 1] = b[k - 1] PROVE j = k
      OBVIOUS
    <3>1. j - 1 = k - 1
      BY <1>3, <2>1
    <3> QED BY <1>1, <3>1
  <2>4. \A x \in B : \E j \in 1 .. n + 1 : f[j] = x
    <3> SUFFICES ASSUME NEW k \in 0 .. n PROVE \E j \in 1 .. n + 1 : b[j - 1] = b[k]
      BY <1>2
    <3>1. k + 1 \in 1 .. n + 1 /\ (k + 1) - 1 = k
      BY <1>1
    <3> QED BY <3>1
  <2> HIDE DEF f
  <2>5. ExistsBijection(1 .. n + 1, B)
    BY <2>2, <2>3, <2>4 DEF ExistsBijection, Bijection, Injection, Surjection, IsInjective
  <2>6. Cardinality(B) = n + 1
    BY <1>1, <2>5, FS_CountingElements
  <2> QED BY <1>1, <2>6
<1>7. \A i \in 1 .. n : Bound(i - 1) = b[i - 1] /\ Bound(i) = b[i]
  <2> SUFFICES ASSUME NEW i \in 1 .. n PROVE Bound(i - 1) = b[i - 1] /\ Bound(i) = b[i]
    OBVIOUS
  <2>1. i - 1 \in 0 .. n /\ i \in 0 .. n
    BY <1>1
  <2> HIDE DEF Bound
  <2> QED BY <1>4, <2>1
<1> HIDE DEF Bound
<1>8. ASSUME NEW i \in 1 .. n PROVE SubSeq(text, b[i - 1] + 1, b[i] - 1) = ls[i]
  <2>1. /\ Len(ls[i]) > 0 /\ b[i] = b[i - 1] + Len(ls[i]) + 1
        /\ b[i - 1] + Len(ls[i]) <= Len(text)
        /\ \A j \in 1 .. Len(ls[i]) : text[b[i - 1] + j] = Shown(ls[i][j])
    BY DEF Spells, n
  <2>2. ls[i] \in Message /\ ls[i] \in Seq(Byte) /\ Len(ls[i]) \in Nat /\ i \in DOMAIN ls
    BY DEF Message, n
  <2>3. \A j \in 1 .. Len(ls[i]) : Shown(ls[i][j]) = ls[i][j]
    <3> SUFFICES ASSUME NEW j \in 1 .. Len(ls[i]) PROVE Shown(ls[i][j]) = ls[i][j]
      OBVIOUS
    <3>1. j \in DOMAIN ls[i]
      BY <2>2
    <3>2. ls[i][j] \in 33 .. 126
      BY <2>2, <3>1
    <3> QED BY <3>2 DEF Shown
  <2>4. b[i - 1] \in Nat
    BY <1>1
  <2> DEFINE a == b[i - 1]
             k == Len(ls[i])
             s == SubSeq(text, a + 1, a + k)
  <2>5. b[i] - 1 = a + k
    BY <2>1, <2>2, <2>4
  <2>6. a \in Nat /\ k \in Nat /\ a + k <= Len(text) /\ \A j \in 1 .. k : text[a + j] = ls[i][j]
    BY <2>1, <2>2, <2>3, <2>4
  <2> HIDE DEF a, k
  <2>7. s \in Seq(Byte) /\ Len(s) = k /\ \A j \in 1 .. k : s[j] = text[a + j]
    BY <2>6 DEF Message
  <2> HIDE DEF s
  <2>8. s = ls[i]
    BY <2>2, <2>6, <2>7 DEF k
  <2> QED BY <2>5, <2>8 DEF s, a
<1>9. SplitAtDots(text) = [i \in 1 .. n |-> ls[i]]
  BY <1>5, <1>6, <1>7, <1>8
<1>10. ls = [i \in 1 .. n |-> ls[i]]
  BY DEF n
<1> QED
  BY <1>9, <1>10

(* A text with labels is not empty.                                         *)
LEMMA SpelledLen ==
  ASSUME NEW text \in Message, NEW ls \in Seq(Message), ls # <<>>, NEW b, Spells(text, ls, b)
  PROVE  Len(text) > 0
<1>1. Len(ls) \in Nat /\ 1 \in 1 .. Len(ls) /\ ls[1] \in Message
  OBVIOUS
<1>2. Len(ls[1]) \in Nat /\ Len(text) \in Nat
  BY <1>1 DEF Message
<1>3. b[0] = 0 /\ 1 - 1 = 0
  BY DEF Spells
<1>4. Len(ls[1]) > 0 /\ b[1 - 1] + Len(ls[1]) <= Len(text)
  BY <1>1 DEF Spells
<1> QED
  BY <1>2, <1>3, <1>4

(* A reader does not go back.                                               *)
LEMMA NeverBack ==
  ASSUME NEW m \in Message, NEW o \in Nat, NEW k \in Nat
  PROVE  \A n \in Nat : n >= k => Reading(m, o)[k].at <= Reading(m, o)[n].at
<1> DEFINE R == Reading(m, o)
           A == {n \in Nat : n >= k => R[k].at <= R[n].at}
<1>1. \A n \in Nat : R[n].at \in Nat /\ R[n].at <= R[n + 1].at
  BY ReadingEquation, ReadingAdvances, ReadRound
<1> HIDE DEF R
<1>2. 0 \in A
  <2>1. 0 >= k => k = 0
    OBVIOUS
  <2> QED BY <1>1, <2>1
<1>3. ASSUME NEW n \in Nat, n \in A PROVE n + 1 \in A
  <2>1. R[n].at \in Nat /\ R[n + 1].at \in Nat /\ R[k].at \in Nat /\ R[n].at <= R[n + 1].at
    BY <1>1
  <2>2. n + 1 >= k => n >= k \/ n + 1 = k
    OBVIOUS
  <2> QED BY <1>3, <2>1, <2>2
<1>4. \A n \in Nat : n \in A
  <2> HIDE DEF A
  <2> QED BY <1>2, <1>3, EachNumber
<1> QED
  BY <1>4 DEF R

(* It is never before where it began.                                       *)
LEMMA PastHeader ==
  ASSUME NEW m \in Message, NEW o \in Nat, NEW n \in Nat
  PROVE  Reading(m, o)[n].at >= o
<1>1. Reading(m, o)[0].at = o
  <2>1. Reading(m, o)[0] = [is |-> "on", at |-> o, labels |-> <<>>]
    BY ReadingEquation
  <2> QED BY <2>1
<1> QED
  BY <1>1, NeverBack

(* What parse_dns_query and the reader by RFC 1035 make of a message        *)
LEMMA ParsedIsQuestion ==
  ASSUME NEW m \in Message
  PROVE  LET r == ParseQuery(m)
             q == Question(m)
         IN  /\ r[1] <=> (q[1] /\ q[2] # <<>>)
             /\ r[1] => /\ q[2] \in Seq(Message) /\ q[5] \in Nat
                        /\ q[5] >= HeaderLen + 4 /\ q[5] <= Len(m)
                        /\ q[5] = QuestionEnd(m)
                        /\ q[3] = Word(m, q[5] - 4) /\ q[4] = Word(m, q[5] - 2)
                        /\ Len(m) >= HeaderLen /\ Word(m, 4) # 0
                        /\ Labels(m, HeaderLen) = <<TRUE, q[2], q[5] - 4>>
                        /\ r[3] = q[3]
                        /\ NameIs(r[2], q[2], q[5] - 5)
<1> DEFINE p == Parsing(m)[Len(m)]
           s == Reading(m, HeaderLen)[Len(m) + 1]
           Rejected == Len(m) < HeaderLen \/ Word(m, 4) = 0
<1>0. Len(m) \in Nat /\ HeaderLen = 12
  BY DEF Message, HeaderLen
<1> DEFINE Promise ==
             LET r == ParseQuery(m)
                 q == Question(m)
             IN  /\ r[1] <=> (q[1] /\ q[2] # <<>>)
                 /\ r[1] => /\ q[2] \in Seq(Message) /\ q[5] \in Nat
                            /\ q[5] >= HeaderLen + 4 /\ q[5] <= Len(m)
                            /\ q[5] = QuestionEnd(m)
                            /\ q[3] = Word(m, q[5] - 4) /\ q[4] = Word(m, q[5] - 2)
                            /\ Len(m) >= HeaderLen /\ Word(m, 4) # 0
                            /\ Labels(m, HeaderLen) = <<TRUE, q[2], q[5] - 4>>
                            /\ r[3] = q[3]
                            /\ NameIs(r[2], q[2], q[5] - 5)
<1> SUFFICES Promise
  OBVIOUS
<1>1. CASE Rejected
  <2>1. ParseQuery(m) = Failed /\ Question(m) = Failed
    BY <1>1 DEF ParseQuery, Question
  <2> QED BY <2>1 DEF Failed
<1>2. CASE ~Rejected
  <2>1. /\ p \in ParseState /\ s \in ReadState
        /\ p.is # "end" => s.is = "failed"
        /\ p.is = "on" => p.at = Len(m)
        /\ p.is = "end" => /\ s = Reading(m, HeaderLen)[Len(m)]
                           /\ s.is = "end" /\ s.at = p.at
                           /\ p.at \in Nat /\ p.at > 0 /\ p.at <= Len(m)
                           /\ Walking(m)[Len(m)] = p.at - 1
    BY <1>0, <1>2, LoopsEnd
  <2>2. p.is = "end" => NameIs(p.name, s.labels, p.at - 1)
    BY <1>0, <1>2, <2>1, NameIsText
  <2>3. ParseQuery(m) = IF p.is = "failed" \/ p.name = <<>> \/ p.at + 4 > Len(m) THEN Failed
                        ELSE <<TRUE, p.name, Word(m, p.at)>>
    BY <1>2 DEF ParseQuery
  <2>4. Labels(m, HeaderLen) = IF s.is = "end" THEN <<TRUE, s.labels, s.at>> ELSE Failed
    BY DEF Labels
  <2>5. p.at \in Nat /\ s.labels \in Seq(Message) /\ p.name \in Message
    BY <2>1 DEF ParseState, ReadState
  <2>6. QuestionEnd(m) = IF Walking(m)[Len(m)] < Len(m) THEN Walking(m)[Len(m)] + 5 ELSE -1
    <3>1. Walking(m)[Len(m)] \in Nat
      BY <1>0, WalkingEquation
    <3>2. QuestionEnd(m) = IF Walking(m)[Len(m)] < Len(m) THEN Walking(m)[Len(m)] + 1 + 4 ELSE -1
      BY DEF QuestionEnd
    <3> QED BY <3>1, <3>2
  <2>10. /\ Labels(m, HeaderLen) = Failed => Question(m) = Failed
         /\ \A ls, o : Labels(m, HeaderLen) = <<TRUE, ls, o>> =>
               Question(m) = IF o + 4 > Len(m) THEN Failed
                             ELSE <<TRUE, ls, Word(m, o), Word(m, o + 2), o + 4>>
    <3>1. Failed[1] = FALSE /\ \A ls, o : <<TRUE, ls, o>>[1] = TRUE /\ <<TRUE, ls, o>>[2] = ls
                                         /\ <<TRUE, ls, o>>[3] = o
      BY DEF Failed
    <3>2. ~(Len(m) < HeaderLen) /\ ~(Word(m, 4) = 0)
      BY <1>2
    <3>3. ASSUME Labels(m, HeaderLen) = Failed PROVE Question(m) = Failed
      BY <3>1, <3>2, <3>3 DEF Question
    <3>4. ASSUME NEW ls, NEW o, Labels(m, HeaderLen) = <<TRUE, ls, o>>
          PROVE  Question(m) = IF o + 4 > Len(m) THEN Failed
                               ELSE <<TRUE, ls, Word(m, o), Word(m, o + 2), o + 4>>
      BY <3>1, <3>2, <3>4 DEF Question
    <3> QED BY <3>3, <3>4
  <2> HIDE DEF p, s
  <2>7. CASE p.is # "end"
    <3>1. Question(m) = Failed
      BY <2>1, <2>4, <2>7, <2>10
    <3>2. ParseQuery(m) = Failed
      <4>1. p.is = "failed" \/ p.at + 4 > Len(m)
        BY <1>0, <2>1, <2>5, <2>7 DEF ParseState
      <4> QED BY <2>3, <4>1
    <3> QED BY <3>1, <3>2 DEF Failed
  <2>8. CASE p.is = "end" /\ p.at + 4 > Len(m)
    <3>1. Labels(m, HeaderLen) = <<TRUE, s.labels, s.at>>
      BY <2>1, <2>4, <2>8
    <3>2. Question(m) = Failed
      BY <2>1, <2>8, <2>10, <3>1
    <3>3. ParseQuery(m) = Failed
      BY <2>3, <2>8
    <3> QED BY <3>2, <3>3 DEF Failed
  <2>9. CASE p.is = "end" /\ p.at + 4 <= Len(m)
    <3>1. Labels(m, HeaderLen) = <<TRUE, s.labels, p.at>>
      BY <2>1, <2>4, <2>9
    <3>2. Question(m) = <<TRUE, s.labels, Word(m, p.at), Word(m, p.at + 2), p.at + 4>>
      <4>1. ~(p.at + 4 > Len(m))
        BY <1>0, <2>5, <2>9
      <4> QED BY <2>10, <3>1, <4>1
    <3>3. s.labels # <<>> <=> p.name # <<>>
      <4>1. NameIs(p.name, s.labels, p.at - 1)
        BY <2>2, <2>9
      <4>2. s.labels # <<>> => p.name # <<>>
        <5> SUFFICES ASSUME s.labels # <<>> PROVE p.name # <<>>
          OBVIOUS
        <5>1. PICK text \in Message : \E b : Spells(text, s.labels, b) /\ p.name = Cut(text)
          BY <4>1 DEF NameIs
        <5>2. Len(text) > 0
          BY <2>5, <5>1, SpelledLen
        <5>3. Len(Cut(text)) > 0
          BY <5>2, CutType
        <5> QED BY <5>1, <5>3
      <4> QED BY <4>1, <4>2 DEF NameIs
    <3>4. ParseQuery(m) = IF p.name = <<>> THEN Failed ELSE <<TRUE, p.name, Word(m, p.at)>>
      BY <1>0, <2>3, <2>5, <2>9
    <3>5. CASE p.name = <<>>
      BY <3>2, <3>3, <3>4, <3>5 DEF Failed
    <3>6. CASE p.name # <<>>
      <4>1. ParseQuery(m) = <<TRUE, p.name, Word(m, p.at)>>
        BY <3>4, <3>6
      <4>2. QuestionEnd(m) = p.at + 4
        BY <1>0, <2>1, <2>5, <2>6, <2>9
      <4>3. p.at >= HeaderLen
        <5>1. s.at >= HeaderLen
          BY <1>0, PastHeader DEF s
        <5> QED BY <2>1, <2>9, <5>1
      <4>4. (p.at + 4) - 4 = p.at /\ (p.at + 4) - 2 = p.at + 2 /\ (p.at + 4) - 5 = p.at - 1
        BY <2>5
      <4>5. NameIs(p.name, s.labels, p.at - 1)
        BY <2>2, <2>9
      <4>6. s.labels # <<>>
        BY <3>3, <3>6
      <4> DEFINE r == ParseQuery(m)
                 q == Question(m)
      <4>7. r[1] = TRUE /\ r[2] = p.name /\ r[3] = Word(m, p.at)
        BY <4>1
      <4>8. /\ q[1] = TRUE /\ q[2] = s.labels /\ q[3] = Word(m, p.at)
            /\ q[4] = Word(m, p.at + 2) /\ q[5] = p.at + 4
        BY <3>2
      <4> HIDE DEF r, q
      <4>9. r[1] <=> (q[1] /\ q[2] # <<>>)
        BY <4>6, <4>7, <4>8
      <4>10. /\ q[5] \in Nat /\ q[5] >= HeaderLen + 4 /\ q[5] <= Len(m)
             /\ q[5] = QuestionEnd(m) /\ q[2] \in Seq(Message)
             /\ q[5] - 4 = p.at /\ q[5] - 2 = p.at + 2 /\ q[5] - 5 = p.at - 1
        BY <1>0, <2>5, <2>9, <4>2, <4>3, <4>4, <4>8
      <4>11. /\ Len(m) >= HeaderLen /\ Word(m, 4) # 0
             /\ Labels(m, HeaderLen) = <<TRUE, q[2], q[5] - 4>>
             /\ NameIs(r[2], q[2], q[5] - 5)
        <5>1. Len(m) >= HeaderLen /\ Word(m, 4) # 0
          BY <1>0, <1>2
        <5>2. <<TRUE, q[2], q[5] - 4>> = <<TRUE, s.labels, p.at>>
          BY <4>8, <4>10
        <5>3. NameIs(r[2], q[2], q[5] - 5)
          BY <4>5, <4>7, <4>8, <4>10
        <5> QED BY <3>1, <5>1, <5>2, <5>3
      <4>12. q[3] = Word(m, q[5] - 4) /\ q[4] = Word(m, q[5] - 2) /\ r[3] = q[3]
        BY <4>7, <4>8, <4>10
      <4> QED BY <4>9, <4>10, <4>11, <4>12 DEF r, q
    <3> QED BY <3>5, <3>6
  <2>11. p.at + 4 > Len(m) \/ p.at + 4 <= Len(m)
    BY <1>0, <2>5
  <2> HIDE DEF Promise
  <2> QED BY <2>7, <2>8, <2>9, <2>11
<1> QED
  BY <1>1, <1>2

-----------------------------------------------------------------------------
\* What the parser yields determines the question.

(* The names that are parsed determine the questions, for every message.    *)
LEMMA NamesTell ==
  ASSUME query \in Message
  PROVE  NamesTellQuestions
<1> DEFINE r == ParseQuery(query)
           q == Question(query)
<1>1. /\ r[1] <=> (q[1] /\ q[2] # <<>>)
      /\ r[1] => /\ q[2] \in Seq(Message) /\ q[5] \in Nat /\ q[5] >= HeaderLen + 4
                 /\ r[3] = q[3]
                 /\ NameIs(r[2], q[2], q[5] - 5)
  BY ParsedIsQuestion
<1> HIDE DEF r, q
<1>2. ASSUME r[1]
      PROVE  /\ Len(r[2]) < QnameSize
             /\ q[5] - 4 - HeaderLen - 2 < QnameSize
                  /\ (\A l \in DOMAIN q[2] : \A i \in DOMAIN q[2][l] :
                         q[2][l][i] \in 33 .. 126 \ {46})
                => q[2] = SplitAtDots(r[2])
  <2>1. q[2] # <<>> /\ q[2] \in Seq(Message) /\ q[5] \in Nat /\ q[5] >= HeaderLen + 4
    BY <1>1, <1>2
  <2>2. NameIs(r[2], q[2], q[5] - 5)
    BY <1>1, <1>2
  <2>3. PICK text \in Message : \E b : /\ Spells(text, q[2], b) /\ r[2] = Cut(text)
                                      /\ Len(text) = (q[5] - 5) - HeaderLen - 1
    BY <2>1, <2>2 DEF NameIs
  <2>4. PICK b : Spells(text, q[2], b)
    BY <2>3
  <2>5. Len(r[2]) < QnameSize
    BY <2>3, CutType
  <2>6. ASSUME q[5] - 4 - HeaderLen - 2 < QnameSize,
               \A l \in DOMAIN q[2] : \A i \in DOMAIN q[2][l] : q[2][l][i] \in 33 .. 126 \ {46}
        PROVE  q[2] = SplitAtDots(r[2])
    <3>1. Len(text) < QnameSize
      BY <2>1, <2>3, <2>6 DEF HeaderLen
    <3>2. r[2] = text
      BY <2>3, <3>1, CutType
    <3> QED BY <2>1, <2>4, <2>6, <3>2, SplitSpelled
  <2> QED BY <2>5, <2>6
<1> QED
  BY <1>1, <1>2 DEF NamesTellQuestions, r, q

(* A reader that has found how the name ends stays where it is.             *)
LEMMA Settled ==
  ASSUME NEW m \in Message, NEW o \in Nat, NEW k \in Nat, Reading(m, o)[k].is # "on"
  PROVE  \A n \in Nat : n >= k => Reading(m, o)[n] = Reading(m, o)[k]
<1> DEFINE R == Reading(m, o)
           A == {n \in Nat : n >= k => R[n] = R[k]}
<1>1. \A n \in Nat : R[n] \in ReadState /\ R[n + 1] = ReadLabel(m, R[n])
  BY ReadingEquation
<1>0. R[k].is # "on"
  OBVIOUS
<1> HIDE DEF R
<1>2. 0 \in A
  <2>1. 0 >= k => k = 0
    OBVIOUS
  <2> QED BY <2>1
<1>3. ASSUME NEW n \in Nat, n \in A PROVE n + 1 \in A
  <2>1. CASE n >= k
    <3>1. R[n] = R[k]
      BY <1>3, <2>1
    <3>2. R[n + 1] = R[n]
      BY <1>0, <1>1, <3>1, ReadRound
    <3> QED BY <3>1, <3>2
  <2>2. CASE ~(n >= k)
    <3>1. n + 1 >= k => n + 1 = k
      BY <2>2
    <3> QED BY <3>1
  <2> QED BY <2>1, <2>2
<1>4. \A n \in Nat : n \in A
  <2> HIDE DEF A
  <2> QED BY <1>2, <1>3, EachNumber
<1> QED
  BY <1>4 DEF R

Alike(m, a, o, e) == \A i \in Nat : o <= i /\ i < e => At(a, i) = At(m, i)

(* Of two messages that are alike up to the end of a name, the same name is *)
(* read.                                                                    *)
LEMMA SameName ==
  ASSUME NEW m \in Message, NEW a \in Message, NEW o \in Nat, NEW e \in Nat, NEW r,
         r = Labels(m, o), \E ls : r = <<TRUE, ls, e>>, e <= Len(a), Alike(m, a, o, e)
  PROVE  Labels(a, o) = r
<1>11. PICK ls : r = <<TRUE, ls, e>>
  OBVIOUS
<1> DEFINE M == Reading(m, o)
           S == Reading(a, o)
           N == Len(m) + 1
           A == {n \in Nat : S[n] = M[n]}
<1> USE DEF Alike
<1>0. Len(m) \in Nat /\ Len(a) \in Nat /\ N \in Nat /\ Len(a) + 1 \in Nat
  BY DEF Message
<1>1. /\ M[0] = [is |-> "on", at |-> o, labels |-> <<>>]
      /\ S[0] = [is |-> "on", at |-> o, labels |-> <<>>]
      /\ \A n \in Nat : /\ M[n] \in ReadState /\ M[n + 1] = ReadLabel(m, M[n])
                        /\ S[n] \in ReadState /\ S[n + 1] = ReadLabel(a, S[n])
  BY ReadingEquation
<1>2. M[N].is = "end" /\ M[N].labels = ls /\ M[N].at = e
  <2>1. Labels(m, o) = IF M[N].is = "end" THEN <<TRUE, M[N].labels, M[N].at>> ELSE <<FALSE>>
    BY DEF Labels, Failed
  <2>2. <<FALSE>> # <<TRUE, ls, e>>
    <3>1. <<FALSE>>[1] = FALSE /\ <<TRUE, ls, e>>[1] = TRUE
      OBVIOUS
    <3> QED BY <3>1
  <2>3. Labels(m, o) = <<TRUE, ls, e>>
    BY <1>11
  <2> DEFINE last == M[N]
  <2>4. Labels(m, o) = IF last.is = "end" THEN <<TRUE, last.labels, last.at>> ELSE <<FALSE>>
    BY <2>1
  <2> HIDE DEF last
  <2>5. last.is = "end"
    BY <2>2, <2>3, <2>4
  <2>6. <<TRUE, last.labels, last.at>> = <<TRUE, ls, e>>
    BY <2>3, <2>4, <2>5
  <2>7. last.labels = ls /\ last.at = e
    <3> DEFINE u == <<TRUE, last.labels, last.at>>
               v == <<TRUE, ls, e>>
    <3>1. u[2] = last.labels /\ u[3] = last.at /\ v[2] = ls /\ v[3] = e
      OBVIOUS
    <3>2. u = v
      BY <2>6
    <3> HIDE DEF u, v
    <3> QED BY <3>1, <3>2
  <2> QED BY <2>5, <2>7 DEF last
<1>3. \A n \in Nat : M[n].is # "on" => \A k \in Nat : k >= n => M[k] = M[n]
  BY Settled
<1>4. \A n \in Nat : /\ \A k \in Nat : k >= n => M[n].at <= M[k].at
                     /\ M[n].at >= o /\ M[n].at \in Nat
                     /\ M[n].is = "on" => M[n].at >= o + n
  BY <1>1, NeverBack, PastHeader, ReadingAdvances, ReadRound
<1> HIDE DEF M, S, N
<1>5. \A n \in Nat : M[n].is \in {"on", "end"} /\ M[n].at <= e
  <2> SUFFICES ASSUME NEW n \in Nat PROVE M[n].is \in {"on", "end"} /\ M[n].at <= e
    OBVIOUS
  <2>1. CASE n >= N
    <3>1. M[n] = M[N]
      BY <1>0, <1>2, <1>3, <2>1
    <3> QED BY <1>2, <3>1
  <2>2. CASE n < N
    <3>1. M[n].at <= e
      BY <1>0, <1>2, <1>4, <2>2
    <3>2. M[n].is # "failed"
      <4> SUFFICES ASSUME M[n].is = "failed" PROVE FALSE
        OBVIOUS
      <4>1. M[N] = M[n]
        BY <1>0, <1>3, <2>2
      <4> QED BY <1>2, <4>1
    <3>3. M[n].is \in {"on", "end", "failed"}
      BY <1>1 DEF ReadState
    <3> QED BY <3>1, <3>2, <3>3
  <2> QED BY <1>0, <2>1, <2>2
<1>6. 0 \in A
  BY <1>1
<1>7. ASSUME NEW n \in Nat, n \in A PROVE n + 1 \in A
  <2> DEFINE s == M[n]
             s1 == M[n + 1]
  <2>1. s \in ReadState /\ S[n] = s /\ s1 = ReadLabel(m, s) /\ S[n + 1] = ReadLabel(a, s)
    BY <1>1, <1>7
  <2>2. s.is \in {"on", "end"} /\ s1.is \in {"on", "end"} /\ s1.at <= e /\ s1.at \in Nat
    BY <1>4, <1>5
  <2>3. s.at \in Nat /\ s.at >= o
    BY <1>4
  <2>4. SUFFICES ReadLabel(a, s) = ReadLabel(m, s)
    BY <2>1
  <2> HIDE DEF s, s1
  <2>5. CASE s.is # "on"
    BY <2>5 DEF ReadLabel
  <2>6. CASE s.is = "on"
    <3>1. s.at < Len(m) /\ (At(m, s.at) # 0 => Fits(m, s))
      BY <1>0, <2>1, <2>2, <2>3, <2>6, ReadRound
    <3> DEFINE k == At(m, s.at)
    <3>2. k \in Nat
      BY <2>3, <3>1, AtType
    <3>3. CASE k = 0
      <4>1. s.at < e
        BY <2>1, <2>2, <2>3, <2>6, <3>1, <3>3, ReadRound
      <4>2. At(a, s.at) = 0 /\ s.at < Len(a)
        BY <1>0, <2>3, <3>3, <4>1
      <4> QED BY <1>0, <2>3, <2>6, <3>1, <3>3, <4>2 DEF ReadLabel
    <3>4. CASE k # 0
      <4>1. s1.at = s.at + 1 + k
        BY <2>1, <2>6, <3>1, <3>4, ReadRound
      <4> HIDE DEF k
      <4>2. s.at + 1 + k <= e /\ s.at < e
        BY <2>2, <2>3, <3>2, <4>1
      <4>3. At(a, s.at) = k /\ s.at < Len(a)
        BY <1>0, <2>3, <4>2 DEF k
      <4>4. Bytes(a, s.at + 1, k) = Bytes(m, s.at + 1, k)
        <5>1. s.at + 1 \in Nat /\ (s.at + 1) + k <= Len(m) /\ (s.at + 1) + k <= Len(a)
          BY <1>0, <2>3, <3>1, <3>2, <3>4, <4>2 DEF Fits, k
        <5>2. /\ Bytes(m, s.at + 1, k) \in Message /\ Len(Bytes(m, s.at + 1, k)) = k
              /\ \A i \in 1 .. k : Bytes(m, s.at + 1, k)[i] = At(m, (s.at + 1) + i - 1)
          BY <3>2, <5>1, BytesType
        <5>3. /\ Bytes(a, s.at + 1, k) \in Message /\ Len(Bytes(a, s.at + 1, k)) = k
              /\ \A i \in 1 .. k : Bytes(a, s.at + 1, k)[i] = At(a, (s.at + 1) + i - 1)
          BY <3>2, <5>1, BytesType
        <5>4. \A i \in 1 .. k : At(a, (s.at + 1) + i - 1) = At(m, (s.at + 1) + i - 1)
          <6> SUFFICES ASSUME NEW i \in 1 .. k
                       PROVE  At(a, (s.at + 1) + i - 1) = At(m, (s.at + 1) + i - 1)
            OBVIOUS
          <6> DEFINE x == (s.at + 1) + i - 1
          <6>1. x \in Nat /\ o <= x /\ x < e
            BY <2>3, <3>2, <4>2
          <6> HIDE DEF x
          <6>2. At(a, x) = At(m, x)
            BY <6>1
          <6> QED BY <6>2 DEF x
        <5> DEFINE u == Bytes(a, s.at + 1, k)
                   v == Bytes(m, s.at + 1, k)
        <5>5. u \in Seq(Byte) /\ v \in Seq(Byte) /\ Len(u) = Len(v) /\ \A i \in 1 .. Len(u) : u[i] = v[i]
          BY <5>2, <5>3, <5>4 DEF Message
        <5> HIDE DEF u, v
        <5>6. u = v
          BY <5>5
        <5> QED BY <5>6 DEF u, v
      <4>5. k < 64 /\ s.at + k < Len(m) /\ s.at + k < Len(a)
        BY <1>0, <2>3, <3>1, <3>2, <3>4, <4>2 DEF Fits, k
      <4>6. ReadLabel(m, s) = [s EXCEPT !.at = s.at + 1 + k, !.labels = Append(s.labels, Bytes(m, s.at + 1, k))]
        BY <1>0, <2>3, <2>6, <3>1, <3>2, <3>4, <4>5 DEF ReadLabel, k
      <4>7. ReadLabel(a, s) = [s EXCEPT !.at = s.at + 1 + k, !.labels = Append(s.labels, Bytes(a, s.at + 1, k))]
        BY <1>0, <2>3, <2>6, <3>2, <3>4, <4>3, <4>5 DEF ReadLabel
      <4> QED BY <4>4, <4>6, <4>7
    <3> QED BY <3>3, <3>4
  <2> QED BY <2>5, <2>6
<1>8. \A n \in Nat : S[n] = M[n]
  <2>1. \A n \in Nat : n \in A
    <3> HIDE DEF A
    <3> QED BY <1>6, <1>7, EachNumber
  <2> QED BY <2>1
<1>9. S[Len(a) + 1] = M[N]
  <2> DEFINE k == Len(a) + 1
  <2>1. k \in Nat /\ k > e
    BY <1>0
  <2> HIDE DEF k
  <2>2. M[k].is # "on"
    BY <1>4, <1>5, <2>1
  <2>3. M[k] = M[N]
    <3>1. CASE k >= N
      BY <1>0, <1>2, <1>3, <2>1, <3>1
    <3>2. CASE N >= k
      BY <1>0, <1>3, <2>1, <2>2, <3>2
    <3> QED BY <1>0, <2>1, <3>1, <3>2
  <2> QED BY <1>8, <2>1, <2>3 DEF k
<1>10. Labels(a, o) = IF S[Len(a) + 1].is = "end" THEN <<TRUE, S[Len(a) + 1].labels, S[Len(a) + 1].at>>
                      ELSE Failed
  BY DEF Labels, S
<1> QED
  BY <1>11, <1>2, <1>9, <1>10

-----------------------------------------------------------------------------
\* What is sent in captive mode

(* The bytes of two messages, one behind the other                          *)
LEMMA JoinedAt ==
  ASSUME NEW s \in Message, NEW t \in Message
  PROVE  /\ s \o t \in Message /\ Len(s \o t) = Len(s) + Len(t)
         /\ \A i \in Nat : i < Len(s) => At(s \o t, i) = At(s, i)
         /\ \A i \in Nat : i < Len(t) => At(s \o t, Len(s) + i) = At(t, i)
<1>1. s \o t \in Message /\ Len(s \o t) = Len(s) + Len(t) /\ Len(s) \in Nat /\ Len(t) \in Nat
  BY DEF Message
<1>2. ASSUME NEW i \in Nat, i < Len(s) PROVE At(s \o t, i) = At(s, i)
  BY <1>1, <1>2 DEF At, Message
<1>3. ASSUME NEW i \in Nat, i < Len(t) PROVE At(s \o t, Len(s) + i) = At(t, i)
  BY <1>1, <1>3 DEF At, Message
<1> QED
  BY <1>1, <1>2, <1>3

(* Messages of the same bytes are the same.                                 *)
LEMMA SameBytes ==
  ASSUME NEW s \in Message, NEW t \in Message, Len(s) = Len(t),
         \A i \in Nat : i < Len(s) => At(s, i) = At(t, i)
  PROVE  s = t
<1>1. \A i \in 1 .. Len(s) : s[i] = t[i]
  <2> SUFFICES ASSUME NEW i \in 1 .. Len(s) PROVE s[i] = t[i]
    OBVIOUS
  <2>1. i - 1 \in Nat /\ i - 1 < Len(s) /\ (i - 1) + 1 = i
    BY DEF Message
  <2>2. At(s, i - 1) = At(t, i - 1)
    BY <2>1
  <2> QED BY <2>1, <2>2 DEF At
<1> QED
  BY <1>1 DEF Message

(* What an answer begins with                                               *)
LEMMA BeginBytes ==
  ASSUME NEW m \in Message, NEW end \in Nat, end >= HeaderLen, end <= Len(m), NEW n \in {0, 1}
  PROVE  LET a == Begin(m, end, n)
         IN  /\ a \in Message /\ Len(a) = end
             /\ \A i \in {0, 1, 4, 5} \union HeaderLen .. end - 1 : At(a, i) = At(m, i)
             /\ At(a, 2) = 129 /\ At(a, 3) = 128 /\ At(a, 6) = 0 /\ At(a, 7) = n
             /\ \A i \in 8 .. 11 : At(a, i) = 0
<1> DEFINE id == Bytes(m, 0, 2)
           flags == <<129, 128>>
           questions == Bytes(m, 4, 2)
           counts == <<0, n, 0, 0, 0, 0>>
           rest == Bytes(m, HeaderLen, end - HeaderLen)
           s == id \o flags
           t == s \o questions
           u == t \o counts
           a == u \o rest
<1>0. HeaderLen = 12 /\ Len(m) \in Nat /\ end - 12 \in Nat
  BY DEF HeaderLen, Message
<1>1. /\ id \in Message /\ Len(id) = 2 /\ At(id, 0) = At(m, 0) /\ At(id, 1) = At(m, 1)
  <2>0. 0 \in Nat /\ 2 \in Nat /\ 0 + 2 <= Len(m)
    BY <1>0
  <2>1. id \in Message /\ Len(id) = 2 /\ \A i \in 1 .. 2 : id[i] = At(m, 0 + i - 1)
    BY ONLY <2>0, m \in Message, BytesType
  <2> HIDE DEF id
  <2>2. id[1] = At(m, 0 + 1 - 1) /\ id[2] = At(m, 0 + 2 - 1)
    BY <2>1
  <2>3. id[0 + 1] = At(m, 0) /\ id[1 + 1] = At(m, 1)
    BY <2>2
  <2> QED BY <2>1, <2>3 DEF At
<1>2. /\ questions \in Message /\ Len(questions) = 2
      /\ At(questions, 0) = At(m, 4) /\ At(questions, 1) = At(m, 5)
  <2>0. 4 \in Nat /\ 2 \in Nat /\ 4 + 2 <= Len(m)
    BY <1>0
  <2>1. /\ questions \in Message /\ Len(questions) = 2
        /\ \A i \in 1 .. 2 : questions[i] = At(m, 4 + i - 1)
    BY ONLY <2>0, m \in Message, BytesType
  <2> HIDE DEF questions
  <2>2. questions[1] = At(m, 4 + 1 - 1) /\ questions[2] = At(m, 4 + 2 - 1)
    BY <2>1
  <2>3. questions[0 + 1] = At(m, 4) /\ questions[1 + 1] = At(m, 5)
    BY <2>2
  <2> QED BY <2>1, <2>3 DEF At
<1>3. /\ rest \in Message /\ Len(rest) = end - 12
      /\ \A i \in Nat : i < end - 12 => At(rest, i) = At(m, 12 + i)
  <2> DEFINE k == end - 12
  <2>0. 12 \in Nat /\ k \in Nat /\ 12 + k <= Len(m)
    BY <1>0
  <2>2. rest = Bytes(m, 12, k)
    BY <1>0
  <2> HIDE DEF k
  <2>1. /\ Bytes(m, 12, k) \in Message /\ Len(Bytes(m, 12, k)) = k
        /\ \A i \in 1 .. k : Bytes(m, 12, k)[i] = At(m, 12 + i - 1)
    BY ONLY <2>0, m \in Message, BytesType
  <2> USE DEF k
  <2> HIDE DEF rest
  <2>3. ASSUME NEW i \in Nat, i < k PROVE At(rest, i) = At(m, 12 + i)
    <3>1. i + 1 \in 1 .. k
      BY <1>0, <2>3
    <3>2. 12 + (i + 1) - 1 = 12 + i
      OBVIOUS
    <3> HIDE DEF k
    <3>3. rest[i + 1] = At(m, 12 + (i + 1) - 1)
      BY <2>1, <2>2, <3>1
    <3> QED BY <3>2, <3>3 DEF At
  <2> QED BY <2>1, <2>2, <2>3
<1>4. flags \in Message /\ Len(flags) = 2 /\ At(flags, 0) = 129 /\ At(flags, 1) = 128
  BY DEF Message, Byte, At
<1>5. /\ counts \in Message /\ Len(counts) = 6 /\ At(counts, 0) = 0 /\ At(counts, 1) = n
      /\ At(counts, 2) = 0 /\ At(counts, 3) = 0 /\ At(counts, 4) = 0 /\ At(counts, 5) = 0
  BY DEF Message, Byte, At
<1>6. Begin(m, end, n) = a
  BY DEF Begin
<1> HIDE DEF id, flags, questions, counts, rest
<1>7. /\ s \in Message /\ Len(s) = 4
      /\ At(s, 0) = At(m, 0) /\ At(s, 1) = At(m, 1) /\ At(s, 2) = 129 /\ At(s, 3) = 128
  <2>0. id \in Message /\ flags \in Message /\ Len(id) = 2 /\ Len(flags) = 2
    BY <1>1, <1>4
  <2>3. /\ id \o flags \in Message /\ Len(id \o flags) = Len(id) + Len(flags)
        /\ \A i \in Nat : i < Len(id) => At(id \o flags, i) = At(id, i)
        /\ \A i \in Nat : i < Len(flags) => At(id \o flags, Len(id) + i) = At(flags, i)
    BY ONLY <2>0, JoinedAt
  <2>1. /\ s \in Message /\ Len(s) = 2 + 2
        /\ \A i \in Nat : i < 2 => At(s, i) = At(id, i)
        /\ \A i \in Nat : i < 2 => At(s, 2 + i) = At(flags, i)
    BY ONLY <2>0, <2>3
  <2> HIDE DEF s
  <2>2. /\ At(s, 0) = At(id, 0) /\ At(s, 1) = At(id, 1)
        /\ At(s, 2 + 0) = At(flags, 0) /\ At(s, 2 + 1) = At(flags, 1)
    BY <2>1
  <2> QED BY <1>1, <1>4, <2>1, <2>2
<1> HIDE DEF s
<1>8. /\ t \in Message /\ Len(t) = 6 /\ \A i \in Nat : i < 4 => At(t, i) = At(s, i)
      /\ At(t, 4) = At(m, 4) /\ At(t, 5) = At(m, 5)
  <2>0. s \in Message /\ questions \in Message /\ Len(s) = 4 /\ Len(questions) = 2
    BY <1>2, <1>7
  <2>3. /\ s \o questions \in Message /\ Len(s \o questions) = Len(s) + Len(questions)
        /\ \A i \in Nat : i < Len(s) => At(s \o questions, i) = At(s, i)
        /\ \A i \in Nat : i < Len(questions) => At(s \o questions, Len(s) + i) = At(questions, i)
    BY ONLY <2>0, JoinedAt
  <2>1. /\ t \in Message /\ Len(t) = 4 + 2
        /\ \A i \in Nat : i < 4 => At(t, i) = At(s, i)
        /\ \A i \in Nat : i < 2 => At(t, 4 + i) = At(questions, i)
    BY ONLY <2>0, <2>3
  <2> HIDE DEF t
  <2>2. At(t, 4 + 0) = At(questions, 0) /\ At(t, 4 + 1) = At(questions, 1)
    BY <2>1
  <2> QED BY <1>2, <2>1, <2>2
<1> HIDE DEF t
<1>9. /\ u \in Message /\ Len(u) = 12 /\ \A i \in Nat : i < 6 => At(u, i) = At(t, i)
      /\ At(u, 6) = 0 /\ At(u, 7) = n
      /\ At(u, 8) = 0 /\ At(u, 9) = 0 /\ At(u, 10) = 0 /\ At(u, 11) = 0
  <2>0. t \in Message /\ counts \in Message /\ Len(t) = 6 /\ Len(counts) = 6
    BY <1>5, <1>8
  <2>3. /\ t \o counts \in Message /\ Len(t \o counts) = Len(t) + Len(counts)
        /\ \A i \in Nat : i < Len(t) => At(t \o counts, i) = At(t, i)
        /\ \A i \in Nat : i < Len(counts) => At(t \o counts, Len(t) + i) = At(counts, i)
    BY ONLY <2>0, JoinedAt
  <2>1. /\ u \in Message /\ Len(u) = 6 + 6
        /\ \A i \in Nat : i < 6 => At(u, i) = At(t, i)
        /\ \A i \in Nat : i < 6 => At(u, 6 + i) = At(counts, i)
    BY ONLY <2>0, <2>3
  <2> HIDE DEF u
  <2>2. /\ At(u, 6 + 0) = At(counts, 0) /\ At(u, 6 + 1) = At(counts, 1)
        /\ At(u, 6 + 2) = At(counts, 2) /\ At(u, 6 + 3) = At(counts, 3)
        /\ At(u, 6 + 4) = At(counts, 4) /\ At(u, 6 + 5) = At(counts, 5)
    BY <2>1
  <2> QED BY <1>5, <2>1, <2>2
<1> HIDE DEF u
<1>10. /\ a \in Message /\ Len(a) = 12 + (end - 12)
       /\ \A i \in Nat : i < 12 => At(a, i) = At(u, i)
       /\ \A i \in Nat : i < end - 12 => At(a, 12 + i) = At(rest, i)
  <2>0. u \in Message /\ rest \in Message /\ Len(u) = 12 /\ Len(rest) = end - 12
    BY <1>3, <1>9
  <2>3. /\ u \o rest \in Message /\ Len(u \o rest) = Len(u) + Len(rest)
        /\ \A i \in Nat : i < Len(u) => At(u \o rest, i) = At(u, i)
        /\ \A i \in Nat : i < Len(rest) => At(u \o rest, Len(u) + i) = At(rest, i)
    BY ONLY <2>0, JoinedAt
  <2> QED BY ONLY <2>0, <2>3
<1> HIDE DEF a
<1>11. \A i \in HeaderLen .. end - 1 : At(a, i) = At(m, i)
  <2> SUFFICES ASSUME NEW i \in 12 .. end - 1 PROVE At(a, i) = At(m, i)
    BY <1>0
  <2>1. i - 12 \in Nat /\ i - 12 < end - 12 /\ 12 + (i - 12) = i
    BY <1>0
  <2>2. At(a, 12 + (i - 12)) = At(rest, i - 12) /\ At(rest, i - 12) = At(m, 12 + (i - 12))
    BY <1>3, <1>10, <2>1
  <2> QED BY <2>1, <2>2
<1>12. \A i \in {0, 1, 4, 5} : At(a, i) = At(m, i)
  <2>1. /\ At(a, 0) = At(t, 0) /\ At(a, 1) = At(t, 1) /\ At(a, 4) = At(t, 4) /\ At(a, 5) = At(t, 5)
    BY <1>9, <1>10
  <2>2. At(t, 0) = At(s, 0) /\ At(t, 1) = At(s, 1)
    BY <1>8
  <2> QED BY <1>7, <1>8, <2>1, <2>2
<1>13. At(a, 2) = 129 /\ At(a, 3) = 128
  <2>1. At(a, 2) = At(t, 2) /\ At(a, 3) = At(t, 3)
    BY <1>9, <1>10
  <2> QED BY <1>7, <1>8, <2>1
<1>14. /\ At(a, 6) = 0 /\ At(a, 7) = n
       /\ At(a, 8) = 0 /\ At(a, 9) = 0 /\ At(a, 10) = 0 /\ At(a, 11) = 0
  BY <1>9, <1>10
<1>15. \A i \in 8 .. 11 : i = 8 \/ i = 9 \/ i = 10 \/ i = 11
  OBVIOUS
<1>16. Len(a) = end
  BY <1>0, <1>10
<1> QED
  BY <1>6, <1>10, <1>11, <1>12, <1>13, <1>14, <1>15, <1>16

(* The question of a message whose name is known                            *)
LEMMA QuestionNamed ==
  ASSUME NEW m \in Message, NEW ls, NEW e \in Nat,
         Labels(m, HeaderLen) = <<TRUE, ls, e>>,
         Len(m) >= HeaderLen, Word(m, 4) # 0, e + 4 <= Len(m)
  PROVE  Question(m) = <<TRUE, ls, Word(m, e), Word(m, e + 2), e + 4>>
<1> DEFINE r == Labels(m, HeaderLen)
<1>1. r = <<TRUE, ls, e>> /\ Len(m) \in Nat /\ HeaderLen \in Nat
  <2>1. r = <<TRUE, ls, e>>
    OBVIOUS
  <2>2. Len(m) \in Nat /\ HeaderLen \in Nat
    BY DEF Message, HeaderLen
  <2> QED BY <2>1, <2>2
<1>2. Question(m) = IF Len(m) < HeaderLen THEN Failed
                    ELSE IF Word(m, 4) = 0 \/ ~r[1] THEN Failed
                    ELSE IF r[3] + 4 > Len(m) THEN Failed
                    ELSE <<TRUE, r[2], Word(m, r[3]), Word(m, r[3] + 2), r[3] + 4>>
  BY DEF Question
<1> HIDE DEF r
<1>3. r[1] = TRUE /\ r[2] = ls /\ r[3] = e
  BY <1>1
<1>4. ~(Len(m) < HeaderLen) /\ ~(e + 4 > Len(m))
  BY <1>1
<1> QED
  BY <1>2, <1>3, <1>4

IsName(r, e) == \E ls : r = <<TRUE, ls, e>>
Follows(t, a, end) == \A i \in Nat : i < Len(t) => At(a, end + i) = At(t, i)

\* What an answer a to m with n records, the bytes of which are t, begins with
Echoes(a, m, end, n, t, r) ==
  /\ a \in Message /\ Len(a) = end + Len(t)
  /\ Bytes(a, 0, 2) = Bytes(m, 0, 2)
  /\ Word(a, 2) = 33152 /\ Word(a, 8) = 0 /\ Word(a, 10) = 0 /\ Word(a, 6) = n
  /\ Labels(a, HeaderLen) = r
  /\ Question(a) = Question(m)
  /\ Follows(t, a, end)

(* The question that is echoed is the one that was asked.                   *)
LEMMA EchoesQuestion ==
  ASSUME NEW m \in Message, NEW end \in Nat, end >= HeaderLen + 4, end <= Len(m),
         NEW r, r = Labels(m, HeaderLen), IsName(r, end - 4), Word(m, 4) # 0,
         NEW n \in {0, 1}, NEW t \in Message
  PROVE  Echoes(Begin(m, end, n) \o t, m, end, n, t, r)
<1> DEFINE h == Begin(m, end, n)
           a == h \o t
           e == end - 4
<1>16. PICK ls : r = <<TRUE, ls, e>>
  BY DEF IsName
<1>0. /\ HeaderLen = 12 /\ Len(m) \in Nat /\ Len(t) \in Nat /\ e \in Nat /\ e >= 12
      /\ e + 4 = end /\ end >= 16
  BY DEF HeaderLen, Message
<1>1. /\ h \in Message /\ Len(h) = end
      /\ \A i \in {0, 1, 4, 5} \union HeaderLen .. end - 1 : At(h, i) = At(m, i)
      /\ At(h, 2) = 129 /\ At(h, 3) = 128 /\ At(h, 6) = 0 /\ At(h, 7) = n
      /\ \A i \in 8 .. 11 : At(h, i) = 0
  <2>1. end >= HeaderLen /\ end <= Len(m)
    BY <1>0
  <2> QED BY <2>1, BeginBytes
<1> HIDE DEF h
<1>2. /\ a \in Message /\ Len(a) = Len(h) + Len(t)
      /\ \A i \in Nat : i < Len(h) => At(a, i) = At(h, i)
      /\ \A i \in Nat : i < Len(t) => At(a, Len(h) + i) = At(t, i)
  <2>1. h \in Message /\ t \in Message
    BY <1>1
  <2> QED BY ONLY <2>1, JoinedAt
<1> HIDE DEF a
<1>3. Len(a) = end + Len(t) /\ Len(a) \in Nat /\ Len(a) >= 16
  BY <1>0, <1>1, <1>2
<1>4. \A i \in Nat : i < end => At(a, i) = At(h, i)
  BY <1>1, <1>2
<1>5. /\ At(a, 0) = At(m, 0) /\ At(a, 1) = At(m, 1) /\ At(a, 4) = At(m, 4) /\ At(a, 5) = At(m, 5)
      /\ At(a, 2) = 129 /\ At(a, 3) = 128 /\ At(a, 6) = 0 /\ At(a, 7) = n
      /\ At(a, 8) = 0 /\ At(a, 9) = 0 /\ At(a, 10) = 0 /\ At(a, 11) = 0
  <2>1. \A i \in {0, 1, 2, 3, 4, 5, 6, 7, 8, 9, 10, 11} : i \in Nat /\ i < end
    BY <1>0
  <2>2. \A i \in {0, 1, 2, 3, 4, 5, 6, 7, 8, 9, 10, 11} : At(a, i) = At(h, i)
    BY <1>4, <2>1
  <2>3. At(h, 8) = 0 /\ At(h, 9) = 0 /\ At(h, 10) = 0 /\ At(h, 11) = 0
    BY <1>1
  <2> QED BY <1>1, <2>2, <2>3
<1>6. \A i \in Nat : 12 <= i /\ i < e => At(a, i) = At(m, i)
  <2> SUFFICES ASSUME NEW i \in Nat, 12 <= i, i < e PROVE At(a, i) = At(m, i)
    OBVIOUS
  <2>1. i \in HeaderLen .. end - 1 /\ i < end
    BY <1>0
  <2> QED BY <1>1, <1>4, <2>1
<1>7. /\ At(a, e) = At(m, e) /\ At(a, e + 1) = At(m, e + 1)
      /\ At(a, e + 2) = At(m, e + 2) /\ At(a, (e + 2) + 1) = At(m, (e + 2) + 1)
  <2>1. \A i \in {e, e + 1, e + 2, (e + 2) + 1} : i \in Nat /\ i \in HeaderLen .. end - 1 /\ i < end
    BY <1>0
  <2>2. \A i \in {e, e + 1, e + 2, (e + 2) + 1} : At(a, i) = At(m, i)
    BY <1>1, <1>4, <2>1
  <2> QED BY <2>2
<1>8. Word(a, e) = Word(m, e) /\ Word(a, e + 2) = Word(m, e + 2)
  BY <1>7 DEF Word
<1>9. Word(a, 4) = Word(m, 4)
  <2>1. 4 + 1 = 5
    OBVIOUS
  <2> QED BY <1>5, <2>1 DEF Word
<1>10. Word(a, 2) = 33152 /\ Word(a, 8) = 0 /\ Word(a, 10) = 0 /\ Word(a, 6) = n
  <2>1. 2 + 1 = 3 /\ 6 + 1 = 7 /\ 8 + 1 = 9 /\ 10 + 1 = 11
    OBVIOUS
  <2> QED BY <1>5, <2>1 DEF Word
<1>11. Bytes(a, 0, 2) = Bytes(m, 0, 2)
  <2>0. 0 \in Nat /\ 2 \in Nat /\ 0 + 2 <= Len(m) /\ 0 + 2 <= Len(a)
    BY <1>0, <1>3
  <2> DEFINE u == Bytes(a, 0, 2)
             v == Bytes(m, 0, 2)
  <2>1. u \in Message /\ Len(u) = 2 /\ \A i \in 1 .. 2 : u[i] = At(a, 0 + i - 1)
    BY ONLY <1>2, <2>0, BytesType
  <2>2. v \in Message /\ Len(v) = 2 /\ \A i \in 1 .. 2 : v[i] = At(m, 0 + i - 1)
    BY ONLY m \in Message, <2>0, BytesType
  <2> HIDE DEF u, v
  <2>3. u[1] = At(a, 0 + 1 - 1) /\ u[2] = At(a, 0 + 2 - 1) /\ v[1] = At(m, 0 + 1 - 1) /\ v[2] = At(m, 0 + 2 - 1)
    BY <2>1, <2>2
  <2>4. u[1] = v[1] /\ u[2] = v[2]
    BY <1>5, <2>3
  <2>5. u \in Seq(Byte) /\ v \in Seq(Byte) /\ Len(u) = Len(v) /\ \A i \in 1 .. Len(u) : u[i] = v[i]
    <3>1. \A i \in 1 .. 2 : i = 1 \/ i = 2
      OBVIOUS
    <3> QED BY <2>1, <2>2, <2>4, <3>1 DEF Message
  <2>6. u = v
    BY <2>5
  <2> QED BY <2>6 DEF u, v
<1>12. Labels(a, 12) = <<TRUE, ls, e>>
  <2>1. Labels(m, HeaderLen) = <<TRUE, ls, e>>
    BY <1>16
  <2> HIDE DEF e
  <2>2. Labels(m, 12) = <<TRUE, ls, e>>
    BY <1>0, <2>1
  <2>3. m \in Message /\ a \in Message /\ 12 \in Nat /\ e \in Nat /\ e <= Len(a)
    BY <1>0, <1>2, <1>3
  <2> DEFINE o == 12
  <2>4. /\ Labels(m, o) = <<TRUE, ls, e>> /\ o \in Nat
        /\ Alike(m, a, o, e)
    BY <1>6, <2>2 DEF Alike
  <2> HIDE DEF o
  <2>6. r = Labels(m, o) /\ \E l : r = <<TRUE, l, e>>
    BY <1>16, <2>4
  <2>7. Labels(a, o) = r
    BY ONLY <2>3, <2>4, <2>6, SameName
  <2>5. Labels(a, o) = <<TRUE, ls, e>>
    BY <2>4, <2>6, <2>7
  <2> QED BY <2>5 DEF o
<1>13. Question(a) = Question(m)
  <2>1. Labels(a, HeaderLen) = <<TRUE, ls, e>> /\ Labels(m, HeaderLen) = <<TRUE, ls, e>>
    BY <1>0, <1>12, <1>16
  <2>2. Len(a) >= HeaderLen /\ Len(m) >= HeaderLen /\ e + 4 <= Len(a) /\ e + 4 <= Len(m)
    BY <1>0, <1>3
  <2>3. Word(a, 4) # 0 /\ Word(m, 4) # 0
    BY <1>9
  <2> HIDE DEF e
  <2>4. Question(a) = <<TRUE, ls, Word(a, e), Word(a, e + 2), e + 4>>
    BY <1>0, <1>2, <2>1, <2>2, <2>3, QuestionNamed
  <2>5. Question(m) = <<TRUE, ls, Word(m, e), Word(m, e + 2), e + 4>>
    BY <1>0, <2>1, <2>2, <2>3, QuestionNamed
  <2> QED BY <1>8, <2>4, <2>5
<1>14. Follows(t, a, end)
  BY <1>1, <1>2 DEF Follows
<1>15. Labels(a, HeaderLen) = r
  BY <1>0, <1>12, <1>16
<1> QED
  BY <1>2, <1>3, <1>10, <1>11, <1>13, <1>14, <1>15 DEF a, h, Echoes

(* What is behind the question of an answer with an address                 *)
RecordHead == <<192, HeaderLen, 0, 1, 0, 1, 0, 0, 0, 60, 0, 4>>

LEMMA RecordBytes ==
  LET t == RecordHead \o Address
  IN  /\ t \in Message /\ Len(t) = 16
      /\ At(t, 0) = 192 /\ At(t, 1) = 12
      /\ At(t, 2) = 0 /\ At(t, 3) = 1 /\ At(t, 4) = 0 /\ At(t, 5) = 1
      /\ At(t, 6) = 0 /\ At(t, 7) = 0 /\ At(t, 8) = 0 /\ At(t, 9) = 60
      /\ At(t, 10) = 0 /\ At(t, 11) = 4
      /\ \A i \in 1 .. 4 : At(t, 12 + i - 1) = Address[i]
<1> DEFINE t == RecordHead \o Address
<1>1. /\ RecordHead \in Message /\ Len(RecordHead) = 12
      /\ At(RecordHead, 0) = 192 /\ At(RecordHead, 1) = 12
      /\ At(RecordHead, 2) = 0 /\ At(RecordHead, 3) = 1 /\ At(RecordHead, 4) = 0 /\ At(RecordHead, 5) = 1
      /\ At(RecordHead, 6) = 0 /\ At(RecordHead, 7) = 0 /\ At(RecordHead, 8) = 0 /\ At(RecordHead, 9) = 60
      /\ At(RecordHead, 10) = 0 /\ At(RecordHead, 11) = 4
  BY DEF RecordHead, HeaderLen, Message, Byte, At
<1>2. Address \in Message /\ Len(Address) = 4
  BY WireAssumption DEF Message
<1>3. /\ t \in Message /\ Len(t) = Len(RecordHead) + Len(Address)
      /\ \A i \in Nat : i < Len(RecordHead) => At(t, i) = At(RecordHead, i)
      /\ \A i \in Nat : i < Len(Address) => At(t, Len(RecordHead) + i) = At(Address, i)
  <2>1. RecordHead \in Message /\ Address \in Message
    BY <1>1, <1>2
  <2> QED BY ONLY <2>1, JoinedAt
<1> HIDE DEF t
<1>4. \A i \in Nat : i < 12 => At(t, i) = At(RecordHead, i)
  BY <1>1, <1>3
<1>5. \A i \in 1 .. 4 : At(t, 12 + i - 1) = Address[i]
  <2> SUFFICES ASSUME NEW i \in 1 .. 4 PROVE At(t, 12 + i - 1) = Address[i]
    OBVIOUS
  <2>1. i - 1 \in Nat /\ i - 1 < 4 /\ 12 + (i - 1) = 12 + i - 1 /\ (i - 1) + 1 = i
    OBVIOUS
  <2>2. At(t, 12 + (i - 1)) = At(Address, i - 1)
    BY <1>1, <1>2, <1>3, <2>1
  <2>3. At(Address, i - 1) = Address[i]
    BY <2>1 DEF At
  <2> QED BY <2>1, <2>2, <2>3
<1>6. /\ At(t, 0) = 192 /\ At(t, 1) = 12
      /\ At(t, 2) = 0 /\ At(t, 3) = 1 /\ At(t, 4) = 0 /\ At(t, 5) = 1
      /\ At(t, 6) = 0 /\ At(t, 7) = 0 /\ At(t, 8) = 0 /\ At(t, 9) = 60
      /\ At(t, 10) = 0 /\ At(t, 11) = 4
  BY <1>1, <1>4
<1> QED
  BY <1>1, <1>2, <1>3, <1>5, <1>6 DEF t

(* The one record of an answer with an address                              *)
LEMMA AnswerRecord ==
  ASSUME NEW a \in Message, NEW end \in Nat, end >= HeaderLen + 4,
         NEW named, named = Labels(a, HeaderLen), IsName(named, end - 4),
         Len(a) = end + 16, NEW t, t = RecordHead \o Address, Follows(t, a, end),
         NEW v, v = <<TRUE, named[2], 1, 1, 60, Address>>
  PROVE  Answer(a, end) = v
<1>12. \E l : named = <<TRUE, l, end - 4>>
  BY DEF IsName
<1> DEFINE f == end + 2
           ls == named[2]
<1>0. HeaderLen = 12 /\ f \in Nat
  BY DEF HeaderLen
<1>10. named[1] = TRUE /\ Labels(a, HeaderLen) = named
  BY <1>12
<1> HIDE DEF ls
<1>1. /\ At(a, end) = 192 /\ At(a, end + 1) = 12
      /\ At(a, end + 2) = 0 /\ At(a, end + 3) = 1 /\ At(a, end + 4) = 0 /\ At(a, end + 5) = 1
      /\ At(a, end + 6) = 0 /\ At(a, end + 7) = 0 /\ At(a, end + 8) = 0 /\ At(a, end + 9) = 60
      /\ At(a, end + 10) = 0 /\ At(a, end + 11) = 4
  <2>1. /\ At(t, 0) = 192 /\ At(t, 1) = 12
        /\ At(t, 2) = 0 /\ At(t, 3) = 1 /\ At(t, 4) = 0 /\ At(t, 5) = 1
        /\ At(t, 6) = 0 /\ At(t, 7) = 0 /\ At(t, 8) = 0 /\ At(t, 9) = 60
        /\ At(t, 10) = 0 /\ At(t, 11) = 4
    BY RecordBytes
  <2>2. \A i \in Nat : i < 16 => At(a, end + i) = At(t, i)
    BY RecordBytes DEF Follows
  <2> HIDE DEF f
  <2>3. /\ At(a, end + 0) = At(t, 0) /\ At(a, end + 1) = At(t, 1) /\ At(a, end + 2) = At(t, 2)
        /\ At(a, end + 3) = At(t, 3) /\ At(a, end + 4) = At(t, 4) /\ At(a, end + 5) = At(t, 5)
        /\ At(a, end + 6) = At(t, 6) /\ At(a, end + 7) = At(t, 7) /\ At(a, end + 8) = At(t, 8)
        /\ At(a, end + 9) = At(t, 9) /\ At(a, end + 10) = At(t, 10) /\ At(a, end + 11) = At(t, 11)
    BY ONLY <2>2
  <2>4. end + 0 = end
    OBVIOUS
  <2> QED BY <2>1, <2>3, <2>4
<1>2. LabelsAt(a, end) = <<TRUE, ls, f>>
  <2> DEFINE there == Labels(a, 256 * (At(a, end) - 192) + At(a, end + 1))
  <2>1. 256 * (At(a, end) - 192) + At(a, end + 1) = HeaderLen
    BY <1>0, <1>1
  <2>2. there = Labels(a, HeaderLen)
    BY <2>1
  <2>3. end + 1 < Len(a) /\ At(a, end) >= 192
    BY <1>1
  <2>4. LabelsAt(a, end) = IF end + 1 < Len(a) /\ At(a, end) >= 192
                           THEN IF there[1] THEN <<TRUE, there[2], end + 2>> ELSE Failed
                           ELSE Labels(a, end)
    BY DEF LabelsAt
  <2> HIDE DEF there, f
  <2>5. there[1] = TRUE /\ there[2] = ls
    BY <1>10, <2>2 DEF ls
  <2>6. LabelsAt(a, end) = <<TRUE, ls, end + 2>>
    BY <2>3, <2>4, <2>5
  <2> QED BY <2>6 DEF f
<1>3. /\ Word(a, f) = 1 /\ Word(a, f + 2) = 1 /\ Word(a, f + 4) = 0 /\ Word(a, f + 6) = 60
      /\ Word(a, f + 8) = 4
  <2>1. /\ f + 1 = end + 3 /\ f + 2 = end + 4 /\ (f + 2) + 1 = end + 5
        /\ f + 4 = end + 6 /\ (f + 4) + 1 = end + 7 /\ f + 6 = end + 8 /\ (f + 6) + 1 = end + 9
        /\ f + 8 = end + 10 /\ (f + 8) + 1 = end + 11
    OBVIOUS
  <2>2. /\ Word(a, f) = 256 * At(a, f) + At(a, f + 1)
        /\ Word(a, f + 2) = 256 * At(a, f + 2) + At(a, (f + 2) + 1)
        /\ Word(a, f + 4) = 256 * At(a, f + 4) + At(a, (f + 4) + 1)
        /\ Word(a, f + 6) = 256 * At(a, f + 6) + At(a, (f + 6) + 1)
        /\ Word(a, f + 8) = 256 * At(a, f + 8) + At(a, (f + 8) + 1)
    BY DEF Word
  <2>3. /\ At(a, f) = 0 /\ At(a, f + 1) = 1 /\ At(a, f + 2) = 0 /\ At(a, (f + 2) + 1) = 1
        /\ At(a, f + 4) = 0 /\ At(a, (f + 4) + 1) = 0 /\ At(a, f + 6) = 0 /\ At(a, (f + 6) + 1) = 60
        /\ At(a, f + 8) = 0 /\ At(a, (f + 8) + 1) = 4
    BY <1>1, <2>1
  <2> HIDE DEF f
  <2> QED BY ONLY <2>2, <2>3
<1>4. Bytes(a, f + 10, 4) = Address
  <2> DEFINE o == f + 10
             n == 4
             u == Bytes(a, o, n)
  <2>1. a \in Message /\ o \in Nat /\ n \in Nat /\ o + n <= Len(a)
    BY <1>0
  <2>2. \A i \in 1 .. 4 : At(a, o + i - 1) = Address[i]
    <3> SUFFICES ASSUME NEW i \in 1 .. 4 PROVE At(a, o + i - 1) = Address[i]
      OBVIOUS
    <3> DEFINE k == 12 + i - 1
    <3>1. k \in Nat /\ k < 16 /\ end + k = o + i - 1
      OBVIOUS
    <3>2. At(t, k) = Address[i]
      BY RecordBytes
    <3>3. At(a, end + k) = At(t, k)
      BY <3>1, RecordBytes DEF Follows
    <3> QED BY <3>1, <3>2, <3>3
  <2> HIDE DEF o, n
  <2>3. u \in Message /\ Len(u) = n /\ \A i \in 1 .. n : u[i] = At(a, o + i - 1)
    BY ONLY <2>1, BytesType
  <2> HIDE DEF u
  <2>4. u \in Seq(Byte) /\ Len(u) = 4 /\ \A i \in 1 .. 4 : u[i] = Address[i]
    BY <2>2, <2>3 DEF n, Message
  <2>5. Address \in Seq(Byte) /\ Len(Address) = 4
    BY WireAssumption
  <2>7. Len(u) = Len(Address) /\ \A i \in 1 .. Len(u) : u[i] = Address[i]
    BY <2>4, <2>5
  <2>6. u = Address
    BY ONLY <2>4, <2>5, <2>7
  <2> QED BY <2>6 DEF u, o, n
<1> DEFINE r == LabelsAt(a, end)
<1>5. Answer(a, end) = IF ~r[1] THEN Failed
                       ELSE IF r[3] + 10 > Len(a) THEN Failed
                       ELSE IF Len(a) # r[3] + 10 + Word(a, r[3] + 8) THEN Failed
                       ELSE <<TRUE, r[2], Word(a, r[3]), Word(a, r[3] + 2),
                              65536 * Word(a, r[3] + 4) + Word(a, r[3] + 6),
                              Bytes(a, r[3] + 10, Word(a, r[3] + 8))>>
  BY DEF Answer
<1>6. r[1] = TRUE /\ r[2] = ls /\ r[3] = f
  BY <1>2
<1>7. ~(f + 10 > Len(a)) /\ Len(a) = f + 10 + 4
  BY <1>0
<1> HIDE DEF r, f
<1>11. ~(r[3] + 10 > Len(a)) /\ Len(a) = r[3] + 10 + Word(a, r[3] + 8)
  BY <1>3, <1>6, <1>7
<1>8. Answer(a, end) = <<TRUE, ls, Word(a, f), Word(a, f + 2),
                         65536 * Word(a, f + 4) + Word(a, f + 6), Bytes(a, f + 10, Word(a, f + 8))>>
  <2> DEFINE none == ~r[1]
             short == r[3] + 10 > Len(a)
             other == Len(a) # r[3] + 10 + Word(a, r[3] + 8)
             found == <<TRUE, r[2], Word(a, r[3]), Word(a, r[3] + 2),
                        65536 * Word(a, r[3] + 4) + Word(a, r[3] + 6),
                        Bytes(a, r[3] + 10, Word(a, r[3] + 8))>>
  <2>1. Answer(a, end) = IF none THEN Failed ELSE IF short THEN Failed
                         ELSE IF other THEN Failed ELSE found
    BY <1>5
  <2>2. ~none /\ ~short /\ ~other
    BY <1>6, <1>11
  <2>3. found = <<TRUE, ls, Word(a, f), Word(a, f + 2),
                  65536 * Word(a, f + 4) + Word(a, f + 6), Bytes(a, f + 10, Word(a, f + 8))>>
    BY <1>6
  <2> HIDE DEF none, short, other, found
  <2>4. Answer(a, end) = found
    BY ONLY <2>1, <2>2
  <2> QED BY <2>3, <2>4
<1>9. 65536 * 0 + 60 = 60
  OBVIOUS
<1> QED
  BY <1>3, <1>4, <1>8, <1>9 DEF ls

(* What is sent in captive mode reads as the answer, for every message.     *)
LEMMA AnswersRead ==
  ASSUME query \in Message
  PROVE  AnswersReadBack
<1> DEFINE r == ParseQuery(query)
           q == Question(query)
           a == Captive(query, r[3])
           end == q[5]
           Reads == IF a = <<>> THEN q[5] + 16 > BufSize
                    ELSE /\ Len(a) <= BufSize
                         /\ Bytes(a, 0, 2) = Bytes(query, 0, 2)
                         /\ Word(a, 2) = 33152 /\ Word(a, 8) = 0 /\ Word(a, 10) = 0
                         /\ Question(a) = q
                         /\ IF Word(a, 6) = 0 THEN q[3] # 1 /\ Len(a) = q[5]
                            ELSE /\ q[3] = 1
                                 /\ Answer(a, q[5]) = <<TRUE, q[2], 1, 1, 60, Address>>
<1>7. AnswersReadBack = (r[1] /\ Word(query, 4) = 1 => Reads)
  BY DEF AnswersReadBack
<1> HIDE DEF Reads
<1> SUFFICES ASSUME r[1], Word(query, 4) = 1
             PROVE  Reads
  BY <1>7
<1>1. /\ end \in Nat /\ end >= HeaderLen + 4 /\ end <= Len(query) /\ QuestionEnd(query) = end
      /\ Word(query, 4) # 0
      /\ Labels(query, HeaderLen) = <<TRUE, q[2], end - 4>>
      /\ r[3] = q[3]
  BY ParsedIsQuestion
<1>2. HeaderLen = 12 /\ BufSize \in Nat /\ Len(query) \in Nat /\ end >= 16
  BY <1>1, WireAssumption DEF HeaderLen, Message
<1> DEFINE ls == q[2]
           type == r[3]
<1>3. a = IF type = 1 THEN CaptiveResponse(query) ELSE NodataResponse(query)
  BY DEF Captive
<1>4. Question(query) = q
  OBVIOUS
<1> HIDE DEF r, q, a, end, ls, type
<1>5. CASE type = 1
  <2>1. CaptiveResponse(query) = IF end < 0 \/ end + 16 > BufSize THEN <<>>
                                 ELSE Begin(query, end, 1) \o RecordHead \o Address
    BY <1>1 DEF CaptiveResponse, RecordHead
  <2>2. CASE end + 16 > BufSize
    <3>1. a = <<>>
      BY <1>3, <1>5, <2>1, <2>2
    <3> QED BY <2>2, <3>1 DEF end, Reads
  <2>3. CASE ~(end + 16 > BufSize)
    <3> DEFINE named == Labels(query, HeaderLen)
               t == RecordHead \o Address
               n == 1
               b == Begin(query, end, n) \o t
    <3>1. a = (Begin(query, end, 1) \o RecordHead) \o Address
      BY <1>1, <1>2, <1>3, <1>5, <2>1, <2>3
    <3>2. Begin(query, end, 1) \in Message /\ RecordHead \in Message /\ Address \in Message
      <4>1. Begin(query, end, 1) \in Message
        <5>1. end >= HeaderLen /\ 1 \in {0, 1}
          BY <1>1, <1>2
        <5> QED BY <1>1, <5>1, BeginBytes
      <4>2. RecordHead \in Message
        BY DEF RecordHead, HeaderLen, Message, Byte
      <4> QED BY <4>1, <4>2, WireAssumption DEF Message
    <3>3. a = b
      BY <3>1, <3>2, Regrouped
    <3>4. t \in Message /\ Len(t) = 16
      BY RecordBytes
    <3> HIDE DEF t
    <3>5. n \in {0, 1} /\ named = Labels(query, HeaderLen) /\ IsName(named, end - 4)
      BY <1>1 DEF IsName
    <3> HIDE DEF named, n
    <3>13. query \in Message /\ end \in Nat /\ end >= HeaderLen + 4 /\ end <= Len(query) /\ Word(query, 4) # 0
      BY <1>1
    <3>14. Echoes(b, query, end, n, t, named)
      BY ONLY <3>4, <3>5, <3>13, EchoesQuestion
    <3>6. /\ b \in Message /\ Len(b) = end + Len(t)
          /\ Bytes(b, 0, 2) = Bytes(query, 0, 2)
          /\ Word(b, 2) = 33152 /\ Word(b, 8) = 0 /\ Word(b, 10) = 0 /\ Word(b, 6) = n
          /\ Labels(b, HeaderLen) = named
          /\ Question(b) = Question(query)
          /\ Follows(t, b, end)
      BY ONLY <3>14 DEF Echoes
    <3> HIDE DEF b
    <3>7. Len(b) = end + 16
      BY <3>4, <3>6
    <3>11. t = RecordHead \o Address /\ named = Labels(b, HeaderLen)
      BY <3>6 DEF t
    <3>12. named[2] = ls
      BY <1>1 DEF named, ls
    <3>8. Answer(b, end) = <<TRUE, ls, 1, 1, 60, Address>>
      <4> DEFINE v == <<TRUE, named[2], 1, 1, 60, Address>>
      <4>1. b \in Message /\ Follows(t, b, end) /\ v = <<TRUE, named[2], 1, 1, 60, Address>>
        BY <3>6
      <4> HIDE DEF v
      <4>2. Answer(b, end) = v
        BY ONLY <3>5, <3>7, <3>11, <3>13, <4>1, AnswerRecord
      <4> QED BY <3>12, <4>2 DEF v
    <3>9. Len(a) <= BufSize /\ a # <<>>
      <4>1. Len(b) > 0 /\ Len(b) <= BufSize
        BY <1>1, <1>2, <2>3, <3>7
      <4> QED BY <3>3, <4>1
    <3>10. Word(a, 6) # 0 /\ q[3] = 1
      BY <1>1, <1>5, <3>3, <3>6 DEF type, n
    <3> QED BY <1>4, <3>3, <3>6, <3>8, <3>9, <3>10 DEF end, ls, Reads
  <2> QED BY <2>2, <2>3
<1>6. CASE type # 1
  <2>1. NodataResponse(query) = IF end < 0 \/ end > BufSize THEN <<>> ELSE Begin(query, end, 0)
    BY <1>1 DEF NodataResponse
  <2>2. CASE end > BufSize
    <3>1. a = <<>>
      BY <1>3, <1>6, <2>1, <2>2
    <3>2. end + 16 > BufSize
      BY <1>1, <1>2, <2>2
    <3> QED BY <3>1, <3>2 DEF end, Reads
  <2>3. CASE ~(end > BufSize)
    <3> DEFINE named == Labels(query, HeaderLen)
               t == <<>>
               n == 0
               h == Begin(query, end, n)
               b == h \o t
    <3>1. a = h
      BY <1>1, <1>2, <1>3, <1>6, <2>1, <2>3
    <3>2. h \in Message
      <4>1. end >= HeaderLen /\ 0 \in {0, 1}
        BY <1>1, <1>2
      <4> QED BY <1>1, <4>1, BeginBytes
    <3>3. a = b
      <4> HIDE DEF h
      <4> QED BY <3>1, <3>2 DEF Message
    <3>4. t \in Message /\ Len(t) = 0
      BY DEF Message
    <3> HIDE DEF t
    <3>5. n \in {0, 1} /\ named = Labels(query, HeaderLen) /\ IsName(named, end - 4)
      BY <1>1 DEF IsName
    <3> HIDE DEF named, n
    <3>13. query \in Message /\ end \in Nat /\ end >= HeaderLen + 4 /\ end <= Len(query) /\ Word(query, 4) # 0
      BY <1>1
    <3>14. Echoes(b, query, end, n, t, named)
      BY ONLY <3>4, <3>5, <3>13, EchoesQuestion
    <3>6. /\ b \in Message /\ Len(b) = end + Len(t)
          /\ Bytes(b, 0, 2) = Bytes(query, 0, 2)
          /\ Word(b, 2) = 33152 /\ Word(b, 8) = 0 /\ Word(b, 10) = 0 /\ Word(b, 6) = n
          /\ Question(b) = Question(query)
      BY ONLY <3>14 DEF Echoes
    <3> HIDE DEF b
    <3>7. Len(b) = end
      BY <1>1, <3>4, <3>6
    <3>8. Len(a) <= BufSize /\ a # <<>> /\ Len(a) = end
      <4>1. Len(b) > 0 /\ Len(b) <= BufSize
        BY <1>1, <1>2, <2>3, <3>7
      <4> QED BY <3>3, <3>7, <4>1
    <3>9. Word(a, 6) = 0 /\ q[3] # 1
      BY <1>1, <1>6, <3>3, <3>6 DEF type, n
    <3> QED BY <1>4, <3>3, <3>6, <3>8, <3>9 DEF end, Reads
  <2> QED BY <2>2, <2>3
<1> QED
  BY <1>5, <1>6

-----------------------------------------------------------------------------

(* Queries are messages, whatever the headers and the pieces of which they  *)
(* are composed.                                                            *)
THEOREM QueriesAreMessages == WireSpec => [](query \in Message)
<1>1. WireInit => query \in Message
  BY WireAssumption DEF WireInit, Message
<1>2. query \in Message /\ [WireNext]_query => (query \in Message)'
  <2> SUFFICES ASSUME query \in Message, [WireNext]_query PROVE query' \in Message
    OBVIOUS
  <2>1. CASE Send
    BY <2>1, WireAssumption DEF Send, Message
  <2>2. ASSUME NEW piece \in Pieces, Compose(piece) PROVE query' \in Message
    <3>1. piece \in Message
      BY WireAssumption DEF Message
    <3>2. query' = query \o piece
      BY <2>2 DEF Compose
    <3> QED BY <3>1, <3>2 DEF Message
  <2>3. CASE query' = query
    BY <2>3
  <2> QED BY <2>1, <2>2, <2>3 DEF WireNext
<1> QED
  BY <1>1, <1>2, PTL DEF WireSpec

(* parse_dns_query accepts what is a question by RFC 1035 and nothing else, *)
(* and the text under which an answer is cached determines the labels that  *)
(* were asked for: for every buffer and all bytes that clients send.        *)
THEOREM NamesAlwaysTell == WireSpec => []NamesTellQuestions
<1>1. query \in Message => NamesTellQuestions
  BY NamesTell
<1> QED
  BY <1>1, QueriesAreMessages, PTL

(* What the proxy sends in captive mode reads as the answer to the question *)
(* that was asked: for every buffer, address and all bytes that clients     *)
(* send.                                                                    *)
THEOREM AnswersAlwaysReadBack == WireSpec => []AnswersReadBack
<1>1. query \in Message => AnswersReadBack
  BY AnswersRead
<1> QED
  BY <1>1, QueriesAreMessages, PTL

=============================================================================
