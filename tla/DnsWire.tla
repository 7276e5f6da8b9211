------------------------------- MODULE DnsWire -------------------------------
(***************************************************************************)
(* dns_proxy.c, the bytes of DNS messages: the parser that yields the name *)
(* and the type under which a query is logged and cached, and the answers  *)
(* that are built in captive mode.                                         *)
(*                                                                         *)
(* A message is a sequence of bytes; At(m, o) is the one at offset o.  The *)
(* queries are those a client can compose of some pieces, well-formed or   *)
(* not.                                                                    *)
(***************************************************************************)
EXTENDS Integers, Sequences, FiniteSets

CONSTANTS
    QnameSize, \* the size of the buffer for the name
    BufSize,   \* DNS_PROXY_BUF_SIZE
    Address,   \* s_captive_ip, four bytes
    Heads,     \* headers of queries
    Pieces,    \* what clients put behind them
    MaxLen     \* bound on the length of queries

Byte == 0 .. 255

ASSUME WireAssumption ==
    /\ QnameSize \in Nat /\ QnameSize > 1
    /\ BufSize \in Nat /\ MaxLen \in Nat
    /\ Address \in Seq(Byte) /\ Len(Address) = 4
    /\ Heads \subseteq Seq(Byte) /\ Pieces \subseteq Seq(Byte)

VARIABLE query

HeaderLen == 12

WireInit == query \in Heads

Compose(piece) ==
    /\ Len(query) + Len(piece) <= MaxLen
    /\ query' = query \o piece

\* The query is sent, and the client composes another.
Send == query \notin Heads /\ query' \in Heads

WireNext == Send \/ \E piece \in Pieces : Compose(piece)

WireSpec == WireInit /\ [][WireNext]_query

-----------------------------------------------------------------------------

Failed == <<FALSE>>

At(m, o) == m[o + 1]
Word(m, o) == 256 * At(m, o) + At(m, o + 1)
Bytes(m, o, n) == SubSeq(m, o + 1, o + n)

\* Characters that are not printable are replaced.
Shown(c) == IF c \in 32 .. 126 THEN c ELSE 63

\* What fits into qname, its NUL included
Cut(s) == IF Len(s) < QnameSize THEN s ELSE SubSeq(s, 1, QnameSize - 1)

\* One label behind those of s is read: a loop is "on" until it has found the
\* end of the name or that there is none.
Label(m, s) == [i \in 1 .. At(m, s.at) |-> Shown(At(m, s.at + i))]

\* Mutant: labels are joined without dots.
ParseLabelNoDots(m, s) ==
    LET n == At(m, s.at)
    IN  IF s.is # "on" \/ s.at >= Len(m) THEN s
        ELSE IF n = 0 THEN [s EXCEPT !.at = @ + 1, !.is = "end"]
        ELSE IF n >= 64 \/ s.at + 1 + n > Len(m) THEN [s EXCEPT !.is = "failed"]
        ELSE [s EXCEPT !.at = @ + 1 + n, !.name = Cut(@ \o Label(m, s))]

\* The body of parse_dns_query's loop
ParseLabel(m, s) ==
    LET n == At(m, s.at)
        dot == IF s.name = <<>> THEN <<>> ELSE <<46>>
    IN  IF s.is # "on" \/ s.at >= Len(m) THEN s
        ELSE IF n = 0 THEN [s EXCEPT !.at = @ + 1, !.is = "end"]
        ELSE IF n >= 64 \/ s.at + 1 + n > Len(m) THEN [s EXCEPT !.is = "failed"]
        ELSE [s EXCEPT !.at = @ + 1 + n, !.name = Cut(@ \o dot \o Label(m, s))]

\* The loop after so many labels; a message has fewer than bytes.
Parsing(m) ==
    LET after[n \in Nat] == IF n = 0 THEN [is |-> "on", at |-> HeaderLen, name |-> <<>>]
                            ELSE ParseLabel(m, after[n - 1])
    IN  after

\* parse_dns_query: the name and the type
ParseQuery(m) ==
    LET found(s) ==
          IF s.is = "failed" \/ s.name = <<>> \/ s.at + 4 > Len(m) THEN Failed
          ELSE <<TRUE, s.name, Word(m, s.at)>>
    IN  IF Len(m) < HeaderLen THEN Failed
        ELSE IF Word(m, 4) = 0 THEN Failed
        ELSE found(Parsing(m)[Len(m)])

\* The loop of question_end
Walking(m) ==
    LET after[n \in Nat] ==
          IF n = 0 THEN HeaderLen
          ELSE LET o == after[n - 1]
               IN  IF o < Len(m) /\ At(m, o) # 0 THEN o + At(m, o) + 1 ELSE o
    IN  after

\* Mutant: the type and the class are not part of the question.
QuestionEndShort(m) ==
    LET o == Walking(m)[Len(m)] IN IF o < Len(m) THEN o + 1 ELSE -1

\* question_end
QuestionEnd(m) ==
    LET o == Walking(m)[Len(m)] IN IF o < Len(m) THEN o + 1 + 4 ELSE -1

\* The header of a response with n answers, and the question
Begin(m, end, n) ==
    Bytes(m, 0, 2) \o <<129, 128>> \o Bytes(m, 4, 2) \o <<0, n, 0, 0, 0, 0>>
      \o Bytes(m, HeaderLen, end - HeaderLen)

\* build_captive_response
CaptiveResponse(m) ==
    LET end == QuestionEnd(m)
    IN  IF end < 0 \/ end + 16 > BufSize THEN <<>>
        ELSE Begin(m, end, 1) \o <<192, HeaderLen, 0, 1, 0, 1, 0, 0, 0, 60, 0, 4>> \o Address

\* build_nodata_response
NodataResponse(m) ==
    LET end == QuestionEnd(m)
    IN  IF end < 0 \/ end > BufSize THEN <<>> ELSE Begin(m, end, 0)

\* What dns_proxy_task sends in captive mode; nothing when it is empty.
Captive(m, type) == IF type = 1 THEN CaptiveResponse(m) ELSE NodataResponse(m)

-----------------------------------------------------------------------------
\* Messages as RFC 1035 has them.

\* One label is read of a name that is not compressed.
ReadLabel(m, s) ==
    LET n == At(m, s.at)
    IN  IF s.is # "on" THEN s
        ELSE IF s.at >= Len(m) THEN [s EXCEPT !.is = "failed"]
        ELSE IF n = 0 THEN [s EXCEPT !.at = @ + 1, !.is = "end"]
        ELSE IF n >= 64 \/ s.at + n >= Len(m) THEN [s EXCEPT !.is = "failed"]
        ELSE [s EXCEPT !.at = @ + 1 + n, !.labels = Append(@, Bytes(m, s.at + 1, n))]

Reading(m, o) ==
    LET after[n \in Nat] == IF n = 0 THEN [is |-> "on", at |-> o, labels |-> <<>>]
                            ELSE ReadLabel(m, after[n - 1])
    IN  after

\* The labels of the name at o, and the offset behind it
Labels(m, o) ==
    LET s == Reading(m, o)[Len(m) + 1]
    IN  IF s.is = "end" THEN <<TRUE, s.labels, s.at>> ELSE Failed

\* The same for a name that may be a pointer to one
LabelsAt(m, o) ==
    LET there == Labels(m, 256 * (At(m, o) - 192) + At(m, o + 1))
    IN  IF o + 1 < Len(m) /\ At(m, o) >= 192
        THEN IF there[1] THEN <<TRUE, there[2], o + 2>> ELSE Failed
        ELSE Labels(m, o)

\* The question of a message, with the labels of its name
Question(m) ==
    LET r == Labels(m, HeaderLen)
    IN  IF Len(m) < HeaderLen THEN Failed
        ELSE IF Word(m, 4) = 0 \/ ~r[1] THEN Failed
        ELSE IF r[3] + 4 > Len(m) THEN Failed
        ELSE <<TRUE, r[2], Word(m, r[3]), Word(m, r[3] + 2), r[3] + 4>>

\* The one record behind the question: the labels of its name, its type, class,
\* seconds to live and data; it ends the message.
Answer(m, o) ==
    LET r == LabelsAt(m, o)
    IN  IF ~r[1] THEN Failed
        ELSE IF r[3] + 10 > Len(m) THEN Failed
        ELSE IF Len(m) # r[3] + 10 + Word(m, r[3] + 8) THEN Failed
        ELSE <<TRUE, r[2], Word(m, r[3]), Word(m, r[3] + 2),
               65536 * Word(m, r[3] + 4) + Word(m, r[3] + 6),
               Bytes(m, r[3] + 10, Word(m, r[3] + 8))>>

\* The parts of s between its dots
SplitAtDots(s) ==
    LET bounds == {0, Len(s) + 1} \union {i \in DOMAIN s : s[i] = 46}
        Bound(n) == CHOOSE b \in bounds : Cardinality({x \in bounds : x < b}) = n
    IN  [n \in 1 .. Cardinality(bounds) - 1 |-> SubSeq(s, Bound(n - 1) + 1, Bound(n) - 1)]

-----------------------------------------------------------------------------

(* parse_dns_query accepts exactly the messages whose question is one by    *)
(* RFC 1035, is not compressed and does not ask for the root.  The name     *)
(* that it yields, under which the answer is cached, determines the labels  *)
(* that were asked for, unless it was cut off or one of them has a dot or a *)
(* character that is not printable.  (With its first length and the zero    *)
(* that ends it, a name takes two bytes more than its text.)                *)
NamesTellQuestions ==
    LET r == ParseQuery(query)
        q == Question(query)
    IN  /\ r[1] <=> (q[1] /\ q[2] # <<>>)
        /\ r[1] => /\ r[3] = q[3]
                   /\ Len(r[2]) < QnameSize
                   /\ q[5] - 4 - HeaderLen - 2 < QnameSize
                        /\ (\A l \in DOMAIN q[2] : \A i \in DOMAIN q[2][l] :
                               q[2][l][i] \in 33 .. 126 \ {46})
                      => q[2] = SplitAtDots(r[2])

(* What the proxy sends in captive mode reads as an answer to the question  *)
(* that was asked: the identifier, the name, the type and the class are     *)
(* those of the query, and there is the device's address for type A and     *)
(* nothing for others.  It fits, and nothing behind the query is copied.    *)
(* (Queries have one question; of a second one only the count is echoed.)   *)
AnswersReadBack ==
    LET r == ParseQuery(query)
        q == Question(query)
        a == Captive(query, r[3])
    IN  r[1] /\ Word(query, 4) = 1 =>
          IF a = <<>> THEN q[5] + 16 > BufSize
          ELSE /\ Len(a) <= BufSize
               /\ Bytes(a, 0, 2) = Bytes(query, 0, 2)
               /\ Word(a, 2) = 33152 /\ Word(a, 8) = 0 /\ Word(a, 10) = 0
               /\ Question(a) = q
               /\ IF Word(a, 6) = 0 THEN q[3] # 1 /\ Len(a) = q[5]
                  ELSE /\ q[3] = 1
                       /\ Answer(a, q[5]) = <<TRUE, q[2], 1, 1, 60, Address>>

=============================================================================
