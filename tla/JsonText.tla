------------------------------- MODULE JsonText -------------------------------
(***************************************************************************)
(* cJSON.c: from text to documents and back, and cJSON_Minify.             *)
(*                                                                         *)
(* A text is a sequence of bytes, without the NUL at its end; positions    *)
(* count from 0 as in the code, and Char(t, o) is the byte at offset o.    *)
(* What parses returns <<TRUE, result, offset>>, or Failed: what was built *)
(* until then is freed, and the position of the error is left out.  There  *)
(* is memory for everything.  strtod and sprintf are external; numbers are *)
(* integers of less than 32 bits.                                          *)
(***************************************************************************)
EXTENDS JsonValue

CONSTANT NestingLimit  \* CJSON_NESTING_LIMIT

ASSUME LimitAssumption == NestingLimit \in Nat

Quote == 34
Backslash == 92
Comma == 44
Colon == 58
Newline == 10
Tab == 9
LetterU == 117

OpenOf(v) == IF IsObject(v) THEN 123 ELSE 91
CloseOf(v) == IF IsObject(v) THEN 125 ELSE 93

Failed == <<FALSE>>

\* What follows a part that parses
Then(r, F(_)) == IF r[1] THEN F(r) ELSE Failed

Char(t, o) == IF o < Len(t) THEN t[o + 1] ELSE -1
From(t, o, n) == IF o + n <= Len(t) THEN SubSeq(t, o + 1, o + n) ELSE <<>>

\* The string of C that a buffer holds ends at its first NUL.
CString(s) ==
    LET n == SelectInSeq(s, LAMBDA c : c = 0) IN IF n = 0 THEN s ELSE SubSeq(s, 1, n - 1)

Literals == << <<<<110, 117, 108, 108>>, "null">>,
               <<<<102, 97, 108, 115, 101>>, "false">>,
               <<<<116, 114, 117, 101>>, "true">> >>

-----------------------------------------------------------------------------
\* Parsing.

RECURSIVE Skip(_, _), Integer(_, _, _), EndOfString(_, _), DecodeString(_, _, _),
          ParseValue(_, _, _), ParseMembers(_, _, _, _)

\* The loop of buffer_skip_whitespace: a NUL is a blank.
Skip(t, o) == IF o < Len(t) /\ Char(t, o) <= 32 THEN Skip(t, o + 1) ELSE o

\* buffer_skip_whitespace: it never ends behind the last byte.
SkipWhitespace(t, o) ==
    IF o >= Len(t) THEN o ELSE IF Skip(t, o) = Len(t) THEN Len(t) - 1 ELSE Skip(t, o)

Digit == 48 .. 57

\* strtod, of the digits at o
Integer(t, o, n) ==
    IF Char(t, o) \in Digit THEN Integer(t, o + 1, 10 * n + Char(t, o) - 48) ELSE <<n, o>>

\* parse_number
ParseNumber(t, o) ==
    LET minus == Char(t, o) = 45
        start == IF minus THEN o + 1 ELSE o
        r == Integer(t, start, 0)
    IN  IF r[2] = start THEN Failed
        ELSE <<TRUE, Num(IF minus THEN -r[1] ELSE r[1]), r[2]>>

\* parse_hex4: what is no number counts as 0.
Hex4(t, o) ==
    LET value(c) == CASE c \in Digit -> c - 48
                      [] c \in 65 .. 70 -> c - 55
                      [] c \in 97 .. 102 -> c - 87
                      [] OTHER -> -1
        v == [i \in 0 .. 3 |-> value(Char(t, o + i))]
    IN  IF \E i \in 0 .. 3 : v[i] = -1 THEN 0
        ELSE 4096 * v[0] + 256 * v[1] + 16 * v[2] + v[3]

\* The end of utf16_literal_to_utf8
Utf8(c) ==
    LET tail(n) == 128 + ((c \div (64 ^ n)) % 64)
    IN  CASE c < 128 -> <<c>>
          [] c \in 128 .. 2047 -> <<192 + (c \div 64), tail(0)>>
          [] c \in 2048 .. 65535 -> <<224 + (c \div 4096), tail(1), tail(0)>>
          [] OTHER -> <<240 + (c \div 262144), tail(2), tail(1), tail(0)>>

\* utf16_literal_to_utf8: the bytes, and the length of what they stand for, or
\* 0 when the literal is none.
Utf16Literal(t, o, end) ==
    LET first == Hex4(t, o + 2)
        second == Hex4(t, o + 8)
        high == first \in 55296 .. 56319
    IN  CASE end - o < 6 \/ first \in 56320 .. 57343 -> <<<<>>, 0>>
          [] end - o >= 6 /\ high ->
               IF end - o < 12 \/ From(t, o + 6, 2) # <<Backslash, LetterU>>
                    \/ second \notin 56320 .. 57343
                 THEN <<<<>>, 0>>
                 ELSE <<Utf8(65536 + 1024 * (first % 1024) + (second % 1024)), 12>>
          [] OTHER -> <<Utf8(first), 6>>

\* The offset of the quote that ends a string, or -1.
EndOfString(t, o) ==
    CASE o >= Len(t) -> -1
      [] Char(t, o) = Quote -> o
      [] Char(t, o) = Backslash -> IF o + 1 >= Len(t) THEN -1 ELSE EndOfString(t, o + 2)
      [] OTHER -> EndOfString(t, o + 1)

\* The characters with an escape of their own, and its letter
Escapes == << <<8, 98>>, <<12, 102>>, <<Newline, 110>>, <<13, 114>>, <<Tab, 116>>,
              <<Quote, Quote>>, <<Backslash, Backslash>> >>

\* One turn of the loop of parse_string: the bytes, and the length of what
\* they stand for, or 0
DecodeChar(t, o, end) ==
    LET c == Char(t, o + 1)
        e == SelectInSeq(Escapes, LAMBDA x : x[2] = c)
    IN  CASE Char(t, o) # Backslash -> <<<<Char(t, o)>>, 1>>
          [] Char(t, o) = Backslash /\ e # 0 -> <<<<Escapes[e][1]>>, 2>>
          [] Char(t, o) = Backslash /\ c = 47 -> <<<<c>>, 2>>
          [] Char(t, o) = Backslash /\ c = LetterU -> Utf16Literal(t, o, end)
          [] OTHER -> <<<<>>, 0>>

\* The loop of parse_string through the literal
DecodeString(t, o, end) ==
    LET behind(char) ==
          IF char[2] = 0 THEN Failed
          ELSE Then(DecodeString(t, o + char[2], end),
                    LAMBDA rest : <<TRUE, char[1] \o rest[2]>>)
    IN  IF o >= end THEN <<TRUE, <<>>>> ELSE behind(DecodeChar(t, o, end))

RECURSIVE Skipped(_, _, _)

\* Mutant: both bytes of an escape sequence are left out.
SkippedTwice(t, o, end) ==
    CASE o >= end -> 0
      [] o < end /\ Char(t, o) = Backslash -> 2 + Skipped(t, o + 2, end)
      [] OTHER -> Skipped(t, o + 1, end)

\* The backslashes that begin an escape sequence
Skipped(t, o, end) ==
    CASE o >= end -> 0
      [] o < end /\ Char(t, o) = Backslash -> 1 + Skipped(t, o + 2, end)
      [] OTHER -> Skipped(t, o + 1, end)

\* What parse_string allocates for the literal at o, without the NUL
Allocation(t, o) == EndOfString(t, o + 1) - o - Skipped(t, o + 1, EndOfString(t, o + 1))

\* parse_string
ParseString(t, o) ==
    LET until(end) ==
          IF end = -1 THEN Failed
          ELSE Then(DecodeString(t, o + 1, end),
                    LAMBDA d : <<TRUE, CString(d[2]), end + 1>>)
    IN  IF Char(t, o) = Quote THEN until(EndOfString(t, o + 1)) ELSE Failed

\* The name of a member of an object, from the offset before it to its colon
MemberName(t, o) ==
    LET before(name, colon) ==
          IF Char(t, colon) = Colon THEN <<TRUE, name, colon>> ELSE Failed
    IN  IF o + 1 >= Len(t) THEN Failed
        ELSE Then(ParseString(t, SkipWhitespace(t, o + 1)),
                  LAMBDA r : before(r[2], SkipWhitespace(t, r[3])))

\* One member of an array or an object
ParseMember(t, o, depth, named) ==
    Then(IF named THEN MemberName(t, o) ELSE <<TRUE, NoName, o>>,
         LAMBDA n : Then(ParseValue(t, SkipWhitespace(t, n[3] + 1), depth),
                         LAMBDA r : <<TRUE, <<n[2], r[2]>>, SkipWhitespace(t, r[3])>>))

\* Mutant: whatever follows the last member ends the container.
ParseMembersOpen(t, o, depth, v) ==
    Then(ParseMember(t, o, depth, IsObject(v)),
         LAMBDA m : IF Char(t, m[3]) = Comma
                      THEN ParseMembers(t, m[3], depth, AddItem(v, m[2]))
                      ELSE <<TRUE, AddItem(v, m[2]), m[3] + 1>>)

\* The loops of parse_array and parse_object over the members that follow
\* those in v
ParseMembers(t, o, depth, v) ==
    LET behind(w, at) ==
          CASE Char(t, at) = Comma -> ParseMembers(t, at, depth, w)
            [] Char(t, at) = CloseOf(v) -> <<TRUE, w, at + 1>>
            [] OTHER -> Failed
    IN  Then(ParseMember(t, o, depth, IsObject(v)),
             LAMBDA m : behind(AddItem(v, m[2]), m[3]))

\* Mutant: the limit is off by one.
ParseContainerDeeper(t, o, depth, v) ==
    LET inside == SkipWhitespace(t, o + 1)
    IN  CASE depth > NestingLimit \/ inside >= Len(t) -> Failed
          [] depth <= NestingLimit /\ Char(t, inside) = CloseOf(v) -> <<TRUE, v, inside + 1>>
          [] OTHER -> ParseMembers(t, inside - 1, depth + 1, v)

\* parse_array and parse_object
ParseContainer(t, o, depth, v) ==
    LET inside == SkipWhitespace(t, o + 1)
    IN  CASE depth >= NestingLimit \/ inside >= Len(t) -> Failed
          [] depth < NestingLimit /\ Char(t, inside) = CloseOf(v) -> <<TRUE, v, inside + 1>>
          [] OTHER -> ParseMembers(t, inside - 1, depth + 1, v)

\* parse_value, at depth `depth'
ParseValue(t, o, depth) ==
    LET w == SelectInSeq(Literals, LAMBDA x : From(t, o, Len(x[1])) = x[1])
        c == Char(t, o)
    IN  CASE w # 0 -> <<TRUE, <<Literals[w][2]>>, o + Len(Literals[w][1])>>
          [] w = 0 /\ c = Quote ->
               Then(ParseString(t, o), LAMBDA s : <<TRUE, Str(s[2]), s[3]>>)
          [] w = 0 /\ c \in Digit \union {45} -> ParseNumber(t, o)
          [] w = 0 /\ c \in {91, 123} ->
               ParseContainer(t, o, depth, IF c = 91 THEN Arr(<<>>) ELSE Obj(<<>>))
          [] OTHER -> Failed

\* cJSON_ParseWithLengthOpts, of the bytes of a buffer
ParseBuffer(t, whole) ==
    LET bom == IF Len(t) > 4 /\ From(t, 0, 3) = <<239, 187, 191>> THEN 3 ELSE 0
    IN  IF t = <<>> THEN Failed
        ELSE Then(ParseValue(t, SkipWhitespace(t, bom), 0),
                  LAMBDA r : IF whole /\ Char(t, SkipWhitespace(t, r[3])) # 0
                               THEN Failed ELSE r)

\* cJSON_Parse and cJSON_ParseWithOpts: the NUL belongs to the buffer.
Parse(t, whole) == ParseBuffer(Append(t, 0), whole)

-----------------------------------------------------------------------------
\* Printing.  A piece is a text, what `ensure' is asked to make room for behind
\* the text so far, and how much of it is written.  Pieces are joined to
\* <<text, the size of the buffer that suffices, everything fits>>.

Piece(text, needed, end) == <<text, needed + 1, Len(text) + end <= needed + 1>>

Join(a, b) ==
    LET size == Len(a[1]) + b[2]
    IN  <<a[1] \o b[1], IF size > a[2] THEN size ELSE a[2], a[3] /\ b[3]>>

Joined(pieces) == FoldLeft(Join, <<<<>>, 0, TRUE>>, pieces)

RECURSIVE Decimal(_), PrintValue(_, _, _)

Decimal(n) ==
    CASE n < 0 -> <<45>> \o Decimal(-n)
      [] n \in 0 .. 9 -> <<48 + n>>
      [] OTHER -> Decimal(n \div 10) \o <<48 + (n % 10)>>

HexDigit(n) == IF n < 10 THEN 48 + n ELSE 87 + n

\* One character of a string, as print_string_ptr writes it
PrintChar(c) ==
    LET e == SelectInSeq(Escapes, LAMBDA x : x[1] = c)
    IN  CASE e # 0 -> <<Backslash, Escapes[e][2]>>
          [] e = 0 /\ c < 32 ->
               <<Backslash, LetterU, 48, 48, HexDigit(c \div 16), HexDigit(c % 16)>>
          [] OTHER -> <<c>>

\* Mutant: escape sequences are taken to be one character longer each.
ExtraCharsFew(c) == IF SelectInSeq(Escapes, LAMBDA x : x[1] = c) # 0 \/ c < 32 THEN 1 ELSE 0

\* What the first loop of print_string_ptr counts for it
ExtraChars(c) ==
    CASE SelectInSeq(Escapes, LAMBDA x : x[1] = c) # 0 -> 1
      [] SelectInSeq(Escapes, LAMBDA x : x[1] = c) = 0 /\ c < 32 -> 5
      [] OTHER -> 0

\* print_string_ptr
PrintString(s) ==
    LET length == FoldLeft(LAMBDA n, c : n + 1 + ExtraChars(c), 0, s)
    IN  Piece(<<Quote>> \o FlattenSeq([i \in DOMAIN s |-> PrintChar(s[i])]) \o <<Quote>>,
              length + 3, 1)

Repeat(c, n) == [i \in 1 .. n |-> c]

\* print_array
PrintArray(v, depth, format) ==
    LET n == Len(Items(v))
        comma == IF format THEN <<Comma, 32>> ELSE <<Comma>>
    IN  Joined(<<Piece(<<OpenOf(v)>>, 1, 0)>>
               \o FlattenSeq([i \in 1 .. n |->
                    <<PrintValue(Items(v)[i][2], depth + 1, format)>> \o
                    (IF i < n THEN <<Piece(comma, Len(comma) + 1, 1)>> ELSE <<>>)])
               \o <<Piece(<<CloseOf(v)>>, 2, 1)>>)

\* print_object; depth is the one outside of it.
PrintObject(v, depth, format) ==
    LET n == Len(Items(v))
        f(s) == IF format THEN s ELSE <<>>
        tabs(k) == f(Repeat(Tab, k))
        after(i) == (IF i < n THEN <<Comma>> ELSE <<>>) \o f(<<Newline>>)
    IN  Joined(<<Piece(<<OpenOf(v)>> \o f(<<Newline>>), IF format THEN 3 ELSE 2, 0)>>
               \o FlattenSeq([i \in 1 .. n |->
                    <<Piece(tabs(depth + 1), Len(tabs(depth + 1)), 0),
                      PrintString(Items(v)[i][1]),
                      Piece(<<Colon>> \o f(<<Tab>>), IF format THEN 2 ELSE 1, 0),
                      PrintValue(Items(v)[i][2], depth + 1, format),
                      Piece(after(i), Len(after(i)) + 1, 1)>>])
               \o <<Piece(tabs(depth) \o <<CloseOf(v)>>, IF format THEN depth + 2 ELSE 2, 1)>>)

\* print_value.  (The Invalid item of JsonPatch is not printed.)
PrintValue(v, depth, format) ==
    LET w == SelectInSeq(Literals, LAMBDA x : v = <<x[2]>>)
    IN  CASE w # 0 -> Piece(Literals[w][1], Len(Literals[w][1]) + 1, 1)
          [] Tag(v) = "num" -> Piece(Decimal(v[2]), Len(Decimal(v[2])) + 1, 1)
          [] Tag(v) = "str" -> PrintString(v[2])
          [] IsArray(v) -> PrintArray(v, depth, format)
          [] IsObject(v) -> PrintObject(v, depth, format)

\* cJSON_Print and cJSON_PrintUnformatted
Rendered(v, format) == PrintValue(v, 0, format)[1]

\* cJSON_PrintPreallocated
PrintPreallocated(v, length, format) == PrintValue(v, 0, format)[2] <= length

-----------------------------------------------------------------------------
\* cJSON_Minify.

RECURSIVE Minify(_), MinifyString(_), LineComment(_), BlockComment(_)

Drop(t, n) == SubSeq(t, n + 1, Len(t))
Begins(t, s) == IsPrefix(s, t)

\* skip_oneline_comment and skip_multiline_comment, behind what begins them
LineComment(t) == CASE t = <<>> -> t
                    [] Begins(t, <<Newline>>) -> Tail(t)
                    [] OTHER -> LineComment(Tail(t))
BlockComment(t) == CASE t = <<>> -> t
                     [] Begins(t, <<42, 47>>) -> Drop(t, 2)
                     [] OTHER -> BlockComment(Tail(t))

\* Mutant: an escaped quote ends the string.
MinifyStringShort(t) ==
    CASE t = <<>> -> <<>>
      [] Begins(t, <<Quote>>) -> <<Quote>> \o Minify(Tail(t))
      [] OTHER -> <<Head(t)>> \o MinifyString(Tail(t))

\* minify_string, behind the quote that begins it.  A backslash before a quote
\* escapes it even when it is the second of two.
MinifyString(t) ==
    CASE t = <<>> -> <<>>
      [] Begins(t, <<Backslash, Quote>>) -> <<Backslash, Quote>> \o MinifyString(Drop(t, 2))
      [] Begins(t, <<Quote>>) -> <<Quote>> \o Minify(Tail(t))
      [] OTHER -> <<Head(t)>> \o MinifyString(Tail(t))

Minify(t) ==
    CASE t = <<>> -> <<>>
      [] t # <<>> /\ Head(t) \in {32, Tab, 13, Newline} -> Minify(Tail(t))
      [] Begins(t, <<47, 47>>) -> Minify(LineComment(Drop(t, 2)))
      [] Begins(t, <<47, 42>>) -> Minify(BlockComment(Drop(t, 2)))
      [] Begins(t, <<47>>) /\ ~Begins(t, <<47, 47>>) /\ ~Begins(t, <<47, 42>>) ->
           Minify(Tail(t))
      [] Begins(t, <<Quote>>) -> <<Quote>> \o MinifyString(Tail(t))
      [] OTHER -> <<Head(t)>> \o Minify(Tail(t))

=============================================================================
