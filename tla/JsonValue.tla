----------------------------- MODULE JsonValue ------------------------------
(***************************************************************************)
(* The two read-only views of a parsed JSON value: value.Value over a tape *)
(* (value/value.go, internal/valueabi, value/serialize.go) and value.Raw   *)
(* over the text itself (value/raw.go).  Both views are read into one      *)
(* shape, a node, through the accessors a caller has: the kind, the        *)
(* scalar, the member count and, member by member, the children.           *)
(***************************************************************************)
EXTENDS GoTape

Node(kind, text, num, keys, kids) ==
  [kind |-> kind, text |-> text, num |-> num, keys |-> keys, kids |-> kids]
Invalid == Node("invalid", <<>>, <<>>, <<>>, <<>>)

\* A decimal m * 10^e in lowest terms, and the double strconv reads it as:
\* too small it is zero, too large there is none (no value, an error).
DoubleTop == 18 * 10^(MaxExp - 1)
Fits(m, e) == e < 0 \/ (e <= MaxExp /\ m * 10^e <= DoubleTop)
Decimal(m, e) ==
  IF m = 0 THEN <<0, 0>>
  ELSE LET z == Max({k \in 0..9 : m % 10^k = 0}) IN <<m \div 10^z, e + z>>

\* strconv.ParseFloat over a number token: <<sign, m, e>>, or <<>> out of range.
Double(neg, exp, d) ==
  IF d[1] = 0 \/ exp < -MinExp THEN <<1, 0, 0>>
  ELSE IF Fits(d[1], d[2]) THEN <<IF neg THEN -1 ELSE 1, d[1], d[2]>>
  ELSE <<>>
TokenFloat(t, n) ==
  LET exp == ExponentOf(t, n)
  IN Double(At(t, 0) = "-", exp, Decimal(DigitsValue(t, n.from, n.frac), exp))
ParseFloat(t) == TokenFloat(t, NumberToken(t, 0))

---------------------------------------------------------------------------
(* value.Value: doc is [tape, str, src], i a tape index.                   *)

TagAt(doc, i) == doc.tape[i + 1].tag
ContainerEnd(doc, i) == doc.tape[i + 1].a
ContainerCount(doc, i) == doc.tape[i + 1].b

\* ScalarStringAt: the bytes of a string word, from the source or the arena.
StringAt(doc, i) ==
  LET w == doc.tape[i + 1]
  IN IF w.tag = "R" THEN Cut(doc.src, w.a, w.a + w.b) ELSE Cut(doc.str, w.a, w.a + w.b)

\* The index after the value at i (Skip, in a tape without seams).
ValueEnd(doc, i) ==
  CASE TagAt(doc, i) \in {"[", "{"} -> ContainerEnd(doc, i) + 1
    [] TagAt(doc, i) \in {"l", "u", "d"} -> i + 2
    [] OTHER -> i + 1

\* The start of each element, or of each member's key, up to the close.
RECURSIVE Starts(_, _, _, _)
Starts(doc, cur, end, step) ==
  IF cur >= end THEN <<>> ELSE <<cur>> \o Starts(doc, ValueEnd(doc, cur + step), end, step)

\* tagToKind.
Kind(tag) ==
  CASE tag \in {Quote, "R", "S"} -> "string"
    [] tag = "n" -> "null" [] tag = "t" -> "bool"
    [] tag \in {"l", "u", "d", "D"} -> "number"
    [] tag = "[" -> "array" [] tag = "{" -> "object"
    [] OTHER -> "invalid"

\* Float: the number at i.
Float(doc, i) ==
  LET w == doc.tape[i + 2]
      v == IF w.a < 0 THEN -w.a ELSE w.a
  IN CASE TagAt(doc, i) = "D" -> ParseFloat(StringAt(doc, i))
       [] TagAt(doc, i) # "D" /\ w.tag = "inf" -> <<>>
       [] OTHER -> IF v = 0 THEN <<1, 0, 0>>
                   ELSE LET d == Decimal(v, w.b) IN <<IF w.a < 0 THEN -1 ELSE 1, d[1], d[2]>>

\* The value at i through Type, Str, Float, Len, ForEachKey and ForEachElem.
RECURSIVE ReadValue(_, _)
ReadValue(doc, i) ==
  LET kind == Kind(TagAt(doc, i))
      step == IF kind = "object" THEN 1 ELSE 0
      at == Starts(doc, i + 1, ContainerEnd(doc, i), step)
  IN CASE kind = "string" -> Node(kind, StringAt(doc, i), <<>>, <<>>, <<>>)
       [] kind = "number" -> Node(kind, <<>>, Float(doc, i), <<>>, <<>>)
       [] kind \in {"array", "object"} ->
            IF Len(at) # ContainerCount(doc, i) THEN Invalid
            ELSE Node(kind, <<>>, <<>>,
                      IF step = 1 THEN [k \in 1..Len(at) |-> StringAt(doc, at[k])] ELSE <<>>,
                      [k \in 1..Len(at) |-> ReadValue(doc, at[k] + step)])
       [] OTHER -> Node(kind, <<>>, <<>>, <<>>, <<>>)

\* Get(k) and Index(i) of the root; Invalid when there is none.
Field(doc, key) ==
  LET at == Starts(doc, 1, ContainerEnd(doc, 0), 1)
      hit == {k \in 1..Len(at) : StringAt(doc, at[k]) = key}
  IN IF hit = {} THEN Invalid ELSE ReadValue(doc, at[Min(hit)] + 1)
\* A negative index taken without the count.
BugIndex(doc, i) ==
  LET at == Starts(doc, 1, ContainerEnd(doc, 0), 0)
  IN IF i \in 0..Len(at) - 1 THEN ReadValue(doc, at[i + 1]) ELSE Invalid

Index(doc, i) ==
  LET at == Starts(doc, 1, ContainerEnd(doc, 0), 0)
      k == IF i < 0 THEN i + ContainerCount(doc, 0) ELSE i
  IN IF k \in 0..Len(at) - 1 THEN ReadValue(doc, at[k + 1]) ELSE Invalid

\* appendJSONString without the escaping of a backslash.
BugAppendJSONString(text) ==
  <<Quote>> \o FlattenSeq([k \in 1..Len(text) |->
     IF text[k] = Quote THEN <<Slash, Quote>> ELSE IF text[k] = Ctl THEN <<Slash, "n">> ELSE <<text[k]>>])
  \o <<Quote>>

\* appendJSONString: quote, backslash and control bytes are escaped.
AppendJSONString(text) ==
  <<Quote>> \o FlattenSeq([k \in 1..Len(text) |->
     CASE text[k] = Quote -> <<Slash, Quote>> [] text[k] = Slash -> <<Slash, Slash>>
       [] text[k] = Ctl -> <<Slash, "n">> [] OTHER -> <<text[k]>>])
  \o <<Quote>>

\* strconv.AppendFloat and AppendInt: a text that denotes the same number.
RECURSIVE NatText(_)
NatText(n) ==
  LET d == CHOOSE c \in Hex : hexVal[c] = n % 10
  IN IF n < 10 THEN <<d>> ELSE NatText(n \div 10) \o <<d>>
Signed(n) == IF n < 0 THEN <<"-">> \o NatText(-n) ELSE NatText(n)
NumberText(w) ==
  IF w.tag = "inf" THEN <<"I", "n", "f">> ELSE Signed(w.a) \o (IF w.b = 0 THEN <<>> ELSE <<"e">> \o Signed(w.b))

Joined(parts) ==
  FlattenSeq([k \in 1..Len(parts) |-> IF k = 1 THEN parts[k] ELSE <<",">> \o parts[k]])

\* appendTapeJSON: the text of the value at i.
RECURSIVE TapeJSON(_, _)
TapeJSON(doc, i) ==
  LET tag == TagAt(doc, i)
      obj == tag = "{"
      at == Starts(doc, i + 1, ContainerEnd(doc, i), IF obj THEN 1 ELSE 0)
  IN CASE tag \in DOMAIN Literal -> Literal[tag]
       [] tag \in {"l", "u", "d"} -> NumberText(doc.tape[i + 2])
       [] tag = "D" -> StringAt(doc, i)
       [] tag \in {"R", "S"} -> <<Quote>> \o StringAt(doc, i) \o <<Quote>>
       [] tag = Quote -> AppendJSONString(StringAt(doc, i))
       [] tag = "[" -> <<"[">> \o Joined([k \in 1..Len(at) |-> TapeJSON(doc, at[k])]) \o <<"]">>
       [] tag = "{" -> <<"{">> \o Joined([k \in 1..Len(at) |->
              AppendJSONString(StringAt(doc, at[k])) \o <<":">> \o TapeJSON(doc, at[k] + 1)]) \o <<"}">>
       [] OTHER -> <<>>

---------------------------------------------------------------------------
(* value.Raw: the value is the text b.  An offset of -1 is a syntax error. *)

RECURSIVE RawString(_, _)
RawString(b, i) ==
  LET c == At(b, i)
      e == At(b, i + 1)
  IN CASE i >= Len(b) \/ c = Ctl -> -1
       [] i < Len(b) /\ c = Quote -> i + 1
       [] i < Len(b) /\ c = Slash /\ e \in DOMAIN simpleEscape -> RawString(b, i + 2)
       [] i < Len(b) /\ c = Slash /\ e = "u" -> IF Hex4(b, i + 2) < 0 THEN -1 ELSE RawString(b, i + 6)
       [] i < Len(b) /\ c = Slash /\ e \notin DOMAIN simpleEscape \cup {"u"} -> -1
       [] OTHER -> RawString(b, i + 1)

\* A number whose leading zeros are let through.
BugRawNumber(b, i) ==
  LET d == IF At(b, i) = "-" THEN i + 1 ELSE i
      f == FracPart(b, Digits(b, d))
      e == ExpPart(b, f.at)
  IN IF IsDigit(At(b, d)) /\ f.ok /\ e.ok THEN e.at ELSE -1

\* scanNumber: a number ends where its grammar does.
RawNumber(b, i) ==
  LET d == IF At(b, i) = "-" THEN i + 1 ELSE i
      p == IF At(b, d) = "0" THEN d + 1 ELSE Digits(b, d)
      f == FracPart(b, p)
      e == ExpPart(b, f.at)
  IN IF IsDigit(At(b, d)) /\ f.ok /\ e.ok THEN e.at ELSE -1

\* The value of the member whose key ends at k, or the end of the text.
ValueFrom(b, k) ==
  LET colon == SkipWS(b, k)
  IN IF k < 0 \/ At(b, colon) # ":" THEN Len(b) ELSE SkipWS(b, colon + 1)
KeyEnd(b, i) == IF At(b, i) = Quote THEN RawString(b, i + 1) ELSE -1

\* scanValue, with scanObject and scanArray: a member list loop, RawRest past
\* the member that ends at v.
RECURSIVE RawValue(_, _), RawItems(_, _, _), RawRest(_, _, _)
RawValue(b, i) ==
  LET c == At(b, i)
      first == SkipWS(b, i + 1)
  IN CASE i >= Len(b) -> -1
       [] c = "{" -> IF At(b, first) = "}" THEN first + 1 ELSE RawItems(b, first, TRUE)
       [] c = "[" -> IF At(b, first) = "]" THEN first + 1 ELSE RawItems(b, first, FALSE)
       [] c = Quote -> RawString(b, i + 1)
       [] c \in DOMAIN Literal ->
            IF Cut(b, i, Min({i + Len(Literal[c]), Len(b)})) = Literal[c] THEN i + Len(Literal[c]) ELSE -1
       [] c = "-" \/ IsDigit(c) -> RawNumber(b, i)
       [] OTHER -> -1
RawItems(b, i, obj) == RawRest(b, RawValue(b, IF obj THEN ValueFrom(b, KeyEnd(b, i)) ELSE i), obj)
RawRest(b, v, obj) ==
  LET next == SkipWS(b, v)
  IN CASE v < 0 -> -1
       [] v >= 0 /\ At(b, next) = "," -> RawItems(b, SkipWS(b, next + 1), obj)
       [] v >= 0 /\ At(b, next) = (IF obj THEN "}" ELSE "]") -> next + 1
       [] OTHER -> -1

\* Raw.Valid.
RawValid(b) ==
  LET end == RawValue(b, SkipWS(b, 0))
  IN end # -1 /\ SkipWS(b, end) = Len(b)

\* ForEachKey and ForEachElem: <<key from, key to, value from, value to>>.
RECURSIVE RawMembers(_, _, _), RawMember(_, _, _)
RawMembers(b, j, obj) ==
  LET i == SkipWS(b, j)
      k == IF obj THEN KeyEnd(b, i) ELSE i
      from == IF obj THEN ValueFrom(b, k) ELSE i
  IN RawMember(b, <<i, k, from, RawValue(b, from)>>, obj)
RawMember(b, m, obj) ==
  LET next == SkipWS(b, m[4])
  IN IF m[4] < 0 THEN <<>>
     ELSE <<m>> \o (IF At(b, next) = "," THEN RawMembers(b, next + 1, obj) ELSE <<>>)

\* decodeUnicodeEscape: the rune of the \u escape whose u is at s[i], and
\* the offset after it; only a high surrogate before a low one is a pair.
UnicodeEscape(s, i) ==
  LET r1 == Hex4(s, i + 1)
      pair == At(s, i + 5) = Slash /\ At(s, i + 6) = "u"
      r2 == IF pair THEN Hex4(s, i + 7) ELSE -1
  IN CASE ~(IsHigh(r1) \/ IsLow(r1)) -> [sym |-> RuneSym(r1), next |-> i + 5]
       [] IsHigh(r1) /\ IsLow(r2) ->
            [sym |-> RuneSym((r1 - 55296) * 1024 + (r2 - 56320) + 65536), next |-> i + 11]
       [] OTHER -> [sym |-> RuneSym(RuneError), next |-> i + 5]

\* unquote: the decoded string whose body starts at b[i].
RECURSIVE Unquote(_, _)
Unquote(b, i) ==
  LET u == UnicodeEscape(b, i + 1)
  IN CASE At(b, i) = Quote -> <<>>
       [] At(b, i) = Slash /\ At(b, i + 1) = "u" -> <<u.sym>> \o Unquote(b, u.next)
       [] At(b, i) = Slash /\ At(b, i + 1) # "u" -> <<simpleEscape[At(b, i + 1)]>> \o Unquote(b, i + 2)
       [] OTHER -> <<At(b, i)>> \o Unquote(b, i + 1)

\* The value at b[i] through Type, Str, Float, ForEachKey and ForEachElem.
RECURSIVE ReadRaw(_, _), ReadMembers(_, _, _)
ReadMembers(b, obj, at) ==
  Node(IF obj THEN "object" ELSE "array", <<>>, <<>>,
       IF obj THEN [k \in 1..Len(at) |-> Unquote(b, at[k][1] + 1)] ELSE <<>>,
       [k \in 1..Len(at) |-> ReadRaw(b, at[k][3])])
ReadRaw(b, j) ==
  LET i == SkipWS(b, j)
      c == At(b, i)
      first == SkipWS(b, i + 1)
  IN CASE c = Quote -> Node("string", Unquote(b, i + 1), <<>>, <<>>, <<>>)
       [] c \in DOMAIN Literal -> Node(Kind(c), <<>>, <<>>, <<>>, <<>>)
       [] c = "-" \/ IsDigit(c) -> Node("number", <<>>, ParseFloat(Cut(b, i, RawNumber(b, i))), <<>>, <<>>)
       [] c \in {"[", "{"} ->
            ReadMembers(b, c = "{", IF At(b, first) \in {"}", "]"} THEN <<>> ELSE RawMembers(b, first, c = "{"))
       [] OTHER -> Invalid

=============================================================================
