------------------------------- MODULE GoTape -------------------------------
(***************************************************************************)
(* The tape builder and the validation walk of the pure-Go engine          *)
(* (internal/gdec/tape.go), which run over the structural index of GoLex.  *)
(* They are one walker: the validation walk is the walker without a tape.  *)
(*                                                                         *)
(* A tape word is a record of a tag and two payload fields: a container's  *)
(* begin word has its end index and member count, a string or kept number  *)
(* its arena offset and length, and the word after an l, u or d tag has    *)
(* the value.  A real value is mantissa * 10^exponent.                     *)
(***************************************************************************)
EXTENDS GoLocate

CONSTANTS MaxDepth,    \* containers open at once (256 in the code)
          IntBits,     \* width of an integer (64)
          UintDigits,  \* digits of the largest unsigned integer (20)
          MaxExp,      \* largest decimal exponent of a double (308)
          MinExp       \* largest negative exponent before it is zero (342)

ASSUME WidthAssumption ==
  /\ 10^(UintDigits - 1) < 2^IntBits /\ 2^IntBits <= 2 * 10^(UintDigits - 1)
  /\ 2^(IntBits - 1) < 10^(UintDigits - 1)

Word(tag, a, b) == [tag |-> tag, a |-> a, b |-> b]
MaxInt == 2^(IntBits - 1) - 1

\* The offset of structural k; the sentinels past the index address the end.
Off(w, k) == IF k < Len(w.idx) THEN w.idx[k + 1] ELSE Len(w.src)
Peek(w) == At(w.src, Off(w, w.ip))

\* The word and arena bytes a visited token adds, or its refusal.
Put(w, words, bytes) == [w EXCEPT !.tape = @ \o words, !.str = @ \o bytes]
Fail(w) == [w EXCEPT !.st = "fail"]
StoreText(w, tag, from, to, more) ==
  Put(w, <<Word(tag, Len(w.str), to - from)>> \o more, Append(Cut(w.src, from, to), " "))

\* The decoded string d in the arena; its tag tells the copying parser's
\* strings without an escape.
StoreDecoded(w, d) ==
  IF ~d.ok THEN Fail(w)
  ELSE Put(w, <<Word(IF w.how = "zc" \/ d.esc THEN Quote ELSE "S", Len(w.str), Len(d.out))>>, Append(d.out, Quote))

\* visitString: the string opening at src[open].
VisitString(w, open) ==
  LET end == QuoteOrEscape(w.src, open + 1)
  IN CASE w.how = "valid" -> IF ScanString(w.src, open + 1).ok THEN w ELSE Fail(w)
       [] w.how = "zc" /\ At(w.src, end) = Quote -> Put(w, <<Word("R", open + 1, end - (open + 1))>>, <<>>)
       [] OTHER -> StoreDecoded(w, DecodeString(w.src, open + 1, <<>>, FALSE))

\* The magnitude the digits of src[from:to] leave in an integer register.
Magnitude(src, from, to) ==
  LET f[k \in from..to] ==
        IF k = from THEN 0
        ELSE IF At(src, k - 1) = "." THEN f[k - 1]
        ELSE (10 * f[k - 1] + hexVal[At(src, k - 1)]) % 2^IntBits
  IN f[to]

\* The wrapped magnitude of a longest unsigned token goes unnoticed.
BugTooWide(src, o, p, neg, i) ==
  LET digits == p - o - (IF neg THEN 1 ELSE 0)
      longest == IF neg THEN UintDigits - 1 ELSE UintDigits
  IN digits > longest \/ (digits = longest /\ IF neg THEN i > MaxInt + 1 ELSE At(src, o) # "1")

\* Whether the integer src[o:p] of register value i is out of range: by its
\* digit count, or for the longest tokens by the wrap of the register.
TooWide(src, o, p, neg, i) ==
  LET digits == p - o - (IF neg THEN 1 ELSE 0)
      longest == IF neg THEN UintDigits - 1 ELSE UintDigits
  IN \/ digits > longest
     \/ digits = longest /\ IF neg THEN i > MaxInt + 1 ELSE At(src, o) # "1" \/ i <= MaxInt

VisitInt(w, o, p, neg, i) ==
  IF TooWide(w.src, o, p, neg, i) THEN StoreText(w, "D", o, p, <<>>)
  ELSE IF i > MaxInt /\ ~neg THEN Put(w, <<Word("u", 0, 0), Word("v", i, 0)>>, <<>>)
  ELSE Put(w, <<Word("l", 0, 0), Word("v", IF neg THEN -i ELSE i, 0)>>, <<>>)

\* The binary value of a real token, trailing zeros moved to the exponent;
\* the conversion's range error is dropped and leaves an infinity.
RealValue(i, exp, neg) ==
  IF i = 0 \/ exp < -MinExp \/ exp > MaxExp THEN Word("v", 0, 0)
  ELSE IF exp >= 0 /\ i * 10^exp > 18 * 10^(MaxExp - 1) THEN Word("inf", 0, 0)
  ELSE LET z == Max({k \in 0..UintDigits : i % 10^k = 0})
       IN Word("v", (IF neg THEN -1 ELSE 1) * (i \div 10^z), exp + z)

\* A real token src[o:p]: too many significant digits or too large an
\* exponent keeps it as text.
VisitReal(w, o, p, sd, digitsEnd, i, exp, neg) ==
  LET lead == Min({k \in sd..digitsEnd : At(w.src, k) \notin {"0", "."}})
      long == digitsEnd - sd > UintDigits - 1 /\ (digitsEnd - sd) - (lead - sd) > UintDigits - 1
  IN IF long \/ (exp > MaxExp /\ i # 0) THEN StoreText(w, "D", o, p, <<>>)
     ELSE StoreText(w, "d", o, p, <<RealValue(i, exp, neg)>>)

\* The value of the digits of src[from:to], a point among them passed over.
DigitsValue(src, from, to) ==
  LET f[k \in from..to] ==
        IF k = from THEN 0
        ELSE IF At(src, k - 1) = "." THEN f[k - 1] ELSE 10 * f[k - 1] + hexVal[At(src, k - 1)]
  IN f[to]

\* The decimal exponent of the number token n, its fraction digits deducted.
ExponentOf(src, n) ==
  LET down == At(src, n.frac + 1) = "-"
      written == IF n.at = n.frac THEN 0
                 ELSE (IF down THEN -1 ELSE 1) * DigitsValue(src, n.frac + (IF down THEN 2 ELSE 1), n.at)
  IN written - (IF n.frac = n.int THEN 0 ELSE n.frac - n.int - 1)

\* visitNumber, and ValidNumber in the validation walk: the token n at src[o].
VisitToken(w, o, n) ==
  LET neg == At(w.src, o) = "-"
      i == Magnitude(w.src, n.from, n.frac)
  IN IF ~n.ok \/ IsNonDelim(At(w.src, n.at)) THEN Fail(w)
     ELSE IF w.how = "valid" THEN w
     ELSE IF n.at = n.int THEN VisitInt(w, o, n.at, neg, i)
     ELSE VisitReal(w, o, n.at, n.from, n.frac, i, ExponentOf(w.src, n), neg)
VisitNumber(w, o) == VisitToken(w, o, NumberToken(w.src, o))

\* visitPrimitive: the token at the next structural.
VisitPrimitive(v) ==
  LET o == Off(v, v.ip)
      c == At(v.src, o)
      w == [v EXCEPT !.ip = @ + 1]
  IN CASE c = Quote -> VisitString(w, o)
       [] c = "-" \/ IsDigit(c) -> VisitNumber(w, o)
       [] c \in DOMAIN Literal ->
            IF ~ValidAtom(w.src, o).ok THEN Fail(w)
            ELSE IF w.how = "valid" THEN w ELSE Put(w, <<Word(c, 0, 0)>>, <<>>)
       [] OTHER -> Fail(w)

\* push: a new open container; its begin word is written when it closes.
Push(w, arr) ==
  IF w.depth + 1 >= MaxDepth THEN Fail(w)
  ELSE [Put(w, IF w.how = "valid" THEN <<>> ELSE <<Word("open", 0, 0)>>, <<>>) EXCEPT
          !.stack = IF w.depth >= 0 THEN SubSeq(@, 1, w.depth) \o <<w.cur>> ELSE <<>>,
          !.depth = @ + 1,
          !.cur = [tidx |-> Len(w.tape), arr |-> arr, cnt |-> 1]]

\* pop: patches the begin word; the outer container is current again unless
\* the root has closed, which leaves the root's own record current.
Pop(w) ==
  LET beg == IF w.cur.arr THEN "[" ELSE "{"
      s == w.cur.tidx
      t == IF w.how = "valid" THEN w
           ELSE [w EXCEPT !.tape = Append([@ EXCEPT ![s + 1] = Word(beg, Len(w.tape), w.cur.cnt)],
                                          Word(IF w.cur.arr THEN "]" ELSE "}", s, 0))]
  IN [t EXCEPT !.depth = @ - 1,
               !.cur = IF w.depth - 1 >= 0 THEN w.stack[w.depth] ELSE @,
               !.st = "scopeEnd"]

\* The key and its colon.
Key(v) ==
  LET k == Off(v, v.ip)
      w == VisitString([v EXCEPT !.ip = @ + 2], k)
  IN IF At(v.src, k) # Quote \/ At(v.src, Off(v, v.ip + 1)) # ":" THEN Fail(v) ELSE w

Empty(w, c) ==
  LET s == Len(w.tape)
      t == [w EXCEPT !.ip = @ + 2]
  IN IF w.how = "valid" THEN t ELSE Put(t, <<Word(c, s + 1, 0), Word(IF c = "[" THEN "]" ELSE "}", s, 0)>>, <<>>)

\* A value in field, element or root position; cont is the state after it.
Value(w, cont) ==
  LET c == Peek(w)
      next == At(w.src, Off(w, w.ip + 1))
      Then(v, st) == IF v.st = "fail" THEN v ELSE [v EXCEPT !.st = st]
  IN CASE (c = "{" /\ next = "}") \/ (c = "[" /\ next = "]") -> Then(Empty(w, c), cont)
       [] c = "{" /\ next # "}" -> [w EXCEPT !.ip = @ + 1, !.st = "objBegin"]
       [] c = "[" /\ next # "]" -> [w EXCEPT !.ip = @ + 1, !.st = "arrBegin"]
       [] OTHER -> Then(VisitPrimitive(w), cont)

\* The continuation of an object or array after one member.
Continue(v, arr) ==
  LET c == Peek(v)
      w == [v EXCEPT !.ip = @ + 1]
      more == [w EXCEPT !.cur.cnt = @ + 1]
      To(u, st) == IF u.st = "fail" THEN u ELSE [u EXCEPT !.st = st]
  IN CASE c = "," -> IF arr THEN To(more, "arrValue") ELSE To(Key(more), "objField")
       [] c = (IF arr THEN "]" ELSE "}") -> Pop(w)
       [] c = " " -> [w EXCEPT !.st = "docEnd"]
       [] OTHER -> Fail(w)

\* Where the walker goes from a value's position, past the value.
After == [root |-> "docEnd", objField |-> "objCont", arrValue |-> "arrCont"]

\* One state of the walker's loop; an index without structurals fails at the
\* root.
WalkStep(w) ==
  LET To(u, st) == IF u.st = "fail" THEN u ELSE [u EXCEPT !.st = st]
      n == Len(w.idx)
  IN CASE w.st \in DOMAIN After -> IF n = 0 THEN Fail(w) ELSE Value(w, After[w.st])
       [] w.st = "objBegin" -> LET p == Push(w, FALSE) IN IF p.st = "fail" THEN p ELSE To(Key(p), "objField")
       [] w.st = "arrBegin" -> To(Push(w, TRUE), "arrValue")
       [] w.st \in {"objCont", "arrCont"} -> Continue(w, w.st = "arrCont")
       [] w.st = "scopeEnd" -> [w EXCEPT !.st = IF w.cur.arr THEN "arrCont" ELSE "objCont"]
       [] OTHER -> IF w.depth = -1 /\ w.ip \in {n, n + 1} THEN [w EXCEPT !.st = "ok"] ELSE Fail(w)

RECURSIVE Run(_)
Run(w) == IF w.st \in {"ok", "fail"} THEN w ELSE Run(WalkStep(w))

\* BuildTape (how = "copy", "zc") and ValidWalk (how = "valid").
Walk(src, idx, how) ==
  Run([src |-> src, idx |-> idx, how |-> how, ip |-> 0, tape |-> <<>>, str |-> <<>>, depth |-> -1,
       cur |-> [tidx |-> 0, arr |-> FALSE, cnt |-> 0], stack |-> <<>>, st |-> "root"])

\* The bound that counts the words of scalars only.
BugTapeNeed(n, scalars) == 2 * scalars + 3

\* TapeNeed: the tape words a scan of n structurals may need.
TapeNeed(n, scalars) == n + scalars + 3

\* vjson.Valid.
Valid(src) ==
  LET s == Scan(src, "ctl")
  IN Len(src) > 0 /\ s.ok /\ Walk(src, s.idx, "valid").st = "ok"

=============================================================================
