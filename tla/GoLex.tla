------------------------------- MODULE GoLex --------------------------------
(***************************************************************************)
(* The lexical primitives of the pure-Go decode engine (internal/gdec):    *)
(* the structural scan and its index-free verdicts, the resumable extent   *)
(* scan, the error locator, the string decoder and the number lexer.       *)
(*                                                                         *)
(* A text is a sequence of symbols.  A symbol is one source byte, except   *)
(* for three classes that share one symbol each: " " every whitespace      *)
(* byte, "^" every other control byte, "L"/"C" the lead and continuation   *)
(* byte of a two-byte UTF-8 sequence.  A decoded \uXXXX is one symbol too  *)
(* (RuneSym), the UTF-8 bytes of its rune taken together.  Offsets are     *)
(* 0-based, as in the code, and a read past the end sees whitespace.       *)
(***************************************************************************)
EXTENDS Integers, Sequences, FiniteSets, FiniteSetsExt, SequencesExt, TLC

Quote == "\""
Slash == "\\"
Ctl   == "^"
Lead  == "L"
Cont  == "C"
Ops   == {"{", "}", "[", "]", ",", ":"}
Modes == {"lax", "ctl", "strict"}

\* The value of each hexadecimal digit symbol, and the digits among them.
hexVal == [c \in {"0", "1", "8", "c", "d", "e"} |->
             CASE c = "0" -> 0 [] c = "1" -> 1 [] c = "8" -> 8
               [] c = "c" -> 12 [] c = "d" -> 13 [] c = "e" -> 14]
Hex == DOMAIN hexVal
IsDigit(c) == c \in {"0", "1", "8"}

IsNonDelim(c) == c \notin {" ", "{", "}", "[", "]", ","}

At(src, i) == IF 0 <= i /\ i < Len(src) THEN src[i + 1] ELSE " "

\* src[i:j]
Cut(src, i, j) == SubSeq(src, i + 1, j)

\* Every UTF-8 lead byte has its continuation byte, and only it has one.
Utf8Valid(src) ==
  \A i \in 0..Len(src) - 1 :
    /\ src[i + 1] = Lead => i + 1 < Len(src) /\ src[i + 2] = Cont
    /\ src[i + 1] = Cont => i > 0 /\ src[i] = Lead

SkipWS(src, i) == Min({k \in i..Len(src) - 1 : src[k + 1] # " "} \cup {Max({i, Len(src)})})

---------------------------------------------------------------------------
(* The structural scan (scan.go).                                          *)

\* Scan with the dropped escape carry of a backslash outside a string.
BugScanByte(p, c, i) ==
  LET quote == c = Quote /\ ~p.esc
  IN [in   |-> IF quote THEN ~p.in ELSE p.in,
      esc  |-> p.in /\ c = Slash /\ ~p.esc,
      sw   |-> quote \/ c = " " \/ (~p.in /\ c \in Ops),
      ctl  |-> p.ctl \/ (p.in /\ ~quote /\ c = Ctl),
      idx  |-> IF ~p.in /\ (quote \/ c \in Ops \/ (c # " " /\ p.sw)) THEN Append(p.idx, i) ELSE p.idx,
      scal |-> p.scal + (IF ~p.in /\ ~quote /\ c \notin Ops \cup {" "} /\ p.sw THEN 1 ELSE 0)]

\* One byte of Scan: escapes resolve by backslash-run parity inside and
\* outside strings; idx collects operators, opening quotes, scalar starts.
ScanByte(p, c, i) ==
  LET quote == c = Quote /\ ~p.esc
  IN [in   |-> IF quote THEN ~p.in ELSE p.in,
      esc  |-> c = Slash /\ ~p.esc,
      sw   |-> quote \/ c = " " \/ (~p.in /\ c \in Ops),
      ctl  |-> p.ctl \/ (p.in /\ ~quote /\ c = Ctl),
      idx  |-> IF ~p.in /\ (quote \/ c \in Ops \/ (c # " " /\ p.sw)) THEN Append(p.idx, i) ELSE p.idx,
      scal |-> p.scal + (IF ~p.in /\ ~quote /\ c \notin Ops \cup {" "} /\ p.sw THEN 1 ELSE 0)]

ScanBytes(src) ==
  LET f[i \in 0..Len(src)] ==
        IF i = 0 THEN [in |-> FALSE, esc |-> FALSE, sw |-> TRUE, ctl |-> FALSE, idx |-> <<>>, scal |-> 0]
        ELSE LET p == f[i - 1] IN ScanByte(p, src[i], i - 1)
  IN f[Len(src)]
Verdict(src, mode, end) ==
  [ok |-> /\ ~end.in
          /\ mode # "lax" => ~end.ctl
          /\ mode = "strict" => Utf8Valid(src),
   idx |-> end.idx, scalars |-> end.scal]
Scan(src, mode) == Verdict(src, mode, ScanBytes(src))

\* The first quote or backslash at or past i, or the end.
QuoteOrEscape(src, i) == Min({k \in i..Len(src) - 1 : src[k + 1] \in {Quote, Slash}} \cup {Len(src)})

HasCtl(src, i, j) == \E k \in i..j - 1 : At(src, k) = Ctl

RECURSIVE CheckFrom(_, _, _), CheckBody(_, _, _)
CheckFrom(src, i, ctl) ==
  LET k == QuoteOrEscape(src, i)
  IN CASE k >= Len(src) -> TRUE
       [] At(src, k) = Slash /\ k < Len(src) -> CheckFrom(src, k + 2, ctl)
       [] OTHER -> CheckBody(src, k + 1, ctl)
CheckBody(src, j, ctl) ==
  LET k == QuoteOrEscape(src, j)
  IN /\ ~(ctl /\ HasCtl(src, j, k))
     /\ k < Len(src)
     /\ IF At(src, k) = Quote THEN CheckFrom(src, k + 1, ctl)
        ELSE /\ k + 2 <= Len(src)
             /\ ~(ctl /\ At(src, k + 1) = Ctl)
             /\ CheckBody(src, k + 2, ctl)

\* Check: Scan's verdict without the index.
Check(src, mode) == CheckFrom(src, 0, mode # "lax") /\ (mode = "strict" => Utf8Valid(src))

RECURSIVE StringEnd(_, _)
StringEnd(src, i) ==
  LET k == QuoteOrEscape(src, i)
  IN CASE k >= Len(src) -> [at |-> Len(src), ok |-> FALSE]
       [] At(src, k) = Quote -> [at |-> k, ok |-> TRUE]
       [] OTHER -> StringEnd(src, k + 2)

RECURSIVE ScalarEnd(_, _)
ScalarEnd(src, i) ==
  CASE i >= Len(src) -> Len(src)
    [] At(src, i) \in Ops \cup {" ", Quote} -> i
    [] At(src, i) = Slash /\ At(src, i + 1) \in {Quote, Slash} -> ScalarEnd(src, i + 2)
    [] OTHER -> ScalarEnd(src, i + 1)

\* The end of the structural token at src[o].
TokenEnd(src, o) ==
  CASE o >= Len(src) -> [at |-> o, ok |-> TRUE]
    [] At(src, o) \in Ops -> [at |-> o + 1, ok |-> TRUE]
    [] At(src, o) = Quote -> [StringEnd(src, o + 1) EXCEPT !.at = @ + 1]
    [] OTHER -> [at |-> ScalarEnd(src, o), ok |-> TRUE]

---------------------------------------------------------------------------
(* The resumable extent scan (extent.go).                                  *)

NewExtent(pos) == [pos |-> pos, depth |-> 0, started |-> FALSE, scalar |-> FALSE,
                   inStr |-> FALSE, esc |-> FALSE]
More(s) == [done |-> FALSE, end |-> 0, s |-> s]
EndAt(i, s) == [done |-> TRUE, end |-> i, s |-> s]

\* The resumed scan that forgets a backslash at the end of the last window.
BugExtentSave(b, i, depth, inStr, s) ==
  More([s EXCEPT !.esc = FALSE, !.pos = Min({i, Len(b)}), !.depth = depth, !.inStr = inStr])

\* What a window that ends before the value saves; a backslash ending it
\* leaves i one past the end, and the escaped byte opens the next window.
ExtentSave(b, i, depth, inStr, s) ==
  More([s EXCEPT !.esc = i > Len(b), !.pos = Min({i, Len(b)}), !.depth = depth, !.inStr = inStr])

\* The walk over quotes, backslashes and brackets; the word loop and the
\* byte loop of the code take the same ones in the same order.
RECURSIVE ExtentWalk(_, _, _, _, _)
ExtentWalk(b, i, depth, inStr, s) ==
  IF i >= Len(b) THEN ExtentSave(b, i, depth, inStr, s)
  ELSE LET c == At(b, i)
           d == IF c \in {"{", "["} THEN depth + 1 ELSE IF c \in {"}", "]"} THEN depth - 1 ELSE depth
       IN CASE inStr /\ c = Slash -> ExtentWalk(b, i + 2, depth, TRUE, s)
            [] c = Quote /\ inStr /\ depth = 0 -> EndAt(i + 1, s)
            [] c = Quote -> ExtentWalk(b, i + 1, depth, ~inStr, s)
            [] inStr -> ExtentWalk(b, i + 1, depth, TRUE, s)
            [] c \in {"}", "]"} /\ d = 0 -> EndAt(i + 1, s)
            [] OTHER -> ExtentWalk(b, i + 1, d, FALSE, s)

ScalarExtent(b, i, eof, s) ==
  LET k == Min({j \in i..Len(b) - 1 : ~IsNonDelim(At(b, j))} \cup {Max({i, Len(b)})})
  IN IF k < Len(b) THEN EndAt(k, s)
     ELSE IF eof THEN EndAt(Len(b), s) ELSE More([s EXCEPT !.pos = k])

ExtentResume(b, i, eof, s) ==
  IF s.scalar THEN ScalarExtent(b, i, eof, s)
  ELSE ExtentWalk(b, IF s.esc THEN i + 1 ELSE i, s.depth, s.inStr, s)

\* ExtentScanner.Scan over the window b.
ExtentScan(b, eof, s) ==
  LET c == At(b, s.pos)
      t == [s EXCEPT !.started = TRUE, !.inStr = c = Quote, !.depth = IF c \in {"{", "["} THEN 1 ELSE 0,
                     !.scalar = c \notin {Quote, "{", "[", "}", "]", ","}]
  IN CASE s.started -> ExtentResume(b, s.pos, eof, s)
       [] ~s.started /\ s.pos >= Len(b) -> More(s)
       [] ~s.started /\ s.pos < Len(b) /\ c \in {"}", "]", ","} -> EndAt(s.pos + 1, t)
       [] OTHER -> ExtentResume(b, s.pos + 1, eof, t)

---------------------------------------------------------------------------
(* Strings (str.go).                                                       *)

simpleEscape == [c \in {Quote, Slash, "n", "t"} |-> IF c \in {"n", "t"} THEN Ctl ELSE c]

\* hex4: the value of four hexadecimal digits, -1 when one is none.
Hex4(src, i) ==
  IF \A k \in 0..3 : At(src, i + k) \in Hex
  THEN ((hexVal[At(src, i)] * 16 + hexVal[At(src, i + 1)]) * 16 + hexVal[At(src, i + 2)]) * 16
         + hexVal[At(src, i + 3)]
  ELSE -1

RECURSIVE ScanString(_, _)
ScanString(src, i) ==
  LET k == QuoteOrEscape(src, i)
      c == At(src, k + 1)
  IN CASE k >= Len(src) -> [at |-> Len(src), ok |-> FALSE]
       [] k < Len(src) /\ At(src, k) = Quote -> [at |-> k, ok |-> TRUE]
       [] k < Len(src) /\ At(src, k) = Slash /\ c = "u" ->
            IF Hex4(src, k + 2) < 0 THEN [at |-> k, ok |-> FALSE] ELSE ScanString(src, k + 6)
       [] OTHER -> IF c \in DOMAIN simpleEscape THEN ScanString(src, k + 2) ELSE [at |-> k, ok |-> FALSE]

\* One rune as a symbol: control runes are the control symbol.
RuneSym(v) == IF v < 32 THEN Ctl ELSE ToString(1000 + v)
RuneError == 65533
IsHigh(v) == v \in 55296..56319
IsLow(v)  == v \in 56320..57343

\* DecodeEscape: the escape at src[i]; a lone surrogate is U+FFFD.
DecodeEscape(src, i) ==
  LET c == At(src, i + 1)
      r == Hex4(src, i + 2)
      lo == IF At(src, i + 6) = Slash /\ At(src, i + 7) = "u" THEN Hex4(src, i + 8) ELSE -1
  IN CASE c # "u" /\ c \in DOMAIN simpleEscape -> [next |-> i + 2, sym |-> simpleEscape[c], ok |-> TRUE]
       [] c # "u" /\ c \notin DOMAIN simpleEscape -> [next |-> i, sym |-> Ctl, ok |-> FALSE]
       [] c = "u" /\ r < 0 -> [next |-> i, sym |-> Ctl, ok |-> FALSE]
       [] c = "u" /\ IsHigh(r) /\ IsLow(lo) ->
            [next |-> i + 12, sym |-> RuneSym((r - 55296) * 1024 + (lo - 56320) + 65536), ok |-> TRUE]
       [] c = "u" /\ (IsLow(r) \/ (IsHigh(r) /\ ~IsLow(lo))) ->
            [next |-> i + 6, sym |-> RuneSym(RuneError), ok |-> TRUE]
       [] OTHER -> [next |-> i + 6, sym |-> RuneSym(r), ok |-> TRUE]

\* AppendString and DecodeString: the decoded body at src[i] after out.
RECURSIVE DecodeString(_, _, _, _), DecodeRest(_, _, _, _, _)
DecodeString(src, i, out, esc) ==
  LET j == QuoteOrEscape(src, i)
      run == out \o Cut(src, i, j)
  IN IF At(src, j) = Slash THEN DecodeRest(src, j, run, esc, DecodeEscape(src, j))
     ELSE [out |-> run, end |-> j, esc |-> esc, ok |-> j < Len(src)]
\* Past the escape e at src[j].
DecodeRest(src, j, run, esc, e) ==
  IF e.ok THEN DecodeString(src, e.next, Append(run, e.sym), TRUE)
  ELSE [out |-> run, end |-> j, esc |-> esc, ok |-> FALSE]

---------------------------------------------------------------------------
(* Literals and numbers (tape.go ValidAtom, number.go ValidNumber).        *)

Literal == [c \in {"t", "n"} |-> IF c = "t" THEN <<"t", "r", "u", "e">> ELSE <<"n", "u", "l", "l">>]

ValidAtom(src, o) ==
  LET lit == Literal[At(src, o)]
      end == o + Len(lit)
  IN [at |-> end, ok |-> end <= Len(src) /\ Cut(src, o, end) = lit /\ ~IsNonDelim(At(src, end))]

Digits(src, p) == Min({k \in p..Len(src) - 1 : ~IsDigit(At(src, k))} \cup {Max({p, Len(src)})})

\* A number whose leading zeros are let through.
BugIntPart(src, o) ==
  LET d == IF At(src, o) = "-" THEN o + 1 ELSE o
      p == Digits(src, d)
  IN [from |-> d, at |-> p, ok |-> p > d]

IntPart(src, o) ==
  LET d == IF At(src, o) = "-" THEN o + 1 ELSE o
      p == Digits(src, d)
  IN [from |-> d, at |-> p, ok |-> p > d /\ ~(At(src, d) = "0" /\ p > d + 1)]
FracPart(src, p) ==
  IF At(src, p) # "." THEN [at |-> p, ok |-> TRUE]
  ELSE [at |-> Digits(src, p + 1), ok |-> IsDigit(At(src, p + 1))]
ExpPart(src, p) ==
  LET q == IF At(src, p + 1) = "-" THEN p + 2 ELSE p + 1
  IN IF At(src, p) # "e" THEN [at |-> p, ok |-> TRUE]
     ELSE [at |-> Digits(src, q), ok |-> IsDigit(At(src, q))]

\* The number token at src[o]: where its digits begin and its integer,
\* fraction and exponent end.
NumberToken(src, o) ==
  LET i == IntPart(src, o)
      f == FracPart(src, i.at)
      e == ExpPart(src, f.at)
  IN [from |-> i.from, int |-> i.at, frac |-> f.at, at |-> e.at, ok |-> i.ok /\ f.ok /\ e.ok]

=============================================================================
