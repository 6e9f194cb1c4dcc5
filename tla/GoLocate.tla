------------------------------ MODULE GoLocate ------------------------------
(***************************************************************************)
(* The error locator of the pure-Go engine (internal/gdec/locate.go): it   *)
(* runs after a failure that names no position and finds the first byte    *)
(* at which the text stops being a JSON document.                          *)
(***************************************************************************)
EXTENDS GoLex

Here(off) == [off |-> off, eof |-> FALSE, bad |-> TRUE]
Eof(src)  == [off |-> Len(src), eof |-> TRUE, bad |-> TRUE]
Good(end) == [off |-> end, eof |-> FALSE, bad |-> FALSE]
HereOrEof(src, off) == [off |-> off, eof |-> off >= Len(src), bad |-> TRUE]

\* The bytes of the body src[k:close] the mode rejects.
Offending(src, k, close, mode) ==
  {i \in k..close - 1 :
     \/ mode # "lax" /\ At(src, i) = Ctl
     \/ mode = "strict"
        /\ \/ At(src, i) = Lead /\ ~(i + 1 < close /\ At(src, i + 1) = Cont)
           \/ At(src, i) = Cont /\ ~(i > k /\ At(src, i - 1) = Lead)}

\* locateString: the string token at src[i], which ScanString left at s.
LocateScanned(src, i, mode, s) ==
  LET k == s.at + 1
      broken == Min({j \in k + 1..s.at + 5 : At(src, j) \notin Hex \/ j >= Len(src)} \cup {s.at + 6})
      off == Offending(src, i + 1, s.at, mode)
  IN CASE ~s.ok /\ s.at >= Len(src) -> Eof(src)
       [] ~s.ok /\ s.at < Len(src) /\ At(src, k) = "u" -> HereOrEof(src, broken)
       [] ~s.ok /\ s.at < Len(src) /\ At(src, k) # "u" -> HereOrEof(src, k)
       [] s.ok /\ off # {} -> Here(Min(off))
       [] OTHER -> Good(s.at + 1)
LocateString(src, i, mode) == LocateScanned(src, i, mode, ScanString(src, i + 1))

\* locateNumber: the number token at src[i].
LocateNumber(src, i) ==
  LET d == IF At(src, i) = "-" THEN i + 1 ELSE i
      p == IF At(src, d) = "0" THEN d + 1 ELSE Digits(src, d)
      f == IF At(src, p) = "." THEN Digits(src, p + 1) ELSE p
      x == IF At(src, f + 1) = "-" THEN f + 2 ELSE f + 1
      Bad(at) == HereOrEof(src, Min({at, Len(src)}))
  IN CASE ~IsDigit(At(src, d)) -> Bad(d)
       [] IsDigit(At(src, d)) /\ At(src, p) = "." /\ ~IsDigit(At(src, p + 1)) -> Bad(p + 1)
       [] IsDigit(At(src, d)) /\ ~(At(src, p) = "." /\ ~IsDigit(At(src, p + 1)))
            /\ At(src, f) = "e" /\ ~IsDigit(At(src, x)) -> Bad(x)
       [] OTHER -> Good(IF At(src, f) = "e" THEN Digits(src, x) ELSE f)

\* A literal taken without its last byte.
BugLocateLiteral(src, i) ==
  LET lit == Literal[At(src, i)]
      k == Min({j \in 0..Len(lit) - 1 : i + j >= Len(src) \/ At(src, i + j) # lit[j + 1]} \cup {Len(lit)})
  IN IF k < Len(lit) - 1 THEN HereOrEof(src, i + k) ELSE Good(i + k)

LocateLiteral(src, i) ==
  LET lit == Literal[At(src, i)]
      k == Min({j \in 0..Len(lit) - 1 : i + j >= Len(src) \/ At(src, i + j) # lit[j + 1]} \cup {Len(lit)})
  IN IF k < Len(lit) THEN HereOrEof(src, i + k) ELSE Good(i + k)

\* The scalar or string at src[i] in value position.
LocateToken(src, i, mode) ==
  LET c == At(src, i)
  IN CASE c = Quote -> LocateString(src, i, mode)
       [] c \in DOMAIN Literal -> LocateLiteral(src, i)
       [] c = "-" \/ IsDigit(c) -> LocateNumber(src, i)
       [] OTHER -> Here(i)

\* The state machine of Locate: st is the state, closers the open
\* containers' closing bytes, innermost last.
RECURSIVE LocateFrom(_, _, _, _, _)
LocateFrom(src, j, st, closers, mode) ==
  LET i == SkipWS(src, j)
      c == At(src, i)
      n == Len(closers)
      closes == (st = "valueOrClose" /\ c = "]") \/ (st = "keyOrClose" /\ c = "}")
      at == CASE st = "keyOrClose" -> "key" [] st = "valueOrClose" -> "value" [] OTHER -> st
      Then(r, next) == IF r.bad THEN r ELSE LocateFrom(src, r.off, next, closers, mode)
  IN CASE i >= Len(src) -> IF st = "after" /\ n = 0 THEN Good(0) ELSE Eof(src)
       [] i < Len(src) /\ closes -> LocateFrom(src, i + 1, "after", Front(closers), mode)
       [] i < Len(src) /\ ~closes /\ at = "value" /\ c = "{" ->
            LocateFrom(src, i + 1, "keyOrClose", Append(closers, "}"), mode)
       [] i < Len(src) /\ ~closes /\ at = "value" /\ c = "[" ->
            LocateFrom(src, i + 1, "valueOrClose", Append(closers, "]"), mode)
       [] i < Len(src) /\ ~closes /\ at = "value" /\ c \notin {"{", "["} ->
            Then(LocateToken(src, i, mode), "after")
       [] i < Len(src) /\ at = "key" /\ ~closes ->
            IF c = Quote THEN Then(LocateString(src, i, mode), "colon") ELSE Here(i)
       [] i < Len(src) /\ at = "colon" -> IF c = ":" THEN LocateFrom(src, i + 1, "value", closers, mode) ELSE Here(i)
       [] OTHER ->
            CASE n > 0 /\ c = "," ->
                   LocateFrom(src, i + 1, IF Last(closers) = "]" THEN "value" ELSE "key", closers, mode)
              [] n > 0 /\ c # "," /\ c = closers[n] -> LocateFrom(src, i + 1, "after", Front(closers), mode)
              [] OTHER -> Here(i)

Locate(src, mode) == LocateFrom(src, 0, "value", <<>>, mode)

\* The backslash at src[i]: the escaped byte is not looked at again, so a
\* control byte there is judged here.
CheckAtEscape(src, i, inStr, mode) ==
  IF inStr /\ mode # "lax" /\ At(src, i + 1) = Ctl THEN Here(i + 1) ELSE Good(0)

\* CheckAt: where Check fails, for a window that starts outside a string.
RECURSIVE CheckAtFrom(_, _, _, _)
CheckAtFrom(src, i, inStr, mode) ==
  LET c == At(src, i)
      e == CheckAtEscape(src, i, inStr, mode)
      whole == c = Lead /\ At(src, i + 1) = Cont
  IN CASE i >= Len(src) -> IF inStr THEN Eof(src) ELSE Good(0)
       [] i < Len(src) /\ c = Slash -> IF e.bad THEN e ELSE CheckAtFrom(src, i + 2, inStr, mode)
       [] i < Len(src) /\ c = Quote -> CheckAtFrom(src, i + 1, ~inStr, mode)
       [] i < Len(src) /\ c = Ctl /\ inStr /\ mode # "lax" -> Here(i)
       [] i < Len(src) /\ c \in {Lead, Cont} /\ mode = "strict" ->
            IF whole THEN CheckAtFrom(src, i + 2, inStr, mode) ELSE Here(i)
       [] OTHER -> CheckAtFrom(src, i + 1, inStr, mode)
CheckAt(src, mode) == CheckAtFrom(src, 0, FALSE, mode)

=============================================================================
