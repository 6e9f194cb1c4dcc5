------------------------------- MODULE GoRead -------------------------------
(***************************************************************************)
(* The reading half of the pure-Go bind engine (internal/gbind: cursor.go, *)
(* skip.go, the string and number decoders of scalar.go, text.go): a       *)
(* cursor over the tokens of one document, the error vocabulary, and the   *)
(* two skips. How bytes form tokens is GoLex's subject; here a token is a  *)
(* model value that Lex describes:                                         *)
(*   ch      its first byte: "{" "}" "[" "]" "," ":" or "s" string,        *)
(*           "d" number, "t" "f" "n" literal, "x" anything else;           *)
(*   ok      the token is in the grammar; closed, for a string, that its   *)
(*           closing quote exists; clean, that its body holds the strict   *)
(*           policy;                                                       *)
(*   body    the decoded string or the number's text; esc, that the        *)
(*           string is spelt with an escape; spaced, that blanks follow it;*)
(*   int, flt, num   an integer or double destination holds the number;    *)
(*           the string's body is number text;                             *)
(*   quoted  the scalar the body spells for a `,string` field, or "".      *)
(* A binder c is a record; its fields are listed at NewBinder.             *)
(***************************************************************************)
EXTENDS SlotAlloc, TLC

CONSTANTS
  Lex,         \* token -> its description
  MaxDepth,    \* maxDepth, the deepest container nesting
  ScopeCells   \* scopeStrView, cells of a stream scope's string chunk

NoPos == 0
NoErr == [kind |-> "", pos |-> NoPos, t |-> ""]
Bad(c) == c.err # NoErr

\* The state of one Bind call over what the parser keeps between calls.
NewBinder(st, src, opt, root) ==
  [src |-> src, p |-> 1, opt |-> opt, root |-> root, h |-> st.h, regions |-> st.regions,
   memo |-> st.memo, depth |-> 0, descents |-> 0, deferred |-> <<>>, staged |-> {}, pending |-> <<>>,
   mismatch |-> NoErr, err |-> NoErr, hookErr |-> "", keyErr |-> "", scratch |-> "", streams |-> 0,
   calls |-> <<>>, out |-> <<>>]

-----------------------------------------------------------------------------
(* Cursor and errors.                                                      *)

Eof(c) == c.p > Len(c.src)
Tok(c) == Lex[c.src[c.p]]
Ch(c) == IF Eof(c) THEN " " ELSE Tok(c).ch
Step(c) == [c EXCEPT !.p = @ + 1]

FailType(c, kind, pos, t) == [c EXCEPT !.err = [kind |-> kind, pos |-> pos, t |-> t]]
Fail(c, kind, pos) == FailType(c, kind, pos, c.root)

\* A string body the strict scan rejects.
Dirty(c) == c.opt.strict /\ Tok(c).ch = "s" /\ ~Tok(c).clean

\* skipToken: past the token without judging it.
SkipToken(c) ==
  IF Eof(c) THEN c
  ELSE IF ~Tok(c).closed \/ Dirty(c) THEN Fail(c, "syntax", NoPos)
  ELSE Step(c)

\* expectColon and colonErr; a failed binder passes through.
ExpectColon(c) ==
  IF Bad(c) THEN c ELSE IF Ch(c) = ":" THEN Step(c) ELSE Fail(c, IF Eof(c) THEN "eof" ELSE "syntax", c.p)

\* closeErr: neither a comma nor the close; the error names the token after
\* the offending one.
SyntaxHere(c) == IF Bad(c) THEN c ELSE Fail(c, "syntax", c.p)
CloseErr(c) == IF Eof(c) THEN Fail(c, "eof", c.p) ELSE SyntaxHere(SkipToken(c))

FailValueOrEof(c, kind, t) == IF Eof(c) THEN Fail(c, "eof", c.p) ELSE FailType(c, kind, c.p, t)

\* A later mismatch replaces the recorded one.
BugRecord(c, pos, t) == [c EXCEPT !.mismatch = [kind |-> "mismatch", pos |-> pos, t |-> t]]
\* record: the first mismatch surfaces at document end.
Record(c, pos, t) ==
  IF c.mismatch # NoErr THEN c
  ELSE [c EXCEPT !.mismatch = [kind |-> "mismatch", pos |-> pos, t |-> t]]

Push(c) ==
  LET d == [c EXCEPT !.descents = @ + 1]
  IN IF c.depth + 1 > MaxDepth THEN Fail(d, "depth", NoPos) ELSE [d EXCEPT !.depth = @ + 1]
Pop(c) == [c EXCEPT !.depth = @ - 1]
\* A container whose members are bound.
Popped(c) == IF Bad(c) THEN c ELSE Pop(c)

-----------------------------------------------------------------------------
(* Scalars.                                                                *)

\* scalarAt: one scalar, checked against the grammar.
ScalarAt(c) ==
  IF Tok(c).ch \notin {"s", "d", "t", "f", "n"} \/ ~Tok(c).ok THEN Fail(c, "syntax", c.p)
  ELSE IF Dirty(c) THEN Fail(c, "syntax", NoPos)
  ELSE Step(c)

\* atom: a literal.
Atom(c) == IF Tok(c).ok THEN Step(c) ELSE Fail(c, "syntax", c.p)

\* str(false): a transient decode; an escaped body lands in the scratch
\* buffer.
Str(c) ==
  IF Dirty(c) THEN Fail(c, "syntax", NoPos)
  ELSE IF ~Tok(c).ok THEN Fail(c, "syntax", c.p)
  ELSE Step(IF Tok(c).esc THEN [c EXCEPT !.scratch = Tok(c).body] ELSE c)

\* newStrView: a fresh chunk for a stream scope.
NewStrView(c, n) ==
  [c EXCEPT !.h.strs = Append(@, [i \in 1..n |-> ""]),
            !.h.str = [id |-> Len(c.h.strs) + 1, at |-> 0, used |-> 0]]

\* alloc: the binder with one cell of the view free, or past the view a
\* backing of the string's own.
RoomFor(c) ==
  IF c.h.str.at + c.h.str.used >= Len(c.h.strs[c.h.str.id]) /\ c.streams > 0 THEN NewStrView(c, ScopeCells) ELSE c
KeptIn(c, text) == [c |-> [c EXCEPT !.h = StoreStr(@, text)], word |-> StrWord(c.h, text)]
KeepText(c, text) == IF Bad(c) \/ text = "" THEN [c |-> c, word |-> Zero] ELSE KeptIn(RoomFor(c), text)

\* strAt: a persistent decode, as the binder past it and its word.
StrAt(c) == KeepText([Str(c) EXCEPT !.scratch = c.scratch], Tok(c).body)
\* numberTextAt: the text of a number token.
NumberTextAt(c) == KeepText(IF Tok(c).ok THEN Step(c) ELSE Fail(c, "syntax", c.p), Tok(c).body)

\* storeString and storeNumberText.
StoreWord(r, dst) == IF Bad(r.c) THEN r.c ELSE [r.c EXCEPT !.h = Put(@, dst, <<r.word>>)]
StoreString(c, dst) == StoreWord(StrAt(c), dst)
StoreNumberText(c, dst) == StoreWord(NumberTextAt(c), dst)

\* numberAt: a number into a numeric kind; mis when the kind cannot hold it.
\* A double's overflow stores the infinity all the same. A token is a whole
\* number or none: what may follow its digits is part of tok.ok, and the
\* re-check of a fraction against an integer kind is the same test.
Fits(k, tok) == IF k = "int" THEN tok.int ELSE tok.flt
NumberAt(c, dst, k) ==
  LET tok == Tok(c)
      stored(w) == [c EXCEPT !.h = Put(@, dst, <<w>>)]
  IN IF ~tok.ok THEN [c |-> Fail(c, "syntax", c.p), mis |-> FALSE]
     ELSE IF Fits(k, tok) THEN [c |-> Step(stored(<<k, tok.body>>)), mis |-> FALSE]
     ELSE IF k = "float" THEN [c |-> stored(<<k, "inf">>), mis |-> TRUE]
     ELSE [c |-> c, mis |-> TRUE]

\* writeQuotedScalar: a `,string` body as its target scalar.
QuotedFits(k, q) == q # "" /\ IF k = "bool" THEN Lex[q].ch \in {"t", "f"}
                              ELSE IF k \in {"int", "float"} THEN Lex[q].ch = "d" /\ Fits(k, Lex[q])
                              ELSE k = "string" /\ Lex[q].ch = "s"
WriteQuotedScalar(c, dst, k, q) ==
  IF k = "string" THEN [c EXCEPT !.h = Put([@ EXCEPT !.strs = Append(@, <<Lex[q].body>>)], dst,
                                          <<<<"str", Len(c.h.strs) + 1, 1>>>>)]
  ELSE [c EXCEPT !.h = Put(@, dst, <<<<k, Lex[q].body>>>>)]

-----------------------------------------------------------------------------
(* Skips.                                                                  *)

RECURSIVE ValidValue(_), ValidRest(_, _), NestedAt(_, _)

\* validValue: one value, the whole grammar; a failed binder passes through.
ValidContainer(c, closer) ==
  IF Bad(c) THEN c
  ELSE IF Ch(Step(c)) = closer THEN Pop(Step(Step(c)))
  ELSE ValidRest(Step(c), closer)
ValidValue(c) ==
  IF Bad(c) THEN c
  ELSE IF Eof(c) THEN Fail(c, "eof", c.p)
  ELSE IF Ch(c) \notin {"{", "["} THEN ScalarAt(c)
  ELSE ValidContainer(Push(c), IF Ch(c) = "{" THEN "}" ELSE "]")

\* A key and its colon.
PastColon(c) == IF Bad(c) THEN c ELSE IF Ch(c) # ":" THEN Fail(c, "syntax", c.p) ELSE Step(c)
ValidKey(c) == IF Ch(c) # "s" THEN Fail(c, IF Eof(c) THEN "eof" ELSE "syntax", c.p) ELSE PastColon(ScalarAt(c))

ValidNext(c, closer) ==
  IF Bad(c) THEN c
  ELSE IF Ch(c) = "," THEN ValidRest(Step(c), closer)
  ELSE IF Ch(c) = closer THEN Pop(Step(c))
  ELSE CloseErr(c)
\* A trailing comma passes.
BugValidRest(c, closer) ==
  IF Ch(c) = closer THEN Pop(Step(c))
  ELSE ValidNext(ValidValue(IF closer = "}" THEN ValidKey(c) ELSE c), closer)
\* The members or elements of a container, through its close.
ValidRest(c, closer) == ValidNext(ValidValue(IF closer = "}" THEN ValidKey(c) ELSE c), closer)

\* nestedAt and skipNested: brackets counted, nothing else judged.
NestedNext(c, depth) == IF Bad(c) \/ depth = 0 THEN c ELSE NestedAt(c, depth)
NestedAt(c, depth) ==
  IF Eof(c) THEN Fail(c, "eof", c.p)
  ELSE NestedNext(SkipToken(c), CASE Ch(c) \in {"{", "["} -> depth + 1
                                  [] Ch(c) \in {"}", "]"} -> depth - 1
                                  [] OTHER -> depth)

\* rootSkip and skipChecked: the root value from its start.
RootSkip(c) ==
  IF ~c.opt.lenient THEN ValidValue(c)
  ELSE IF Ch(c) \in {"{", "["} THEN NestedAt(Step(c), 1)
  ELSE SkipToken(c)

\* skipAt.
SkipValue(c) == IF Eof(c) THEN Fail(c, "eof", c.p) ELSE RootSkip(c)

\* gdec.Check: the scan verdict over the whole text.
ScanOK(src, strict) == \A i \in 1..Len(src) : Lex[src[i]].closed /\ (strict => Lex[src[i]].clean)

=============================================================================
