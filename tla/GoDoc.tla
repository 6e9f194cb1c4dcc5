------------------------------- MODULE GoDoc --------------------------------
(***************************************************************************)
(* One client of the pure-Go document primitives.  A text arrives in       *)
(* windows of any size and the resumable extent scan finds the end of its  *)
(* first value; the text is then parsed by a dom.Parser (decode/dom) and   *)
(* the parser is used again, while the client keeps every Value it got.    *)
(* The parser's tape and string arenas are monotonic: each parse carves    *)
(* its views at the cursors, and a full arena is replaced, not grown.      *)
(***************************************************************************)
EXTENDS JsonValue

CONSTANTS Texts,      \* the texts that arrive first
          Later,      \* the texts the same parser reads afterwards
          MaxParses,  \* bound on the parses of one behaviour
          TapeGuess,  \* words of a first tape arena (n/8 + 64 in the code)
          StrTail,    \* arena bytes past the source length (64)
          Amortize    \* needs a fresh arena covers (domAmortize, 3)

VARIABLES src,     \* the text
          win,     \* bytes of it that have arrived
          ext,     \* the last answer of the extent scan
          parser,  \* the parser's arenas: backing, cursor and capacity
          mem,     \* the contents of every backing
          docs     \* the published documents, with the text each came from

vars == <<src, win, ext, parser, mem, docs>>

Fresh == [id |-> 0, at |-> 0, cap |-> 0]

Init ==
  /\ src \in Texts
  /\ win = 0
  /\ ext = More(NewExtent(SkipWS(src, 0)))
  /\ parser = [tape |-> Fresh, str |-> Fresh]
  /\ mem = [tape |-> <<>>, str |-> <<>>]
  /\ docs = <<>>

\* A fill of the window, and the scan over what has arrived (goDecode's
\* loop).  The end of input is seen with the last bytes or after them; a
\* value it truncates ends there.
Fill ==
  /\ docs = <<>> /\ ~ext.done
  /\ \E k \in win..Len(src), eof \in BOOLEAN :
       /\ eof => k = Len(src)
       /\ k > win \/ eof
       /\ LET r == ExtentScan(SubSeq(src, 1, k), eof, ext.s)
              end == IF r.done THEN r.end ELSE Len(src)
          IN /\ ext' = IF r.done \/ eof THEN EndAt(end, NewExtent(end)) ELSE r
             /\ win' = IF r.done \/ eof THEN Len(src) ELSE k
  /\ UNCHANGED <<src, parser, mem, docs>>

\* Ensure that compares the need with the whole backing.
BugEnsureWhole(a, need, ids) ==
  IF a.cap >= need THEN a ELSE [id |-> ids + 1, at |-> 0, cap |-> Amortize * need]

\* ensureTapeArena and ensureStrArena: a view at the cursor, of a fresh
\* backing when the current one has too little left.
Ensure(a, need, ids) ==
  IF a.cap - a.at >= need THEN a ELSE [id |-> ids + 1, at |-> 0, cap |-> Amortize * need]

\* Writing a view at the cursor.
Write(m, a, words) ==
  LET Old(k) == IF k <= Len(m) THEN m[k] ELSE <<>>
      Patched(t) == SubSeq(t, 1, a.at) \o words \o SubSeq(t, a.at + Len(words) + 1, Len(t))
  IN [k \in 1..Max({Len(m), a.id}) |-> IF k = a.id THEN Patched(Old(k)) ELSE m[k]]

\* Whether a parse keeps the cursors it started with.
Advance(a, n, ok) == IF ok THEN [a EXCEPT !.at = @ + n] ELSE a

\* parseTapePadded (Parser.Parse in copy mode, ParsePadded in either): scan,
\* grow the tape arena when it is short of the counted need, build, publish.
Parse(text, how, strict) ==
  /\ Len(docs) < MaxParses
  /\ LET scan == Scan(text, IF strict THEN "strict" ELSE "lax")
         need == TapeNeed(Len(scan.idx), scan.scalars)
         str == Ensure(parser.str, Len(text) + StrTail, Len(mem.str))
         guess == IF parser.tape.at = parser.tape.cap THEN Ensure(parser.tape, TapeGuess, Len(mem.tape))
                  ELSE parser.tape
         tape == IF ~scan.ok \/ guess.cap - guess.at >= need THEN guess
                 ELSE Ensure(guess, need, Max({Len(mem.tape), guess.id}))
         guessed == IF guess.id > Len(mem.tape) THEN Write(mem.tape, guess, <<>>) ELSE mem.tape
     IN \E w \in {IF scan.ok THEN Walk(text, scan.idx, how) ELSE [tape |-> <<>>, str |-> <<>>, st |-> "fail"]} :
          /\ Len(text) > 0
          /\ parser' = [str |-> Advance(str, Len(w.str), w.st = "ok"), tape |-> Advance(tape, Len(w.tape), w.st = "ok")]
          /\ mem' = [tape |-> Write(guessed, tape, w.tape), str |-> Write(mem.str, str, w.str)]
          /\ docs' = Append(docs, [text |-> text, ok |-> w.st = "ok", strict |-> strict,
                                   tape |-> [id |-> tape.id, at |-> tape.at, n |-> Len(w.tape)],
                                   str |-> [id |-> str.id, at |-> str.at, n |-> Len(w.str)],
                                   need |-> need, src |-> IF how = "zc" THEN text ELSE <<>>])
  /\ UNCHANGED <<src, win, ext>>

Hows == {<<"copy", FALSE>>, <<"zc", FALSE>>, <<"copy", TRUE>>}
ParseText  == ext.done /\ docs = <<>> /\ \E h \in Hows : Parse(src, h[1], h[2])
ParseLater == docs # <<>> /\ \E t \in Later : Parse(t, "copy", FALSE)

Next == Fill \/ ParseText \/ ParseLater
Spec == Init /\ [][Next]_vars

---------------------------------------------------------------------------
(* The JSON grammar, stated over whole texts.                              *)

Blank(s) == \A k \in 1..Len(s) : s[k] = " "

RECURSIVE StringBody(_, _)
StringBody(s, mode) ==
  \/ s = <<>>
  \/ /\ s[1] \notin {Quote, Slash} \cup (IF mode = "lax" THEN {} ELSE {Ctl})
     /\ StringBody(Tail(s), mode)
  \/ /\ Len(s) >= 2 /\ s[1] = Slash /\ s[2] \in {Quote, Slash, "n", "t"}
     /\ StringBody(SubSeq(s, 3, Len(s)), mode)
  \/ /\ Len(s) >= 6 /\ s[1] = Slash /\ s[2] = "u" /\ \A k \in 3..6 : s[k] \in Hex
     /\ StringBody(SubSeq(s, 7, Len(s)), mode)
IsString(s, mode) ==
  Len(s) >= 2 /\ s[1] = Quote /\ s[Len(s)] = Quote /\ StringBody(SubSeq(s, 2, Len(s) - 1), mode)

AllDigits(s) == Len(s) > 0 /\ \A k \in 1..Len(s) : IsDigit(s[k])
IsNumber(s) ==
  \E i \in 0..1, j \in 1..Len(s), k \in 1..Len(s) :
    LET int == SubSeq(s, i + 1, j)
        frac == SubSeq(s, j + 1, k)
        exp == SubSeq(s, k + 1, Len(s))
    IN /\ j <= k /\ (i = 1 => s[1] = "-")
       /\ AllDigits(int) /\ (Len(int) > 1 => int[1] # "0")
       /\ frac # <<>> => frac[1] = "." /\ AllDigits(Tail(frac))
       /\ exp # <<>> => exp[1] = "e" /\ (AllDigits(Tail(exp)) \/ (Len(exp) > 1 /\ exp[2] = "-" /\ AllDigits(Tail(Tail(exp)))))

RECURSIVE IsJSON(_, _), Items(_, _, _), Member(_, _, _)
\* A value with blanks around it.
IsJSON(s, mode) ==
  LET from == SkipWS(s, 0)
      to == Max({k \in 0..Len(s) : k = 0 \/ s[k] # " "})
      v == Cut(s, from, to)
      in == SubSeq(v, 2, Len(v) - 1)
  IN /\ from < to
     /\ \/ v \in {Literal[c] : c \in DOMAIN Literal}
        \/ IsNumber(v)
        \/ IsString(v, mode)
        \/ Len(v) >= 2 /\ v[1] = "[" /\ v[Len(v)] = "]" /\ (Blank(in) \/ Items(in, mode, FALSE))
        \/ Len(v) >= 2 /\ v[1] = "{" /\ v[Len(v)] = "}" /\ (Blank(in) \/ Items(in, mode, TRUE))
Items(s, mode, obj) ==
  \/ Member(s, mode, obj)
  \/ \E k \in 1..Len(s) : s[k] = "," /\ Member(SubSeq(s, 1, k - 1), mode, obj)
                           /\ Items(SubSeq(s, k + 1, Len(s)), mode, obj)
Member(s, mode, obj) ==
  IF ~obj THEN IsJSON(s, mode)
  ELSE \E k \in 1..Len(s) :
         /\ s[k] = ":"
         /\ LET key == SubSeq(s, 1, k - 1)
                a == SkipWS(key, 0)
                b == Max({j \in 0..Len(key) : j = 0 \/ key[j] # " "})
            IN a < b /\ IsString(Cut(key, a, b), mode)
         /\ IsJSON(SubSeq(s, k + 1, Len(s)), mode)

Document(s, mode) == IsJSON(s, mode) /\ (mode = "strict" => Utf8Valid(s))

Opens(c) == c \in {"{", "["}
Closes(c) == c \in {"}", "]"}
Tokens(s) == LET idx == Scan(s, "lax").idx IN [k \in 1..Len(idx) |-> At(s, idx[k])]

\* At most MaxDepth containers with members are open at once.
Shallow(s) ==
  LET t == Tokens(s)
      In(k) == Opens(t[k]) /\ ~(k < Len(t) /\ Closes(t[k + 1]))
      Out(k) == Closes(t[k]) /\ ~(k > 1 /\ Opens(t[k - 1]))
  IN \A n \in 1..Len(t) :
       Cardinality({k \in 1..n : In(k)}) - Cardinality({k \in 1..n : Out(k)}) <= MaxDepth

\* A root container closes at the last token, not before.
RootClosesLast(s) ==
  LET t == Tokens(s)
      Level(n) == Cardinality({k \in 1..n : Opens(t[k])}) - Cardinality({k \in 1..n : Closes(t[k])})
  IN t # <<>> /\ Opens(t[1]) => \A n \in 1..Len(t) - 1 : Level(n) > 0

Arrived == docs = <<>> /\ ext.done

---------------------------------------------------------------------------
(* Properties.                                                             *)

\* The arenas' cursors stay inside their backings, and every published view
\* is inside its own.
TypeOK ==
  /\ win \in 0..Len(src)
  /\ \A a \in {parser.tape, parser.str} : a.at \in 0..a.cap
  /\ parser.tape.id <= Len(mem.tape) /\ parser.str.id <= Len(mem.str)
  /\ \A k \in 1..Len(docs) : docs[k].ok =>
       /\ docs[k].tape.at + docs[k].tape.n <= Len(mem.tape[docs[k].tape.id])
       /\ docs[k].str.at + docs[k].str.n <= Len(mem.str[docs[k].str.id])

\* Extent scan (extent.go): whatever windows the text arrives in, the end
\* found is the one a single window gives, and when the text begins with a
\* JSON value followed by a delimiter it is the end of that value.
ExtentExact ==
  ext.done =>
    LET start == SkipWS(src, 0)
        once == ExtentScan(src, TRUE, NewExtent(start))
        v == RawValue(src, start)
    IN /\ ext.end = IF once.done THEN once.end ELSE Len(src)
       /\ v > 0 /\ (~IsNonDelim(At(src, v)) \/ At(src, start) \in {Quote, "[", "{"}) => ext.end = v

\* The three verdicts on strings (Scan, Check, CheckAt) agree in every mode,
\* and walking the text token by token visits the scan's index.  CheckAt
\* looks past an escaped byte, so an escaped non-ASCII byte is outside.
ScansAgree ==
  Arrived =>
    LET Visit(p) == IF p.at >= Len(src) THEN p
                    ELSE [at |-> SkipWS(src, TokenEnd(src, p.at).at), idx |-> Append(p.idx, p.at)]
        f[k \in 0..Len(src)] ==
          IF k = 0 THEN [at |-> SkipWS(src, 0), idx |-> <<>>] ELSE LET p == f[k - 1] IN Visit(p)
        toks == f[Len(src)].idx
    IN \A mode \in Modes :
         /\ Check(src, mode) = Scan(src, mode).ok
         /\ Scan(src, mode).ok => toks = Scan(src, mode).idx
         /\ (\A k \in 1..Len(src) - 1 : ~(src[k] = Slash /\ src[k + 1] \in {Lead, Cont})) =>
               CheckAt(src, mode).bad = ~Check(src, mode)

\* Locate names no offence exactly in the JSON documents; under the lax
\* policy an offence it names before the end is one of the text up to it,
\* and no shorter text has one.  (A raw control byte or malformed UTF-8 is
\* only looked for once the string is known to close and its escapes to be
\* good, so in the other modes a later offence can be named first.)
LocateExact ==
  Arrived =>
    \A mode \in Modes : \A r \in {Locate(src, mode)} :
      /\ r.bad = ~Document(src, mode)
      /\ mode = "lax" /\ r.bad /\ ~r.eof =>
           /\ Locate(SubSeq(src, 1, r.off + 1), mode) = r
           /\ LET p == Locate(SubSeq(src, 1, r.off), mode) IN p.bad => p.eof

\* vjson.Valid accepts every JSON document within the nesting limit, and
\* among the texts whose root closes last it accepts nothing else.
ValidExact ==
  Arrived =>
    /\ Document(src, "ctl") /\ Shallow(src) => Valid(src)
    /\ Valid(src) /\ RootClosesLast(src) => Document(src, "ctl")

\* Raw.Valid accepts exactly the JSON documents.
RawExact == Arrived => (RawValid(src) = Document(src, "ctl"))

DocAt(d) == [tape |-> SubSeq(mem.tape[d.tape.id], d.tape.at + 1, d.tape.at + d.tape.n),
             str |-> SubSeq(mem.str[d.str.id], d.str.at + 1, d.str.at + d.str.n), src |-> d.src]
Kept == {k \in 1..Len(docs) : docs[k].ok /\ Document(docs[k].text, "lax")}

\* What a document says.  dom.Parse accepts control bytes in its strings as
\* they are (parse.go:41-48: only AllowInvalidUTF8(false) asks for the
\* strict policy), which a raw view refuses: they count as their escapes.
Said(text) ==
  ReadRaw(FlattenSeq([i \in 1..Len(text) |->
            IF text[i] = Ctl THEN <<Slash, "n">> ELSE <<text[i]>>]), 0)

\* Every Value the client holds reads as the raw view of the text it came
\* from, the number widths and string decodings included, after any later
\* parse by the same parser, failed or not; and a parse fails exactly on
\* what its scan policy or the nesting limit rejects.
ValuesStable ==
  /\ \A k \in Kept : ReadValue(DocAt(docs[k]), 0) = Said(docs[k].text)
  /\ \A k \in 1..Len(docs) :
       Document(docs[k].text, IF docs[k].strict THEN "strict" ELSE "lax") /\ Shallow(docs[k].text) => docs[k].ok

\* Get and Index of a Value find what the raw view's members hold, the
\* first member of a repeated key, negative indices from the end.
LookupsAgree ==
  \A k \in Kept : \A raw \in {Said(docs[k].text)} :
    LET doc == DocAt(docs[k])
        n == Len(raw.kids)
    IN /\ raw.kind = "object" => \A i \in 1..n :
            Field(doc, raw.keys[i]) = raw.kids[Min({j \in 1..n : raw.keys[j] = raw.keys[i]})]
       /\ raw.kind = "array" => /\ \A i \in 1..n : /\ Index(doc, i - 1) = raw.kids[i]
                                                   /\ Index(doc, i - 1 - n) = raw.kids[i]
                                /\ Index(doc, n) = Invalid /\ Index(doc, -n - 1) = Invalid

RECURSIVE Finite(_)
Finite(node) == (node.kind = "number" => node.num # <<>>) /\ \A k \in 1..Len(node.kids) : Finite(node.kids[k])

\* Value.String (value.go:337, "returns the JSON representation of v") reads
\* back as the same value under the parser's own policy, unless the document
\* holds a number past the double range; and it is JSON when the text parsed
\* was.  A string with a raw control byte is printed as it stands
\* (serialize.go:31-34), so the String of such a document need not be JSON.
TextRoundTrips ==
  \A k \in Kept :
    LET text == TapeJSON(DocAt(docs[k]), 0)
    IN Finite(Said(docs[k].text)) =>
         /\ Document(text, "lax") /\ Said(text) = Said(docs[k].text)
         /\ RawValid(docs[k].text) => RawValid(text)

\* The tape never outgrows the counted need, nor the string arena the source
\* length and one terminator: no parse indexes past its views.
ArenasSuffice ==
  \A k \in 1..Len(docs) :
    /\ docs[k].tape.n <= docs[k].need
    /\ docs[k].str.n <= Len(docs[k].text) + 1

(* The scanners accept one language: Scan, Check, CheckAt, Locate, Valid   *)
(* and Raw.Valid agree with the grammar of their policy and with each      *)
(* other.                                                                  *)
GrammarKept == ScansAgree /\ LocateExact /\ ValidExact /\ RawExact

(* A Value reads, is searched and prints as its text says, for as long as  *)
(* the client keeps it and whatever the parser parses next; no parse       *)
(* leaves its arenas.                                                      *)
ReadsAsWritten ==
  TypeOK /\ ValuesStable /\ LookupsAgree /\ TextRoundTrips /\ ArenasSuffice
=============================================================================
