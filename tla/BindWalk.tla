------------------------------ MODULE BindWalk ------------------------------
(***************************************************************************)
(* The streaming half of the native binder: the window scanner, which      *)
(* publishes the structurals of a window that are safe to consume, and the *)
(* walk over them, which stops for input at a window edge and resumes in   *)
(* the phase it armed.                                                     *)
(*                                                                         *)
(* A document is a sequence of characters: the structural operators, the   *)
(* quote, a newline "n" and a space "s", the digit "1" and the letter "a". *)
(* Strings carry no escapes.  A walk is a function on machine records, one *)
(* application per token, so the same text serves every driver.            *)
(*                                                                         *)
(* Targets are numbers, slices and structs with the one field "a"; the     *)
(* values the walk stores, its allocation yields and the depth limit are   *)
(* left out, and its first error, its cursor and its phases are kept.      *)
(***************************************************************************)
EXTENDS Integers, Sequences, SequencesExt, FiniteSets

CONSTANTS
  Types,      \* target types
  KindOf,     \* KindOf[t]: "num", "slice" or "struct"
  ChildOf     \* ChildOf[t]: the element type, or the type of field "a"

ASSUME KindAssumption ==
  /\ KindOf \in [Types -> {"num", "slice", "struct"}]
  /\ \A t \in Types : KindOf[t] # "num" => ChildOf[t] \in Types

Ops == {"{", "}", "[", "]", ":", ","}
Space == {"n", "s"}
Quote == "q"
Pad == "s"
Char == Ops \cup Space \cup {Quote, "1", "a"}

(***************************************************************************)
(* The window scanner                                                      *)
(***************************************************************************)
Offsets(w) == 0 .. Len(w) - 1
At(w, o) == w[o + 1]
Quotes(w, o) == Cardinality({i \in 0 .. o - 1 : At(w, i) = Quote})
InString(w, o) == Quotes(w, o) % 2 = 1

(* A scalar starts at a byte that follows an operator, a space or a quote. *)
Structural(w, o) ==
  /\ ~InString(w, o)
  /\ \/ At(w, o) \in Ops \cup {Quote}
     \/ /\ At(w, o) \notin Space
        /\ o = 0 \/ At(w, o - 1) \in Ops \cup Space \cup {Quote}

(* The structurals of a window's first n bytes, in order.                  *)
StructuralsOf(w) ==
  LET of[n \in 0 .. Len(w)] ==
        IF n = 0 THEN <<>>
        ELSE IF Structural(w, n - 1) THEN Append(of[n - 1], n - 1) ELSE of[n - 1]
  IN  of
Structurals(w) == StructuralsOf(w)[Len(w)]

ScalarTerminated(w, o) ==
  \E i \in o + 1 .. Len(w) - 1 : At(w, i) \in Ops \cup Space \cup {Quote}

(* The last structural of a window that is not final is withheld when      *)
(* bytes past the window may still belong to it.                           *)
Withheld(w, o) ==
  \/ At(w, o) = Quote
  \/ At(w, o) \notin Ops /\ ~ScalarTerminated(w, o)

(* Mutant: a scalar at the window edge is published.                       *)
BugScanPublishesScalar(w, final) ==
  LET all == Structurals(w)
      open == InString(w, Len(w))
      held == ~final /\ all # <<>> /\ At(w, Last(all)) = Quote
  IN  [ok |-> ~(open /\ final),
       idx |-> IF held THEN Front(all) ELSE all,
       stable |-> IF held THEN Last(all) ELSE Len(w)]

Scan(w, final) ==
  LET all == Structurals(w)
      open == InString(w, Len(w))
      held == ~final /\ all # <<>> /\ Withheld(w, Last(all))
  IN  [ok |-> ~(open /\ final),
       idx |-> IF held THEN Front(all) ELSE all,
       stable |-> IF held THEN Last(all) ELSE Len(w)]

(***************************************************************************)
(* The machine: its phase, the types of the open containers, the cursor,   *)
(* the first error (a recorded mismatch or the error that stopped it), the *)
(* state of a skip, and out, what the native call returned.  A view is the *)
(* mounted window.                                                         *)
(***************************************************************************)
NoSkip == [st |-> "value", kinds |-> <<>>, root |-> FALSE]

Bootstrap(t) ==
  [phase |-> "start", type |-> t, stack |-> <<>>, cur |-> 1, mis |-> FALSE,
   pos |-> 0, promoted |-> FALSE, skip |-> NoSkip, out |-> "run", whole |-> FALSE]

Eof(m, v) == m.cur > Len(v.idx)
Pos(m, v) == IF Eof(m, v) THEN Len(v.win) ELSE v.idx[m.cur]
Peek(m, v) == IF Eof(m, v) THEN Pad ELSE At(v.win, v.idx[m.cur])
Advance(m) == [m EXCEPT !.cur = @ + 1]

(* Mutant: a recorded position stays local to the window it was taken in.  *)
BugYieldInput(m, v, ph) == [m EXCEPT !.phase = ph, !.out = "input"]

(* An input yield saves the armed phase, and makes the position of a       *)
(* recorded mismatch absolute once.                                        *)
YieldInput(m, v, ph) ==
  [m EXCEPT !.phase = ph, !.out = "input",
            !.pos = IF m.mis /\ ~m.promoted THEN @ + v.base ELSE @,
            !.promoted = @ \/ m.mis]

YieldErr(m, kind, pos) ==
  [m EXCEPT !.phase = "end", !.out = kind, !.pos = pos, !.promoted = FALSE]

(* At a sentinel: more input, or the end of it.                            *)
NeedInput(m, v, ph) ==
  IF v.final THEN YieldErr(m, "eof", Pos(m, v)) ELSE YieldInput(m, v, ph)

DocumentEnd(m) ==
  [m EXCEPT !.phase = "end", !.out = IF m.mis THEN "type" ELSE "ok", !.whole = TRUE]

Continue(m) ==
  CASE m.stack = <<>> -> DocumentEnd(m)
    [] m.stack # <<>> /\ KindOf[Last(m.stack)] = "struct" ->
         [m EXCEPT !.phase = "objectContinue"]
    [] m.stack # <<>> /\ KindOf[Last(m.stack)] = "slice" ->
         [m EXCEPT !.phase = "arrayContinue"]

Close(m) == Continue([m EXCEPT !.stack = Front(@)])

(* A published scalar is valid when digits run up to a delimiter.          *)
DigitsEnd(w, o) ==
  CHOOSE e \in o .. Len(w) :
    /\ \A i \in o .. e - 1 : At(w, i) = "1"
    /\ e = Len(w) \/ At(w, e) # "1"
NumberOk(w, o) ==
  LET e == DigitsEnd(w, o)
  IN  e > o /\ (e = Len(w) \/ At(w, e) \in Ops \cup Space)
TokenInvalid(w, o) ==
  At(w, o) \notin {"{", "[", Quote} /\ ~NumberOk(w, o)

Record(m, pos) ==
  IF m.mis THEN m ELSE [m EXCEPT !.mis = TRUE, !.pos = pos, !.promoted = FALSE]

SkipFrom(m, kinds, st, root) ==
  [m EXCEPT !.phase = "skip", !.skip = [st |-> st, kinds |-> kinds, root |-> root]]

(* A mismatch: at the root and at a field it is recorded and the value     *)
(* skipped, in an element it stops the walk.                               *)
RootMismatch(m, v) ==
  LET r == Record(m, Pos(m, v))
  IN  CASE Peek(m, v) = "[" -> SkipFrom(Advance(r), <<"[">>, "valueOrClose", TRUE)
        [] Peek(m, v) = "{" -> SkipFrom(Advance(r), <<"{">>, "keyOrClose", TRUE)
        [] OTHER -> SkipFrom(r, <<>>, "value", TRUE)

FieldMismatch(m, v) == SkipFrom(Record(m, Pos(m, v)), <<>>, "value", FALSE)

ElemMismatch(m, v) ==
  CASE Eof(m, v) -> YieldErr(m, "eof", Pos(m, v))
    [] ~Eof(m, v) /\ TokenInvalid(v.win, Pos(m, v)) -> YieldErr(m, "syntax", Pos(m, v))
    [] OTHER -> YieldErr(m, "type", Pos(m, v))

Mismatch(m, v, site) ==
  CASE site = "root" -> RootMismatch(m, v)
    [] site = "field" -> FieldMismatch(m, v)
    [] site = "elem" -> ElemMismatch(m, v)

(* Opening a container: an immediate close is accepted on the spot.        *)
Open(m, v, t, close, first) ==
  LET a == Advance(m)
  IN  IF Peek(a, v) = close THEN Continue(Advance(a))
      ELSE [a EXCEPT !.stack = Append(@, t), !.phase = first]

(* Root scalars are judged before the target is: a token outside the       *)
(* grammar is a syntax error whatever the target.                          *)
RootScalarInvalid(m, v, site) ==
  site = "root" /\ TokenInvalid(v.win, Pos(m, v))

Value(m, v, t, site) ==
  CASE KindOf[t] = "slice" /\ Peek(m, v) = "[" -> Open(m, v, t, "]", "arrayFirst")
    [] KindOf[t] = "struct" /\ Peek(m, v) = "{" -> Open(m, v, t, "}", "firstKey")
    [] KindOf[t] = "num" /\ Peek(m, v) = "1" ->
         IF NumberOk(v.win, Pos(m, v)) THEN Continue(Advance(m))
         ELSE YieldErr(m, "syntax", Pos(m, v))
    [] OTHER -> IF RootScalarInvalid(m, v, site) THEN YieldErr(m, "syntax", Pos(m, v))
                ELSE Mismatch(m, v, site)

DocumentStart(m, v) ==
  IF Eof(m, v) THEN NeedInput(m, v, "start") ELSE Value(m, v, m.type, "root")

(* A key is fetched only with its follower in the window.                  *)
IsField(w, o) == At(w, o + 1) = "a" /\ At(w, o + 2) = Quote

ObjectKey(m, v) ==
  LET a == Advance(m)
  IN  CASE Peek(m, v) # Quote -> YieldErr(a, "syntax", Pos(m, v))
        [] Peek(m, v) = Quote /\ Peek(a, v) # ":" ->
             YieldErr(a, IF Eof(a, v) THEN "eof" ELSE "syntax", Pos(a, v))
        [] Peek(m, v) = Quote /\ Peek(a, v) = ":" ->
             IF IsField(v.win, Pos(m, v)) THEN [Advance(a) EXCEPT !.phase = "fieldValue"]
             ELSE SkipFrom(Advance(a), <<>>, "value", FALSE)

ObjectField(m, v) ==
  CASE ~v.final /\ m.cur + 1 > Len(v.idx) -> YieldInput(m, v, m.phase)
    [] v.final /\ Eof(m, v) -> YieldErr(m, "eof", Pos(m, v))
    [] OTHER -> ObjectKey(m, v)

ObjectFirstKey(m, v) ==
  IF Peek(m, v) = "}" THEN Close(Advance(m)) ELSE ObjectField(m, v)

ObjectFieldValue(m, v) ==
  IF Eof(m, v) /\ ~v.final THEN YieldInput(m, v, "fieldValue")
  ELSE Value(m, v, ChildOf[Last(m.stack)], "field")

(* Continuations advance first: at a sentinel the cursor passes it.        *)
ContinueWith(m, v, close, next) ==
  LET a == Advance(m)
  IN  CASE Peek(m, v) = "," -> [a EXCEPT !.phase = next]
        [] Peek(m, v) = close -> Close(a)
        [] Eof(m, v) -> NeedInput(a, v, m.phase)
        [] OTHER -> YieldErr(a, "syntax", Pos(a, v))

ArrayValue(m, v, ph) ==
  IF Eof(m, v) /\ ~v.final THEN YieldInput(m, v, ph)
  ELSE Value(m, v, ChildOf[Last(m.stack)], "elem")

ArrayFirst(m, v) ==
  IF Peek(m, v) = "]" THEN Close(Advance(m)) ELSE ArrayValue(m, v, "arrayFirst")

(***************************************************************************)
(* The validating skip: one expectation per state.                         *)
(***************************************************************************)
To(m, st) == [m EXCEPT !.skip.st = st]
Nest(m, c) ==
  [m EXCEPT !.skip.kinds = Append(@, c),
            !.skip.st = IF c = "[" THEN "valueOrClose" ELSE "keyOrClose"]

(* A finished value at nesting zero ends the skip.                         *)
Skipped(m) ==
  CASE m.skip.kinds # <<>> -> To(m, "after")
    [] m.skip.kinds = <<>> /\ m.skip.root -> DocumentEnd(m)
    [] m.skip.kinds = <<>> /\ ~m.skip.root -> Continue([m EXCEPT !.skip = NoSkip])

Unnest(m) == Skipped([m EXCEPT !.skip.kinds = Front(@)])

SkipValue(m, v) ==
  CASE Peek(m, v) \in {"{", "["} -> Nest(Advance(m), Peek(m, v))
    [] TokenInvalid(v.win, Pos(m, v)) -> YieldErr(Advance(m), "syntax", Pos(m, v))
    [] OTHER -> Skipped(Advance(m))

SkipKey(m, v) ==
  IF Peek(m, v) # Quote THEN YieldErr(m, "syntax", Pos(m, v)) ELSE To(Advance(m), "colon")

SkipColon(m, v) ==
  IF Peek(m, v) = ":" THEN To(Advance(m), "value")
  ELSE YieldErr(Advance(m), "syntax", Pos(m, v))

SkipAfter(m, v) ==
  LET a == Advance(m)
      array == Last(m.skip.kinds) = "["
  IN  CASE Peek(m, v) = "," -> To(a, IF array THEN "value" ELSE "key")
        [] Peek(m, v) = (IF array THEN "]" ELSE "}") -> Unnest(a)
        [] OTHER -> YieldErr(a, "syntax", Pos(a, v))

(* At the end of input a missing colon is malformed, not truncated.        *)
SkipEof(m, v) ==
  IF v.final /\ m.skip.st = "colon" THEN YieldErr(m, "syntax", Pos(m, v))
  ELSE NeedInput(m, v, "skip")

Closes(m, v) ==
  \/ m.skip.st = "valueOrClose" /\ Peek(m, v) = "]"
  \/ m.skip.st = "keyOrClose" /\ Peek(m, v) = "}"

Skip(m, v) ==
  IF Eof(m, v) THEN SkipEof(m, v)
  ELSE IF Closes(m, v) THEN Unnest(Advance(m))
  ELSE CASE m.skip.st = "colon" -> SkipColon(m, v)
         [] m.skip.st = "after" -> SkipAfter(m, v)
         [] m.skip.st \in {"key", "keyOrClose"} -> SkipKey(m, v)
         [] m.skip.st \in {"value", "valueOrClose"} -> SkipValue(m, v)

(* One token of the walk.                                                  *)
Step(m, v) ==
  CASE m.phase = "start" -> DocumentStart(m, v)
    [] m.phase = "firstKey" -> ObjectFirstKey(m, v)
    [] m.phase = "field" -> ObjectField(m, v)
    [] m.phase = "fieldValue" -> ObjectFieldValue(m, v)
    [] m.phase = "objectContinue" -> ContinueWith(m, v, "}", "field")
    [] m.phase = "arrayFirst" -> ArrayFirst(m, v)
    [] m.phase = "arrayValue" -> ArrayValue(m, v, "arrayValue")
    [] m.phase = "arrayContinue" -> ContinueWith(m, v, "]", "arrayValue")
    [] m.phase = "skip" -> Skip(m, v)
=============================================================================
