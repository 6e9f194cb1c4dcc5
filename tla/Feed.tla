-------------------------------- MODULE Feed --------------------------------
(***************************************************************************)
(* The streaming Decoder of decode/bind: it reads a document in chunks the *)
(* reader chooses, keeps the unconsumed bytes in a window, mounts the      *)
(* window for the native walk, and leaves window and cursor in place for   *)
(* the next value.                                                         *)
(*                                                                         *)
(* fs is the Go feedState.  Offsets count from zero: fs.base is the offset *)
(* in the document of the window's first byte.  The string and tape arenas,*)
(* the raw scratch and the window's capacity are left out: they bound how  *)
(* much one read may deliver, which is MaxRead here.                       *)
(***************************************************************************)
EXTENDS BindWalk, FiniteSetsExt

CONSTANTS
  Cases,          \* a document, and the kinds of error the skip predicate
                  \* accepts, or Nil without a predicate
  MaxRead,        \* the most one Read delivers
  MaxZeroReads,   \* feedMaxZeroReads
  ReaderFails,    \* whether a Read may return an error
  Nil

ASSUME ReadAssumption == MaxRead \in Nat \ {0} /\ MaxZeroReads \in Nat
ASSUME CaseAssumption == \A c \in Cases : c.doc \in Seq(Char)
ASSUME ReaderAssumption == ReaderFails \in BOOLEAN

VARIABLES
  input,      \* the document
  accepts,    \* the skip predicate
  rd,         \* the bytes of it the reader has delivered
  fs,         \* the feedState
  mach,       \* the bind machine of the current parser
  type,       \* the parser's target type, or Nil before the first Decode
  err,        \* the sticky error
  pc,
  cause,      \* the error failDecode handles
  ret,        \* the last Decode: where it began, what it returned, and the
              \* boundary it left
  more        \* the last answer of More

given == <<input, accepts>>
vars == <<given, rd, fs, mach, type, err, pc, cause, ret, more>>

Recovers == accepts # Nil
Skips == IF Recovers THEN accepts ELSE {}

NoAnchor == [armed |-> FALSE, start |-> 0, found |-> FALSE, at |-> 0, resume |-> <<>>]
NewFeed == [win |-> <<>>, base |-> 0, final |-> FALSE, sawEOF |-> FALSE, zero |-> 0,
            scan |-> Scan(<<>>, FALSE), live |-> FALSE, consumed |-> 0,
            skip |-> NoAnchor]

View(f) == [win |-> f.win, idx |-> f.scan.idx, final |-> f.final, base |-> f.base]
Blank(w) == \A i \in 1 .. Len(w) : w[i] \in Space
SkipWS(w) == IF Blank(w) THEN Len(w)
             ELSE Min({o \in Offsets(w) : At(w, o) \notin Space})

(***************************************************************************)
(* The window                                                              *)
(***************************************************************************)
(* The newlines of the window from lo on, up to cut.                       *)
Newlines(f, lo, cut) == {o \in lo .. cut - 1 : At(f.win, o) = "n"}

(* Mutant: the search begins at the window's head.                         *)
BugAnchorOffset(f) == 0

AnchorOffset(f) == IF f.skip.start > f.base THEN f.skip.start - f.base ELSE 0

KeepDiscarded(f, cut) ==
  LET nl == Newlines(f, AnchorOffset(f), cut)
  IN  CASE f.skip.found -> [f.skip EXCEPT !.resume = @ \o SubSeq(f.win, 1, cut)]
        [] ~f.skip.found /\ nl = {} -> f.skip
        [] ~f.skip.found /\ nl # {} ->
             [f.skip EXCEPT !.found = TRUE, !.at = f.base + Min(nl) + 1,
                            !.resume = SubSeq(f.win, Min(nl) + 2, cut)]

(* Mutant: an empty tail leaves the base where it was.                     *)
BugCompact(f, cut) ==
  [f EXCEPT !.skip = IF cut > 0 /\ f.skip.armed THEN KeepDiscarded(f, cut) ELSE @,
            !.win = SubSeq(@, cut + 1, Len(@)),
            !.base = IF cut < Len(f.win) THEN @ + cut ELSE @,
            !.consumed = 0]

(* Mutant: the value boundary is not reset with the window.                *)
BugCompactKeepsBoundary(f, cut) ==
  [f EXCEPT !.skip = IF cut > 0 /\ f.skip.armed THEN KeepDiscarded(f, cut) ELSE @,
            !.win = SubSeq(@, cut + 1, Len(@)),
            !.base = @ + cut]

Compact(f, cut) ==
  [f EXCEPT !.skip = IF cut > 0 /\ f.skip.armed THEN KeepDiscarded(f, cut) ELSE @,
            !.win = SubSeq(@, cut + 1, Len(@)),
            !.base = @ + cut,
            !.consumed = 0]

Discard(f) == [f EXCEPT !.base = @ + Len(f.win), !.win = <<>>, !.consumed = 0]

Restage(f) ==
  [f EXCEPT !.win = f.skip.resume \o @, !.base = f.skip.at, !.consumed = 0]

(* Mutant: the cursor alone, which rests past a withheld tail.             *)
BugUnconsumed(f, m) == Pos(m, View(f))

(* The first byte the binder has not finished with.                        *)
Unconsumed(f, m) == Min({Pos(m, View(f)), f.scan.stable})

(* What one read of n bytes leaves behind, with the error fill returns.    *)
Read(f, n, e) ==
  LET z == IF e # "none" THEN f.zero
           ELSE IF n > 0 THEN 0 ELSE Min({f.zero + 1, MaxZeroReads + 1})
      g == [f EXCEPT !.win = @ \o SubSeq(input, rd + 1, rd + n), !.zero = z,
                     !.sawEOF = e = "eof"]
  IN  [f |-> g, n |-> n,
       err |-> CASE e = "reader" -> "reader"
                 [] e = "none" /\ n = 0 /\ z > MaxZeroReads -> "noProgress"
                 [] OTHER -> "none"]

(* fill: the end of input is asserted one fill after it was seen; bytes    *)
(* that come with an error are kept.                                       *)
Fills(f) ==
  IF f.sawEOF THEN {[f |-> [f EXCEPT !.final = TRUE], n |-> 0, err |-> "none"]}
  ELSE LET left == Len(input) - rd
       IN  {Read(f, n, "none") : n \in 0 .. Min({MaxRead, left})}
           \cup {Read(f, n, "eof") : n \in {left} \cap (0 .. MaxRead)}
           \cup {Read(f, n, "reader") : n \in IF ReaderFails THEN 0 .. Min({MaxRead, left}) ELSE {}}

Mount(f) == [f EXCEPT !.scan = Scan(f.win, f.final)]

(***************************************************************************)
(* Returning from a Decode                                                 *)
(***************************************************************************)
Goto(l) == pc' = l

Return(f, res, pos) ==
  /\ fs' = [f EXCEPT !.skip = NoAnchor]
  /\ ret' = [from |-> ret.to, type |-> type, res |-> res, pos |-> pos,
             to |-> f.base + f.consumed]
  /\ Goto("idle")

Fail(f, kind, pos) ==
  /\ fs' = f
  /\ cause' = [kind |-> kind, pos |-> pos]
  /\ Goto("fail")

(* serveInput: drop what the binder has consumed, read, and mount.         *)
ServeInput(l) ==
  \E r \in Fills(Compact(fs, Unconsumed(fs, mach))) :
    LET f == Mount(r.f) IN
    /\ rd' = rd + r.n
    /\ \/ /\ r.err # "none"
          /\ Fail(r.f, r.err, 0)
          /\ UNCHANGED mach
       \/ /\ r.err = "none" /\ ~f.scan.ok
          /\ Fail(f, "eof", 0)
          /\ UNCHANGED mach
       \/ /\ r.err = "none" /\ f.scan.ok
          /\ fs' = f
          /\ mach' = [mach EXCEPT !.cur = 1, !.out = "run"]
          /\ Goto(l)
          /\ UNCHANGED cause

(***************************************************************************)
(* Decode                                                                  *)
(***************************************************************************)
(* A call continues in a live window; a new target type gets a new machine,*)
(* for which no window is mounted.                                         *)
DecodeLive(t) ==
  /\ pc = "idle" /\ err = Nil
  /\ type = t /\ fs.live
  /\ Goto("position")
  /\ more' = "none"
  /\ UNCHANGED <<given, rd, fs, mach, type, err, cause, ret>>

DecodeFresh(t) ==
  /\ pc = "idle" /\ err = Nil
  /\ ~(type = t /\ fs.live)
  /\ type' = t
  /\ mach' = IF type = t THEN mach ELSE Bootstrap(t)
  /\ fs' = Compact([fs EXCEPT !.live = FALSE], fs.consumed)
  /\ Goto("skipToValue")
  /\ more' = "none"
  /\ UNCHANGED <<given, rd, err, cause, ret>>

DecodeSticky ==
  /\ pc = "idle" /\ err # Nil
  /\ UNCHANGED vars

Arm(f, o) ==
  IF Recovers THEN [f EXCEPT !.skip.armed = TRUE, !.skip.start = f.base + o] ELSE f

SkipToValueFound ==
  /\ pc = "skipToValue"
  /\ ~Blank(fs.win)
  /\ LET f == Mount(Arm(fs, SkipWS(fs.win)))
     IN  \/ /\ f.scan.ok
            /\ fs' = [f EXCEPT !.live = TRUE]
            /\ mach' = Bootstrap(type)
            /\ Goto("walk")
            /\ UNCHANGED cause
         \/ /\ ~f.scan.ok
            /\ Fail(f, "eof", 0)
            /\ UNCHANGED mach
  /\ UNCHANGED <<given, rd, type, err, ret, more>>

SkipToValueEnd ==
  /\ pc = "skipToValue"
  /\ Blank(fs.win) /\ fs.sawEOF
  /\ Return(fs, "EOF", 0)
  /\ UNCHANGED <<given, rd, mach, type, err, cause, more>>

SkipToValueRead ==
  /\ pc = "skipToValue"
  /\ Blank(fs.win) /\ ~fs.sawEOF
  /\ \E r \in Fills(Discard(fs)) :
       /\ rd' = rd + r.n
       /\ \/ /\ r.err = "none"
             /\ fs' = r.f
             /\ UNCHANGED <<err, pc, ret>>
          \/ /\ r.err # "none"
             /\ err' = r.err
             /\ Return(r.f, r.err, 0)
  /\ UNCHANGED <<given, mach, type, cause, more>>

PositionFound ==
  /\ pc = "position"
  /\ ~Eof(mach, View(fs))
  /\ fs' = Arm(fs, Pos(mach, View(fs)))
  /\ mach' = [Bootstrap(type) EXCEPT !.cur = mach.cur]
  /\ Goto("walk")
  /\ UNCHANGED <<given, rd, type, err, cause, ret, more>>

(* Mutant: a final window is read past again.                              *)
BugPositionEnd ==
  /\ pc = "position"
  /\ Eof(mach, View(fs)) /\ fs.final
  /\ UNCHANGED vars

PositionEnd ==
  /\ pc = "position"
  /\ Eof(mach, View(fs)) /\ fs.final
  /\ Return(fs, "EOF", 0)
  /\ UNCHANGED <<given, rd, mach, type, err, cause, more>>

PositionRead ==
  /\ pc = "position"
  /\ Eof(mach, View(fs)) /\ ~fs.final
  /\ ServeInput("position")
  /\ UNCHANGED <<given, type, err, ret, more>>

WalkStep ==
  /\ pc = "walk" /\ mach.out = "run"
  /\ mach' = Step(mach, View(fs))
  /\ UNCHANGED <<given, rd, fs, type, err, pc, cause, ret, more>>

WalkInput ==
  /\ pc = "walk" /\ mach.out = "input"
  /\ ServeInput("walk")
  /\ UNCHANGED <<given, type, err, ret, more>>

WalkDone ==
  /\ pc = "walk" /\ mach.out = "ok"
  /\ Return([fs EXCEPT !.consumed = Unconsumed(fs, mach)], "ok", 0)
  /\ UNCHANGED <<given, rd, mach, type, err, cause, more>>

(* An error position is local to the window unless it was promoted.        *)
WalkError ==
  /\ pc = "walk" /\ mach.out \in {"syntax", "eof", "type"}
  /\ Fail(fs, mach.out, IF mach.promoted THEN mach.pos ELSE mach.pos + fs.base)
  /\ UNCHANGED <<given, rd, mach, type, err, ret, more>>

(***************************************************************************)
(* failDecode                                                              *)
(***************************************************************************)
WalkCompleted == mach.phase = "end" /\ cause.kind = "type"

FailSkip ==
  /\ pc = "fail"
  /\ cause.kind \in Skips
  /\ fs' = [fs EXCEPT !.live = FALSE]
  /\ Goto("skipToNewline")
  /\ UNCHANGED <<given, rd, mach, type, err, cause, ret, more>>

FailConsumed ==
  /\ pc = "fail"
  /\ cause.kind \notin Skips /\ WalkCompleted
  /\ Return([fs EXCEPT !.consumed = Unconsumed(fs, mach)], cause.kind, cause.pos)
  /\ UNCHANGED <<given, rd, mach, type, err, cause, more>>

FailSticky ==
  /\ pc = "fail"
  /\ cause.kind \notin Skips /\ ~WalkCompleted
  /\ err' = cause.kind
  /\ Return(fs, cause.kind, cause.pos)
  /\ UNCHANGED <<given, rd, mach, type, cause, more>>

(* skipToNewline: the search begins at the failed value's first byte, or   *)
(* at the window's head when that byte has left the window.                *)
SkipStart == IF fs.skip.armed THEN AnchorOffset(fs) ELSE fs.consumed
LinesAhead == Newlines(fs, SkipStart, Len(fs.win))

SkipRestage ==
  /\ pc = "skipToNewline"
  /\ fs.skip.found
  /\ Return(Restage(fs), cause.kind, cause.pos)
  /\ UNCHANGED <<given, rd, mach, type, err, cause, more>>

SkipInWindow ==
  /\ pc = "skipToNewline"
  /\ ~fs.skip.found /\ LinesAhead # {}
  /\ LET cut == Min(LinesAhead) + 1
     IN  Return([fs EXCEPT !.win = SubSeq(@, cut + 1, Len(@)), !.base = @ + cut,
                           !.consumed = 0], cause.kind, cause.pos)
  /\ UNCHANGED <<given, rd, mach, type, err, cause, more>>

SkipAtEnd ==
  /\ pc = "skipToNewline"
  /\ ~fs.skip.found /\ LinesAhead = {} /\ fs.sawEOF
  /\ Return(Discard(fs), cause.kind, cause.pos)
  /\ UNCHANGED <<given, rd, mach, type, err, cause, more>>

SkipRead ==
  /\ pc = "skipToNewline"
  /\ ~fs.skip.found /\ LinesAhead = {} /\ ~fs.sawEOF
  /\ \E r \in Fills(Discard(fs)) :
       /\ rd' = rd + r.n
       /\ \/ /\ r.err = "none"
             /\ fs' = r.f
             /\ UNCHANGED <<err, pc, ret>>
          \/ /\ r.err # "none"
             /\ err' = r.err
             /\ Return(r.f, r.err, 0)
  /\ UNCHANGED <<given, mach, type, cause, more>>

(***************************************************************************)
(* More                                                                    *)
(***************************************************************************)
Answer(yes) == more' = IF yes THEN "yes" ELSE "no"

MoreLive ==
  /\ pc = "idle" /\ err = Nil
  /\ fs.live /\ ~Eof(mach, View(fs))
  /\ Answer(TRUE)
  /\ UNCHANGED <<given, rd, fs, mach, type, err, pc, cause, ret>>

(* Mutant: compacts to the cursor, past a withheld tail.                   *)
BugMoreCall ==
  /\ pc = "idle" /\ err = Nil
  /\ ~(fs.live /\ ~Eof(mach, View(fs)))
  /\ fs' = Compact([fs EXCEPT !.live = FALSE],
                   IF fs.live THEN Pos(mach, View(fs)) ELSE fs.consumed)
  /\ Goto("more")
  /\ more' = "none"
  /\ UNCHANGED <<given, rd, mach, type, err, cause, ret>>

MoreCall ==
  /\ pc = "idle" /\ err = Nil
  /\ ~(fs.live /\ ~Eof(mach, View(fs)))
  /\ fs' = Compact([fs EXCEPT !.live = FALSE],
                   IF fs.live THEN Unconsumed(fs, mach) ELSE fs.consumed)
  /\ Goto("more")
  /\ more' = "none"
  /\ UNCHANGED <<given, rd, mach, type, err, cause, ret>>

MoreFound ==
  /\ pc = "more"
  /\ ~Blank(fs.win) \/ fs.sawEOF
  /\ Answer(~Blank(fs.win))
  /\ Goto("idle")
  /\ UNCHANGED <<given, rd, fs, mach, type, err, cause, ret>>

MoreRead ==
  /\ pc = "more"
  /\ Blank(fs.win) /\ ~fs.sawEOF
  /\ \E r \in Fills(Discard(fs)) :
       /\ rd' = rd + r.n
       /\ fs' = r.f
       /\ \/ r.err = "none" /\ UNCHANGED <<pc, more>>
          \/ r.err # "none" /\ Goto("idle") /\ more' = "failed"
  /\ UNCHANGED <<given, mach, type, err, cause, ret>>

-----------------------------------------------------------------------------
Init ==
  /\ \E c \in Cases : input = c.doc /\ accepts = c.accepts
  /\ rd = 0
  /\ fs = NewFeed
  /\ type = Nil
  /\ mach \in {Bootstrap(t) : t \in {CHOOSE t \in Types : TRUE}}
  /\ err = Nil
  /\ pc = "idle"
  /\ cause = [kind |-> "none", pos |-> 0]
  /\ ret = [from |-> 0, type |-> Nil, res |-> "none", pos |-> 0, to |-> 0]
  /\ more = "none"

Call == \/ \E t \in Types : DecodeLive(t) \/ DecodeFresh(t)
        \/ DecodeSticky
        \/ MoreLive
        \/ MoreCall

Busy ==
  \/ SkipToValueFound \/ SkipToValueEnd \/ SkipToValueRead
  \/ PositionFound \/ PositionEnd \/ PositionRead
  \/ WalkStep \/ WalkInput \/ WalkDone \/ WalkError
  \/ FailSkip \/ FailConsumed \/ FailSticky
  \/ SkipRestage \/ SkipInWindow \/ SkipAtEnd \/ SkipRead
  \/ MoreFound \/ MoreRead

Next == Call \/ Busy

Spec == Init /\ [][Next]_vars
FairSpec == Spec /\ WF_vars(Busy)
-----------------------------------------------------------------------------
Results == {"none", "ok", "EOF", "eof", "syntax", "type", "reader", "noProgress"}
ASSUME NilAssumption == Types # {} /\ Nil \notin Types \cup Results

Phases == {"start", "firstKey", "field", "fieldValue", "objectContinue", "arrayFirst",
           "arrayValue", "arrayContinue", "skip", "end"}
Places == {"idle", "skipToValue", "position", "walk", "fail", "skipToNewline", "more"}

(* Every variable keeps its shape, no offset leaves the document, and the  *)
(* stable prefix never reaches past the window.                            *)
TypeOK ==
  /\ input \in Seq(Char) /\ rd \in 0 .. Len(input)
  /\ fs.base \in 0 .. rd /\ Len(fs.win) <= rd
  /\ fs.consumed \in 0 .. Len(fs.win)
  /\ fs.live /\ pc # "fail" /\ err = Nil => fs.scan.stable \in 0 .. Len(fs.win)
  /\ mach.phase \in Phases /\ mach.stack \in Seq(Types) /\ mach.cur \in Nat \ {0}
  /\ type \in Types \cup {Nil} /\ err \in Results \cup {Nil} /\ pc \in Places
  /\ cause.kind \in Results /\ ret.res \in Results
  /\ ret.from \in 0 .. Len(input) /\ ret.to \in ret.from .. Len(input)
  /\ more \in {"none", "yes", "no", "failed"}

(* The window is the part of the document between base and the bytes read, *)
(* and what recovery kept is the part right before it: compaction, refills *)
(* and restaging neither lose, repeat nor move a byte.                     *)
WindowFaithful ==
  /\ fs.base + Len(fs.win) = rd
  /\ fs.win = SubSeq(input, fs.base + 1, rd)
  /\ fs.skip.found =>
       /\ fs.skip.at + Len(fs.skip.resume) = fs.base
       /\ fs.skip.resume = SubSeq(input, fs.skip.at + 1, fs.base)

(* Every call returns, whatever the reader's chunking: the end of input is *)
(* asserted, and a reader that delivers nothing is given up on.            *)
DecodeReturns == pc # "idle" ~> pc = "idle"
=============================================================================
