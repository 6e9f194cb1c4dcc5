------------------------------ MODULE FeedRef -------------------------------
(***************************************************************************)
(* What a chunked Decode must agree with: the walk of the whole remaining  *)
(* document in one window.                                                 *)
(***************************************************************************)
EXTENDS Feed

Rest(from) == SubSeq(input, from + 1, Len(input))
NextToken(from) == from + SkipWS(Rest(from))

(* The rest of the document as one window.  A string that never closes is  *)
(* not a token, and input past it is never complete.                       *)
RestView(from) ==
  LET w == Rest(from)
      all == Structurals(w)
      open == InString(w, Len(w))
  IN  [win |-> w, base |-> from, final |-> ~open,
       idx |-> IF open THEN Front(all) ELSE all,
       end |-> IF open THEN Last(all) ELSE Len(w)]

RECURSIVE Run(_, _)
Run(m, v) == IF m.out # "run" THEN m ELSE Run(Step(m, v), v)

Ref(from, t) ==
  LET v == RestView(from)
      m == Run(Bootstrap(t), v)
  IN  IF Blank(v.win) THEN [res |-> "EOF", pos |-> 0, next |-> Len(input), whole |-> FALSE]
      ELSE [res |-> IF m.out = "input" THEN "eof" ELSE m.out,
            pos |-> from + m.pos, next |-> from + Min({Pos(m, v), v.end}),
            whole |-> m.whole]

(* Just past the first newline at or after o, or the end of the document.  *)
LineAfter(o) ==
  LET nl == {i \in o .. Len(input) - 1 : At(input, i) = "n"}
  IN  IF nl = {} THEN Len(input) ELSE Min(nl) + 1

Returned == pc = "idle" /\ ret.type # Nil
FromReader == ret.res \in {"reader", "noProgress"}
Judged == Returned /\ ~FromReader

-----------------------------------------------------------------------------
(* Decode returns for every chunking of the document what it returns when  *)
(* the document arrives whole: the same value or the same kind of error.   *)
(* Excepted are documents that end in an open string when recovery is on:  *)
(* restaged lines are mounted as final, and the mount fails as a whole.    *)
ResultParity ==
  Judged /\ ~(Recovers /\ InString(input, Len(input)))
    => ret.res = Ref(ret.from, ret.type).res

(* A type mismatch names the same offset of the document however many      *)
(* windows have passed since it was recorded.                              *)
MismatchOffsetParity ==
  Judged /\ ret.res = "type" => ret.pos = Ref(ret.from, ret.type).pos

(* A value that was consumed, bound or not, leaves the Decoder at the same *)
(* next value whatever the window edges were.                              *)
BoundaryParity ==
  Judged /\ ret.res \notin Skips /\ Ref(ret.from, ret.type).whole =>
    NextToken(ret.to) = NextToken(Ref(ret.from, ret.type).next)

(* Recovery resumes on the line after the one the failed value starts on,  *)
(* whatever the window did meanwhile.                                      *)
ResumesOnNextLine ==
  Judged /\ ret.res \in Skips => ret.to = LineAfter(NextToken(ret.from))

(* More answers for the bytes past the last boundary, read or not.         *)
MoreTruthful ==
  pc = "idle" /\ more \in {"yes", "no"} => (more = "yes" <=> ~Blank(Rest(ret.to)))

(* Chunking cannot be seen in a result: value, kind of error and mismatch  *)
(* offset are those of the whole document.                                 *)
ChunkingInvisible == TypeOK /\ ResultParity /\ MismatchOffsetParity

(* Nor in where a call leaves the Decoder: after a value it consumed, or   *)
(* on the line after one it skipped; and More tells the truth about what   *)
(* follows.                                                                *)
BoundariesKept == BoundaryParity /\ ResumesOnNextLine /\ MoreTruthful
=============================================================================
