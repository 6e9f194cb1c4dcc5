----------------------------- MODULE StreamScope ----------------------------
(***************************************************************************)
(* Field-local streaming: the native walk yields inside a stream array, the *)
(* driver activates the field's handler, and the handler drives the walk   *)
(* on from inside that activation, which may activate nested handlers.     *)
(*                                                                         *)
(* The Go call stack is explicit: acts holds the activations in progress,  *)
(* each with the drive it waits in, and go says where the innermost one    *)
(* is.  A document is a sequence of stream arrays, nested to a depth its   *)
(* type gives; at the last level an array holds plain elements (a leaf stream, bound a batch  *)
(* at a time), above it each element holds one inner stream (bound one     *)
(* element at a time into a single slot).  What an element binds, arena    *)
(* views and retention are left out; of a plain element the model keeps    *)
(* whether binding it fails at once, or stages a hook that fails when it   *)
(* is run, and of a value that holds a stream whether a field before or    *)
(* after the stream stages such a hook.                                    *)
(***************************************************************************)
EXTENDS Integers, Sequences, SequencesExt, FiniteSets

CONSTANTS
  Docs,       \* documents: a body, the depth of its streams, the batch that
              \* a leaf stream's backing holds, and what a handler at each
              \* level may do; before and after are the arrays whose
              \* holder stages a failing hook ahead of or behind them
  Width       \* the longest array of a document

AllMoves == {"decode", "skip", "continue", "break", "signal", "ignore", "idle", "fail"}

(* Plain elements are 0, except:                                           *)
Rejects == 1      \* the walk stops with an error
HookFails == 2    \* a deferred hook, run at the next settle, fails

ASSUME DocsAssumption ==
  \A d \in Docs : /\ d.depth \in Nat \ {0} /\ d.batch \in Nat \ {0}
                 /\ d.moves \in [1 .. d.depth -> SUBSET AllMoves]

VARIABLES
  doc,
  nat,      \* the native machine
  acts,     \* the activations in progress, outermost first
  go,       \* native: running; stopped: it yielded; served: the yield was
            \* served; handler: in the innermost handler; failing: a drive
            \* returns an error
  staged,   \* a hook that fails is staged or recorded
  log,      \* the elements handed to handlers, in order
  left,     \* the arrays a handler gave up, or was given up by a signal
  erred,    \* an error has been reported
  result    \* what the parse returned

vars == <<doc, nat, acts, go, staged, log, left, erred, result>>
hist == <<log, left, erred, result>>

None == <<>>
Err == <<0>>
NonLeaf(l) == l < doc.depth
Cap(l) == IF NonLeaf(l) THEN 1 ELSE doc.batch

(***************************************************************************)
(* The native machine: a frame per open array with the next element, the   *)
(* element count since the backing was reset, the length in the slice      *)
(* header and the stream-skip flag of its type.  Paths name arrays and     *)
(* elements; an address names a Stream field, whose slot every element of  *)
(* the outer array reuses.                                                 *)
(***************************************************************************)
Top == Last(nat.frames)
Level == Len(nat.frames)
AddrOf(path) == <<path[1], Len(path)>>
Here == AddrOf(Top.path)
SetTop(f) == [nat.frames EXCEPT ![Level] = f]

Native(n) == /\ go = "native" /\ nat' = n
             /\ UNCHANGED <<doc, acts, hist>>
Runs(n) == Native(n) /\ go' = "native" /\ UNCHANGED staged
Stops(n) == Native([n EXCEPT !.pend = "grow"]) /\ go' = "stopped"
Yields(n) == Stops(n) /\ UNCHANGED staged

Push(frames, arr, path) ==
  Append(frames, [arr |-> arr, path |-> path, next |-> 1, count |-> 0, len |-> 0,
                  skip |-> FALSE, data |-> FALSE])

(* An array opens: an empty one yields its close at once, any other yields *)
(* for its backing.                                                        *)
Open(n, frames, arr) ==
  /\ Stops([n EXCEPT !.frames = frames, !.phase = IF arr = <<>> THEN "close" ELSE "value",
                     !.target = AddrOf(Last(frames).path)])
  /\ staged' = (staged \/ Last(frames).path \in doc.before)

RootNext ==
  /\ nat.phase = "continue" /\ nat.frames = <<>>
  /\ nat.top < Len(doc.body)
  /\ LET t == nat.top + 1
     IN  Open([nat EXCEPT !.top = t], Push(nat.frames, doc.body[t], <<t>>), doc.body[t])

RootEnd ==
  /\ \/ nat.phase = "done"
     \/ nat.phase = "continue" /\ nat.frames = <<>> /\ nat.top = Len(doc.body)
  /\ Native([nat EXCEPT !.phase = "done", !.pend = "none"])
  /\ go' = "stopped"
  /\ UNCHANGED staged

CapFull ==
  /\ nat.phase = "value" /\ Top.count = Cap(Level)
  /\ Yields([nat EXCEPT !.target = Here])

SkipElement ==
  /\ nat.phase \in {"value", "valueBegin"}
  /\ Top.skip
  /\ nat.phase = "value" => Top.count # Cap(Level)
  /\ Runs([nat EXCEPT !.frames = SetTop([Top EXCEPT !.next = @ + 1]), !.phase = "continue"])

(* An element that holds a stream yields before its body is bound.         *)
ElementSlot ==
  /\ nat.phase = "value" /\ NonLeaf(Level)
  /\ ~Top.skip /\ Top.count # Cap(Level)
  /\ Yields([nat EXCEPT !.phase = "valueBegin", !.target = Here])

Consumed == [Top EXCEPT !.next = @ + 1, !.count = @ + 1]

Leaf == nat.phase = "value" /\ ~NonLeaf(Level) /\ ~Top.skip /\ Top.count # Cap(Level)

BindLeaf ==
  /\ Leaf /\ Top.arr[Top.next] # Rejects
  /\ Native([nat EXCEPT !.frames = SetTop(Consumed), !.phase = "continue"])
  /\ staged' = (staged \/ Top.arr[Top.next] = HookFails)
  /\ go' = "native"

BindError ==
  /\ Leaf /\ Top.arr[Top.next] = Rejects
  /\ Native([nat EXCEPT !.frames = SetTop(Consumed), !.phase = "done",
                       !.pend = "error"])
  /\ go' = "stopped"
  /\ UNCHANGED staged

BindBody ==
  /\ nat.phase = "valueBegin" /\ ~Top.skip
  /\ LET inner == Top.arr[Top.next]
     IN  Open(nat, Push(SetTop(Consumed), inner, Append(Top.path, Top.next)), inner)

NextElement ==
  /\ nat.phase = "continue" /\ nat.frames # <<>>
  /\ Top.next <= Len(Top.arr)
  /\ Runs([nat EXCEPT !.frames = SetTop([Top EXCEPT !.len = Top.count]), !.phase = "value"])

(* The close yields once with the final batch, unless the array is being   *)
(* skipped.                                                                *)
EndYields ==
  /\ nat.phase = "continue" /\ nat.frames # <<>>
  /\ Top.next > Len(Top.arr) /\ ~Top.skip
  /\ Yields([nat EXCEPT !.frames = SetTop([Top EXCEPT !.len = Top.count]),
                        !.phase = "close", !.target = Here])

Pops ==
  /\ nat.frames # <<>>
  /\ \/ nat.phase = "close"
     \/ nat.phase = "continue" /\ Top.next > Len(Top.arr) /\ Top.skip
  /\ Native([nat EXCEPT !.frames = Front(@), !.phase = "continue"])
  /\ go' = "native"
  /\ staged' = (staged \/ Top.path \in doc.after)

(***************************************************************************)
(* Break signals: a signal is the address of the scope it is for.          *)
(***************************************************************************)
Stashed == {i \in DOMAIN acts : acts[i].sig # None}
AnyBreak == IF Stashed = {} THEN None
            ELSE acts[CHOOSE i \in Stashed : \A j \in Stashed : j <= i].sig

Act == Last(acts)
SetAct(a) == [acts EXCEPT ![Len(acts)] = a]

(* The array the machine stopped in skips its remaining elements.          *)
ArmDrain(n) ==
  IF n.frames = <<>> THEN n
  ELSE [n EXCEPT !.frames[Len(n.frames)].skip = TRUE,
                 !.frames[Len(n.frames)].count = IF n.phase = "value" THEN 0 ELSE @]

DrainRemaining ==
  IF nat.frames = <<>> THEN nat ELSE [nat EXCEPT !.frames = SetTop([Top EXCEPT !.skip = TRUE])]

Reset(n) == [n EXCEPT !.frames[Len(n.frames)].count = 0, !.frames[Len(n.frames)].len = 0,
                      !.frames[Len(n.frames)].data = TRUE]

(* The field's backing is dropped with its activation.                     *)
Dropped(n, addr) ==
  [n EXCEPT !.frames = [i \in DOMAIN @ |-> IF AddrOf(@[i].path) = addr
                                           THEN [@[i] EXCEPT !.data = FALSE] ELSE @[i]]]

(***************************************************************************)
(* The drive                                                               *)
(***************************************************************************)
(* Mutant: any stream's yield stops the drive.                             *)
BugReason(a) ==
  CASE AnyBreak # None -> "break"
    [] AnyBreak = None /\ nat.pend = "none" -> "done"
    [] AnyBreak = None /\ nat.pend = "error" -> "none"
    [] AnyBreak = None /\ nat.pend = "grow" ->
         CASE nat.phase = "close" -> "closed"
           [] nat.phase = "valueBegin" /\ a.nonleaf -> "element"
           [] nat.phase = "value" /\ ~a.nonleaf -> "batch"
           [] OTHER -> "none"

(* What the machine's state means to the scope of activation a.            *)
Reason(a) ==
  CASE AnyBreak # None -> "break"
    [] AnyBreak = None /\ nat.pend = "none" -> "done"
    [] AnyBreak = None /\ nat.pend = "error" -> "none"
    [] AnyBreak = None /\ nat.pend = "grow" /\ nat.target # a.addr -> "none"
    [] AnyBreak = None /\ nat.pend = "grow" /\ nat.target = a.addr ->
         CASE nat.phase = "close" -> "closed"
           [] nat.phase = "valueBegin" /\ a.nonleaf -> "element"
           [] nat.phase = "value" /\ ~a.nonleaf -> "batch"
           [] OTHER -> "none"

(* Mutant: the drain halts at a pending signal like every other drive.     *)
BugDrainStop(a) == Reason(a) # "none"

(* The drain after a handler ignores signals.                              *)
DrainStop(a) ==
  /\ nat.pend = "grow" /\ nat.target = a.addr
  /\ nat.phase \in {"close", IF a.nonleaf THEN "valueBegin" ELSE "value"}

Stop(a) == IF a.mode = "drain" THEN DrainStop(a) \/ nat.pend = "none"
           ELSE Reason(a) # "none"

Halted == /\ go \in {"stopped", "served"} /\ acts # <<>> /\ Stop(Act)
Yielded == /\ go = "stopped" /\ ~(acts # <<>> /\ Stop(Act))
Serving == Yielded /\ nat.pend = "grow"

Resume ==
  /\ go = "served"
  /\ ~(acts # <<>> /\ Stop(Act))
  /\ go' = "native"
  /\ UNCHANGED <<doc, nat, acts, staged, hist>>

(* The outermost drive returns, settles what is staged and reports it.     *)
Root ==
  /\ go = "stopped" /\ acts = <<>> /\ nat.pend = "none"
  /\ go' = "finished"
  /\ result' = IF staged THEN "error" ELSE "ok"
  /\ erred' = (erred \/ staged)
  /\ UNCHANGED <<doc, nat, acts, staged, log, left>>

RootFails ==
  /\ go = "failing" /\ acts = <<>>
  /\ go' = "finished"
  /\ result' = "error"
  /\ UNCHANGED <<doc, nat, acts, staged, log, left, erred>>

ServeError ==
  /\ Yielded /\ nat.pend = "error"
  /\ go' = "failing"
  /\ erred' = TRUE
  /\ UNCHANGED <<doc, nat, acts, staged, log, left, result>>

(* Mutant: the scope on top of the stack is not recognised.                *)
BugOwn == FALSE

Own == acts # <<>> /\ Act.addr = nat.target

(* Mutant: the full backing is not emptied before the walk resumes.        *)
BugServeOwn ==
  /\ Serving /\ Own
  /\ go' = "served"
  /\ UNCHANGED <<doc, nat, acts, staged, hist>>

(* The backing of the scope on top of the stack is full: reuse its slot.   *)
ServeOwn ==
  /\ Serving /\ Own
  /\ nat' = Reset(nat)
  /\ go' = "served"
  /\ UNCHANGED <<doc, acts, staged, hist>>

NewAct ==
  [addr |-> nat.target, path |-> Top.path, nonleaf |-> NonLeaf(Level), sig |-> None,
   mode |-> "handler", atEnd |-> FALSE, skipRemaining |-> FALSE, batch |-> 0, base |-> 0,
   cursor |-> 0, iter |-> "before", item |-> "none", got |-> None, err |-> FALSE]

Foreign == Serving /\ ~Own

(* With a signal pending the array drains and its handler does not run.    *)
ServeUnderBreak ==
  /\ Foreign /\ AnyBreak # None
  /\ nat' = Dropped(ArmDrain(nat), nat.target)
  /\ go' = "served"
  /\ UNCHANGED <<doc, acts, staged, hist>>

(* The first batch view: the unbound slot of one element, or the elements  *)
(* bound so far.                                                           *)
Seeded(a, reason) ==
  [a EXCEPT !.mode = "handler", !.atEnd = reason \notin {"element", "batch"},
            !.batch = IF reason = "element" THEN 1 ELSE Top.len,
            !.base = IF reason = "element" THEN Top.next - 1 ELSE Top.next - 1 - Top.len]

(* Activation: with no backing yet, one is installed and the first batch   *)
(* driven.                                                                 *)
ServeFill ==
  /\ Foreign /\ AnyBreak = None
  /\ ~Top.data /\ Reason(NewAct) # "closed"
  /\ acts' = Append(acts, [NewAct EXCEPT !.mode = "seed"])
  /\ nat' = Reset(nat)
  /\ go' = "native"
  /\ UNCHANGED <<doc, staged, hist>>

(* What was staged before is settled first, unless the activation hands    *)
(* over a slot that is not bound yet.                                      *)
ReadyToActivate == Foreign /\ AnyBreak = None /\ (Top.data \/ Reason(NewAct) = "closed")

ServeActivate ==
  /\ ReadyToActivate
  /\ Reason(NewAct) # "element" => ~staged
  /\ acts' = Append(acts, Seeded(NewAct, Reason(NewAct)))
  /\ go' = "handler"
  /\ UNCHANGED <<doc, nat, staged, hist>>

(* Mutant: the seeding batch is handed over unsettled.                     *)
BugSeedDone ==
  /\ Halted /\ Act.mode = "seed"
  /\ acts' = SetAct(Seeded(Act, Reason(Act)))
  /\ go' = "handler"
  /\ UNCHANGED <<doc, nat, staged, hist>>

(* A batch is settled before a handler reads it: its hooks run, and one    *)
(* that failed ends the activation.                                        *)
SeedDone ==
  /\ Halted /\ Act.mode = "seed"
  /\ Reason(Act) # "element" => ~staged
  /\ acts' = SetAct(Seeded(Act, Reason(Act)))
  /\ go' = "handler"
  /\ UNCHANGED <<doc, nat, staged, hist>>

(***************************************************************************)
(* Leaving an activation                                                   *)
(***************************************************************************)
(* serveStreamBatch returns an error to the drive around it.               *)
Unwind(n) ==
  /\ nat' = Dropped(n, Act.addr)
  /\ acts' = Front(acts)
  /\ go' = "failing"
  /\ erred' = TRUE

ActivateSettleFails ==
  /\ ReadyToActivate
  /\ Reason(NewAct) # "element" /\ staged
  /\ nat' = Dropped(nat, nat.target)
  /\ go' = "failing"
  /\ erred' = TRUE
  /\ UNCHANGED <<doc, acts, staged, log, left, result>>

SeedSettleFails ==
  /\ Halted /\ Act.mode = "seed"
  /\ Reason(Act) # "element" /\ staged
  /\ Unwind(nat)
  /\ UNCHANGED <<doc, staged, log, left, result>>

FailDrive ==
  /\ go = "failing" /\ acts # <<>> /\ Act.mode \in {"seed", "drain"}
  /\ Unwind(nat)
  /\ UNCHANGED <<doc, staged, log, left, result>>

Stash(s, addr) ==
  LET hits == {i \in DOMAIN s : s[i].addr = addr}
  IN  IF hits = {} THEN s
      ELSE [s EXCEPT ![CHOOSE i \in hits : \A j \in hits : j <= i].sig = addr]

(* A handler that returns a signal: drain here, stash it on its target.    *)
(* An error the scope kept takes precedence over what the handler returns. *)
ExitSignal(n, sig) ==
  \/ /\ ~Act.err
     /\ nat' = Dropped(ArmDrain(n), Act.addr)
     /\ acts' = Front(Stash(acts, sig))
     /\ go' = "served"
     /\ UNCHANGED erred
  \/ /\ Act.err
     /\ Unwind(n)

AtOwnClose(n) == n.phase = "close" /\ n.target = Act.addr

(* A handler that returns nil: at its own close it is done, else the rest  *)
(* of the array is drained.                                                *)
ExitNil(n) ==
  \/ /\ ~Act.err /\ AtOwnClose(n)
     /\ nat' = Dropped(n, Act.addr)
     /\ acts' = Front(acts)
     /\ go' = "served"
     /\ UNCHANGED erred
  \/ /\ ~Act.err /\ ~AtOwnClose(n)
     /\ nat' = n
     /\ acts' = SetAct([Act EXCEPT !.mode = "drain", !.item = "none"])
     /\ go' = "native"
     /\ UNCHANGED erred
  \/ /\ Act.err
     /\ Unwind(n)

DrainDone ==
  /\ Halted /\ Act.mode = "drain"
  /\ nat' = Dropped(ArmDrain(nat), Act.addr)
  /\ acts' = Front(acts)
  /\ go' = "served"
  /\ UNCHANGED <<doc, staged, hist>>

(***************************************************************************)
(* The handler: it may leave without iterating, and for each item it       *)
(* decodes, skips the rest, breaks off, or returns a signal for a scope in *)
(* progress; a signal a Decode returned it acts on or ignores.             *)
(***************************************************************************)
InHandler == go = "handler"
May(m) == m \in doc.moves[Len(Act.path)]
GiveUp == left' = left \cup {Act.path}

(* An inner stream has a handler when the outer one's registered it on the *)
(* element it decodes.                                                     *)
Registered ==
  \/ Len(Act.path) = 1
  \/ Len(acts) > 1 /\ acts[Len(acts) - 1].mode = "decode"

(* With no handler, or one that does not iterate.                          *)
HandlerIdle ==
  /\ InHandler /\ Act.iter = "before"
  /\ ~Registered \/ May("idle")
  /\ GiveUp /\ ExitNil(nat)
  /\ UNCHANGED <<doc, staged, log, result>>

IterBegin ==
  /\ InHandler /\ Act.iter = "before" /\ Registered
  /\ acts' = SetAct([Act EXCEPT !.iter = "advance"])
  /\ UNCHANGED <<doc, nat, go, staged, hist>>

IterEnd(n) ==
  /\ acts' = SetAct([Act EXCEPT !.iter = "after", !.item = "none"])
  /\ nat' = n
  /\ UNCHANGED <<doc, go, staged, hist>>

IterItem ==
  /\ InHandler /\ Act.iter = "advance" /\ ~Act.skipRemaining
  /\ Act.cursor < Act.batch
  /\ acts' = SetAct([Act EXCEPT !.cursor = @ + 1, !.iter = "loop", !.item = "pending"])
  /\ log' = Append(log, Append(Act.path, Act.base + Act.cursor + 1))
  /\ UNCHANGED <<doc, nat, go, staged, left, erred, result>>

IterSkipped ==
  /\ InHandler /\ Act.iter = "advance" /\ Act.skipRemaining
  /\ IterEnd(DrainRemaining)

AtBatchEnd == InHandler /\ Act.iter = "advance" /\ ~Act.skipRemaining /\ Act.cursor = Act.batch

NextUnderBreak == AtBatchEnd /\ AnyBreak # None /\ IterEnd(DrainRemaining)
NextAtEnd == AtBatchEnd /\ AnyBreak = None /\ Act.atEnd /\ IterEnd(nat)

(* The next element's slot is the one the last Decode advanced to.         *)
NextSlot ==
  /\ AtBatchEnd /\ AnyBreak = None /\ ~Act.atEnd /\ Act.nonleaf
  /\ acts' = SetAct([Act EXCEPT !.batch = 1, !.cursor = 0, !.base = Top.next - 1])
  /\ UNCHANGED <<doc, nat, go, staged, hist>>

NextBatch ==
  /\ AtBatchEnd /\ AnyBreak = None /\ ~Act.atEnd /\ ~Act.nonleaf
  /\ nat' = Reset(nat)
  /\ acts' = SetAct([Act EXCEPT !.mode = "next"])
  /\ go' = "native"
  /\ UNCHANGED <<doc, staged, hist>>

(* Mutant: the final batch that comes with the close is dropped.           *)
BugBatchDone ==
  /\ Halted /\ Act.mode = "next"
  /\ LET a == [Act EXCEPT !.mode = "handler", !.atEnd = @ \/ Reason(Act) = "closed"]
     IN  acts' = SetAct(IF Reason(Act) = "batch"
                        THEN [a EXCEPT !.batch = Top.len, !.cursor = 0,
                                       !.base = Top.next - 1 - Top.len]
                        ELSE [a EXCEPT !.iter = "after", !.item = "none"])
  /\ go' = "handler"
  /\ UNCHANGED <<doc, nat, staged, hist>>

(* Mutant: the cursor is not reset for the new batch.                      *)
BugBatchKeepsCursor ==
  /\ Halted /\ Act.mode = "next"
  /\ LET r == Reason(Act)
         a == [Act EXCEPT !.mode = "handler", !.atEnd = @ \/ r = "closed"]
     IN  acts' = SetAct(IF r \in {"batch", "closed"} /\ Top.len > 0
                        THEN [a EXCEPT !.batch = Top.len, !.base = Top.next - 1 - Top.len]
                        ELSE [a EXCEPT !.iter = "after", !.item = "none"])
  /\ go' = "handler"
  /\ UNCHANGED <<doc, nat, staged, hist>>

BatchDone ==
  /\ Halted /\ Act.mode = "next" /\ ~staged
  /\ LET r == Reason(Act)
         a == [Act EXCEPT !.mode = "handler", !.atEnd = @ \/ r = "closed"]
     IN  acts' = SetAct(IF r \in {"batch", "closed"} /\ Top.len > 0
                        THEN [a EXCEPT !.batch = Top.len, !.cursor = 0,
                                       !.base = Top.next - 1 - Top.len]
                        ELSE [a EXCEPT !.iter = "after", !.item = "none"])
  /\ go' = "handler"
  /\ UNCHANGED <<doc, nat, staged, hist>>

(* A drive or a settle that fails ends the iteration, and the scope keeps  *)
(* the error.                                                              *)
Failed == [Act EXCEPT !.mode = "handler", !.err = TRUE, !.atEnd = TRUE]

(* Mutant: the iteration ends, and its error is lost.                      *)
BugFailNext ==
  /\ Act.mode = "next"
  /\ acts' = SetAct([Failed EXCEPT !.iter = "after", !.item = "none", !.err = FALSE])
  /\ go' = "handler"
  /\ erred' = TRUE
  /\ UNCHANGED <<doc, nat, staged, log, left, result>>

FailNext ==
  /\ Act.mode = "next"
  /\ acts' = SetAct([Failed EXCEPT !.iter = "after", !.item = "none"])
  /\ go' = "handler"
  /\ erred' = TRUE
  /\ UNCHANGED <<doc, nat, staged, log, left, result>>

NextFails == go = "failing" /\ acts # <<>> /\ FailNext
NextSettleFails == Halted /\ staged /\ FailNext

Looping == InHandler /\ Act.iter = "loop"

DecodeBound ==
  /\ Looping /\ Act.item = "pending" /\ ~Act.nonleaf /\ May("decode")
  /\ acts' = SetAct([Act EXCEPT !.item = "used", !.got = AnyBreak])
  /\ UNCHANGED <<doc, nat, go, staged, hist>>

DecodeBody ==
  /\ Looping /\ Act.item = "pending" /\ Act.nonleaf /\ May("decode")
  /\ acts' = SetAct([Act EXCEPT !.item = "used", !.mode = "decode"])
  /\ go' = "native"
  /\ UNCHANGED <<doc, nat, staged, hist>>

(* Mutant: the end of the array is not recorded.                           *)
BugDecodeDone ==
  /\ Halted /\ Act.mode = "decode" /\ ~staged
  /\ acts' = SetAct([Act EXCEPT !.mode = "handler", !.got = AnyBreak])
  /\ go' = "handler"
  /\ UNCHANGED <<doc, nat, staged, hist>>

(* Mutant: an element is handed back before its hooks have run.            *)
BugDecodeUnsettled ==
  /\ Halted /\ Act.mode = "decode"
  /\ acts' = SetAct([Act EXCEPT !.mode = "handler", !.got = AnyBreak,
                                !.atEnd = @ \/ Reason(Act) # "element"])
  /\ go' = "handler"
  /\ UNCHANGED <<doc, nat, staged, hist>>

DecodeDone ==
  /\ Halted /\ Act.mode = "decode" /\ ~staged
  /\ acts' = SetAct([Act EXCEPT !.mode = "handler", !.got = AnyBreak,
                                !.atEnd = @ \/ Reason(Act) # "element"])
  /\ go' = "handler"
  /\ UNCHANGED <<doc, nat, staged, hist>>

(* Mutant: the iteration goes on.                                          *)
BugDecodeFails ==
  /\ go = "failing" /\ acts # <<>> /\ Act.mode = "decode"
  /\ acts' = SetAct([Failed EXCEPT !.atEnd = FALSE, !.got = Err])
  /\ go' = "handler"
  /\ UNCHANGED <<doc, nat, staged, hist>>

DecodeFails ==
  /\ go = "failing" /\ acts # <<>> /\ Act.mode = "decode"
  /\ acts' = SetAct([Failed EXCEPT !.got = Err])
  /\ go' = "handler"
  /\ UNCHANGED <<doc, nat, staged, hist>>

(* The body is bound, and settling what it staged fails.                   *)
DecodeSettleFails ==
  /\ Halted /\ Act.mode = "decode" /\ staged
  /\ acts' = SetAct([Failed EXCEPT !.got = Err])
  /\ go' = "handler"
  /\ erred' = TRUE
  /\ UNCHANGED <<doc, nat, staged, log, left, result>>

ItemSkip ==
  /\ Looping /\ Act.item = "pending" /\ May("skip")
  /\ acts' = SetAct([Act EXCEPT !.item = "used", !.skipRemaining = TRUE])
  /\ GiveUp
  /\ UNCHANGED <<doc, nat, go, staged, log, erred, result>>

LoopContinue ==
  /\ Looping
  /\ Act.item = "used" \/ May("continue")
  /\ Act.got = None \/ May("ignore")
  /\ acts' = SetAct([Act EXCEPT !.iter = "advance", !.item = "none", !.got = None])
  /\ UNCHANGED <<doc, nat, go, staged, hist>>

(* Leaving the loop body, by break or by return, drains from where the     *)
(* machine is.                                                             *)
LoopBreak ==
  /\ Looping
  /\ (Act.got \in {None, Err} /\ May("break")) \/ Act.got = Act.addr
  /\ GiveUp /\ ExitNil(DrainRemaining)
  /\ UNCHANGED <<doc, staged, log, result>>

(* A scope is valid inside its handler: those around this one.             *)
Enclosing == {i \in DOMAIN acts : IsPrefix(acts[i].path, Act.path)}
Signals(i) == left' = left \cup {Act.path, acts[i].path}

LoopSignal ==
  /\ Looping /\ Act.got = None /\ May("signal")
  /\ \E i \in Enclosing : ExitSignal(DrainRemaining, acts[i].addr) /\ Signals(i)
  /\ UNCHANGED <<doc, staged, log, result>>

LoopPropagate ==
  /\ Looping /\ Act.got \notin {None, Act.addr}
  /\ ExitSignal(DrainRemaining, Act.got)
  /\ GiveUp
  /\ UNCHANGED <<doc, staged, log, result>>

HandlerSignal ==
  /\ InHandler /\ Act.iter \in {"before", "after"} /\ Registered /\ May("signal")
  /\ AnyBreak = None
  /\ \E i \in Enclosing : ExitSignal(nat, acts[i].addr) /\ Signals(i)
  /\ UNCHANGED <<doc, staged, log, result>>

HandlerReturn ==
  /\ InHandler /\ Act.iter = "after"
  /\ ExitNil(nat)
  /\ UNCHANGED <<doc, staged, log, left, result>>

(* A handler that returns an error of its own.                             *)
HandlerFails ==
  /\ InHandler /\ Registered /\ May("fail")
  /\ Act.iter \in {"before", "loop", "after"}
  /\ Unwind(IF Act.iter = "loop" THEN DrainRemaining ELSE nat)
  /\ UNCHANGED <<doc, staged, log, left, result>>

-----------------------------------------------------------------------------
Init ==
  /\ doc \in Docs
  /\ nat = [frames |-> <<>>, top |-> 0, phase |-> "continue", pend |-> "grow", target |-> None]
  /\ acts = <<>>
  /\ go = "native"
  /\ staged = FALSE
  /\ log = <<>>
  /\ left = {}
  /\ erred = FALSE
  /\ result = "none"

NativeStep ==
  /\ go = "native"
  /\ \/ RootNext \/ RootEnd \/ CapFull \/ SkipElement \/ ElementSlot \/ BindLeaf
     \/ BindError \/ BindBody \/ NextElement \/ EndYields \/ Pops

Drive ==
  \/ Resume \/ Root \/ ServeOwn \/ ServeUnderBreak \/ ServeFill \/ ServeActivate
  \/ SeedDone \/ BatchDone \/ DecodeDone \/ DrainDone
  \/ ServeError \/ ActivateSettleFails \/ SeedSettleFails \/ NextSettleFails
  \/ DecodeSettleFails
  \/ FailDrive \/ NextFails \/ DecodeFails \/ RootFails

Handler ==
  \/ HandlerIdle \/ IterBegin \/ IterItem \/ IterSkipped \/ NextUnderBreak \/ NextAtEnd
  \/ NextSlot \/ NextBatch \/ DecodeBound \/ DecodeBody \/ ItemSkip \/ LoopContinue
  \/ LoopBreak \/ LoopSignal \/ LoopPropagate \/ HandlerSignal \/ HandlerReturn
  \/ HandlerFails

Finished == go = "finished" /\ UNCHANGED vars

Next == NativeStep \/ Drive \/ Handler \/ Finished

Spec == Init /\ [][Next]_vars
FairSpec == Spec /\ WF_vars(Next)
-----------------------------------------------------------------------------
Phases == {"value", "valueBegin", "continue", "close", "done"}
Drives == {"seed", "decode", "next", "drain", "handler"}

(* Every variable keeps its shape, a backing never overfills, and a cursor *)
(* stays in its batch.                                                     *)
TypeOK ==
  /\ nat.top \in 0 .. Len(doc.body)
  /\ nat.phase \in Phases /\ nat.pend \in {"grow", "none", "error"}
  /\ \A l \in DOMAIN nat.frames :
       LET f == nat.frames[l]
       IN  f.next \in 1 .. Len(f.arr) + 1 /\ f.count \in 0 .. Cap(l) /\ f.len \in 0 .. Cap(l)
  /\ \A i \in DOMAIN acts :
       acts[i].mode \in Drives /\ acts[i].cursor \in 0 .. acts[i].batch /\ acts[i].base >= 0
  /\ go \in {"native", "stopped", "served", "handler", "failing", "finished"}
  /\ staged \in BOOLEAN /\ erred \in BOOLEAN /\ result \in {"none", "ok", "error"}

Before(p, q) ==
  \/ IsStrictPrefix(p, q)
  \/ \E k \in DOMAIN p \cap DOMAIN q : SubSeq(p, 1, k - 1) = SubSeq(q, 1, k - 1) /\ p[k] < q[k]

ArrayAt(p) == FoldLeft(LAMBDA arr, i : arr[i], doc.body, p)
InDocument(p) == \A k \in DOMAIN p : p[k] <= Len(ArrayAt(SubSeq(p, 1, k - 1)))

(* Elements of the document reach handlers once each and in its order.     *)
DeliveredInOrder ==
  \A i \in DOMAIN log : InDocument(log[i]) /\ (i > 1 => Before(log[i - 1], log[i]))

Elements ==
  {p \in UNION {[1 .. n -> 1 .. Width] : n \in 2 .. doc.depth + 1} : InDocument(p)}

(* When a parse succeeds, an element that no handler was given lies in an  *)
(* array its handler gave up, or in one inside the target of a signal: a   *)
(* drain takes the rest of its own array and nothing past it.              *)
NothingLost ==
  result = "ok" =>
    \A e \in Elements : e \in Range(log) \/ \E a \in left : IsPrefix(a, e)

(* Once an array is given up, by its handler or by a signal for it, no     *)
(* handler is given another element of it or of an array inside it.        *)
GivenUpStaysGivenUp ==
  [][log' # log => \A a \in left : ~IsPrefix(a, Last(log'))]_vars

(* While a handler runs, with no signal or error pending, the machine stands in    *)
(* that handler's array, so the skip flag it may set is its own array's.   *)
MachineInScope ==
  InHandler /\ AnyBreak = None /\ ~erred => nat.frames # <<>> /\ Top.path = Act.path

(* A stream is activated only with no activation of it in progress.        *)
NoReentrantActivation ==
  \A i, j \in DOMAIN acts : acts[i].addr = acts[j].addr => i = j

(* An error that was reported to any handler, or returned by one, fails    *)
(* the parse, although every handler around it may drop it; and a hook     *)
(* that failed is reported, whoever drained the rest of its array.         *)
ErrorSurfaces == go = "finished" => (result = "error" <=> erred \/ staged)

(* Once an error is reported the walk never runs again, whatever the       *)
(* handlers it unwinds through still do.                                   *)
NoWalkAfterError == erred => go # "native"

(* No handler reads an element whose deferred hook failed: a batch is      *)
(* settled before it is handed over, and the fields around an element's    *)
(* stream before its Decode returns, whatever the stream's own handler did.*)
Read(a) == /\ a.mode = "handler" /\ a.nonleaf /\ a.iter = "loop"
           /\ a.item = "used" /\ ~a.skipRemaining /\ a.got = None
FailedHookNotRead ==
  /\ \A i \in DOMAIN log :
       Len(log[i]) = doc.depth + 1 => ArrayAt(log[i]) # HookFails
  /\ \A i \in DOMAIN acts :
       Read(acts[i]) =>
         Append(acts[i].path, acts[i].base + acts[i].cursor) \notin doc.before \cup doc.after

(* The document ends: no yield is served for ever.                         *)
Terminates == <>(go = "finished")

(* Every element is delivered once, in order and settled, or lies in an    *)
(* array that was given up.                                                *)
ExactlyOnce == TypeOK /\ DeliveredInOrder /\ NothingLost /\ FailedHookNotRead

(* Drives re-entered from handlers stay with their own array: the machine  *)
(* stands where the running handler is, and no stream is activated twice.  *)
DrivesNest == MachineInScope /\ NoReentrantActivation

(* An error fails the parse, and the walk stops with it.                   *)
ErrorsHold == ErrorSurfaces /\ NoWalkAfterError
=============================================================================
