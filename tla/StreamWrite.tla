----------------------------- MODULE StreamWrite ----------------------------
(***************************************************************************)
(* Field-local streaming on the way out: an Encoder encodes an object of   *)
(* Stream members to a writer; each member's OnWrite producer pushes its   *)
(* elements into a Sink, whose driver frames them as an array and drains   *)
(* the buffer between elements.                                            *)
(*                                                                         *)
(* Output is a sequence of tokens, compact, as the native VM writes it: a  *)
(* key "k", an element "e", the part "x" of an element that failed midway. *)
(* The writer may take any part of what it is given, or fail.              *)
(***************************************************************************)
EXTENDS Integers, Sequences, SequencesExt

CONSTANTS
  Shapes,       \* the values: sequences of members [omit, producer]
  MaxElems,     \* bound on the elements a producer pushes
  DrainMark,    \* streamElemDrainMark
  MaxCalls,     \* bound on the Encode calls of a behavior
  Moves         \* what a producer may do

ASSUME BoundAssumption == MaxElems \in Nat /\ DrainMark \in Nat /\ MaxCalls \in Nat
ASSUME ShapesAssumption == Shapes \subseteq Seq([omit : BOOLEAN, producer : BOOLEAN])
ASSUME MovesAssumption ==
  Moves \subseteq {"nil", "own", "drop", "fault", "panic", "recover", "null"}

VARIABLES
  members,    \* the value being encoded
  mem,        \* the member it is at
  first,      \* no member has been written
  buf,        \* es.buf
  sent,       \* what the writer has taken of this call
  out,        \* what this call has appended to the buffer
  sk,         \* the sink's state word
  drv,        \* the stream driver: opened, emitted
  saw,        \* the last error the producer was given
  err,        \* the Encoder's sticky error
  pc,
  ret,        \* what the last call returned
  took,       \* took[m]: elements of member m the sink accepted, or -1
  cause,      \* the first error of the call
  calls

vars == <<members, mem, first, buf, sent, out, sk, drv, saw, err, pc, ret, took,
          cause, calls>>
hist == <<took, cause, calls>>

None == "none"
May(m) == m \in Moves
Member == members[mem]
Emit(s) == buf' = buf \o s /\ out' = out \o s
Note(e) == cause' = IF cause = None THEN e ELSE cause
NoDriver == [opened |-> FALSE, emitted |-> 0]

(***************************************************************************)
(* The writer: one Write may take any prefix, and may fail.                *)
(***************************************************************************)
Outcomes(b) == [n : 0 .. Len(b), ok : BOOLEAN]

(* Mutant: a short write discards the tail.                                *)
BugRest(b, n) == <<>>

(* The unwritten tail moves to the front of the buffer.                    *)
Rest(b, n) == SubSeq(b, n + 1, Len(b))

Taken(o) == sent' = sent \o SubSeq(buf, 1, o.n)

(* flush, and the error it returns.                                        *)
FlushError(o) ==
  CASE ~o.ok -> "writer"
    [] o.ok /\ o.n = 0 -> "short"
    [] o.ok /\ o.n > 0 -> None

Flush(o) ==
  /\ Taken(o)
  /\ buf' = IF FlushError(o) = None THEN Rest(buf, o.n) ELSE buf
  /\ err' = IF o.ok THEN err ELSE "writer"
  /\ IF FlushError(o) = None THEN UNCHANGED cause ELSE Note(FlushError(o))

(***************************************************************************)
(* Encode                                                                  *)
(***************************************************************************)
Call == pc = "idle" /\ err = None /\ calls < MaxCalls /\ calls' = calls + 1

EncodeCall(v) ==
  /\ Call
  /\ members' = v /\ mem' = 1 /\ first' = TRUE
  /\ buf' = <<"{">> /\ out' = <<"{">> /\ sent' = <<>>
  /\ pc' = "member"
  /\ ret' = None
  /\ took' = [m \in DOMAIN v |-> -1]
  /\ cause' = None
  /\ UNCHANGED <<sk, drv, saw, err>>

Null == <<"null", "n">>

EncodeNull ==
  /\ Call /\ May("null")
  /\ out' = Null
  /\ \E o \in Outcomes(Null) :
       /\ sent' = SubSeq(Null, 1, o.n)
       /\ ret' = IF o.ok THEN "ok" ELSE "writer"
       /\ err' = IF o.ok THEN None ELSE "writer"
       /\ cause' = IF o.ok THEN None ELSE "writer"
  /\ UNCHANGED <<members, mem, first, buf, sk, drv, saw, pc, took>>

Return(r) == pc' = "idle" /\ ret' = r /\ buf' = <<>>

(* encodeTop failed: the error sticks.                                     *)
Fail(e) ==
  /\ pc' = "idle" /\ ret' = e
  /\ err' = IF err = None THEN e ELSE err

MemberOmitted ==
  /\ pc = "member" /\ mem <= Len(members)
  /\ ~Member.producer /\ Member.omit
  /\ pc' = "reclaim"
  /\ UNCHANGED <<members, mem, first, buf, sent, out, sk, drv, saw, err, ret, hist>>

MemberUnconfigured ==
  /\ pc = "member" /\ mem <= Len(members)
  /\ ~Member.producer /\ ~Member.omit
  /\ Fail("config") /\ Note("config")
  /\ UNCHANGED <<members, mem, first, buf, sent, out, sk, drv, saw, took, calls>>

ActivateWrite ==
  /\ pc = "member" /\ mem <= Len(members)
  /\ Member.producer
  /\ sk' = None /\ drv' = NoDriver /\ saw' = None
  /\ took' = [took EXCEPT ![mem] = 0]
  /\ pc' = "producer"
  /\ UNCHANGED <<members, mem, first, buf, sent, out, err, ret, cause, calls>>

(* After each yield the VM reopens its window with one flush.              *)
ReclaimEmpty ==
  /\ pc = "reclaim" /\ buf = <<>>
  /\ pc' = "member" /\ mem' = mem + 1
  /\ UNCHANGED <<members, first, buf, sent, out, sk, drv, saw, err, ret, hist>>

Reclaim ==
  /\ pc = "reclaim" /\ buf # <<>>
  /\ \E o \in Outcomes(buf) :
       /\ Taken(o)
       /\ \/ /\ FlushError(o) = None
             /\ buf' = Rest(buf, o.n)
             /\ pc' = "member" /\ mem' = mem + 1
             /\ UNCHANGED <<err, ret, cause>>
          \/ /\ FlushError(o) # None
             /\ Fail(FlushError(o)) /\ Note(FlushError(o))
             /\ UNCHANGED <<buf, mem>>
  /\ UNCHANGED <<members, first, out, sk, drv, saw, took, calls>>

(* The object closes and the newline follows; writeAll retries the tail.   *)
ObjectEnd ==
  /\ pc = "member" /\ mem > Len(members)
  /\ Emit(<<"}", "n">>)
  /\ pc' = "writeAll"
  /\ UNCHANGED <<members, mem, first, sent, sk, drv, saw, err, ret, hist>>

WriteAll ==
  /\ pc = "writeAll" /\ buf # <<>>
  /\ \E o \in Outcomes(buf) :
       /\ Taken(o)
       /\ \/ /\ FlushError(o) = None
             /\ buf' = Rest(buf, o.n)
             /\ UNCHANGED <<err, pc, ret, cause>>
          \/ /\ FlushError(o) # None
             /\ Fail(FlushError(o)) /\ Note(FlushError(o))
             /\ UNCHANGED buf
  /\ UNCHANGED <<members, mem, first, out, sk, drv, saw, took, calls>>

EncodeDone ==
  /\ pc = "writeAll" /\ buf = <<>>
  /\ Return("ok")
  /\ UNCHANGED <<members, mem, first, sent, out, sk, drv, saw, err, hist>>

(***************************************************************************)
(* The sink and its driver                                                 *)
(***************************************************************************)
(* The parent's comma and key.                                             *)
Prefix == (IF first THEN <<>> ELSE <<",">>) \o <<"k">>

(* Mutant: a latched sink still reaches the driver.                        *)
BugSinkEncode ==
  /\ pc = "producer" /\ sk # "closed" /\ took[mem] < MaxElems
  /\ sk' = "busy"
  /\ Emit(IF drv.opened THEN <<",">> ELSE Prefix \o <<"[">>)
  /\ drv' = [drv EXCEPT !.opened = TRUE]
  /\ pc' = "element"
  /\ UNCHANGED <<members, mem, first, sent, saw, err, ret, hist>>

SinkEncode ==
  /\ pc = "producer" /\ sk = None /\ took[mem] < MaxElems
  /\ sk' = "busy"
  /\ Emit(IF drv.opened THEN <<",">> ELSE Prefix \o <<"[">>)
  /\ drv' = [drv EXCEPT !.opened = TRUE]
  /\ pc' = "element"
  /\ UNCHANGED <<members, mem, first, sent, saw, err, ret, hist>>

(* except: a nil element latches, any other word is returned as it is.     *)
SinkEncodeNil ==
  /\ pc = "producer" /\ sk = None /\ May("nil")
  /\ sk' = "nilElement" /\ saw' = "nilElement"
  /\ Note("nilElement")
  /\ UNCHANGED <<members, mem, first, buf, sent, out, drv, err, pc, ret, took, calls>>

SinkRefuses ==
  /\ pc = "producer" /\ sk # None
  /\ saw' = IF sk = "busy" THEN "reentrant" ELSE sk
  /\ UNCHANGED <<members, mem, first, buf, sent, out, sk, drv, err, pc, ret, hist>>

(* The element's own VM run flushes when its window is full.               *)
ElementFlush ==
  /\ pc = "element" /\ buf # <<>>
  /\ \E o \in Outcomes(buf) :
       /\ Flush(o)
       /\ \/ FlushError(o) = None /\ UNCHANGED <<pc, sk, saw>>
          \/ FlushError(o) # None /\ pc' = "producer"
             /\ sk' = FlushError(o) /\ saw' = FlushError(o)
  /\ UNCHANGED <<members, mem, first, out, drv, ret, took, calls>>

ElementDone ==
  /\ pc = "element"
  /\ Emit(<<"e">>)
  /\ drv' = [drv EXCEPT !.emitted = @ + 1]
  /\ pc' = "drain"
  /\ UNCHANGED <<members, mem, first, sent, sk, saw, err, ret, hist>>

ElementFails ==
  /\ pc = "element" /\ May("fault")
  /\ Emit(<<"x">>)
  /\ sk' = "element" /\ saw' = "element" /\ Note("element")
  /\ pc' = "producer"
  /\ UNCHANGED <<members, mem, first, sent, drv, err, ret, took, calls>>

(* A panic of the element's encoder that the producer recovers from.       *)
ElementPanics ==
  /\ pc = "element" /\ May("recover")
  /\ Emit(<<"x">>)
  /\ pc' = "producer"
  /\ UNCHANGED <<members, mem, first, sent, sk, drv, saw, err, ret, hist>>

DrainFlush ==
  /\ pc = "drain" /\ Len(buf) >= DrainMark /\ buf # <<>>
  /\ \E o \in Outcomes(buf) :
       /\ Flush(o)
       /\ \/ FlushError(o) = None /\ pc' = "draining" /\ UNCHANGED <<sk, saw>>
          \/ FlushError(o) # None /\ pc' = "producer"
             /\ sk' = FlushError(o) /\ saw' = FlushError(o)
  /\ UNCHANGED <<members, mem, first, out, drv, ret, took, calls>>

(* Once begun, a drain goes on until the buffer is empty.                  *)
DrainOn ==
  /\ pc = "draining" /\ buf # <<>>
  /\ \E o \in Outcomes(buf) :
       /\ Flush(o)
       /\ \/ FlushError(o) = None /\ UNCHANGED <<pc, sk, saw>>
          \/ FlushError(o) # None /\ pc' = "producer"
             /\ sk' = FlushError(o) /\ saw' = FlushError(o)
  /\ UNCHANGED <<members, mem, first, out, drv, ret, took, calls>>

DrainDone ==
  /\ \/ pc = "drain" /\ Len(buf) < DrainMark
     \/ pc = "draining" /\ buf = <<>>
  /\ sk' = None
  /\ took' = [took EXCEPT ![mem] = @ + 1]
  /\ pc' = "producer"
  /\ UNCHANGED <<members, mem, first, buf, sent, out, drv, saw, err, ret, cause, calls>>

(***************************************************************************)
(* The producer returns                                                    *)
(***************************************************************************)
Latched == sk \notin {None, "busy"}

(* What a producer may return: an error it was given, nothing, or an error *)
(* of its own.                                                             *)
Answers == {saw} \cup (IF saw = None \/ May("drop") THEN {None} ELSE {})
                 \cup (IF May("own") THEN {"own"} ELSE {})

(* Mutant: the producer's return value decides.                            *)
BugVerdict(e) == e

Verdict(e) == IF Latched THEN sk ELSE e

ProducerFails ==
  /\ pc = "producer"
  /\ \E e \in Answers :
       /\ Verdict(e) # None
       /\ Fail(Verdict(e)) /\ Note(Verdict(e))
  /\ sk' = "closed"
  /\ UNCHANGED <<members, mem, first, buf, sent, out, drv, saw, took, calls>>

(* Mutant: the sink is left open when the producer returns.                *)
BugProducerReturns ==
  /\ pc = "producer"
  /\ \E e \in Answers : Verdict(e) = None
  /\ pc' = "finish"
  /\ UNCHANGED <<members, mem, first, buf, sent, out, sk, drv, saw, err, ret, hist>>

ProducerReturns ==
  /\ pc = "producer"
  /\ \E e \in Answers : Verdict(e) = None
  /\ sk' = "closed"
  /\ pc' = "finish"
  /\ UNCHANGED <<members, mem, first, buf, sent, out, drv, saw, err, ret, hist>>

ProducerPanics ==
  /\ pc = "producer" /\ May("panic")
  /\ sk' = "closed"
  /\ pc' = "idle" /\ ret' = "panic"
  /\ UNCHANGED <<members, mem, first, buf, sent, out, drv, saw, err, hist>>

FinishArray ==
  /\ pc = "finish" /\ drv.emitted > 0
  /\ Emit(<<"]">>)
  /\ first' = FALSE
  /\ pc' = "reclaim"
  /\ UNCHANGED <<members, mem, sent, sk, drv, saw, err, ret, hist>>

FinishOmitted ==
  /\ pc = "finish" /\ drv.emitted = 0 /\ Member.omit
  /\ pc' = "reclaim"
  /\ UNCHANGED <<members, mem, first, buf, sent, out, sk, drv, saw, err, ret, hist>>

(* Mutant: the parent's first latch is left set.                           *)
BugFinishEmpty ==
  /\ pc = "finish" /\ drv.emitted = 0 /\ ~Member.omit
  /\ Emit(Prefix \o <<"[", "]">>)
  /\ pc' = "reclaim"
  /\ UNCHANGED <<members, mem, first, sent, sk, drv, saw, err, ret, hist>>

FinishEmpty ==
  /\ pc = "finish" /\ drv.emitted = 0 /\ ~Member.omit
  /\ Emit(Prefix \o <<"[", "]">>)
  /\ first' = FALSE
  /\ pc' = "reclaim"
  /\ UNCHANGED <<members, mem, sent, sk, drv, saw, err, ret, hist>>

-----------------------------------------------------------------------------
Init ==
  /\ members = <<>> /\ mem = 1 /\ first = TRUE
  /\ buf = <<>> /\ sent = <<>> /\ out = <<>>
  /\ sk = "closed" /\ drv = NoDriver /\ saw = None
  /\ err = None /\ pc = "idle" /\ ret = None
  /\ took = <<>> /\ cause = None /\ calls = 0

(* Nothing more to do: the error is sticky, or the bound is reached.       *)
Rests == pc = "idle" /\ (err # None \/ calls = MaxCalls) /\ UNCHANGED vars

Next ==
  \/ \E v \in Shapes : EncodeCall(v)
  \/ EncodeNull
  \/ MemberOmitted \/ MemberUnconfigured \/ ActivateWrite
  \/ ReclaimEmpty \/ Reclaim \/ ObjectEnd \/ WriteAll \/ EncodeDone
  \/ SinkEncode \/ SinkEncodeNil \/ SinkRefuses
  \/ ElementFlush \/ ElementDone \/ ElementFails \/ ElementPanics
  \/ DrainFlush \/ DrainOn \/ DrainDone
  \/ ProducerFails \/ ProducerReturns \/ ProducerPanics
  \/ FinishArray \/ FinishOmitted \/ FinishEmpty
  \/ Rests

Spec == Init /\ [][Next]_vars
-----------------------------------------------------------------------------
Errors == {None, "writer", "short", "config", "nilElement", "element", "own", "reentrant"}

(* Every variable keeps its shape; a sink is open only inside its producer.*)
TypeOK ==
  /\ mem \in 1 .. Len(members) + 1 /\ first \in BOOLEAN
  /\ sk \in Errors \cup {"busy", "closed"}
  /\ (sk # "closed") = (pc \in {"producer", "element", "drain", "draining"})
  /\ drv.emitted \in 0 .. MaxElems
  /\ err \in Errors /\ cause \in Errors
  /\ ret \in Errors \cup {"ok", "panic"}
  /\ \A m \in DOMAIN took : took[m] \in -1 .. MaxElems

(* What the writer took and what is still buffered are what was encoded,   *)
(* in order: no short write in a drain, a reclaim or the last write loses  *)
(* or repeats a byte.                                                      *)
NothingLost ==
  pc # "idle" /\ cause = None => sent \o buf = out

(* The text of a value v whose members hold c elements, -1 for a member    *)
(* with no producer: Upto is what its first members come to.               *)
Elements(n) ==
  [i \in 1 .. (IF n = 0 THEN 0 ELSE 2 * n - 1) |-> IF i % 2 = 1 THEN "e" ELSE ","]
Array(n) == <<"k", "[">> \o Elements(n) \o <<"]">>
Joined(s, n, omit) ==
  IF n > 0 \/ (n = 0 /\ ~omit)
  THEN (IF s = <<"{">> THEN s ELSE Append(s, ",")) \o Array(n) ELSE s
Upto(c, v) ==
  LET upto[m \in 0 .. Len(v)] ==
        IF m = 0 THEN <<"{">> ELSE Joined(upto[m - 1], c[m], v[m].omit)
  IN  upto
Text(c, v) == Upto(c, v)[Len(v)] \o <<"}", "n">>

(* A call that returns nil has given the writer one object whose arrays    *)
(* hold exactly the elements their sinks accepted, framed and separated,   *)
(* unless a producer recovered from a panic in the midst of an element.    *)
OutputExact ==
  pc = "idle" /\ ret = "ok" /\ out # Null /\ "x" \notin Range(out) => sent = Text(took, members)

(* The first error of a call is the one it returns, although a producer    *)
(* may drop it, go on, and return nil or an error of its own.              *)
FirstErrorWins ==
  pc = "idle" /\ ret \notin {None, "panic"} /\ cause # None => ret = cause

(* Once a Write has failed, nothing more is written: not by the producer   *)
(* that goes on, and not by a later call.                                  *)
NoWriteAfterError == [][err # None => sent' = sent]_vars

(* No byte is lost or repeated on its way to the writer, however it splits *)
(* the Writes.                                                             *)
BytesKept == TypeOK /\ NothingLost

(* What Encode returns is what happened: nil for a whole text, or the      *)
(* first error.                                                            *)
ReturnsExact == OutputExact /\ FirstErrorWins
=============================================================================
