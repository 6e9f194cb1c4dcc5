-------------------------- MODULE StreamWriteProofs -------------------------
(***************************************************************************)
(* Proofs about StreamWrite: for every set of values, every bound and      *)
(* whatever the producers and the writer do, no byte is lost or repeated   *)
(* between the buffer and the writer, the first error decides a call and   *)
(* ends the writing, and a call that returns nil has written the text of   *)
(* its value.                                                              *)
(***************************************************************************)
EXTENDS StreamWrite, SequenceTheorems, NaturalsInduction, WellFoundedInduction, TLAPS

Tokens == {"{", "}", "n", "null", "k", ",", "[", "]", "e", "x"}

Inside == {"producer", "element", "drain", "draining"}

(* The value, the member the Encoder is at, and what may be recorded.      *)
Shape ==
  /\ members \in Seq([omit : BOOLEAN, producer : BOOLEAN])
  /\ mem \in 1 .. Len(members) + 1 /\ first \in BOOLEAN
  /\ saw \in Errors /\ err \in Errors /\ cause \in Errors
  /\ ret \in Errors \cup {"ok", "panic"}
  /\ pc \in Inside \cup {"idle", "member", "reclaim", "writeAll", "finish"}
  /\ pc \in Inside \cup {"reclaim", "finish"} => mem <= Len(members)

(* The sink's word: busy while an element is under way, a latched error    *)
(* only in the hands of the producer, closed outside it.                   *)
SinkWord ==
  /\ sk \in Errors \cup {"busy", "closed"}
  /\ (sk # "closed") = (pc \in Inside)
  /\ pc \in {"element", "drain", "draining"} => sk = "busy"

(* The driver has emitted what the sink has accepted, plus the element     *)
(* that is being drained.                                                  *)
Counted ==
  /\ took \in [DOMAIN members -> -1 .. MaxElems]
  /\ drv \in [opened : BOOLEAN, emitted : 0 .. MaxElems]
  /\ pc = "producer" /\ sk = None => drv.emitted = took[mem]
  /\ pc = "element" => drv.emitted = took[mem] /\ took[mem] < MaxElems
  /\ pc \in {"drain", "draining"} => drv.emitted = took[mem] + 1

(* An error is either latched in the sink of a producer that still runs,   *)
(* or has ended the call.                                                  *)
FirstError ==
  /\ pc = "producer" => cause = IF Latched THEN sk ELSE None
  /\ pc \notin {"idle", "producer"} => cause = None
  /\ pc # "idle" /\ cause = None => err = None
  /\ FirstErrorWins

Output == buf \in Seq(Tokens) /\ sent \in Seq(Tokens) /\ out \in Seq(Tokens)

(***************************************************************************)
(* What the output is while the call has met no error and no element was   *)
(* abandoned: s is the text of the members before the one at hand.         *)
(***************************************************************************)
Clean == cause = None /\ "x" \notin Range(out)
Fresh(s) == first <=> s = <<"{">>
Before == Upto(took, members)[mem - 1]
Ahead(n) == Before \o Prefix \o <<"[">> \o Elements(n)

(* The sink has accepted n elements of the array.                          *)
Framed(n) ==
  IF n = 0 THEN ~drv.opened /\ out = Before ELSE drv.opened /\ out = Ahead(n)

InArray ==
  /\ Fresh(Before)
  /\ pc = "producer" => sk # "busy" /\ Framed(drv.emitted)
  /\ pc = "element" =>
       /\ drv.opened
       /\ out = IF drv.emitted = 0 THEN Before \o Prefix \o <<"[">>
                ELSE Ahead(drv.emitted) \o <<",">>
  /\ pc \in {"drain", "draining"} => drv.emitted > 0 /\ Framed(drv.emitted)
  /\ pc = "finish" => drv.emitted = took[mem] /\ Framed(drv.emitted)

Shown ==
  /\ pc = "member" => out = Before /\ Fresh(Before)
  /\ pc \in Inside \cup {"finish"} => InArray
  /\ pc = "reclaim" =>
       out = Joined(Before, took[mem], members[mem].omit) /\ Fresh(out)
  /\ pc = "writeAll" => mem = Len(members) + 1 /\ out = Before \o <<"}", "n">>

(* Members that are still to come have no elements.                        *)
Unstarted == \A m \in DOMAIN members : m > mem \/ (m = mem /\ pc = "member") => took[m] = -1

Framing == (pc # "idle" => Unstarted) /\ (pc # "idle" /\ Clean => Shown) /\ OutputExact

IInv == Output /\ Shape /\ SinkWord /\ Counted /\ FirstError /\ NothingLost
-----------------------------------------------------------------------------
(***************************************************************************)
(* Sequences.                                                              *)
(***************************************************************************)
(* Concatenation of tokens is associative.                                 *)
LEMMA Associative ==
  \A a, b, c \in Seq(Tokens) : (a \o b) \o c = a \o (b \o c)
BY ConcatAssociative

(* What a Write took and the tail that Rest keeps are the buffer.          *)
LEMMA Split ==
  \A s \in Seq(Tokens), b \in Seq(Tokens) : \A n \in 0 .. Len(b) :
     /\ Rest(b, n) \in Seq(Tokens)
     /\ s \o SubSeq(b, 1, n) \in Seq(Tokens)
     /\ (s \o SubSeq(b, 1, n)) \o Rest(b, n) = s \o b
<1>. TAKE s \in Seq(Tokens), b \in Seq(Tokens)
<1>. TAKE n \in 0 .. Len(b)
<1>1. Len(b) \in Nat
  BY LenProperties
<1>2. SubSeq(b, 1, n) \in Seq(Tokens) /\ Rest(b, n) \in Seq(Tokens)
  BY <1>1 DEF Rest
<1>3. SubSeq(b, 1, n) \o Rest(b, n) = b
  <2>1. /\ 1 \in 1 .. Len(b) + 1 /\ n \in 1 - 1 .. Len(b)
        /\ Len(b) \in n .. Len(b)
    BY <1>1
  <2>2. SubSeq(b, 1, n) \o SubSeq(b, n + 1, Len(b)) = SubSeq(b, 1, Len(b))
    BY <2>1, ConcatAdjacentSubSeq
  <2>. QED BY <2>2, SubSeqFull DEF Rest
<1>4. (s \o SubSeq(b, 1, n)) \o Rest(b, n) = s \o (SubSeq(b, 1, n) \o Rest(b, n))
  BY <1>2, Associative
<1>. QED BY <1>2, <1>3, <1>4, ConcatProperties

(* What the three outcomes of a flush are.                                 *)
LEMMA FlushOutcome ==
  ASSUME NEW b, NEW o \in Outcomes(b)
  PROVE  /\ FlushError(o) \in {None, "writer", "short"}
         /\ ~o.ok => FlushError(o) = "writer"
         /\ o.ok => FlushError(o) # "writer"
         /\ o.n \in 0 .. Len(b)
BY DEF FlushError, Outcomes, None

(* Appending keeps what the writer took and what is buffered the output.   *)
LEMMA Emitted ==
  ASSUME NEW s \in Seq(Tokens), Output, Emit(s), UNCHANGED sent
  PROVE  Output' /\ (sent \o buf = out => sent' \o buf' = out')
<1>1. sent \in Seq(Tokens) /\ buf \in Seq(Tokens) /\ out \in Seq(Tokens)
  BY DEF Output
<1>2. Output'
  BY <1>1, ConcatProperties DEF Output, Emit
<1>3. (sent \o buf) \o s = sent \o (buf \o s)
  BY <1>1, Associative
<1>. QED BY <1>2, <1>3 DEF Emit

(* So does a Write, as long as the buffer keeps the tail.                  *)
LEMMA Wrote ==
  ASSUME NEW o \in Outcomes(buf), Output, Taken(o), UNCHANGED out
  PROVE  /\ UNCHANGED buf => Output'
         /\ buf' = Rest(buf, o.n) => Output' /\ sent' \o buf' = sent \o buf
<1>1. sent \in Seq(Tokens) /\ buf \in Seq(Tokens) /\ o.n \in 0 .. Len(buf)
  BY FlushOutcome DEF Output
<1>2. /\ Rest(buf, o.n) \in Seq(Tokens)
      /\ sent' \in Seq(Tokens)
      /\ sent' \o Rest(buf, o.n) = sent \o buf
  <2>1. /\ Rest(buf, o.n) \in Seq(Tokens)
        /\ sent \o SubSeq(buf, 1, o.n) \in Seq(Tokens)
        /\ (sent \o SubSeq(buf, 1, o.n)) \o Rest(buf, o.n) = sent \o buf
    BY <1>1, Split
  <2>. QED BY <2>1 DEF Taken
<1>. QED BY <1>2 DEF Output

(* What a driver writes before the first element of an array.              *)
LEMMA PrefixTokens ==
  ASSUME first \in BOOLEAN
  PROVE  /\ <<",">> \in Seq(Tokens) /\ Prefix \o <<"[">> \in Seq(Tokens)
         /\ Prefix \o <<"[", "]">> \in Seq(Tokens)
<1>1. /\ <<>> \in Seq(Tokens) /\ <<",">> \in Seq(Tokens) /\ <<"k">> \in Seq(Tokens)
      /\ <<"[">> \in Seq(Tokens) /\ <<"[", "]">> \in Seq(Tokens)
  BY DEF Tokens
<1>2. Prefix \in Seq(Tokens)
  <2>1. CASE first
    BY <1>1, <2>1, ConcatProperties DEF Prefix
  <2>2. CASE ~first
    BY <1>1, <2>2, ConcatProperties DEF Prefix
  <2>. QED BY <2>1, <2>2
<1>. QED BY <1>1, <1>2, ConcatProperties

(* A member the Encoder is at is one of the value's.                       *)
LEMMA AtMember ==
  Shape /\ mem <= Len(members) => mem \in DOMAIN members
<1>. SUFFICES ASSUME Shape, mem <= Len(members) PROVE mem \in DOMAIN members
  OBVIOUS
<1>1. members \in Seq([omit : BOOLEAN, producer : BOOLEAN]) /\ mem \in 1 .. Len(members) + 1
  BY DEF Shape
<1>. QED BY <1>1, LenProperties

(* A sink is open only inside its producer, and busy within an element.    *)
LEMMA SinkStep ==
  IInv /\ [Next]_vars => SinkWord'
<1>. SUFFICES ASSUME IInv, [Next]_vars
             PROVE  SinkWord'
  OBVIOUS
<1>. USE BoundAssumption DEF IInv, Shape, SinkWord, FirstError, Errors, Inside, None
<1>1. ASSUME NEW v \in Shapes, EncodeCall(v) PROVE SinkWord'
  <2>1. sk = "closed" /\ sk' = sk /\ pc' = "member"
    BY <1>1 DEF EncodeCall, Call
  <2>. QED BY <2>1
<1>2. CASE EncodeNull
  BY <1>2 DEF EncodeNull, Call, Outcomes, Null
<1>3. CASE MemberOmitted
  BY <1>3 DEF MemberOmitted, hist
<1>4. CASE MemberUnconfigured
  BY <1>4 DEF MemberUnconfigured, Fail, Note, hist
<1>5. CASE ActivateWrite
  BY <1>5 DEF ActivateWrite, hist
<1>6. CASE ReclaimEmpty
  BY <1>6 DEF ReclaimEmpty, hist
<1>7. CASE Reclaim
  BY <1>7, FlushOutcome DEF Reclaim, Fail, Note, Taken, hist
<1>8. CASE ObjectEnd
  <2>1. pc = "member" /\ sk' = sk /\ pc' = "writeAll"
    BY <1>8 DEF ObjectEnd
  <2>. QED BY <2>1
<1>9. CASE WriteAll
  BY <1>9, FlushOutcome DEF WriteAll, Fail, Note, Taken, hist
<1>10. CASE EncodeDone
  BY <1>10 DEF EncodeDone, Return, hist
<1>11. CASE SinkEncode
  BY <1>11 DEF SinkEncode, hist
<1>12. CASE SinkEncodeNil
  BY <1>12 DEF SinkEncodeNil, Note, hist
<1>13. CASE SinkRefuses
  BY <1>13 DEF SinkRefuses, hist
<1>14. CASE ElementFlush
  BY <1>14, FlushOutcome DEF ElementFlush, Flush, Note, Taken, hist
<1>15. CASE ElementDone
  BY <1>15 DEF ElementDone, Emit, hist
<1>16. CASE ElementFails
  BY <1>16 DEF ElementFails, Emit, Note, hist
<1>17. CASE ElementPanics
  BY <1>17 DEF ElementPanics, Emit, hist
<1>18. CASE DrainFlush
  BY <1>18, FlushOutcome DEF DrainFlush, Flush, Note, Taken, hist
<1>19. CASE DrainOn
  BY <1>19, FlushOutcome DEF DrainOn, Flush, Note, Taken, hist
<1>20. CASE DrainDone
  BY <1>20 DEF DrainDone, hist
<1>21. CASE ProducerFails
  BY <1>21 DEF ProducerFails, Fail, Note, Verdict, Latched, Answers, hist
<1>22. CASE ProducerReturns
  BY <1>22 DEF ProducerReturns, Verdict, Latched, Answers, hist
<1>23. CASE ProducerPanics
  BY <1>23 DEF ProducerPanics, hist
<1>24. CASE FinishArray
  BY <1>24 DEF FinishArray, Emit, hist
<1>25. CASE FinishOmitted
  BY <1>25 DEF FinishOmitted, hist
<1>26. CASE FinishEmpty
  BY <1>26 DEF FinishEmpty, Emit, hist
<1>27. CASE UNCHANGED vars
  BY <1>27 DEF vars
<1>. QED
  BY <1>1, <1>2, <1>3, <1>4, <1>5, <1>6, <1>7, <1>8, <1>9, <1>10, <1>11,
     <1>12, <1>13, <1>14, <1>15, <1>16, <1>17, <1>18, <1>19, <1>20, <1>21,
     <1>22, <1>23, <1>24, <1>25, <1>26, <1>27 DEF Next, Rests

(* The first error stays where it was latched until it ends the call.      *)
LEMMA ErrorStep ==
  IInv /\ [Next]_vars => FirstError'
<1>. SUFFICES ASSUME IInv, [Next]_vars
             PROVE  FirstError'
  OBVIOUS
<1>. USE BoundAssumption DEF IInv, Shape, SinkWord, FirstError, FirstErrorWins, Latched, Errors, Inside, None
<1>1. ASSUME NEW v \in Shapes, EncodeCall(v) PROVE FirstError'
  BY <1>1, ShapesAssumption DEF EncodeCall, Call
<1>2. CASE EncodeNull
  BY <1>2 DEF EncodeNull, Call, Outcomes, Null
<1>3. CASE MemberOmitted
  BY <1>3 DEF MemberOmitted, hist
<1>4. CASE MemberUnconfigured
  BY <1>4 DEF MemberUnconfigured, Fail, Note, hist
<1>5. CASE ActivateWrite
  BY <1>5 DEF ActivateWrite, hist
<1>6. CASE ReclaimEmpty
  BY <1>6 DEF ReclaimEmpty, hist
<1>7. CASE Reclaim
  BY <1>7, FlushOutcome DEF Reclaim, Fail, Note, Taken, hist
<1>8. CASE ObjectEnd
  BY <1>8 DEF ObjectEnd, Emit, hist
<1>9. CASE WriteAll
  BY <1>9, FlushOutcome DEF WriteAll, Fail, Note, Taken, hist
<1>10. CASE EncodeDone
  BY <1>10 DEF EncodeDone, Return, hist
<1>11. CASE SinkEncode
  BY <1>11 DEF SinkEncode, hist
<1>12. CASE SinkEncodeNil
  BY <1>12 DEF SinkEncodeNil, Note, hist
<1>13. CASE SinkRefuses
  BY <1>13 DEF SinkRefuses, hist
<1>14. CASE ElementFlush
  BY <1>14, FlushOutcome DEF ElementFlush, Flush, Note, Taken, hist
<1>15. CASE ElementDone
  BY <1>15 DEF ElementDone, Emit, hist
<1>16. CASE ElementFails
  BY <1>16 DEF ElementFails, Emit, Note, hist
<1>17. CASE ElementPanics
  BY <1>17 DEF ElementPanics, Emit, hist
<1>18. CASE DrainFlush
  BY <1>18, FlushOutcome DEF DrainFlush, Flush, Note, Taken, hist
<1>19. CASE DrainOn
  BY <1>19, FlushOutcome DEF DrainOn, Flush, Note, Taken, hist
<1>20. CASE DrainDone
  BY <1>20 DEF DrainDone, hist
<1>21. CASE ProducerFails
  BY <1>21 DEF ProducerFails, Fail, Note, Verdict, Latched, Answers, hist
<1>22. CASE ProducerReturns
  BY <1>22 DEF ProducerReturns, Verdict, Latched, Answers, hist
<1>23. CASE ProducerPanics
  BY <1>23 DEF ProducerPanics, hist
<1>24. CASE FinishArray
  BY <1>24 DEF FinishArray, Emit, hist
<1>25. CASE FinishOmitted
  BY <1>25 DEF FinishOmitted, hist
<1>26. CASE FinishEmpty
  BY <1>26 DEF FinishEmpty, Emit, hist
<1>27. CASE UNCHANGED vars
  BY <1>27 DEF vars
<1>. QED
  BY <1>1, <1>2, <1>3, <1>4, <1>5, <1>6, <1>7, <1>8, <1>9, <1>10, <1>11,
     <1>12, <1>13, <1>14, <1>15, <1>16, <1>17, <1>18, <1>19, <1>20, <1>21,
     <1>22, <1>23, <1>24, <1>25, <1>26, <1>27 DEF Next, Rests

(* No element is counted twice or beyond the bound.                        *)
LEMMA CountedStep ==
  IInv /\ [Next]_vars => Counted'
<1>. SUFFICES ASSUME IInv, [Next]_vars
             PROVE  Counted'
  OBVIOUS
<1>. USE BoundAssumption DEF IInv, Shape, SinkWord, Counted, Errors, Inside, None, NoDriver
<1>1. ASSUME NEW v \in Shapes, EncodeCall(v) PROVE Counted'
  <2>1. /\ members' = v /\ took' = [m \in DOMAIN v |-> -1]
        /\ drv' = drv /\ pc' = "member"
    BY <1>1 DEF EncodeCall
  <2>2. took' \in [DOMAIN members' -> -1 .. MaxElems]
    BY <2>1
  <2>. QED BY <2>1, <2>2
<1>2. CASE EncodeNull
  BY <1>2 DEF EncodeNull, Call, Outcomes, Null
<1>3. CASE MemberOmitted
  BY <1>3 DEF MemberOmitted, hist
<1>4. CASE MemberUnconfigured
  BY <1>4 DEF MemberUnconfigured, Fail, Note, hist
<1>5. CASE ActivateWrite
  <2>1. mem \in DOMAIN members
    BY <1>5, AtMember DEF ActivateWrite
  <2>2. took' \in [DOMAIN members -> -1 .. MaxElems] /\ took'[mem] = 0
    BY <1>5, <2>1 DEF ActivateWrite
  <2>. QED BY <1>5, <2>2 DEF ActivateWrite
<1>6. CASE ReclaimEmpty
  BY <1>6 DEF ReclaimEmpty, hist
<1>7. CASE Reclaim
  BY <1>7, FlushOutcome DEF Reclaim, Fail, Note, Taken, hist
<1>8. CASE ObjectEnd
  BY <1>8 DEF ObjectEnd, Emit, hist
<1>9. CASE WriteAll
  BY <1>9, FlushOutcome DEF WriteAll, Fail, Note, Taken, hist
<1>10. CASE EncodeDone
  BY <1>10 DEF EncodeDone, Return, hist
<1>11. CASE SinkEncode
  BY <1>11 DEF SinkEncode, hist
<1>12. CASE SinkEncodeNil
  BY <1>12 DEF SinkEncodeNil, Note, hist
<1>13. CASE SinkRefuses
  BY <1>13 DEF SinkRefuses, hist
<1>14. CASE ElementFlush
  BY <1>14, FlushOutcome DEF ElementFlush, Flush, Note, Taken, hist
<1>15. CASE ElementDone
  <2>1. mem \in DOMAIN members
    BY <1>15, AtMember DEF ElementDone
  <2>2. took[mem] \in -1 .. MaxElems
    BY <2>1
  <2>3. drv.emitted = took[mem] /\ drv.emitted \in 0 .. MaxElems - 1
    BY <1>15, <2>2 DEF ElementDone
  <2>4. /\ drv' \in [opened : BOOLEAN, emitted : 0 .. MaxElems]
        /\ drv'.emitted = took[mem] + 1
    <3>1. drv \in [opened : BOOLEAN, emitted : 0 .. MaxElems]
      OBVIOUS
    <3>2. drv' = [drv EXCEPT !.emitted = drv.emitted + 1]
      BY <1>15 DEF ElementDone
    <3>. HIDE DEF IInv, Shape, SinkWord, Counted
    <3>3. drv.emitted + 1 \in 0 .. MaxElems
      BY <2>3
    <3>. QED BY <2>3, <3>1, <3>2, <3>3
  <2>5. UNCHANGED <<members, mem, took>> /\ pc' = "drain"
    BY <1>15 DEF ElementDone, hist
  <2>. QED BY <2>4, <2>5
<1>16. CASE ElementFails
  BY <1>16 DEF ElementFails, Emit, Note, hist
<1>17. CASE ElementPanics
  BY <1>17 DEF ElementPanics, Emit, hist
<1>18. CASE DrainFlush
  BY <1>18, FlushOutcome DEF DrainFlush, Flush, Note, Taken, hist
<1>19. CASE DrainOn
  BY <1>19, FlushOutcome DEF DrainOn, Flush, Note, Taken, hist
<1>20. CASE DrainDone
  <2>1. mem \in DOMAIN members
    BY <1>20, AtMember DEF DrainDone
  <2>2. took[mem] \in -1 .. MaxElems /\ drv.emitted = took[mem] + 1
    BY <1>20, <2>1 DEF DrainDone
  <2>3. took' = [took EXCEPT ![mem] = took[mem] + 1] /\ took[mem] + 1 \in -1 .. MaxElems
    BY <1>20, <2>2 DEF DrainDone
  <2>4. took' \in [DOMAIN members -> -1 .. MaxElems] /\ took'[mem] = drv.emitted
    BY <2>1, <2>2, <2>3
  <2>5. UNCHANGED <<members, mem, drv>> /\ pc' = "producer"
    BY <1>20 DEF DrainDone
  <2>. QED BY <2>4, <2>5
<1>21. CASE ProducerFails
  BY <1>21 DEF ProducerFails, Fail, Note, Verdict, Latched, Answers, hist
<1>22. CASE ProducerReturns
  BY <1>22 DEF ProducerReturns, Verdict, Latched, Answers, hist
<1>23. CASE ProducerPanics
  BY <1>23 DEF ProducerPanics, hist
<1>24. CASE FinishArray
  BY <1>24 DEF FinishArray, Emit, hist
<1>25. CASE FinishOmitted
  BY <1>25 DEF FinishOmitted, hist
<1>26. CASE FinishEmpty
  BY <1>26 DEF FinishEmpty, Emit, hist
<1>27. CASE UNCHANGED vars
  BY <1>27 DEF vars
<1>. QED
  BY <1>1, <1>2, <1>3, <1>4, <1>5, <1>6, <1>7, <1>8, <1>9, <1>10, <1>11,
     <1>12, <1>13, <1>14, <1>15, <1>16, <1>17, <1>18, <1>19, <1>20, <1>21,
     <1>22, <1>23, <1>24, <1>25, <1>26, <1>27 DEF Next, Rests
(* Types, and the member the Encoder is at.                                *)
LEMMA ShapeStep ==
  IInv /\ [Next]_vars => Shape'
<1>. SUFFICES ASSUME IInv, [Next]_vars
             PROVE  Shape'
  OBVIOUS
<1>. USE LenProperties DEF IInv, Shape, SinkWord, FirstError, Errors, Inside, None
<1>1. ASSUME NEW v \in Shapes, EncodeCall(v) PROVE Shape'
  <2>1. v \in Seq([omit : BOOLEAN, producer : BOOLEAN])
    BY ShapesAssumption
  <2>2. 1 \in 1 .. Len(v) + 1
    BY <2>1
  <2>. QED BY <1>1, <2>1, <2>2 DEF EncodeCall
<1>2. CASE EncodeNull
  BY <1>2 DEF EncodeNull, Call, Outcomes, Null
<1>3. CASE MemberOmitted
  BY <1>3 DEF MemberOmitted, hist
<1>4. CASE MemberUnconfigured
  BY <1>4 DEF MemberUnconfigured, Fail, Note, hist
<1>5. CASE ActivateWrite
  BY <1>5 DEF ActivateWrite, hist
<1>6. CASE ReclaimEmpty
  BY <1>6 DEF ReclaimEmpty, hist
<1>7. CASE Reclaim
  BY <1>7, FlushOutcome DEF Reclaim, Fail, Note, Taken, hist
<1>8. CASE ObjectEnd
  BY <1>8 DEF ObjectEnd, Emit, hist
<1>9. CASE WriteAll
  BY <1>9, FlushOutcome DEF WriteAll, Fail, Note, Taken, hist
<1>10. CASE EncodeDone
  BY <1>10 DEF EncodeDone, Return, hist
<1>11. CASE SinkEncode
  <2>1. /\ UNCHANGED <<members, mem, first, saw, err, ret, cause>>
        /\ pc = "producer" /\ pc' = "element"
    BY <1>11 DEF SinkEncode, hist
  <2>. QED BY <2>1
<1>12. CASE SinkEncodeNil
  BY <1>12 DEF SinkEncodeNil, Note, hist
<1>13. CASE SinkRefuses
  BY <1>13 DEF SinkRefuses, hist
<1>14. CASE ElementFlush
  BY <1>14, FlushOutcome DEF ElementFlush, Flush, Note, Taken, hist
<1>15. CASE ElementDone
  BY <1>15 DEF ElementDone, Emit, hist
<1>16. CASE ElementFails
  BY <1>16 DEF ElementFails, Emit, Note, hist
<1>17. CASE ElementPanics
  BY <1>17 DEF ElementPanics, Emit, hist
<1>18. CASE DrainFlush
  BY <1>18, FlushOutcome DEF DrainFlush, Flush, Note, Taken, hist
<1>19. CASE DrainOn
  BY <1>19, FlushOutcome DEF DrainOn, Flush, Note, Taken, hist
<1>20. CASE DrainDone
  BY <1>20 DEF DrainDone, hist
<1>21. CASE ProducerFails
  BY <1>21 DEF ProducerFails, Fail, Note, Verdict, Latched, Answers, hist
<1>22. CASE ProducerReturns
  BY <1>22 DEF ProducerReturns, Verdict, Latched, Answers, hist
<1>23. CASE ProducerPanics
  BY <1>23 DEF ProducerPanics, hist
<1>24. CASE FinishArray
  BY <1>24 DEF FinishArray, Emit, hist
<1>25. CASE FinishOmitted
  BY <1>25 DEF FinishOmitted, hist
<1>26. CASE FinishEmpty
  BY <1>26 DEF FinishEmpty, Emit, hist
<1>27. CASE UNCHANGED vars
  BY <1>27 DEF vars
<1>. QED
  BY <1>1, <1>2, <1>3, <1>4, <1>5, <1>6, <1>7, <1>8, <1>9, <1>10, <1>11,
     <1>12, <1>13, <1>14, <1>15, <1>16, <1>17, <1>18, <1>19, <1>20, <1>21,
     <1>22, <1>23, <1>24, <1>25, <1>26, <1>27 DEF Next, Rests

(* No step loses, repeats or reorders a token.                             *)
LEMMA OutputStep ==
  IInv /\ [Next]_vars => Output' /\ NothingLost'
<1>. SUFFICES ASSUME IInv, [Next]_vars
             PROVE  Output' /\ NothingLost'
  OBVIOUS
<1>. USE DEF NothingLost, None
<1>0. /\ Output /\ first \in BOOLEAN /\ NothingLost
      /\ pc \notin {"idle", "producer"} => cause = None
  BY DEF IInv, Shape, FirstError
<1>1. ASSUME NEW v \in Shapes, EncodeCall(v) PROVE Output' /\ NothingLost'
  <2>1. <<"{">> \in Seq(Tokens) /\ <<>> \in Seq(Tokens)
    BY DEF Tokens
  <2>2. <<>> \o <<"{">> = <<"{">>
    BY <2>1, ConcatEmptySeq
  <2>. QED BY <1>1, <2>1, <2>2 DEF EncodeCall, Output
<1>2. CASE EncodeNull
  <2>1. Null \in Seq(Tokens) /\ <<>> \in Seq(Tokens)
    BY DEF Null, Tokens
  <2>2. PICK o \in Outcomes(Null) : sent' = SubSeq(Null, 1, o.n)
    BY <1>2 DEF EncodeNull
  <2>3. sent' \in Seq(Tokens)
    BY <2>1, <2>2 DEF Outcomes
  <2>. QED BY <1>0, <1>2, <2>1, <2>3 DEF EncodeNull, Call, Output
<1>3. CASE MemberOmitted
  BY <1>0, <1>3 DEF MemberOmitted, hist, Output
<1>4. CASE MemberUnconfigured
  BY <1>0, <1>4 DEF MemberUnconfigured, Fail, Note, hist, Output
<1>5. CASE ActivateWrite
  BY <1>0, <1>5 DEF ActivateWrite, hist, Output
<1>6. CASE ReclaimEmpty
  BY <1>0, <1>6 DEF ReclaimEmpty, hist, Output
<1>7. CASE Reclaim
  BY <1>0, <1>7, FlushOutcome, Wrote DEF Reclaim, Fail, Note, Errors
<1>8. CASE ObjectEnd
  <2>1. <<"}", "n">> \in Seq(Tokens)
    BY DEF Tokens
  <2>. QED BY <1>0, <1>8, <2>1, Emitted DEF ObjectEnd, hist
<1>9. CASE WriteAll
  BY <1>0, <1>9, FlushOutcome, Wrote DEF WriteAll, Fail, Note, Errors
<1>10. CASE EncodeDone
  BY <1>0, <1>10 DEF EncodeDone, Return, Output, hist
<1>11. CASE SinkEncode
  <2>. DEFINE s == IF drv.opened THEN <<",">> ELSE Prefix \o <<"[">>
  <2>1. s \in Seq(Tokens)
    BY <1>0, PrefixTokens
  <2>2. Emit(s) /\ UNCHANGED <<sent, cause>> /\ pc # "idle"
    BY <1>11 DEF SinkEncode, hist
  <2>. HIDE DEF s
  <2>. QED BY <1>0, <2>1, <2>2, Emitted
<1>12. CASE SinkEncodeNil
  BY <1>0, <1>12 DEF SinkEncodeNil, Note, hist, Output
<1>13. CASE SinkRefuses
  BY <1>0, <1>13 DEF SinkRefuses, hist, Output
<1>14. CASE ElementFlush
  BY <1>0, <1>14, FlushOutcome, Wrote DEF ElementFlush, Flush, Note, Errors
<1>15. CASE ElementDone
  <2>1. <<"e">> \in Seq(Tokens)
    BY DEF Tokens
  <2>. QED BY <1>0, <1>15, <2>1, Emitted DEF ElementDone, hist
<1>16. CASE ElementFails
  <2>1. <<"x">> \in Seq(Tokens)
    BY DEF Tokens
  <2>. QED BY <1>0, <1>16, <2>1, Emitted DEF ElementFails, hist
<1>17. CASE ElementPanics
  <2>1. <<"x">> \in Seq(Tokens)
    BY DEF Tokens
  <2>. QED BY <1>0, <1>17, <2>1, Emitted DEF ElementPanics, hist
<1>18. CASE DrainFlush
  BY <1>0, <1>18, FlushOutcome, Wrote DEF DrainFlush, Flush, Note, Errors
<1>19. CASE DrainOn
  BY <1>0, <1>19, FlushOutcome, Wrote DEF DrainOn, Flush, Note, Errors
<1>20. CASE DrainDone
  BY <1>0, <1>20 DEF DrainDone, hist, Output
<1>21. CASE ProducerFails
  BY <1>0, <1>21 DEF ProducerFails, Fail, Note, hist, Output
<1>22. CASE ProducerReturns
  BY <1>0, <1>22 DEF ProducerReturns, Verdict, hist, Output
<1>23. CASE ProducerPanics
  BY <1>0, <1>23 DEF ProducerPanics, hist, Output
<1>24. CASE FinishArray
  <2>1. <<"]">> \in Seq(Tokens)
    BY DEF Tokens
  <2>. QED BY <1>0, <1>24, <2>1, Emitted DEF FinishArray, hist
<1>25. CASE FinishOmitted
  BY <1>0, <1>25 DEF FinishOmitted, hist, Output
<1>26. CASE FinishEmpty
  <2>1. Prefix \o <<"[", "]">> \in Seq(Tokens)
    BY <1>0, PrefixTokens
  <2>. QED BY <1>0, <1>26, <2>1, Emitted DEF FinishEmpty, hist
<1>27. CASE UNCHANGED vars
  BY <1>0, <1>27 DEF vars, Output
<1>. QED
  BY <1>1, <1>2, <1>3, <1>4, <1>5, <1>6, <1>7, <1>8, <1>9, <1>10, <1>11,
     <1>12, <1>13, <1>14, <1>15, <1>16, <1>17, <1>18, <1>19, <1>20, <1>21,
     <1>22, <1>23, <1>24, <1>25, <1>26, <1>27 DEF Next, Rests

(* The invariant is inductive.                                             *)
LEMMA Invariance == Spec => []IInv
<1>1. Init => IInv
  <2>1. <<>> \in Seq(Tokens) /\ <<>> \o <<>> = <<>>
    BY EmptySeq, ConcatEmptySeq
  <2>2. <<>> \in Seq([omit : BOOLEAN, producer : BOOLEAN]) /\ Len(<<>>) = 0
    BY EmptySeq
  <2>3. <<>> \in [DOMAIN <<>> -> -1 .. MaxElems]
    OBVIOUS
  <2>4. ASSUME Init PROVE Output /\ Shape /\ NothingLost
    BY <2>1, <2>2, <2>4
       DEF Init, Output, Shape, NothingLost, Errors, Inside, None
  <2>5. ASSUME Init PROVE SinkWord /\ Counted /\ FirstError
    BY <2>3, <2>5, BoundAssumption
       DEF Init, SinkWord, Counted, FirstError, FirstErrorWins, Errors, Inside, None,
           NoDriver
  <2>. QED BY <2>4, <2>5 DEF IInv
<1>2. IInv /\ [Next]_vars => IInv'
  BY SinkStep, ErrorStep, CountedStep, ShapeStep, OutputStep DEF IInv
<1>. QED BY <1>1, <1>2, PTL DEF Spec

(* No byte is lost or repeated on its way to the writer, however the       *)
(* writer splits the Writes of a drain, a reclaim or the last flush        *)
(* (venc/encode.go flush, venc/encoder.go writeAll, venc/stream.go drain). *)
THEOREM NoByteLost == Spec => []BytesKept
<1>1. IInv => BytesKept
  <2>. SUFFICES ASSUME IInv PROVE BytesKept
    OBVIOUS
  <2>1. /\ mem \in 1 .. Len(members) + 1 /\ first \in BOOLEAN
        /\ err \in Errors /\ cause \in Errors /\ ret \in Errors \cup {"ok", "panic"}
    BY DEF IInv, Shape
  <2>2. /\ sk \in Errors \cup {"busy", "closed"}
        /\ (sk # "closed") = (pc \in {"producer", "element", "drain", "draining"})
    BY DEF IInv, SinkWord, Inside
  <2>3. /\ drv.emitted \in 0 .. MaxElems
        /\ \A m \in DOMAIN took : took[m] \in -1 .. MaxElems
    BY DEF IInv, Counted
  <2>. QED BY <2>1, <2>2, <2>3 DEF BytesKept, TypeOK, IInv
<1>. QED BY <1>1, Invariance, PTL

(* No Write follows an error: an action that writes runs only while the    *)
(* call has met none.                                                      *)
LEMMA WritesStop == IInv /\ [Next]_vars => [err # None => sent' = sent]_vars
<1>. SUFFICES ASSUME IInv, Next, err # None
             PROVE  sent' = sent
  BY DEF vars
<1>1. pc \in {"idle", "producer"}
  BY DEF IInv, FirstError
<1>2. ~Call
  BY DEF Call
<1>3. CASE pc = "idle"
  BY <1>2, <1>3
     DEF Next, EncodeCall, EncodeNull, MemberOmitted, MemberUnconfigured, ActivateWrite,
         ReclaimEmpty, Reclaim, ObjectEnd, WriteAll, EncodeDone, SinkEncode,
         SinkEncodeNil, SinkRefuses, ElementFlush, ElementDone, ElementFails,
         ElementPanics, DrainFlush, DrainOn, DrainDone, ProducerFails,
         ProducerReturns, ProducerPanics, FinishArray, FinishOmitted, FinishEmpty,
         Rests, vars
<1>4. CASE pc = "producer"
  BY <1>2, <1>4
     DEF Next, EncodeCall, EncodeNull, MemberOmitted, MemberUnconfigured, ActivateWrite,
         ReclaimEmpty, Reclaim, ObjectEnd, WriteAll, EncodeDone, SinkEncode,
         SinkEncodeNil, SinkRefuses, ElementFlush, ElementDone, ElementFails,
         ElementPanics, DrainFlush, DrainOn, DrainDone, ProducerFails,
         ProducerReturns, ProducerPanics, FinishArray, FinishOmitted, FinishEmpty,
         Rests, vars
<1>. QED BY <1>1, <1>3, <1>4

(* After a failed Write nothing more is written: not by the producer that  *)
(* goes on, not by the drain or the last write, and not by a later call    *)
(* (stream/sink.go except, venc/encoder.go stickyErr).                     *)
THEOREM FailedWriteIsLast == Spec => NoWriteAfterError
  BY Invariance, WritesStop, PTL DEF NoWriteAfterError, Spec

(***************************************************************************)
(* The text of a value.                                                    *)
(***************************************************************************)
(* A nonempty set of naturals has a least element.                         *)
LEMMA LeastNatural ==
  ASSUME NEW S, S \subseteq Nat, S # {}
  PROVE  \E x \in S : \A y \in S : x <= y
<1>1. PICK x \in S : \A y \in S : ~(<<y, x>> \in OpToRel(<, Nat))
  BY WFMin, NatLessThanWellFounded
<1>2. \A y \in S : ~(y < x)
  BY <1>1 DEF OpToRel
<1>. QED BY <1>2

(* Induction up to N, with a set for the property.                         *)
LEMMA SetInduction ==
  ASSUME NEW N \in Nat, NEW S, 0 \in S,
         ASSUME NEW n \in 0 .. N - 1, n \in S PROVE n + 1 \in S
  PROVE  0 .. N \subseteq S
<1>. SUFFICES ASSUME (0 .. N) \ S # {} PROVE FALSE
  OBVIOUS
<1>1. PICK n \in (0 .. N) \ S : \A m \in (0 .. N) \ S : n <= m
  <2>1. (0 .. N) \ S \subseteq Nat
    OBVIOUS
  <2>. QED BY <2>1, LeastNatural
<1>2. n - 1 \in 0 .. N - 1 /\ n - 1 + 1 = n
  BY <1>1
<1>3. n - 1 \in S
  BY <1>1, <1>2
<1>4. n - 1 + 1 \in S
  BY <1>2, <1>3
<1>. QED BY <1>1, <1>2, <1>4

(* Elements and commas alternate.                                          *)
LEMMA Alternates ==
  ASSUME NEW n \in Nat, n > 0
  PROVE  /\ Elements(n) \in Seq(Tokens) /\ Len(Elements(n)) = 2 * n - 1
         /\ \A i \in 1 .. 2 * n - 1 : Elements(n)[i] = IF i % 2 = 1 THEN "e" ELSE ","
<1>1. PICK k : k = 2 * n - 1
  OBVIOUS
<1>2. k \in Nat
  BY <1>1
<1>3. Elements(n) = [i \in 1 .. k |-> IF i % 2 = 1 THEN "e" ELSE ","]
  BY <1>1 DEF Elements
<1>4. \A i \in 1 .. k : (IF i % 2 = 1 THEN "e" ELSE ",") \in Tokens
  BY DEF Tokens
<1>5. Elements(n) \in [1 .. k -> Tokens]
  BY <1>3, <1>4
<1>6. PICK s : s = Elements(n)
  OBVIOUS
<1>7. s \in Seq(Tokens) /\ Len(s) = k
  BY <1>2, <1>5, <1>6
<1>8. \A i \in 1 .. k : s[i] = IF i % 2 = 1 THEN "e" ELSE ","
  BY <1>3, <1>6
<1>. QED BY <1>1, <1>6, <1>7, <1>8

(* A sequence that is two tokens longer.                                   *)
LEMMA TwoMore ==
  ASSUME NEW a \in Seq(Tokens), NEW b \in Seq(Tokens), NEW x \in Tokens, NEW y \in Tokens,
         Len(b) = Len(a) + 2,
         \A i \in 1 .. Len(a) : b[i] = a[i], b[Len(a) + 1] = x, b[Len(a) + 2] = y
  PROVE  (a \o <<x>>) \o <<y>> = b
<1>1. PICK k : k = Len(a)
  OBVIOUS
<1>2. PICK c : c = Append(a, x)
  OBVIOUS
<1>3. PICK d : d = Append(c, y)
  OBVIOUS
<1>4. k \in Nat
  BY <1>1, LenProperties
<1>5. /\ c \in Seq(Tokens) /\ Len(c) = k + 1
      /\ \A i \in 1 .. k : c[i] = a[i]
      /\ c[k + 1] = x
  BY <1>1, <1>2, AppendProperties
<1>6. /\ d \in Seq(Tokens) /\ Len(d) = k + 1 + 1
      /\ \A i \in 1 .. k + 1 : d[i] = c[i]
      /\ d[k + 1 + 1] = y
  BY <1>3, <1>5, AppendProperties
<1>7. Len(d) = k + 2 /\ d[k + 2] = y
  BY <1>4, <1>6
<1>8. \A i \in 1 .. k + 2 : d[i] = b[i]
  <2>. TAKE i \in 1 .. k + 2
  <2>1. i \in 1 .. k \/ i = k + 1 \/ i = k + 2
    BY <1>4
  <2>2. i \in 1 .. k => i \in 1 .. k + 1
    BY <1>4
  <2>3. k + 1 \in 1 .. k + 1
    BY <1>4
  <2>. QED BY <1>1, <1>5, <1>6, <1>7, <2>1, <2>2, <2>3
<1>9. d = b
  BY <1>1, <1>6, <1>7, <1>8, SeqEqual
<1>10. c = a \o <<x>> /\ d = c \o <<y>>
  BY <1>2, <1>3, <1>5, AppendIsConcat
<1>. QED BY <1>9, <1>10

(* The elements of an array, one by one.                                   *)
LEMMA NoElements == Elements(0) = <<>>
BY DEF Elements

(* A single element has no comma.                                          *)
LEMMA OneElement == Elements(1) = <<"e">>
<1>1. Elements(1) = [i \in 1 .. 1 |-> IF i % 2 = 1 THEN "e" ELSE ","]
  BY DEF Elements
<1>2. 1 % 2 = 1
  OBVIOUS
<1>. QED BY <1>1, <1>2

(* Elements are tokens.                                                    *)
LEMMA ElementsType ==
  ASSUME NEW n \in Nat
  PROVE  Elements(n) \in Seq(Tokens)
<1>1. CASE n = 0
  BY <1>1, NoElements, EmptySeq
<1>2. CASE n > 0
  BY <1>2, Alternates
<1>. QED BY <1>1, <1>2

(* Parity.                                                                 *)
LEMMA EvenThenOdd ==
  ASSUME NEW n \in Nat, n > 0
  PROVE  (2 * n - 1 + 1) % 2 = 0 /\ (2 * n - 1 + 2) % 2 = 1
OBVIOUS

(* Each further element comes after a comma.                               *)
LEMMA NextElement ==
  ASSUME NEW n \in Nat, n > 0
  PROVE  (Elements(n) \o <<",">>) \o <<"e">> = Elements(n + 1)
<1>1. PICK k : k = 2 * n - 1
  OBVIOUS
<1>2. PICK a : a = Elements(n)
  OBVIOUS
<1>3. PICK b : b = Elements(n + 1)
  OBVIOUS
<1>4. /\ k \in Nat /\ 2 * (n + 1) - 1 = k + 2 /\ n + 1 \in Nat /\ n + 1 > 0
  BY <1>1
<1>5. /\ a \in Seq(Tokens) /\ Len(a) = k
      /\ \A i \in 1 .. k : a[i] = IF i % 2 = 1 THEN "e" ELSE ","
  BY <1>1, <1>2, Alternates
<1>6. /\ b \in Seq(Tokens) /\ Len(b) = k + 2
      /\ \A i \in 1 .. k + 2 : b[i] = IF i % 2 = 1 THEN "e" ELSE ","
  BY <1>3, <1>4, Alternates
<1>7. (k + 1) % 2 = 0 /\ (k + 2) % 2 = 1
  BY <1>1, EvenThenOdd
<1>8. \A i \in 1 .. k : i \in 1 .. k + 2
  BY <1>4
<1>9. k + 1 \in 1 .. k + 2 /\ k + 2 \in 1 .. k + 2
  BY <1>4
<1>10. (\A i \in 1 .. k : b[i] = a[i]) /\ b[k + 1] = "," /\ b[k + 2] = "e"
  <2>1. \A i \in 1 .. k : b[i] = a[i]
    BY <1>5, <1>6, <1>8
  <2>2. b[k + 1] = IF (k + 1) % 2 = 1 THEN "e" ELSE ","
    BY <1>6, <1>9
  <2>3. b[k + 2] = IF (k + 2) % 2 = 1 THEN "e" ELSE ","
    BY <1>6, <1>9
  <2>4. (k + 1) % 2 # 1
    BY <1>7
  <2>5. b[k + 1] = ","
    BY <2>2, <2>4, Zenon
  <2>6. b[k + 2] = "e"
    BY <1>7, <2>3, Zenon
  <2>. QED BY <2>1, <2>5, <2>6
<1>11. "," \in Tokens /\ "e" \in Tokens
  BY DEF Tokens
<1>12. (a \o <<",">>) \o <<"e">> = b
  BY <1>5, <1>6, <1>10, <1>11, TwoMore
<1>. QED BY <1>2, <1>3, <1>12

(* What a member adds to the text.                                         *)
LEMMA JoinedType ==
  ASSUME NEW s \in Seq(Tokens), NEW n \in Int, NEW omit \in BOOLEAN
  PROVE  Joined(s, n, omit) \in Seq(Tokens)
<1>1. CASE n > 0 \/ (n = 0 /\ ~omit)
  <2>1. Elements(n) \in Seq(Tokens)
    BY <1>1, ElementsType
  <2>2. "k" \in Tokens /\ "[" \in Tokens /\ "]" \in Tokens
    BY DEF Tokens
  <2>3. <<"k", "[">> \in Seq(Tokens) /\ <<"]">> \in Seq(Tokens)
    BY <2>2
  <2>7. Array(n) \in Seq(Tokens)
    BY <2>1, <2>3, ConcatProperties DEF Array
  <2>4. Append(s, ",") \in Seq(Tokens)
    <3>1. "," \in Tokens
      BY DEF Tokens
    <3>. QED BY <3>1, AppendProperties
  <2>5. PICK t : t = IF s = <<"{">> THEN s ELSE Append(s, ",")
    OBVIOUS
  <2>6. t \o Array(n) \in Seq(Tokens)
    BY <2>4, <2>5, <2>7, ConcatProperties
  <2>. QED BY <1>1, <2>5, <2>6 DEF Joined
<1>2. CASE ~(n > 0 \/ (n = 0 /\ ~omit))
  BY <1>2 DEF Joined
<1>. QED BY <1>1, <1>2

(* The rule by which Upto is built.                                        *)
Joins(g, c, v, i) ==
  IF i = 0 THEN <<"{">> ELSE Joined(g[i - 1], c[i], v[i].omit)

Joining(g, c, v, n) == \A i \in 0 .. n : g[i] = Joins(g, c, v, i)

(* An object opens with a token.                                           *)
LEMMA OpenType == <<"{">> \in Seq(Tokens)
BY DEF Tokens

(* The rule's first text.                                                  *)
LEMMA JoiningFirst ==
  ASSUME NEW g, NEW c, NEW v, NEW n \in Nat, Joining(g, c, v, n)
  PROVE  g[0] = <<"{">>
<1>1. 0 \in 0 .. n
  OBVIOUS
<1>2. g[0] = Joins(g, c, v, 0)
  BY <1>1, Zenon DEF Joining
<1>. QED BY <1>2, Zenon DEF Joins

(* The rule's next text.                                                   *)
LEMMA JoiningNext ==
  ASSUME NEW g, NEW c, NEW v, NEW n \in Nat, Joining(g, c, v, n), NEW m \in 0 .. n - 1
  PROVE  g[m + 1] = Joined(g[m], c[m + 1], v[m + 1].omit)
<1>1. m + 1 \in 0 .. n /\ m + 1 # 0 /\ m + 1 - 1 = m
  OBVIOUS
<1>2. g[m + 1] = Joins(g, c, v, m + 1)
  BY <1>1, Zenon DEF Joining
<1>3. PICK i : i = m + 1
  OBVIOUS
<1>4. Joins(g, c, v, i) = Joined(g[i - 1], c[i], v[i].omit)
  BY <1>1, <1>3 DEF Joins
<1>5. i - 1 = m
  BY <1>3
<1>. QED BY <1>2, <1>3, <1>4, <1>5, Zenon

(* A text for each of v's first members can be built.                      *)
LEMMA Joinable ==
  ASSUME NEW c, NEW v, NEW N \in Nat,
         \A i \in 1 .. N : c[i] \in Int /\ v[i].omit \in BOOLEAN
  PROVE  \E g \in [0 .. N -> Seq(Tokens)] : Joining(g, c, v, N)
<1>. DEFINE T == {n \in 0 .. N : \E g \in [0 .. n -> Seq(Tokens)] : Joining(g, c, v, n)}
<1>1. 0 \in T
  <2>1. PICK s : s = <<"{">>
    OBVIOUS
  <2>. DEFINE g == [i \in 0 .. 0 |-> s]
  <2>2. g \in [0 .. 0 -> Seq(Tokens)]
    BY <2>1, OpenType
  <2>3. g[0] = <<"{">>
    <3>1. g[0] = s
      OBVIOUS
    <3>. QED BY <2>1, <3>1, Zenon
  <2>. HIDE DEF g
  <2>4. \A i \in 0 .. 0 : i = 0
    OBVIOUS
  <2>5. Joins(g, c, v, 0) = <<"{">>
    BY Zenon DEF Joins
  <2>6. Joining(g, c, v, 0)
    BY <2>3, <2>4, <2>5, Zenon DEF Joining
  <2>. QED BY <2>2, <2>6
<1>2. ASSUME NEW n \in 0 .. N - 1, n \in T PROVE n + 1 \in T
  <2>1. PICK g \in [0 .. n -> Seq(Tokens)] : Joining(g, c, v, n)
    BY <1>2
  <2>2. PICK t : t = Joins(g, c, v, n + 1)
    OBVIOUS
  <2>3. t \in Seq(Tokens)
    <3>1. n + 1 # 0 /\ n + 1 - 1 = n /\ n + 1 \in 1 .. N /\ n \in 0 .. n
      OBVIOUS
    <3>2. t = Joined(g[n], c[n + 1], v[n + 1].omit)
      BY <2>2, <3>1 DEF Joins
    <3>3. g[n] \in Seq(Tokens) /\ c[n + 1] \in Int /\ v[n + 1].omit \in BOOLEAN
      BY <3>1
    <3>. QED BY <3>2, <3>3, JoinedType
  <2>. DEFINE h == [i \in 0 .. n + 1 |-> IF i <= n THEN g[i] ELSE t]
  <2>4. h \in [0 .. n + 1 -> Seq(Tokens)]
    <3>1. \A i \in 0 .. n + 1 : i <= n => i \in 0 .. n
      OBVIOUS
    <3>. QED BY <2>3, <3>1
  <2>5. \A i \in 0 .. n : h[i] = g[i]
    OBVIOUS
  <2>6. h[n + 1] = t
    OBVIOUS
  <2>. HIDE DEF h
  <2>7. Joining(h, c, v, n + 1)
    <3>. SUFFICES ASSUME NEW i \in 0 .. n + 1 PROVE h[i] = Joins(h, c, v, i)
      BY DEF Joining
    <3>1. i # 0 => i - 1 \in 0 .. n
      OBVIOUS
    <3>2. Joins(h, c, v, i) = Joins(g, c, v, i)
      BY <2>5, <3>1 DEF Joins
    <3>3. CASE i \in 0 .. n
      BY <2>1, <2>5, <3>2, <3>3 DEF Joining
    <3>4. CASE i = n + 1
      BY <2>2, <2>6, <3>2, <3>4
    <3>. QED BY <3>3, <3>4
  <2>8. n + 1 \in 0 .. N
    OBVIOUS
  <2>. QED BY <2>4, <2>7, <2>8
<1>3. N \in T
  <2>. HIDE DEF T
  <2>1. 0 .. N \subseteq T
    BY <1>1, <1>2, SetInduction
  <2>. QED BY <2>1
<1>. QED BY <1>3

(* So Upto(c, v) follows its rule.                                         *)
LEMMA UptoRule ==
  ASSUME NEW c, NEW v, Len(v) \in Nat,
         \A i \in 1 .. Len(v) : c[i] \in Int /\ v[i].omit \in BOOLEAN
  PROVE  /\ Joining(Upto(c, v), c, v, Len(v))
         /\ \A m \in 0 .. Len(v) : Upto(c, v)[m] \in Seq(Tokens)
<1>. DEFINE N == Len(v)
            Rule(g) == [m \in 0 .. N |->
                          IF m = 0 THEN <<"{">> ELSE Joined(g[m - 1], c[m], v[m].omit)]
<1>1. PICK g \in [0 .. N -> Seq(Tokens)] : Joining(g, c, v, N)
  BY Joinable
<1>2. g = Rule(g)
  BY <1>1 DEF Joining, Joins
<1>3. Upto(c, v) = CHOOSE f : f = Rule(f)
  BY DEF Upto
<1>4. Upto(c, v) = Rule(Upto(c, v))
  BY <1>2, <1>3
<1>5. PICK s : s = Upto(c, v)
  OBVIOUS
<1>6. Joining(s, c, v, N)
  BY <1>4, <1>5 DEF Joining, Joins
<1>. DEFINE T == {m \in 0 .. N : s[m] \in Seq(Tokens)}
<1>7. 0 \in T
  <2>1. s[0] = <<"{">>
    BY <1>6, JoiningFirst
  <2>2. s[0] \in Seq(Tokens)
    BY <2>1, OpenType, Zenon
  <2>. QED BY <2>2
<1>8. ASSUME NEW n \in 0 .. N - 1, n \in T PROVE n + 1 \in T
  <2>1. n + 1 # 0 /\ n + 1 - 1 = n /\ n + 1 \in 1 .. N /\ n + 1 \in 0 .. N
    OBVIOUS
  <2>2. s[n + 1] = Joined(s[n], c[n + 1], v[n + 1].omit)
    BY <1>6, JoiningNext
  <2>3. s[n] \in Seq(Tokens) /\ c[n + 1] \in Int /\ v[n + 1].omit \in BOOLEAN
    BY <1>8, <2>1
  <2>4. s[n + 1] \in Seq(Tokens)
    BY <2>2, <2>3, JoinedType
  <2>. QED BY <2>1, <2>4
<1>9. \A m \in 0 .. N : s[m] \in Seq(Tokens)
  <2>1. 0 .. N \subseteq T
    <3>. HIDE DEF T
    <3>. QED BY <1>7, <1>8, SetInduction
  <2>. QED BY <2>1
<1>. QED BY <1>5, <1>6, <1>9

(* The text of the first members depends on no other.                      *)
LEMMA UptoAgree ==
  ASSUME NEW c, NEW d, NEW v, Len(v) \in Nat, NEW k \in 0 .. Len(v),
         \A i \in 1 .. Len(v) : c[i] \in Int /\ v[i].omit \in BOOLEAN,
         \A i \in 1 .. Len(v) : d[i] \in Int,
         \A i \in 1 .. k : c[i] = d[i]
  PROVE  Upto(c, v)[k] = Upto(d, v)[k]
<1>1. PICK a : a = Upto(c, v)
  OBVIOUS
<1>2. PICK b : b = Upto(d, v)
  OBVIOUS
<1>3. Joining(a, c, v, Len(v))
  BY <1>1, UptoRule
<1>4. Joining(b, d, v, Len(v))
  BY <1>2, UptoRule
<1>. DEFINE T == {m \in 0 .. k : a[m] = b[m]}
<1>5. 0 \in T
  <2>1. a[0] = b[0]
    BY <1>3, <1>4, JoiningFirst
  <2>. QED BY <2>1
<1>6. ASSUME NEW n \in 0 .. k - 1, n \in T PROVE n + 1 \in T
  <2>1. /\ n + 1 # 0 /\ n + 1 - 1 = n /\ n + 1 \in 1 .. k /\ n + 1 \in 0 .. k
        /\ n \in 0 .. Len(v) - 1
    OBVIOUS
  <2>2. a[n + 1] = Joined(a[n], c[n + 1], v[n + 1].omit)
    BY <1>3, <2>1, JoiningNext
  <2>3. b[n + 1] = Joined(b[n], d[n + 1], v[n + 1].omit)
    BY <1>4, <2>1, JoiningNext
  <2>4. a[n] = b[n] /\ c[n + 1] = d[n + 1]
    BY <1>6, <2>1
  <2>. QED BY <2>1, <2>2, <2>3, <2>4
<1>7. k \in T
  <2>1. k \in Nat /\ k \in 0 .. k
    OBVIOUS
  <2>2. 0 .. k \subseteq T
    <3>. HIDE DEF T
    <3>. QED BY <1>5, <1>6, <2>1, SetInduction
  <2>. QED BY <2>1, <2>2
<1>. QED BY <1>1, <1>2, <1>7

(***************************************************************************)
(* What is written for one member is what Joined says.                     *)
(***************************************************************************)
Tokened(s) == s \in Seq(Tokens)

(* The pieces a driver writes are tokens.                                  *)
LEMMA Pieces ==
  /\ Tokened(<<>>) /\ Tokened(<<",">>) /\ Tokened(<<"k">>) /\ Tokened(<<"[">>)
  /\ Tokened(<<"]">>) /\ Tokened(<<"e">>) /\ Tokened(<<"x">>)
  /\ Tokened(<<"k", "[">>) /\ Tokened(<<"[", "]">>) /\ Tokened(<<"}", "n">>)
<1>1. /\ "," \in Tokens /\ "k" \in Tokens /\ "[" \in Tokens /\ "]" \in Tokens
      /\ "e" \in Tokens /\ "x" \in Tokens /\ "}" \in Tokens /\ "n" \in Tokens
  BY DEF Tokens
<1>2. Tokened(<<>>)
  BY EmptySeq DEF Tokened
<1>3. \A a \in Tokens : Tokened(<<a>>)
  BY DEF Tokened
<1>4. \A a, b \in Tokens : Tokened(<<a, b>>)
  BY DEF Tokened
<1>. QED BY <1>1, <1>2, <1>3, <1>4, Zenon

(* So is what they are joined to.                                          *)
LEMMA JoinedPieces ==
  \A a, b : Tokened(a) /\ Tokened(b) => Tokened(a \o b)
BY ConcatProperties DEF Tokened

(* Joining is associative.                                                 *)
LEMMA Appended ==
  ASSUME NEW a, NEW b, NEW c, Tokened(a), Tokened(b), Tokened(c)
  PROVE  (a \o b) \o c = a \o (b \o c)
BY Associative DEF Tokened

(* Two tokens in a row.                                                    *)
LEMMA Pair ==
  ASSUME NEW a \in Tokens, NEW b \in Tokens
  PROVE  <<a>> \o <<b>> = <<a, b>>
<1>1. <<a>> \in Seq(Tokens) /\ Len(<<a>>) = 1 /\ <<a>>[1] = a
  OBVIOUS
<1>2. Append(<<a>>, b) = <<a>> \o <<b>>
  BY <1>1, AppendIsConcat
<1>3. PICK s : s = Append(<<a>>, b)
  OBVIOUS
<1>4. s \in Seq(Tokens) /\ Len(s) = 2 /\ s[1] = a /\ s[2] = b
  <2>1. 1 \in 1 .. 1 /\ 1 + 1 = 2
    OBVIOUS
  <2>. QED BY <1>1, <1>3, <2>1, AppendProperties
<1>5. PICK t : t = <<a, b>>
  OBVIOUS
<1>6. t \in Seq(Tokens) /\ Len(t) = 2 /\ t[1] = a /\ t[2] = b
  BY <1>5
<1>7. \A i \in 1 .. 2 : s[i] = t[i]
  <2>1. \A i \in 1 .. 2 : i = 1 \/ i = 2
    OBVIOUS
  <2>. QED BY <1>4, <1>6, <2>1
<1>8. s = t
  BY <1>4, <1>6, <1>7, SeqEqual
<1>. QED BY <1>2, <1>3, <1>5, <1>8

(* The two pairs a driver writes at once.                                  *)
LEMMA Pairs ==
  /\ <<"k">> \o <<"[">> = <<"k", "[">>
  /\ <<"[">> \o <<"]">> = <<"[", "]">>
<1>1. "k" \in Tokens /\ "[" \in Tokens /\ "]" \in Tokens
  BY DEF Tokens
<1>. QED BY <1>1, Pair, Zenon

(* The comma and the key are tokens.                                       *)
LEMMA PrefixType ==
  ASSUME first \in BOOLEAN
  PROVE  Tokened(Prefix)
<1>1. CASE first
  BY <1>1, Pieces, JoinedPieces, Zenon DEF Prefix
<1>2. CASE ~first
  BY <1>2, Pieces, JoinedPieces, Zenon DEF Prefix
<1>. QED BY <1>1, <1>2

(* What a driver writes before the first element.                          *)
LEMMA Led ==
  ASSUME NEW s, Tokened(s), first \in BOOLEAN, Fresh(s)
  PROVE  /\ Tokened((s \o Prefix) \o <<"[">>)
         /\ s \o (Prefix \o <<"[">>) = (s \o Prefix) \o <<"[">>
         /\ (s \o Prefix) \o <<"[">>
              = (IF s = <<"{">> THEN s ELSE Append(s, ",")) \o <<"k", "[">>
<1>1. s \o (Prefix \o <<"[">>) = (s \o Prefix) \o <<"[">>
  <2>1. Tokened(Prefix) /\ Tokened(<<"[">>)
    BY PrefixType, Pieces
  <2>. QED BY ONLY Tokened(s), <2>1, Appended
<1>2. Tokened((s \o Prefix) \o <<"[">>)
  BY PrefixType, Pieces, JoinedPieces, Zenon
<1>3. CASE first
  <2>1. Prefix = <<>> \o <<"k">>
    BY <1>3 DEF Prefix
  <2>2. Prefix = <<"k">>
    BY <2>1, ConcatEmptySeq, Pieces DEF Tokened
  <2>3. s \o (Prefix \o <<"[">>) = s \o <<"k", "[">>
    BY <2>2, Pairs, Zenon
  <2>4. s = <<"{">>
    BY <1>3, Zenon DEF Fresh
  <2>. QED BY <1>1, <1>2, <2>3, <2>4, Zenon
<1>4. CASE ~first
  <2>1. Prefix = <<",">> \o <<"k">>
    BY <1>4 DEF Prefix
  <2>2. (s \o Prefix) \o <<"[">> = (s \o <<",">>) \o (<<"k">> \o <<"[">>)
    <3>1. PICK a : a = <<",">>
      OBVIOUS
    <3>2. PICK b : b = <<"k">>
      OBVIOUS
    <3>3. PICK c : c = <<"[">>
      OBVIOUS
    <3>4. Tokened(a) /\ Tokened(b) /\ Tokened(c) /\ Tokened(s \o a)
      BY <3>1, <3>2, <3>3, Pieces, JoinedPieces, Zenon
    <3>5. (s \o a) \o b = s \o (a \o b)
      <4>1. Tokened(s) /\ Tokened(a) /\ Tokened(b)
        BY <3>4
      <4>. QED BY ONLY <4>1, Appended
    <3>6. ((s \o a) \o b) \o c = (s \o a) \o (b \o c)
      <4>1. PICK d : d = s \o a
        OBVIOUS
      <4>2. Tokened(d)
        BY <3>4, <4>1, Zenon
      <4>3. (d \o b) \o c = d \o (b \o c)
        BY ONLY <3>4, <4>2, Appended
      <4>. QED BY <4>1, <4>3, Zenon
    <3>. QED BY <2>1, <3>1, <3>2, <3>3, <3>5, <3>6, Zenon
  <2>3. s \o <<",">> = Append(s, ",")
    <3>1. "," \in Tokens
      BY DEF Tokens
    <3>. QED BY <3>1, AppendIsConcat DEF Tokened
  <2>4. s # <<"{">>
    BY <1>4, Zenon DEF Fresh
  <2>. QED BY <1>1, <1>2, <2>2, <2>3, <2>4, Pairs, Zenon
<1>. QED BY <1>3, <1>4

(* An array of n elements, from the driver's pieces.                       *)
LEMMA Closed ==
  ASSUME NEW s, Tokened(s), NEW n \in Nat, NEW omit \in BOOLEAN,
         first \in BOOLEAN, Fresh(s), n > 0 \/ ~omit
  PROVE  (((s \o Prefix) \o <<"[">>) \o Elements(n)) \o <<"]">> = Joined(s, n, omit)
<1>1. PICK t : t = IF s = <<"{">> THEN s ELSE Append(s, ",")
  OBVIOUS
<1>2. Tokened(t)
  <2>1. "," \in Tokens
    BY DEF Tokens
  <2>2. Tokened(Append(s, ","))
    BY <2>1, AppendProperties DEF Tokened
  <2>. QED BY <1>1, <2>2
<1>3. Tokened(Elements(n))
  BY ElementsType DEF Tokened
<1>4. (s \o Prefix) \o <<"[">> = t \o <<"k", "[">>
  BY <1>1, Led
<1>5. ((t \o <<"k", "[">>) \o Elements(n)) \o <<"]">>
        = t \o ((<<"k", "[">> \o Elements(n)) \o <<"]">>)
  <2>1. PICK a : a = <<"k", "[">>
    OBVIOUS
  <2>2. PICK e : e = Elements(n)
    OBVIOUS
  <2>3. PICK z : z = <<"]">>
    OBVIOUS
  <2>4. Tokened(a) /\ Tokened(e) /\ Tokened(z)
    BY <2>1, <2>2, <2>3, <1>3, Pieces, Zenon
  <2>5. Tokened(a \o e)
    BY <2>4, JoinedPieces, Zenon
  <2>6. (t \o a) \o e = t \o (a \o e)
    BY ONLY <1>2, <2>4, Appended
  <2>7. (t \o (a \o e)) \o z = t \o ((a \o e) \o z)
    <3>1. PICK b : b = a \o e
      OBVIOUS
    <3>2. Tokened(b)
      BY <2>5, <3>1, Zenon
    <3>3. (t \o b) \o z = t \o (b \o z)
      BY ONLY <1>2, <2>4, <3>2, Appended
    <3>. QED BY <3>1, <3>3, Zenon
  <2>. QED BY <2>1, <2>2, <2>3, <2>6, <2>7, Zenon
<1>6. Joined(s, n, omit) = t \o ((<<"k", "[">> \o Elements(n)) \o <<"]">>)
  <2>1. Joined(s, n, omit) = (IF s = <<"{">> THEN s ELSE Append(s, ",")) \o Array(n)
    <3>1. n > 0 \/ n = 0
      BY ONLY n \in Nat
    <3>. QED BY <3>1 DEF Joined
  <2>. QED BY <1>1, <2>1 DEF Array
<1>. QED BY <1>4, <1>5, <1>6, Zenon

(* It is no longer the text of an object with no member.                   *)
LEMMA Longer ==
  ASSUME NEW s, Tokened(s), NEW n \in Nat, NEW omit \in BOOLEAN, n > 0 \/ ~omit
  PROVE  Joined(s, n, omit) # <<"{">>
<1>1. PICK t : t = IF s = <<"{">> THEN s ELSE Append(s, ",")
  OBVIOUS
<1>2. t \in Seq(Tokens)
  <2>1. "," \in Tokens
    BY DEF Tokens
  <2>2. Append(s, ",") \in Seq(Tokens)
    BY <2>1, AppendProperties DEF Tokened
  <2>. QED BY <1>1, <2>2 DEF Tokened
<1>3. PICK a : a = Array(n)
  OBVIOUS
<1>4. a \in Seq(Tokens) /\ Len(a) \in Nat /\ Len(a) >= 2
  <2>1. PICK e : e = Elements(n)
    OBVIOUS
  <2>2. e \in Seq(Tokens) /\ Len(e) \in Nat
    BY <2>1, ElementsType, LenProperties
  <2>3. PICK b : b = <<"k", "[">> \o e
    OBVIOUS
  <2>4. b \in Seq(Tokens) /\ Len(b) = 2 + Len(e)
    <3>1. <<"k", "[">> \in Seq(Tokens) /\ Len(<<"k", "[">>) = 2
      BY Pieces DEF Tokened
    <3>. QED BY <2>2, <2>3, <3>1, ConcatProperties
  <2>5. a = b \o <<"]">>
    BY <1>3, <2>1, <2>3 DEF Array
  <2>6. <<"]">> \in Seq(Tokens) /\ Len(<<"]">>) = 1
    BY Pieces DEF Tokened
  <2>7. a \in Seq(Tokens) /\ Len(a) = Len(b) + 1
    BY <2>4, <2>5, <2>6, ConcatProperties
  <2>. QED BY <2>2, <2>4, <2>7
<1>5. Len(t) \in Nat
  BY <1>2, LenProperties
<1>6. PICK j : j = t \o a
  OBVIOUS
<1>7. Len(j) = Len(t) + Len(a)
  BY <1>2, <1>4, <1>6, ConcatProperties
<1>8. PICK o : o = <<"{">>
  OBVIOUS
<1>9. Len(o) = 1
  BY <1>8
<1>10. j # o
  <2>1. Len(j) # 1
    BY <1>4, <1>5, <1>7
  <2>. QED BY <1>9, <2>1, Zenon
<1>11. Joined(s, n, omit) = j
  <2>1. n > 0 \/ n = 0
    OBVIOUS
  <2>. QED BY <1>1, <1>3, <1>6, <2>1 DEF Joined
<1>. QED BY <1>8, <1>10, <1>11

(***************************************************************************)
(* The text of the members before the one at hand.                         *)
(***************************************************************************)
LEMMA Members ==
  ASSUME Shape, Counted
  PROVE  /\ Len(members) \in Nat /\ mem \in 1 .. Len(members) + 1
         /\ \A i \in 1 .. Len(members) : took[i] \in Int /\ members[i].omit \in BOOLEAN
<1>1. /\ members \in Seq([omit : BOOLEAN, producer : BOOLEAN])
      /\ mem \in 1 .. Len(members) + 1
      /\ took \in [DOMAIN members -> -1 .. MaxElems]
  BY DEF Shape, Counted
<1>2. Len(members) \in Nat /\ DOMAIN members = 1 .. Len(members)
  BY <1>1, LenProperties
<1>3. \A i \in 1 .. Len(members) : took[i] \in -1 .. MaxElems
  BY <1>1, <1>2
<1>4. -1 .. MaxElems \subseteq Int
  BY BoundAssumption
<1>5. \A i \in 1 .. Len(members) : members[i] \in [omit : BOOLEAN, producer : BOOLEAN]
  BY <1>1, ElementOfSeq
<1>6. \A i \in 1 .. Len(members) : members[i].omit \in BOOLEAN
  BY <1>5
<1>. QED BY <1>1, <1>2, <1>3, <1>4, <1>6

(* The text of the members before the one at hand is made of tokens.       *)
LEMMA BeforeType ==
  ASSUME Shape, Counted
  PROVE  Tokened(Before)
<1>1. mem - 1 \in 0 .. Len(members)
  BY Members
<1>2. Upto(took, members)[mem - 1] \in Seq(Tokens)
  BY <1>1, Members, UptoRule
<1>. QED BY <1>2 DEF Before, Tokened

(* With the one at hand it is what Joined says.                            *)
LEMMA AfterMember ==
  ASSUME Shape, Counted, mem <= Len(members)
  PROVE  Upto(took, members)[mem] = Joined(Before, took[mem], members[mem].omit)
<1>1. PICK u : u = Upto(took, members)
  OBVIOUS
<1>2. Joining(u, took, members, Len(members))
  BY <1>1, Members, UptoRule
<1>3. PICK k : k = mem - 1
  OBVIOUS
<1>4. k \in 0 .. Len(members) - 1 /\ k + 1 = mem /\ Len(members) \in Nat
  BY <1>3, Members
<1>5. u[k + 1] = Joined(u[k], took[k + 1], members[k + 1].omit)
  BY <1>2, <1>4, JoiningNext
<1>. QED BY <1>1, <1>3, <1>4, <1>5, Zenon DEF Before

(* Before the first member an object has only been opened.                 *)
LEMMA FirstMember ==
  ASSUME Shape, Counted, mem = 1
  PROVE  Before = <<"{">>
<1>1. PICK u : u = Upto(took, members)
  OBVIOUS
<1>2. Joining(u, took, members, Len(members))
  BY <1>1, Members, UptoRule
<1>3. u[0] = <<"{">>
  BY <1>2, Members, JoiningFirst
<1>4. mem - 1 = 0
  OBVIOUS
<1>. QED BY <1>1, <1>3, <1>4, Zenon DEF Before

(* A member that is counted does not change what is before it.             *)
LEMMA BeforeSame ==
  ASSUME Shape, Counted, Shape', Counted', UNCHANGED <<members, mem>>,
         \A i \in 1 .. mem - 1 : took'[i] = took[i]
  PROVE  Before' = Before
<1>1. PICK k : k = mem - 1
  OBVIOUS
<1>2. /\ k \in 0 .. Len(members) /\ Len(members) \in Nat
      /\ \A i \in 1 .. Len(members) : took[i] \in Int /\ members[i].omit \in BOOLEAN
  BY <1>1, Members
<1>3. \A i \in 1 .. Len(members) : took'[i] \in Int
  <2>1. members' = members
    OBVIOUS
  <2>2. took' \in [DOMAIN members -> -1 .. MaxElems]
    BY <2>1 DEF Counted
  <2>3. DOMAIN members = 1 .. Len(members)
    BY LenProperties DEF Shape
  <2>4. -1 .. MaxElems \subseteq Int
    BY BoundAssumption
  <2>. QED BY <2>2, <2>3, <2>4
<1>4. \A i \in 1 .. k : took[i] = took'[i]
  BY <1>1
<1>5. PICK c : c = took'
  OBVIOUS
<1>6. Upto(took, members)[k] = Upto(c, members)[k]
  BY <1>2, <1>3, <1>4, <1>5, UptoAgree
<1>7. Before' = Upto(took', members')[mem' - 1]
  BY DEF Before
<1>8. members' = members /\ mem' = mem
  OBVIOUS
<1>. QED BY <1>1, <1>5, <1>6, <1>7, <1>8, Zenon DEF Before

(* The next member comes after the text of the one at hand.                *)
LEMMA MoveOn ==
  ASSUME Shape, Counted, mem <= Len(members), UNCHANGED <<members, took>>, mem' = mem + 1
  PROVE  Before' = Joined(Before, took[mem], members[mem].omit)
<1>1. Before' = Upto(took', members')[mem' - 1]
  BY DEF Before
<1>2. mem' - 1 = mem
  BY Members
<1>3. members' = members /\ took' = took
  OBVIOUS
<1>. QED BY <1>1, <1>2, <1>3, AfterMember, Zenon

(* What is appended stays: a fault does not go away.                       *)
LEMMA StillClean ==
  ASSUME Output, Clean',
         UNCHANGED out \/ \E s \in Seq(Tokens) : Emit(s),
         UNCHANGED cause \/ \E e : Note(e)
  PROVE  Clean
<1>1. cause = None
  BY DEF Clean, Note
<1>2. "x" \notin Range(out)
  <2>1. CASE UNCHANGED out
    BY <2>1 DEF Clean, Range
  <2>2. CASE \E s \in Seq(Tokens) : Emit(s)
    <3>1. PICK s \in Seq(Tokens) : out' = out \o s
      BY <2>2 DEF Emit
    <3>2. out \in Seq(Tokens)
      BY DEF Output
    <3>3. \A i \in 1 .. Len(out) : i \in 1 .. Len(out') /\ out'[i] = out[i]
      BY <3>1, <3>2, ConcatProperties, LenProperties
    <3>4. DOMAIN out = 1 .. Len(out) /\ DOMAIN out' = 1 .. Len(out')
      <4>1. out' \in Seq(Tokens)
        BY <3>1, <3>2, ConcatProperties
      <4>. QED BY <3>2, <4>1, LenProperties
    <3>5. "x" \notin Range(out)'
      BY DEF Clean
    <3>. QED BY <3>3, <3>4, <3>5 DEF Range
  <2>. QED BY <2>1, <2>2
<1>. QED BY <1>1, <1>2 DEF Clean

(* The part of an element that failed is seen.                             *)
LEMMA Abandoned ==
  ASSUME Output, Emit(<<"x">>)
  PROVE  ~Clean'
<1>1. PICK z : z = <<"x">>
  OBVIOUS
<1>2. z \in Seq(Tokens) /\ Len(z) = 1 /\ z[1] = "x"
  BY <1>1, Pieces DEF Tokened
<1>3. out \in Seq(Tokens) /\ Len(out) \in Nat
  BY LenProperties DEF Output
<1>4. PICK r : r = out'
  OBVIOUS
<1>5. r = out \o z
  BY <1>1, <1>4 DEF Emit
<1>6. /\ r \in Seq(Tokens) /\ Len(r) = Len(out) + 1
      /\ \A i \in 1 .. Len(out) + 1 : r[i] = IF i <= Len(out) THEN out[i] ELSE z[i - Len(out)]
  <2>1. PICK q : q = out
    OBVIOUS
  <2>2. q \in Seq(Tokens) /\ r = q \o z
    BY <1>3, <1>5, <2>1
  <2>3. /\ r \in Seq(Tokens) /\ Len(r) = Len(q) + Len(z)
        /\ \A i \in 1 .. Len(q) + Len(z) : r[i] = IF i <= Len(q) THEN q[i] ELSE z[i - Len(q)]
    BY ONLY <1>2, <2>2, ConcatProperties
  <2>. QED BY <1>2, <2>1, <2>3
<1>7. Len(out) + 1 \in 1 .. Len(out) + 1 /\ ~(Len(out) + 1 <= Len(out))
      /\ Len(out) + 1 - Len(out) = 1
  BY <1>3
<1>8. r[Len(out) + 1] = "x"
  BY <1>2, <1>6, <1>7
<1>9. DOMAIN r = 1 .. Len(out) + 1
  BY <1>6, LenProperties
<1>10. "x" \in Range(r)
  BY <1>7, <1>8, <1>9 DEF Range
<1>. QED BY <1>4, <1>10 DEF Clean

(***************************************************************************)
(* Framing is inductive on top of IInv.                                    *)
(***************************************************************************)
(* The steps of a call under way.                                          *)
Within ==
  \/ MemberOmitted \/ MemberUnconfigured \/ ActivateWrite
  \/ ReclaimEmpty \/ Reclaim \/ ObjectEnd \/ WriteAll \/ EncodeDone
  \/ SinkEncode \/ SinkEncodeNil \/ SinkRefuses
  \/ ElementFlush \/ ElementDone \/ ElementFails \/ ElementPanics
  \/ DrainFlush \/ DrainOn \/ DrainDone
  \/ ProducerFails \/ ProducerReturns \/ ProducerPanics
  \/ FinishArray \/ FinishOmitted \/ FinishEmpty

(* Only a new call forgets a fault.                                        *)
LEMMA CleanStep ==
  ASSUME Output, Shape, Within, Clean'
  PROVE  Clean
<1>0. first \in BOOLEAN
  BY DEF Shape
<1>1. CASE MemberOmitted
  BY <1>1, StillClean DEF MemberOmitted, hist
<1>2. CASE MemberUnconfigured
  BY <1>2, StillClean DEF MemberUnconfigured
<1>3. CASE ActivateWrite
  BY <1>3, StillClean DEF ActivateWrite
<1>4. CASE ReclaimEmpty
  BY <1>4, StillClean DEF ReclaimEmpty, hist
<1>5. CASE Reclaim
  BY <1>5, StillClean DEF Reclaim
<1>6. CASE ObjectEnd
  <2>1. <<"}", "n">> \in Seq(Tokens)
    BY Pieces DEF Tokened
  <2>. QED BY <1>6, <2>1, StillClean DEF ObjectEnd, hist
<1>7. CASE WriteAll
  BY <1>7, StillClean DEF WriteAll
<1>8. CASE EncodeDone
  BY <1>8, StillClean DEF EncodeDone, hist
<1>9. CASE SinkEncode
  <2>1. <<",">> \in Seq(Tokens) /\ Prefix \o <<"[">> \in Seq(Tokens)
    BY <1>0, PrefixTokens
  <2>2. \E s \in Seq(Tokens) : Emit(s)
    BY <1>9, <2>1 DEF SinkEncode
  <2>. QED BY <1>9, <2>2, StillClean DEF SinkEncode, hist
<1>10. CASE SinkEncodeNil
  BY <1>10, StillClean DEF SinkEncodeNil
<1>11. CASE SinkRefuses
  BY <1>11, StillClean DEF SinkRefuses, hist
<1>12. CASE ElementFlush
  BY <1>12, StillClean DEF ElementFlush, Flush
<1>13. CASE ElementDone
  <2>1. <<"e">> \in Seq(Tokens)
    BY Pieces DEF Tokened
  <2>. QED BY <1>13, <2>1, StillClean DEF ElementDone, hist
<1>14. CASE ElementFails
  BY <1>14, Abandoned DEF ElementFails
<1>15. CASE ElementPanics
  BY <1>15, Abandoned DEF ElementPanics
<1>16. CASE DrainFlush
  BY <1>16, StillClean DEF DrainFlush, Flush
<1>17. CASE DrainOn
  BY <1>17, StillClean DEF DrainOn, Flush
<1>18. CASE DrainDone
  BY <1>18, StillClean DEF DrainDone
<1>19. CASE ProducerFails
  BY <1>19, StillClean DEF ProducerFails
<1>20. CASE ProducerReturns
  BY <1>20, StillClean DEF ProducerReturns, hist
<1>21. CASE ProducerPanics
  BY <1>21, StillClean DEF ProducerPanics, hist
<1>22. CASE FinishArray
  <2>1. <<"]">> \in Seq(Tokens)
    BY Pieces DEF Tokened
  <2>. QED BY <1>22, <2>1, StillClean DEF FinishArray, hist
<1>23. CASE FinishOmitted
  BY <1>23, StillClean DEF FinishOmitted, hist
<1>24. CASE FinishEmpty
  <2>1. Prefix \o <<"[", "]">> \in Seq(Tokens)
    BY <1>0, PrefixTokens
  <2>. QED BY <1>24, <2>1, StillClean DEF FinishEmpty, hist
<1>. QED
  BY <1>1, <1>2, <1>3, <1>4, <1>5, <1>6, <1>7, <1>8, <1>9, <1>10, <1>11,
     <1>12, <1>13, <1>14, <1>15, <1>16, <1>17, <1>18, <1>19, <1>20, <1>21,
     <1>22, <1>23, <1>24 DEF Within

(* A call moves from member to member, and counts only the one at hand.    *)
LEMMA UnstartedStep ==
  ASSUME Shape, Counted, Within, pc' # "idle", Unstarted
  PROVE  Unstarted'
<1>1. mem \in Int /\ took \in [DOMAIN members -> -1 .. MaxElems]
  BY Members DEF Counted
<1>2. CASE ActivateWrite
  <2>1. /\ members' = members /\ mem' = mem /\ pc' # "member"
        /\ took' = [took EXCEPT ![mem] = 0]
    BY <1>2 DEF ActivateWrite
  <2>2. \A m \in DOMAIN members : m # mem => took'[m] = took[m]
    BY <1>1, <2>1
  <2>3. \A m \in DOMAIN members : m > mem => m # mem
    BY <1>1, LenProperties DEF Shape
  <2>. QED BY <2>1, <2>2, <2>3 DEF Unstarted
<1>3. CASE DrainDone
  <2>1. /\ members' = members /\ mem' = mem /\ pc' # "member"
        /\ took' = [took EXCEPT ![mem] = @ + 1]
    BY <1>3 DEF DrainDone
  <2>2. \A m \in DOMAIN members : m # mem => took'[m] = took[m]
    BY <1>1, <2>1
  <2>3. \A m \in DOMAIN members : m > mem => m # mem
    BY <1>1, LenProperties DEF Shape
  <2>. QED BY <2>1, <2>2, <2>3 DEF Unstarted
<1>4. CASE members' = members /\ took' = took /\ mem' = mem + 1
  <2>1. \A m \in DOMAIN members : m \in Int
    BY LenProperties DEF Shape
  <2>2. \A m \in DOMAIN members : m > mem + 1 \/ m = mem + 1 => m > mem
    BY <1>1, <2>1
  <2>. QED BY <1>4, <2>2 DEF Unstarted
<1>5. CASE members' = members /\ took' = took /\ mem' = mem /\ pc' # "member"
  BY <1>5 DEF Unstarted
<1>6. \/ ActivateWrite \/ DrainDone
      \/ members' = members /\ took' = took /\ mem' = mem + 1
      \/ members' = members /\ took' = took /\ mem' = mem /\ pc' # "member"
  BY DEF Within, MemberOmitted, MemberUnconfigured,
         ReclaimEmpty, Reclaim, ObjectEnd, WriteAll, EncodeDone, SinkEncode,
         SinkEncodeNil, SinkRefuses, ElementFlush, ElementDone, ElementFails,
         ElementPanics, DrainFlush, DrainOn, ProducerFails, Fail, Return,
         ProducerReturns, ProducerPanics, FinishArray, FinishOmitted, FinishEmpty, hist
<1>. QED BY <1>2, <1>3, <1>4, <1>5, <1>6

(* A step that leaves the value, the counts and the output alone.          *)
LEMMA SameFrame ==
  ASSUME UNCHANGED <<members, mem, took, out, first, drv>>
  PROVE  /\ Before' = Before
         /\ \A s : Fresh(s)' = Fresh(s)
         /\ \A n : Framed(n)' = Framed(n)
<1>1. Before' = Before
  BY DEF Before
<1>2. Prefix' = Prefix
  BY DEF Prefix
<1>. QED BY <1>1, <1>2 DEF Fresh, Framed, Ahead

(* What the driver wrote before its first element, and after n of them.    *)
Opened == (Before \o Prefix) \o <<"[">>

(* The elements follow what opens the array.                               *)
LEMMA AheadIs == \A n : Ahead(n) = Opened \o Elements(n)
BY DEF Ahead, Opened

(* What opens the array is what SinkEncode emits.                          *)
LEMMA OpenedType ==
  ASSUME Shape, Counted, Fresh(Before)
  PROVE  Tokened(Opened) /\ Before \o (Prefix \o <<"[">>) = Opened
<1>1. Tokened(Before) /\ first \in BOOLEAN
  BY BeforeType DEF Shape
<1>. QED BY <1>1, Led, Zenon DEF Opened

(* The first element follows it at once.                                   *)
LEMMA FirstFramed == Opened \o <<"e">> = Ahead(1)
BY OneElement, AheadIs, Zenon

(* Each further one follows a comma.                                       *)
LEMMA NextFramed ==
  ASSUME Shape, Counted, Fresh(Before), NEW n \in Nat, n > 0
  PROVE  (Ahead(n) \o <<",">>) \o <<"e">> = Ahead(n + 1)
<1>1. PICK o : o = Opened
  OBVIOUS
<1>2. PICK a : a = Elements(n)
  OBVIOUS
<1>3. PICK x : x = <<",">>
  OBVIOUS
<1>4. PICK y : y = <<"e">>
  OBVIOUS
<1>5. Tokened(o) /\ Tokened(a) /\ Tokened(x) /\ Tokened(y)
  <2>1. Tokened(o)
    BY <1>1, OpenedType, Zenon
  <2>2. Tokened(a)
    BY <1>2, ElementsType DEF Tokened
  <2>. QED BY <2>1, <2>2, <1>3, <1>4, Pieces, Zenon
<1>6. Tokened(a \o x)
  BY <1>5, JoinedPieces, Zenon
<1>7. (o \o a) \o x = o \o (a \o x)
  BY ONLY <1>5, Appended
<1>8. PICK b : b = a \o x
  OBVIOUS
<1>9. Tokened(b)
  BY <1>6, <1>8, Zenon
<1>10. (o \o b) \o y = o \o (b \o y)
  BY ONLY <1>5, <1>9, Appended
<1>11. b \o y = Elements(n + 1)
  BY <1>2, <1>3, <1>4, <1>8, NextElement
<1>12. Ahead(n) = o \o a /\ Ahead(n + 1) = o \o Elements(n + 1)
  BY <1>1, <1>2, AheadIs, Zenon
<1>. QED BY <1>3, <1>4, <1>7, <1>8, <1>10, <1>11, <1>12, Zenon

(* The driver closes an array of n elements, or writes an empty one.       *)
LEMMA ArrayClosed ==
  ASSUME Shape, Counted, Fresh(Before), NEW n \in Nat, n > 0, NEW omit \in BOOLEAN
  PROVE  Ahead(n) \o <<"]">> = Joined(Before, n, omit)
<1>1. Tokened(Before) /\ first \in BOOLEAN
  BY BeforeType DEF Shape
<1>. QED BY <1>1, Closed, Zenon DEF Ahead

(* An array with no element is written when the member is not omitted.     *)
LEMMA EmptyClosed ==
  ASSUME Shape, Counted, Fresh(Before)
  PROVE  Before \o (Prefix \o <<"[", "]">>) = Joined(Before, 0, FALSE)
<1>1. Tokened(Before) /\ first \in BOOLEAN
  BY BeforeType DEF Shape
<1>2. ((Opened \o Elements(0)) \o <<"]">>) = Joined(Before, 0, FALSE)
  <2>1. 0 \in Nat /\ FALSE \in BOOLEAN
    OBVIOUS
  <2>. QED BY <1>1, <2>1, Closed, Zenon DEF Opened
<1>3. Opened \o Elements(0) = Opened
  BY OpenedType, NoElements, ConcatEmptySeq DEF Tokened
<1>4. PICK b : b = Before
  OBVIOUS
<1>5. PICK p : p = Prefix
  OBVIOUS
<1>6. PICK x : x = <<"[">>
  OBVIOUS
<1>7. PICK y : y = <<"]">>
  OBVIOUS
<1>8. Tokened(b) /\ Tokened(p) /\ Tokened(x) /\ Tokened(y)
  BY <1>1, <1>4, <1>5, <1>6, <1>7, PrefixType, Pieces, Zenon
<1>9. PICK q : q = p \o x
  OBVIOUS
<1>10. Tokened(q)
  BY <1>8, <1>9, JoinedPieces, Zenon
<1>11. (p \o x) \o y = p \o (x \o y)
  BY ONLY <1>8, Appended
<1>12. (b \o q) \o y = b \o (q \o y)
  BY ONLY <1>8, <1>10, Appended
<1>13. b \o q = Opened
  BY <1>4, <1>5, <1>6, <1>9, OpenedType, Zenon
<1>14. x \o y = <<"[", "]">>
  BY <1>6, <1>7, Pairs, Zenon
<1>. QED BY <1>2, <1>3, <1>4, <1>5, <1>7, <1>9, <1>11, <1>12, <1>13, <1>14, Zenon

(* The frame of an array under way, for a step within the producer.        *)
LEMMA StillInArray ==
  ASSUME Shown, pc \in Inside, UNCHANGED <<members, mem, took, out, first, drv>>,
         pc' \in Inside,
         pc' = "producer" => pc = "producer" /\ sk' # "busy",
         pc' = "element" => pc = "element",
         pc' \in {"drain", "draining"} => pc \in {"drain", "draining"}
  PROVE  Shown'
<1>1. InArray
  BY DEF Shown
<1>2. InArray'
  <2>1. Fresh(Before)'
    BY <1>1, SameFrame DEF InArray
  <2>2. pc' = "producer" => sk' # "busy" /\ Framed(drv.emitted)'
    BY <1>1, SameFrame DEF InArray
  <2>3. pc' = "element" =>
          /\ drv'.opened
          /\ out' = IF drv'.emitted = 0 THEN (Before' \o Prefix') \o <<"[">>
                    ELSE Ahead(drv.emitted)' \o <<",">>
    <3>1. drv' = drv /\ out' = out /\ Before' = Before /\ Prefix' = Prefix
      BY SameFrame DEF Prefix
    <3>2. Ahead(drv.emitted)' = Ahead(drv.emitted)
      BY <3>1 DEF Ahead
    <3>. QED BY <1>1, <3>1, <3>2 DEF InArray
  <2>4. pc' \in {"drain", "draining"} => drv'.emitted > 0 /\ Framed(drv.emitted)'
    BY <1>1, SameFrame DEF InArray
  <2>5. pc' # "finish"
    BY DEF Inside
  <2>. QED BY <2>1, <2>2, <2>3, <2>4, <2>5 DEF InArray
<1>. QED BY <1>2 DEF Shown, Inside

(* The frame before the array: the steps from member to member.            *)
LEMMA ShownBetween ==
  ASSUME IInv, IInv', pc' # "idle", Unstarted, Shown,
         MemberOmitted \/ MemberUnconfigured \/ ActivateWrite \/ ReclaimEmpty \/ Reclaim
           \/ ObjectEnd \/ WriteAll \/ EncodeDone
  PROVE  Shown'
<1>0. Shape /\ Counted /\ Shape' /\ Counted'
  BY DEF IInv
<1>1. CASE MemberOmitted
  <2>1. /\ pc = "member" /\ pc' = "reclaim" /\ mem <= Len(members)
        /\ UNCHANGED <<members, mem, took, out, first, drv>>
    BY <1>1 DEF MemberOmitted, hist
  <2>2. out = Before /\ Fresh(Before)
    BY <2>1 DEF Shown
  <2>3. took[mem] = -1
    BY <1>0, <2>1, AtMember DEF Unstarted
  <2>4. Joined(Before, took[mem], members[mem].omit) = Before
    BY <2>3 DEF Joined
  <2>5. Before' = Before /\ Fresh(Before)' = Fresh(Before)
    BY <2>1, SameFrame
  <2>6. out' = Joined(Before, took[mem], members[mem].omit)' /\ Fresh(out)'
    <3>1. out' = Before /\ took' = took /\ mem' = mem /\ members' = members /\ first' = first
      BY <2>1, <2>2
    <3>2. Joined(Before, took[mem], members[mem].omit)'
            = Joined(Before, took[mem], members[mem].omit)
      BY <2>5, <3>1
    <3>. QED BY <2>2, <2>4, <3>1, <3>2, Zenon DEF Fresh
  <2>. QED BY <2>1, <2>6 DEF Shown, Inside
<1>2. CASE MemberUnconfigured
  BY <1>2 DEF MemberUnconfigured, Fail
<1>3. CASE ActivateWrite
  <2>1. /\ pc = "member" /\ pc' = "producer" /\ UNCHANGED <<members, mem, out, first>>
        /\ sk' = None /\ drv' = NoDriver /\ took' = [took EXCEPT ![mem] = 0]
    BY <1>3 DEF ActivateWrite
  <2>2. out = Before /\ Fresh(Before)
    BY <2>1 DEF Shown
  <2>3. Before' = Before
    <3>1. \A i \in 1 .. mem - 1 : took'[i] = took[i]
      BY <1>0, <2>1, Members, LenProperties DEF Counted, Shape
    <3>. QED BY <1>0, <2>1, <3>1, BeforeSame
  <2>4. InArray'
    <3>1. Fresh(Before)'
      BY <2>1, <2>2, <2>3, Zenon DEF Fresh
    <3>2. sk' # "busy" /\ ~drv'.opened /\ drv'.emitted = 0 /\ out' = Before'
      BY <2>1, <2>2, <2>3 DEF None, NoDriver
    <3>3. Framed(drv.emitted)'
      BY <3>2 DEF Framed
    <3>. QED BY <2>1, <3>1, <3>2, <3>3 DEF InArray
  <2>. QED BY <2>1, <2>4 DEF Shown, Inside
<1>4. CASE ReclaimEmpty \/ Reclaim
  <2>1. /\ pc = "reclaim" /\ pc' = "member" /\ mem' = mem + 1
        /\ UNCHANGED <<members, took, out, first>>
    BY <1>4 DEF ReclaimEmpty, Reclaim, Fail, hist
  <2>2. out = Joined(Before, took[mem], members[mem].omit) /\ Fresh(out)
    BY <2>1 DEF Shown
  <2>3. mem <= Len(members)
    BY <1>0, <2>1 DEF Shape
  <2>4. Before' = Joined(Before, took[mem], members[mem].omit)
    BY <1>0, <2>1, <2>3, MoveOn
  <2>5. out' = Before' /\ Fresh(Before)'
    BY <2>1, <2>2, <2>4, Zenon DEF Fresh
  <2>. QED BY <2>1, <2>5 DEF Shown, Inside
<1>5. CASE ObjectEnd
  <2>1. /\ pc = "member" /\ pc' = "writeAll" /\ mem > Len(members)
        /\ out' = out \o <<"}", "n">> /\ UNCHANGED <<members, mem, took>>
    BY <1>5 DEF ObjectEnd, Emit, hist
  <2>2. out = Before
    BY <2>1 DEF Shown
  <2>3. mem = Len(members) + 1
    <3>1. Len(members) \in Nat /\ mem \in 1 .. Len(members) + 1
      BY <1>0, Members
    <3>2. mem > Len(members)
      BY <2>1
    <3>. QED BY ONLY <3>1, <3>2
  <2>4. Before' = Before
    BY <2>1 DEF Before
  <2>. QED BY <2>1, <2>2, <2>3, <2>4 DEF Shown, Inside
<1>6. CASE WriteAll
  <2>1. pc = "writeAll" /\ pc' = "writeAll" /\ UNCHANGED <<members, mem, took, out>>
    BY <1>6 DEF WriteAll, Fail
  <2>2. Before' = Before
    BY <2>1 DEF Before
  <2>. QED BY <2>1, <2>2 DEF Shown, Inside
<1>7. CASE EncodeDone
  BY <1>7 DEF EncodeDone, Return
<1>. QED BY <1>1, <1>2, <1>3, <1>4, <1>5, <1>6, <1>7

(* The frame while the array is written: the steps of the sink, its driver *)
(* and its producer.                                                       *)
LEMMA ShownInside ==
  ASSUME IInv, IInv', pc' # "idle", Shown, Clean, Clean',
         SinkEncode \/ SinkEncodeNil \/ SinkRefuses \/ ElementFlush \/ ElementDone
           \/ ElementFails \/ ElementPanics \/ DrainFlush \/ DrainOn \/ DrainDone
  PROVE  Shown'
<1>0. Output /\ Shape /\ Counted /\ Shape' /\ Counted' /\ drv.emitted \in Nat
  BY BoundAssumption DEF IInv, Counted
<1>1. CASE SinkEncode
  <2>1. /\ pc = "producer" /\ pc' = "element" /\ UNCHANGED <<members, mem, took, first>>
        /\ drv' = [drv EXCEPT !.opened = TRUE]
        /\ out' = out \o (IF drv.opened THEN <<",">> ELSE Prefix \o <<"[">>)
    BY <1>1 DEF SinkEncode, Emit, hist
  <2>2. InArray
    BY <2>1 DEF Shown, Inside
  <2>3. Fresh(Before) /\ Framed(drv.emitted)
    BY <2>1, <2>2 DEF InArray
  <2>4. Before' = Before /\ Prefix' = Prefix
    BY <2>1 DEF Before, Prefix
  <2>5. drv'.opened /\ drv'.emitted = drv.emitted
    BY <1>0, <2>1 DEF Counted
  <2>6. out' = IF drv'.emitted = 0 THEN (Before' \o Prefix') \o <<"[">>
               ELSE Ahead(drv.emitted)' \o <<",">>
    <3>1. CASE drv.emitted = 0
      <4>1. ~drv.opened /\ out = Before
        BY <2>3, <3>1 DEF Framed
      <4>2. out' = Before \o (Prefix \o <<"[">>)
        BY <2>1, <4>1
      <4>. QED BY <1>0, <2>3, <2>4, <2>5, <3>1, <4>2, OpenedType DEF Opened
    <3>2. CASE drv.emitted # 0
      <4>1. drv.opened /\ out = Ahead(drv.emitted)
        BY <2>3, <3>2 DEF Framed
      <4>2. Ahead(drv.emitted)' = Ahead(drv.emitted)
        BY <2>4, <2>5 DEF Ahead
      <4>. QED BY <2>1, <2>5, <3>2, <4>1, <4>2
    <3>. QED BY <3>1, <3>2
  <2>7. Fresh(Before)'
    BY <2>1, <2>3, <2>4, Zenon DEF Fresh
  <2>8. InArray'
    BY <2>1, <2>5, <2>6, <2>7 DEF InArray
  <2>. QED BY <2>1, <2>8 DEF Shown, Inside
<1>2. CASE SinkEncodeNil
  BY <1>2 DEF SinkEncodeNil, Note, Clean, None
<1>3. CASE SinkRefuses
  <2>1. /\ pc = "producer" /\ pc' = "producer" /\ sk' = sk
        /\ UNCHANGED <<members, mem, took, out, first, drv>>
    BY <1>3 DEF SinkRefuses, hist
  <2>2. sk # "busy"
    BY <2>1 DEF Shown, Inside, InArray
  <2>. QED BY <2>1, <2>2, StillInArray DEF Inside
<1>4. CASE ElementFlush
  <2>1. /\ pc = "element" /\ pc' = "element"
        /\ UNCHANGED <<members, mem, took, out, first, drv>>
    BY <1>4 DEF ElementFlush, Flush, Note, Clean, None
  <2>. QED BY <2>1, StillInArray DEF Inside
<1>5. CASE ElementDone
  <2>1. /\ pc = "element" /\ pc' = "drain" /\ UNCHANGED <<members, mem, took, first>>
        /\ drv' = [drv EXCEPT !.emitted = @ + 1]
        /\ out' = out \o <<"e">>
    BY <1>5 DEF ElementDone, Emit, hist
  <2>2. PICK n : n = drv.emitted
    OBVIOUS
  <2>3. n \in Nat /\ drv'.emitted = n + 1 /\ drv'.opened = drv.opened
    BY <1>0, <2>1, <2>2 DEF Counted
  <2>4. InArray
    BY <2>1 DEF Shown, Inside
  <2>5. /\ Fresh(Before) /\ drv.opened
        /\ out = IF n = 0 THEN (Before \o Prefix) \o <<"[">> ELSE Ahead(n) \o <<",">>
    BY <2>1, <2>2, <2>4 DEF InArray
  <2>6. out' = Ahead(n + 1)
    <3>1. CASE n = 0
      <4>1. out = Opened
        BY <2>5, <3>1 DEF Opened
      <4>2. n + 1 = 1
        BY <3>1
      <4>. QED BY <2>1, <4>1, <4>2, FirstFramed, Zenon
    <3>2. CASE n # 0
      <4>1. n > 0
        BY <2>3, <3>2
      <4>2. out = Ahead(n) \o <<",">>
        BY <2>5, <3>2
      <4>3. (Ahead(n) \o <<",">>) \o <<"e">> = Ahead(n + 1)
        BY <1>0, <2>3, <2>5, <4>1, NextFramed
      <4>. QED BY <2>1, <4>2, <4>3, Zenon
    <3>. QED BY <3>1, <3>2
  <2>7. Before' = Before /\ Prefix' = Prefix
    BY <2>1 DEF Before, Prefix
  <2>8. PICK k : k = n + 1
    OBVIOUS
  <2>9. k # 0 /\ k > 0 /\ drv'.emitted = k /\ drv'.opened
    <3>1. k # 0 /\ k > 0
      BY ONLY <2>3, <2>8
    <3>2. drv'.emitted = k
      BY <2>3, <2>8, Zenon
    <3>3. drv'.opened
      BY <2>3, <2>5, Zenon
    <3>. QED BY <3>1, <3>2, <3>3
  <2>10. out' = Ahead(k)'
    BY <2>6, <2>7, <2>8 DEF Ahead
  <2>11. Framed(drv.emitted)'
    BY <2>9, <2>10 DEF Framed
  <2>12. Fresh(Before)'
    BY <2>1, <2>5, <2>7, Zenon DEF Fresh
  <2>13. InArray'
    BY <2>1, <2>9, <2>11, <2>12 DEF InArray
  <2>. QED BY <2>1, <2>13 DEF Shown, Inside
<1>6. CASE ElementFails
  BY <1>0, <1>6, Abandoned DEF ElementFails
<1>7. CASE ElementPanics
  BY <1>0, <1>7, Abandoned DEF ElementPanics
<1>8. CASE DrainFlush
  <2>1. /\ pc = "drain" /\ pc' = "draining"
        /\ UNCHANGED <<members, mem, took, out, first, drv>>
    BY <1>8 DEF DrainFlush, Flush, Note, Clean, None
  <2>. QED BY <2>1, StillInArray DEF Inside
<1>9. CASE DrainOn
  <2>1. /\ pc = "draining" /\ pc' = "draining"
        /\ UNCHANGED <<members, mem, took, out, first, drv>>
    BY <1>9 DEF DrainOn, Flush, Note, Clean, None
  <2>. QED BY <2>1, StillInArray DEF Inside
<1>10. CASE DrainDone
  <2>1. /\ pc \in {"drain", "draining"} /\ pc' = "producer" /\ sk' = None
        /\ UNCHANGED <<members, mem, out, first, drv>>
        /\ took' = [took EXCEPT ![mem] = @ + 1]
    BY <1>10 DEF DrainDone
  <2>2. InArray
    BY <2>1 DEF Shown, Inside
  <2>3. Fresh(Before) /\ Framed(drv.emitted)
    BY <2>1, <2>2 DEF InArray
  <2>4. Before' = Before
    <3>1. \A i \in 1 .. mem - 1 : took'[i] = took[i]
      BY <1>0, <2>1, Members, LenProperties DEF Counted, Shape
    <3>. QED BY <1>0, <2>1, <3>1, BeforeSame
  <2>5. Prefix' = Prefix
    BY <2>1 DEF Prefix
  <2>6. Framed(drv.emitted)' = Framed(drv.emitted)
    BY <2>1, <2>4, <2>5 DEF Framed, Ahead
  <2>7. Fresh(Before)'
    BY <2>1, <2>3, <2>4, Zenon DEF Fresh
  <2>8. InArray'
    BY <2>1, <2>3, <2>6, <2>7 DEF InArray, None
  <2>. QED BY <2>1, <2>8 DEF Shown, Inside
<1>. QED
  BY <1>1, <1>2, <1>3, <1>4, <1>5, <1>6, <1>7, <1>8, <1>9, <1>10

(* The frame when the producer has returned.                               *)
LEMMA ShownAfter ==
  ASSUME IInv, IInv', pc' # "idle", Shown, Clean,
         ProducerFails \/ ProducerReturns \/ ProducerPanics
           \/ FinishArray \/ FinishOmitted \/ FinishEmpty
  PROVE  Shown'
<1>0. /\ Shape /\ Counted /\ FirstError /\ Shape' /\ Counted' /\ drv.emitted \in Nat
  BY BoundAssumption DEF IInv, Counted
<1>1. CASE ProducerFails
  BY <1>1 DEF ProducerFails, Fail
<1>2. CASE ProducerReturns
  <2>1. /\ pc = "producer" /\ pc' = "finish"
        /\ UNCHANGED <<members, mem, took, out, first, drv>>
    BY <1>2 DEF ProducerReturns, hist
  <2>2. InArray
    BY <2>1 DEF Shown, Inside
  <2>3. sk # "busy" /\ Fresh(Before) /\ Framed(drv.emitted)
    BY <2>1, <2>2 DEF InArray
  <2>4. sk = None
    <3>1. cause = None /\ cause = IF Latched THEN sk ELSE None
      BY <1>0, <2>1 DEF Clean, FirstError
    <3>2. CASE Latched
      BY <3>1, <3>2
    <3>3. CASE ~Latched
      BY <2>3, <3>3 DEF Latched
    <3>. QED BY <3>2, <3>3
  <2>5. drv.emitted = took[mem]
    BY <1>0, <2>1, <2>4 DEF Counted
  <2>6. InArray'
    BY <2>1, <2>3, <2>5, SameFrame DEF InArray
  <2>. QED BY <2>1, <2>6 DEF Shown, Inside
<1>3. CASE ProducerPanics
  BY <1>3 DEF ProducerPanics
<1>. DEFINE n == drv.emitted
            omit == members[mem].omit
<1>4. ASSUME pc = "finish"
      PROVE  /\ n = took[mem] /\ Framed(n) /\ Fresh(Before)
             /\ mem <= Len(members) /\ mem \in 1 .. Len(members) /\ omit \in BOOLEAN
  <2>1. InArray
    BY <1>4 DEF Shown
  <2>2. n = took[mem] /\ Framed(n) /\ Fresh(Before)
    BY <1>4, <2>1 DEF InArray
  <2>3. mem <= Len(members)
    BY <1>0, <1>4 DEF Shape
  <2>4. mem \in 1 .. Len(members)
    BY <1>0, <2>3, Members
  <2>. QED BY <1>0, <2>2, <2>3, <2>4, Members
<1>5. ASSUME pc' = "reclaim", UNCHANGED <<members, mem, took>>, n = took[mem],
             out' = Joined(Before, n, omit), Fresh(out)'
      PROVE  Shown'
  <2>1. Before' = Before
    BY <1>5 DEF Before
  <2>2. Joined(Before, took[mem], members[mem].omit)' = Joined(Before, n, omit)
    BY <1>5, <2>1
  <2>. QED BY <1>5, <2>2 DEF Shown, Inside
<1>6. CASE FinishArray
  <2>1. /\ pc = "finish" /\ pc' = "reclaim" /\ UNCHANGED <<members, mem, took>>
        /\ n > 0 /\ first' = FALSE /\ out' = out \o <<"]">>
    BY <1>6 DEF FinishArray, Emit, hist
  <2>2. n \in Nat /\ n > 0 /\ n # 0
    BY <1>0, <2>1
  <2>3. out = Ahead(n)
    BY <1>4, <2>1, <2>2 DEF Framed
  <2>. HIDE DEF n, omit
  <2>4. out' = Joined(Before, n, omit)
    <3>1. Ahead(n) \o <<"]">> = Joined(Before, n, omit)
      BY <1>0, <1>4, <2>1, <2>2, ArrayClosed
    <3>. QED BY <2>1, <2>3, <3>1, Zenon
  <2>5. Joined(Before, n, omit) # <<"{">>
    BY <1>0, <1>4, <2>1, <2>2, BeforeType, Longer
  <2>6. Fresh(out)'
    BY <2>1, <2>4, <2>5 DEF Fresh
  <2>. QED BY <1>4, <1>5, <2>1, <2>4, <2>6
<1>7. CASE FinishOmitted
  <2>1. /\ pc = "finish" /\ pc' = "reclaim" /\ UNCHANGED <<members, mem, took, out, first>>
        /\ n = 0 /\ omit
    BY <1>7 DEF FinishOmitted, Member, hist
  <2>2. out = Before
    BY <1>4, <2>1 DEF Framed
  <2>3. Joined(Before, n, omit) = Before
    BY <2>1 DEF Joined
  <2>4. Fresh(out)'
    BY <1>4, <2>1, <2>2, Zenon DEF Fresh
  <2>. QED BY <1>4, <1>5, <2>1, <2>2, <2>3, <2>4
<1>8. CASE FinishEmpty
  <2>1. /\ pc = "finish" /\ pc' = "reclaim" /\ UNCHANGED <<members, mem, took>>
        /\ n = 0 /\ ~omit /\ first' = FALSE /\ out' = out \o (Prefix \o <<"[", "]">>)
    BY <1>8 DEF FinishEmpty, Emit, Member, hist
  <2>2. out = Before
    BY <1>4, <2>1 DEF Framed
  <2>3. omit = FALSE
    BY <1>4, <2>1
  <2>. HIDE DEF n, omit
  <2>4. out' = Joined(Before, n, omit)
    <3>1. Before \o (Prefix \o <<"[", "]">>) = Joined(Before, 0, FALSE)
      BY <1>0, <1>4, <2>1, EmptyClosed
    <3>. QED BY <2>1, <2>2, <2>3, <3>1
  <2>5. Joined(Before, n, omit) # <<"{">>
    BY <1>0, <1>4, <2>1, <2>3, BeforeType, Longer
  <2>6. Fresh(out)'
    BY <2>1, <2>4, <2>5 DEF Fresh
  <2>. QED BY <1>4, <1>5, <2>1, <2>4, <2>6
<1>. QED BY <1>1, <1>2, <1>3, <1>6, <1>7, <1>8

(* A call that returns nil has ended in EncodeDone, with nothing to write. *)
LEMMA ExactStep ==
  ASSUME IInv, Within, pc # "idle", Clean => Shown
  PROVE  OutputExact'
<1>0. /\ Output /\ Shape /\ SinkWord /\ Counted /\ FirstError /\ NothingLost
  BY DEF IInv
<1>. SUFFICES ASSUME pc' = "idle", ret' = "ok", "x" \notin Range(out)'
              PROVE  sent' = Text(took, members)'
  BY DEF OutputExact
<1>1. EncodeDone
  <2>1. "ok" \notin Errors
    BY DEF Errors, None
  <2>2. ~MemberUnconfigured
    BY DEF MemberUnconfigured, Fail
  <2>3. ~Reclaim /\ ~WriteAll
    <3>1. ASSUME Reclaim \/ WriteAll PROVE FALSE
      <4>1. PICK o \in Outcomes(buf) : ret' = FlushError(o)
        BY <3>1 DEF Reclaim, WriteAll, Fail
      <4>. QED BY <4>1, FlushOutcome DEF None
    <3>. QED BY <3>1
  <2>4. ~ProducerFails
    <3>1. ASSUME ProducerFails PROVE FALSE
      <4>1. PICK e \in Answers : ret' = Verdict(e) /\ pc = "producer"
        BY <3>1 DEF ProducerFails, Fail
      <4>2. e \in Errors
        BY <1>0 DEF Answers, Shape, Errors, None
      <4>3. Verdict(e) \in Errors \cup {"closed", "busy"}
        BY <1>0, <4>2 DEF Verdict, SinkWord
      <4>. QED BY <4>1, <4>3 DEF Errors, None
    <3>. QED BY <3>1
  <2>5. ~ProducerPanics
    BY DEF ProducerPanics
  <2>. QED
    BY <2>2, <2>3, <2>4, <2>5
       DEF Within, MemberOmitted, ActivateWrite, ReclaimEmpty, ObjectEnd, SinkEncode,
           SinkEncodeNil, SinkRefuses, ElementFlush, ElementDone, ElementFails,
           ElementPanics, DrainFlush, DrainOn, DrainDone, ProducerReturns, FinishArray,
           FinishOmitted, FinishEmpty
<1>2. /\ pc = "writeAll" /\ buf = <<>>
      /\ UNCHANGED <<members, sent, out, took, cause>>
  BY <1>1 DEF EncodeDone, hist
<1>3. cause = None
  BY <1>0, <1>2 DEF FirstError
<1>4. Clean
  <2>1. Range(out)' = Range(out)
    BY <1>2 DEF Range
  <2>. QED BY <1>3, <2>1 DEF Clean
<1>5. mem = Len(members) + 1 /\ out = Before \o <<"}", "n">>
  BY <1>2, <1>4 DEF Shown
<1>6. sent = out
  <2>1. sent \o <<>> = out
    BY <1>0, <1>2, <1>3 DEF NothingLost
  <2>. QED BY <1>0, <2>1, ConcatEmptySeq DEF Output
<1>7. mem - 1 = Len(members)
  <2>1. Len(members) \in Nat
    BY <1>0, Members
  <2>2. mem = Len(members) + 1
    BY <1>5
  <2>. QED BY ONLY <2>1, <2>2
<1>8. Text(took, members) = Before \o <<"}", "n">>
  BY <1>7 DEF Text, Before
<1>. QED BY <1>2, <1>5, <1>6, <1>8

(* A new call starts with the text of no member.                           *)
LEMMA FramingCall ==
  ASSUME IInv', NEW v, EncodeCall(v)
  PROVE  Framing'
<1>1. Shape' /\ Counted'
  BY DEF IInv
<1>2. /\ members' = v /\ mem' = 1 /\ first' = TRUE /\ out' = <<"{">> /\ pc' = "member"
      /\ took' = [m \in DOMAIN v |-> -1]
  BY DEF EncodeCall
<1>3. Before' = <<"{">>
  <2>1. (Shape /\ Counted /\ mem = 1 => Before = <<"{">>)'
    BY FirstMember, PTL
  <2>. QED BY <1>1, <1>2, <2>1
<1>4. Unstarted'
  BY <1>2 DEF Unstarted
<1>5. Shown'
  <2>1. Fresh(Before)'
    BY <1>2, <1>3, Zenon DEF Fresh
  <2>. QED BY <1>2, <1>3, <2>1 DEF Shown, Inside
<1>. QED BY <1>2, <1>4, <1>5 DEF Framing, OutputExact

(* Framing is inductive, given that IInv holds before and after the step.  *)
LEMMA FramingStep == Framing /\ IInv /\ IInv' /\ [Next]_vars => Framing'
<1>. SUFFICES ASSUME Framing, IInv, IInv', [Next]_vars PROVE Framing'
  OBVIOUS
<1>1. CASE \E v \in Shapes : EncodeCall(v)
  BY <1>1, FramingCall
<1>2. CASE EncodeNull
  <2>1. pc = "idle" /\ pc' = "idle" /\ out' = Null
    BY <1>2 DEF EncodeNull, Call
  <2>. QED BY <2>1 DEF Framing, OutputExact
<1>3. CASE Within
  <2>0. Output /\ Shape /\ Counted /\ Shape' /\ Counted'
    BY DEF IInv
  <2>1. pc # "idle"
    BY <1>3
       DEF Within, MemberOmitted, MemberUnconfigured, ActivateWrite, ReclaimEmpty, Reclaim,
           ObjectEnd, WriteAll, EncodeDone, SinkEncode, SinkEncodeNil, SinkRefuses,
           ElementFlush, ElementDone, ElementFails, ElementPanics, DrainFlush, DrainOn,
           DrainDone, ProducerFails, ProducerReturns, ProducerPanics, FinishArray,
           FinishOmitted, FinishEmpty
  <2>2. OutputExact'
    BY <1>3, <2>1, ExactStep DEF Framing
  <2>3. pc' # "idle" => Unstarted'
    BY <1>3, <2>0, <2>1, UnstartedStep DEF Framing
  <2>4. ASSUME pc' # "idle", Clean' PROVE Shown'
    <3>1. Clean
      BY <1>3, <2>0, <2>4, CleanStep
    <3>2. Unstarted /\ Shown
      BY <2>1, <3>1 DEF Framing
    <3>. QED
      BY <1>3, <2>4, <3>1, <3>2, ShownBetween, ShownInside, ShownAfter DEF Within
  <2>. QED BY <2>2, <2>3, <2>4 DEF Framing
<1>4. CASE UNCHANGED vars
  <2>1. /\ UNCHANGED <<members, mem, first, sent, out, drv, pc, ret, took, cause>>
        /\ UNCHANGED sk
    BY <1>4 DEF vars
  <2>2. Unstarted' = Unstarted /\ Before' = Before /\ Prefix' = Prefix
    BY <2>1 DEF Unstarted, Before, Prefix
  <2>3. Clean' = Clean
    BY <2>1 DEF Clean, Range
  <2>4. Shown' = Shown
    BY <2>1, <2>2 DEF Shown, InArray, Framed, Ahead, Fresh
  <2>5. OutputExact' = OutputExact
    BY <2>1 DEF OutputExact, Text, Range
  <2>. QED BY <2>1, <2>2, <2>3, <2>4, <2>5 DEF Framing
<1>. QED BY <1>1, <1>2, <1>3, <1>4 DEF Next, Within, Rests

(* Encode returns what happened.  A call that returns nil has given the    *)
(* writer one object whose arrays hold exactly the elements their sinks    *)
(* accepted; one that fails returns its first error, whatever the producer *)
(* did with it: for every value, every number of elements and every split  *)
(* of the Writes (venc/stream.go onElem, finish; stream/sink.go except;    *)
(* venc/encoder.go Encode).                                                *)
THEOREM ReturnsTrue == Spec => []ReturnsExact
<1>1. Init => Framing
  BY DEF Init, Framing, OutputExact, None
<1>2. IInv /\ Framing => ReturnsExact
  BY DEF IInv, FirstError, Framing, ReturnsExact
<1>. QED BY <1>1, <1>2, Invariance, FramingStep, PTL DEF Spec
=============================================================================
