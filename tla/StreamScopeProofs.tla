--------------------------- MODULE StreamScopeProofs -------------------------
(***************************************************************************)
(* Proofs about StreamScope: an error ends the walk and fails the parse,   *)
(* for documents of any depth, any batch and handlers that may do          *)
(* anything.  The walk must not run on with an error reported, so the      *)
(* activation that is told of one must have nothing left that would resume *)
(* it.  A Decode that fails comes back into its loop body; that the body   *)
(* takes no further element rests on its slot holding one, and that on the *)
(* machine binding elements that hold streams one at a time: the invariant *)
(* follows the count of the innermost array through every yield.           *)
(***************************************************************************)
EXTENDS StreamScope, SequenceTheorems, WellFoundedInduction, TLAPS

(***************************************************************************)
(* Sequences: the frames, the activations and the paths.                   *)
(***************************************************************************)
IsSeq(s) == Len(s) \in Nat /\ DOMAIN s = 1 .. Len(s) /\ s = [i \in DOMAIN s |-> s[i]]

LEMMA ASeq ==
  ASSUME NEW n \in Nat, NEW r, r = [i \in 1 .. n |-> r[i]]
  PROVE  IsSeq(r) /\ Len(r) = n /\ DOMAIN r = 1 .. n
<1>1. DOMAIN r = 1 .. n
  OBVIOUS
<1>. DEFINE S == {r[i] : i \in DOMAIN r}
<1>2. \A i \in 1 .. n : r[i] \in S
  BY <1>1
<1>. HIDE DEF S
<1>3. [i \in 1 .. n |-> r[i]] \in Seq(S)
  BY <1>2, IsASeq
<1>4. Len(r) = n
  BY <1>1, <1>3, LenProperties
<1>. QED BY <1>1, <1>4 DEF IsSeq

LEMMA InSeq ==
  ASSUME NEW s, IsSeq(s)
  PROVE  s \in Seq({s[i] : i \in DOMAIN s})
<1>. DEFINE S == {s[i] : i \in DOMAIN s}
<1>1. \A i \in 1 .. Len(s) : s[i] \in S
  BY DEF IsSeq
<1>. HIDE DEF S
<1>2. [i \in 1 .. Len(s) |-> s[i]] \in Seq(S)
  BY <1>1, IsASeq DEF IsSeq
<1>3. s = [i \in 1 .. Len(s) |-> s[i]]
  BY DEF IsSeq
<1>. QED BY <1>2, <1>3 DEF S

LEMMA Below == \A n \in Nat \ {0} : n - 1 \in Nat /\ \A i \in 1 .. n - 1 : i \in 1 .. n /\ i # n
OBVIOUS

(* The last element, and those before it.                                  *)
LEMMA LastOf ==
  ASSUME NEW s, IsSeq(s), s # <<>>
  PROVE  /\ Len(s) \in Nat \ {0} /\ Len(s) \in DOMAIN s /\ Last(s) = s[Len(s)]
         /\ IsSeq(Front(s)) /\ Len(Front(s)) = Len(s) - 1
         /\ DOMAIN Front(s) = 1 .. Len(s) - 1
         /\ \A i \in 1 .. Len(s) - 1 : Front(s)[i] = s[i] /\ i \in DOMAIN s /\ i # Len(s)
<1>1. Len(s) \in Nat /\ DOMAIN s = 1 .. Len(s)
  BY DEF IsSeq
<1>2. Len(s) # 0
  BY InSeq, EmptySeq
<1>3. Len(s) \in Nat \ {0} /\ Len(s) \in DOMAIN s /\ Last(s) = s[Len(s)]
  BY <1>1, <1>2 DEF Last
<1>. DEFINE r == [i \in 1 .. Len(s) - 1 |-> s[i]]
<1>4. Front(s) = r
  BY <1>1 DEF Front
<1>5. Len(s) - 1 \in Nat /\ \A i \in 1 .. Len(s) - 1 : i \in 1 .. Len(s) /\ i # Len(s)
  BY <1>3, Below
<1>9. \A i \in 1 .. Len(s) - 1 : r[i] = s[i]
  OBVIOUS
<1>6. r = [i \in 1 .. Len(s) - 1 |-> r[i]]
  OBVIOUS
<1>. HIDE DEF r
<1>7. IsSeq(r) /\ Len(r) = Len(s) - 1 /\ DOMAIN r = 1 .. Len(s) - 1
  BY <1>5, <1>6, ASeq
<1>. QED BY <1>1, <1>3, <1>4, <1>5, <1>7, <1>9

(* An element added.                                                       *)
LEMMA Added ==
  ASSUME NEW s, IsSeq(s), NEW e
  PROVE  /\ IsSeq(Append(s, e)) /\ Append(s, e) # <<>> /\ Len(Append(s, e)) = Len(s) + 1
         /\ DOMAIN Append(s, e) = 1 .. Len(s) + 1
         /\ Last(Append(s, e)) = e /\ Front(Append(s, e)) = s
         /\ Append(s, e)[Len(s) + 1] = e
         /\ \A i \in 1 .. Len(s) : Append(s, e)[i] = s[i] /\ i \in DOMAIN s
<1>1. Len(s) \in Nat /\ DOMAIN s = 1 .. Len(s)
  BY DEF IsSeq
<1>2. PICK n \in Nat : n = Len(s) + 1
  BY <1>1
<1>. DEFINE r == Append(s, e)
            S == {s[i] : i \in DOMAIN s} \cup {e}
<1>3. s \in Seq(S) /\ e \in S
  <2>1. s \in Seq({s[i] : i \in DOMAIN s})
    BY InSeq
  <2>. QED BY <2>1
<1>. HIDE DEF S
<1>4. /\ r \in Seq(S) /\ Len(r) = n /\ r # <<>>
      /\ \A i \in 1 .. Len(s) : r[i] = s[i]
  BY <1>1, <1>2, <1>3, AppendProperties
<1>5. r[n] = e
  BY <1>1, <1>2, <1>3, AppendProperties
<1>6. r = [i \in 1 .. n |-> r[i]]
  BY <1>4, LenProperties
<1>. HIDE DEF r
<1>7. IsSeq(r) /\ DOMAIN r = 1 .. n
  BY <1>6, ASeq
<1>8. /\ Last(r) = e /\ IsSeq(Front(r)) /\ Len(Front(r)) = Len(s) /\ DOMAIN Front(r) = 1 .. Len(s)
      /\ \A i \in 1 .. Len(s) : Front(r)[i] = s[i]
  <2>1. /\ Last(r) = r[Len(r)] /\ IsSeq(Front(r)) /\ Len(Front(r)) = Len(r) - 1
        /\ DOMAIN Front(r) = 1 .. Len(r) - 1
        /\ \A i \in 1 .. Len(r) - 1 : Front(r)[i] = r[i]
    BY <1>4, <1>7, LastOf
  <2>2. Len(r) - 1 = Len(s)
    BY <1>1, <1>2, <1>4
  <2>. QED BY <1>4, <1>5, <2>1, <2>2
<1>9. Front(r) = s
  <2>1. Front(r) = [i \in 1 .. Len(s) |-> Front(r)[i]]
    BY <1>8 DEF IsSeq
  <2>2. s = [i \in 1 .. Len(s) |-> s[i]]
    BY DEF IsSeq
  <2>. QED BY <1>8, <2>1, <2>2
<1>. QED BY <1>1, <1>2, <1>4, <1>5, <1>7, <1>8, <1>9 DEF r

(* The last element replaced.                                              *)
LEMMA Replaced ==
  ASSUME NEW s, IsSeq(s), s # <<>>, NEW e, NEW r, r = [s EXCEPT ![Len(s)] = e]
  PROVE  /\ IsSeq(r) /\ r # <<>> /\ Len(r) = Len(s) /\ DOMAIN r = DOMAIN s
         /\ Last(r) = e /\ r[Len(s)] = e
         /\ \A i \in DOMAIN s : i # Len(s) => r[i] = s[i]
<1>1. Len(s) \in Nat \ {0} /\ Len(s) \in DOMAIN s /\ DOMAIN s = 1 .. Len(s)
  BY LastOf DEF IsSeq
<1>2. DOMAIN r = 1 .. Len(s) /\ r[Len(s)] = e /\ \A i \in DOMAIN s : i # Len(s) => r[i] = s[i]
  BY <1>1
<1>3. r = [i \in 1 .. Len(s) |-> r[i]]
  BY <1>1
<1>4. IsSeq(r) /\ Len(r) = Len(s)
  BY <1>1, <1>3, ASeq
<1>5. r # <<>>
  BY <1>1, <1>2
<1>. QED BY <1>1, <1>2, <1>4, <1>5, LastOf

(* The same number of elements.                                            *)
LEMMA Mapped ==
  ASSUME NEW s, IsSeq(s), NEW r, DOMAIN r = DOMAIN s, r = [i \in DOMAIN r |-> r[i]]
  PROVE  IsSeq(r) /\ Len(r) = Len(s) /\ (r = <<>> <=> s = <<>>)
<1>1. Len(s) \in Nat /\ DOMAIN s = 1 .. Len(s)
  BY DEF IsSeq
<1>2. IsSeq(r) /\ Len(r) = Len(s)
  BY <1>1, ASeq
<1>3. \A q : IsSeq(q) => (q = <<>> <=> Len(q) = 0)
  BY LastOf, EmptySeq
<1>. QED BY <1>2, <1>3

IsFrame(f) ==
  /\ f = [arr |-> f.arr, path |-> f.path, next |-> f.next, count |-> f.count, len |-> f.len,
          skip |-> f.skip, data |-> f.data]
  /\ IsSeq(f.path) /\ f.path # <<>> /\ f.next \in Nat /\ f.count \in Nat /\ f.len \in Nat

(* A frame is at the level of its path, and binds inner streams one by one.*)
AtLevel(f, l) == Len(f.path) = l /\ (NonLeaf(l) => f.count \in {0, 1} /\ f.len \in {0, 1})

(* The shape of the machine.                                               *)
IsMachine(n) ==
  /\ n = [frames |-> n.frames, top |-> n.top, phase |-> n.phase, pend |-> n.pend,
          target |-> n.target]
  /\ IsSeq(n.frames)
  /\ \A l \in DOMAIN n.frames : IsFrame(n.frames[l]) /\ AtLevel(n.frames[l], l)

(* An activation that takes no further element of its batch.               *)
Spent(a) == a.iter # "before" /\ a.cursor >= a.batch /\ (a.iter = "loop" => a.item = "used")

IsAct(a) ==
  /\ a = [addr |-> a.addr, path |-> a.path, nonleaf |-> a.nonleaf, sig |-> a.sig, mode |-> a.mode,
          atEnd |-> a.atEnd, skipRemaining |-> a.skipRemaining, batch |-> a.batch, base |-> a.base,
          cursor |-> a.cursor, iter |-> a.iter, item |-> a.item, got |-> a.got, err |-> a.err]
  /\ a.err \in BOOLEAN /\ a.atEnd \in BOOLEAN /\ a.skipRemaining \in BOOLEAN
  /\ a.nonleaf = NonLeaf(a.addr[2])
  /\ a.mode \in Drives /\ a.iter \in {"before", "advance", "loop", "after"}
  /\ a.nonleaf => /\ a.mode # "next" /\ a.batch \in {0, 1} /\ a.cursor \in {0, 1}
                  /\ a.iter = "loop" => a.cursor = 1
  /\ a.mode = "seed" => a.iter = "before" /\ (a.nonleaf => a.cursor = 0)
  /\ a.mode = "next" => a.iter = "advance"
  /\ a.mode = "decode" => a.nonleaf /\ a.iter = "loop" /\ a.item = "used"

(* Only the innermost activation is in its handler.                        *)
IsCalls(s, g) ==
  /\ IsSeq(s)
  /\ \A i \in DOMAIN s : IsAct(s[i]) /\ (s[i].mode = "handler" => i = Len(s) /\ g = "handler")
  /\ g = "handler" => s # <<>> /\ Last(s).mode = "handler"

(* An error that was reported is on its way out.                           *)
Reporting(g, s) ==
  \/ g \in {"failing", "finished"}
  \/ /\ g = "handler" /\ Last(s).err /\ Last(s).atEnd
     /\ Last(s).iter = "after" \/ (Last(s).nonleaf /\ Spent(Last(s)))

NoSignal(s) == \A i \in DOMAIN s : s[i].sig = None

(* The innermost array holds streams; it is being skipped.                 *)
Inner(n) == n.frames # <<>> /\ NonLeaf(Len(n.frames))
Armed(f) == f.skip /\ f.count = 0
Place(n) == AddrOf(Last(n.frames).path)
Owned(n, s) == s # <<>> /\ Last(s).addr = Place(n)

Placed(n, g) ==
  /\ g \in {"native", "stopped", "served", "handler"} /\ n.pend \in {"grow", "none", "error"}
  /\ n.pend = "grow" =>
       /\ n.phase \in {"continue", "value", "valueBegin", "close"}
       /\ n.phase # "continue" => n.frames # <<>>
       /\ g # "native" => n.phase # "continue" /\ n.target = Place(n)
  /\ n.pend = "none" => n.phase = "done" /\ n.frames = <<>>
  /\ n.pend = "error" => n.phase = "done" /\ g = "stopped"
  /\ \A l \in DOMAIN n.frames : l < Len(n.frames) => n.frames[l].count = 1 /\ ~n.frames[l].skip

AtValue(f, g, own) ==
  /\ f.count = 0 /\ ~f.skip => IF g = "stopped" THEN ~f.data ELSE g # "handler" /\ own
  /\ f.skip /\ (f.count = 1 \/ g = "stopped") => f.data
  /\ g = "handler" => f.data \/ Armed(f)

(* What the innermost array is like when it holds streams.                 *)
OneAtATime(n, g, s) ==
  /\ n.phase = "valueBegin" => Inner(n) /\ Last(n.frames).count = 0 /\ (g = "stopped" => Owned(n, s))
  /\ n.phase = "continue" /\ Inner(n) =>
       Armed(Last(n.frames)) \/ (~Last(n.frames).skip /\ Last(n.frames).count = 1)
  /\ n.phase = "value" /\ Inner(n) => AtValue(Last(n.frames), g, Owned(n, s))

(* With a signal pending the walk runs only to drain.                      *)
Signalled(n, g, s) ==
  ~NoSignal(s) =>
    /\ g \in {"native", "stopped"} => Last(s).mode = "drain"
    /\ g = "served" /\ Last(s).mode # "drain" /\ n.phase = "value" /\ Inner(n) => Armed(Last(n.frames))
    /\ g = "handler" /\ Last(s).nonleaf => Spent(Last(s))

Seeding(n, g, s) ==
  \A i \in DOMAIN s : s[i].mode = "seed" /\ s[i].nonleaf =>
    /\ i = Len(s) /\ NoSignal(s)
    /\ \/ /\ g = "native" /\ n.phase = "value" /\ Inner(n) /\ Owned(n, s)
          /\ ~Last(n.frames).skip /\ Last(n.frames).count = 0
       \/ g = "stopped" /\ n.phase = "valueBegin"

(* A leaf handler with more to come stands at its array.                   *)
Batching(n, g, s) ==
  g = "handler" /\ ~Last(s).nonleaf /\ ~Last(s).atEnd /\ Last(s).iter # "after" =>
    n.phase = "value" /\ Owned(n, s)

Walking(n, g, s) ==
  Placed(n, g) /\ OneAtATime(n, g, s) /\ Signalled(n, g, s) /\ Seeding(n, g, s) /\ Batching(n, g, s)

(* After a step: an error is on its way out, or the walk is in order.      *)
InOrder(n, g, s, e) ==
  /\ IsMachine(n) /\ IsCalls(s, g)
  /\ e => Reporting(g, s)
  /\ ~e => g = "finished" \/ Walking(n, g, s)
  /\ g = "failing" => e

Inv == InOrder(nat, go, acts, erred) /\ ErrorSurfaces

(***************************************************************************)
(* The machine under the operations that change its innermost array.       *)
(***************************************************************************)
IsRecord(n) ==
  n = [frames |-> n.frames, top |-> n.top, phase |-> n.phase, pend |-> n.pend,
       target |-> n.target]

(* m has the arrays of n open, and the ones around the innermost as they were.*)
Kept(n, m) ==
  /\ IsMachine(m) /\ Len(m.frames) = Len(n.frames) /\ (m.frames = <<>> <=> n.frames = <<>>)
  /\ n.frames # <<>> => Last(m.frames).path = Last(n.frames).path
  /\ \A l \in DOMAIN m.frames : l < Len(m.frames) =>
       /\ l \in DOMAIN n.frames /\ m.frames[l].count = n.frames[l].count
       /\ m.frames[l].skip = n.frames[l].skip

(* ... and stopped where n did.                                            *)
Paused(n, m) == m.top = n.top /\ m.phase = n.phase /\ m.pend = n.pend /\ m.target = n.target

(* A count of elements that a backing at level k may hold.                 *)
Fits(v, k) == v \in Nat /\ (NonLeaf(k) => v \in {0, 1})

(* The innermost frame of m is h, a field of it v.                         *)
TopIs(n, h, m) == m.frames = [n.frames EXCEPT ![Len(n.frames)] = h]
SetFrame(n, k, h, m) == m = [n EXCEPT !.frames = [n.frames EXCEPT ![k] = h]]
SetCount(n, k, v, m) == m = [n EXCEPT !.frames[k].count = v]
SetLen(n, k, v, m) == m = [n EXCEPT !.frames[k].len = v]
SetSkip(n, k, v, m) == m = [n EXCEPT !.frames[k].skip = v]
SetData(n, k, v, m) == m = [n EXCEPT !.frames[k].data = v]

(* Nothing but the place of the machine changes.                           *)
LEMMA Still ==
  ASSUME NEW n, IsMachine(n), NEW m, IsRecord(m), m.frames = n.frames
  PROVE  Kept(n, m)
BY DEF IsMachine, IsRecord, Kept

(* The innermost frame is replaced by one of the same array.               *)
LEMMA Reframed ==
  ASSUME NEW n, IsMachine(n), n.frames # <<>>, NEW f, IsFrame(f),
         f.path = Last(n.frames).path, AtLevel(f, Len(n.frames)),
         NEW m, IsRecord(m), TopIs(n, f, m)
  PROVE  Kept(n, m) /\ Last(m.frames) = f
<1>1. IsSeq(n.frames) /\ Len(n.frames) \in Nat \ {0} /\ Len(n.frames) \in DOMAIN n.frames
      /\ DOMAIN n.frames = 1 .. Len(n.frames)
  BY LastOf DEF IsMachine, IsSeq
<1>2. /\ IsSeq(m.frames) /\ m.frames # <<>> /\ Len(m.frames) = Len(n.frames)
      /\ DOMAIN m.frames = DOMAIN n.frames
      /\ Last(m.frames) = f /\ m.frames[Len(n.frames)] = f
      /\ \A i \in DOMAIN n.frames : i # Len(n.frames) => m.frames[i] = n.frames[i]
  BY <1>1, Replaced DEF TopIs
<1>3. \A l \in DOMAIN m.frames : IsFrame(m.frames[l]) /\ AtLevel(m.frames[l], l)
  BY <1>2 DEF IsMachine
<1>4. IsMachine(m)
  BY <1>2, <1>3 DEF IsMachine, IsRecord
<1>. QED BY <1>1, <1>2, <1>4 DEF Kept

(* The fields of a frame.                                                  *)
LEMMA FrameFields ==
  ASSUME NEW f, IsFrame(f), NEW h, NEW nx \in Nat, NEW c \in Nat, NEW ln \in Nat,
         NEW sk, NEW dt,
         h = [arr |-> f.arr, path |-> f.path, next |-> nx, count |-> c, len |-> ln,
              skip |-> sk, data |-> dt]
  PROVE  /\ IsFrame(h) /\ h.path = f.path /\ h.arr = f.arr
         /\ h.next = nx /\ h.count = c /\ h.len = ln /\ h.skip = sk /\ h.data = dt
BY DEF IsFrame

LEMMA FrameWith ==
  ASSUME NEW f, IsFrame(f), NEW v
  PROVE  /\ [f EXCEPT !.next = v] = [arr |-> f.arr, path |-> f.path, next |-> v, count |-> f.count,
                                     len |-> f.len, skip |-> f.skip, data |-> f.data]
         /\ [f EXCEPT !.count = v] = [arr |-> f.arr, path |-> f.path, next |-> f.next, count |-> v,
                                      len |-> f.len, skip |-> f.skip, data |-> f.data]
         /\ [f EXCEPT !.len = v] = [arr |-> f.arr, path |-> f.path, next |-> f.next, count |-> f.count,
                                    len |-> v, skip |-> f.skip, data |-> f.data]
         /\ [f EXCEPT !.skip = v] = [arr |-> f.arr, path |-> f.path, next |-> f.next, count |-> f.count,
                                     len |-> f.len, skip |-> v, data |-> f.data]
         /\ [f EXCEPT !.data = v] = [arr |-> f.arr, path |-> f.path, next |-> f.next, count |-> f.count,
                                     len |-> f.len, skip |-> f.skip, data |-> v]
BY DEF IsFrame

(* The innermost frame of a machine.                                       *)
LEMMA TopFrame ==
  ASSUME NEW n, IsMachine(n), n.frames # <<>>
  PROVE  /\ IsFrame(Last(n.frames)) /\ AtLevel(Last(n.frames), Len(n.frames))
         /\ Len(n.frames) \in Nat \ {0} /\ Len(n.frames) \in DOMAIN n.frames
         /\ Last(n.frames) = n.frames[Len(n.frames)]
BY LastOf DEF IsMachine

(* The backing of every frame at an address is dropped.                    *)
LEMMA DropKeeps ==
  ASSUME NEW n, IsMachine(n), NEW a, NEW m, m = Dropped(n, a)
  PROVE  /\ Kept(n, m) /\ Paused(n, m)
         /\ n.frames # <<>> => /\ Last(m.frames).count = Last(n.frames).count
                               /\ Last(m.frames).skip = Last(n.frames).skip
<1>1. IsSeq(n.frames) /\ \A l \in DOMAIN n.frames : IsFrame(n.frames[l]) /\ AtLevel(n.frames[l], l)
  BY DEF IsMachine
<1>. DEFINE D(f) == IF AddrOf(f.path) = a THEN [f EXCEPT !.data = FALSE] ELSE f
            q == [i \in DOMAIN n.frames |-> D(n.frames[i])]
<1>2. IsRecord(m) /\ Paused(n, m) /\ m.frames = q
  BY DEF IsMachine, IsRecord, Paused, Dropped
<1>3. ASSUME NEW f, IsFrame(f)
      PROVE  IsFrame(D(f)) /\ D(f).path = f.path /\ D(f).count = f.count /\ D(f).skip = f.skip
             /\ D(f).len = f.len
  <2>1. D(f) = f \/ D(f) = [arr |-> f.arr, path |-> f.path, next |-> f.next, count |-> f.count,
                            len |-> f.len, skip |-> f.skip, data |-> FALSE]
    <3>1. [f EXCEPT !.data = FALSE] = [arr |-> f.arr, path |-> f.path, next |-> f.next,
             count |-> f.count, len |-> f.len, skip |-> f.skip, data |-> FALSE]
      BY <1>3, FrameWith
    <3>. QED BY <3>1
  <2>. HIDE DEF D
  <2>2. CASE D(f) = f
    BY <1>3, <2>2
  <2>3. CASE D(f) = [arr |-> f.arr, path |-> f.path, next |-> f.next, count |-> f.count,
                     len |-> f.len, skip |-> f.skip, data |-> FALSE]
    <3>1. f.next \in Nat /\ f.count \in Nat /\ f.len \in Nat
      BY <1>3 DEF IsFrame
    <3>. QED BY ONLY <1>3, <2>3, <3>1, FrameFields
  <2>. QED BY <2>1, <2>2, <2>3
<1>. HIDE DEF D
<1>4. IsSeq(q) /\ Len(q) = Len(n.frames) /\ (q = <<>> <=> n.frames = <<>>)
  <2>. HIDE DEF q
  <2>1. DOMAIN q = DOMAIN n.frames /\ q = [i \in DOMAIN q |-> q[i]]
    BY DEF q
  <2>. QED BY <1>1, <2>1, Mapped
<1>5. \A l \in DOMAIN n.frames : q[l] = D(n.frames[l])
  OBVIOUS
<1>6. DOMAIN q = DOMAIN n.frames
  OBVIOUS
<1>. HIDE DEF q
<1>7. \A l \in DOMAIN q : IsFrame(q[l]) /\ AtLevel(q[l], l)
  BY <1>1, <1>3, <1>5, <1>6 DEF AtLevel
<1>8. IsMachine(m)
  BY <1>2, <1>4, <1>7 DEF IsMachine, IsRecord
<1>9. n.frames # <<>> => /\ Last(q) = D(Last(n.frames)) /\ IsFrame(Last(n.frames))
  <2>1. SUFFICES ASSUME n.frames # <<>> PROVE Last(q) = D(Last(n.frames)) /\ IsFrame(Last(n.frames))
    OBVIOUS
  <2>2. Last(q) = q[Len(q)] /\ Last(n.frames) = n.frames[Len(n.frames)] /\ Len(n.frames) \in DOMAIN n.frames
    BY <1>1, <1>4, <2>1, LastOf
  <2>. QED BY <1>1, <1>4, <1>5, <2>2
<1>10. \A l \in DOMAIN q : q[l].count = n.frames[l].count /\ q[l].skip = n.frames[l].skip
  BY <1>1, <1>3, <1>5, <1>6
<1>11. n.frames # <<>> => /\ Last(q).path = Last(n.frames).path
                          /\ Last(q).count = Last(n.frames).count
                          /\ Last(q).skip = Last(n.frames).skip
  BY <1>3, <1>9
<1>. QED BY <1>2, <1>4, <1>6, <1>8, <1>10, <1>11 DEF Kept

(* A machine whose innermost frame is changed.                             *)
LEMMA TopSet ==
  ASSUME NEW n, IsMachine(n), n.frames # <<>>, NEW k, k = Len(n.frames), NEW f, f = Last(n.frames),
         NEW h, IsFrame(h), h.path = f.path, AtLevel(h, k),
         NEW m, SetFrame(n, k, h, m)
  PROVE  Kept(n, m) /\ Paused(n, m) /\ Last(m.frames) = h
<1>1. n = [frames |-> n.frames, top |-> n.top, phase |-> n.phase, pend |-> n.pend,
           target |-> n.target]
  BY DEF IsMachine
<1>2. IsRecord(m) /\ TopIs(n, h, m) /\ Paused(n, m)
  BY <1>1 DEF IsRecord, Paused, TopIs, SetFrame
<1>. QED BY <1>2, Reframed

LEMMA Counted ==
  ASSUME NEW n, IsMachine(n), n.frames # <<>>, NEW k, k = Len(n.frames), NEW f, f = Last(n.frames),
         NEW v, Fits(v, k),
         NEW m, SetCount(n, k, v, m)
  PROVE  /\ Kept(n, m) /\ Paused(n, m) /\ IsMachine(m) /\ m.frames # <<>> /\ Len(m.frames) = k
         /\ Last(m.frames).count = v
         /\ Last(m.frames).len = f.len /\ Last(m.frames).skip = f.skip /\ Last(m.frames).data = f.data
<1>1. IsFrame(f) /\ AtLevel(f, k) /\ k \in DOMAIN n.frames /\ f = n.frames[k]
  BY TopFrame
<1>2. PICK h : h = [f EXCEPT !.count = v]
  OBVIOUS
<1>3. [f EXCEPT !.count = v] = [arr |-> f.arr, path |-> f.path, next |-> f.next, count |-> v,
            len |-> f.len, skip |-> f.skip, data |-> f.data]
  BY ONLY <1>1, FrameWith
<1>4. /\ h.count = v /\ h.path = f.path /\ h.next = f.next /\ h.len = f.len
      /\ h.skip = f.skip /\ h.data = f.data
      /\ h = [arr |-> h.arr, path |-> h.path, next |-> h.next, count |-> h.count,
              len |-> h.len, skip |-> h.skip, data |-> h.data]
  BY <1>2, <1>3
<1>5. IsFrame(h) /\ AtLevel(h, k)
  BY <1>1, <1>4 DEF IsFrame, AtLevel, Fits
<1>6. SetFrame(n, k, h, m)
  BY <1>1, <1>2 DEF IsMachine, SetFrame, SetCount
<1>7. Kept(n, m) /\ Paused(n, m) /\ Last(m.frames) = h
  BY <1>4, <1>5, <1>6, TopSet
<1>. QED BY <1>4, <1>7 DEF Kept

LEMMA Sized ==
  ASSUME NEW n, IsMachine(n), n.frames # <<>>, NEW k, k = Len(n.frames), NEW f, f = Last(n.frames),
         NEW v, Fits(v, k),
         NEW m, SetLen(n, k, v, m)
  PROVE  /\ Kept(n, m) /\ Paused(n, m) /\ IsMachine(m) /\ m.frames # <<>> /\ Len(m.frames) = k
         /\ Last(m.frames).len = v
         /\ Last(m.frames).count = f.count /\ Last(m.frames).skip = f.skip /\ Last(m.frames).data = f.data
<1>1. IsFrame(f) /\ AtLevel(f, k) /\ k \in DOMAIN n.frames /\ f = n.frames[k]
  BY TopFrame
<1>2. PICK h : h = [f EXCEPT !.len = v]
  OBVIOUS
<1>3. [f EXCEPT !.len = v] = [arr |-> f.arr, path |-> f.path, next |-> f.next, count |-> f.count,
            len |-> v, skip |-> f.skip, data |-> f.data]
  BY ONLY <1>1, FrameWith
<1>4. /\ h.len = v /\ h.path = f.path /\ h.next = f.next /\ h.count = f.count
      /\ h.skip = f.skip /\ h.data = f.data
      /\ h = [arr |-> h.arr, path |-> h.path, next |-> h.next, count |-> h.count,
              len |-> h.len, skip |-> h.skip, data |-> h.data]
  BY <1>2, <1>3
<1>5. IsFrame(h) /\ AtLevel(h, k)
  BY <1>1, <1>4 DEF IsFrame, AtLevel, Fits
<1>6. SetFrame(n, k, h, m)
  BY <1>1, <1>2 DEF IsMachine, SetFrame, SetLen
<1>7. Kept(n, m) /\ Paused(n, m) /\ Last(m.frames) = h
  BY <1>4, <1>5, <1>6, TopSet
<1>. QED BY <1>4, <1>7 DEF Kept

LEMMA Flagged ==
  ASSUME NEW n, IsMachine(n), n.frames # <<>>, NEW k, k = Len(n.frames), NEW f, f = Last(n.frames),
         NEW v,
         NEW m, SetSkip(n, k, v, m)
  PROVE  /\ Kept(n, m) /\ Paused(n, m) /\ IsMachine(m) /\ m.frames # <<>> /\ Len(m.frames) = k
         /\ Last(m.frames).skip = v
         /\ Last(m.frames).count = f.count /\ Last(m.frames).len = f.len /\ Last(m.frames).data = f.data
<1>1. IsFrame(f) /\ AtLevel(f, k) /\ k \in DOMAIN n.frames /\ f = n.frames[k]
  BY TopFrame
<1>2. PICK h : h = [f EXCEPT !.skip = v]
  OBVIOUS
<1>3. [f EXCEPT !.skip = v] = [arr |-> f.arr, path |-> f.path, next |-> f.next, count |-> f.count,
            len |-> f.len, skip |-> v, data |-> f.data]
  BY ONLY <1>1, FrameWith
<1>4. /\ h.skip = v /\ h.path = f.path /\ h.next = f.next /\ h.count = f.count
      /\ h.len = f.len /\ h.data = f.data
      /\ h = [arr |-> h.arr, path |-> h.path, next |-> h.next, count |-> h.count,
              len |-> h.len, skip |-> h.skip, data |-> h.data]
  BY <1>2, <1>3
<1>5. IsFrame(h) /\ AtLevel(h, k)
  BY <1>1, <1>4 DEF IsFrame, AtLevel
<1>6. SetFrame(n, k, h, m)
  BY <1>1, <1>2 DEF IsMachine, SetFrame, SetSkip
<1>7. Kept(n, m) /\ Paused(n, m) /\ Last(m.frames) = h
  BY <1>4, <1>5, <1>6, TopSet
<1>. QED BY <1>4, <1>7 DEF Kept

LEMMA Backed ==
  ASSUME NEW n, IsMachine(n), n.frames # <<>>, NEW k, k = Len(n.frames), NEW f, f = Last(n.frames),
         NEW v,
         NEW m, SetData(n, k, v, m)
  PROVE  /\ Kept(n, m) /\ Paused(n, m) /\ IsMachine(m) /\ m.frames # <<>> /\ Len(m.frames) = k
         /\ Last(m.frames).data = v
         /\ Last(m.frames).count = f.count /\ Last(m.frames).len = f.len /\ Last(m.frames).skip = f.skip
<1>1. IsFrame(f) /\ AtLevel(f, k) /\ k \in DOMAIN n.frames /\ f = n.frames[k]
  BY TopFrame
<1>2. PICK h : h = [f EXCEPT !.data = v]
  OBVIOUS
<1>3. [f EXCEPT !.data = v] = [arr |-> f.arr, path |-> f.path, next |-> f.next, count |-> f.count,
            len |-> f.len, skip |-> f.skip, data |-> v]
  BY ONLY <1>1, FrameWith
<1>4. /\ h.data = v /\ h.path = f.path /\ h.next = f.next /\ h.count = f.count
      /\ h.len = f.len /\ h.skip = f.skip
      /\ h = [arr |-> h.arr, path |-> h.path, next |-> h.next, count |-> h.count,
              len |-> h.len, skip |-> h.skip, data |-> h.data]
  BY <1>2, <1>3
<1>5. IsFrame(h) /\ AtLevel(h, k)
  BY <1>1, <1>4 DEF IsFrame, AtLevel
<1>6. SetFrame(n, k, h, m)
  BY <1>1, <1>2 DEF IsMachine, SetFrame, SetData
<1>7. Kept(n, m) /\ Paused(n, m) /\ Last(m.frames) = h
  BY <1>4, <1>5, <1>6, TopSet
<1>. QED BY <1>4, <1>7 DEF Kept

(* Kept, step after step.                                                  *)
LEMMA KeptTwice ==
  ASSUME NEW n, NEW u, NEW m, Kept(n, u), Paused(n, u), Kept(u, m), Paused(u, m)
  PROVE  Kept(n, m) /\ Paused(n, m)
BY DEF Kept, Paused

(* The innermost array skips the rest of its elements.                     *)
LEMMA ArmKeeps ==
  ASSUME NEW n, IsMachine(n), NEW m, m = ArmDrain(n)
  PROVE  /\ Kept(n, m) /\ Paused(n, m)
         /\ n.frames # <<>> =>
              /\ Last(m.frames).skip
              /\ Last(m.frames).count = IF n.phase = "value" THEN 0 ELSE Last(n.frames).count
<1>1. CASE n.frames = <<>>
  BY <1>1, Still DEF ArmDrain, Paused, IsMachine, IsRecord
<1>2. CASE n.frames # <<>>
  <2>1. PICK k, t : k = Len(n.frames) /\ t = Last(n.frames)
    OBVIOUS
  <2>2. IsFrame(t) /\ AtLevel(t, k) /\ k \in DOMAIN n.frames
    BY <1>2, <2>1, TopFrame
  <2>0. PICK u : u = [n EXCEPT !.frames[k].skip = TRUE]
    OBVIOUS
  <2>3. PICK yes : SetSkip(n, k, yes, u) /\ yes = TRUE
    BY <2>0 DEF SetSkip
  <2>4. /\ Kept(n, u) /\ Paused(n, u) /\ IsMachine(u) /\ u.frames # <<>> /\ Len(u.frames) = k
        /\ Last(u.frames).skip = yes /\ Last(u.frames).count = t.count
    <3>1. IsMachine(n) /\ n.frames # <<>> /\ SetSkip(n, k, yes, u) /\ k = Len(n.frames) /\ t = Last(n.frames)
      BY <1>2, <2>1, <2>3
    <3>. QED BY ONLY <3>1, Flagged
  <2>5. PICK c : c = IF n.phase = "value" THEN 0 ELSE t.count
    OBVIOUS
  <2>6. SetCount(u, k, c, m)
    <3>1. u.frames[k].count = t.count
      BY <2>4, TopFrame
    <3>3. m = [u EXCEPT !.frames[k].count = IF n.phase = "value" THEN 0 ELSE @]
      BY <1>2, <2>0, <2>1 DEF ArmDrain
    <3>. QED BY <2>5, <3>1, <3>3 DEF SetCount
  <2>7. Fits(c, k)
    BY <2>2, <2>5 DEF IsFrame, AtLevel, Fits
  <2>8. Kept(u, m) /\ Paused(u, m) /\ Last(m.frames).count = c /\ Last(m.frames).skip = yes
    <3>1. PICK g : g = Last(u.frames)
      OBVIOUS
    <3>2. /\ IsMachine(u) /\ u.frames # <<>> /\ k = Len(u.frames) /\ g = Last(u.frames)
          /\ Fits(c, k) /\ SetCount(u, k, c, m)
      BY <2>4, <2>6, <2>7, <3>1
    <3>3. Kept(u, m) /\ Paused(u, m) /\ Last(m.frames).count = c /\ Last(m.frames).skip = g.skip
      BY ONLY <3>2, Counted
    <3>. QED BY <2>4, <3>1, <3>3
  <2>. QED BY <1>2, <2>1, <2>3, <2>4, <2>5, <2>8, KeptTwice
<1>. QED BY <1>1, <1>2

(* The array the handler leaves skips its elements.                        *)
LEMMA DrainKeeps ==
  ASSUME IsMachine(nat), NEW m, m = DrainRemaining
  PROVE  /\ Kept(nat, m) /\ Paused(nat, m)
         /\ nat.frames # <<>> => /\ Last(m.frames).skip /\ Last(m.frames).count = Top.count
                                 /\ Last(m.frames).data = Top.data
<1>1. CASE nat.frames = <<>>
  BY <1>1, Still DEF DrainRemaining, Paused, IsMachine, IsRecord
<1>2. CASE nat.frames # <<>>
  <2>1. PICK n, k, t, yes : n = nat /\ k = Len(n.frames) /\ t = Last(n.frames) /\ yes = TRUE
    OBVIOUS
  <2>2. SetSkip(n, k, yes, m)
    <3>1. m = [n EXCEPT !.frames = [n.frames EXCEPT ![k] = [t EXCEPT !.skip = TRUE]]]
      BY <1>2, <2>1 DEF DrainRemaining, SetTop, Top, Level
    <3>2. n.frames[k] = t /\ k \in DOMAIN n.frames
      BY <1>2, <2>1, TopFrame
    <3>. QED BY <2>1, <3>1, <3>2 DEF SetSkip, IsMachine
  <2>3. IsMachine(n) /\ n.frames # <<>> /\ k = Len(n.frames) /\ t = Last(n.frames)
    BY <1>2, <2>1
  <2>4. /\ Kept(n, m) /\ Paused(n, m) /\ Last(m.frames).skip = yes
        /\ Last(m.frames).count = t.count /\ Last(m.frames).data = t.data
    BY <2>2, <2>3, Flagged
  <2>. QED BY <2>1, <2>4 DEF Top
<1>. QED BY <1>1, <1>2

(* An empty backing.                                                       *)
LEMMA ResetKeeps ==
  ASSUME NEW n, IsMachine(n), n.frames # <<>>, NEW m, m = Reset(n)
  PROVE  /\ Kept(n, m) /\ Paused(n, m)
         /\ Last(m.frames).count = 0 /\ Last(m.frames).len = 0 /\ Last(m.frames).data
         /\ Last(m.frames).skip = Last(n.frames).skip
<1>1. PICK k, t, yes : k = Len(n.frames) /\ t = Last(n.frames) /\ yes = TRUE
  OBVIOUS
<1>2. PICK u : SetCount(n, k, 0, u)
  BY DEF SetCount
<1>3. PICK w : SetLen(u, k, 0, w)
  BY DEF SetLen
<1>4. SetData(w, k, yes, m)
  BY <1>1, <1>2, <1>3 DEF Reset, SetCount, SetLen, SetData
<1>5. Fits(0, k)
  BY DEF Fits
<1>6. /\ Kept(n, u) /\ Paused(n, u) /\ IsMachine(u) /\ u.frames # <<>> /\ Len(u.frames) = k
      /\ Last(u.frames).count = 0 /\ Last(u.frames).skip = t.skip
  BY <1>1, <1>2, <1>5, Counted
<1>7. PICK tu : tu = Last(u.frames)
  OBVIOUS
<1>8. /\ Kept(u, w) /\ Paused(u, w) /\ IsMachine(w) /\ w.frames # <<>> /\ Len(w.frames) = k
      /\ Last(w.frames).len = 0 /\ Last(w.frames).skip = tu.skip /\ Last(w.frames).count = tu.count
  BY <1>3, <1>5, <1>6, <1>7, Sized
<1>9. PICK tw : tw = Last(w.frames)
  OBVIOUS
<1>10. /\ Kept(w, m) /\ Paused(w, m) /\ Last(m.frames).data = yes
       /\ Last(m.frames).skip = tw.skip /\ Last(m.frames).count = tw.count
       /\ Last(m.frames).len = tw.len
  BY <1>4, <1>8, <1>9, Backed
<1>11. Kept(n, m) /\ Paused(n, m)
  BY <1>6, <1>8, <1>10, KeptTwice
<1>. QED BY <1>1, <1>6, <1>7, <1>8, <1>9, <1>10, <1>11

(* An element is passed over.                                              *)
LEMMA Passes ==
  ASSUME NEW f, IsFrame(f), NEW l, AtLevel(f, l), NEW h, h = [f EXCEPT !.next = @ + 1]
  PROVE  /\ IsFrame(h) /\ AtLevel(h, l) /\ h.path = f.path /\ h.arr = f.arr
         /\ h.skip = f.skip /\ h.data = f.data /\ h.count = f.count
<1>1. f = [arr |-> f.arr, path |-> f.path, next |-> f.next, count |-> f.count, len |-> f.len,
           skip |-> f.skip, data |-> f.data]
  BY DEF IsFrame
<1>2. f.next \in Nat /\ f.count \in Nat /\ f.len \in Nat /\ f.next + 1 \in Nat /\ f.count + 1 \in Nat
  BY DEF IsFrame
<1>3. h = [arr |-> f.arr, path |-> f.path, next |-> f.next + 1, count |-> f.count,
           len |-> f.len, skip |-> f.skip, data |-> f.data]
  BY <1>1
<1>4. /\ h.path = f.path /\ h.arr = f.arr /\ h.skip = f.skip /\ h.data = f.data
      /\ h.count = f.count /\ h.len = f.len /\ h.next = f.next + 1
  BY <1>3
<1>5. h = [arr |-> h.arr, path |-> h.path, next |-> h.next, count |-> h.count, len |-> h.len,
           skip |-> h.skip, data |-> h.data]
  BY <1>3, <1>4
<1>. QED BY ONLY <1>2, <1>4, <1>5, IsFrame(f), AtLevel(f, l) DEF IsFrame, AtLevel

(* An element is bound.                                                    *)
LEMMA Counts ==
  ASSUME NEW f, IsFrame(f), NEW l, AtLevel(f, l), NonLeaf(l) => f.count = 0,
         NEW h, h = [f EXCEPT !.next = @ + 1, !.count = @ + 1]
  PROVE  /\ IsFrame(h) /\ AtLevel(h, l) /\ h.path = f.path /\ h.arr = f.arr
         /\ h.skip = f.skip /\ h.data = f.data /\ h.count = f.count + 1
<1>1. f = [arr |-> f.arr, path |-> f.path, next |-> f.next, count |-> f.count, len |-> f.len,
           skip |-> f.skip, data |-> f.data]
  BY DEF IsFrame
<1>2. f.next \in Nat /\ f.count \in Nat /\ f.len \in Nat /\ f.next + 1 \in Nat /\ f.count + 1 \in Nat
  BY DEF IsFrame
<1>3. h = [arr |-> f.arr, path |-> f.path, next |-> f.next + 1, count |-> f.count + 1,
           len |-> f.len, skip |-> f.skip, data |-> f.data]
  BY <1>1
<1>4. /\ h.path = f.path /\ h.arr = f.arr /\ h.skip = f.skip /\ h.data = f.data
      /\ h.count = f.count + 1 /\ h.len = f.len /\ h.next = f.next + 1
  BY <1>3
<1>5. h = [arr |-> h.arr, path |-> h.path, next |-> h.next, count |-> h.count, len |-> h.len,
           skip |-> h.skip, data |-> h.data]
  BY <1>3, <1>4
<1>. QED BY ONLY <1>2, <1>4, <1>5, IsFrame(f), AtLevel(f, l), NonLeaf(l) => f.count = 0 DEF IsFrame, AtLevel

(* The slice header gets the count.                                        *)
LEMMA Heads ==
  ASSUME NEW f, IsFrame(f), NEW l, AtLevel(f, l), NEW h, h = [f EXCEPT !.len = f.count]
  PROVE  /\ IsFrame(h) /\ AtLevel(h, l) /\ h.path = f.path /\ h.arr = f.arr
         /\ h.skip = f.skip /\ h.data = f.data /\ h.count = f.count
<1>1. f = [arr |-> f.arr, path |-> f.path, next |-> f.next, count |-> f.count, len |-> f.len,
           skip |-> f.skip, data |-> f.data]
  BY DEF IsFrame
<1>2. f.next \in Nat /\ f.count \in Nat /\ f.len \in Nat /\ f.next + 1 \in Nat /\ f.count + 1 \in Nat
  BY DEF IsFrame
<1>3. h = [arr |-> f.arr, path |-> f.path, next |-> f.next, count |-> f.count,
           len |-> f.count, skip |-> f.skip, data |-> f.data]
  BY <1>1
<1>4. /\ h.path = f.path /\ h.arr = f.arr /\ h.skip = f.skip /\ h.data = f.data
      /\ h.count = f.count /\ h.len = f.count /\ h.next = f.next
  BY <1>3
<1>5. h = [arr |-> h.arr, path |-> h.path, next |-> h.next, count |-> h.count, len |-> h.len,
           skip |-> h.skip, data |-> h.data]
  BY <1>3, <1>4
<1>. QED BY ONLY <1>2, <1>4, <1>5, IsFrame(f), AtLevel(f, l) DEF IsFrame, AtLevel

(* An array opens inside those in progress.                                *)
LEMMA Opens ==
  ASSUME NEW fr, IsSeq(fr), \A l \in DOMAIN fr : IsFrame(fr[l]) /\ AtLevel(fr[l], l),
         NEW arr, NEW path, IsSeq(path), path # <<>>, Len(path) = Len(fr) + 1,
         NEW m, IsRecord(m), m.frames = Push(fr, arr, path)
  PROVE  /\ IsMachine(m) /\ m.frames # <<>> /\ Len(m.frames) = Len(fr) + 1
         /\ Last(m.frames).count = 0 /\ ~Last(m.frames).skip /\ ~Last(m.frames).data
         /\ Last(m.frames).path = path
         /\ \A l \in DOMAIN m.frames : l < Len(m.frames) => l \in DOMAIN fr /\ m.frames[l] = fr[l]
<1>1. PICK e, q, no : /\ e = [arr |-> arr, path |-> path, next |-> 1, count |-> 0, len |-> 0,
                              skip |-> no, data |-> no]
                      /\ no = FALSE /\ q = Append(fr, e)
  OBVIOUS
<1>2. m.frames = q
  BY <1>1 DEF Push
<1>3. Len(fr) \in Nat /\ DOMAIN fr = 1 .. Len(fr)
  BY DEF IsSeq
<1>4. /\ IsSeq(q) /\ q # <<>> /\ Len(q) = Len(fr) + 1 /\ DOMAIN q = 1 .. Len(fr) + 1
      /\ Last(q) = e /\ q[Len(fr) + 1] = e
      /\ \A i \in 1 .. Len(fr) : q[i] = fr[i] /\ i \in DOMAIN fr
  BY <1>1, Added
<1>5. /\ e.path = path /\ e.next = 1 /\ e.count = 0 /\ e.len = 0 /\ e.skip = no /\ e.data = no
      /\ e = [arr |-> e.arr, path |-> e.path, next |-> e.next, count |-> e.count, len |-> e.len,
              skip |-> e.skip, data |-> e.data]
  BY <1>1
<1>6. IsFrame(e) /\ AtLevel(e, Len(fr) + 1)
  BY <1>5 DEF IsFrame, AtLevel
<1>7. \A i \in DOMAIN q : i = Len(fr) + 1 \/ i \in 1 .. Len(fr)
  BY <1>3, <1>4
<1>8. \A i \in DOMAIN q : IsFrame(q[i]) /\ AtLevel(q[i], i)
  BY <1>4, <1>6, <1>7
<1>9. IsMachine(m)
  BY <1>2, <1>4, <1>8 DEF IsMachine, IsRecord
<1>10. \A i \in DOMAIN q : i < Len(q) => i \in DOMAIN fr /\ q[i] = fr[i]
  BY <1>3, <1>4, <1>7
<1>. QED BY <1>1, <1>2, <1>4, <1>5, <1>9, <1>10

(* The innermost array is left.                                            *)
LEMMA Closes ==
  ASSUME NEW n, IsMachine(n), n.frames # <<>>, NEW m, IsRecord(m), m.frames = Front(n.frames)
  PROVE  /\ IsMachine(m)
         /\ \A l \in DOMAIN m.frames :
              l \in DOMAIN n.frames /\ l < Len(n.frames) /\ m.frames[l] = n.frames[l]
         /\ m.frames # <<>> => Last(m.frames) = m.frames[Len(m.frames)] /\ Len(m.frames) \in DOMAIN m.frames
<1>1. IsSeq(n.frames) /\ DOMAIN n.frames = 1 .. Len(n.frames)
  BY DEF IsMachine, IsSeq
<1>2. /\ Len(n.frames) \in Nat \ {0} /\ IsSeq(m.frames) /\ Len(m.frames) = Len(n.frames) - 1
      /\ DOMAIN m.frames = 1 .. Len(n.frames) - 1
      /\ \A i \in 1 .. Len(n.frames) - 1 : m.frames[i] = n.frames[i] /\ i \in DOMAIN n.frames
  <2>1. PICK q : q = n.frames
    OBVIOUS
  <2>2. IsSeq(q) /\ q # <<>> /\ m.frames = Front(q)
    BY <1>1, <2>1
  <2>3. /\ Len(q) \in Nat \ {0} /\ IsSeq(Front(q)) /\ Len(Front(q)) = Len(q) - 1
        /\ DOMAIN Front(q) = 1 .. Len(q) - 1
        /\ \A i \in 1 .. Len(q) - 1 : Front(q)[i] = q[i] /\ i \in DOMAIN q
    BY ONLY <2>2, LastOf
  <2>. QED BY ONLY <2>1, <2>2, <2>3
<1>3. \A i \in 1 .. Len(n.frames) - 1 : i < Len(n.frames)
  BY <1>2
<1>4. IsMachine(m)
  BY <1>2 DEF IsMachine, IsRecord
<1>. QED BY <1>2, <1>3, <1>4, LastOf

(***************************************************************************)
(* The native walk.                                                        *)
(***************************************************************************)
(* What holds while it runs.                                               *)
LEMMA Running ==
  ASSUME InOrder(nat, go, acts, erred), go = "native"
  PROVE  /\ ~erred /\ IsMachine(nat) /\ IsCalls(acts, go)
         /\ Placed(nat, go) /\ OneAtATime(nat, go, acts) /\ Signalled(nat, go, acts)
         /\ Seeding(nat, go, acts)
BY DEF InOrder, Reporting, Walking

(* The activations are as they were.                                       *)
LEMMA RunsOn ==
  ASSUME InOrder(nat, go, acts, erred), go = "native", NEW g \in {"native", "stopped"},
         NEW n, IsMachine(n), Placed(n, g), OneAtATime(n, g, acts), Seeding(n, g, acts)
  PROVE  InOrder(n, g, acts, FALSE)
<1>1. IsCalls(acts, go) /\ Signalled(nat, go, acts)
  BY Running
<1>2. IsCalls(acts, g)
  BY <1>1 DEF IsCalls
<1>3. Signalled(n, g, acts)
  BY <1>1 DEF Signalled
<1>4. Batching(n, g, acts)
  BY DEF Batching
<1>. QED BY <1>2, <1>3, <1>4 DEF InOrder, Walking

(* A walk that has a seed to deliver is at an element.                     *)
LEMMA Seedless ==
  ASSUME InOrder(nat, go, acts, erred), go = "native",
         ~(nat.phase = "value" /\ NonLeaf(Level) /\ nat.frames # <<>> /\ ~Top.skip /\ Top.count = 0),
         NEW n, NEW g
  PROVE  Seeding(n, g, acts)
BY Running DEF Seeding, Inner, Top, Level

(* An array opens: it yields.                                              *)
LEMMA OpensInOrder ==
  ASSUME InOrder(nat, go, acts, erred), go = "native",
         ~(nat.phase = "value"),
         NEW fr, IsSeq(fr), \A l \in DOMAIN fr : IsFrame(fr[l]) /\ AtLevel(fr[l], l)
                                                 /\ fr[l].count = 1 /\ ~fr[l].skip,
         NEW arr, NEW path, IsSeq(path), path # <<>>, Len(path) = Len(fr) + 1,
         NEW n, IsRecord(n), n.frames = Push(fr, arr, path), n.pend = "grow",
         n.phase \in {"value", "close"}, n.target = AddrOf(path)
  PROVE  InOrder(n, "stopped", acts, FALSE)
<1>1. /\ IsMachine(n) /\ n.frames # <<>> /\ Len(n.frames) = Len(fr) + 1
      /\ Last(n.frames).count = 0 /\ ~Last(n.frames).skip /\ ~Last(n.frames).data
      /\ Last(n.frames).path = path
      /\ \A l \in DOMAIN n.frames : l < Len(n.frames) => l \in DOMAIN fr /\ n.frames[l] = fr[l]
  BY Opens
<1>2. Placed(n, "stopped")
  BY <1>1 DEF Placed, Place
<1>3. OneAtATime(n, "stopped", acts)
  BY <1>1 DEF OneAtATime, AtValue, Inner
<1>4. Seeding(n, "stopped", acts)
  BY Seedless
<1>. QED BY <1>1, <1>2, <1>3, <1>4, RunsOn

LEMMA RootNextOrder ==
  ASSUME InOrder(nat, go, acts, erred), go = "native", RootNext, NEW n, n = nat'
  PROVE  InOrder(n, go', acts, FALSE) /\ go' = "stopped"
<1>1. IsMachine(nat) /\ Placed(nat, go)
  BY Running
<1>2. PICK t, fr, arr, path, ph :
        /\ t = nat.top + 1 /\ fr = nat.frames /\ arr = doc.body[t] /\ path = <<t>>
        /\ ph = IF arr = <<>> THEN "close" ELSE "value"
  OBVIOUS
<1>3. fr = <<>> /\ nat.phase = "continue" /\ go' = "stopped"
  BY <1>2 DEF RootNext, Open, Yields, Stops
<1>4. IsSeq(fr) /\ Len(fr) = 0 /\ DOMAIN fr = {}
  BY <1>2, <1>3, EmptySeq DEF IsMachine, IsSeq
<1>5. IsSeq(path) /\ path # <<>> /\ Len(path) = 1
  <2>1. path = [i \in 1 .. 1 |-> path[i]]
    BY <1>2
  <2>. QED BY <1>2, <2>1, ASeq
<1>6. PICK fs : fs = Push(fr, arr, path)
  OBVIOUS
<1>7. Last(fs).path = path
  <2>1. PICK e : e = [arr |-> arr, path |-> path, next |-> 1, count |-> 0, len |-> 0,
                      skip |-> FALSE, data |-> FALSE]
    OBVIOUS
  <2>2. e.path = path /\ fs = Append(fr, e)
    BY <1>6, <2>1 DEF Push
  <2>. QED BY <1>4, <2>2, Added
<1>8. nat = [frames |-> nat.frames, top |-> nat.top, phase |-> nat.phase, pend |-> nat.pend,
             target |-> nat.target]
  BY <1>1 DEF IsMachine
<1>9. n = [frames |-> fs, top |-> t, phase |-> ph, pend |-> "grow", target |-> AddrOf(path)]
  <2>1. PICK a : a = AddrOf(path)
    OBVIOUS
  <2>2. n = [[[nat EXCEPT !.top = t] EXCEPT !.frames = fs, !.phase = ph, !.target = a]
             EXCEPT !.pend = "grow"]
    BY <1>2, <1>6, <1>7, <2>1 DEF RootNext, Open, Yields, Stops, Native
  <2>. QED BY <1>8, <2>1, <2>2
<1>10. IsRecord(n) /\ n.frames = fs /\ n.pend = "grow" /\ n.phase = ph /\ n.target = AddrOf(path)
  BY <1>9 DEF IsRecord
<1>11. n.phase \in {"value", "close"}
  BY <1>2, <1>10
<1>12. InOrder(n, "stopped", acts, FALSE)
  <2>1. /\ ~(nat.phase = "value") /\ Len(path) = Len(fr) + 1 /\ n.frames = Push(fr, arr, path)
    BY <1>3, <1>4, <1>5, <1>6, <1>10
  <2>2. \A l \in DOMAIN fr : IsFrame(fr[l]) /\ AtLevel(fr[l], l) /\ fr[l].count = 1 /\ ~fr[l].skip
    BY <1>4
  <2>3. InOrder(nat, go, acts, erred) /\ go = "native"
    OBVIOUS
  <2>. QED BY ONLY <1>4, <1>5, <1>10, <1>11, <2>1, <2>2, <2>3, OpensInOrder
<1>. QED BY <1>3, <1>12

(* The innermost frame of the walk replaced.                               *)
LEMMA Retops ==
  ASSUME IsMachine(nat), nat.frames # <<>>, NEW h, IsFrame(h), h.path = Top.path, AtLevel(h, Level),
         NEW n, IsRecord(n), n.frames = SetTop(h)
  PROVE  Kept(nat, n) /\ Last(n.frames) = h /\ IsMachine(n) /\ n.frames # <<>>
<1>1. TopIs(nat, h, n)
  BY DEF TopIs, SetTop, Level
<1>2. PICK m : m = nat
  OBVIOUS
<1>3. /\ IsMachine(m) /\ m.frames # <<>> /\ h.path = Last(m.frames).path
      /\ AtLevel(h, Len(m.frames)) /\ TopIs(m, h, n)
  BY <1>1, <1>2 DEF Top, Level
<1>4. Kept(m, n) /\ Last(n.frames) = h
  BY <1>3, Reframed
<1>. QED BY <1>2, <1>3, <1>4 DEF Kept

(* The walk's innermost frame.                                             *)
LEMMA WalkTop ==
  ASSUME IsMachine(nat), nat.frames # <<>>
  PROVE  IsFrame(Top) /\ AtLevel(Top, Level) /\ Level \in Nat \ {0} /\ Level \in DOMAIN nat.frames
BY TopFrame DEF Top, Level

LEMMA BindBodyOrder ==
  ASSUME InOrder(nat, go, acts, erred), go = "native", BindBody, NEW n, n = nat'
  PROVE  InOrder(n, go', acts, FALSE) /\ go' = "stopped"
<1>1. /\ IsMachine(nat) /\ Placed(nat, go) /\ OneAtATime(nat, go, acts) /\ nat.phase = "valueBegin"
      /\ ~Top.skip /\ go' = "stopped"
  BY Running DEF BindBody, Open, Yields, Stops
<1>2. nat.frames # <<>> /\ NonLeaf(Level) /\ Top.count = 0
  BY <1>1 DEF OneAtATime, Inner, Top, Level
<1>3. IsFrame(Top) /\ AtLevel(Top, Level) /\ Level \in Nat \ {0}
  BY <1>1, <1>2, WalkTop
<1>4. PICK h, fr : h = Consumed /\ fr = SetTop(h)
  OBVIOUS
<1>5. IsFrame(h) /\ AtLevel(h, Level) /\ h.path = Top.path /\ h.count = 1 /\ ~h.skip
  <2>1. PICK f, l : f = Top /\ l = Level
    OBVIOUS
  <2>2. IsFrame(f) /\ AtLevel(f, l) /\ (NonLeaf(l) => f.count = 0)
    BY <1>2, <1>3, <2>1
  <2>3. h = [f EXCEPT !.next = @ + 1, !.count = @ + 1]
    BY <1>4, <2>1 DEF Consumed
  <2>4. IsFrame(h) /\ AtLevel(h, l) /\ h.path = f.path /\ h.skip = f.skip /\ h.count = f.count + 1
    BY <2>2, <2>3, Counts
  <2>. QED BY <1>1, <1>2, <2>1, <2>4
<1>6. PICK u : u = [frames |-> fr, top |-> 0, phase |-> 0, pend |-> 0, target |-> 0]
  OBVIOUS
<1>7. Kept(nat, u) /\ Last(u.frames) = h /\ u.frames = fr
  <2>1. IsRecord(u) /\ u.frames = SetTop(h) /\ u.frames = fr
    BY <1>4, <1>6 DEF IsRecord
  <2>. QED BY <1>1, <1>2, <1>5, <2>1, Retops
<1>8. IsSeq(fr) /\ Len(fr) = Level /\ fr # <<>>
  BY <1>2, <1>7 DEF Kept, IsMachine, Level
<1>9. \A l \in DOMAIN fr : IsFrame(fr[l]) /\ AtLevel(fr[l], l) /\ fr[l].count = 1 /\ ~fr[l].skip
  <2>1. \A l \in DOMAIN fr : IsFrame(fr[l]) /\ AtLevel(fr[l], l)
    BY <1>7 DEF Kept, IsMachine
  <2>2. \A l \in DOMAIN fr : l < Len(fr) => fr[l].count = 1 /\ ~fr[l].skip
    BY <1>1, <1>7, <1>8 DEF Kept, Placed, Level
  <2>3. fr[Len(fr)].count = 1 /\ ~fr[Len(fr)].skip
    BY <1>5, <1>7, <1>8, LastOf
  <2>4. \A l \in DOMAIN fr : l < Len(fr) \/ l = Len(fr)
    BY <1>8 DEF IsSeq
  <2>. QED BY <2>1, <2>2, <2>3, <2>4
<1>10. PICK arr, path, ph : /\ arr = Top.arr[Top.next] /\ path = Append(Top.path, Top.next)
                            /\ ph = IF arr = <<>> THEN "close" ELSE "value"
  OBVIOUS
<1>11. IsSeq(path) /\ path # <<>> /\ Len(path) = Len(fr) + 1
  <2>1. PICK q, e : q = Top.path /\ e = Top.next
    OBVIOUS
  <2>2. IsSeq(q) /\ Len(q) = Level
    BY <1>3, <2>1 DEF IsFrame, AtLevel
  <2>3. IsSeq(Append(q, e)) /\ Append(q, e) # <<>> /\ Len(Append(q, e)) = Len(q) + 1
    BY <2>2, Added
  <2>. QED BY <1>8, <1>10, <2>1, <2>2, <2>3
<1>12. PICK fs : fs = Push(fr, arr, path)
  OBVIOUS
<1>13. Last(fs).path = path
  <2>1. PICK e : e = [arr |-> arr, path |-> path, next |-> 1, count |-> 0, len |-> 0,
                      skip |-> FALSE, data |-> FALSE]
    OBVIOUS
  <2>2. e.path = path /\ fs = Append(fr, e)
    BY <1>12, <2>1 DEF Push
  <2>. QED BY <1>8, <2>2, Added
<1>14. n = [frames |-> fs, top |-> nat.top, phase |-> ph, pend |-> "grow", target |-> AddrOf(path)]
  <2>1. PICK a : a = AddrOf(path)
    OBVIOUS
  <2>2. n = [[nat EXCEPT !.frames = fs, !.phase = ph, !.target = a] EXCEPT !.pend = "grow"]
    BY <1>4, <1>10, <1>12, <1>13, <2>1 DEF BindBody, Open, Yields, Stops, Native
  <2>. QED BY <1>1, <2>1, <2>2 DEF IsMachine
<1>15. /\ IsRecord(n) /\ n.frames = fs /\ n.pend = "grow" /\ n.phase = ph /\ n.target = AddrOf(path)
       /\ n.phase \in {"value", "close"} /\ ~(nat.phase = "value")
  BY <1>1, <1>10, <1>14 DEF IsRecord
<1>16. InOrder(n, "stopped", acts, FALSE)
  <2>1. InOrder(nat, go, acts, erred) /\ go = "native" /\ n.frames = Push(fr, arr, path)
    BY <1>12, <1>15
  <2>. QED BY ONLY <1>8, <1>9, <1>11, <1>15, <2>1, OpensInOrder
<1>. QED BY <1>1, <1>16

LEMMA RootEndOrder ==
  ASSUME InOrder(nat, go, acts, erred), go = "native", RootEnd, NEW n, n = nat'
  PROVE  InOrder(n, go', acts, FALSE) /\ go' = "stopped"
<1>1. IsMachine(nat) /\ Placed(nat, go) /\ OneAtATime(nat, go, acts)
  BY Running
<1>2. /\ go' = "stopped" /\ n = [nat EXCEPT !.phase = "done", !.pend = "none"]
      /\ nat.phase = "done" \/ (nat.phase = "continue" /\ nat.frames = <<>>)
  BY DEF RootEnd, Native
<1>3. nat.frames = <<>>
  BY <1>1, <1>2 DEF Placed
<1>4. IsRecord(n) /\ n.frames = nat.frames /\ n.phase = "done" /\ n.pend = "none"
  BY <1>1, <1>2 DEF IsMachine, IsRecord
<1>5. Kept(nat, n)
  BY <1>1, <1>4, Still
<1>6. IsMachine(n) /\ DOMAIN nat.frames = {}
  BY <1>1, <1>3, <1>5, EmptySeq DEF Kept, IsMachine, IsSeq
<1>7. Placed(n, "stopped")
  BY <1>3, <1>4, <1>6 DEF Placed
<1>8. OneAtATime(n, "stopped", acts)
  BY <1>4 DEF OneAtATime
<1>9. Seeding(n, "stopped", acts)
  BY <1>3, Seedless
<1>. QED BY <1>2, <1>6, <1>7, <1>8, <1>9, RunsOn

LEMMA CapFullOrder ==
  ASSUME InOrder(nat, go, acts, erred), go = "native", CapFull, NEW n, n = nat'
  PROVE  InOrder(n, go', acts, FALSE) /\ go' = "stopped"
<1>1. IsMachine(nat) /\ Placed(nat, go) /\ OneAtATime(nat, go, acts)
  BY Running
<1>2. PICK a : a = Here
  OBVIOUS
<1>3. /\ go' = "stopped" /\ n = [[nat EXCEPT !.target = a] EXCEPT !.pend = "grow"]
      /\ nat.phase = "value" /\ Top.count = Cap(Level)
  BY <1>2 DEF CapFull, Yields, Stops, Native
<1>4. /\ IsRecord(n) /\ n.frames = nat.frames /\ n.phase = "value" /\ n.pend = "grow" /\ n.target = a
  BY <1>1, <1>3 DEF IsMachine, IsRecord
<1>5. Kept(nat, n) /\ IsMachine(n)
  BY <1>1, <1>4, Still DEF Kept
<1>6. nat.frames # <<>> /\ (NonLeaf(Level) => Top.count = 1)
  BY <1>1, <1>3 DEF Placed, Cap
<1>7. Placed(n, "stopped")
  BY <1>1, <1>2, <1>4, <1>6 DEF Placed, Place, Here, Top
<1>8. OneAtATime(n, "stopped", acts)
  BY <1>1, <1>3, <1>4, <1>6 DEF OneAtATime, AtValue, Inner, Top, Level
<1>9. Seeding(n, "stopped", acts)
  BY <1>6, Seedless
<1>. QED BY <1>3, <1>5, <1>7, <1>8, <1>9, RunsOn

LEMMA ElementSlotOrder ==
  ASSUME InOrder(nat, go, acts, erred), go = "native", ElementSlot, NEW n, n = nat'
  PROVE  InOrder(n, go', acts, FALSE) /\ go' = "stopped"
<1>1. IsMachine(nat) /\ Placed(nat, go) /\ OneAtATime(nat, go, acts) /\ Seeding(nat, go, acts)
  BY Running
<1>2. PICK a : a = Here
  OBVIOUS
<1>3. /\ go' = "stopped" /\ n = [[nat EXCEPT !.phase = "valueBegin", !.target = a] EXCEPT !.pend = "grow"]
      /\ nat.phase = "value" /\ NonLeaf(Level) /\ ~Top.skip /\ Top.count # Cap(Level)
  BY <1>2 DEF ElementSlot, Yields, Stops, Native
<1>4. /\ IsRecord(n) /\ n.frames = nat.frames /\ n.phase = "valueBegin" /\ n.pend = "grow" /\ n.target = a
  BY <1>1, <1>3 DEF IsMachine, IsRecord
<1>5. Kept(nat, n) /\ IsMachine(n)
  BY <1>1, <1>4, Still DEF Kept
<1>6. nat.frames # <<>> /\ Top.count = 0
  BY <1>1, <1>3, WalkTop DEF Placed, Cap, AtLevel
<1>7. Owned(nat, acts)
  BY <1>1, <1>3, <1>6 DEF OneAtATime, AtValue, Inner, Top, Level
<1>8. Placed(n, "stopped")
  BY <1>1, <1>2, <1>4, <1>6 DEF Placed, Place, Here, Top
<1>9. OneAtATime(n, "stopped", acts)
  BY <1>3, <1>4, <1>6, <1>7 DEF OneAtATime, Inner, Top, Level, Owned, Place
<1>10. Seeding(n, "stopped", acts)
  BY <1>1, <1>4 DEF Seeding
<1>. QED BY <1>3, <1>5, <1>8, <1>9, <1>10, RunsOn

(* An element is passed: the walk goes on with the next.                   *)
LEMMA PassedOrder ==
  ASSUME InOrder(nat, go, acts, erred), go = "native", nat.frames # <<>>,
         NEW h, IsFrame(h), AtLevel(h, Level), h.path = Top.path,
         NonLeaf(Level) => Armed(h), ~NonLeaf(Level) \/ Top.skip,
         NEW n, IsRecord(n), n.frames = SetTop(h), n.phase = "continue", n.pend = "grow"
  PROVE  InOrder(n, "native", acts, FALSE)
<1>1. IsMachine(nat) /\ Placed(nat, go) /\ OneAtATime(nat, go, acts)
  BY Running
<1>2. Kept(nat, n) /\ Last(n.frames) = h /\ IsMachine(n) /\ n.frames # <<>>
  BY <1>1, Retops
<1>3. Placed(n, "native")
  BY <1>1, <1>2 DEF Placed, Kept
<1>4. OneAtATime(n, "native", acts)
  BY <1>2 DEF OneAtATime, Kept, Inner, Level
<1>5. Seeding(n, "native", acts)
  BY Seedless
<1>. QED BY <1>2, <1>3, <1>4, <1>5, RunsOn

LEMMA SkipElementOrder ==
  ASSUME InOrder(nat, go, acts, erred), go = "native", SkipElement, NEW n, n = nat'
  PROVE  InOrder(n, go', acts, FALSE) /\ go' = "native"
<1>1. IsMachine(nat) /\ Placed(nat, go) /\ OneAtATime(nat, go, acts)
  BY Running
<1>2. /\ nat.phase \in {"value", "valueBegin"} /\ Top.skip
      /\ nat.phase = "value" => Top.count # Cap(Level)
      /\ go' = "native"
  BY DEF SkipElement, Runs
<1>3. nat.frames # <<>> /\ nat.pend = "grow"
  BY <1>1, <1>2 DEF Placed
<1>4. IsFrame(Top) /\ AtLevel(Top, Level)
  BY <1>1, <1>3, WalkTop
<1>5. NonLeaf(Level) => Top.count = 0
  BY <1>1, <1>2, <1>4 DEF OneAtATime, Inner, Cap, AtLevel, Top, Level
<1>6. PICK f, l, h, fr : f = Top /\ l = Level /\ h = [f EXCEPT !.next = @ + 1] /\ fr = SetTop(h)
  OBVIOUS
<1>7. IsFrame(h) /\ AtLevel(h, l) /\ h.path = f.path /\ h.count = f.count /\ h.skip = f.skip
  BY <1>4, <1>6, Passes
<1>8. n = [nat EXCEPT !.frames = fr, !.phase = "continue"]
  BY <1>6 DEF SkipElement, Runs, Native
<1>9. IsRecord(n) /\ n.frames = fr /\ n.phase = "continue" /\ n.pend = "grow"
  BY <1>1, <1>3, <1>8 DEF IsMachine, IsRecord
<1>10. /\ AtLevel(h, Level) /\ h.path = Top.path /\ (NonLeaf(Level) => Armed(h))
       /\ ~NonLeaf(Level) \/ Top.skip
  BY <1>2, <1>5, <1>6, <1>7 DEF Armed
<1>11. n.frames = SetTop(h)
  BY <1>6, <1>9
<1>. QED BY <1>2, <1>3, <1>7, <1>9, <1>10, <1>11, PassedOrder

LEMMA BindLeafOrder ==
  ASSUME InOrder(nat, go, acts, erred), go = "native", BindLeaf, NEW n, n = nat'
  PROVE  InOrder(n, go', acts, FALSE) /\ go' = "native"
<1>1. IsMachine(nat) /\ Placed(nat, go) /\ OneAtATime(nat, go, acts)
  BY Running
<1>2. nat.phase = "value" /\ ~NonLeaf(Level) /\ go' = "native"
  BY DEF BindLeaf, Leaf
<1>3. nat.frames # <<>> /\ nat.pend = "grow"
  BY <1>1, <1>2 DEF Placed
<1>4. IsFrame(Top) /\ AtLevel(Top, Level)
  BY <1>1, <1>3, WalkTop
<1>6. PICK f, l, h, fr : /\ f = Top /\ l = Level /\ h = [f EXCEPT !.next = @ + 1, !.count = @ + 1]
                         /\ fr = SetTop(h)
  OBVIOUS
<1>7. IsFrame(h) /\ AtLevel(h, l) /\ h.path = f.path
  <2>1. IsFrame(f) /\ AtLevel(f, l) /\ ~NonLeaf(l) /\ h = [f EXCEPT !.next = @ + 1, !.count = @ + 1]
    BY <1>2, <1>4, <1>6
  <2>. QED BY ONLY <2>1, Counts
<1>8. n = [nat EXCEPT !.frames = fr, !.phase = "continue"]
  BY <1>6 DEF BindLeaf, Native, Consumed
<1>9. IsRecord(n) /\ n.frames = fr /\ n.phase = "continue" /\ n.pend = "grow"
  BY <1>1, <1>3, <1>8 DEF IsMachine, IsRecord
<1>10. AtLevel(h, Level) /\ h.path = Top.path
  BY <1>6, <1>7
<1>11. n.frames = SetTop(h)
  BY <1>6, <1>9
<1>. QED BY <1>2, <1>3, <1>7, <1>9, <1>10, <1>11, PassedOrder

LEMMA BindErrorOrder ==
  ASSUME InOrder(nat, go, acts, erred), go = "native", BindError, NEW n, n = nat'
  PROVE  InOrder(n, go', acts, FALSE) /\ go' = "stopped"
<1>1. IsMachine(nat) /\ Placed(nat, go) /\ OneAtATime(nat, go, acts)
  BY Running
<1>2. nat.phase = "value" /\ ~NonLeaf(Level) /\ go' = "stopped"
  BY DEF BindError, Leaf
<1>3. nat.frames # <<>>
  BY <1>1, <1>2 DEF Placed
<1>4. IsFrame(Top) /\ AtLevel(Top, Level)
  BY <1>1, <1>3, WalkTop
<1>5. PICK f, l, h, fr : /\ f = Top /\ l = Level /\ h = [f EXCEPT !.next = @ + 1, !.count = @ + 1]
                         /\ fr = SetTop(h)
  OBVIOUS
<1>6. IsFrame(h) /\ AtLevel(h, l) /\ h.path = f.path
  <2>1. IsFrame(f) /\ AtLevel(f, l) /\ ~NonLeaf(l) /\ h = [f EXCEPT !.next = @ + 1, !.count = @ + 1]
    BY <1>2, <1>4, <1>5
  <2>. QED BY ONLY <2>1, Counts
<1>7. n = [nat EXCEPT !.frames = fr, !.phase = "done", !.pend = "error"]
  BY <1>5 DEF BindError, Native, Consumed
<1>8. IsRecord(n) /\ n.frames = SetTop(h) /\ n.phase = "done" /\ n.pend = "error"
  BY <1>1, <1>5, <1>7 DEF IsMachine, IsRecord
<1>9. Kept(nat, n) /\ IsMachine(n)
  BY <1>1, <1>3, <1>5, <1>6, <1>8, Retops
<1>10. Placed(n, "stopped")
  BY <1>1, <1>8, <1>9 DEF Placed, Kept
<1>11. OneAtATime(n, "stopped", acts)
  BY <1>8 DEF OneAtATime
<1>12. Seeding(n, "stopped", acts)
  BY <1>2, Seedless
<1>. QED BY <1>2, <1>9, <1>10, <1>11, <1>12, RunsOn

LEMMA NextElementOrder ==
  ASSUME InOrder(nat, go, acts, erred), go = "native", NextElement, NEW n, n = nat'
  PROVE  InOrder(n, go', acts, FALSE) /\ go' = "native"
<1>1. IsMachine(nat) /\ Placed(nat, go) /\ OneAtATime(nat, go, acts)
  BY Running
<1>2. nat.phase = "continue" /\ nat.frames # <<>> /\ go' = "native"
  BY DEF NextElement, Runs
<1>3. nat.pend = "grow"
  BY <1>1, <1>2 DEF Placed
<1>4. IsFrame(Top) /\ AtLevel(Top, Level)
  BY <1>1, <1>2, WalkTop
<1>5. PICK f, l, h, fr : f = Top /\ l = Level /\ h = [f EXCEPT !.len = f.count] /\ fr = SetTop(h)
  OBVIOUS
<1>6. IsFrame(h) /\ AtLevel(h, l) /\ h.path = f.path /\ h.count = f.count /\ h.skip = f.skip
  BY <1>4, <1>5, Heads
<1>7. n = [nat EXCEPT !.frames = fr, !.phase = "value"]
  BY <1>5 DEF NextElement, Runs, Native
<1>8. IsRecord(n) /\ n.frames = SetTop(h) /\ n.phase = "value" /\ n.pend = "grow"
  BY <1>1, <1>3, <1>5, <1>7 DEF IsMachine, IsRecord
<1>9. Kept(nat, n) /\ IsMachine(n) /\ Last(n.frames) = h /\ n.frames # <<>>
  <2>1. IsFrame(h) /\ h.path = Top.path /\ AtLevel(h, Level)
    BY <1>5, <1>6
  <2>2. IsRecord(n) /\ n.frames = SetTop(h) /\ IsMachine(nat) /\ nat.frames # <<>>
    BY <1>1, <1>2, <1>8
  <2>. QED BY ONLY <2>1, <2>2, Retops
<1>10. Placed(n, "native")
  BY <1>1, <1>8, <1>9 DEF Placed, Kept
<1>11. OneAtATime(n, "native", acts)
  <2>1. NonLeaf(Level) => Armed(h) \/ (~h.skip /\ h.count = 1)
    BY <1>1, <1>2, <1>5, <1>6 DEF OneAtATime, Inner, Armed, Top, Level
  <2>2. Len(n.frames) = Level
    BY <1>9 DEF Kept, Level
  <2>. QED BY <1>8, <1>9, <2>1, <2>2 DEF OneAtATime, Inner, AtValue, Armed
<1>12. Seeding(n, "native", acts)
  BY <1>2, Seedless
<1>. QED BY <1>2, <1>9, <1>10, <1>11, <1>12, RunsOn

LEMMA EndYieldsOrder ==
  ASSUME InOrder(nat, go, acts, erred), go = "native", EndYields, NEW n, n = nat'
  PROVE  InOrder(n, go', acts, FALSE) /\ go' = "stopped"
<1>1. IsMachine(nat) /\ Placed(nat, go) /\ OneAtATime(nat, go, acts)
  BY Running
<1>2. nat.phase = "continue" /\ nat.frames # <<>> /\ go' = "stopped"
  BY DEF EndYields, Yields, Stops
<1>4. IsFrame(Top) /\ AtLevel(Top, Level)
  BY <1>1, <1>2, WalkTop
<1>5. PICK f, l, h, fr, a : /\ f = Top /\ l = Level /\ h = [f EXCEPT !.len = f.count]
                            /\ fr = SetTop(h) /\ a = Here
  OBVIOUS
<1>6. IsFrame(h) /\ AtLevel(h, l) /\ h.path = f.path
  BY <1>4, <1>5, Heads
<1>7. n = [[nat EXCEPT !.frames = fr, !.phase = "close", !.target = a] EXCEPT !.pend = "grow"]
  BY <1>5 DEF EndYields, Yields, Stops, Native
<1>8. IsRecord(n) /\ n.frames = SetTop(h) /\ n.phase = "close" /\ n.pend = "grow" /\ n.target = a
  BY <1>1, <1>5, <1>7 DEF IsMachine, IsRecord
<1>9. Kept(nat, n) /\ IsMachine(n) /\ Last(n.frames) = h /\ n.frames # <<>>
  <2>1. IsFrame(h) /\ h.path = Top.path /\ AtLevel(h, Level)
    BY <1>5, <1>6
  <2>2. IsRecord(n) /\ n.frames = SetTop(h) /\ IsMachine(nat) /\ nat.frames # <<>>
    BY <1>1, <1>2, <1>8
  <2>. QED BY ONLY <2>1, <2>2, Retops
<1>10. Placed(n, "stopped")
  <2>1. Place(n) = a
    BY <1>5, <1>6, <1>9 DEF Place, Here
  <2>2. \A k \in DOMAIN n.frames : k < Len(n.frames) => n.frames[k].count = 1 /\ ~n.frames[k].skip
    BY <1>1, <1>9 DEF Placed, Kept
  <2>. QED BY ONLY <1>8, <1>9, <2>1, <2>2 DEF Placed
<1>11. OneAtATime(n, "stopped", acts)
  BY <1>8 DEF OneAtATime
<1>12. Seeding(n, "stopped", acts)
  BY <1>2, Seedless
<1>. QED BY <1>2, <1>9, <1>10, <1>11, <1>12, RunsOn

LEMMA PopsOrder ==
  ASSUME InOrder(nat, go, acts, erred), go = "native", Pops, NEW n, n = nat'
  PROVE  InOrder(n, go', acts, FALSE) /\ go' = "native"
<1>1. IsMachine(nat) /\ Placed(nat, go) /\ OneAtATime(nat, go, acts)
  BY Running
<1>2. nat.phase \in {"continue", "close"} /\ nat.frames # <<>> /\ go' = "native"
  BY DEF Pops, Runs
<1>3. PICK fr : fr = Front(nat.frames)
  OBVIOUS
<1>4. n = [nat EXCEPT !.frames = fr, !.phase = "continue"]
  BY <1>3 DEF Pops, Runs, Native
<1>5. nat.pend = "grow"
  BY <1>1, <1>2 DEF Placed
<1>6. IsRecord(n) /\ n.frames = fr /\ n.phase = "continue" /\ n.pend = "grow"
  BY <1>1, <1>4, <1>5 DEF IsMachine, IsRecord
<1>7. /\ IsMachine(n)
      /\ \A l \in DOMAIN n.frames :
           l \in DOMAIN nat.frames /\ l < Len(nat.frames) /\ n.frames[l] = nat.frames[l]
      /\ n.frames # <<>> => Last(n.frames) = n.frames[Len(n.frames)] /\ Len(n.frames) \in DOMAIN n.frames
  <2>1. PICK m : m = nat
    OBVIOUS
  <2>2. IsMachine(m) /\ m.frames # <<>> /\ n.frames = Front(m.frames)
    BY <1>1, <1>2, <1>3, <1>6, <2>1
  <2>. QED BY ONLY <1>6, <2>1, <2>2, Closes
<1>8. \A l \in DOMAIN n.frames : n.frames[l].count = 1 /\ ~n.frames[l].skip
  BY <1>1, <1>7 DEF Placed
<1>9. Placed(n, "native")
  BY <1>6, <1>8 DEF Placed
<1>10. OneAtATime(n, "native", acts)
  BY <1>6, <1>7, <1>8 DEF OneAtATime, Inner
<1>11. Seeding(n, "native", acts)
  BY <1>2, Seedless
<1>. QED BY <1>2, <1>7, <1>9, <1>10, <1>11, RunsOn

(* Every step of the walk.                                                 *)
LEMMA NativeOrder ==
  ASSUME InOrder(nat, go, acts, erred), NativeStep, NEW n, n = nat'
  PROVE  InOrder(n, go', acts, FALSE) /\ go' \in {"native", "stopped"} /\ ~erred
         /\ acts' = acts /\ erred' = erred /\ result' = result /\ doc' = doc
<1>1. go = "native" /\ ~erred
  BY Running DEF NativeStep
<1>2. InOrder(n, go', acts, FALSE) /\ go' \in {"native", "stopped"}
  BY <1>1, RootNextOrder, RootEndOrder, CapFullOrder, SkipElementOrder, ElementSlotOrder,
     BindLeafOrder, BindErrorOrder, BindBodyOrder, NextElementOrder, EndYieldsOrder, PopsOrder
     DEF NativeStep
<1>3. UNCHANGED <<doc, acts, hist>>
  BY DEF NativeStep, RootNext, RootEnd, CapFull, SkipElement, ElementSlot, BindLeaf, BindError,
         BindBody, NextElement, EndYields, Pops, Open, Yields, Stops, Runs, Native
<1>. QED BY <1>1, <1>2, <1>3 DEF hist

LEMMA CarriesM ==
  ASSUME NEW n, doc' = doc, n = nat', IsMachine(n)
  PROVE  IsMachine(nat)'
BY DEF IsMachine, AtLevel, NonLeaf
LEMMA CarriesA ==
  ASSUME NEW n, doc' = doc, n = acts', NEW g, g = go', IsCalls(n, g)
  PROVE  IsCalls(acts, go)'
BY DEF IsCalls, IsAct, NonLeaf
LEMMA Carries ==
  ASSUME NEW n, n = nat', NEW g, g = go', NEW s, s = acts', NEW e, e = erred', doc' = doc,
         InOrder(n, g, s, e)
  PROVE  InOrder(nat, go, acts, erred)'
<1>1. IsMachine(nat)' /\ IsCalls(acts, go)' /\ (e => Reporting(g, s)) /\ (g = "failing" => e)
      /\ (~e => g = "finished" \/ Walking(n, g, s))
  BY CarriesM, CarriesA DEF InOrder
<1>2. (erred => Reporting(go, acts))' /\ (go = "failing" => erred)'
  BY <1>1 DEF Reporting, Spent
<1>3. Walking(n, g, s) => Walking(nat, go, acts)'
  BY DEF Walking, Placed, OneAtATime, Signalled, Seeding, Batching, AtValue, Inner, Owned, Place, NonLeaf,
     Armed, Spent, NoSignal
<1>. QED BY <1>1, <1>2, <1>3 DEF InOrder

(***************************************************************************)
(* The activations: the innermost one changes, returns, or makes another.  *)
(***************************************************************************)
(* An activation around the innermost one.                                 *)
Around(s, i) == i \in DOMAIN s /\ i # Len(s)
Seedful(a) == a.mode = "seed" /\ a.nonleaf
Stage(g, a) == g = "handler" <=> a.mode = "handler"
Turned(s, a, r) == r = [s EXCEPT ![Len(s)] = a]

LEMMA Innermost ==
  ASSUME NEW s, NEW g, IsCalls(s, g), s # <<>>
  PROVE  /\ IsAct(Last(s)) /\ Len(s) \in DOMAIN s /\ Last(s) = s[Len(s)]
         /\ Last(s).mode = "handler" <=> g = "handler"
<1>1. Len(s) \in DOMAIN s /\ Last(s) = s[Len(s)]
  BY LastOf DEF IsCalls
<1>. QED BY <1>1 DEF IsCalls

LEMMA Turning ==
  ASSUME NEW s, NEW g, IsCalls(s, g), s # <<>>, NEW a, IsAct(a), a.sig = Last(s).sig,
         NEW h, Stage(h, a), NEW r, Turned(s, a, r)
  PROVE  /\ IsCalls(r, h) /\ r # <<>> /\ Last(r) = a /\ Len(r) = Len(s)
         /\ NoSignal(r) <=> NoSignal(s)
         /\ \A i : Around(r, i) => Around(s, i) /\ r[i] = s[i]
         /\ r[Len(r)] = a
<1>1. /\ IsSeq(r) /\ r # <<>> /\ Len(r) = Len(s) /\ DOMAIN r = DOMAIN s
      /\ Last(r) = a /\ r[Len(s)] = a
      /\ \A i \in DOMAIN s : i # Len(s) => r[i] = s[i]
  <2>1. IsSeq(s) /\ s # <<>> /\ r = [s EXCEPT ![Len(s)] = a]
    BY DEF IsCalls, Turned
  <2>. QED BY ONLY <2>1, Replaced
<1>2. Len(s) \in DOMAIN s /\ Last(s) = s[Len(s)]
  BY Innermost
<1>3. IsCalls(r, h)
  BY <1>1 DEF IsCalls, Stage
<1>4. NoSignal(r) <=> NoSignal(s)
  BY <1>1, <1>2 DEF NoSignal
<1>. QED BY <1>1, <1>3, <1>4 DEF Around

LEMMA Returning ==
  ASSUME NEW s, NEW g, IsCalls(s, g), s # <<>>, NEW h, h # "handler"
  PROVE  /\ IsCalls(Front(s), h)
         /\ NoSignal(s) => NoSignal(Front(s))
         /\ \A i \in DOMAIN Front(s) : Around(s, i) /\ Front(s)[i] = s[i]
<1>1. /\ IsSeq(Front(s)) /\ DOMAIN Front(s) = 1 .. Len(s) - 1
      /\ \A i \in 1 .. Len(s) - 1 : Front(s)[i] = s[i] /\ i \in DOMAIN s /\ i # Len(s)
  BY LastOf DEF IsCalls
<1>2. IsCalls(Front(s), h)
  BY <1>1 DEF IsCalls
<1>. QED BY <1>1, <1>2 DEF NoSignal, Around

LEMMA Activating ==
  ASSUME NEW s, NEW g, IsCalls(s, g), g # "handler", NEW a, IsAct(a),
         NEW h, Stage(h, a)
  PROVE  /\ IsCalls(Append(s, a), h) /\ Append(s, a) # <<>> /\ Last(Append(s, a)) = a
         /\ NoSignal(s) /\ a.sig = None => NoSignal(Append(s, a))
         /\ \A i : Around(Append(s, a), i) => i \in DOMAIN s /\ Append(s, a)[i] = s[i]
         /\ Append(s, a)[Len(Append(s, a))] = a
<1>1. IsSeq(s) /\ Len(s) \in Nat
  BY DEF IsCalls, IsSeq
<1>2. PICK r, n : r = Append(s, a) /\ n = Len(s) + 1
  OBVIOUS
<1>3. /\ IsSeq(r) /\ r # <<>> /\ Len(r) = n /\ DOMAIN r = 1 .. n /\ Last(r) = a /\ r[n] = a
      /\ \A i \in 1 .. Len(s) : r[i] = s[i] /\ i \in DOMAIN s
  BY <1>1, <1>2, Added
<1>4. \A i \in 1 .. n : i = n \/ i \in 1 .. Len(s)
  BY <1>1, <1>2
<1>5. IsCalls(r, h)
  BY <1>3, <1>4 DEF IsCalls, Stage
<1>6. NoSignal(s) /\ a.sig = None => NoSignal(r)
  BY <1>3, <1>4 DEF NoSignal
<1>. QED BY <1>2, <1>3, <1>4, <1>5, <1>6 DEF Around

(* Where a signal is stashed.                                              *)
LEMMA Stashing ==
  ASSUME NEW s, NEW g, IsCalls(s, g), s # <<>>, NEW x, NEW r, r = Stash(s, x)
  PROVE  /\ IsCalls(r, g) /\ r # <<>>
         /\ \A i : Around(r, i) => Around(s, i) /\ r[i].mode = s[i].mode /\ r[i].nonleaf = s[i].nonleaf
<1>. DEFINE hits == {i \in DOMAIN s : s[i].addr = x}
            k == CHOOSE i \in hits : \A j \in hits : j <= i
<1>1. r = s \/ r = [s EXCEPT ![k].sig = x]
  BY DEF Stash
<1>. HIDE DEF k
<1>2. CASE r = s
  BY <1>2 DEF Around
<1>3. CASE r = [s EXCEPT ![k].sig = x]
  <2>1. IsSeq(s) /\ DOMAIN r = DOMAIN s
    BY <1>3 DEF IsCalls
  <2>2. r = [i \in DOMAIN r |-> r[i]]
    BY <1>3, <2>1 DEF IsSeq
  <2>3. IsSeq(r) /\ Len(r) = Len(s) /\ r # <<>>
    BY <2>1, <2>2, Mapped
  <2>4. \A i \in DOMAIN s : IsAct(s[i])
    BY DEF IsCalls
  <2>5. \A i \in DOMAIN s : r[i] = s[i] \/ r[i] = [s[i] EXCEPT !.sig = x]
    BY <1>3, <2>1 DEF IsSeq
  <2>6. \A i \in DOMAIN s : IsAct(r[i]) /\ r[i].mode = s[i].mode /\ r[i].nonleaf = s[i].nonleaf
    <3>1. ASSUME NEW a, IsAct(a), NEW b, b = [a EXCEPT !.sig = x]
          PROVE  IsAct(b) /\ b.mode = a.mode /\ b.nonleaf = a.nonleaf
      BY <3>1 DEF IsAct
    <3>. QED BY <2>4, <2>5, <3>1
  <2>7. Last(r) = r[Len(s)] /\ Last(s) = s[Len(s)] /\ Len(s) \in DOMAIN s
    BY <2>3, <2>1, LastOf
  <2>8. IsCalls(r, g)
    BY <2>1, <2>3, <2>6, <2>7 DEF IsCalls
  <2>. QED BY <2>1, <2>3, <2>6, <2>8 DEF Around
<1>. QED BY <1>1, <1>2, <1>3

(* A set of naturals that is not empty has a least element.                *)
LEMMA LeastNatural ==
  ASSUME NEW S, S \subseteq Nat, S # {}
  PROVE  \E x \in S : \A y \in S : x <= y
<1>1. PICK x \in S : \A y \in S : ~(<<y, x>> \in OpToRel(<, Nat))
  BY WFMin, NatLessThanWellFounded
<1>2. \A y \in S : ~(y < x)
  BY <1>1 DEF OpToRel
<1>. QED BY <1>2

(* A signal is pending when some activation holds one.                     *)
LEMMA Pending ==
  ASSUME IsSeq(acts)
  PROVE  AnyBreak = None <=> NoSignal(acts)
<1>1. Stashed \subseteq 1 .. Len(acts) /\ Len(acts) \in Nat
  BY DEF Stashed, IsSeq
<1>2. CASE Stashed = {}
  BY <1>2 DEF Stashed, NoSignal, AnyBreak
<1>3. CASE Stashed # {}
  <2>1. \E i \in Stashed : \A j \in Stashed : j <= i
    <3>. DEFINE M == {k \in Nat : \A j \in Stashed : j <= k}
    <3>1. Len(acts) \in M
      BY <1>1
    <3>2. PICK k \in M : \A j \in M : k <= j
      <4>1. M \subseteq Nat /\ M # {}
        BY <3>1
      <4>. HIDE DEF M
      <4>. QED BY <4>1, LeastNatural
    <3>3. k \in Stashed
      <4>1. SUFFICES ASSUME k \notin Stashed PROVE FALSE
        OBVIOUS
      <4>2. \A j \in Stashed : j <= k /\ j # k /\ j \in Nat /\ j >= 1
        BY <1>1, <3>2, <4>1
      <4>3. k - 1 \in Nat /\ \A j \in Stashed : j <= k - 1
        BY <1>3, <3>2, <4>2
      <4>. QED BY <3>2, <4>3
    <3>. QED BY <3>2, <3>3
  <2>2. PICK k : k \in Stashed /\ AnyBreak = acts[k].sig
    BY <1>3, <2>1 DEF AnyBreak
  <2>. QED BY <2>2 DEF Stashed, NoSignal
<1>. QED BY <1>2, <1>3

(***************************************************************************)
(* What a step has to leave behind.                                        *)
(***************************************************************************)
Seedfree(s) == \A i \in DOMAIN s : ~Seedful(s[i])

(* Before a step of a drive or a handler.                                  *)
LEMMA Walks ==
  ASSUME InOrder(nat, go, acts, erred), ~erred, go \notin {"failing", "finished"}
  PROVE  /\ IsMachine(nat) /\ IsCalls(acts, go) /\ Placed(nat, go) /\ OneAtATime(nat, go, acts)
         /\ Signalled(nat, go, acts) /\ Seeding(nat, go, acts) /\ Batching(nat, go, acts)
BY DEF InOrder, Walking

LEMMA Unreported ==
  ASSUME InOrder(nat, go, acts, erred), go \notin {"handler", "failing", "finished"}
  PROVE  ~erred
BY DEF InOrder, Reporting

LEMMA HandlerActs ==
  ASSUME InOrder(nat, go, acts, erred), go = "handler"
  PROVE  acts # <<>> /\ IsAct(Act) /\ Act.mode = "handler" /\ IsMachine(nat) /\ IsCalls(acts, go)
         /\ (erred => Act.err /\ Act.atEnd /\ (Act.iter = "after" \/ (Act.nonleaf /\ Spent(Act))))
BY Innermost DEF InOrder, IsCalls, Reporting, Act

(* A machine that only rests in another activity.                          *)
LEMMA Rested ==
  ASSUME NEW n, IsMachine(n), NEW g, Placed(n, g), g # "native", n.pend # "error",
         NEW m, Kept(n, m), Paused(n, m), NEW h \in {"native", "stopped", "served", "handler"}
  PROVE  /\ IsMachine(m) /\ Placed(m, h) /\ (Inner(m) <=> Inner(n)) /\ m.phase = n.phase
         /\ n.phase # "continue"
         /\ n.frames # <<>> => Place(m) = Place(n)
<1>1. n.phase # "continue"
  BY DEF Placed
<1>2. n.frames # <<>> => Place(m) = Place(n)
  BY DEF Kept, Place
<1>3. IsMachine(m) /\ (Inner(m) <=> Inner(n)) /\ m.phase = n.phase
  BY DEF Kept, Paused, Inner
<1>4. Placed(m, h)
  BY <1>1, <1>2, <1>3 DEF Kept, Paused, Placed
<1>. QED BY <1>1, <1>2, <1>3, <1>4

(* An error unwinds.                                                       *)
LEMMA Unwinds ==
  ASSUME InOrder(nat, go, acts, erred), acts # <<>>, NEW n, IsMachine(n), Unwind(n),
         NEW m, m = nat', NEW s, s = acts'
  PROVE  InOrder(m, go', s, erred')
<1>1. m = Dropped(n, Act.addr) /\ s = Front(acts) /\ go' = "failing" /\ erred'
  BY DEF Unwind
<1>2. IsMachine(m)
  BY <1>1, DropKeeps DEF Kept
<1>3. IsCalls(s, "failing")
  BY <1>1, Returning DEF InOrder
<1>. QED BY <1>1, <1>2, <1>3 DEF InOrder, Reporting

(* A seed is delivered by the activation that waits for it alone.          *)
LEMMA LoneSeed ==
  ASSUME NEW n, NEW g, NEW s, Seeding(n, g, s)
  PROVE  /\ \A i : Around(s, i) => ~Seedful(s[i])
         /\ g \notin {"native", "stopped"} \/ (g = "stopped" /\ n.phase # "valueBegin") => Seedfree(s)
BY DEF Seeding, Around, Seedful, Seedfree

(* A drive goes on around the activation that ends.                        *)
LEMMA Leaves ==
  ASSUME NEW n, IsMachine(n), NEW g, Placed(n, g), g # "native", n.pend # "error", NEW t, OneAtATime(n, g, t),
         NEW m, Kept(n, m), Paused(n, m),
         n.phase = "valueBegin" /\ n.frames # <<>> => Last(m.frames).count = Last(n.frames).count,
         n.phase = "value" /\ n.frames # <<>> => Armed(Last(m.frames)),
         NEW s, IsCalls(s, "served"), Seedfree(s)
  PROVE  InOrder(m, "served", s, FALSE)
<1>1. /\ IsMachine(m) /\ Placed(m, "served") /\ (Inner(m) <=> Inner(n)) /\ m.phase = n.phase
      /\ n.phase # "continue"
  BY Rested
<1>2. OneAtATime(m, "served", s)
  BY <1>1 DEF OneAtATime, AtValue, Armed, Inner, Kept
<1>3. Signalled(m, "served", s)
  BY <1>1 DEF Signalled, Inner, Kept
<1>4. Seeding(m, "served", s) /\ Batching(m, "served", s)
  BY DEF Seeding, Seedfree, Seedful, Batching
<1>. QED BY <1>1, <1>2, <1>3, <1>4 DEF InOrder, Walking

(* ... and the array it was for is drained.                                *)
LEMMA LeavesArmed ==
  ASSUME NEW n, IsMachine(n), NEW g, Placed(n, g), g # "native", n.pend # "error", NEW t, OneAtATime(n, g, t),
         NEW a, NEW m, m = Dropped(ArmDrain(n), a),
         NEW s, IsCalls(s, "served"), Seedfree(s)
  PROVE  InOrder(m, "served", s, FALSE)
<1>1. PICK u : u = ArmDrain(n)
  OBVIOUS
<1>2. /\ Kept(n, u) /\ Paused(n, u) /\ IsMachine(u)
      /\ n.frames # <<>> =>
           /\ Last(u.frames).skip
           /\ Last(u.frames).count = IF n.phase = "value" THEN 0 ELSE Last(n.frames).count
  BY <1>1, ArmKeeps DEF Kept
<1>3. /\ Kept(u, m) /\ Paused(u, m)
      /\ u.frames # <<>> => /\ Last(m.frames).count = Last(u.frames).count
                            /\ Last(m.frames).skip = Last(u.frames).skip
  BY <1>1, <1>2, DropKeeps
<1>4. Kept(n, m) /\ Paused(n, m)
  BY <1>2, <1>3, KeptTwice
<1>5. /\ n.phase = "valueBegin" /\ n.frames # <<>> => Last(m.frames).count = Last(n.frames).count
      /\ n.phase = "value" /\ n.frames # <<>> => Armed(Last(m.frames))
  BY <1>2, <1>3 DEF Kept, Armed
<1>. QED BY <1>4, <1>5, Leaves

(* A handler rests where the machine is, or skips the rest of its array.   *)
LEMMA HandlerRests ==
  ASSUME InOrder(nat, go, acts, erred), go = "handler", NEW n, n = nat \/ n = DrainRemaining
  PROVE  /\ IsMachine(n) /\ Kept(nat, n) /\ Paused(nat, n)
         /\ ~erred => /\ Placed(n, "handler") /\ n.pend # "error" /\ n.phase # "continue"
                      /\ \A s : OneAtATime(n, "handler", s)
<1>1. IsMachine(nat)
  BY HandlerActs
<1>2. /\ IsMachine(n) /\ Kept(nat, n) /\ Paused(nat, n)
      /\ n = nat \/ (nat.frames # <<>> => /\ Last(n.frames).skip /\ Last(n.frames).count = Top.count
                                         /\ Last(n.frames).data = Top.data)
  <2>1. CASE n = nat
    BY <1>1, <2>1, Still DEF IsMachine, IsRecord, Paused
  <2>2. CASE n = DrainRemaining
    BY <1>1, <2>2, DrainKeeps DEF Kept
  <2>. QED BY <2>1, <2>2
<1>3. ASSUME ~erred
      PROVE  /\ Placed(n, "handler") /\ n.pend # "error" /\ n.phase # "continue"
             /\ \A s : OneAtATime(n, "handler", s)
  <2>1. Placed(nat, "handler") /\ OneAtATime(nat, "handler", acts)
    BY <1>3, Walks
  <2>2. nat.pend # "error"
    BY <2>1 DEF Placed
  <2>3. /\ Placed(n, "handler") /\ (Inner(n) <=> Inner(nat)) /\ n.phase = nat.phase
        /\ nat.phase # "continue"
    BY <1>1, <1>2, <2>1, <2>2, Rested
  <2>5. n.phase = "valueBegin" => Inner(n) /\ Last(n.frames).count = 0
    BY <1>2, <2>1, <2>3 DEF OneAtATime, Inner, Top
  <2>6. ASSUME NEW own, n.phase = "value", Inner(n) PROVE AtValue(Last(n.frames), "handler", own)
    BY <2>6, <1>2, <2>1, <2>3 DEF OneAtATime, AtValue, Inner, Top, Armed, IsMachine
  <2>7. \A s : OneAtATime(n, "handler", s)
    BY <2>3, <2>5, <2>6 DEF OneAtATime
  <2>. QED BY <1>2, <2>2, <2>3, <2>7 DEF Paused
<1>. QED BY <1>2, <1>3

(* The handler goes on.                                                    *)
LEMMA HandlerTurns ==
  ASSUME InOrder(nat, go, acts, erred), go = "handler", ~erred,
         NEW n, n = nat \/ n = DrainRemaining,
         NEW a, IsAct(a), a.mode = "handler", a.nonleaf = Act.nonleaf, a.sig = Act.sig, a.addr = Act.addr,
         a.nonleaf /\ ~NoSignal(acts) => Spent(a),
         a.nonleaf \/ a.atEnd \/ a.iter = "after" \/ (~Act.atEnd /\ Act.iter # "after"),
         NEW s, s = SetAct(a)
  PROVE  InOrder(n, "handler", s, FALSE)
<1>1. acts # <<>> /\ IsCalls(acts, go)
  BY HandlerActs
<1>2. /\ IsMachine(n) /\ Kept(nat, n) /\ Paused(nat, n) /\ Placed(n, "handler") /\ OneAtATime(n, "handler", s)
  BY HandlerRests
<1>3. /\ Seeding(nat, go, acts) /\ Batching(nat, go, acts) /\ Placed(nat, go)
  BY Walks
<1>4. /\ IsCalls(s, "handler") /\ s # <<>> /\ Last(s) = a /\ Len(s) = Len(acts)
      /\ NoSignal(s) <=> NoSignal(acts)
      /\ \A i : Around(s, i) => Around(acts, i) /\ s[i] = acts[i]
      /\ s[Len(s)] = a
  <2>1. PICK q, g, h : q = acts /\ g = go /\ h = "handler"
    OBVIOUS
  <2>2. IsCalls(q, g) /\ q # <<>> /\ a.sig = Last(q).sig /\ Turned(q, a, s)
    BY <1>1, <2>1 DEF Turned, SetAct, Act
  <2>3. IsAct(a) /\ Stage(h, a)
    BY <2>1 DEF Stage
  <2>4. IsCalls(s, h) /\ s # <<>> /\ Last(s) = a /\ Len(s) = Len(q) /\ (NoSignal(s) <=> NoSignal(q))
        /\ (\A i : Around(s, i) => Around(q, i) /\ s[i] = q[i]) /\ s[Len(s)] = a
    BY ONLY <2>2, <2>3, Turning
  <2>. QED BY <2>1, <2>4
<1>5. Signalled(n, "handler", s)
  BY <1>4 DEF Signalled
<1>6. Seeding(n, "handler", s)
  BY <1>3, <1>4, LoneSeed DEF Seeding, Seedful, Around, Seedfree
<1>7. Batching(n, "handler", s)
  <2>1. ASSUME ~a.nonleaf, ~a.atEnd, a.iter # "after" PROVE n.phase = "value" /\ Owned(n, s)
    <3>1. nat.phase = "value" /\ Owned(nat, acts)
      BY <1>3, <2>1 DEF Batching, Act
    <3>2. nat.frames # <<>>
      BY <1>3, <3>1 DEF Placed
    <3>. QED BY <1>2, <1>4, <3>1, <3>2 DEF Owned, Place, Kept, Paused, Act
  <2>. QED BY <1>4, <2>1 DEF Batching
<1>. QED BY <1>2, <1>4, <1>5, <1>6, <1>7 DEF InOrder, Walking

(* ... with an error to report.                                            *)
LEMMA HandlerErrs ==
  ASSUME NEW n, IsMachine(n), IsCalls(acts, go), acts # <<>>,
         NEW a, IsAct(a), a.mode = "handler", a.sig = Act.sig, a.err, a.atEnd,
         a.iter = "after" \/ (a.nonleaf /\ Spent(a)),
         NEW s, s = SetAct(a)
  PROVE  InOrder(n, "handler", s, TRUE)
<1>1. IsCalls(s, "handler") /\ Last(s) = a
  <2>1. PICK q, g, h : q = acts /\ g = go /\ h = "handler"
    OBVIOUS
  <2>2. IsCalls(q, g) /\ q # <<>> /\ a.sig = Last(q).sig /\ Turned(q, a, s)
    BY <2>1 DEF Turned, SetAct, Act
  <2>3. IsAct(a) /\ Stage(h, a)
    BY <2>1 DEF Stage
  <2>4. IsCalls(s, h) /\ Last(s) = a
    BY ONLY <2>2, <2>3, Turning
  <2>. QED BY <2>1, <2>4
<1>. QED BY <1>1 DEF InOrder, Reporting

(***************************************************************************)
(* The drive                                                               *)
(***************************************************************************)
LEMMA ActTop ==
  ASSUME IsCalls(acts, go), acts # <<>>
  PROVE  IsAct(Act) /\ Act = acts[Len(acts)] /\ Len(acts) \in DOMAIN acts
         /\ IsSeq(acts) /\ (AnyBreak = None <=> NoSignal(acts))
BY Innermost, Pending DEF Act, IsCalls

LEMMA ResumeOrder ==
  ASSUME InOrder(nat, go, acts, erred), Resume
  PROVE  InOrder(nat, "native", acts, FALSE)
<1>1. go = "served" /\ ~(acts # <<>> /\ Stop(Act))
  BY DEF Resume
<1>2. /\ IsMachine(nat) /\ IsCalls(acts, go) /\ Placed(nat, go) /\ OneAtATime(nat, go, acts)
      /\ Signalled(nat, go, acts) /\ Seeding(nat, go, acts)
  BY <1>1, Unreported, Walks
<1>3. Placed(nat, "native") /\ nat.phase # "continue"
  BY <1>1, <1>2 DEF Placed
<1>4. OneAtATime(nat, "native", acts)
  BY <1>1, <1>2, <1>3 DEF OneAtATime, AtValue
<1>5. Signalled(nat, "native", acts)
  <2>1. SUFFICES ASSUME ~NoSignal(acts) PROVE Last(acts).mode = "drain"
    BY DEF Signalled
  <2>2. acts # <<>>
    BY <2>1, EmptySeq DEF NoSignal
  <2>3. AnyBreak # None
    BY <1>2, <2>1, <2>2, ActTop
  <2>. QED BY <1>1, <2>2, <2>3 DEF Stop, Reason, Act
<1>6. Seedfree(acts)
  BY <1>1, <1>2, LoneSeed
<1>7. Seeding(nat, "native", acts) /\ Batching(nat, "native", acts)
  BY <1>6 DEF Seeding, Seedfree, Seedful, Batching
<1>8. IsCalls(acts, "native")
  BY <1>1, <1>2 DEF IsCalls
<1>. QED BY <1>2, <1>3, <1>4, <1>5, <1>7, <1>8 DEF InOrder, Walking

(* The outermost drive returns.                                            *)
LEMMA RootOrder ==
  ASSUME InOrder(nat, go, acts, erred), go \in {"stopped", "failing"}, acts = <<>>, NEW e
  PROVE  InOrder(nat, "finished", acts, e)
BY DEF InOrder, IsCalls, Reporting

LEMMA ServeErrorOrder ==
  ASSUME InOrder(nat, go, acts, erred), ServeError
  PROVE  InOrder(nat, "failing", acts, TRUE)
BY DEF InOrder, IsCalls, Reporting, ServeError, Yielded

(* What a yield that is served leaves to its drive.                        *)
LEMMA Served ==
  ASSUME InOrder(nat, go, acts, erred), Serving
  PROVE  /\ go = "stopped" /\ nat.pend = "grow" /\ ~erred
         /\ IsMachine(nat) /\ IsCalls(acts, go) /\ Placed(nat, go) /\ OneAtATime(nat, go, acts)
         /\ Signalled(nat, go, acts) /\ Seeding(nat, go, acts)
         /\ nat.frames # <<>> /\ nat.target = Place(nat)
         /\ nat.phase \in {"value", "valueBegin", "close"}
         /\ IsSeq(acts) /\ (AnyBreak = None <=> NoSignal(acts))
         /\ Seedfree(acts)
<1>1. go = "stopped" /\ nat.pend = "grow" /\ ~(acts # <<>> /\ Stop(Act))
  BY DEF Serving, Yielded
<1>2. /\ ~erred /\ IsMachine(nat) /\ IsCalls(acts, go) /\ Placed(nat, go) /\ OneAtATime(nat, go, acts)
      /\ Signalled(nat, go, acts) /\ Seeding(nat, go, acts)
  BY <1>1, Unreported, Walks
<1>3. /\ nat.frames # <<>> /\ nat.target = Place(nat)
      /\ nat.phase \in {"value", "valueBegin", "close"}
  BY <1>1, <1>2 DEF Placed
<1>4. IsSeq(acts) /\ (AnyBreak = None <=> NoSignal(acts))
  BY <1>2, Pending DEF IsCalls
<1>5. Seedfree(acts)
  <2>1. SUFFICES ASSUME NEW i \in DOMAIN acts, Seedful(acts[i]) PROVE FALSE
    BY DEF Seedfree
  <2>2. i = Len(acts) /\ NoSignal(acts) /\ nat.phase = "valueBegin"
    BY <1>1, <1>2, <2>1 DEF Seeding, Seedful
  <2>3. acts # <<>> /\ Act = acts[i] /\ Owned(nat, acts)
    <3>1. Owned(nat, acts)
      BY <1>1, <1>2, <2>2 DEF OneAtATime
    <3>. QED BY <1>2, <2>2, <3>1, ActTop DEF Owned
  <2>4. Act.addr = nat.target /\ AnyBreak = None /\ Act.nonleaf /\ Act.mode = "seed"
    BY <1>3, <1>4, <2>1, <2>2, <2>3 DEF Owned, Act, Seedful
  <2>5. Reason(Act) = "element"
    BY <1>1, <2>2, <2>4 DEF Reason
  <2>. QED BY <1>1, <2>3, <2>4, <2>5 DEF Stop
<1>. QED BY <1>1, <1>2, <1>3, <1>4, <1>5

LEMMA ServeOwnOrder ==
  ASSUME InOrder(nat, go, acts, erred), ServeOwn, NEW m, m = nat'
  PROVE  InOrder(m, "served", acts, FALSE)
<1>1. Serving /\ acts # <<>> /\ Act.addr = nat.target /\ m = Reset(nat)
  BY DEF ServeOwn, Own
<1>2. /\ go = "stopped" /\ nat.pend = "grow"
      /\ IsMachine(nat) /\ IsCalls(acts, go) /\ Placed(nat, go) /\ OneAtATime(nat, go, acts)
      /\ Signalled(nat, go, acts)
      /\ nat.frames # <<>> /\ nat.target = Place(nat)
      /\ nat.phase \in {"value", "valueBegin", "close"}
      /\ Seedfree(acts)
  BY <1>1, Served
<1>3. /\ Kept(nat, m) /\ Paused(nat, m)
      /\ Last(m.frames).count = 0 /\ Last(m.frames).data
      /\ Last(m.frames).skip = Last(nat.frames).skip
  <2>1. PICK n : n = nat
    OBVIOUS
  <2>2. IsMachine(n) /\ n.frames # <<>> /\ m = Reset(n)
    BY <1>1, <1>2, <2>1
  <2>. QED BY <2>1, <2>2, ResetKeeps
<1>4. /\ IsMachine(m) /\ Placed(m, "served") /\ (Inner(m) <=> Inner(nat)) /\ m.phase = nat.phase
      /\ Place(m) = Place(nat)
  BY <1>2, <1>3, Rested
<1>5. Owned(m, acts)
  BY <1>1, <1>2, <1>4 DEF Owned, Act
<1>6. OneAtATime(m, "served", acts)
  BY <1>2, <1>3, <1>4, <1>5 DEF OneAtATime, AtValue
<1>7. Signalled(m, "served", acts)
  BY <1>2 DEF Signalled
<1>8. Seeding(m, "served", acts) /\ Batching(m, "served", acts)
  BY <1>2 DEF Seeding, Seedfree, Seedful, Batching
<1>9. IsCalls(acts, "served")
  BY <1>2 DEF IsCalls
<1>. QED BY <1>4, <1>6, <1>7, <1>8, <1>9 DEF InOrder, Walking

LEMMA ServeUnderBreakOrder ==
  ASSUME InOrder(nat, go, acts, erred), ServeUnderBreak, NEW m, m = nat'
  PROVE  InOrder(m, "served", acts, FALSE)
<1>1. Serving /\ m = Dropped(ArmDrain(nat), nat.target)
  BY DEF ServeUnderBreak, Foreign
<1>2. /\ IsMachine(nat) /\ IsCalls(acts, go) /\ Placed(nat, go) /\ OneAtATime(nat, go, acts)
      /\ Seedfree(acts) /\ go = "stopped" /\ nat.pend = "grow"
  BY <1>1, Served
<1>3. IsCalls(acts, "served")
  BY <1>2 DEF IsCalls
<1>. QED BY <1>1, <1>2, <1>3, LeavesArmed

(* An activation that cannot settle what is staged returns its error.      *)
LEMMA ActivateSettleFailsOrder ==
  ASSUME InOrder(nat, go, acts, erred), ActivateSettleFails, NEW m, m = nat'
  PROVE  InOrder(m, "failing", acts, TRUE)
<1>1. Serving /\ m = Dropped(nat, nat.target)
  BY DEF ActivateSettleFails, ReadyToActivate, Foreign
<1>2. IsMachine(nat) /\ IsCalls(acts, go) /\ go = "stopped"
  BY <1>1, Served
<1>3. IsMachine(m)
  BY <1>1, <1>2, DropKeeps DEF Kept
<1>4. IsCalls(acts, "failing")
  BY <1>2 DEF IsCalls
<1>. QED BY <1>3, <1>4 DEF InOrder, Reporting

(* The activation a yield makes.                                           *)
LEMMA Fresh ==
  ASSUME InOrder(nat, go, acts, erred), Foreign, AnyBreak = None
  PROVE  /\ nat.phase \in {"value", "close"}
         /\ Reason(NewAct) \in {"closed", "batch", "none"}
         /\ Reason(NewAct) = "closed" <=> nat.phase = "close"
         /\ Reason(NewAct) = "batch" => nat.phase = "value"
         /\ NewAct.addr = Place(nat) /\ NewAct.addr[2] = Level /\ NewAct.nonleaf = NonLeaf(Level)
         /\ NewAct.sig = None
         /\ IsAct(NewAct) /\ NewAct.iter = "before" /\ NewAct.cursor = 0
         /\ NonLeaf(Level) => Top.len \in {0, 1}
<1>1. Serving /\ ~(acts # <<>> /\ Act.addr = nat.target)
  BY DEF Foreign, Own
<1>2. /\ go = "stopped" /\ nat.pend = "grow"
      /\ IsMachine(nat) /\ OneAtATime(nat, go, acts)
      /\ nat.frames # <<>> /\ nat.target = Place(nat)
      /\ nat.phase \in {"value", "valueBegin", "close"}
  BY <1>1, Served
<1>3. nat.phase # "valueBegin"
  BY <1>1, <1>2 DEF OneAtATime, Owned, Act
<1>4. IsFrame(Top) /\ AtLevel(Top, Level)
  BY <1>2, WalkTop
<1>5. PICK a : a = NewAct
  OBVIOUS
<1>6. PICK t, p, nl, no : /\ t = nat.target /\ p = Top.path /\ nl = NonLeaf(Level) /\ no = FALSE
                          /\ a = [addr |-> t, path |-> p, nonleaf |-> nl, sig |-> None,
                                  mode |-> "handler", atEnd |-> no, skipRemaining |-> no, batch |-> 0,
                                  base |-> 0, cursor |-> 0, iter |-> "before", item |-> "none",
                                  got |-> None, err |-> no]
  BY <1>5 DEF NewAct
<1>7. a.addr = t /\ a.path = p /\ a.nonleaf = nl /\ a.sig = None
  BY <1>6
<1>10. IsAct(a) /\ a.iter = "before" /\ a.cursor = 0
  <2>1. nl = NonLeaf(a.addr[2])
    BY <1>2, <1>4, <1>6 DEF Place, AddrOf, Top, AtLevel
  <2>2. /\ a.addr = t /\ a.path = p /\ a.nonleaf = nl /\ a.sig = None /\ a.mode = "handler"
        /\ a.atEnd = no /\ a.skipRemaining = no /\ a.batch = 0 /\ a.base = 0 /\ a.cursor = 0
        /\ a.iter = "before" /\ a.item = "none" /\ a.got = None /\ a.err = no
    BY <1>6
  <2>. QED BY <1>6, <2>1, <2>2 DEF IsAct, Drives
<1>8. a.addr = Place(nat) /\ a.addr[2] = Level
  BY <1>2, <1>4, <1>6, <1>7 DEF Place, AddrOf, Top, AtLevel
<1>9. /\ Reason(a) \in {"closed", "batch", "none"}
      /\ Reason(a) = "closed" <=> nat.phase = "close"
      /\ Reason(a) = "batch" => nat.phase = "value"
  BY <1>2, <1>3, <1>6, <1>7 DEF Reason
<1>. QED BY <1>2, <1>3, <1>4, <1>5, <1>6, <1>7, <1>8, <1>9, <1>10 DEF AtLevel

(* Another activation.                                                     *)
LEMMA Activates ==
  ASSUME IsCalls(acts, go), go # "handler", Seedfree(acts), NoSignal(acts),
         NEW a, IsAct(a), a.sig = None, NEW h, Stage(h, a),
         NEW s, s = Append(acts, a)
  PROVE  /\ IsCalls(s, h) /\ s # <<>> /\ Last(s) = a /\ NoSignal(s)
         /\ \A i \in DOMAIN s : Seedful(s[i]) => i = Len(s) /\ Seedful(a)
<1>1. PICK q, g : q = acts /\ g = go
  OBVIOUS
<1>2. IsCalls(q, g) /\ g # "handler" /\ IsAct(a) /\ Stage(h, a) /\ s = Append(q, a)
  BY <1>1
<1>3. /\ IsCalls(s, h) /\ s # <<>> /\ Last(s) = a
      /\ NoSignal(q) /\ a.sig = None => NoSignal(s)
      /\ \A i : Around(s, i) => i \in DOMAIN q /\ s[i] = q[i]
      /\ s[Len(s)] = a
  BY ONLY <1>2, Activating
<1>. QED BY <1>1, <1>3 DEF Around, Seedfree

(* The first batch view.                                                   *)
LEMMA Seeds ==
  ASSUME NEW b, IsAct(b), NEW r, b.nonleaf => r = "element" \/ Top.len \in {0, 1},
         NEW a, a = Seeded(b, r)
  PROVE  /\ IsAct(a) /\ a.sig = b.sig /\ a.mode = "handler" /\ a.addr = b.addr /\ a.nonleaf = b.nonleaf
         /\ a.iter = b.iter /\ (a.atEnd <=> r \notin {"element", "batch"}) /\ a.cursor = b.cursor
         /\ r = "element" => a.batch = 1
<1>1. PICK e, l, p : /\ e \in BOOLEAN /\ (e <=> r \notin {"element", "batch"})
                     /\ l = (IF r = "element" THEN 1 ELSE Top.len)
                     /\ p = (IF r = "element" THEN Top.next - 1 ELSE Top.next - 1 - Top.len)
  OBVIOUS
<1>2. a = [b EXCEPT !.mode = "handler", !.atEnd = e, !.batch = l, !.base = p]
  <2>1. e = (r \notin {"element", "batch"})
    BY <1>1
  <2>. QED BY <1>1, <2>1, Zenon DEF Seeded
<1>3. a = [addr |-> b.addr, path |-> b.path, nonleaf |-> b.nonleaf, sig |-> b.sig, mode |-> "handler",
           atEnd |-> e, skipRemaining |-> b.skipRemaining, batch |-> l, base |-> p,
           cursor |-> b.cursor, iter |-> b.iter, item |-> b.item, got |-> b.got, err |-> b.err]
  BY <1>2 DEF IsAct
<1>4. /\ a.addr = b.addr /\ a.path = b.path /\ a.nonleaf = b.nonleaf /\ a.sig = b.sig
      /\ a.mode = "handler" /\ a.atEnd = e /\ a.skipRemaining = b.skipRemaining /\ a.batch = l
      /\ a.base = p /\ a.cursor = b.cursor /\ a.iter = b.iter /\ a.item = b.item
      /\ a.got = b.got /\ a.err = b.err
  BY ONLY <1>3
<1>5. b.nonleaf => l \in {0, 1}
  BY <1>1
<1>6. IsAct(a)
  BY ONLY <1>1, <1>3, <1>4, <1>5, IsAct(b) DEF IsAct, Drives
<1>. QED BY <1>1, <1>4, <1>6

LEMMA ServeFillOrder ==
  ASSUME InOrder(nat, go, acts, erred), ServeFill, NEW m, m = nat', NEW s, s = acts'
  PROVE  InOrder(m, "native", s, FALSE)
<1>1. Foreign /\ Serving /\ AnyBreak = None /\ ~Top.data /\ Reason(NewAct) # "closed" /\ m = Reset(nat)
      /\ s = Append(acts, [NewAct EXCEPT !.mode = "seed"])
  BY DEF ServeFill, Foreign
<1>2. /\ go = "stopped" /\ nat.pend = "grow"
      /\ IsMachine(nat) /\ IsCalls(acts, go) /\ Placed(nat, go) /\ OneAtATime(nat, go, acts)
      /\ nat.frames # <<>> /\ NoSignal(acts) /\ Seedfree(acts)
  BY <1>1, Served
<1>3. PICK b : b = NewAct
  OBVIOUS
<1>4. /\ nat.phase = "value"
      /\ b.addr = Place(nat) /\ b.addr[2] = Level /\ b.nonleaf = NonLeaf(Level) /\ b.sig = None
      /\ IsAct(b) /\ b.iter = "before" /\ b.cursor = 0
  BY <1>1, <1>3, Fresh
<1>5. PICK a : a = [b EXCEPT !.mode = "seed"]
  OBVIOUS
<1>6. IsAct(a) /\ a.sig = None /\ a.mode = "seed" /\ a.addr = b.addr /\ a.nonleaf = NonLeaf(Level)
  BY <1>4, <1>5 DEF IsAct, Drives
<1>7. /\ IsCalls(s, "native") /\ s # <<>> /\ Last(s) = a /\ NoSignal(s)
      /\ \A i \in DOMAIN s : Seedful(s[i]) => i = Len(s) /\ Seedful(a)
  <2>1. PICK h : h = "native"
    OBVIOUS
  <2>2. Stage(h, a) /\ s = Append(acts, a)
    BY <1>1, <1>3, <1>5, <1>6, <2>1 DEF Stage
  <2>3. go # "handler"
    BY <1>2
  <2>4. /\ IsCalls(s, h) /\ s # <<>> /\ Last(s) = a /\ NoSignal(s)
        /\ \A i \in DOMAIN s : Seedful(s[i]) => i = Len(s) /\ Seedful(a)
    BY ONLY <1>2, <1>6, <2>2, <2>3, Activates
  <2>. QED BY <2>1, <2>4
<1>8. /\ Kept(nat, m) /\ Paused(nat, m)
      /\ Last(m.frames).count = 0 /\ Last(m.frames).skip = Top.skip
  <2>1. PICK n : n = nat
    OBVIOUS
  <2>2. IsMachine(n) /\ n.frames # <<>> /\ m = Reset(n)
    BY <1>1, <1>2, <2>1
  <2>. QED BY <2>1, <2>2, ResetKeeps DEF Top
<1>9. /\ IsMachine(m) /\ Placed(m, "native") /\ (Inner(m) <=> Inner(nat)) /\ m.phase = "value"
      /\ Place(m) = Place(nat)
  BY <1>2, <1>4, <1>8, Rested
<1>10. Owned(m, s)
  BY <1>4, <1>6, <1>7, <1>9 DEF Owned
<1>11. OneAtATime(m, "native", s)
  BY <1>8, <1>9, <1>10 DEF OneAtATime, AtValue
<1>12. Signalled(m, "native", s) /\ Batching(m, "native", s)
  BY <1>7 DEF Signalled, Batching
<1>13. Inner(m) => ~Top.skip
  BY <1>1, <1>2, <1>4, <1>9 DEF OneAtATime, AtValue, Top
<1>14. Seeding(m, "native", s)
  BY <1>2, <1>6, <1>7, <1>8, <1>9, <1>10, <1>13 DEF Seeding, Seedful, Inner, Level
<1>. QED BY <1>7, <1>9, <1>11, <1>12, <1>14 DEF InOrder, Walking

LEMMA ServeActivateOrder ==
  ASSUME InOrder(nat, go, acts, erred), ServeActivate, NEW s, s = acts'
  PROVE  InOrder(nat, "handler", s, FALSE)
<1>1. /\ Foreign /\ Serving /\ AnyBreak = None /\ (Top.data \/ Reason(NewAct) = "closed")
      /\ s = Append(acts, Seeded(NewAct, Reason(NewAct)))
  BY DEF ServeActivate, ReadyToActivate, Foreign
<1>2. /\ go = "stopped" /\ nat.pend = "grow"
      /\ IsMachine(nat) /\ IsCalls(acts, go) /\ Placed(nat, go) /\ OneAtATime(nat, go, acts)
      /\ nat.frames # <<>> /\ NoSignal(acts) /\ Seedfree(acts)
  BY <1>1, Served
<1>3. PICK b, r : b = NewAct /\ r = Reason(NewAct)
  OBVIOUS
<1>4. /\ nat.phase \in {"value", "close"} /\ r \in {"closed", "batch", "none"}
      /\ r = "closed" <=> nat.phase = "close"
      /\ r = "batch" => nat.phase = "value"
      /\ b.addr = Place(nat) /\ b.addr[2] = Level /\ b.nonleaf = NonLeaf(Level) /\ b.sig = None
      /\ IsAct(b) /\ b.iter = "before" /\ b.cursor = 0
      /\ NonLeaf(Level) => Top.len \in {0, 1}
  BY <1>1, <1>3, Fresh
<1>5. PICK a : a = Seeded(b, r)
  OBVIOUS
<1>6. /\ IsAct(a) /\ a.sig = None /\ a.mode = "handler" /\ a.addr = b.addr /\ a.nonleaf = NonLeaf(Level)
      /\ a.iter = "before" /\ (a.atEnd <=> r \notin {"element", "batch"})
  <2>1. IsAct(b) /\ (b.nonleaf => r = "element" \/ Top.len \in {0, 1})
    BY <1>4
  <2>. QED BY <1>4, <1>5, <2>1, Seeds
<1>7. /\ IsCalls(s, "handler") /\ s # <<>> /\ Last(s) = a /\ NoSignal(s)
      /\ \A i \in DOMAIN s : Seedful(s[i]) => i = Len(s) /\ Seedful(a)
  <2>1. PICK h : h = "handler"
    OBVIOUS
  <2>2. Stage(h, a) /\ s = Append(acts, a)
    BY <1>1, <1>3, <1>5, <1>6, <2>1 DEF Stage
  <2>3. go # "handler"
    BY <1>2
  <2>4. /\ IsCalls(s, h) /\ s # <<>> /\ Last(s) = a /\ NoSignal(s)
        /\ \A i \in DOMAIN s : Seedful(s[i]) => i = Len(s) /\ Seedful(a)
    BY ONLY <1>2, <1>6, <2>2, <2>3, Activates
  <2>. QED BY <2>1, <2>4
<1>8. Placed(nat, "handler")
  BY <1>2 DEF Placed
<1>9. OneAtATime(nat, "handler", s)
  BY <1>1, <1>2, <1>3, <1>4 DEF OneAtATime, AtValue, Top
<1>10. Signalled(nat, "handler", s)
  BY <1>7 DEF Signalled
<1>11. Seeding(nat, "handler", s)
  BY <1>6, <1>7 DEF Seeding, Seedful
<1>12. Batching(nat, "handler", s)
  BY <1>4, <1>5, <1>6, <1>7 DEF Batching, Owned
<1>. QED BY <1>2, <1>7, <1>8, <1>9, <1>10, <1>11, <1>12 DEF InOrder, Walking

(* A drive that halts.                                                     *)
LEMMA Halting ==
  ASSUME InOrder(nat, go, acts, erred), Halted
  PROVE  /\ go \in {"stopped", "served"} /\ acts # <<>> /\ Stop(Act) /\ ~erred /\ nat.pend # "error"
         /\ IsMachine(nat) /\ IsCalls(acts, go) /\ Placed(nat, go) /\ OneAtATime(nat, go, acts)
         /\ Signalled(nat, go, acts) /\ Seeding(nat, go, acts)
         /\ nat.phase # "continue"
<1>1. go \in {"stopped", "served"} /\ acts # <<>> /\ Stop(Act)
  BY DEF Halted
<1>2. /\ ~erred /\ IsMachine(nat) /\ IsCalls(acts, go) /\ Placed(nat, go) /\ OneAtATime(nat, go, acts)
      /\ Signalled(nat, go, acts) /\ Seeding(nat, go, acts)
  BY <1>1, Unreported, Walks
<1>3. nat.pend # "error"
  <2>1. SUFFICES ASSUME nat.pend = "error" PROVE FALSE
    OBVIOUS
  <2>2. go = "stopped"
    BY <1>2, <2>1 DEF Placed
  <2>3. Act.mode # "drain"
    BY <1>1, <2>1 DEF Stop, DrainStop
  <2>4. AnyBreak = None
    BY <1>1, <1>2, <2>2, <2>3, ActTop DEF Signalled, Act
  <2>. QED BY <1>1, <2>1, <2>3, <2>4 DEF Stop, Reason
<1>4. nat.phase # "continue"
  BY <1>1, <1>2, <1>3 DEF Placed
<1>. QED BY <1>1, <1>2, <1>3, <1>4

(* The innermost activation changed, with no other.                        *)
LEMMA TurnsAct ==
  ASSUME IsCalls(acts, go), acts # <<>>, NEW a, IsAct(a), a.sig = Act.sig, NEW h, Stage(h, a),
         NEW s, s = SetAct(a)
  PROVE  /\ IsCalls(s, h) /\ s # <<>> /\ Last(s) = a /\ Len(s) = Len(acts)
         /\ NoSignal(s) <=> NoSignal(acts)
         /\ \A i : Around(s, i) => Around(acts, i) /\ s[i] = acts[i]
         /\ s[Len(s)] = a
<1>1. PICK q, g : q = acts /\ g = go
  OBVIOUS
<1>2. IsCalls(q, g) /\ q # <<>> /\ a.sig = Last(q).sig /\ Turned(q, a, s) /\ IsAct(a) /\ Stage(h, a)
  BY <1>1 DEF Turned, SetAct, Act
<1>3. IsCalls(s, h) /\ s # <<>> /\ Last(s) = a /\ Len(s) = Len(q) /\ (NoSignal(s) <=> NoSignal(q))
      /\ (\A i : Around(s, i) => Around(q, i) /\ s[i] = q[i]) /\ s[Len(s)] = a
  BY ONLY <1>2, Turning
<1>. QED BY <1>1, <1>3

(* A place in the document, at its level.                                  *)
LEMMA Levels ==
  ASSUME NEW n, IsMachine(n), n.frames # <<>>
  PROVE  Place(n)[2] = Len(n.frames)
BY TopFrame DEF Place, AddrOf, AtLevel

(* Where a halted drive leaves the machine.                                *)
LEMMA HaltsAt ==
  ASSUME InOrder(nat, go, acts, erred), Halted, Act.mode # "drain"
  PROVE  /\ \A s : OneAtATime(nat, "handler", s)
         /\ Reason(Act) = "batch" => nat.phase = "value" /\ Act.addr = Place(nat)
<1>1. /\ go \in {"stopped", "served"} /\ acts # <<>> /\ Stop(Act) /\ ~erred /\ nat.pend # "error"
      /\ IsMachine(nat) /\ IsCalls(acts, go) /\ Placed(nat, go) /\ OneAtATime(nat, go, acts)
      /\ Signalled(nat, go, acts) /\ nat.phase # "continue"
  BY Halting
<1>2. IsAct(Act) /\ (AnyBreak = None <=> NoSignal(acts))
  BY <1>1, ActTop
<1>3. Reason(Act) # "none"
  BY <1>1 DEF Stop
<1>4. ASSUME nat.phase = "value" PROVE nat.pend = "grow" /\ nat.frames # <<>> /\ nat.target = Place(nat)
  BY <1>1, <1>4 DEF Placed
<1>5. Reason(Act) = "batch" => nat.phase = "value" /\ ~Act.nonleaf /\ Act.addr = nat.target
  <2>1. CASE AnyBreak # None \/ nat.pend # "grow" \/ nat.target # Act.addr
    <3>1. Reason(Act) \in {"break", "done", "none"}
      BY <1>1, <2>1 DEF Reason, Placed
    <3>. QED BY <3>1
  <2>2. CASE AnyBreak = None /\ nat.pend = "grow" /\ nat.target = Act.addr
    BY <2>2 DEF Reason
  <2>. QED BY <2>1, <2>2
<1>6. ASSUME nat.phase = "value", Inner(nat), NEW own PROVE AtValue(Last(nat.frames), "handler", own)
  <2>1. CASE NoSignal(acts)
    <3>1. AnyBreak = None /\ nat.pend = "grow" /\ nat.target = Place(nat) /\ nat.frames # <<>>
      BY <1>2, <1>4, <1>6, <2>1
    <3>2. Reason(Act) = "batch" /\ Act.addr = nat.target /\ ~Act.nonleaf
      BY <1>3, <1>6, <3>1 DEF Reason
    <3>3. Act.addr[2] = Len(nat.frames)
      BY <1>1, <3>1, <3>2, Levels
    <3>. QED BY <1>2, <1>6, <3>2, <3>3 DEF IsAct, Inner
  <2>2. CASE ~NoSignal(acts)
    BY <1>1, <1>6, <2>2 DEF Signalled, AtValue, Armed, Act
  <2>. QED BY <2>1, <2>2
<1>7. \A s : OneAtATime(nat, "handler", s)
  <2>1. nat.phase = "valueBegin" => Inner(nat) /\ Last(nat.frames).count = 0
    BY <1>1 DEF OneAtATime
  <2>. QED BY <1>1, <1>6, <2>1 DEF OneAtATime
<1>. QED BY <1>4, <1>5, <1>7

(* A batch, an element or the end is handed to the handler.                *)
LEMMA HandsOver ==
  ASSUME InOrder(nat, go, acts, erred), Halted, Act.mode # "drain",
         NEW a, IsAct(a), a.mode = "handler", a.nonleaf = Act.nonleaf, a.sig = Act.sig, a.addr = Act.addr,
         a.nonleaf /\ ~NoSignal(acts) => Spent(a),
         a.nonleaf \/ a.atEnd \/ a.iter = "after" \/ Reason(Act) = "batch",
         NEW s, s = SetAct(a)
  PROVE  InOrder(nat, "handler", s, FALSE)
<1>1. /\ go \in {"stopped", "served"} /\ acts # <<>> /\ nat.pend # "error"
      /\ IsMachine(nat) /\ IsCalls(acts, go) /\ Placed(nat, go) /\ Seeding(nat, go, acts)
  BY Halting
<1>2. /\ IsCalls(s, "handler") /\ s # <<>> /\ Last(s) = a /\ Len(s) = Len(acts)
      /\ NoSignal(s) <=> NoSignal(acts)
      /\ \A i : Around(s, i) => Around(acts, i) /\ s[i] = acts[i]
      /\ s[Len(s)] = a
  <2>1. PICK h : h = "handler"
    OBVIOUS
  <2>2. Stage(h, a)
    BY <2>1 DEF Stage
  <2>. QED BY <1>1, <2>1, <2>2, TurnsAct
<1>3. OneAtATime(nat, "handler", s)
  BY HaltsAt
<1>4. Placed(nat, "handler")
  BY <1>1 DEF Placed
<1>5. Signalled(nat, "handler", s)
  BY <1>2 DEF Signalled
<1>6. Seeding(nat, "handler", s)
  BY <1>1, <1>2, LoneSeed DEF Seeding, Seedful, Around, Seedfree
<1>7. Batching(nat, "handler", s)
  BY <1>2, HaltsAt DEF Batching, Owned
<1>. QED BY <1>1, <1>2, <1>3, <1>4, <1>5, <1>6, <1>7 DEF InOrder, Walking

LEMMA SeedDoneOrder ==
  ASSUME InOrder(nat, go, acts, erred), SeedDone, NEW s, s = acts'
  PROVE  InOrder(nat, "handler", s, FALSE)
<1>1. Halted /\ Act.mode = "seed" /\ s = SetAct(Seeded(Act, Reason(Act)))
  BY DEF SeedDone
<1>2. /\ go \in {"stopped", "served"} /\ acts # <<>> /\ IsMachine(nat) /\ IsCalls(acts, go) /\ Placed(nat, go)
      /\ OneAtATime(nat, go, acts) /\ Seeding(nat, go, acts)
  BY <1>1, Halting
<1>3. IsAct(Act) /\ Act = acts[Len(acts)] /\ Len(acts) \in DOMAIN acts /\ (AnyBreak = None <=> NoSignal(acts))
  BY <1>2, ActTop
<1>4. Act.nonleaf => Reason(Act) = "element" /\ NoSignal(acts)
  <2>1. SUFFICES ASSUME Act.nonleaf PROVE Reason(Act) = "element" /\ NoSignal(acts)
    OBVIOUS
  <2>2. NoSignal(acts) /\ go = "stopped" /\ nat.phase = "valueBegin"
    BY <1>1, <1>2, <1>3, <2>1 DEF Seeding
  <2>3. Act.addr = Place(nat)
    BY <1>2, <2>2 DEF OneAtATime, Owned, Act
  <2>4. nat.pend = "grow" /\ nat.target = Place(nat)
    BY <1>2, <2>2, <1>1, Halting DEF Placed
  <2>. QED BY <1>3, <2>1, <2>2, <2>3, <2>4 DEF Reason
<1>5. PICK b, r, a : b = Act /\ r = Reason(Act) /\ a = Seeded(b, r)
  OBVIOUS
<1>6. /\ IsAct(a) /\ a.sig = b.sig /\ a.mode = "handler" /\ a.addr = b.addr /\ a.nonleaf = b.nonleaf
      /\ (a.atEnd <=> r \notin {"element", "batch"})
  BY <1>3, <1>4, <1>5, Seeds
<1>7. a.nonleaf \/ a.atEnd \/ Reason(Act) = "batch"
  <2>1. ~Act.nonleaf => Reason(Act) # "element"
    <3>1. nat.pend \in {"grow", "none", "error"}
      BY <1>2 DEF Placed
    <3>. QED BY <3>1 DEF Reason
  <2>. QED BY <1>5, <1>6, <2>1
<1>. QED BY <1>1, <1>4, <1>5, <1>6, <1>7, HandsOver

LEMMA BatchDoneOrder ==
  ASSUME InOrder(nat, go, acts, erred), BatchDone, NEW s, s = acts'
  PROVE  InOrder(nat, "handler", s, FALSE)
<1>1. Halted /\ Act.mode = "next"
  BY DEF BatchDone
<1>2. IsAct(Act) /\ ~Act.nonleaf
  BY <1>1, Halting, ActTop DEF IsAct
<1>3. PICK b, r, l, p : /\ b = Act /\ r = Reason(Act) /\ l = Top.len /\ p = Top.next - 1 - Top.len
  OBVIOUS
<1>4. PICK e \in BOOLEAN : e <=> (b.atEnd \/ r = "closed")
  OBVIOUS
<1>5. PICK a : /\ s = SetAct(a)
               /\ \/ a = [b EXCEPT !.mode = "handler", !.atEnd = e, !.batch = l, !.cursor = 0, !.base = p]
                     /\ r \in {"batch", "closed"}
                  \/ a = [b EXCEPT !.mode = "handler", !.atEnd = e, !.iter = "after", !.item = "none"]
  <2>1. e = (b.atEnd \/ r = "closed")
    BY <1>2, <1>3, <1>4 DEF IsAct
  <2>2. PICK c : c = [b EXCEPT !.mode = "handler", !.atEnd = e]
    OBVIOUS
  <2>3. \/ s = SetAct([c EXCEPT !.batch = l, !.cursor = 0, !.base = p]) /\ r \in {"batch", "closed"}
        \/ s = SetAct([c EXCEPT !.iter = "after", !.item = "none"])
    <3>1. c = [b EXCEPT !.mode = "handler", !.atEnd = @ \/ r = "closed"]
      BY <1>2, <1>3, <2>1, <2>2 DEF IsAct
    <3>. QED BY <1>3, <3>1 DEF BatchDone
  <2>4. b = [addr |-> b.addr, path |-> b.path, nonleaf |-> b.nonleaf, sig |-> b.sig, mode |-> b.mode,
          atEnd |-> b.atEnd, skipRemaining |-> b.skipRemaining, batch |-> b.batch, base |-> b.base,
          cursor |-> b.cursor, iter |-> b.iter, item |-> b.item, got |-> b.got, err |-> b.err]
    BY <1>2, <1>3 DEF IsAct
  <2>5. [c EXCEPT !.batch = l, !.cursor = 0, !.base = p]
          = [b EXCEPT !.mode = "handler", !.atEnd = e, !.batch = l, !.cursor = 0, !.base = p]
    BY <2>2, <2>4
  <2>6. [c EXCEPT !.iter = "after", !.item = "none"]
          = [b EXCEPT !.mode = "handler", !.atEnd = e, !.iter = "after", !.item = "none"]
    BY <2>2, <2>4
  <2>. QED BY <2>3, <2>5, <2>6
<1>6. /\ IsAct(a) /\ a.mode = "handler" /\ a.nonleaf = Act.nonleaf /\ a.sig = Act.sig /\ a.addr = Act.addr
      /\ a.iter = "after" \/ (a.atEnd = e /\ r \in {"batch", "closed"})
  <2>1. IsAct(b) /\ ~b.nonleaf
    BY <1>2, <1>3
  <2>2. CASE /\ a = [b EXCEPT !.mode = "handler", !.atEnd = e, !.batch = l, !.cursor = 0, !.base = p]
             /\ r \in {"batch", "closed"}
    BY ONLY <1>3, <1>4, <2>1, <2>2 DEF IsAct, Drives
  <2>3. CASE a = [b EXCEPT !.mode = "handler", !.atEnd = e, !.iter = "after", !.item = "none"]
    BY ONLY <1>3, <1>4, <2>1, <2>3 DEF IsAct, Drives
  <2>. QED BY <1>5, <2>2, <2>3
<1>7. a.atEnd \/ a.iter = "after" \/ Reason(Act) = "batch"
  BY <1>3, <1>4, <1>6
<1>. QED BY <1>1, <1>2, <1>5, <1>6, <1>7, HandsOver

LEMMA DecodeDoneOrder ==
  ASSUME InOrder(nat, go, acts, erred), DecodeDone, NEW s, s = acts'
  PROVE  InOrder(nat, "handler", s, FALSE)
<1>1. Halted /\ Act.mode = "decode"
  BY DEF DecodeDone
<1>2. IsAct(Act)
  BY <1>1, Halting, ActTop
<1>3. PICK b, w : b = Act /\ w = AnyBreak
  OBVIOUS
<1>4. PICK e \in BOOLEAN : e <=> (b.atEnd \/ Reason(Act) # "element")
  OBVIOUS
<1>5. PICK a : a = [b EXCEPT !.mode = "handler", !.got = w, !.atEnd = e] /\ s = SetAct(a)
  <2>1. e = (b.atEnd \/ Reason(Act) # "element")
    BY <1>2, <1>3, <1>4 DEF IsAct
  <2>2. s = SetAct([b EXCEPT !.mode = "handler", !.got = w, !.atEnd = @ \/ Reason(b) # "element"])
    BY <1>3, Zenon DEF DecodeDone
  <2>. QED BY <1>2, <1>3, <2>1, <2>2 DEF IsAct
<1>6. /\ b.nonleaf /\ b.iter = "loop" /\ b.item = "used" /\ b.cursor = 1 /\ b.batch \in {0, 1}
  BY <1>1, <1>2, <1>3 DEF IsAct
<1>7. /\ IsAct(a) /\ a.mode = "handler" /\ a.nonleaf = b.nonleaf /\ a.sig = b.sig /\ a.addr = b.addr
      /\ a.iter = b.iter /\ a.item = b.item /\ a.cursor = b.cursor /\ a.batch = b.batch
  BY <1>2, <1>3, <1>5 DEF IsAct, Drives
<1>8. Spent(a)
  BY <1>6, <1>7 DEF Spent
<1>. QED BY <1>1, <1>3, <1>5, <1>6, <1>7, <1>8, HandsOver

(* The activations around one that ends.                                   *)
LEMMA ReturnsAct ==
  ASSUME IsCalls(acts, go), acts # <<>>, Seeding(nat, go, acts), NEW s, s = Front(acts)
  PROVE  IsCalls(s, "served") /\ Seedfree(s)
<1>1. PICK q, g : q = acts /\ g = go
  OBVIOUS
<1>2. /\ IsCalls(s, "served")
      /\ \A i \in DOMAIN s : Around(q, i) /\ s[i] = q[i]
  <2>1. "served" # "handler" /\ IsCalls(q, g) /\ q # <<>> /\ s = Front(q)
    BY <1>1
  <2>. QED BY ONLY <2>1, Returning
<1>. QED BY <1>1, <1>2, LoneSeed DEF Seedfree

LEMMA StashesAct ==
  ASSUME IsCalls(acts, go), acts # <<>>, Seeding(nat, go, acts), NEW x, NEW s, s = Front(Stash(acts, x))
  PROVE  IsCalls(s, "served") /\ Seedfree(s)
<1>1. PICK q, g, r : q = acts /\ g = go /\ r = Stash(q, x)
  OBVIOUS
<1>2. /\ IsCalls(r, g) /\ r # <<>>
      /\ \A i : Around(r, i) => Around(q, i) /\ r[i].mode = q[i].mode /\ r[i].nonleaf = q[i].nonleaf
  <2>1. IsCalls(q, g) /\ q # <<>>
    BY <1>1
  <2>. QED BY ONLY <1>1, <2>1, Stashing
<1>3. /\ IsCalls(s, "served")
      /\ \A i \in DOMAIN s : Around(r, i) /\ s[i] = r[i]
  <2>1. "served" # "handler" /\ IsCalls(r, g) /\ r # <<>> /\ s = Front(r)
    BY <1>1, <1>2
  <2>. QED BY ONLY <2>1, Returning
<1>. QED BY <1>1, <1>2, <1>3, LoneSeed DEF Seedfree, Seedful

LEMMA DrainDoneOrder ==
  ASSUME InOrder(nat, go, acts, erred), DrainDone, NEW m, m = nat', NEW s, s = acts'
  PROVE  InOrder(m, "served", s, FALSE)
<1>1. Halted /\ m = Dropped(ArmDrain(nat), Act.addr) /\ s = Front(acts)
  BY DEF DrainDone
<1>2. /\ go # "native" /\ acts # <<>> /\ nat.pend # "error"
      /\ IsMachine(nat) /\ IsCalls(acts, go) /\ Placed(nat, go) /\ OneAtATime(nat, go, acts)
      /\ Seeding(nat, go, acts)
  BY <1>1, Halting
<1>3. IsCalls(s, "served") /\ Seedfree(s)
  BY <1>1, <1>2, ReturnsAct
<1>. QED BY <1>1, <1>2, <1>3, LeavesArmed

(* A drive or a settle that fails.                                         *)
LEMMA FailNextOrder ==
  ASSUME InOrder(nat, go, acts, erred), acts # <<>>, FailNext, NEW s, s = acts'
  PROVE  InOrder(nat, "handler", s, TRUE)
<1>1. IsMachine(nat) /\ IsCalls(acts, go)
  BY DEF InOrder
<1>2. IsAct(Act) /\ Act.mode = "next"
  BY <1>1, ActTop DEF FailNext
<1>3. PICK b, a, yes : /\ b = Act /\ s = SetAct(a) /\ yes = TRUE
                       /\ a = [[b EXCEPT !.mode = "handler", !.err = yes, !.atEnd = yes]
                                 EXCEPT !.iter = "after", !.item = "none"]
  BY DEF FailNext, Failed
<1>4. IsAct(a) /\ a.mode = "handler" /\ a.sig = b.sig /\ a.err /\ a.atEnd /\ a.iter = "after"
  BY <1>2, <1>3 DEF IsAct, Drives
<1>. QED BY <1>1, <1>3, <1>4, HandlerErrs

LEMMA DecodeFailsOrder ==
  ASSUME InOrder(nat, go, acts, erred), acts # <<>>, Act.mode = "decode",
         NEW s, s = SetAct([Failed EXCEPT !.got = Err])
  PROVE  InOrder(nat, "handler", s, TRUE)
<1>1. IsMachine(nat) /\ IsCalls(acts, go)
  BY DEF InOrder
<1>2. IsAct(Act)
  BY <1>1, ActTop
<1>3. PICK b, yes, w : b = Act /\ yes = TRUE /\ w = Err
  OBVIOUS
<1>7. PICK a : s = SetAct(a) /\ a = [[b EXCEPT !.mode = "handler", !.err = yes, !.atEnd = yes]
                                      EXCEPT !.got = w]
  BY <1>3, Zenon DEF Failed
<1>4. b.nonleaf /\ b.iter = "loop" /\ b.item = "used" /\ b.cursor = 1 /\ b.batch \in {0, 1}
  BY <1>2, <1>3 DEF IsAct
<1>5. /\ IsAct(a) /\ a.mode = "handler" /\ a.sig = b.sig /\ a.err /\ a.atEnd /\ a.nonleaf = b.nonleaf
      /\ a.iter = b.iter /\ a.item = b.item /\ a.cursor = b.cursor /\ a.batch = b.batch
  BY <1>2, <1>3, <1>7 DEF IsAct, Drives
<1>6. a.nonleaf /\ Spent(a)
  BY <1>4, <1>5 DEF Spent
<1>. QED BY <1>1, <1>3, <1>5, <1>6, <1>7, HandlerErrs

(* What the outermost drive returns.                                       *)
Returned(g, r, e, st) == g = "finished" => (r = "error" <=> e \/ st)

(* With no error, or with one.                                             *)
LEMMA Unerred ==
  ASSUME NEW n, NEW g, NEW s, NEW e, InOrder(n, g, s, FALSE), ~e
  PROVE  InOrder(n, g, s, e)
BY DEF InOrder

LEMMA Erred ==
  ASSUME NEW n, NEW g, NEW s, NEW e, InOrder(n, g, s, TRUE), e
  PROVE  InOrder(n, g, s, e)
BY DEF InOrder

(* Every step of the drive.                                                *)
LEMMA DriveOrder ==
  ASSUME InOrder(nat, go, acts, erred), Drive, NEW m, m = nat', NEW s, s = acts'
  PROVE  InOrder(m, go', s, erred') /\ doc' = doc /\ Returned(go', result', erred', staged')
<1>1. IsMachine(nat) /\ IsCalls(acts, go)
  BY DEF InOrder
<1>2. CASE Resume
  <2>1. go = "served" /\ m = nat /\ s = acts /\ go' = "native" /\ erred' = erred /\ doc' = doc
    BY <1>2 DEF Resume, hist
  <2>2. ~erred'
    BY <2>1, Unreported
  <2>. QED BY <1>2, <2>1, <2>2, ResumeOrder, Unerred DEF Returned
<1>3. CASE Root
  <2>1. /\ go = "stopped" /\ acts = <<>> /\ m = nat /\ s = acts /\ go' = "finished" /\ doc' = doc
        /\ staged' = staged /\ erred' = (erred \/ staged) /\ result' = IF staged THEN "error" ELSE "ok"
    BY <1>3 DEF Root
  <2>2. ~erred
    BY <2>1, Unreported
  <2>3. InOrder(m, go', s, erred')
    BY <2>1, RootOrder
  <2>. QED BY <2>1, <2>2, <2>3 DEF Returned
<1>4. CASE RootFails
  <2>1. /\ go = "failing" /\ acts = <<>> /\ m = nat /\ s = acts /\ go' = "finished" /\ doc' = doc
        /\ erred' = erred /\ result' = "error"
    BY <1>4 DEF RootFails
  <2>2. erred
    BY <2>1 DEF InOrder
  <2>3. InOrder(m, go', s, erred')
    BY <2>1, RootOrder
  <2>. QED BY <2>1, <2>2, <2>3 DEF Returned
<1>5. CASE ServeError
  <2>1. m = nat /\ s = acts /\ go' = "failing" /\ erred' /\ doc' = doc
    BY <1>5 DEF ServeError
  <2>. QED BY <1>5, <2>1, ServeErrorOrder, Erred DEF Returned
<1>6. CASE ServeOwn
  <2>1. s = acts /\ go' = "served" /\ erred' = erred /\ doc' = doc /\ Serving
    BY <1>6 DEF ServeOwn, hist
  <2>2. ~erred'
    BY <2>1, Served
  <2>. QED BY <1>6, <2>1, <2>2, ServeOwnOrder, Unerred DEF Returned
<1>7. CASE ServeUnderBreak
  <2>1. s = acts /\ go' = "served" /\ erred' = erred /\ doc' = doc /\ Serving
    BY <1>7 DEF ServeUnderBreak, Foreign, hist
  <2>2. ~erred'
    BY <2>1, Served
  <2>. QED BY <1>7, <2>1, <2>2, ServeUnderBreakOrder, Unerred DEF Returned
<1>8. CASE ServeFill
  <2>1. go' = "native" /\ erred' = erred /\ doc' = doc /\ Serving
    BY <1>8 DEF ServeFill, Foreign, hist
  <2>2. ~erred'
    BY <2>1, Served
  <2>. QED BY <1>8, <2>1, <2>2, ServeFillOrder, Unerred DEF Returned
<1>9. CASE ServeActivate
  <2>1. m = nat /\ go' = "handler" /\ erred' = erred /\ doc' = doc /\ Serving
    BY <1>9 DEF ServeActivate, ReadyToActivate, Foreign, hist
  <2>2. ~erred'
    BY <2>1, Served
  <2>. QED BY <1>9, <2>1, <2>2, ServeActivateOrder, Unerred DEF Returned
<1>10. CASE SeedDone
  <2>1. m = nat /\ go' = "handler" /\ erred' = erred /\ doc' = doc /\ Halted
    BY <1>10 DEF SeedDone, hist
  <2>2. ~erred'
    BY <2>1, Halting
  <2>. QED BY <1>10, <2>1, <2>2, SeedDoneOrder, Unerred DEF Returned
<1>11. CASE BatchDone
  <2>1. m = nat /\ go' = "handler" /\ erred' = erred /\ doc' = doc /\ Halted
    BY <1>11 DEF BatchDone, hist
  <2>2. ~erred'
    BY <2>1, Halting
  <2>. QED BY <1>11, <2>1, <2>2, BatchDoneOrder, Unerred DEF Returned
<1>12. CASE DecodeDone
  <2>1. m = nat /\ go' = "handler" /\ erred' = erred /\ doc' = doc /\ Halted
    BY <1>12 DEF DecodeDone, hist
  <2>2. ~erred'
    BY <2>1, Halting
  <2>. QED BY <1>12, <2>1, <2>2, DecodeDoneOrder, Unerred DEF Returned
<1>13. CASE DrainDone
  <2>1. go' = "served" /\ erred' = erred /\ doc' = doc /\ Halted
    BY <1>13 DEF DrainDone, hist
  <2>2. ~erred'
    BY <2>1, Halting
  <2>. QED BY <1>13, <2>1, <2>2, DrainDoneOrder, Unerred DEF Returned
<1>14. CASE SeedSettleFails \/ FailDrive
  <2>1. Unwind(nat) /\ doc' = doc /\ acts # <<>>
    BY <1>14 DEF SeedSettleFails, FailDrive, Halted
  <2>2. go' # "finished"
    BY <2>1 DEF Unwind
  <2>3. PICK n : n = nat
    OBVIOUS
  <2>4. InOrder(m, go', s, erred')
    BY <1>1, <2>1, <2>3, Unwinds
  <2>. QED BY <2>1, <2>2, <2>4 DEF Returned
<1>15. CASE NextSettleFails \/ NextFails
  <2>1. FailNext /\ acts # <<>>
    BY <1>15 DEF NextSettleFails, NextFails, Halted
  <2>2. m = nat /\ go' = "handler" /\ erred' /\ doc' = doc
    BY <2>1 DEF FailNext
  <2>. QED BY <2>1, <2>2, FailNextOrder, Erred DEF Returned
<1>16. CASE DecodeFails
  <2>1. m = nat /\ go = "failing" /\ go' = "handler" /\ erred' = erred /\ doc' = doc
    BY <1>16 DEF DecodeFails, hist
  <2>3. acts # <<>> /\ Act.mode = "decode" /\ s = SetAct([Failed EXCEPT !.got = Err])
    BY <1>16 DEF DecodeFails
  <2>2. erred'
    BY <2>1 DEF InOrder
  <2>. QED BY <2>1, <2>2, <2>3, DecodeFailsOrder, Erred DEF Returned
<1>17. CASE DecodeSettleFails
  <2>1. m = nat /\ go' = "handler" /\ erred' /\ doc' = doc
    BY <1>17 DEF DecodeSettleFails
  <2>2. acts # <<>> /\ Act.mode = "decode" /\ s = SetAct([Failed EXCEPT !.got = Err])
    BY <1>17 DEF DecodeSettleFails, Halted
  <2>. QED BY <2>1, <2>2, DecodeFailsOrder, Erred DEF Returned
<1>18. CASE ActivateSettleFails
  <2>1. s = acts /\ go' = "failing" /\ erred' /\ doc' = doc
    BY <1>18 DEF ActivateSettleFails
  <2>. QED BY <1>18, <2>1, ActivateSettleFailsOrder, Erred DEF Returned
<1>. QED BY <1>2, <1>3, <1>4, <1>5, <1>6, <1>7, <1>8, <1>9, <1>10, <1>11, <1>12, <1>13, <1>14,
         <1>15, <1>16, <1>17, <1>18 DEF Drive

(***************************************************************************)
(* The handler                                                             *)
(***************************************************************************)
LEMMA NoError ==
  ASSUME InOrder(nat, go, acts, erred), go = "handler", ~Act.err
  PROVE  ~erred
BY HandlerActs

(* The walk runs on from a handler.                                        *)
LEMMA RunsAgain ==
  ASSUME NEW n, IsMachine(n), Placed(n, "handler"), n.pend # "error", n.phase # "continue",
         NEW t, OneAtATime(n, "handler", t),
         NEW s, IsCalls(s, "native"), s # <<>>, Seedfree(s), NoSignal(s) \/ Last(s).mode = "drain"
  PROVE  InOrder(n, "native", s, FALSE)
<1>1. Placed(n, "native")
  BY DEF Placed
<1>2. OneAtATime(n, "native", s)
  BY DEF OneAtATime, AtValue, Armed
<1>3. Signalled(n, "native", s) /\ Seeding(n, "native", s) /\ Batching(n, "native", s)
  BY DEF Signalled, Seeding, Seedfree, Seedful, Batching
<1>. QED BY <1>1, <1>2, <1>3 DEF InOrder, Walking

LEMMA ExitNilOrder ==
  ASSUME InOrder(nat, go, acts, erred), go = "handler", NEW n, n = nat \/ n = DrainRemaining,
         ExitNil(n), NEW m, m = nat', NEW s, s = acts'
  PROVE  InOrder(m, go', s, erred') /\ go' # "finished"
<1>1. acts # <<>> /\ IsAct(Act) /\ Act.mode = "handler" /\ IsCalls(acts, go)
  BY HandlerActs
<1>2. /\ IsMachine(n)
      /\ ~erred => /\ Placed(n, "handler") /\ n.pend # "error" /\ n.phase # "continue"
                   /\ \A t : OneAtATime(n, "handler", t)
  BY HandlerRests
<1>3. CASE ~Act.err /\ AtOwnClose(n)
  <2>1. m = Dropped(n, Act.addr) /\ s = Front(acts) /\ go' = "served" /\ erred' = erred /\ n.phase = "close"
    BY <1>3 DEF ExitNil, AtOwnClose
  <2>2. ~erred /\ Seeding(nat, go, acts)
    BY <1>3, NoError, Walks
  <2>3. IsCalls(s, "served") /\ Seedfree(s)
    BY <1>1, <2>1, <2>2, ReturnsAct
  <2>4. Kept(n, m) /\ Paused(n, m)
    BY <1>2, <2>1, DropKeeps
  <2>5. PICK g, t : g = "handler" /\ OneAtATime(n, g, t) /\ Placed(n, g) /\ g # "native"
    BY <1>2, <2>2
  <2>6. /\ n.phase = "valueBegin" /\ n.frames # <<>> => Last(m.frames).count = Last(n.frames).count
        /\ n.phase = "value" /\ n.frames # <<>> => Armed(Last(m.frames))
    BY <2>1
  <2>7. IsMachine(n) /\ n.pend # "error"
    BY <1>2, <2>2
  <2>8. InOrder(m, "served", s, FALSE)
    BY ONLY <2>3, <2>4, <2>5, <2>6, <2>7, Leaves
  <2>. QED BY <2>1, <2>2, <2>8, Unerred
<1>4. CASE ~Act.err /\ ~AtOwnClose(n)
  <2>1. /\ m = n /\ s = SetAct([Act EXCEPT !.mode = "drain", !.item = "none"]) /\ go' = "native"
        /\ erred' = erred
    BY <1>4 DEF ExitNil
  <2>2. ~erred /\ Seeding(nat, go, acts)
    BY <1>4, NoError, Walks
  <2>3. PICK a, b, h : a = [b EXCEPT !.mode = "drain", !.item = "none"] /\ b = Act /\ h = "native"
    OBVIOUS
  <2>4. IsAct(a) /\ a.sig = b.sig /\ a.mode = "drain"
    BY <1>1, <2>3 DEF IsAct, Drives
  <2>5. IsCalls(acts, go) /\ acts # <<>> /\ IsAct(a) /\ a.sig = Act.sig /\ Stage(h, a) /\ s = SetAct(a)
    BY <1>1, <2>1, <2>3, <2>4 DEF Stage
  <2>6. /\ IsCalls(s, h) /\ s # <<>> /\ Last(s) = a /\ Len(s) = Len(acts)
        /\ \A i : Around(s, i) => Around(acts, i) /\ s[i] = acts[i]
        /\ s[Len(s)] = a
    BY ONLY <2>5, TurnsAct
  <2>7. Seedfree(s)
    BY <2>2, <2>4, <2>6, LoneSeed DEF Seedfree, Seedful, Around
  <2>8. InOrder(n, "native", s, FALSE)
    BY <1>2, <2>2, <2>3, <2>4, <2>6, <2>7, RunsAgain
  <2>. QED BY <2>1, <2>2, <2>8, Unerred
<1>5. CASE Act.err
  <2>1. Unwind(n)
    BY <1>5 DEF ExitNil
  <2>2. go' # "finished"
    BY <2>1 DEF Unwind
  <2>. QED BY <1>1, <1>2, <2>1, <2>2, Unwinds
<1>. QED BY <1>3, <1>4, <1>5

LEMMA ExitSignalOrder ==
  ASSUME InOrder(nat, go, acts, erred), go = "handler", NEW n, n = nat \/ n = DrainRemaining,
         NEW sig, ExitSignal(n, sig), NEW m, m = nat', NEW s, s = acts'
  PROVE  InOrder(m, go', s, erred') /\ go' # "finished"
<1>1. acts # <<>> /\ IsAct(Act) /\ Act.mode = "handler" /\ IsCalls(acts, go)
  BY HandlerActs
<1>2. /\ IsMachine(n)
      /\ ~erred => /\ Placed(n, "handler") /\ n.pend # "error" /\ n.phase # "continue"
                   /\ \A t : OneAtATime(n, "handler", t)
  BY HandlerRests
<1>3. CASE ~Act.err
  <2>1. m = Dropped(ArmDrain(n), Act.addr) /\ s = Front(Stash(acts, sig)) /\ go' = "served" /\ erred' = erred
    BY <1>3 DEF ExitSignal
  <2>2. ~erred /\ Seeding(nat, go, acts)
    BY <1>3, NoError, Walks
  <2>3. IsCalls(s, "served") /\ Seedfree(s)
    BY <1>1, <2>1, <2>2, StashesAct
  <2>5. PICK g, t, a : g = "handler" /\ OneAtATime(n, g, t) /\ Placed(n, g) /\ g # "native" /\ a = Act.addr
    BY <1>2, <2>2
  <2>7. IsMachine(n) /\ n.pend # "error" /\ m = Dropped(ArmDrain(n), a)
    BY <1>2, <2>1, <2>2, <2>5
  <2>8. InOrder(m, "served", s, FALSE)
    BY ONLY <2>3, <2>5, <2>7, LeavesArmed
  <2>. QED BY <2>1, <2>2, <2>8, Unerred
<1>5. CASE Act.err
  <2>1. Unwind(n)
    BY <1>5 DEF ExitSignal
  <2>2. go' # "finished"
    BY <2>1 DEF Unwind
  <2>. QED BY <1>1, <1>2, <2>1, <2>2, Unwinds
<1>. QED BY <1>3, <1>5

(* The handler goes on, with or without an error to report.                *)
LEMMA GoesOn ==
  ASSUME InOrder(nat, go, acts, erred), go = "handler",
         NEW n, n = nat \/ n = DrainRemaining,
         NEW a, IsAct(a), a.mode = "handler", a.nonleaf = Act.nonleaf, a.sig = Act.sig, a.addr = Act.addr,
         a.err = Act.err, a.atEnd = Act.atEnd,
         a.nonleaf /\ (erred \/ ~NoSignal(acts)) => Spent(a),
         a.iter = "after" \/ Act.iter # "after",
         NEW s, s = SetAct(a)
  PROVE  InOrder(n, "handler", s, erred)
<1>1. /\ acts # <<>> /\ IsCalls(acts, go)
      /\ (erred => Act.err /\ Act.atEnd /\ (Act.iter = "after" \/ Act.nonleaf))
  BY HandlerActs
<1>2. CASE ~erred
  <2>1. a.nonleaf \/ a.atEnd \/ a.iter = "after" \/ (~Act.atEnd /\ Act.iter # "after")
    OBVIOUS
  <2>2. InOrder(n, "handler", s, FALSE)
    BY <1>2, <2>1, HandlerTurns
  <2>. QED BY <1>2, <2>2, Unerred
<1>3. CASE erred
  <2>1. a.err /\ a.atEnd /\ (a.iter = "after" \/ (a.nonleaf /\ Spent(a)))
    BY <1>1, <1>3
  <2>2. IsMachine(n)
    BY HandlerRests
  <2>3. InOrder(n, "handler", s, TRUE)
    BY <1>1, <2>1, <2>2, HandlerErrs
  <2>. QED BY <1>3, <2>3, Erred
<1>. QED BY <1>2, <1>3

(* With no more of its batch to take, or nothing to hold it back.          *)
LEMMA HeldBack ==
  ASSUME InOrder(nat, go, acts, erred), go = "handler"
  PROVE  /\ IsAct(Act) /\ Act.mode = "handler"
         /\ Act.nonleaf /\ (erred \/ ~NoSignal(acts)) => Spent(Act) \/ (erred /\ Act.iter = "after")
         /\ (AnyBreak = None <=> NoSignal(acts))
         /\ erred => /\ Act.atEnd /\ Act.iter \in {"after", "loop", "advance"}
                     /\ Act.iter = "after" \/ Act.nonleaf
<1>1. /\ IsAct(Act) /\ Act.mode = "handler" /\ IsCalls(acts, go) /\ acts # <<>>
      /\ (erred => Act.err /\ Act.atEnd /\ (Act.iter = "after" \/ (Act.nonleaf /\ Spent(Act))))
  BY HandlerActs
<1>2. AnyBreak = None <=> NoSignal(acts)
  BY <1>1, ActTop
<1>3. ~erred /\ Act.nonleaf /\ ~NoSignal(acts) => Spent(Act)
  BY Walks DEF Signalled, Act
<1>. QED BY <1>1, <1>2, <1>3 DEF Spent, IsAct

(* The iterator moves.                                                     *)
LEMMA IterOrder ==
  ASSUME InOrder(nat, go, acts, erred),
         IterBegin \/ IterItem \/ NextSlot,
         NEW m, m = nat', NEW s, s = acts'
  PROVE  InOrder(m, go', s, erred')
<1>1. go = "handler" /\ m = nat /\ go' = go /\ erred' = erred
  BY DEF IterBegin, IterItem, NextSlot, AtBatchEnd, InHandler, hist
<1>2. /\ IsAct(Act) /\ Act.mode = "handler" /\ (AnyBreak = None <=> NoSignal(acts))
      /\ Act.nonleaf /\ (erred \/ ~NoSignal(acts)) => Spent(Act) \/ (erred /\ Act.iter = "after")
      /\ erred => Act.atEnd
  BY <1>1, HeldBack
<1>3. PICK b : b = Act
  OBVIOUS
<1>4. SUFFICES ASSUME NEW a, s = SetAct(a), IsAct(a), a.mode = "handler", a.nonleaf = b.nonleaf,
                      a.sig = b.sig, a.addr = b.addr, a.err = b.err, a.atEnd = b.atEnd,
                      ~(b.nonleaf /\ (erred \/ ~NoSignal(acts))), b.iter # "after"
               PROVE  InOrder(nat, "handler", s, erred)
  <2>1. CASE IterBegin
    <3>1. PICK a : a = [b EXCEPT !.iter = "advance"] /\ s = SetAct(a)
      BY <1>3, <2>1 DEF IterBegin
    <3>2. b.iter = "before"
      BY <1>3, <2>1 DEF IterBegin
    <3>3. /\ IsAct(a) /\ a.mode = "handler" /\ a.nonleaf = b.nonleaf
          /\ a.sig = b.sig /\ a.addr = b.addr /\ a.err = b.err /\ a.atEnd = b.atEnd
      BY <1>2, <1>3, <3>1 DEF IsAct
    <3>4. ~(b.nonleaf /\ (erred \/ ~NoSignal(acts)))
      BY <1>2, <1>3, <3>2 DEF Spent
    <3>. QED BY <1>1, <1>4, <3>1, <3>2, <3>3, <3>4
  <2>2. CASE IterItem
    <3>1. PICK a, c : a = [b EXCEPT !.cursor = c, !.iter = "loop", !.item = "pending"] /\ s = SetAct(a)
                      /\ c = b.cursor + 1
      <4>1. s = SetAct([b EXCEPT !.cursor = @ + 1, !.iter = "loop", !.item = "pending"])
        BY <1>3, <2>2 DEF IterItem
      <4>. QED BY <1>2, <1>3, <4>1 DEF IsAct
    <3>2. b.iter = "advance" /\ b.cursor < b.batch
      BY <1>3, <2>2 DEF IterItem
    <3>3. b.nonleaf => b.cursor = 0 /\ b.batch = 1
      BY <1>2, <1>3, <3>2 DEF IsAct
    <3>4. /\ IsAct(a) /\ a.mode = "handler" /\ a.nonleaf = b.nonleaf
          /\ a.sig = b.sig /\ a.addr = b.addr /\ a.err = b.err /\ a.atEnd = b.atEnd
      <4>1. IsAct(b) /\ b.mode = "handler" /\ (b.nonleaf => c = 1 /\ b.batch = 1)
        BY <1>2, <1>3, <3>1, <3>3
      <4>2. a = [b EXCEPT !.cursor = c, !.iter = "loop", !.item = "pending"]
        BY <3>1
      <4>. QED BY ONLY <4>1, <4>2 DEF IsAct
    <3>5. ~(b.nonleaf /\ (erred \/ ~NoSignal(acts)))
      BY <1>2, <1>3, <3>2, <3>3 DEF Spent
    <3>. QED BY <1>1, <1>4, <3>1, <3>2, <3>4, <3>5
  <2>3. CASE NextSlot
    <3>1. PICK a, p : a = [b EXCEPT !.batch = 1, !.cursor = 0, !.base = p] /\ s = SetAct(a)
      BY <1>3, <2>3 DEF NextSlot
    <3>2. b.iter = "advance" /\ ~b.atEnd /\ AnyBreak = None
      BY <1>3, <2>3 DEF NextSlot, AtBatchEnd
    <3>3. /\ IsAct(a) /\ a.mode = "handler" /\ a.nonleaf = b.nonleaf
          /\ a.sig = b.sig /\ a.addr = b.addr /\ a.err = b.err /\ a.atEnd = b.atEnd
      BY <1>2, <1>3, <3>1, <3>2 DEF IsAct
    <3>4. ~(b.nonleaf /\ (erred \/ ~NoSignal(acts)))
      BY <1>2, <1>3, <3>2
    <3>. QED BY <1>1, <1>4, <3>1, <3>2, <3>3, <3>4
  <2>. QED BY <2>1, <2>2, <2>3
<1>. QED BY <1>1, <1>3, <1>4, GoesOn

(* The iteration ends.                                                     *)
LEMMA IterEndOrder ==
  ASSUME InOrder(nat, go, acts, erred), go = "handler", Act.iter = "advance",
         NEW n, n = nat \/ n = DrainRemaining, IterEnd(n), NEW m, m = nat', NEW s, s = acts'
  PROVE  InOrder(m, go', s, erred')
<1>1. m = n /\ go' = go /\ erred' = erred
  BY DEF IterEnd, hist
<1>2. /\ IsAct(Act) /\ Act.mode = "handler"
      /\ Act.nonleaf /\ (erred \/ ~NoSignal(acts)) => Spent(Act) \/ (erred /\ Act.iter = "after")
  BY HeldBack
<1>3. PICK a, b : b = Act /\ a = [b EXCEPT !.iter = "after", !.item = "none"] /\ s = SetAct(a)
  BY DEF IterEnd
<1>4. /\ IsAct(a) /\ a.mode = "handler" /\ a.nonleaf = b.nonleaf /\ a.iter = "after"
      /\ a.sig = b.sig /\ a.addr = b.addr /\ a.err = b.err /\ a.atEnd = b.atEnd
      /\ a.cursor = b.cursor /\ a.batch = b.batch
  BY <1>2, <1>3 DEF IsAct
<1>5. a.nonleaf /\ (erred \/ ~NoSignal(acts)) => Spent(a)
  BY <1>2, <1>3, <1>4 DEF Spent
<1>6. /\ IsAct(a) /\ a.mode = "handler" /\ a.nonleaf = Act.nonleaf /\ a.sig = Act.sig
      /\ a.addr = Act.addr /\ a.err = Act.err /\ a.atEnd = Act.atEnd /\ a.iter = "after"
  BY <1>3, <1>4
<1>7. InOrder(n, "handler", s, erred)
  BY <1>3, <1>5, <1>6, GoesOn
<1>. QED BY <1>1, <1>7

(* In the loop body.                                                       *)
LEMMA LoopOrder ==
  ASSUME InOrder(nat, go, acts, erred), DecodeBound \/ ItemSkip \/ LoopContinue,
         NEW m, m = nat', NEW s, s = acts'
  PROVE  InOrder(m, go', s, erred')
<1>1. go = "handler" /\ m = nat /\ go' = go /\ erred' = erred /\ Act.iter = "loop"
  BY DEF DecodeBound, ItemSkip, LoopContinue, Looping, InHandler, hist
<1>2. /\ IsAct(Act) /\ Act.mode = "handler"
      /\ Act.nonleaf /\ (erred \/ ~NoSignal(acts)) => Spent(Act)
  BY <1>1, HeldBack
<1>3. PICK b, w, yes : b = Act /\ w = AnyBreak /\ yes = TRUE
  OBVIOUS
<1>4. SUFFICES ASSUME NEW a, s = SetAct(a), IsAct(a), a.mode = "handler", a.nonleaf = b.nonleaf,
                      a.sig = b.sig, a.addr = b.addr, a.err = b.err, a.atEnd = b.atEnd,
                      a.nonleaf /\ (erred \/ ~NoSignal(acts)) => Spent(a)
               PROVE  InOrder(nat, "handler", s, erred)
  <2>1. CASE DecodeBound
    <3>1. PICK a : a = [b EXCEPT !.item = "used", !.got = w] /\ s = SetAct(a)
      BY <1>3, <2>1 DEF DecodeBound
    <3>2. ~b.nonleaf
      BY <1>3, <2>1 DEF DecodeBound
    <3>3. /\ IsAct(a) /\ a.mode = "handler" /\ a.nonleaf = b.nonleaf
          /\ a.sig = b.sig /\ a.addr = b.addr /\ a.err = b.err /\ a.atEnd = b.atEnd
      BY <1>2, <1>3, <3>1 DEF IsAct
    <3>. QED BY <1>1, <1>4, <3>1, <3>2, <3>3
  <2>2. CASE ItemSkip
    <3>1. PICK a : a = [b EXCEPT !.item = "used", !.skipRemaining = yes] /\ s = SetAct(a)
      BY <1>3, <2>2 DEF ItemSkip
    <3>2. b.item = "pending" /\ b.iter = "loop"
      BY <1>1, <1>3, <2>2 DEF ItemSkip
    <3>3. /\ IsAct(a) /\ a.mode = "handler" /\ a.nonleaf = b.nonleaf
          /\ a.sig = b.sig /\ a.addr = b.addr /\ a.err = b.err /\ a.atEnd = b.atEnd
      BY <1>2, <1>3, <3>1 DEF IsAct
    <3>4. ~(b.nonleaf /\ (erred \/ ~NoSignal(acts)))
      BY <1>2, <1>3, <3>2 DEF Spent
    <3>. QED BY <1>1, <1>4, <3>1, <3>3, <3>4
  <2>3. CASE LoopContinue
    <3>1. PICK a, none : a = [b EXCEPT !.iter = "advance", !.item = "none", !.got = none] /\ s = SetAct(a)
      BY <1>3, <2>3 DEF LoopContinue
    <3>3. /\ IsAct(a) /\ a.mode = "handler" /\ a.nonleaf = b.nonleaf /\ a.iter = "advance"
          /\ a.sig = b.sig /\ a.addr = b.addr /\ a.err = b.err /\ a.atEnd = b.atEnd
          /\ a.cursor = b.cursor /\ a.batch = b.batch
      BY <1>2, <1>3, <3>1 DEF IsAct
    <3>4. a.nonleaf /\ (erred \/ ~NoSignal(acts)) => Spent(a)
      BY <1>2, <1>3, <3>3 DEF Spent
    <3>. QED BY <1>1, <1>4, <3>1, <3>3, <3>4
  <2>. QED BY <2>1, <2>2, <2>3
<1>. QED BY <1>1, <1>3, <1>4, GoesOn

(* The next batch is driven, from the array the handler is at.             *)
LEMMA NextBatchOrder ==
  ASSUME InOrder(nat, go, acts, erred), NextBatch, NEW m, m = nat', NEW s, s = acts'
  PROVE  InOrder(m, go', s, erred')
<1>1. /\ go = "handler" /\ go' = "native" /\ erred' = erred /\ m = Reset(nat)
      /\ Act.iter = "advance" /\ AnyBreak = None /\ ~Act.atEnd /\ ~Act.nonleaf
  BY DEF NextBatch, AtBatchEnd, InHandler, hist
<1>2. /\ IsAct(Act) /\ NoSignal(acts) /\ ~erred
  BY <1>1, HeldBack
<1>3. /\ IsMachine(nat) /\ IsCalls(acts, go) /\ acts # <<>> /\ Placed(nat, go) /\ Seeding(nat, go, acts)
      /\ nat.phase = "value" /\ Act.addr = Place(nat)
  BY <1>1, <1>2, Walks, HandlerActs DEF Batching, Owned, Act
<1>4. nat.frames # <<>> /\ nat.pend # "error"
  BY <1>1, <1>3 DEF Placed
<1>5. ~Inner(nat)
  BY <1>1, <1>2, <1>3, <1>4, Levels DEF IsAct, Inner
<1>6. Kept(nat, m) /\ Paused(nat, m)
  <2>1. PICK n : n = nat
    OBVIOUS
  <2>2. IsMachine(n) /\ n.frames # <<>> /\ m = Reset(n)
    BY <1>1, <1>3, <1>4, <2>1
  <2>. QED BY <2>1, <2>2, ResetKeeps
<1>7. IsMachine(m) /\ Placed(m, "native") /\ ~Inner(m) /\ m.phase = "value"
  BY <1>1, <1>3, <1>4, <1>5, <1>6, Rested
<1>8. PICK a, b, h : b = Act /\ a = [b EXCEPT !.mode = "next"] /\ s = SetAct(a) /\ h = "native"
  BY DEF NextBatch
<1>9. IsAct(a) /\ a.sig = b.sig /\ a.mode = "next"
  BY <1>1, <1>2, <1>8 DEF IsAct, Drives
<1>10. IsCalls(acts, go) /\ acts # <<>> /\ IsAct(a) /\ a.sig = Act.sig /\ Stage(h, a) /\ s = SetAct(a)
  BY <1>3, <1>8, <1>9 DEF Stage
<1>11. /\ IsCalls(s, h) /\ s # <<>> /\ Last(s) = a /\ Len(s) = Len(acts)
       /\ NoSignal(s) <=> NoSignal(acts)
       /\ \A i : Around(s, i) => Around(acts, i) /\ s[i] = acts[i]
       /\ s[Len(s)] = a
  BY ONLY <1>10, TurnsAct
<1>12. Seedfree(s)
  BY <1>3, <1>9, <1>11, LoneSeed DEF Seedfree, Seedful, Around
<1>13. OneAtATime(m, "native", s)
  BY <1>7 DEF OneAtATime
<1>14. Signalled(m, "native", s) /\ Seeding(m, "native", s) /\ Batching(m, "native", s)
  BY <1>2, <1>11, <1>12 DEF Signalled, Seeding, Seedfree, Seedful, Batching
<1>15. InOrder(m, "native", s, FALSE)
  BY <1>7, <1>8, <1>11, <1>13, <1>14 DEF InOrder, Walking
<1>. QED BY <1>1, <1>2, <1>15, Unerred

(* The body of an element is bound.                                        *)
LEMMA DecodeBodyOrder ==
  ASSUME InOrder(nat, go, acts, erred), DecodeBody, NEW m, m = nat', NEW s, s = acts'
  PROVE  InOrder(m, go', s, erred')
<1>1. /\ go = "handler" /\ go' = "native" /\ erred' = erred /\ m = nat
      /\ Act.iter = "loop" /\ Act.item = "pending" /\ Act.nonleaf
  BY DEF DecodeBody, Looping, InHandler, hist
<1>2. IsAct(Act) /\ NoSignal(acts) /\ ~erred
  BY <1>1, HeldBack DEF Spent
<1>3. IsCalls(acts, go) /\ acts # <<>> /\ Seeding(nat, go, acts)
  BY <1>1, <1>2, Walks, HandlerActs
<1>4. PICK n : n = nat
  OBVIOUS
<1>5. /\ IsMachine(n) /\ Placed(n, "handler") /\ n.pend # "error" /\ n.phase # "continue"
      /\ OneAtATime(n, "handler", acts)
  BY <1>1, <1>2, <1>4, HandlerRests
<1>8. PICK a, b, h : /\ b = Act /\ a = [b EXCEPT !.item = "used", !.mode = "decode"] /\ s = SetAct(a)
                     /\ h = "native"
  BY DEF DecodeBody
<1>9. IsAct(a) /\ a.sig = b.sig /\ a.mode = "decode"
  BY <1>1, <1>2, <1>8 DEF IsAct, Drives
<1>10. IsCalls(acts, go) /\ acts # <<>> /\ IsAct(a) /\ a.sig = Act.sig /\ Stage(h, a) /\ s = SetAct(a)
  BY <1>3, <1>8, <1>9 DEF Stage
<1>11. /\ IsCalls(s, h) /\ s # <<>> /\ Last(s) = a /\ Len(s) = Len(acts)
       /\ NoSignal(s) <=> NoSignal(acts)
       /\ \A i : Around(s, i) => Around(acts, i) /\ s[i] = acts[i]
       /\ s[Len(s)] = a
  BY ONLY <1>10, TurnsAct
<1>12. Seedfree(s)
  BY <1>3, <1>9, <1>11, LoneSeed DEF Seedfree, Seedful, Around
<1>13. InOrder(n, "native", s, FALSE)
  BY <1>2, <1>5, <1>8, <1>11, <1>12, RunsAgain
<1>. QED BY <1>1, <1>2, <1>4, <1>13, Unerred

(* Every step of a handler.                                                *)
LEMMA HandlerOrder ==
  ASSUME InOrder(nat, go, acts, erred), Handler, NEW m, m = nat', NEW s, s = acts'
  PROVE  InOrder(m, go', s, erred') /\ doc' = doc /\ go' # "finished"
<1>1. go = "handler" /\ doc' = doc
  BY DEF Handler, HandlerIdle, IterBegin, IterItem, IterSkipped, NextUnderBreak, NextAtEnd, NextSlot,
         NextBatch, DecodeBound, DecodeBody, ItemSkip, LoopContinue, LoopBreak, LoopSignal,
         LoopPropagate, HandlerSignal, HandlerReturn, HandlerFails, IterEnd, AtBatchEnd, Looping, InHandler
<1>2. CASE IterBegin \/ IterItem \/ NextSlot
  <2>1. go' # "finished"
    BY <1>1, <1>2 DEF IterBegin, IterItem, NextSlot
  <2>. QED BY <1>1, <1>2, <2>1, IterOrder
<1>3. CASE IterSkipped \/ NextUnderBreak \/ NextAtEnd
  <2>1. PICK n : (n = nat \/ n = DrainRemaining) /\ IterEnd(n) /\ Act.iter = "advance"
    BY <1>3 DEF IterSkipped, NextUnderBreak, NextAtEnd, AtBatchEnd
  <2>2. go' # "finished"
    BY <1>1, <2>1 DEF IterEnd
  <2>. QED BY <1>1, <2>1, <2>2, IterEndOrder
<1>4. CASE NextBatch \/ DecodeBody
  <2>1. go' # "finished"
    BY <1>4 DEF NextBatch, DecodeBody
  <2>. QED BY <1>1, <1>4, <2>1, NextBatchOrder, DecodeBodyOrder
<1>5. CASE DecodeBound \/ ItemSkip \/ LoopContinue
  <2>1. go' # "finished"
    BY <1>1, <1>5 DEF DecodeBound, ItemSkip, LoopContinue
  <2>. QED BY <1>1, <1>5, <2>1, LoopOrder
<1>6. CASE HandlerIdle \/ HandlerReturn \/ LoopBreak
  <2>1. PICK n : (n = nat \/ n = DrainRemaining) /\ ExitNil(n)
    BY <1>6 DEF HandlerIdle, HandlerReturn, LoopBreak
  <2>. QED BY <1>1, <2>1, ExitNilOrder
<1>7. CASE LoopSignal \/ LoopPropagate \/ HandlerSignal
  <2>1. PICK n, sig : (n = nat \/ n = DrainRemaining) /\ ExitSignal(n, sig)
    BY <1>7 DEF LoopSignal, LoopPropagate, HandlerSignal
  <2>. QED BY <1>1, <2>1, ExitSignalOrder
<1>8. CASE HandlerFails
  <2>1. PICK n : (n = nat \/ n = DrainRemaining) /\ Unwind(n)
    BY <1>8 DEF HandlerFails
  <2>2. IsMachine(n) /\ acts # <<>>
    BY <1>1, <2>1, HandlerRests, HandlerActs
  <2>3. go' # "finished"
    BY <2>1 DEF Unwind
  <2>. QED BY <1>1, <2>1, <2>2, <2>3, Unwinds
<1>. QED BY <1>2, <1>3, <1>4, <1>5, <1>6, <1>7, <1>8 DEF Handler

(***************************************************************************)
(* The invariant                                                           *)
(***************************************************************************)
LEMMA Starts == Init => Inv
<1>. SUFFICES ASSUME Init PROVE Inv
  OBVIOUS
<1>1. PICK e : e = <<>>
  OBVIOUS
<1>2. IsSeq(e) /\ DOMAIN e = {} /\ e = <<>>
  <2>1. e \in Seq({}) /\ Len(e) = 0
    BY <1>1, EmptySeq
  <2>2. e \in [1 .. 0 -> {}] /\ DOMAIN e = 1 .. 0
    BY <2>1, LenProperties
  <2>. QED BY <1>1, <2>1, <2>2 DEF IsSeq
<1>3. /\ nat = [frames |-> e, top |-> 0, phase |-> "continue", pend |-> "grow", target |-> e]
      /\ acts = e /\ go = "native" /\ ~erred
  BY <1>1 DEF Init, None
<1>4. IsMachine(nat) /\ IsCalls(acts, go)
  BY <1>2, <1>3 DEF IsMachine, IsCalls
<1>5. Walking(nat, go, acts)
  BY <1>2, <1>3 DEF Walking, Placed, OneAtATime, Inner, Signalled, NoSignal, Seeding, Batching
<1>. QED BY <1>3, <1>4, <1>5 DEF Inv, InOrder, ErrorSurfaces

LEMMA Continues == Inv /\ [Next]_vars => Inv'
<1>. SUFFICES ASSUME Inv, [Next]_vars PROVE Inv'
  OBVIOUS
<1>1. PICK m, s, g, e : m = nat' /\ s = acts' /\ g = go' /\ e = erred'
  OBVIOUS
<1>2. InOrder(nat, go, acts, erred)
  BY DEF Inv
<1>3. SUFFICES InOrder(m, g, s, e) /\ doc' = doc /\ Returned(go', result', erred', staged')
  <2>1. InOrder(nat, go, acts, erred)'
    BY <1>1, <1>3, Carries
  <2>2. ErrorSurfaces'
    BY <1>3 DEF ErrorSurfaces, Returned
  <2>. QED BY <2>1, <2>2 DEF Inv
<1>4. CASE NativeStep
  <2>1. InOrder(m, go', acts, FALSE) /\ go' \in {"native", "stopped"} /\ ~erred
         /\ acts' = acts /\ erred' = erred /\ doc' = doc
    BY <1>1, <1>2, <1>4, NativeOrder
  <2>2. InOrder(m, g, s, FALSE) /\ ~e
    BY <1>1, <2>1
  <2>. QED BY <2>1, <2>2, Unerred DEF Returned
<1>5. CASE Drive
  BY <1>1, <1>2, <1>5, DriveOrder
<1>6. CASE Handler
  BY <1>1, <1>2, <1>6, HandlerOrder DEF Returned
<1>7. CASE Finished \/ UNCHANGED vars
  <2>1. /\ nat' = nat /\ acts' = acts /\ go' = go /\ erred' = erred /\ doc' = doc /\ result' = result
        /\ staged' = staged
    BY <1>7 DEF Finished, vars
  <2>2. Returned(go', result', erred', staged')
    BY <2>1 DEF Inv, ErrorSurfaces, Returned
  <2>. QED BY <1>1, <1>2, <2>1, <2>2
<1>. QED BY <1>4, <1>5, <1>6, <1>7 DEF Next

LEMMA Holds == Inv => ErrorsHold
BY DEF Inv, ErrorsHold, InOrder, Reporting, NoWalkAfterError

(* An error that a handler, a binding or a hook reported ends the walk and *)
(* fails the parse, however the handlers around it go on.                  *)
THEOREM ErrorsSurvive == Spec => []ErrorsHold
BY Starts, Continues, Holds, PTL DEF Spec
=============================================================================
