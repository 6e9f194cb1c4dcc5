----------------------------- MODULE FeedProofs -----------------------------
(***************************************************************************)
(* Proofs about Feed: for every document, every chunking and every target  *)
(* type, the window is the part of the document between its base and the   *)
(* bytes read, and what recovery kept is the part right before it.         *)
(***************************************************************************)
EXTENDS Feed, SequenceTheorems, NaturalsInduction, WellFoundedInduction, TLAPS

(***************************************************************************)
(* Numbers and recursion.                                                  *)
(***************************************************************************)
(* A set of naturals that is not empty has a least element.                *)
LEMMA LeastNatural ==
  ASSUME NEW S, S \subseteq Nat, S # {}
  PROVE  \E x \in S : \A y \in S : x <= y
<1>1. PICK x \in S : \A y \in S : ~(<<y, x>> \in OpToRel(<, Nat))
  BY WFMin, NatLessThanWellFounded
<1>2. \A y \in S : ~(y < x)
  BY <1>1 DEF OpToRel
<1>. QED BY <1>2

(* The Min of the model is that element.                                   *)
LEMMA MinNatural ==
  ASSUME NEW S, S \subseteq Nat, S # {}
  PROVE  Min(S) \in S /\ \A y \in S : Min(S) <= y
BY LeastNatural DEF Min

(* Induction, with a set for the property.                                 *)
LEMMA SetInduction ==
  ASSUME NEW N \in Nat, NEW S, 0 \in S,
         ASSUME NEW n \in 0 .. N - 1, n \in S PROVE n + 1 \in S
  PROVE  0 .. N \subseteq S
<1>. SUFFICES ASSUME (0 .. N) \ S # {} PROVE FALSE
  OBVIOUS
<1>1. PICK n \in (0 .. N) \ S : \A m \in (0 .. N) \ S : n <= m
  <2>1. (0 .. N) \ S \subseteq Nat
    OBVIOUS
  <2>. QED BY <2>1, LeastNatural
<1>2. n - 1 \in 0 .. N - 1 /\ n - 1 + 1 = n
  BY <1>1
<1>3. n - 1 \in S
  BY <1>1, <1>2
<1>4. n - 1 + 1 \in S
  BY <1>2, <1>3
<1>. QED BY <1>1, <1>2, <1>4

(* The rule by which StructuralsOf is built.                               *)
Follows(g, w, i) ==
  IF i = 0 THEN <<>>
  ELSE IF Structural(w, i - 1) THEN Append(g[i - 1], i - 1) ELSE g[i - 1]

Builds(g, w, n) == \A i \in 0 .. n : g[i] = Follows(g, w, i)

(* It can be built up to any n, from offsets below N.                      *)
LEMMA Built ==
  ASSUME NEW w, NEW N \in Nat
  PROVE  \E g \in [0 .. N -> Seq(0 .. N - 1)] : Builds(g, w, N)
<1>. DEFINE O == Seq(0 .. N - 1)
            T == {n \in 0 .. N : \E g \in [0 .. n -> O] : Builds(g, w, n)}
<1>1. 0 \in T
  <2>1. <<>> \in O
    BY EmptySeq
  <2>. HIDE DEF O
  <2>. DEFINE g == [i \in 0 .. 0 |-> <<>>]
  <2>2. g \in [0 .. 0 -> O]
    BY <2>1
  <2>3. Builds(g, w, 0)
    BY DEF Builds, Follows
  <2>. QED BY <2>2, <2>3
<1>2. ASSUME NEW n \in 0 .. N - 1, n \in T PROVE n + 1 \in T
  <2>1. PICK g \in [0 .. n -> O] : Builds(g, w, n)
    BY <1>2
  <2>. DEFINE h == [i \in 0 .. n + 1 |-> IF i <= n THEN g[i] ELSE Follows(g, w, n + 1)]
  <2>2. Follows(g, w, n + 1) \in O
    <3>1. g[n] \in Seq(0 .. N - 1) /\ n \in 0 .. N - 1
      OBVIOUS
    <3>2. Append(g[n], n) \in Seq(0 .. N - 1)
      BY <3>1, AppendProperties
    <3>3. n + 1 # 0 /\ n + 1 - 1 = n
      OBVIOUS
    <3>4. \/ Follows(g, w, n + 1) = Append(g[n], n)
          \/ Follows(g, w, n + 1) = g[n]
      BY <3>3 DEF Follows
    <3>. QED BY <3>1, <3>2, <3>4
  <2>. HIDE DEF O
  <2>3. h \in [0 .. n + 1 -> O]
    BY <2>2
  <2>4. ASSUME NEW i \in 0 .. n + 1 PROVE h[i] = Follows(h, w, i)
    <3>1. i = 0 \/ h[i - 1] = g[i - 1]
      OBVIOUS
    <3>2. Follows(h, w, i) = Follows(g, w, i)
      BY <3>1 DEF Follows
    <3>3. CASE i <= n
      BY <2>1, <3>2, <3>3 DEF Builds
    <3>4. CASE i = n + 1
      BY <3>2, <3>4
    <3>. QED BY <3>3, <3>4
  <2>5. n + 1 \in 0 .. N
    OBVIOUS
  <2>. HIDE DEF h
  <2>. QED BY <2>3, <2>4, <2>5 DEF Builds
<1>3. N \in T
  <2>. HIDE DEF T
  <2>1. 0 .. N \subseteq T
    BY <1>1, <1>2, SetInduction
  <2>. QED BY <2>1
<1>. QED BY <1>3

(* So StructuralsOf(w) follows its rule, and Structurals are offsets of w. *)
LEMMA StructuralsType ==
  ASSUME NEW w \in Seq(Char)
  PROVE  Structurals(w) \in Seq(0 .. Len(w) - 1)
<1>. DEFINE N == Len(w)
            Rule(g) == [n \in 0 .. N |->
                          IF n = 0 THEN <<>>
                          ELSE IF Structural(w, n - 1) THEN Append(g[n - 1], n - 1)
                               ELSE g[n - 1]]
<1>1. N \in Nat
  BY LenProperties
<1>2. PICK g \in [0 .. N -> Seq(0 .. N - 1)] : Builds(g, w, N)
  BY <1>1, Built
<1>3. g = Rule(g)
  BY <1>2 DEF Builds, Follows
<1>4. StructuralsOf(w) = CHOOSE f : f = Rule(f)
  BY DEF StructuralsOf
<1>5. StructuralsOf(w) = Rule(StructuralsOf(w))
  BY <1>3, <1>4
<1>6. PICK s : s = StructuralsOf(w)
  OBVIOUS
<1>7. \A n \in 0 .. N : s[n] = Follows(s, w, n)
  BY <1>5, <1>6 DEF Follows
<1>. DEFINE O == Seq(0 .. N - 1)
            T == {n \in 0 .. N : s[n] \in O}
<1>. HIDE DEF N
<1>8. 0 \in T
  <2>1. s[0] = <<>>
    BY <1>1, <1>7 DEF Follows
  <2>2. <<>> \in Seq(0 .. N - 1)
    BY EmptySeq
  <2>3. s[0] \in O
    BY <2>1, <2>2
  <2>4. 0 \in 0 .. N
    BY <1>1
  <2>. HIDE DEF O
  <2>. QED BY <2>3, <2>4
<1>9. ASSUME NEW n \in 0 .. N - 1, n \in T PROVE n + 1 \in T
  <2>1. n + 1 \in 0 .. N /\ n + 1 # 0 /\ n + 1 - 1 = n
    BY <1>1
  <2>2. s[n + 1] = IF Structural(w, n) THEN Append(s[n], n) ELSE s[n]
    BY <1>7, <2>1 DEF Follows
  <2>3. s[n] \in Seq(0 .. N - 1) /\ Append(s[n], n) \in Seq(0 .. N - 1)
    BY <1>9, AppendProperties
  <2>. QED BY <2>1, <2>2, <2>3
<1>10. N \in T
  <2>. HIDE DEF T
  <2>1. 0 .. N \subseteq T
    BY <1>1, <1>8, <1>9, SetInduction
  <2>. QED BY <1>1, <2>1
<1>. QED BY <1>6, <1>10 DEF Structurals, N

(* What a scan publishes lies in the window.                               *)
LEMMA ScanType ==
  ASSUME NEW w \in Seq(Char), NEW final \in BOOLEAN
  PROVE  /\ Scan(w, final) \in [ok : BOOLEAN, idx : Seq(0 .. Len(w) - 1), stable : 0 .. Len(w)]
<1>. DEFINE all == Structurals(w)
            held == ~final /\ all # <<>> /\ Withheld(w, Last(all))
<1>1. all \in Seq(0 .. Len(w) - 1) /\ Len(w) \in Nat
  BY StructuralsType, LenProperties
<1>. HIDE DEF all
<1>2. Front(all) \in Seq(0 .. Len(w) - 1)
  BY <1>1 DEF Front
<1>3. all # <<>> => Last(all) \in 0 .. Len(w)
  <2>. SUFFICES ASSUME all # <<>> PROVE Last(all) \in 0 .. Len(w)
    OBVIOUS
  <2>1. Len(all) \in Nat \ {0}
    BY <1>1, EmptySeq
  <2>2. Last(all) \in 0 .. Len(w) - 1
    BY <1>1, <2>1, ElementOfSeq DEF Last
  <2>. QED BY <1>1, <2>2
<1>4. Scan(w, final) = [ok |-> ~(InString(w, Len(w)) /\ final),
                        idx |-> IF held THEN Front(all) ELSE all,
                        stable |-> IF held THEN Last(all) ELSE Len(w)]
  BY DEF Scan, all
<1>5. CASE held
  BY <1>1, <1>2, <1>3, <1>4, <1>5
<1>6. CASE ~held
  BY <1>1, <1>4, <1>6
<1>. QED BY <1>5, <1>6

(***************************************************************************)
(* The walk keeps the shape of its machine: a container phase has an open  *)
(* container, and a walk that has not stopped is in a phase it can resume. *)
(***************************************************************************)
Containers == {t \in Types : KindOf[t] # "num"}
Inner == {"firstKey", "field", "fieldValue", "objectContinue", "arrayFirst",
          "arrayValue", "arrayContinue"}
SkipStates == {"value", "valueOrClose", "key", "keyOrClose", "colon", "after"}
Stops == {"syntax", "eof", "type"}

Skipping == [st : SkipStates, kinds : Seq({"{", "["}), root : BOOLEAN]
Machine ==
  [phase : Phases, type : Types, stack : Seq(Containers), cur : Nat \ {0},
   mis : BOOLEAN, pos : Nat, promoted : BOOLEAN, skip : Skipping,
   out : {"run", "input", "ok"} \cup Stops, whole : BOOLEAN]

Walks(m) ==
  /\ m \in Machine
  /\ m.phase \in Inner => m.stack # <<>>
  /\ m.out \in {"run", "input"} => m.phase # "end"

IsView(v) ==
  /\ v.win \in Seq(Char) /\ v.idx \in Seq(0 .. Len(v.win) - 1)
  /\ v.base \in Nat /\ v.final \in BOOLEAN

(* A position is an offset of the window or its end.                       *)
LEMMA PosType ==
  ASSUME NEW m \in Machine, NEW v, IsView(v)
  PROVE  Pos(m, v) \in 0 .. Len(v.win)
<1>1. Len(v.win) \in Nat /\ Len(v.idx) \in Nat /\ m.cur \in Nat \ {0}
  BY LenProperties DEF IsView, Machine
<1>2. CASE Eof(m, v)
  BY <1>1, <1>2 DEF Pos
<1>3. CASE ~Eof(m, v)
  <2>1. m.cur \in 1 .. Len(v.idx)
    BY <1>1, <1>3 DEF Eof
  <2>2. v.idx[m.cur] \in 0 .. Len(v.win) - 1
    BY <2>1, ElementOfSeq DEF IsView
  <2>. QED BY <1>1, <1>3, <2>2 DEF Pos
<1>. QED BY <1>2, <1>3

(* The cursor moves, nothing else does.                                    *)
LEMMA AdvanceType ==
  ASSUME NEW m \in Machine
  PROVE  /\ Advance(m) \in Machine /\ Advance(m).stack = m.stack
         /\ Advance(m).phase = m.phase /\ Advance(m).skip = m.skip
         /\ Advance(m).out = m.out
BY DEF Advance, Machine

(* The front of a sequence is over the same set.                           *)
LEMMA FrontType ==
  ASSUME NEW S, NEW s \in Seq(S)
  PROVE  Front(s) \in Seq(S)
BY DEF Front

(* After a value the walk goes on in its container, or ends.               *)
LEMMA ContinueType ==
  ASSUME NEW m \in Machine
  PROVE  Walks(Continue(m))
<1>. USE DEF Machine, Walks, Phases, Inner, Stops
<1>1. CASE m.stack = <<>>
  BY <1>1 DEF Continue, DocumentEnd
<1>2. CASE m.stack # <<>>
  <2>1. Last(m.stack) \in Containers
    <3>1. Len(m.stack) \in 1 .. Len(m.stack)
      BY <1>2, EmptySeq
    <3>. QED BY <3>1, ElementOfSeq DEF Last
  <2>2. KindOf[Last(m.stack)] \in {"slice", "struct"}
    BY <2>1, KindAssumption DEF Containers
  <2>. QED BY <1>2, <2>2 DEF Continue
<1>. QED BY <1>1, <1>2

(* A container that closes leaves the one around it.                       *)
LEMMA CloseType ==
  ASSUME NEW m \in Machine
  PROVE  Walks(Close(m))
<1>1. Front(m.stack) \in Seq(Containers)
  BY FrontType DEF Machine
<1>2. [m EXCEPT !.stack = Front(@)] \in Machine
  BY <1>1 DEF Machine
<1>. QED BY <1>2, ContinueType DEF Close

(* A fatal error stops the walk where it is.                               *)
LEMMA YieldErrType ==
  ASSUME NEW m \in Machine, NEW kind \in Stops, NEW pos \in Nat
  PROVE  Walks(YieldErr(m, kind, pos))
BY DEF Walks, Machine, YieldErr, Stops, Phases, Inner

(* A walk that asks for input can resume in the phase it names.            *)
LEMMA YieldInputType ==
  ASSUME NEW m \in Machine, NEW v, IsView(v), NEW ph \in Phases \ {"end"},
         ph \in Inner => m.stack # <<>>
  PROVE  Walks(YieldInput(m, v, ph))
<1>1. PICK q \in Nat : q = IF m.mis /\ ~m.promoted THEN m.pos + v.base ELSE m.pos
  BY DEF Machine, IsView
<1>2. PICK b \in BOOLEAN : b = (m.promoted \/ m.mis)
  BY DEF Machine
<1>3. YieldInput(m, v, ph) =
        [m EXCEPT !.phase = ph, !.out = "input", !.pos = q, !.promoted = b]
  BY <1>1, <1>2 DEF YieldInput
<1>. QED BY <1>3 DEF Walks, Machine

(* So can one that ran out of structurals.                                 *)
LEMMA NeedInputType ==
  ASSUME NEW m \in Machine, NEW v, IsView(v), NEW ph \in Phases \ {"end"},
         ph \in Inner => m.stack # <<>>
  PROVE  Walks(NeedInput(m, v, ph))
<1>1. Pos(m, v) \in Nat
  BY PosType, LenProperties DEF IsView
<1>. QED BY <1>1, YieldErrType, YieldInputType DEF NeedInput, Stops

(* The validating skip starts with the containers it is given.             *)
LEMMA SkipFromType ==
  ASSUME NEW m \in Machine, NEW kinds \in Seq({"{", "["}), NEW st \in SkipStates,
         NEW root \in BOOLEAN
  PROVE  Walks(SkipFrom(m, kinds, st, root))
BY DEF Walks, Machine, SkipFrom, Skipping, Phases, Inner

(* The first mismatch is recorded once.                                    *)
LEMMA RecordType ==
  ASSUME NEW m \in Machine, NEW pos \in Nat
  PROVE  Record(m, pos) \in Machine
BY DEF Record, Machine

(* A mismatch skips the value, from its container if it has one.           *)
LEMMA MismatchType ==
  ASSUME NEW m \in Machine, NEW v, IsView(v), NEW site \in {"root", "field", "elem"}
  PROVE  Walks(Mismatch(m, v, site))
<1>1. Pos(m, v) \in Nat
  BY PosType, LenProperties DEF IsView
<1>2. /\ Record(m, Pos(m, v)) \in Machine
      /\ Advance(Record(m, Pos(m, v))) \in Machine
  BY <1>1, RecordType, AdvanceType
<1>3. /\ <<>> \in Seq({"{", "["}) /\ <<"[">> \in Seq({"{", "["})
      /\ <<"{">> \in Seq({"{", "["})
  OBVIOUS
<1>4. Walks(RootMismatch(m, v))
  BY <1>2, <1>3, SkipFromType DEF RootMismatch, SkipStates
<1>5. Walks(FieldMismatch(m, v))
  BY <1>2, <1>3, SkipFromType DEF FieldMismatch, SkipStates
<1>6. Walks(ElemMismatch(m, v))
  BY <1>1, YieldErrType DEF ElemMismatch, Stops
<1>. QED BY <1>4, <1>5, <1>6 DEF Mismatch

(* A container that opens is walked in its first phase, or closes.         *)
LEMMA OpenType ==
  ASSUME NEW m \in Machine, NEW v, NEW t \in Containers, NEW close, NEW first \in Inner
  PROVE  Walks(Open(m, v, t, close, first))
<1>1. Advance(m) \in Machine /\ Advance(Advance(m)) \in Machine
  BY AdvanceType
<1>2. PICK a \in Machine : a = Advance(m)
  BY <1>1
<1>3. CASE Peek(a, v) = close
  BY <1>1, <1>2, <1>3, ContinueType DEF Open
<1>4. CASE Peek(a, v) # close
  <2>1. Append(a.stack, t) \in Seq(Containers) /\ Append(a.stack, t) # <<>>
    BY AppendProperties DEF Machine
  <2>2. Open(m, v, t, close, first) = [a EXCEPT !.stack = Append(a.stack, t), !.phase = first]
    BY <1>2, <1>4 DEF Open
  <2>. QED BY <2>1, <2>2 DEF Walks, Machine, Inner, Phases
<1>. QED BY <1>3, <1>4

(* A value is parsed, opened, skipped, or waited for.                      *)
LEMMA ValueType ==
  ASSUME NEW m \in Machine, NEW v, IsView(v), NEW t \in Types,
         NEW site \in {"root", "field", "elem"}
  PROVE  Walks(Value(m, v, t, site))
<1>1. Pos(m, v) \in Nat
  BY PosType, LenProperties DEF IsView
<1>2. Walks(YieldErr(m, "syntax", Pos(m, v)))
  BY <1>1, YieldErrType DEF Stops
<1>3. Walks(Continue(Advance(m)))
  BY AdvanceType, ContinueType
<1>4. KindOf[t] = "slice" => Walks(Open(m, v, t, "]", "arrayFirst"))
  BY OpenType DEF Containers, Inner
<1>5. KindOf[t] = "struct" => Walks(Open(m, v, t, "}", "firstKey"))
  BY OpenType DEF Containers, Inner
<1>6. Walks(Mismatch(m, v, site))
  BY MismatchType
<1>. QED BY <1>2, <1>3, <1>4, <1>5, <1>6 DEF Value

(* The type of what a container holds.                                     *)
LEMMA ChildType ==
  ASSUME NEW m \in Machine, m.stack # <<>>
  PROVE  ChildOf[Last(m.stack)] \in Types
<1>1. Len(m.stack) \in 1 .. Len(m.stack)
  BY EmptySeq DEF Machine
<1>2. Last(m.stack) \in Containers
  BY <1>1, ElementOfSeq DEF Last, Machine
<1>. QED BY <1>2, KindAssumption DEF Containers

(* A key leads to its field, or stops the walk.                            *)
LEMMA ObjectKeyType ==
  ASSUME NEW m, Walks(m), m.phase \in Inner, NEW v, IsView(v), m.out = "run"
  PROVE  Walks(ObjectKey(m, v))
<1>1. m \in Machine /\ m.stack # <<>>
  BY DEF Walks
<1>2. PICK a \in Machine : a = Advance(m) /\ a.stack = m.stack
  BY <1>1, AdvanceType
<1>3. PICK b \in Machine : b = Advance(a) /\ b.stack = m.stack
  BY <1>2, AdvanceType
<1>4. Pos(m, v) \in Nat /\ Pos(a, v) \in Nat
  BY <1>1, PosType, LenProperties DEF IsView
<1>5. /\ Walks(YieldErr(a, "syntax", Pos(m, v)))
      /\ Walks(YieldErr(a, "eof", Pos(a, v)))
      /\ Walks(YieldErr(a, "syntax", Pos(a, v)))
  BY <1>4, YieldErrType DEF Stops
<1>6. Walks([b EXCEPT !.phase = "fieldValue"])
  BY <1>1, <1>3 DEF Walks, Machine, Phases
<1>7. Walks(SkipFrom(b, <<>>, "value", FALSE))
  <2>1. <<>> \in Seq({"{", "["})
    OBVIOUS
  <2>. QED BY <2>1, SkipFromType DEF SkipStates
<1>. QED BY <1>2, <1>3, <1>5, <1>6, <1>7 DEF ObjectKey

(* A field leads to its value.                                             *)
LEMMA ObjectFieldType ==
  ASSUME NEW m, Walks(m), m.phase \in Inner, NEW v, IsView(v), m.out = "run"
  PROVE  Walks(ObjectField(m, v))
<1>1. m \in Machine /\ m.stack # <<>> /\ m.phase \in Phases \ {"end"}
  BY DEF Walks, Machine, Inner
<1>2. Walks(YieldInput(m, v, m.phase))
  BY <1>1, YieldInputType
<1>3. Walks(YieldErr(m, "eof", Pos(m, v)))
  BY <1>1, PosType, LenProperties, YieldErrType DEF Stops, IsView
<1>. QED BY <1>2, <1>3, ObjectKeyType DEF ObjectField

(* A comma leads to the next phase, a bracket closes.                      *)
LEMMA ContinueWithType ==
  ASSUME NEW m, Walks(m), m.phase \in Inner, NEW v, IsView(v), m.out = "run",
         NEW close, NEW next \in Inner
  PROVE  Walks(ContinueWith(m, v, close, next))
<1>1. m \in Machine /\ m.stack # <<>> /\ m.phase \in Phases \ {"end"}
  BY DEF Walks, Machine, Inner
<1>2. PICK a \in Machine : a = Advance(m) /\ a.stack = m.stack
  BY <1>1, AdvanceType
<1>3. Walks([a EXCEPT !.phase = next])
  BY <1>1, <1>2 DEF Walks, Machine, Phases, Inner
<1>4. Walks(Close(a)) /\ Walks(NeedInput(a, v, m.phase))
  BY <1>1, <1>2, CloseType, NeedInputType
<1>5. Walks(YieldErr(a, "syntax", Pos(a, v)))
  BY PosType, LenProperties, YieldErrType DEF Stops, IsView
<1>. QED BY <1>2, <1>3, <1>4, <1>5 DEF ContinueWith

(* An element is a value of the array's type.                              *)
LEMMA ArrayValueType ==
  ASSUME NEW m, Walks(m), m.phase \in Inner, NEW v, IsView(v), m.out = "run",
         NEW ph \in Inner
  PROVE  Walks(ArrayValue(m, v, ph))
<1>1. m \in Machine /\ m.stack # <<>> /\ ph \in Phases \ {"end"}
  BY DEF Walks, Phases, Inner
<1>2. Walks(YieldInput(m, v, ph))
  BY <1>1, YieldInputType
<1>3. Walks(Value(m, v, ChildOf[Last(m.stack)], "elem"))
  BY <1>1, ChildType, ValueType
<1>. QED BY <1>2, <1>3 DEF ArrayValue

(* The skip moves to another of its states.                                *)
LEMMA ToType ==
  ASSUME NEW m \in Machine, m.phase = "skip", NEW st \in SkipStates
  PROVE  Walks(To(m, st))
BY DEF To, Walks, Machine, Skipping, Inner

(* A skip that is done gives the walk back.                                *)
LEMMA SkippedType ==
  ASSUME NEW m \in Machine, m.phase = "skip"
  PROVE  Walks(Skipped(m))
<1>1. Walks(To(m, "after"))
  BY ToType DEF SkipStates
<1>2. Walks(DocumentEnd(m))
  BY DEF DocumentEnd, Walks, Machine, Phases, Inner, Stops
<1>3. Walks(Continue([m EXCEPT !.skip = NoSkip]))
  <2>1. NoSkip \in Skipping
    BY DEF NoSkip, Skipping, SkipStates
  <2>2. [m EXCEPT !.skip = NoSkip] \in Machine
    BY <2>1 DEF Machine
  <2>. QED BY <2>2, ContinueType
<1>. QED BY <1>1, <1>2, <1>3 DEF Skipped, Machine, Skipping

(* One container of the skipped value closes.                              *)
LEMMA UnnestType ==
  ASSUME NEW m \in Machine, m.phase = "skip"
  PROVE  Walks(Unnest(m))
<1>1. Front(m.skip.kinds) \in Seq({"{", "["})
  BY FrontType DEF Machine, Skipping
<1>2. [m EXCEPT !.skip.kinds = Front(@)] \in Machine
  BY <1>1 DEF Machine, Skipping
<1>3. [m EXCEPT !.skip.kinds = Front(@)].phase = "skip"
  BY DEF Machine
<1>. QED BY <1>2, <1>3, SkippedType DEF Unnest

(* One opens.                                                              *)
LEMMA NestType ==
  ASSUME NEW m \in Machine, m.phase = "skip", NEW c \in {"{", "["}
  PROVE  Walks(Nest(m, c))
<1>1. Append(m.skip.kinds, c) \in Seq({"{", "["})
  BY AppendProperties DEF Machine, Skipping
<1>2. PICK st \in SkipStates : st = IF c = "[" THEN "valueOrClose" ELSE "keyOrClose"
  BY DEF SkipStates
<1>3. PICK n \in Machine : n = [m EXCEPT !.skip.kinds = Append(@, c)] /\ n.phase = "skip"
  <2>1. [m EXCEPT !.skip.kinds = Append(@, c)] \in Machine
    BY <1>1 DEF Machine, Skipping
  <2>2. [m EXCEPT !.skip.kinds = Append(@, c)].phase = "skip"
    BY DEF Machine
  <2>. QED BY <2>1, <2>2
<1>4. Nest(m, c) = To(n, st)
  BY <1>2, <1>3 DEF Nest, To
<1>. QED BY <1>3, <1>4, ToType

(* So every token of the skip keeps the machine's shape.                   *)
LEMMA SkipType ==
  ASSUME NEW m, Walks(m), m.phase = "skip", NEW v, IsView(v)
  PROVE  Walks(Skip(m, v))
<1>1. m \in Machine
  BY DEF Walks
<1>2. PICK a \in Machine : a = Advance(m) /\ a.phase = "skip" /\ a.skip = m.skip
  BY <1>1, AdvanceType
<1>3. Pos(m, v) \in Nat /\ Pos(a, v) \in Nat
  BY <1>1, PosType, LenProperties DEF IsView
<1>4. /\ Walks(YieldErr(m, "syntax", Pos(m, v))) /\ Walks(YieldErr(a, "syntax", Pos(m, v)))
      /\ Walks(YieldErr(a, "syntax", Pos(a, v)))
  BY <1>1, <1>3, YieldErrType DEF Stops
<1>5. \A st \in SkipStates : Walks(To(a, st))
  BY <1>2, ToType
<1>6. Walks(Unnest(a)) /\ Walks(Skipped(a))
  BY <1>2, UnnestType, SkippedType
<1>7. Walks(SkipEof(m, v))
  BY <1>1, <1>4, NeedInputType DEF SkipEof, Phases, Inner
<1>8. Walks(SkipColon(m, v)) /\ Walks(SkipAfter(m, v)) /\ Walks(SkipKey(m, v))
  BY <1>2, <1>4, <1>5, <1>6 DEF SkipColon, SkipAfter, SkipKey, SkipStates
<1>9. Walks(SkipValue(m, v))
  BY <1>2, <1>4, <1>6, NestType DEF SkipValue
<1>10. m.skip.st \in SkipStates
  BY <1>1 DEF Machine, Skipping
<1>. QED BY <1>2, <1>6, <1>7, <1>8, <1>9, <1>10 DEF Skip, SkipStates

(* One token of a walk keeps the machine's shape.                          *)
LEMMA StepType ==
  ASSUME NEW m, Walks(m), m.out = "run", NEW v, IsView(v)
  PROVE  Walks(Step(m, v))
<1>1. m \in Machine /\ m.phase \in Phases \ {"end"}
  BY DEF Walks, Machine
<1>2. CASE m.phase = "start"
  <2>1. m.type \in Types
    BY <1>1 DEF Machine
  <2>2. Walks(NeedInput(m, v, "start"))
    BY <1>1, NeedInputType DEF Phases, Inner
  <2>. QED BY <1>1, <1>2, <2>1, <2>2, ValueType DEF Step, DocumentStart
<1>3. CASE m.phase = "firstKey"
  <2>1. Walks(Close(Advance(m)))
    BY <1>1, AdvanceType, CloseType
  <2>. QED BY <1>3, <2>1, ObjectFieldType DEF Step, ObjectFirstKey, Inner
<1>4. CASE m.phase = "field"
  BY <1>4, ObjectFieldType DEF Step, Inner
<1>5. CASE m.phase = "fieldValue"
  <2>1. m.stack # <<>>
    BY <1>5 DEF Walks, Inner
  <2>2. Walks(YieldInput(m, v, "fieldValue"))
    BY <1>1, <2>1, YieldInputType DEF Phases
  <2>3. Walks(Value(m, v, ChildOf[Last(m.stack)], "field"))
    BY <1>1, <2>1, ChildType, ValueType
  <2>. QED BY <1>5, <2>2, <2>3 DEF Step, ObjectFieldValue
<1>6. CASE m.phase = "objectContinue"
  BY <1>6, ContinueWithType DEF Step, Inner
<1>7. CASE m.phase = "arrayFirst"
  <2>1. Walks(Close(Advance(m)))
    BY <1>1, AdvanceType, CloseType
  <2>. QED BY <1>7, <2>1, ArrayValueType DEF Step, ArrayFirst, Inner
<1>8. CASE m.phase = "arrayValue"
  BY <1>8, ArrayValueType DEF Step, Inner
<1>9. CASE m.phase = "arrayContinue"
  BY <1>9, ContinueWithType DEF Step, Inner
<1>10. CASE m.phase = "skip"
  BY <1>10, SkipType DEF Step
<1>. QED
  BY <1>1, <1>2, <1>3, <1>4, <1>5, <1>6, <1>7, <1>8, <1>9, <1>10 DEF Phases

(* A Decode starts from a machine of the right shape.                      *)
LEMMA BootstrapType ==
  ASSUME NEW t \in Types
  PROVE  Walks(Bootstrap(t)) /\ Bootstrap(t).out = "run" /\ Bootstrap(t).type = t
BY DEF Bootstrap, NoSkip, Walks, Machine, Skipping, SkipStates, Phases, Inner, Stops

(***************************************************************************)
(* The window: each operation of feed.go keeps it a part of the document.  *)
(***************************************************************************)
Anchor ==
  [armed : BOOLEAN, start : Nat, found : BOOLEAN, at : Nat, resume : Seq(Char)]
ScanResult == [ok : BOOLEAN, idx : Seq(Nat), stable : Nat]
FeedState ==
  [win : Seq(Char), base : Nat, final : BOOLEAN, sawEOF : BOOLEAN, zero : Nat,
   scan : ScanResult, live : BOOLEAN, consumed : Nat, skip : Anchor]

(* w is the part of the document in from offset b up to offset n.          *)
IsPart(in, w, b, n) ==
  /\ w \in Seq(Char) /\ b \in Nat /\ n \in Nat
  /\ b + Len(w) = n /\ n <= Len(in)
  /\ w = SubSeq(in, b + 1, n)

(* f's window ends where n bytes of in have been read.                     *)
Windowed(in, f, n) ==
  /\ f \in FeedState
  /\ IsPart(in, f.win, f.base, n)
  /\ f.consumed <= Len(f.win)

(* What recovery kept ends where f's window begins.                        *)
Kept(in, f) ==
  f.skip.found => f.skip.armed /\ IsPart(in, f.skip.resume, f.skip.at, f.base)

(* Two adjacent parts of a document are one.                               *)
LEMMA Adjacent ==
  ASSUME NEW in \in Seq(Char), NEW a \in Nat, NEW b \in Nat, NEW c \in Nat,
         a <= b, b <= c, c <= Len(in)
  PROVE  SubSeq(in, a + 1, b) \o SubSeq(in, b + 1, c) = SubSeq(in, a + 1, c)
<1>1. Len(in) \in Nat
  BY LenProperties
<1>2. a + 1 \in 1 .. Len(in) + 1 /\ b \in (a + 1) - 1 .. Len(in) /\ c \in b .. Len(in)
  BY <1>1
<1>. QED BY <1>2, ConcatAdjacentSubSeq

(* A part of a part, and its length.                                       *)
LEMMA Part ==
  ASSUME NEW in \in Seq(Char), NEW a \in Nat, NEW b \in Nat, a <= b, b <= Len(in)
  PROVE  SubSeq(in, a + 1, b) \in Seq(Char) /\ Len(SubSeq(in, a + 1, b)) = b - a
<1>1. \A i \in a + 1 .. b : in[i] \in Char
  BY LenProperties, ElementOfSeq
<1>. QED BY <1>1, SubSeqProperties

(* A part of a part of a document is a part of the document.              *)
LEMMA PartOfPart ==
  ASSUME NEW in \in Seq(Char), NEW a \in Nat, NEW b \in Nat, a <= b, b <= Len(in),
         NEW i \in Nat, NEW j \in Nat, i <= j, j <= b - a
  PROVE  SubSeq(SubSeq(in, a + 1, b), i + 1, j) = SubSeq(in, a + i + 1, a + j)
<1>. DEFINE w == SubSeq(in, a + 1, b)
<1>1. /\ w \in Seq(Char) /\ Len(w) = b - a
      /\ \A k \in 1 .. b - a : w[k] = in[a + k]
  <2>1. \A k \in a + 1 .. b : in[k] \in Char
    BY LenProperties, ElementOfSeq
  <2>. QED BY <2>1, SubSeqProperties
<1>. HIDE DEF w
<1>. DEFINE x == SubSeq(w, i + 1, j)
            y == SubSeq(in, a + i + 1, a + j)
<1>2. /\ x \in Seq(Char) /\ Len(x) = j - i
      /\ \A k \in 1 .. j - i : x[k] = w[i + k]
  <2>1. \A k \in i + 1 .. j : w[k] \in Char
    BY <1>1, ElementOfSeq
  <2>. QED BY <2>1, SubSeqProperties
<1>3. /\ y \in Seq(Char) /\ Len(y) = j - i
      /\ \A k \in 1 .. j - i : y[k] = in[a + i + k]
  <2>1. \A k \in a + i + 1 .. a + j : in[k] \in Char
    BY LenProperties, ElementOfSeq
  <2>. QED BY <2>1, SubSeqProperties
<1>. HIDE DEF x, y
<1>4. \A k \in 1 .. j - i : x[k] = y[k]
  <2>. TAKE k \in 1 .. j - i
  <2>1. i + k \in 1 .. b - a
    OBVIOUS
  <2>2. w[i + k] = in[a + (i + k)]
    BY <1>1, <2>1
  <2>. QED BY <1>2, <1>3, <2>2
<1>5. x = y
  BY <1>2, <1>3, <1>4, SeqEqual
<1>. QED BY <1>5 DEF x, y, w

(* What a part of a document is, from its bounds alone.                    *)
LEMMA PartIs ==
  ASSUME NEW in \in Seq(Char), NEW b \in Nat, NEW n \in Nat, b <= n, n <= Len(in)
  PROVE  IsPart(in, SubSeq(in, b + 1, n), b, n)
<1>1. SubSeq(in, b + 1, n) \in Seq(Char) /\ Len(SubSeq(in, b + 1, n)) = n - b
  BY Part
<1>. QED BY <1>1 DEF IsPart

(* Cutting a part leaves two.                                              *)
LEMMA PartCut ==
  ASSUME NEW in \in Seq(Char), NEW w, NEW b, NEW n, IsPart(in, w, b, n),
         NEW c \in Nat, NEW d \in Nat, c <= d, d <= Len(w)
  PROVE  IsPart(in, SubSeq(w, c + 1, d), b + c, b + d)
<1>1. b \in Nat /\ n \in Nat /\ Len(w) \in Nat /\ b + Len(w) = n /\ n <= Len(in) /\ Len(in) \in Nat
  BY LenProperties DEF IsPart
<1>2. w = SubSeq(in, b + 1, n)
  BY DEF IsPart
<1>3. b <= n /\ d <= n - b /\ b + c \in Nat /\ b + d \in Nat /\ b + c <= b + d /\ b + d <= Len(in)
  BY <1>1
<1>4. SubSeq(w, c + 1, d) = SubSeq(in, b + c + 1, b + d)
  BY <1>1, <1>2, <1>3, PartOfPart
<1>5. IsPart(in, SubSeq(in, (b + c) + 1, b + d), b + c, b + d)
  BY <1>3, PartIs
<1>. QED BY <1>4, <1>5

(* Joining two adjacent parts makes one.                                   *)
LEMMA PartJoin ==
  ASSUME NEW in \in Seq(Char), NEW v, NEW w, NEW a, NEW b, NEW n,
         IsPart(in, v, a, b), IsPart(in, w, b, n)
  PROVE  IsPart(in, v \o w, a, n)
<1>1. /\ a \in Nat /\ b \in Nat /\ n \in Nat /\ Len(v) \in Nat /\ Len(w) \in Nat
      /\ a + Len(v) = b /\ b + Len(w) = n /\ n <= Len(in)
  BY LenProperties DEF IsPart
<1>2. a <= b /\ b <= n /\ a <= n
  BY <1>1
<1>3. v \o w = SubSeq(in, a + 1, n)
  BY <1>1, <1>2, Adjacent DEF IsPart
<1>. QED BY <1>1, <1>2, <1>3, PartIs

(* Where the search for a newline begins.                                  *)
LEMMA AnchorOffsetType ==
  ASSUME NEW f \in FeedState
  PROVE  AnchorOffset(f) \in Nat
BY DEF AnchorOffset, FeedState, Anchor

(* The first newline of a search lies before the cut.                      *)
LEMMA NewlinesType ==
  ASSUME NEW f, NEW lo \in Nat, NEW cut \in Nat, Newlines(f, lo, cut) # {}
  PROVE  Min(Newlines(f, lo, cut)) \in Nat /\ Min(Newlines(f, lo, cut)) < cut
<1>1. Newlines(f, lo, cut) \subseteq Nat /\ \A o \in Newlines(f, lo, cut) : o < cut
  BY DEF Newlines
<1>2. Min(Newlines(f, lo, cut)) \in Newlines(f, lo, cut)
  BY <1>1, MinNatural
<1>. QED BY <1>1, <1>2

(* keepDiscarded: the bytes that leave the window join what is kept.       *)
LEMMA KeepDiscardedKeeps ==
  ASSUME NEW in \in Seq(Char), NEW n, NEW f, Windowed(in, f, n),
         Kept(in, f), f.skip.armed, NEW cut \in 1 .. Len(f.win)
  PROVE  LET k == KeepDiscarded(f, cut)
         IN  /\ k \in Anchor /\ k.armed
             /\ k.found => IsPart(in, k.resume, k.at, f.base + cut)
<1>1. PICK w \in Seq(Char), b \in Nat : w = f.win /\ b = f.base /\ IsPart(in, w, b, n)
  BY DEF Windowed, FeedState
<1>2. PICK s \in Anchor : s = f.skip /\ s.armed
  BY DEF Windowed, FeedState
<1>3. cut \in Nat /\ cut <= Len(w) /\ cut > 0 /\ Len(w) \in Nat /\ b + 0 = b
  BY <1>1, LenProperties
<1>. DEFINE nl == Newlines(f, AnchorOffset(f), cut)
<1>4. CASE s.found
  <2>1. IsPart(in, s.resume, s.at, b)
    BY <1>1, <1>2, <1>4 DEF Kept
  <2>2. IsPart(in, SubSeq(w, 0 + 1, cut), b + 0, b + cut)
    BY <1>1, <1>3, PartCut
  <2>3. PICK r \in Seq(Char) : r = s.resume \o SubSeq(w, 1, cut)
                             /\ IsPart(in, r, s.at, b + cut)
    <3>1. IsPart(in, SubSeq(w, 1, cut), b, b + cut)
      BY <1>3, <2>2
    <3>2. IsPart(in, s.resume \o SubSeq(w, 1, cut), s.at, b + cut)
      BY <2>1, <3>1, PartJoin
    <3>. QED BY <3>2 DEF IsPart
  <2>4. KeepDiscarded(f, cut) = [s EXCEPT !.resume = r]
    BY <1>1, <1>2, <1>4, <2>3 DEF KeepDiscarded
  <2>5. [s EXCEPT !.resume = r] \in Anchor /\ [s EXCEPT !.resume = r].armed
    BY <1>2 DEF Anchor
  <2>6. [s EXCEPT !.resume = r].at = s.at /\ [s EXCEPT !.resume = r].resume = r
    BY DEF Anchor
  <2>. QED BY <1>1, <2>3, <2>4, <2>5, <2>6
<1>5. CASE ~s.found /\ nl = {}
  BY <1>2, <1>5 DEF KeepDiscarded
<1>6. CASE ~s.found /\ nl # {}
  <2>1. PICK m \in Nat : m = Min(nl) /\ m < cut
    <3>1. AnchorOffset(f) \in Nat
      BY AnchorOffsetType DEF Windowed
    <3>. QED BY <1>3, <1>6, <3>1, NewlinesType
  <2>2. m + 1 \in Nat /\ m + 1 <= cut /\ (m + 1) + 1 = m + 2 /\ b + (m + 1) = b + m + 1 /\ b + m + 1 \in Nat
    <3>1. m < cut /\ cut \in Nat
      BY <1>3, <2>1
    <3>. QED BY ONLY <3>1, m \in Nat, b \in Nat
  <2>3. IsPart(in, SubSeq(w, (m + 1) + 1, cut), b + (m + 1), b + cut)
    BY <1>1, <1>3, <2>2, PartCut
  <2>4. PICK r \in Seq(Char), a \in Nat :
          r = SubSeq(w, m + 2, cut) /\ a = b + m + 1 /\ IsPart(in, r, a, b + cut)
    <3>1. IsPart(in, SubSeq(w, m + 2, cut), b + m + 1, b + cut)
      BY <2>2, <2>3
    <3>. QED BY <3>1 DEF IsPart
  <2>. DEFINE k == [s EXCEPT !.found = TRUE, !.at = a, !.resume = r]
  <2>5. KeepDiscarded(f, cut) = k
    BY <1>1, <1>2, <1>6, <2>1, <2>4 DEF KeepDiscarded
  <2>6. k \in Anchor
    BY DEF Anchor
  <2>7. k.armed /\ k.at = a /\ k.resume = r
    BY <1>2 DEF Anchor
  <2>. HIDE DEF k
  <2>. QED BY <1>1, <2>4, <2>5, <2>6, <2>7
<1>. QED BY <1>4, <1>5, <1>6

(* compact: the tail of the window stays, and nothing of the rest is lost. *)
LEMMA CompactKeeps ==
  ASSUME NEW in \in Seq(Char), NEW n, NEW f, Windowed(in, f, n), Kept(in, f),
         NEW cut \in 0 .. Len(f.win)
  PROVE  LET g == Compact(f, cut)
         IN  /\ Windowed(in, g, n) /\ Kept(in, g) /\ g.live = f.live
             /\ ~f.skip.armed => g.skip = f.skip
<1>1. PICK w \in Seq(Char), b \in Nat : w = f.win /\ b = f.base /\ IsPart(in, w, b, n)
  BY DEF Windowed, FeedState
<1>2. cut \in Nat /\ Len(w) \in Nat /\ cut <= Len(w)
  BY <1>1, LenProperties
<1>3. PICK t \in Seq(Char), c \in Nat :
        t = SubSeq(w, cut + 1, Len(w)) /\ c = b + cut /\ IsPart(in, t, c, n)
  <2>1. IsPart(in, SubSeq(w, cut + 1, Len(w)), b + cut, b + Len(w))
    BY <1>1, <1>2, PartCut
  <2>2. b + Len(w) = n
    BY <1>1 DEF IsPart
  <2>. QED BY <2>1, <2>2 DEF IsPart
<1>4. PICK k \in Anchor :
        /\ k = IF cut > 0 /\ f.skip.armed THEN KeepDiscarded(f, cut) ELSE f.skip
        /\ k.found => k.armed /\ IsPart(in, k.resume, k.at, c)
        /\ ~f.skip.armed => k = f.skip
  <2>1. f.skip \in Anchor
    BY DEF Windowed, FeedState
  <2>2. CASE cut > 0 /\ f.skip.armed
    <3>1. cut \in 1 .. Len(f.win)
      BY <1>1, <1>2, <2>2
    <3>2. PICK k \in Anchor : /\ k = KeepDiscarded(f, cut) /\ k.armed
                              /\ k.found => IsPart(in, k.resume, k.at, f.base + cut)
      BY <2>2, <3>1, KeepDiscardedKeeps
    <3>. QED BY <1>1, <1>3, <2>2, <3>2
  <2>3. CASE ~f.skip.armed
    BY <2>1, <2>3 DEF Kept
  <2>4. CASE cut = 0 /\ f.skip.armed
    <3>1. b + cut = b
      BY <2>4
    <3>2. f.skip.found => f.skip.armed /\ IsPart(in, f.skip.resume, f.skip.at, c)
      BY <1>1, <1>3, <3>1 DEF Kept
    <3>. QED BY <2>1, <2>4, <3>2
  <2>. QED BY <1>2, <2>2, <2>3, <2>4
<1>. DEFINE g == [f EXCEPT !.skip = k, !.win = t, !.base = c, !.consumed = 0]
<1>5. Compact(f, cut) = g
  BY <1>1, <1>3, <1>4 DEF Compact
<1>6. g \in FeedState
  BY DEF Windowed, FeedState
<1>7. /\ g.win = t /\ g.base = c /\ g.skip = k /\ g.consumed = 0 /\ g.live = f.live
  BY DEF Windowed, FeedState
<1>. HIDE DEF g
<1>8. Windowed(in, g, n)
  BY <1>3, <1>6, <1>7, LenProperties DEF Windowed
<1>9. Kept(in, g)
  BY <1>4, <1>7 DEF Kept
<1>. QED BY <1>4, <1>5, <1>7, <1>8, <1>9

(* discard: the whole window is given up.                                  *)
LEMMA DiscardKeeps ==
  ASSUME NEW in \in Seq(Char), NEW n, NEW f, Windowed(in, f, n)
  PROVE  LET g == Discard(f)
         IN  Windowed(in, g, n) /\ g.live = f.live /\ g.skip = f.skip
<1>1. PICK w \in Seq(Char), b \in Nat : w = f.win /\ b = f.base /\ IsPart(in, w, b, n)
  BY DEF Windowed, FeedState
<1>2. PICK e \in Seq(Char) : e = <<>> /\ Len(e) = 0
  BY EmptySeq
<1>3. n \in Nat /\ b + Len(w) = n /\ n <= Len(in)
  BY <1>1 DEF IsPart
<1>4. IsPart(in, e, n, n)
  <2>1. IsPart(in, SubSeq(in, n + 1, n), n, n)
    BY <1>3, PartIs
  <2>2. SubSeq(in, n + 1, n) \in Seq(Char) /\ Len(SubSeq(in, n + 1, n)) = 0
    BY <1>3, <2>1 DEF IsPart
  <2>3. SubSeq(in, n + 1, n) = e
    BY <1>2, <2>2, EmptySeq
  <2>. QED BY <2>1, <2>3
<1>. DEFINE g == [f EXCEPT !.base = n, !.win = e, !.consumed = 0]
<1>5. Discard(f) = g
  BY <1>1, <1>2, <1>3 DEF Discard
<1>6. g \in FeedState
  BY <1>3 DEF Windowed, FeedState
<1>7. g.win = e /\ g.base = n /\ g.consumed = 0 /\ g.live = f.live /\ g.skip = f.skip
  BY DEF Windowed, FeedState
<1>. HIDE DEF g
<1>. QED BY <1>2, <1>4, <1>5, <1>6, <1>7 DEF Windowed

(* restage: what was kept comes back before the window.                    *)
LEMMA RestageKeeps ==
  ASSUME NEW in \in Seq(Char), NEW n, NEW f, Windowed(in, f, n), Kept(in, f), f.skip.found
  PROVE  Windowed(in, Restage(f), n) /\ Restage(f).live = f.live
<1>1. PICK w \in Seq(Char), b \in Nat : w = f.win /\ b = f.base /\ IsPart(in, w, b, n)
  BY DEF Windowed, FeedState
<1>2. PICK r \in Seq(Char), a \in Nat : r = f.skip.resume /\ a = f.skip.at /\ IsPart(in, r, a, b)
  BY <1>1 DEF Kept, IsPart
<1>3. PICK x \in Seq(Char) : x = r \o w /\ IsPart(in, x, a, n)
  <2>1. IsPart(in, r \o w, a, n)
    BY <1>1, <1>2, PartJoin
  <2>. QED BY <2>1 DEF IsPart
<1>. DEFINE g == [f EXCEPT !.win = x, !.base = a, !.consumed = 0]
<1>4. Restage(f) = g
  BY <1>1, <1>2, <1>3 DEF Restage
<1>5. g \in FeedState
  BY DEF Windowed, FeedState
<1>6. g.win = x /\ g.base = a /\ g.consumed = 0 /\ g.live = f.live
  BY DEF Windowed, FeedState
<1>. HIDE DEF g
<1>. QED BY <1>3, <1>4, <1>5, <1>6, LenProperties DEF Windowed

(* Returning to the caller forgets the anchor.                             *)
LEMMA ReturnKeeps ==
  ASSUME NEW in \in Seq(Char), NEW n, NEW f, Windowed(in, f, n)
  PROVE  LET g == [f EXCEPT !.skip = NoAnchor]
         IN  /\ Windowed(in, g, n) /\ Kept(in, g) /\ g.live = f.live
             /\ ~g.skip.found /\ ~g.skip.armed
             /\ g.win = f.win /\ g.final = f.final /\ g.scan = f.scan
<1>1. NoAnchor \in Anchor /\ ~NoAnchor.found /\ ~NoAnchor.armed
  BY EmptySeq DEF NoAnchor, Anchor
<1>. DEFINE g == [f EXCEPT !.skip = NoAnchor]
<1>2. g \in FeedState
  BY <1>1 DEF Windowed, FeedState
<1>3. /\ g.win = f.win /\ g.base = f.base /\ g.consumed = f.consumed /\ g.live = f.live
      /\ g.skip = NoAnchor /\ g.final = f.final /\ g.scan = f.scan
  BY DEF Windowed, FeedState
<1>. HIDE DEF g
<1>4. Windowed(in, g, n) /\ Kept(in, g)
  BY <1>1, <1>2, <1>3 DEF Windowed, Kept
<1>. QED BY <1>1, <1>3, <1>4 DEF g

(* A change elsewhere in the feed state leaves the window and what is kept.*)
LEMMA SameWindow ==
  ASSUME NEW in, NEW n, NEW f, Windowed(in, f, n), NEW g \in FeedState,
         g.win = f.win, g.base = f.base, g.consumed = f.consumed
  PROVE  Windowed(in, g, n) /\ (g.skip = f.skip /\ Kept(in, f) => Kept(in, g))
BY DEF Windowed, Kept

(* What is mounted is what the scanner makes of the window.                *)
Mounted(f) == f.scan = Scan(f.win, f.final)

(* A mounted window is a view the walk can read.                           *)
LEMMA ViewType ==
  ASSUME NEW f \in FeedState, Mounted(f)
  PROVE  IsView(View(f)) /\ View(f).win = f.win /\ f.scan.stable \in 0 .. Len(f.win)
<1>1. f.win \in Seq(Char) /\ f.final \in BOOLEAN /\ f.base \in Nat
  BY DEF FeedState
<1>2. PICK s : s = f.scan /\ s \in [ok : BOOLEAN, idx : Seq(0 .. Len(f.win) - 1), stable : 0 .. Len(f.win)]
  BY <1>1, ScanType DEF Mounted
<1>3. s.idx \in Seq(0 .. Len(f.win) - 1) /\ s.stable \in 0 .. Len(f.win)
  BY <1>2
<1>. QED BY <1>1, <1>2, <1>3 DEF IsView, View

(* Every scan result has the feed state's shape for one.                   *)
LEMMA ScanResultType ==
  ASSUME NEW w \in Seq(Char), NEW final \in BOOLEAN
  PROVE  Scan(w, final) \in ScanResult
<1>1. PICK n \in Nat : n = Len(w)
  BY LenProperties
<1>2. PICK s : s = Scan(w, final) /\ s \in [ok : BOOLEAN, idx : Seq(0 .. n - 1), stable : 0 .. n]
  BY <1>1, ScanType
<1>3. s.idx \in Seq(0 .. n - 1) /\ s.stable \in Nat /\ s.ok \in BOOLEAN
  BY <1>2
<1>4. s.idx \in Seq(Nat)
  <2>1. Len(s.idx) \in Nat /\ \A i \in 1 .. Len(s.idx) : s.idx[i] \in Nat
    BY <1>3, LenProperties, ElementOfSeq
  <2>2. s.idx = [i \in 1 .. Len(s.idx) |-> s.idx[i]]
    BY <1>3, LenProperties
  <2>. QED BY <2>1, <2>2, IsASeq
<1>5. s = [ok |-> s.ok, idx |-> s.idx, stable |-> s.stable]
  BY <1>2
<1>. QED BY <1>2, <1>3, <1>4, <1>5 DEF ScanResult

(* mount: the window is unchanged.                                         *)
LEMMA MountKeeps ==
  ASSUME NEW in, NEW n, NEW f, Windowed(in, f, n)
  PROVE  LET g == Mount(f)
         IN  /\ Windowed(in, g, n) /\ (Kept(in, f) => Kept(in, g)) /\ Mounted(g)
             /\ g.live = f.live /\ g.skip = f.skip /\ g.scan \in ScanResult
<1>1. f.win \in Seq(Char) /\ f.final \in BOOLEAN
  BY DEF Windowed, FeedState
<1>2. PICK s \in ScanResult : s = Scan(f.win, f.final)
  BY <1>1, ScanResultType
<1>. DEFINE g == [f EXCEPT !.scan = s]
<1>4. Mount(f) = g
  BY <1>2 DEF Mount
<1>5. g \in FeedState
  BY DEF Windowed, FeedState
<1>6. /\ g.win = f.win /\ g.base = f.base /\ g.consumed = f.consumed /\ g.skip = f.skip
      /\ g.final = f.final /\ g.live = f.live /\ g.scan = s
  BY DEF Windowed, FeedState
<1>. HIDE DEF g
<1>7. Windowed(in, g, n) /\ (Kept(in, f) => Kept(in, g))
  BY <1>5, <1>6, SameWindow
<1>. QED BY <1>2, <1>4, <1>6, <1>7 DEF Mounted

(* What the binder has not finished with lies in the window.               *)
LEMMA UnconsumedType ==
  ASSUME NEW f \in FeedState, Mounted(f), NEW m \in Machine
  PROVE  Unconsumed(f, m) \in 0 .. Len(f.win)
<1>1. PICK p, q : /\ p = Pos(m, View(f)) /\ p \in 0 .. Len(f.win)
                  /\ q = f.scan.stable /\ q \in 0 .. Len(f.win)
  BY ViewType, PosType
<1>2. Len(f.win) \in Nat
  BY LenProperties DEF FeedState
<1>3. Min({p, q}) \in {p, q}
  <2>1. {p, q} \subseteq Nat /\ {p, q} # {}
    BY <1>1, <1>2
  <2>. QED BY <2>1, MinNatural
<1>. QED BY <1>1, <1>3 DEF Unconsumed

(* The boundary a Decode leaves lies in the window.                        *)
LEMMA ConsumedKeeps ==
  ASSUME NEW in, NEW n, NEW f, Windowed(in, f, n), NEW c \in 0 .. Len(f.win),
         NEW g, g = [f EXCEPT !.consumed = c]
  PROVE  /\ Windowed(in, g, n) /\ g.live = f.live /\ g.win = f.win
         /\ g.final = f.final /\ g.scan = f.scan
<1>1. c \in Nat /\ c <= Len(f.win)
  BY LenProperties DEF Windowed, FeedState
<1>2. g \in FeedState
  BY <1>1 DEF Windowed, FeedState
<1>3. /\ g.win = f.win /\ g.base = f.base /\ g.consumed = c /\ g.live = f.live
      /\ g.final = f.final /\ g.scan = f.scan
  BY DEF Windowed, FeedState
<1>4. Windowed(in, g, n)
  BY <1>1, <1>2, <1>3 DEF Windowed
<1>. QED BY <1>3, <1>4

(* Marking a window live, or not, leaves it as it is.                      *)
LEMMA LiveKeeps ==
  ASSUME NEW in, NEW n, NEW f, Windowed(in, f, n), NEW b \in BOOLEAN
  PROVE  LET g == [f EXCEPT !.live = b]
         IN  /\ Windowed(in, g, n) /\ (Kept(in, f) => Kept(in, g)) /\ g.live = b
             /\ g.skip = f.skip /\ (Mounted(f) => Mounted(g)) /\ g.win = f.win
             /\ g.consumed = f.consumed
<1>. DEFINE g == [f EXCEPT !.live = b]
<1>1. g \in FeedState
  BY DEF Windowed, FeedState
<1>2. /\ g.win = f.win /\ g.base = f.base /\ g.consumed = f.consumed /\ g.live = b
      /\ g.skip = f.skip /\ g.final = f.final /\ g.scan = f.scan
  BY DEF Windowed, FeedState
<1>. HIDE DEF g
<1>3. Windowed(in, g, n) /\ (Kept(in, f) => Kept(in, g))
  BY <1>1, <1>2, SameWindow
<1>4. Mounted(f) => Mounted(g)
  BY <1>2 DEF Mounted
<1>. QED BY <1>2, <1>3, <1>4 DEF g

(* Arming recovery at a value's first byte keeps nothing yet.              *)
LEMMA ArmKeeps ==
  ASSUME NEW in, NEW n, NEW f, Windowed(in, f, n), ~f.skip.found, NEW o \in Nat
  PROVE  LET g == Arm(f, o)
         IN  /\ Windowed(in, g, n) /\ Kept(in, g) /\ g.live = f.live
             /\ (Mounted(f) => Mounted(g)) /\ g.win = f.win
<1>1. CASE ~Recovers
  BY <1>1 DEF Arm, Kept
<1>2. CASE Recovers
  <2>1. PICK k \in Anchor : k = [f.skip EXCEPT !.armed = TRUE, !.start = f.base + o] /\ ~k.found
    <3>1. f.skip \in Anchor /\ f.base + o \in Nat
      BY DEF Windowed, FeedState
    <3>. DEFINE k == [f.skip EXCEPT !.armed = TRUE, !.start = f.base + o]
    <3>2. k \in Anchor
      BY <3>1 DEF Anchor
    <3>3. k.found = f.skip.found
      BY <3>1 DEF Anchor
    <3>. QED BY <3>2, <3>3
  <2>. DEFINE g == [f EXCEPT !.skip = k]
  <2>2. Arm(f, o) = g
    <3>1. f \in FeedState /\ f.skip \in Anchor
      BY DEF Windowed, FeedState
    <3>. QED BY <1>2, <2>1, <3>1 DEF Arm, FeedState, Anchor
  <2>3. g \in FeedState
    BY DEF Windowed, FeedState
  <2>4. /\ g.win = f.win /\ g.base = f.base /\ g.consumed = f.consumed /\ g.live = f.live
        /\ g.skip = k /\ g.final = f.final /\ g.scan = f.scan
    BY DEF Windowed, FeedState
  <2>. HIDE DEF g
  <2>5. Windowed(in, g, n)
    BY <2>3, <2>4, SameWindow
  <2>. QED BY <2>1, <2>2, <2>4, <2>5 DEF Kept, Mounted
<1>. QED BY <1>1, <1>2

(* One read appends the bytes that follow the window.                      *)
LEMMA ReadKeeps ==
  ASSUME input \in Seq(Char), rd \in Nat, NEW f, Windowed(input, f, rd),
         NEW n \in Nat, rd + n <= Len(input), NEW e \in {"none", "eof", "reader"}
  PROVE  LET r == Read(f, n, e)
         IN  /\ r.n = n /\ Windowed(input, r.f, rd + n) /\ r.f.base = f.base
             /\ r.f.skip = f.skip /\ r.f.live = f.live
             /\ r.err \in {"none", "reader", "noProgress"}
<1>1. PICK w \in Seq(Char), b \in Nat : w = f.win /\ b = f.base /\ IsPart(input, w, b, rd)
  BY DEF Windowed, FeedState
<1>2. PICK x \in Seq(Char) : x = w \o SubSeq(input, rd + 1, rd + n) /\ IsPart(input, x, b, rd + n)
  <2>1. rd + n \in Nat /\ rd <= rd + n
    OBVIOUS
  <2>2. IsPart(input, SubSeq(input, rd + 1, rd + n), rd, rd + n)
    BY <2>1, PartIs
  <2>3. IsPart(input, w \o SubSeq(input, rd + 1, rd + n), b, rd + n)
    BY <1>1, <2>2, PartJoin
  <2>. QED BY <2>3 DEF IsPart
<1>3. PICK z \in Nat : z = IF e # "none" THEN f.zero
                           ELSE IF n > 0 THEN 0 ELSE Min({f.zero + 1, MaxZeroReads + 1})
  <2>1. f.zero \in Nat
    BY DEF Windowed, FeedState
  <2>2. {f.zero + 1, MaxZeroReads + 1} \subseteq Nat /\ {f.zero + 1, MaxZeroReads + 1} # {}
    BY <2>1, ReadAssumption
  <2>3. Min({f.zero + 1, MaxZeroReads + 1}) \in Nat
    BY <2>2, MinNatural
  <2>. QED BY <2>1, <2>3
<1>. DEFINE b0 == (e = "eof")
            g == [f EXCEPT !.win = x, !.zero = z, !.sawEOF = b0]
            c == CASE e = "reader" -> "reader"
                   [] e = "none" /\ n = 0 /\ z > MaxZeroReads -> "noProgress"
                   [] OTHER -> "none"
<1>4. Read(f, n, e) = [f |-> g, n |-> n, err |-> c]
  BY <1>1, <1>2, <1>3 DEF Read
<1>5. c \in {"none", "reader", "noProgress"}
  OBVIOUS
<1>6. g \in FeedState
  <2>1. b0 \in BOOLEAN
    OBVIOUS
  <2>. HIDE DEF b0
  <2>. QED BY <2>1 DEF Windowed, FeedState
<1>7. /\ g.win = x /\ g.base = b /\ g.consumed = f.consumed /\ g.skip = f.skip
      /\ g.live = f.live
  BY <1>1 DEF Windowed, FeedState
<1>. HIDE DEF g, c
<1>8. g.consumed <= Len(g.win)
  <2>1. /\ f.consumed \in Nat /\ f.consumed <= Len(w) /\ Len(w) \in Nat /\ Len(x) \in Nat
        /\ b + Len(w) = rd /\ b + Len(x) = rd + n
    BY <1>1, <1>2, LenProperties DEF Windowed, FeedState, IsPart
  <2>2. f.consumed <= Len(x)
    BY <2>1
  <2>. QED BY <1>7, <2>2
<1>9. Windowed(input, g, rd + n)
  BY <1>2, <1>6, <1>7, <1>8 DEF Windowed
<1>. QED BY <1>1, <1>4, <1>5, <1>7, <1>9

(* fill, with or without bytes, an error or the end of input.              *)
LEMMA FillsKeep ==
  ASSUME input \in Seq(Char), rd \in Nat, NEW f, Windowed(input, f, rd), NEW r \in Fills(f)
  PROVE  /\ Windowed(input, r.f, rd + r.n) /\ (Kept(input, f) => Kept(input, r.f))
         /\ r.f.skip = f.skip /\ r.f.live = f.live
         /\ r.err \in {"none", "reader", "noProgress"}
<1>1. CASE f.sawEOF
  <2>. DEFINE g == [f EXCEPT !.final = TRUE]
  <2>1. r = [f |-> g, n |-> 0, err |-> "none"]
    BY <1>1 DEF Fills
  <2>2. g \in FeedState
    BY DEF Windowed, FeedState
  <2>3. /\ g.win = f.win /\ g.base = f.base /\ g.consumed = f.consumed /\ g.skip = f.skip
        /\ g.live = f.live
    BY DEF Windowed, FeedState
  <2>. HIDE DEF g
  <2>4. Windowed(input, g, rd) /\ (Kept(input, f) => Kept(input, g))
    BY <2>2, <2>3, SameWindow
  <2>5. rd + 0 = rd
    OBVIOUS
  <2>. QED BY <2>1, <2>3, <2>4, <2>5
<1>2. CASE ~f.sawEOF
  <2>. DEFINE left == Len(input) - rd
  <2>1. left \in Nat
    BY LenProperties DEF Windowed, IsPart
  <2>2. PICK top : top = Min({MaxRead, left}) /\ top <= left /\ top \in Nat
    <3>1. {MaxRead, left} \subseteq Nat /\ {MaxRead, left} # {}
      BY <2>1, ReadAssumption
    <3>. QED BY <3>1, MinNatural
  <2>3. PICK n \in Nat, e \in {"none", "eof", "reader"} : r = Read(f, n, e) /\ n <= left
    <3>1. \/ r \in {Read(f, n, "none") : n \in 0 .. top}
          \/ r \in {Read(f, n, "eof") : n \in {left} \cap (0 .. MaxRead)}
          \/ r \in {Read(f, n, "reader") : n \in IF ReaderFails THEN 0 .. top ELSE {}}
      BY <1>2, <2>2 DEF Fills
    <3>. HIDE DEF left
    <3>2. CASE r \in {Read(f, n, "none") : n \in 0 .. top}
      <4>1. PICK n \in 0 .. top : r = Read(f, n, "none")
        BY <3>2
      <4>2. n \in Nat /\ n <= left
        BY <2>1, <2>2
      <4>. QED BY <4>1, <4>2
    <3>3. CASE r \in {Read(f, n, "eof") : n \in {left} \cap (0 .. MaxRead)}
      BY <2>1, <3>3
    <3>4. CASE r \in {Read(f, n, "reader") : n \in IF ReaderFails THEN 0 .. top ELSE {}}
      <4>1. PICK n \in 0 .. top : r = Read(f, n, "reader")
        BY <3>4
      <4>2. n \in Nat /\ n <= left
        BY <2>1, <2>2
      <4>. QED BY <4>1, <4>2
    <3>. QED BY <3>1, <3>2, <3>3, <3>4
  <2>4. rd + n <= Len(input)
    BY <2>1, <2>3, LenProperties
  <2>5. PICK g : g = r.f
    OBVIOUS
  <2>6. /\ r.n = n /\ Windowed(input, g, rd + n) /\ g.base = f.base
        /\ g.skip = f.skip /\ g.live = f.live
        /\ r.err \in {"none", "reader", "noProgress"}
    BY <2>3, <2>4, <2>5, ReadKeeps
  <2>7. Kept(input, f) => Kept(input, g)
    BY <2>6 DEF Kept
  <2>. QED BY <2>5, <2>6, <2>7
<1>. QED BY <1>1, <1>2

(***************************************************************************)
(* The inductive invariant.                                                *)
(***************************************************************************)
(* The window, and what recovery kept of the bytes before it.              *)
Bytes ==
  /\ input \in Seq(Char) /\ rd \in Nat
  /\ Windowed(input, fs, rd) /\ Kept(input, fs)

(* The machine can go on, and stops at a known cause.                      *)
Control ==
  /\ pc \in Places
  /\ mach \in Machine /\ (pc = "walk" => Walks(mach))
  /\ pc \in {"skipToValue", "position"} => type \in Types
  /\ pc = "fail" => cause.kind \in Results

(* Wherever the cursor is read, the index belongs to the window: a stale   *)
(* one is left only behind an error that no later call gets past.          *)
Fresh ==
  /\ fs.live => pc \in {"idle", "position", "walk", "fail"}
  /\ \/ pc \in {"position", "walk"}
     \/ pc = "idle" /\ fs.live /\ err = Nil
     \/ pc = "fail" /\ cause.kind = "type"
     => Mounted(fs)

(* Between values nothing is kept.                                         *)
Unarmed ==
  pc \in {"idle", "skipToValue", "position", "more"} =>
    ~fs.skip.found /\ ~fs.skip.armed

IInv == Bytes /\ Control /\ Fresh /\ Unarmed

(* A machine resumed at the head of a new index.                           *)
LEMMA ResumeType ==
  ASSUME NEW m \in Machine
  PROVE  [m EXCEPT !.cur = 1, !.out = "run"] \in Machine
<1>1. PICK c \in Nat \ {0} : c = 1
  OBVIOUS
<1>2. PICK o \in {"run", "input", "ok"} \cup Stops : o = "run"
  OBVIOUS
<1>3. [m EXCEPT !.cur = c, !.out = o] \in Machine
  BY DEF Machine
<1>. QED BY <1>1, <1>2, <1>3

(* A machine for the next value, at the cursor of the last one.            *)
LEMMA CursorType ==
  ASSUME NEW m, Walks(m), NEW c \in Nat \ {0}
  PROVE  Walks([m EXCEPT !.cur = c])
<1>1. m \in Machine
  BY DEF Walks
<1>2. [m EXCEPT !.cur = c] \in Machine
  BY <1>1 DEF Machine
<1>3. LET n == [m EXCEPT !.cur = c]
      IN  n.phase = m.phase /\ n.stack = m.stack /\ n.out = m.out
  BY <1>1 DEF Machine
<1>. QED BY <1>2, <1>3 DEF Walks

(* Nothing has been read, and nothing is kept.                             *)
LEMMA InitHolds == Init => IInv
<1>. SUFFICES ASSUME Init PROVE IInv
  OBVIOUS
<1>1. input \in Seq(Char) /\ rd = 0 /\ fs = NewFeed /\ pc = "idle"
  BY CaseAssumption DEF Init
<1>2. <<>> \in Seq(Char) /\ Len(<<>>) = 0
  BY EmptySeq
<1>3. PICK w \in Seq(Char) : w = <<>> /\ Len(w) = 0
  BY <1>2
<1>4. PICK s \in ScanResult : s = Scan(w, FALSE)
  BY ScanResultType
<1>5. PICK k \in Anchor : k = NoAnchor /\ ~k.found /\ ~k.armed
  <2>1. NoAnchor \in Anchor /\ ~NoAnchor.found /\ ~NoAnchor.armed
    BY <1>2 DEF NoAnchor, Anchor
  <2>. QED BY <2>1
<1>. DEFINE f == [win |-> w, base |-> 0, final |-> FALSE, sawEOF |-> FALSE, zero |-> 0,
                  scan |-> s, live |-> FALSE, consumed |-> 0, skip |-> k]
<1>6. fs = f
  BY <1>1, <1>3, <1>4, <1>5 DEF NewFeed
<1>7. f \in FeedState
  BY DEF FeedState
<1>8. f.win = w /\ f.base = 0 /\ f.consumed = 0 /\ f.skip = k /\ ~f.live
  OBVIOUS
<1>. HIDE DEF f
<1>9. IsPart(input, w, 0, 0)
  <2>1. IsPart(input, SubSeq(input, 0 + 1, 0), 0, 0)
    BY <1>1, PartIs, LenProperties
  <2>2. SubSeq(input, 0 + 1, 0) \in Seq(Char) /\ Len(SubSeq(input, 0 + 1, 0)) = 0
    BY <2>1 DEF IsPart
  <2>3. SubSeq(input, 0 + 1, 0) = w
    BY <1>3, <2>2, EmptySeq
  <2>. QED BY <2>1, <2>3
<1>10. Bytes
  BY <1>1, <1>3, <1>5, <1>6, <1>7, <1>8, <1>9 DEF Bytes, Windowed, Kept
<1>11. mach \in Machine
  <2>1. (CHOOSE t \in Types : TRUE) \in Types
    BY NilAssumption
  <2>2. mach = Bootstrap(CHOOSE t \in Types : TRUE)
    BY DEF Init
  <2>. QED BY <2>1, <2>2, BootstrapType DEF Walks
<1>. QED BY <1>1, <1>5, <1>6, <1>8, <1>10, <1>11 DEF IInv, Control, Fresh, Unarmed, Places

(* A return to the caller.                                                 *)
LEMMA ReturnHolds ==
  ASSUME IInv, input' = input, rd' \in Nat, NEW f, Windowed(input, f, rd'),
         NEW res, NEW pos, Return(f, res, pos), mach' = mach,
         f.live /\ err' = Nil => Mounted(f)
  PROVE  IInv'
<1>1. PICK g : /\ g = [f EXCEPT !.skip = NoAnchor]
               /\ Windowed(input, g, rd') /\ Kept(input, g) /\ g.live = f.live
               /\ ~g.skip.found /\ ~g.skip.armed
               /\ g.win = f.win /\ g.final = f.final /\ g.scan = f.scan
  BY ReturnKeeps DEF IInv, Bytes
<1>2. fs' = g /\ pc' = "idle"
  BY <1>1 DEF Return, Goto
<1>3. Bytes'
  BY <1>1, <1>2 DEF IInv, Bytes
<1>4. Control'
  BY <1>2 DEF IInv, Control, Places
<1>5. Mounted(f) => Mounted(g)
  BY <1>1 DEF Mounted
<1>. QED BY <1>1, <1>2, <1>3, <1>4, <1>5 DEF IInv, Fresh, Unarmed

(* A step to failDecode.                                                   *)
LEMMA FailHolds ==
  ASSUME IInv, input' = input, rd' \in Nat, NEW f, Windowed(input, f, rd'), Kept(input, f),
         NEW kind \in Results, NEW pos, Fail(f, kind, pos), mach' = mach,
         kind = "type" => Mounted(f)
  PROVE  IInv'
<1>1. fs' = f /\ pc' = "fail" /\ cause'.kind = kind
  BY DEF Fail, Goto
<1>2. Bytes'
  BY <1>1 DEF IInv, Bytes
<1>. QED BY <1>1, <1>2 DEF IInv, Control, Fresh, Unarmed, Places

(* serveInput, from the positioning of a value or from the walk.           *)
LEMMA ServeHolds ==
  ASSUME IInv, NEW l \in {"position", "walk"}, pc = l, ServeInput(l), input' = input,
         type' = type, err' = err, l = "walk" => mach.out = "input"
  PROVE  IInv'
<1>1. Mounted(fs) /\ mach \in Machine /\ fs \in FeedState /\ input \in Seq(Char) /\ rd \in Nat
  BY DEF IInv, Fresh, Control, Bytes, Windowed
<1>2. PICK cut : cut = Unconsumed(fs, mach) /\ cut \in 0 .. Len(fs.win)
  BY <1>1, UnconsumedType
<1>3. PICK c : /\ c = Compact(fs, cut) /\ Windowed(input, c, rd) /\ Kept(input, c)
               /\ c.live = fs.live /\ (~fs.skip.armed => c.skip = fs.skip)
  BY <1>1, <1>2, CompactKeeps DEF IInv, Bytes
<1>4. PICK r \in Fills(c) :
        LET f == Mount(r.f) IN
        /\ rd' = rd + r.n
        /\ \/ r.err # "none" /\ Fail(r.f, r.err, 0) /\ mach' = mach
           \/ r.err = "none" /\ ~f.scan.ok /\ Fail(f, "eof", 0) /\ mach' = mach
           \/ /\ fs' = f
              /\ mach' = [mach EXCEPT !.cur = 1, !.out = "run"]
              /\ pc' = l
  BY <1>2, <1>3 DEF ServeInput, Goto
<1>5. PICK g : /\ g = r.f /\ Windowed(input, g, rd + r.n) /\ Kept(input, g)
               /\ g.skip = c.skip /\ g.live = c.live
               /\ r.err \in {"none", "reader", "noProgress"}
  BY <1>1, <1>3, FillsKeep
<1>6. PICK f : /\ f = Mount(g) /\ Windowed(input, f, rd + r.n) /\ Kept(input, f)
               /\ Mounted(f) /\ f.live = g.live /\ f.skip = g.skip
  BY <1>5, MountKeeps
<1>7. rd' \in Nat
  BY <1>4, <1>5 DEF Windowed, IsPart
<1>8. CASE r.err # "none" /\ Fail(r.f, r.err, 0) /\ mach' = mach
  <2>1. r.err \in Results /\ r.err # "type"
    BY <1>5 DEF Results
  <2>. QED BY <1>4, <1>5, <1>7, <1>8, <2>1, FailHolds
<1>9. CASE ~f.scan.ok /\ Fail(f, "eof", 0) /\ mach' = mach
  <2>1. "eof" \in Results
    BY DEF Results
  <2>. QED BY <1>4, <1>6, <1>7, <1>9, <2>1, FailHolds
<1>10. CASE fs' = f /\ mach' = [mach EXCEPT !.cur = 1, !.out = "run"] /\ pc' = l
  <2>1. Bytes'
    BY <1>1, <1>4, <1>6, <1>7, <1>10 DEF Bytes
  <2>2. mach' \in Machine /\ (l = "walk" => Walks(mach'))
    <3>1. mach' \in Machine
      <4>1. PICK m \in Machine : m = mach
        BY <1>1
      <4>2. [m EXCEPT !.cur = 1, !.out = "run"] \in Machine
        BY ResumeType
      <4>. QED BY <1>10, <4>1, <4>2
    <3>2. mach'.phase = mach.phase /\ mach'.stack = mach.stack /\ mach'.out = "run"
      BY <1>1, <1>10 DEF Machine
    <3>3. l = "walk" => Walks(mach) /\ mach.out = "input"
      BY DEF IInv, Control
    <3>. QED BY <3>1, <3>2, <3>3 DEF Walks
  <2>3. Control'
    BY <1>10, <2>2 DEF IInv, Control, Places
  <2>4. Fresh'
    BY <1>6, <1>10 DEF Fresh
  <2>5. Unarmed'
    <3>1. pc = "position" => ~fs.skip.found /\ ~fs.skip.armed
      BY DEF IInv, Unarmed
    <3>. QED BY <1>3, <1>5, <1>6, <1>10, <3>1 DEF Unarmed
  <2>. QED BY <2>1, <2>3, <2>4, <2>5 DEF IInv
<1>. QED BY <1>4, <1>5, <1>6, <1>8, <1>9, <1>10

(* A call of Decode.                                                       *)
LEMMA DecodeHolds ==
  ASSUME IInv, NEW t \in Types, DecodeLive(t) \/ DecodeFresh(t)
  PROVE  IInv'
<1>1. CASE DecodeLive(t)
  <2>1. /\ pc' = "position" /\ pc = "idle" /\ err = Nil /\ fs.live /\ type = t
        /\ UNCHANGED <<input, rd, fs, mach, type, err, cause>>
    BY <1>1 DEF DecodeLive, given, Goto
  <2>2. Bytes'
    BY <2>1 DEF IInv, Bytes
  <2>3. Control'
    BY <2>1 DEF IInv, Control, Places
  <2>4. Mounted(fs) /\ ~fs.skip.found /\ ~fs.skip.armed
    BY <2>1 DEF IInv, Fresh, Unarmed
  <2>. QED BY <2>1, <2>2, <2>3, <2>4 DEF IInv, Fresh, Unarmed
<1>2. CASE DecodeFresh(t)
  <2>1. /\ pc' = "skipToValue" /\ pc = "idle" /\ type' = t
        /\ UNCHANGED <<input, rd, err, cause>>
        /\ mach' = IF type = t THEN mach ELSE Bootstrap(t)
        /\ fs' = Compact([fs EXCEPT !.live = FALSE], fs.consumed)
    BY <1>2 DEF DecodeFresh, given, Goto
  <2>2. PICK f : /\ f = [fs EXCEPT !.live = FALSE] /\ Windowed(input, f, rd) /\ Kept(input, f)
                 /\ ~f.live /\ f.skip = fs.skip /\ f.win = fs.win /\ f.consumed = fs.consumed
    BY LiveKeeps DEF IInv, Bytes
  <2>3. PICK cut \in 0 .. Len(f.win) : cut = fs.consumed
    BY <2>2, LenProperties DEF Windowed, FeedState
  <2>4. PICK g : /\ g = Compact(f, cut) /\ Windowed(input, g, rd) /\ Kept(input, g)
                 /\ g.live = f.live /\ (~f.skip.armed => g.skip = f.skip)
    BY <2>2, <2>3, CompactKeeps DEF IInv, Bytes
  <2>5. fs' = g
    BY <2>1, <2>2, <2>3, <2>4
  <2>6. mach' \in Machine
    BY <2>1, BootstrapType DEF IInv, Control, Walks
  <2>7. ~fs.skip.found /\ ~fs.skip.armed
    BY <2>1 DEF IInv, Unarmed
  <2>8. Bytes'
    BY <2>1, <2>4, <2>5 DEF IInv, Bytes
  <2>9. Control'
    BY <2>1, <2>6 DEF Control, Places
  <2>. QED BY <2>1, <2>2, <2>4, <2>5, <2>7, <2>8, <2>9 DEF IInv, Fresh, Unarmed
<1>. QED BY <1>1, <1>2

(* skipToValue: the first byte of a value is in the window.                *)
LEMMA SkipToValueHolds ==
  ASSUME IInv, SkipToValueFound
  PROVE  IInv'
<1>1. /\ pc = "skipToValue" /\ ~Blank(fs.win)
      /\ UNCHANGED <<input, rd, type, err>>
      /\ ~fs.skip.found /\ type \in Types /\ rd \in Nat
  BY DEF SkipToValueFound, given, IInv, Unarmed, Control, Bytes
<1>2. SkipWS(fs.win) \in Nat
  <2>. DEFINE S == {o \in Offsets(fs.win) : At(fs.win, o) \notin Space}
  <2>1. fs.win \in Seq(Char) /\ Len(fs.win) \in Nat
    BY LenProperties DEF IInv, Bytes, Windowed, FeedState
  <2>2. PICK i \in 1 .. Len(fs.win) : fs.win[i] \notin Space
    BY <1>1 DEF Blank
  <2>3. i - 1 \in Offsets(fs.win) /\ At(fs.win, i - 1) = fs.win[i]
    BY <2>1 DEF Offsets, At
  <2>4. S # {} /\ S \subseteq Nat
    BY <2>1, <2>2, <2>3 DEF Offsets
  <2>5. Min(S) \in Nat
    BY <2>4, MinNatural
  <2>. QED BY <1>1, <2>5 DEF SkipWS
<1>3. PICK a : /\ a = Arm(fs, SkipWS(fs.win)) /\ Windowed(input, a, rd) /\ Kept(input, a)
  BY <1>1, <1>2, ArmKeeps DEF IInv, Bytes
<1>4. PICK f : /\ f = Mount(a) /\ Windowed(input, f, rd) /\ Kept(input, f) /\ Mounted(f)
  BY <1>3, MountKeeps
<1>5. \/ fs' = [f EXCEPT !.live = TRUE] /\ mach' = Bootstrap(type) /\ pc' = "walk"
      \/ Fail(f, "eof", 0) /\ mach' = mach
  BY <1>3, <1>4 DEF SkipToValueFound, Goto
<1>6. CASE Fail(f, "eof", 0) /\ mach' = mach
  <2>1. "eof" \in Results
    BY DEF Results
  <2>. QED BY <1>1, <1>4, <1>6, <2>1, FailHolds
<1>7. CASE fs' = [f EXCEPT !.live = TRUE] /\ mach' = Bootstrap(type) /\ pc' = "walk"
  <2>1. PICK g : /\ g = [f EXCEPT !.live = TRUE] /\ Windowed(input, g, rd) /\ Kept(input, g)
                 /\ Mounted(g)
    BY <1>4, LiveKeeps
  <2>2. Bytes'
    BY <1>1, <1>7, <2>1 DEF IInv, Bytes
  <2>3. Walks(mach')
    BY <1>1, <1>7, BootstrapType
  <2>4. Control'
    BY <1>7, <2>3 DEF Control, Walks, Places
  <2>. QED BY <1>7, <2>1, <2>2, <2>4 DEF IInv, Fresh, Unarmed
<1>. QED BY <1>5, <1>6, <1>7

(* A read that follows a discarded window, in skipToValue, skipToNewline   *)
(* and More: the walk goes on where it was, or the call returns.           *)
LEMMA RefillHolds ==
  ASSUME IInv, pc \in {"skipToValue", "skipToNewline", "more"}, ~fs.skip.found,
         NEW r \in Fills(Discard(fs)), rd' = rd + r.n, fs' = r.f,
         UNCHANGED <<input, mach, type, cause>>, pc' = pc \/ (pc = "more" /\ pc' = "idle")
  PROVE  IInv'
<1>1. PICK d : /\ d = Discard(fs) /\ Windowed(input, d, rd) /\ d.live = fs.live
               /\ d.skip = fs.skip
  BY DiscardKeeps DEF IInv, Bytes
<1>2. Kept(input, d)
  BY <1>1 DEF Kept
<1>3. PICK g : /\ g = r.f /\ Windowed(input, g, rd + r.n) /\ Kept(input, g)
               /\ g.skip = d.skip /\ g.live = d.live
  BY <1>1, <1>2, FillsKeep DEF IInv, Bytes
<1>4. Bytes'
  BY <1>3 DEF IInv, Bytes, Windowed, IsPart
<1>5. Control'
  BY DEF IInv, Control, Places
<1>6. ~fs.live
  BY DEF IInv, Fresh
<1>. QED BY <1>1, <1>3, <1>4, <1>5, <1>6 DEF IInv, Fresh, Unarmed

(* The same read when it fails: the error is kept and returned.            *)
LEMMA RefillFails ==
  ASSUME IInv, pc \in {"skipToValue", "skipToNewline"}, ~fs.skip.found,
         NEW r \in Fills(Discard(fs)), rd' = rd + r.n, Return(r.f, r.err, 0),
         UNCHANGED <<input, mach, type, cause>>
  PROVE  IInv'
<1>1. PICK d : /\ d = Discard(fs) /\ Windowed(input, d, rd) /\ d.live = fs.live
  BY DiscardKeeps DEF IInv, Bytes
<1>2. PICK g : /\ g = r.f /\ Windowed(input, g, rd + r.n) /\ g.live = d.live
  BY <1>1, FillsKeep DEF IInv, Bytes
<1>3. ~fs.live
  BY DEF IInv, Fresh
<1>4. rd' \in Nat
  BY <1>2 DEF Windowed, IsPart
<1>. QED BY <1>1, <1>2, <1>3, <1>4, ReturnHolds

(* The positioning of a value in a live window.                            *)
LEMMA PositionHolds ==
  ASSUME IInv, PositionFound \/ PositionEnd \/ PositionRead
  PROVE  IInv'
<1>1. /\ Bytes /\ mach \in Machine /\ (pc = "position" => Mounted(fs))
      /\ pc = "position" => ~fs.skip.found /\ type \in Types
  BY DEF IInv, Control, Fresh, Unarmed
<1>2. CASE PositionFound
  <2>1. /\ pc = "position" /\ UNCHANGED <<input, rd, type, err, cause>>
        /\ fs' = Arm(fs, Pos(mach, View(fs)))
        /\ mach' = [Bootstrap(type) EXCEPT !.cur = mach.cur] /\ pc' = "walk"
    BY <1>2 DEF PositionFound, given, Goto
  <2>2. fs \in FeedState /\ Mounted(fs) /\ mach \in Machine
    BY <1>1, <2>1 DEF Bytes, Windowed, IInv, Control
  <2>3. PICK o \in Nat : o = Pos(mach, View(fs))
    <3>1. Pos(mach, View(fs)) \in 0 .. Len(View(fs).win)
      BY <2>2, ViewType, PosType
    <3>. QED BY <2>2, <3>1, ViewType, LenProperties DEF FeedState
  <2>4. PICK g : /\ g = Arm(fs, o) /\ Windowed(input, g, rd) /\ Kept(input, g) /\ Mounted(g)
    BY <1>1, <2>1, <2>2, ArmKeeps DEF IInv, Bytes
  <2>5. fs' = g
    BY <2>1, <2>3, <2>4
  <2>6. Walks(mach')
    <3>1. PICK c \in Nat \ {0} : c = mach.cur
      BY <2>2 DEF Machine
    <3>. QED BY <1>1, <2>1, <3>1, BootstrapType, CursorType
  <2>7. Bytes'
    BY <2>1, <2>4, <2>5 DEF IInv, Bytes
  <2>8. Control'
    BY <2>1, <2>6 DEF Control, Walks, Places
  <2>. QED BY <2>1, <2>4, <2>5, <2>7, <2>8 DEF IInv, Fresh, Unarmed
<1>3. CASE PositionEnd
  <2>1. /\ pc = "position" /\ UNCHANGED <<input, rd, mach, err>> /\ Return(fs, "EOF", 0)
    BY <1>3 DEF PositionEnd, given
  <2>2. Mounted(fs) /\ Windowed(input, fs, rd') /\ rd' \in Nat
    BY <2>1 DEF IInv, Fresh, Bytes
  <2>. QED BY <2>1, <2>2, ReturnHolds
<1>4. CASE PositionRead
  <2>1. /\ pc = "position" /\ input' = input /\ type' = type /\ err' = err
        /\ ServeInput("position")
    BY <1>4 DEF PositionRead, given
  <2>. QED BY <2>1, ServeHolds
<1>. QED BY <1>2, <1>3, <1>4

(* The walk.                                                               *)
LEMMA WalkHolds ==
  ASSUME IInv, WalkStep \/ WalkInput \/ WalkDone \/ WalkError
  PROVE  IInv'
<1>1. /\ pc = "walk" /\ input' = input /\ type' = type /\ err' = err
  BY DEF WalkStep, WalkInput, WalkDone, WalkError, given
<1>2. /\ Bytes /\ mach \in Machine /\ Walks(mach) /\ Mounted(fs) /\ fs \in FeedState
      /\ Windowed(input, fs, rd) /\ Kept(input, fs) /\ rd \in Nat
  BY <1>1 DEF IInv, Bytes, Control, Fresh, Windowed
<1>3. CASE WalkStep
  <2>1. /\ mach.out = "run" /\ mach' = Step(mach, View(fs))
        /\ UNCHANGED <<input, rd, fs, pc, cause>>
    BY <1>3 DEF WalkStep, given
  <2>2. Walks(mach')
    BY <1>2, <2>1, ViewType, StepType
  <2>3. Bytes'
    BY <1>2, <2>1 DEF Bytes
  <2>4. Control'
    BY <1>1, <2>1, <2>2 DEF Control, Walks, Places
  <2>. QED BY <1>1, <1>2, <2>1, <2>3, <2>4 DEF IInv, Fresh, Unarmed
<1>4. CASE WalkInput
  <2>1. mach.out = "input" /\ ServeInput("walk")
    BY <1>4 DEF WalkInput
  <2>. QED BY <1>1, <2>1, ServeHolds
<1>5. CASE WalkDone
  <2>1. /\ UNCHANGED <<rd, mach>>
        /\ Return([fs EXCEPT !.consumed = Unconsumed(fs, mach)], "ok", 0)
    BY <1>5 DEF WalkDone
  <2>2. PICK c \in 0 .. Len(fs.win) : c = Unconsumed(fs, mach)
    BY <1>2, UnconsumedType
  <2>3. PICK f : /\ f = [fs EXCEPT !.consumed = c] /\ Windowed(input, f, rd)
                 /\ f.win = fs.win /\ f.final = fs.final /\ f.scan = fs.scan
    <3>1. PICK f : f = [fs EXCEPT !.consumed = c]
      OBVIOUS
    <3>. QED BY <1>2, <3>1, ConsumedKeeps
  <2>4. Mounted(f) /\ Return(f, "ok", 0)
    BY <1>2, <2>1, <2>2, <2>3 DEF Mounted
  <2>. QED BY <1>1, <1>2, <2>1, <2>3, <2>4, ReturnHolds
<1>6. CASE WalkError
  <2>1. /\ UNCHANGED <<rd, mach>> /\ mach.out \in {"syntax", "eof", "type"}
        /\ Fail(fs, mach.out, IF mach.promoted THEN mach.pos ELSE mach.pos + fs.base)
    BY <1>6 DEF WalkError
  <2>2. mach.out \in Results
    BY <2>1 DEF Results
  <2>. QED BY <1>1, <1>2, <2>1, <2>2, FailHolds
<1>. QED BY <1>3, <1>4, <1>5, <1>6

(* failDecode: skip the line, keep the value boundary, or stick.           *)
LEMMA FailDecodeHolds ==
  ASSUME IInv, FailSkip \/ FailConsumed \/ FailSticky
  PROVE  IInv'
<1>1. /\ pc = "fail" /\ UNCHANGED <<input, rd, mach, type, cause>>
  BY DEF FailSkip, FailConsumed, FailSticky, given
<1>2. /\ mach \in Machine /\ fs \in FeedState /\ cause.kind \in Results
      /\ Windowed(input, fs, rd) /\ Kept(input, fs) /\ rd \in Nat /\ input \in Seq(Char)
      /\ cause.kind = "type" => Mounted(fs)
  BY <1>1 DEF IInv, Bytes, Control, Fresh, Windowed
<1>3. CASE FailSkip
  <2>1. fs' = [fs EXCEPT !.live = FALSE] /\ pc' = "skipToNewline"
    BY <1>3 DEF FailSkip, Goto
  <2>2. PICK f : /\ f = [fs EXCEPT !.live = FALSE] /\ Windowed(input, f, rd)
                 /\ Kept(input, f) /\ ~f.live
    BY <1>2, LiveKeeps
  <2>3. Bytes'
    BY <1>1, <1>2, <2>1, <2>2 DEF Bytes
  <2>4. Control'
    BY <1>1, <1>2, <2>1 DEF Control, Places
  <2>. QED BY <2>1, <2>2, <2>3, <2>4 DEF IInv, Fresh, Unarmed
<1>4. CASE FailConsumed
  <2>1. /\ err' = err /\ cause.kind = "type"
        /\ Return([fs EXCEPT !.consumed = Unconsumed(fs, mach)], cause.kind, cause.pos)
    BY <1>4 DEF FailConsumed, WalkCompleted
  <2>2. Mounted(fs)
    BY <1>2, <2>1
  <2>3. PICK c \in 0 .. Len(fs.win) : c = Unconsumed(fs, mach)
    BY <1>2, <2>2, UnconsumedType
  <2>4. PICK f : /\ f = [fs EXCEPT !.consumed = c] /\ Windowed(input, f, rd)
                 /\ f.win = fs.win /\ f.final = fs.final /\ f.scan = fs.scan
    <3>1. PICK f : f = [fs EXCEPT !.consumed = c]
      OBVIOUS
    <3>. QED BY <1>2, <3>1, ConsumedKeeps
  <2>5. Mounted(f) /\ Return(f, cause.kind, cause.pos)
    BY <2>1, <2>2, <2>3, <2>4 DEF Mounted
  <2>. QED BY <1>1, <1>2, <2>4, <2>5, ReturnHolds
<1>5. CASE FailSticky
  <2>1. err' = cause.kind /\ Return(fs, cause.kind, cause.pos)
    BY <1>5 DEF FailSticky
  <2>2. err' # Nil
    BY <1>2, <2>1, NilAssumption
  <2>. QED BY <1>1, <1>2, <2>1, <2>2, ReturnHolds
<1>. QED BY <1>3, <1>4, <1>5

(* skipToNewline: restage what was kept, cut in the window, or read on.    *)
LEMMA SkipToNewlineHolds ==
  ASSUME IInv, SkipRestage \/ SkipInWindow \/ SkipAtEnd \/ SkipRead
  PROVE  IInv'
<1>1. /\ pc = "skipToNewline" /\ UNCHANGED <<input, mach, type, cause>>
  BY DEF SkipRestage, SkipInWindow, SkipAtEnd, SkipRead, given
<1>2. /\ fs \in FeedState /\ ~fs.live
      /\ Windowed(input, fs, rd) /\ Kept(input, fs) /\ rd \in Nat /\ input \in Seq(Char)
  BY <1>1 DEF IInv, Bytes, Control, Fresh, Windowed
<1>3. CASE SkipRestage
  <2>1. fs.skip.found /\ rd' = rd /\ Return(Restage(fs), cause.kind, cause.pos)
    BY <1>3 DEF SkipRestage
  <2>2. PICK f : f = Restage(fs) /\ Windowed(input, f, rd) /\ ~f.live
    BY <1>2, <2>1, RestageKeeps
  <2>. QED BY <1>1, <1>2, <2>1, <2>2, ReturnHolds
<1>4. CASE SkipInWindow
  <2>. DEFINE cut == Min(LinesAhead) + 1
              f == [fs EXCEPT !.win = SubSeq(@, cut + 1, Len(@)), !.base = @ + cut, !.consumed = 0]
  <2>1. LinesAhead # {} /\ rd' = rd /\ Return(f, cause.kind, cause.pos)
    BY <1>4 DEF SkipInWindow
  <2>2. PICK w \in Seq(Char), b \in Nat : w = fs.win /\ b = fs.base /\ IsPart(input, w, b, rd) /\ Len(w) \in Nat
    BY <1>2, LenProperties DEF Windowed, FeedState
  <2>3. SkipStart \in Nat
    BY <1>2, AnchorOffsetType DEF SkipStart, FeedState
  <2>4. PICK m \in Nat : m = Min(LinesAhead) /\ m < Len(w)
    BY <2>1, <2>2, <2>3, NewlinesType DEF LinesAhead
  <2>5. PICK c \in Nat : c = cut /\ c <= Len(w) /\ b + c \in Nat
    <3>1. m + 1 \in Nat /\ m + 1 <= Len(w) /\ b + (m + 1) \in Nat
      BY <2>2, <2>4
    <3>. QED BY <2>4, <3>1
  <2>6. PICK t \in Seq(Char) : t = SubSeq(w, c + 1, Len(w)) /\ IsPart(input, t, b + c, rd)
    <3>1. IsPart(input, SubSeq(w, c + 1, Len(w)), b + c, b + Len(w))
      BY <1>2, <2>2, <2>5, PartCut
    <3>2. b + Len(w) = rd
      BY <2>2 DEF IsPart
    <3>. QED BY <3>1, <3>2 DEF IsPart
  <2>7. PICK k \in Nat : k = b + c
    BY <2>5
  <2>. DEFINE g == [fs EXCEPT !.win = t, !.base = k, !.consumed = 0]
  <2>8. f = g
    BY <2>2, <2>5, <2>6, <2>7
  <2>9. g \in FeedState
    BY <1>2 DEF FeedState
  <2>10. g.win = t /\ g.base = k /\ g.consumed = 0 /\ g.live = fs.live
    BY <1>2 DEF FeedState
  <2>. HIDE DEF f, g, cut
  <2>11. Windowed(input, g, rd)
    BY <2>6, <2>7, <2>9, <2>10, LenProperties DEF Windowed
  <2>. QED BY <1>1, <1>2, <2>1, <2>8, <2>10, <2>11, ReturnHolds
<1>5. CASE SkipAtEnd
  <2>1. rd' = rd /\ Return(Discard(fs), cause.kind, cause.pos)
    BY <1>5 DEF SkipAtEnd
  <2>2. PICK f : f = Discard(fs) /\ Windowed(input, f, rd) /\ ~f.live
    BY <1>2, DiscardKeeps
  <2>. QED BY <1>1, <1>2, <2>1, <2>2, ReturnHolds
<1>6. CASE SkipRead
  <2>1. PICK r \in Fills(Discard(fs)) :
          /\ rd' = rd + r.n
          /\ \/ fs' = r.f /\ pc' = pc
             \/ Return(r.f, r.err, 0)
    BY <1>6 DEF SkipRead
  <2>2. ~fs.skip.found
    BY <1>6 DEF SkipRead
  <2>. QED BY <1>1, <2>1, <2>2, RefillHolds, RefillFails
<1>. QED BY <1>3, <1>4, <1>5, <1>6

(* skipToValue at a blank window.                                          *)
LEMMA SkipBlankHolds ==
  ASSUME IInv, SkipToValueEnd \/ SkipToValueRead
  PROVE  IInv'
<1>1. /\ pc = "skipToValue" /\ UNCHANGED <<input, mach, type, cause>>
      /\ ~fs.skip.found /\ ~fs.live
  BY DEF SkipToValueEnd, SkipToValueRead, given, IInv, Unarmed, Fresh
<1>2. CASE SkipToValueEnd
  <2>1. rd' = rd /\ Return(fs, "EOF", 0)
    BY <1>2 DEF SkipToValueEnd
  <2>2. Windowed(input, fs, rd) /\ rd \in Nat
    BY DEF IInv, Bytes
  <2>. QED BY <1>1, <2>1, <2>2, ReturnHolds
<1>3. CASE SkipToValueRead
  <2>1. PICK r \in Fills(Discard(fs)) :
          /\ rd' = rd + r.n
          /\ \/ fs' = r.f /\ pc' = pc
             \/ Return(r.f, r.err, 0)
    BY <1>3 DEF SkipToValueRead
  <2>. QED BY <1>1, <2>1, RefillHolds, RefillFails
<1>. QED BY <1>2, <1>3

(* More, and a Decode after a sticky error.                                *)
LEMMA MoreHolds ==
  ASSUME IInv, MoreLive \/ MoreCall \/ MoreFound \/ MoreRead \/ DecodeSticky
  PROVE  IInv'
<1>1. CASE MoreLive \/ DecodeSticky
  <2>1. UNCHANGED <<input, rd, fs, mach, type, err, pc, cause>>
    BY <1>1 DEF MoreLive, DecodeSticky, given, vars
  <2>. QED BY <2>1 DEF IInv, Bytes, Control, Fresh, Unarmed
<1>2. CASE MoreCall
  <2>1. /\ pc = "idle" /\ err = Nil /\ pc' = "more" /\ UNCHANGED <<input, rd, mach, type, err, cause>>
        /\ fs' = Compact([fs EXCEPT !.live = FALSE],
                         IF fs.live THEN Unconsumed(fs, mach) ELSE fs.consumed)
    BY <1>2 DEF MoreCall, given, Goto
  <2>2. /\ fs.live => Mounted(fs)
        /\ fs \in FeedState /\ mach \in Machine /\ Windowed(input, fs, rd) /\ Kept(input, fs)
        /\ input \in Seq(Char) /\ ~fs.skip.found /\ ~fs.skip.armed
    BY <2>1 DEF IInv, Fresh, Control, Bytes, Windowed, Unarmed
  <2>3. PICK cut \in 0 .. Len(fs.win) : cut = IF fs.live THEN Unconsumed(fs, mach) ELSE fs.consumed
    <3>1. fs.consumed \in 0 .. Len(fs.win)
      BY <2>2, LenProperties DEF Windowed, FeedState
    <3>2. fs.live => Unconsumed(fs, mach) \in 0 .. Len(fs.win)
      BY <2>2, UnconsumedType
    <3>. QED BY <3>1, <3>2
  <2>4. PICK f : /\ f = [fs EXCEPT !.live = FALSE] /\ Windowed(input, f, rd) /\ Kept(input, f)
                 /\ ~f.live /\ f.skip = fs.skip /\ f.win = fs.win
    BY <2>2, LiveKeeps
  <2>5. PICK g : /\ g = Compact(f, cut) /\ Windowed(input, g, rd) /\ Kept(input, g)
                 /\ g.live = f.live /\ (~f.skip.armed => g.skip = f.skip)
    <3>1. /\ input \in Seq(Char) /\ Windowed(input, f, rd) /\ Kept(input, f)
          /\ cut \in 0 .. Len(f.win)
      BY <2>2, <2>4
    <3>. QED BY ONLY <3>1, CompactKeeps
  <2>6. fs' = g
    BY <2>1, <2>3, <2>4, <2>5
  <2>7. Bytes'
    BY <2>1, <2>5, <2>6 DEF IInv, Bytes
  <2>8. Control'
    BY <2>1, <2>2 DEF Control, Places
  <2>. QED BY <2>1, <2>2, <2>4, <2>5, <2>6, <2>7, <2>8 DEF IInv, Fresh, Unarmed
<1>3. CASE MoreFound
  <2>1. /\ pc = "more" /\ pc' = "idle" /\ UNCHANGED <<input, rd, fs, mach, type, err, cause>>
    BY <1>3 DEF MoreFound, given, Goto
  <2>2. ~fs.live /\ ~fs.skip.found /\ ~fs.skip.armed
    BY <2>1 DEF IInv, Fresh, Unarmed
  <2>3. Bytes' /\ Control'
    BY <2>1 DEF IInv, Bytes, Control, Places
  <2>. QED BY <2>1, <2>2, <2>3 DEF IInv, Fresh, Unarmed
<1>4. CASE MoreRead
  <2>1. PICK r \in Fills(Discard(fs)) :
          rd' = rd + r.n /\ fs' = r.f /\ (pc' = pc \/ pc' = "idle")
    BY <1>4 DEF MoreRead, Goto
  <2>2. pc = "more" /\ UNCHANGED <<input, mach, type, cause>> /\ ~fs.skip.found
    BY <1>4 DEF MoreRead, given, IInv, Unarmed
  <2>. QED BY <2>1, <2>2, RefillHolds
<1>. QED BY <1>1, <1>2, <1>3, <1>4

(* The window stays the part of the document between its base and the      *)
(* bytes read, and what recovery kept the part right before it, for every  *)
(* document, chunking, failing reader, target type and skip predicate:     *)
(* compaction, refills and restaging neither lose, repeat nor move a byte. *)
THEOREM NoByteMoved == Spec => []WindowFaithful
<1>1. Init => IInv
  BY InitHolds
<1>2. ASSUME IInv, [Next]_vars PROVE IInv'
  <2>1. CASE Next
    BY <1>2, <2>1, DecodeHolds, SkipToValueHolds, SkipBlankHolds, PositionHolds, WalkHolds,
       FailDecodeHolds, SkipToNewlineHolds, MoreHolds DEF Next, Call, Busy
  <2>2. CASE UNCHANGED vars
    <3>1. UNCHANGED <<input, rd, fs, mach, type, err, pc, cause>>
      BY <2>2 DEF vars, given
    <3>. QED BY <1>2, <3>1 DEF IInv, Bytes, Control, Fresh, Unarmed
  <2>. QED BY <1>2, <2>1, <2>2
<1>3. IInv => WindowFaithful
  BY DEF IInv, Bytes, Windowed, Kept, IsPart, WindowFaithful
<1>. QED BY <1>1, <1>2, <1>3, PTL DEF Spec
=============================================================================
