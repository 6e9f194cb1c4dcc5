----------------------------- MODULE EncInterp ------------------------------
(***************************************************************************)
(* The encoder's Go engine: the blueprint interpreter (venc/interp.go),    *)
(* the nesting of runs (exec in venc/encode.go), inline variants           *)
(* (venc/vm_exec.go), the encode function bound to every type              *)
(* (venc/encode_fn.go, venc/encode_primitives.go) and the walk of a parsed *)
(* value's tape (venc/tape_walk.go).  It serves every encode the native VM *)
(* does not: builds without it, indents it cannot synthesize, and the runs *)
(* nested under a Go fallback.                                             *)
(*                                                                         *)
(* Memory is a tree of blocks.  A block is a sequence of cells, an address *)
(* [blk, off] names the cells from off on, and a cell is                   *)
(*   [c |-> "s", v |-> a literal]        a scalar, a text or a marshaler   *)
(*   [c |-> "p", to |-> blocks]          a pointer: <<>> is nil            *)
(*   [c |-> "l", data |-> blocks, n]     a slice header: <<>> is nil       *)
(*   [c |-> "m", m |-> <<>> or <<entries>>]  a map, entries [key, blk]     *)
(*   [c |-> "i", t |-> type, to |-> blocks]  an interface: <<>> is nil     *)
(*   [c |-> "d", doc |-> <<>> or <<document>>]  a value.Value              *)
(* A literal is its JSON text, so "0", "" and "false" are the zero values. *)
(* The output is a sequence of tokens: nl stands for a line break and its  *)
(* indentation, d its depth.                                               *)
(***************************************************************************)
EXTENDS EncCompile

CONSTANT MaxDepth     \* VJ_MAX_STACK_DEPTH, of a stack and of nested runs

Tok(k, s) == [t |-> k, s |-> s, d |-> 0]
NL(d) == [t |-> "nl", s |-> "", d |-> d]
Null == Tok("v", "null")

(***************************************************************************)
(* The encodeState: out is es.buf, ind es.indentDepth, indent whether an   *)
(* indent string is set, exec es.execDepth, inv the child invocations, ctx *)
(* the stacks of the root context and of each child invocation, and err    *)
(* how the encode ended.                                                   *)
(* A frame's union of payloads is kept by its words.                       *)
(***************************************************************************)
NilBase == [blk |-> <<>>, off |-> 0]
CleanFrame == [ret |-> NilBase, p0 |-> NilBase, pc |-> 0, keep |-> 0, count |-> 0, bp |-> <<>>, idx |-> 0]
CleanCtx == [i \in 1..MaxDepth |-> CleanFrame]

Put(es, toks) == [es EXCEPT !.out = @ \o toks]
Fail(es, e) == [es EXCEPT !.err = e]
Ok(es) == es.err = ""
appendNewlineIndent(es) == Put(es, <<NL(es.ind)>>)
\* What precedes a value: a comma, a line break, a key and its space.
Prefixed(es, comma, break, key) ==
    Put(es, (IF comma THEN <<Tok(",", "")>> ELSE <<>>) \o (IF break THEN <<NL(es.ind)>> ELSE <<>>)
              \o (IF key = "" THEN <<>> ELSE <<Tok("k", key)>>)
              \o (IF key # "" /\ es.indent THEN <<Tok("sp", "")>> ELSE <<>>))
\* Mutant: opening a container does not deepen the indent.
BugIn(es, by) == es
In(es, by) == IF es.indent THEN [es EXCEPT !.ind = @ + by] ELSE es
Out(es) == IF es.indent THEN [es EXCEPT !.ind = @ - 1] ELSE es

\* A cell read at an address; reading past the block, or a cell of another
\* shape, is a read of memory that holds something else.
Cell(p) == IF p.off + 1 \in DOMAIN p.blk THEN p.blk[p.off + 1] ELSE [c |-> "wild"]
At(p, off) == [p EXCEPT !.off = @ + off]
Start(blk) == [blk |-> blk, off |-> 0]

\* The pointer word of any cell: zero bits are nil whatever the cell holds.
IsNilWord(c) ==
    CASE c.c = "p" -> c.to = <<>> [] c.c = "l" -> c.data = <<>> [] c.c = "m" -> c.m = <<>>
      [] c.c = "i" -> c.to = <<>> [] c.c = "d" -> c.doc = <<>>
      [] c.c = "s" -> c.v \in {"0", "", "false"} [] OTHER -> FALSE
Pointee(c) ==
    CASE c.c = "p" -> Start(c.to[1]) [] c.c = "l" -> Start(c.data[1]) [] OTHER -> Start(<<>>)

RECURSIVE resolveFieldBase(_, _)
resolveFieldBase(base, path) ==
    IF path = <<>> THEN <<base>>
    ELSE LET c == Cell(At(base, Head(path)))
         IN  IF IsNilWord(c) THEN <<>> ELSE resolveFieldBase(Pointee(c), Tail(path))

(***************************************************************************)
(* Zero checks: the tag of SKIP_IF_ZERO, the omitempty closure of a kind,  *)
(* and the omitzero closure, an IsZero method (the literal "zero" is what  *)
(* such a type's method takes for zero) or a walk over the value.          *)
(***************************************************************************)
interpIsZero(c, tag) ==
    CASE tag \in {"Bool", "Int", "Int8", "Float"} -> c.v \in {"0", "false"}
      [] tag \in {"String", "Number", "RawMessage"} -> c.v \in {"", "nil"}
      [] tag \in {"OZSlice"} -> c.data = <<>>
      [] tag = "OZRaw" -> c.v = "nil"
      [] tag = "OZMap" -> c.m = <<>>
      [] tag \in {"Slice", "Bytes"} -> c.data = <<>> \/ c.n = 0
      [] tag = "Map" -> c.m = <<>> \/ c.m[1] = <<>>
      [] tag = "Pointer" -> c.to = <<>>
      [] tag \in {"Any", "Iface"} -> c.to = <<>>
      [] OTHER -> FALSE

\* The omitempty closure of a type, for the fields that reach Go.
IsZeroFn(t, c) == interpIsZero(c, T[t].kind)

RECURSIVE ReflectZero(_, _)
ReflectZero(t, p) ==
    LET d == T[t] IN
    CASE d.kind \in Scalars \cup {"RawMessage"} -> Cell(p).v \in {"0", "false", "", "nil"}
      [] d.kind = "Struct" -> \A i \in 0..(d.size - 1) : IsNilWord(Cell(At(p, i)))
      [] d.kind = "Array" -> \A i \in 0..(d.len - 1) : ReflectZero(d.elem, At(p, i * T[d.elem].size))
      [] OTHER -> IsNilWord(Cell(p))

OmitZeroFn(t, oz, p) ==
    IF oz = "method" THEN IsNilWord(Cell(p)) \/ (Cell(p).c = "s" /\ Cell(p).v = "zero")
    ELSE ReflectZero(t, p)

\* An encode function's item: a typed address, or a node of a tape.
Item(key, t, p) == [key |-> key, t |-> t, p |-> p, doc |-> <<>>]
DocItem(key, doc) == [key |-> key, t |-> "", p |-> NilBase, doc |-> <<doc>>]

RECURSIVE EncodeT(_, _, _), EncodeItems(_, _, _), appendTapeElem(_, _), interpLoop(_)

\* What every Go container loop writes between and around its members.
EncodeItems(es, items, i) ==
    IF i > Len(items) \/ ~Ok(es) THEN es
    ELSE LET it == items[i]
             e == Prefixed(es, i > 1, es.indent, it.key)
         IN  EncodeItems(IF it.doc = <<>> THEN EncodeT(e, it.t, it.p) ELSE appendTapeElem(e, it.doc[1]), items, i + 1)

\* The end of a container with members.
Close(es, close) ==
    IF ~Ok(es) THEN es
    ELSE Put(IF es.indent THEN appendNewlineIndent(Out(es)) ELSE es, <<Tok(close, "")>>)

\* A container whose loop runs only when it has members; after an error the
\* depth stays where the loop left it.
Container(es, open, items, close) ==
    IF items = <<>> THEN Put(es, <<Tok(open, ""), Tok(close, "")>>)
    ELSE Close(EncodeItems(In(Put(es, <<Tok(open, "")>>), 1), items, 1), close)

\* One tape node: an item without a key, separator or line break.
appendTapeElem(es, doc) ==
    IF doc.k = "lit" THEN Put(es, <<Tok("v", doc.v)>>)
    ELSE Container(es, IF doc.k = "obj" THEN "{" ELSE "[",
                   [j \in 1..Len(doc.e) |-> IF doc.k = "obj" THEN DocItem(doc.e[j][1], doc.e[j][2])
                                            ELSE DocItem("", doc.e[j])],
                   IF doc.k = "obj" THEN "}" ELSE "]")

appendTapeValue(es, c) == IF c.doc = <<>> THEN Put(es, <<Null>>) ELSE appendTapeElem(es, c.doc[1])

encodeMapGeneric(es, t, c) ==
    IF c.m = <<>> THEN Put(es, <<Null>>)
    ELSE Container(es, "{", [j \in 1..Len(c.m[1]) |-> Item(c.m[1][j].key, T[t].elem, Start(c.m[1][j].blk))], "}")

\* A dynamic value by its type, at the end of its pointers; a nil is null.
RECURSIVE encodeAnyReflect(_, _, _)
encodeAnyReflect(es, t, p) ==
    IF T[t].kind # "Pointer" \/ T[t].hook # "" THEN EncodeT(es, t, p)
    ELSE IF Cell(p).to = <<>> THEN Put(es, <<Null>>)
    ELSE encodeAnyReflect(es, T[t].elem, Start(Cell(p).to[1]))

\* The types an interface usually holds are written without a run of their own.
encodeAny(es, t, p) ==
    LET c == Cell(p)
        anys == T[t].elem # "" /\ T[T[t].elem].kind = "Any" IN
    CASE T[t].hook = "" /\ T[t].kind = "Slice" /\ anys ->
            IF c.data = <<>> THEN Put(es, <<Null>>)
            ELSE Container(es, "[", [j \in 1..c.n |-> Item("", T[t].elem, At(Start(c.data[1]), j - 1))], "]")
      [] T[t].hook = "" /\ T[t].kind = "Map" /\ anys -> encodeMapGeneric(es, t, c)
      [] T[t].kind = "Value" -> appendTapeValue(es, c)
      [] OTHER -> encodeAnyReflect(es, t, p)

EncodeIface(es, c) == IF c.to = <<>> THEN Put(es, <<Null>>) ELSE encodeAny(es, c.t, Start(c.to[1]))

\* A type's own marshaler: its cell says what the method returns.
EncodeHook(es, d, c) ==
    CASE c.v \in {"error", "panic"} -> Fail(es, c.v)
      [] c.v \in {"", "nil"} /\ d.hook # "text" -> Put(es, <<Null>>)
      [] OTHER -> Put(es, <<Tok("v", c.v)>>)

EncodeScalar(es, d, v) ==
    CASE d.kind = "Float" /\ v = "NaN" -> Fail(es, "value")
      [] d.kind = "Number" /\ v = "" -> Put(es, <<Tok("v", "0")>>)
      [] d.kind = "RawMessage" /\ v \in {"", "nil"} -> Put(es, <<Null>>)
      [] OTHER -> Put(es, <<Tok("v", v)>>)

(***************************************************************************)
(* exec: the outermost run owns the root context, a nested one the next    *)
(* child invocation's, and every run leaves the indent depth as it found   *)
(* it.  The depth that limits nested runs counts the outermost run alone.  *)
(***************************************************************************)
NewRun(es, bp, base, lvl) ==
    [es |-> es, bp |-> bp, pc |-> 0, base |-> base, first |-> TRUE, depth |-> 0,
     elemNL |-> FALSE, lvl |-> lvl, done |-> FALSE]

ClearFrames(ctx, depth) ==
    [i \in 1..MaxDepth |-> IF i <= depth
        THEN [ctx[i] EXCEPT !.ret = NilBase, !.p0 = NilBase, !.pc = 0, !.keep = 0] ELSE ctx[i]]

\* The run r has ended: the state goes back to what the run found in es.
Left(es, r) ==
    [r.es EXCEPT !.exec = es.exec, !.inv = es.inv, !.ind = es.ind, !.ctx[r.lvl] = ClearFrames(@, r.depth)]

exec(es, bp, base) ==
    LET outer == es.exec = 0
        lvl == IF outer THEN 1 ELSE es.inv + 2
        ctx == IF lvl <= Len(es.ctx) THEN es.ctx ELSE Append(es.ctx, CleanCtx)
        e == [es EXCEPT !.exec = IF outer THEN 1 ELSE @, !.inv = IF outer THEN @ ELSE @ + 1, !.ctx = ctx]
    IN  IF ~outer /\ es.exec >= MaxDepth THEN Fail(es, "depth")
        ELSE Left(es, interpLoop(NewRun(e, bp, base, lvl)))

EncodeT(es, t, p) ==
    LET d == T[t]
        c == Cell(p) IN
    CASE c.c = "wild" /\ d.size > 0 -> Fail(es, "fault")
      [] d.kind = "Value" -> exec(es, compileBlueprint(t), p)
      [] d.hook # "" -> EncodeHook(es, d, c)
      [] d.kind \in Scalars \cup {"RawMessage"} -> EncodeScalar(es, d, c.v)
      [] d.kind = "Struct" -> IF d.reject THEN Fail(es, "shape") ELSE exec(es, compileBlueprint(t), p)
      [] d.kind = "Bytes" -> IF c.data = <<>> THEN Put(es, <<Null>>) ELSE Put(es, <<Tok("b64", c.data[1][1].v)>>)
      [] d.kind = "Slice" -> IF c.data = <<>> THEN Put(es, <<Null>>) ELSE exec(es, compileBlueprint(t), p)
      [] d.kind = "Array" -> exec(es, compileBlueprint(t), p)
      [] d.kind = "Map" -> encodeMapGeneric(es, t, c)
      [] d.kind = "Pointer" -> IF c.to = <<>> THEN Put(es, <<Null>>) ELSE EncodeT(es, d.elem, Start(c.to[1]))
      [] d.kind \in {"Any", "Iface"} -> EncodeIface(es, c)
      [] OTHER -> Fail(es, "type")

\* A field's value, quoted by its tag when its kind is quotable and the type
\* does not marshal itself; a pointer is quoted at its pointee.
RECURSIVE encodeFieldValue(_, _, _, _)
encodeFieldValue(es, t, quoted, p) ==
    LET d == T[t] IN
    CASE ~quoted \/ d.hook # "" \/ d.kind \notin (Scalars \ {"Number"}) \cup {"Pointer"} -> EncodeT(es, t, p)
      [] d.kind = "Pointer" ->
            IF Cell(p).to = <<>> THEN Put(es, <<Null>>)
            ELSE encodeFieldValue(es, d.elem, TRUE, Start(Cell(p).to[1]))
      [] d.kind = "Float" /\ Cell(p).v = "NaN" -> Fail(es, "value")
      [] OTHER -> Put(es, <<Tok("q", Cell(p).v)>>)

(***************************************************************************)
(* The interpreter.                                                        *)
(***************************************************************************)
interpWriteKey(r, key) ==
    [r EXCEPT !.es = Prefixed(r.es, ~r.first, r.es.indent /\ (key # "" \/ ~r.first \/ r.elemNL), key),
              !.elemNL = FALSE]

Goto(r, n) == [r EXCEPT !.pc = @ + n]
Abort(r, e) == [r EXCEPT !.es = Fail(@, e)]
\* A value written after its prefix by a function of the encode state.
Wrote(r, es) == [r EXCEPT !.es = es, !.first = FALSE]

\* Mutant: the limit is one frame short.
BugFull(r) == r.depth + 1 >= MaxDepth
Full(r) == r.depth >= MaxDepth
Push(r, frame) == [r EXCEPT !.depth = @ + 1, !.es.ctx[r.lvl][r.depth + 1] = frame]
Top(r) == r.es.ctx[r.lvl][r.depth]
\* Pop with the words the pop clears; the iteration count stays.
Pop(r, frame) == [r EXCEPT !.depth = @ - 1, !.es.ctx[r.lvl][r.depth] = frame]
\* Mutant: the pop leaves the data pointer.
BugPopped(f) == [f EXCEPT !.ret = NilBase, !.pc = 0, !.keep = 0]
Popped(f) == [f EXCEPT !.ret = NilBase, !.p0 = NilBase, !.pc = 0, !.keep = 0]

StepObjOpen(r, o) ==
    LET w == interpWriteKey(r, o.key)
    IN  Goto([w EXCEPT !.es = In(Put(w.es, <<Tok("{", "")>>), 1), !.first = TRUE], 8)

StepObjClose(r) ==
    LET e == Out(r.es)
        e2 == IF r.es.indent /\ ~r.first THEN appendNewlineIndent(e) ELSE e
    IN  Goto(Wrote(r, Put(e2, <<Tok("}", "")>>)), 8)

StepScalar(r, o) ==
    LET c == Cell(At(r.base, o.off))
        w == interpWriteKey(r, o.key) IN
    IF c.c # "s" THEN Abort(r, "fault")
    ELSE IF o.op = "KQInt" THEN Goto(Wrote(w, Put(w.es, <<Tok("q", c.v)>>)), 8)
    ELSE Goto(Wrote(w, EncodeScalar(w.es, [kind |-> o.op], c.v)), 8)

StepBytes(r, o) ==
    LET c == Cell(At(r.base, o.off))
        w == interpWriteKey(r, o.key)
    IN  Goto(Wrote(w, Put(w.es, <<IF c.data = <<>> THEN Null ELSE Tok("b64", c.data[1][1].v)>>)), 8)

StepValueSpread(r, o) ==
    LET c == Cell(At(r.base, o.off))
        m == c.doc[1] IN
    CASE c.doc = <<>> -> Goto(r, 8)
      [] c.doc # <<>> /\ m.k # "obj" -> Abort(r, "misuse")
      [] c.doc # <<>> /\ m.k = "obj" /\ m.e = <<>> -> Goto(r, 8)
      [] OTHER ->
            LET e1 == IF r.first THEN r.es ELSE Put(r.es, <<Tok(",", "")>>)
            IN  Goto(Wrote(r, EncodeItems(e1, [j \in 1..Len(m.e) |-> DocItem(m.e[j][1], m.e[j][2])], 1)), 8)

StepSkip(r, o) == IF interpIsZero(Cell(At(r.base, o.off)), o.tag) THEN Goto(r, o.a) ELSE Goto(r, 16)

StepSkipGo(r, o) == IF OmitZeroFn(o.fb.ti, o.fb.oz, At(r.base, o.fb.off)) THEN Goto(r, o.a) ELSE Goto(r, 16)

\* Mutant: the call frame keeps the blueprint an aborted unfold left there.
BugStepCall(r, o) ==
    IF Full(r) THEN Abort(r, "depth")
    ELSE [Push(r, [Top([r EXCEPT !.depth = @ + 1]) EXCEPT !.ret = r.base, !.pc = r.pc + 16, !.keep = 0])
            EXCEPT !.pc = o.a]

StepCall(r, o) ==
    IF Full(r) THEN Abort(r, "depth")
    ELSE [Push(r, [Top([r EXCEPT !.depth = @ + 1]) EXCEPT
                     !.ret = r.base, !.pc = r.pc + 16, !.keep = 0, !.bp = <<>>, !.idx = 0])
            EXCEPT !.pc = o.a]

\* Mutant: the return of an inline variant forgets the comma state.
BugStepRet(r) ==
    IF r.depth = 0 THEN [r EXCEPT !.done = TRUE]
    ELSE LET f == Top(r) IN
         [Pop(r, [Popped(f) EXCEPT !.bp = <<>>, !.count = 0]) EXCEPT
             !.base = f.ret, !.pc = f.pc, !.bp = IF f.bp # <<>> THEN f.bp[1] ELSE @, !.first = FALSE]

\* A return with an empty stack ends the program.
StepRet(r) ==
    IF r.depth = 0 THEN [r EXCEPT !.done = TRUE]
    ELSE LET f == Top(r) IN
         [Pop(r, [Popped(f) EXCEPT !.bp = <<>>, !.count = 0]) EXCEPT
             !.base = f.ret, !.pc = f.pc,
             !.bp = IF f.bp # <<>> THEN f.bp[1] ELSE @,
             !.first = IF f.keep # 0 THEN @ ELSE FALSE]

\* The case an inline variant holds: <<>> for none, or its struct type and
\* the address of its fields; a pointer chain is followed to its end.
RECURSIVE unfoldCase(_, _)
unfoldCase(t, p) ==
    IF T[t].kind # "Pointer" THEN <<[t |-> t, p |-> p]>>
    ELSE IF Cell(p).to = <<>> THEN <<>>
    ELSE unfoldCase(T[t].elem, Start(Cell(p).to[1]))

StepUnfold(r, o) ==
    LET c == Cell(At(r.base, o.off))
        k == IF c.to = <<>> THEN <<>> ELSE unfoldCase(c.t, Start(c.to[1])) IN
    CASE k = <<>> -> Goto(r, 8)
      [] k # <<>> /\ T[k[1].t].kind # "Struct" -> Abort(r, "misuse")
      [] k # <<>> /\ Full(r) -> Abort(r, "depth")
      [] OTHER ->
            [Push(r, [Top([r EXCEPT !.depth = @ + 1]) EXCEPT
                        !.ret = r.base, !.pc = r.pc + 8, !.keep = 1, !.bp = <<r.bp>>])
               EXCEPT !.bp = compileBodyBlueprint(k[1].t), !.pc = 0, !.base = k[1].p]

StepPtrDeref(r, o) ==
    LET c == Cell(At(r.base, o.off))
        w == interpWriteKey(r, o.key)
        k == IF o.key = "" THEN r ELSE [w EXCEPT !.first = TRUE] IN
    CASE c.c # "p" -> Abort(r, "fault")
      [] c.c = "p" /\ c.to = <<>> -> Goto(Wrote(w, Put(w.es, <<Null>>)), o.a)
      [] c.c = "p" /\ c.to # <<>> /\ Full(r) -> Abort(k, "depth")
      [] OTHER -> Goto([Push(k, [Top([r EXCEPT !.depth = @ + 1]) EXCEPT
                                   !.ret = r.base, !.keep = IF k.first THEN 1 ELSE 0])
                          EXCEPT !.base = Start(c.to[1])], 16)

StepPtrEnd(r) ==
    Goto([Pop(r, Popped(Top(r))) EXCEPT !.base = Top(r).ret, !.first = FALSE], 8)

\* A loop over n elements from data; an absent slice is null, and an empty
\* sequence jumps over the body.
StepBegin(r, o, data, n) ==
    LET w0 == interpWriteKey(r, o.key)
        w == [w0 EXCEPT !.first = FALSE]
        past == 16 + o.b + 16 IN
    CASE data = <<>> -> Goto([w EXCEPT !.es = Put(@, <<Null>>)], past)
      [] data # <<>> /\ n = 0 -> Goto([w EXCEPT !.es = Put(@, <<Tok("[", ""), Tok("]", "")>>)], past)
      [] data # <<>> /\ n # 0 /\ Full(r) -> Abort([w EXCEPT !.es = In(Put(@, <<Tok("[", "")>>), 1)], "depth")
      [] OTHER ->
            LET q == [w EXCEPT !.es = In(Put(@, <<Tok("[", "")>>), 1)]
            IN  Goto([Push(q, [Top([q EXCEPT !.depth = @ + 1]) EXCEPT
                                 !.ret = r.base, !.p0 = data[1], !.pc = 0, !.keep = 0,
                                 !.count = n, !.idx = 0])
                        EXCEPT !.base = data[1], !.first = TRUE, !.elemNL = r.es.indent], 16)

StepSliceBegin(r, o) ==
    LET c == Cell(At(r.base, o.off))
    IN  IF c.c # "l" THEN Abort(r, "fault")
        ELSE StepBegin(r, o, IF c.data = <<>> THEN <<>> ELSE <<Start(c.data[1])>>, c.n)

StepArrayBegin(r, o) == StepBegin(r, o, <<At(r.base, o.off)>>, o.a)

StepSliceEnd(r, o) ==
    LET f == Top(r)
        e == Out(r.es) IN
    IF f.idx + 1 < f.count
    THEN [r EXCEPT !.es.ctx[r.lvl][r.depth].idx = @ + 1,
                   !.base = At(f.p0, (f.idx + 1) * o.b), !.first = FALSE, !.pc = @ - o.a]
    ELSE Goto(Wrote([Pop([r EXCEPT !.es = e], Popped(f)) EXCEPT !.base = f.ret],
                    Put(IF r.es.indent THEN appendNewlineIndent([e EXCEPT !.ctx[r.lvl][r.depth] = Popped(f)])
                        ELSE [e EXCEPT !.ctx[r.lvl][r.depth] = Popped(f)], <<Tok("]", "")>>)), 16)

\* The whole sequence in one op; an element that cannot be written ends it.
StepSeq(r, o) ==
    LET c == Cell(At(r.base, o.off))
        isArr == o.op = "SeqArray"
        data == IF isArr THEN At(r.base, o.off) ELSE Start(c.data[1])
        n == IF isArr THEN o.a ELSE c.n
        lits == [j \in 1..n |-> DocItem("", [k |-> "lit", v |-> Cell(At(data, j - 1)).v])]
        w == interpWriteKey(r, o.key)
        bad == {j \in 1..n : Cell(At(data, j - 1)).v = "NaN"} IN
    CASE ~isArr /\ c.data = <<>> -> Goto(Wrote(w, Put(w.es, <<Null>>)), 16)
      [] (isArr \/ c.data # <<>>) /\ bad # {} -> Abort([w EXCEPT !.es = In(Put(@, <<Tok("[", "")>>), 1)], "value")
      [] OTHER -> Goto(Wrote(w, Container(w.es, "[", lits, "]")), 16)

\* A value handed to the Go encoder after the interpreter's own prefix.
StepGo(r, o, n) ==
    LET w == interpWriteKey(r, o.key)
    IN  Goto(Wrote(w, EncodeT(w.es, o.fb.ti, At(r.base, o.fb.off))), n)

StepValue(r, o) ==
    LET w == interpWriteKey(r, o.key)
    IN  Goto(Wrote(w, appendTapeValue(w.es, Cell(At(r.base, o.off)))), 8)

StepInterface(r, o) ==
    LET w == interpWriteKey(r, o.key)
        c == Cell(At(r.base, o.off))
    IN  IF c.c # "i" THEN Abort(r, "fault") ELSE Goto(Wrote(w, EncodeIface(w.es, c)), 8)

\* The generic fallback: hops, omit checks, then its own prefix, whose line
\* break does not depend on the position, and the field's encoder.
StepFallback(r, o) ==
    LET fb == o.fb
        base == resolveFieldBase(r.base, fb.path)
        p == At(base[1], fb.off)
        key == IF o.key # "" THEN o.key ELSE fb.key
        e == Prefixed(r.es, ~r.first, r.es.indent, key) IN
    CASE base = <<>> -> Goto(r, 8)
      [] base # <<>> /\ Cell(p).c = "wild" -> Abort(r, "fault")
      [] base # <<>> /\ Cell(p).c # "wild" /\ fb.oz # "" /\ T[fb.ti].kind # "Value"
            /\ OmitZeroFn(fb.ti, fb.oz, p) -> Goto(r, 8)
      [] base # <<>> /\ Cell(p).c # "wild" /\ fb.oe /\ IsZeroFn(fb.ti, Cell(p)) -> Goto(r, 8)
      [] OTHER -> Goto(Wrote(r, encodeFieldValue(e, fb.ti, fb.quoted, p)), 8)

Step(r) ==
    LET o == r.bp.ops[r.pc] IN
    CASE o.op = "ObjOpen" -> StepObjOpen(r, o)
      [] o.op = "ObjClose" -> StepObjClose(r)
      [] o.op \in Scalars \cup {"KQInt"} -> StepScalar(r, o)
      [] o.op = "Bytes" -> StepBytes(r, o)
      [] o.op = "Value" -> StepValue(r, o)
      [] o.op = "ValueSpread" -> StepValueSpread(r, o)
      [] o.op = "SkipIfZero" -> StepSkip(r, o)
      [] o.op = "SkipIfZeroGo" -> StepSkipGo(r, o)
      [] o.op = "Call" -> StepCall(r, o)
      [] o.op = "Ret" -> StepRet(r)
      [] o.op = "Unfold" -> StepUnfold(r, o)
      [] o.op = "PtrDeref" -> StepPtrDeref(r, o)
      [] o.op = "PtrEnd" -> StepPtrEnd(r)
      [] o.op = "SliceBegin" -> StepSliceBegin(r, o)
      [] o.op = "ArrayBegin" -> StepArrayBegin(r, o)
      [] o.op = "SliceEnd" -> StepSliceEnd(r, o)
      [] o.op \in {"SeqSlice", "SeqArray"} -> StepSeq(r, o)
      [] o.op \in {"Map", "Time"} -> StepGo(r, o, 8)
      [] o.op = "MapStrIter" -> StepGo(r, o, 16 + o.b + 16)
      [] o.op = "Interface" -> StepInterface(r, o)
      [] o.op = "Fallback" -> StepFallback(r, o)
      [] OTHER -> Abort(r, "opcode")

interpLoop(r) ==
    IF r.done \/ ~Ok(r.es) \/ r.pc >= r.bp.len THEN r
    ELSE IF r.pc \notin DOMAIN r.bp.ops THEN Abort(r, "opcode")
    ELSE interpLoop(Step(r))

=============================================================================
