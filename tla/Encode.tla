------------------------------- MODULE Encode -------------------------------
(***************************************************************************)
(* Marshal, AppendMarshal and the pooled encodeState they share            *)
(* (venc/marshal.go, venc/encode.go), over the engine of EncInterp.        *)
(*                                                                         *)
(* Calls follow one another on one encodeState, the case a pool makes      *)
(* interesting: the arena left in es.buf, the stack frames of the root     *)
(* context and of the child invocations, and the indent depth outlive a    *)
(* call.  Byte memory is a sequence of arenas of tokens.  es.buf is the    *)
(* window [a, lo) of an arena, a = 0 for nil; a caller's slice is a range  *)
(* of an arena with the tokens the caller saw when it got it.              *)
(***************************************************************************)
EXTENDS EncInterp, FiniteSets

CONSTANTS Inputs,     \* the values of the first call, [t, blk]
          Later,      \* those of the later calls
          Deviant,    \* <<type, indented>> pairs whose output is known to differ
          MaxCalls    \* bound on the calls

ASSUME EncodeBounds == MaxDepth \in Nat \ {0} /\ LenMod \in Nat \ {0} /\ MaxCalls \in Nat

VARIABLES es,       \* the pooled encodeState, its buffer apart
          buf,      \* es.buf between calls
          arenas,   \* the byte arrays allocated so far
          outs,     \* the slices callers hold
          lent,     \* the caller arenas es.buf kept after a panic
          calls,    \* how many calls there were
          last      \* the last call: input, indent and result

vars == <<es, buf, arenas, outs, lent, calls, last>>

NewState == [out |-> <<>>, ind |-> 0, indent |-> FALSE, exec |-> 0, inv |-> 0, ctx |-> <<CleanCtx>>, err |-> ""]
NoCall == [t |-> "", blk |-> <<>>, indent |-> FALSE, out |-> <<>>, err |-> "", done |-> FALSE]

Init == /\ es = NewState
        /\ buf = [a |-> 1, lo |-> 0]
        /\ arenas = << <<>> >>
        /\ outs = {}
        /\ lent = {}
        /\ calls = 0
        /\ last = NoCall

acquireEncodeState(e) == [e EXCEPT !.out = <<>>, !.err = "", !.indent = FALSE]

\* The depth an earlier call left is reset only by an indent option.
applyOptions(e, indent) == IF indent THEN [e EXCEPT !.indent = TRUE, !.ind = 0] ELSE e

acquire(e, indent) == applyOptions(acquireEncodeState(e), indent)

encodeTop(e, in) == EncodeT(e, in.t, Start(in.blk))

\* What stays in the pool; the window's tokens belong to the arena.
release(e) == [e EXCEPT !.out = <<>>, !.err = ""]

Result(in, indent, e) ==
    [t |-> in.t, blk |-> in.blk, indent |-> indent, out |-> e.out, err |-> e.err, done |-> TRUE]

Range(a, lo, toks) == [a |-> a, lo |-> lo, toks |-> toks]

\* Tokens written from lo on in arena a, over whatever stood there.
Written(a, lo, toks) ==
    LET old == arenas[a]
    IN  SubSeq(old, 1, lo) \o toks \o SubSeq(old, lo + Len(toks) + 1, Len(old))

Allowed == IF calls = 0 THEN Inputs ELSE Later

\* A nil pointer, typed or in an interface, never reaches the pool.
MarshalNil ==
    \E in \in Allowed :
        /\ calls < MaxCalls
        /\ T[in.t].kind = "Pointer" /\ Cell(Start(in.blk)).to = <<>>
        /\ \E indent \in BOOLEAN :
               last' = Result(in, indent, [out |-> <<Null>>, err |-> ""])
        /\ arenas' = Append(arenas, <<Null>>)
        /\ outs' = outs \cup {Range(Len(arenas) + 1, 0, <<Null>>)}
        /\ calls' = calls + 1
        /\ UNCHANGED <<es, buf, lent>>

\* Mutant: the pool keeps the part of the arena the caller was given.
BugMarshal(in, indent, moves) ==
    \E e \in {encodeTop(acquire(es, indent), in)} :
        LET a == IF moves \/ buf.a = 0 THEN Len(arenas) + 1 ELSE buf.a
            lo == IF moves \/ buf.a = 0 THEN 0 ELSE buf.lo
        IN
        /\ arenas' = IF a > Len(arenas) THEN Append(arenas, e.out)
                     ELSE [arenas EXCEPT ![a] = Written(a, lo, e.out)]
        /\ es' = release(e)
        /\ last' = Result(in, indent, e)
        /\ IF e.err = ""
           THEN /\ outs' = outs \cup {Range(a, lo, e.out)}
                /\ buf' = [a |-> a, lo |-> lo]
           ELSE /\ buf' = [a |-> a, lo |-> lo]
                /\ UNCHANGED outs
        /\ UNCHANGED lent

\* marshalWith without BufSize: the window moves to a new arena when it is
\* too small for the hint or the output, the caller gets the written part of
\* the arena and the pool keeps the rest.
Marshal(in, indent, moves) ==
    \E e \in {encodeTop(acquire(es, indent), in)} :
        LET a == IF moves \/ buf.a = 0 THEN Len(arenas) + 1 ELSE buf.a
            lo == IF moves \/ buf.a = 0 THEN 0 ELSE buf.lo
        IN
        /\ arenas' = IF a > Len(arenas) THEN Append(arenas, e.out)
                     ELSE [arenas EXCEPT ![a] = Written(a, lo, e.out)]
        /\ es' = release(e)
        /\ last' = Result(in, indent, e)
        /\ IF e.err = ""
           THEN /\ outs' = outs \cup {Range(a, lo, e.out)}
                /\ buf' = [a |-> a, lo |-> lo + Len(e.out)]
           ELSE /\ buf' = [a |-> a, lo |-> lo]
                /\ UNCHANGED outs
        /\ UNCHANGED lent

\* marshalWith with BufSize: the caller gets a copy and the pool the arena.
MarshalBufSize(in, indent, moves) ==
    \E e \in {encodeTop(acquire(es, indent), in)} :
        LET a == IF moves \/ buf.a = 0 THEN Len(arenas) + 1 ELSE buf.a
            lo == IF moves \/ buf.a = 0 THEN 0 ELSE buf.lo
            written == IF a > Len(arenas) THEN Append(arenas, e.out)
                       ELSE [arenas EXCEPT ![a] = Written(a, lo, e.out)]
        IN
        /\ es' = release(e)
        /\ last' = Result(in, indent, e)
        /\ buf' = [a |-> a, lo |-> lo]
        /\ IF e.err = ""
           THEN /\ arenas' = Append(written, e.out)
                /\ outs' = outs \cup {Range(Len(written) + 1, 0, e.out)}
           ELSE /\ arenas' = written
                /\ UNCHANGED outs
        /\ UNCHANGED lent

Prefix == <<Tok("v", "dst")>>

\* AppendMarshal: es.buf is the caller's dst for the call.  Success and error
\* drop it; a panic unwinds past both assignments, and the pool keeps it.
AppendMarshal(in, indent, moves) ==
    \E e \in {encodeTop(acquire(es, indent), in)} :
        LET dst == Len(arenas) + 1
            toks == Prefix \o e.out
            a == IF moves THEN dst + 1 ELSE dst
        IN
        /\ arenas' = arenas \o (IF moves THEN <<Prefix, toks>> ELSE <<toks>>)
        /\ es' = release(e)
        /\ last' = Result(in, indent, e)
        /\ outs' = outs \cup {Range(dst, 0, Prefix)}
                        \cup (IF e.err = "" THEN {Range(a, 0, toks)} ELSE {})
        /\ IF e.err = "panic"
           THEN buf' = [a |-> a, lo |-> 0] /\ lent' = lent \cup {a}
           ELSE buf' = [a |-> 0, lo |-> 0] /\ UNCHANGED lent

Call ==
    \E in \in Allowed, indent \in BOOLEAN, moves \in BOOLEAN :
        /\ calls < MaxCalls
        /\ ~(T[in.t].kind = "Pointer" /\ Cell(Start(in.blk)).to = <<>>)
        /\ \/ Marshal(in, indent, moves)
           \/ MarshalBufSize(in, indent, moves)
           \/ AppendMarshal(in, indent, moves)
        /\ calls' = calls + 1

Done == calls = MaxCalls /\ UNCHANGED vars

Next == MarshalNil \/ Call \/ Done

Spec == Init /\ [][Next]_vars

(***************************************************************************)
(* The reference: the document a value stands for, its errors as leaves,   *)
(* and the text of a document.                                             *)
(***************************************************************************)
Leaf(tok) == [k |-> "lit", tok |-> tok]
Bad(e) == [k |-> "err", e |-> e]

RECURSIVE OfDoc(_)
OfDoc(d) ==
    CASE d.k = "lit" -> Leaf(Tok("v", d.v))
      [] d.k = "arr" -> [k |-> "arr", e |-> [i \in 1..Len(d.e) |-> OfDoc(d.e[i])]]
      [] OTHER -> [k |-> "obj", e |-> [i \in 1..Len(d.e) |-> <<d.e[i][1], OfDoc(d.e[i][2])>>]]

RECURSIVE Concat(_)
Concat(ss) == IF ss = <<>> THEN <<>> ELSE Head(ss) \o Concat(Tail(ss))

\* Absent for omitempty: an empty string, sequence or map, a nil, a zero number.
RefEmpty(t, c) ==
    CASE T[t].kind \in Scalars \cup {"RawMessage"} -> c.v \in {"0", "", "false", "nil"}
      [] T[t].kind \in {"Slice", "Bytes"} -> c.n = 0
      [] T[t].kind = "Map" -> c.m \in {<<>>, << <<>> >>}
      [] T[t].kind \in {"Pointer", "Any", "Iface"} -> c.to = <<>>
      [] OTHER -> FALSE

\* Absent for omitzero: every cell of the value is zero, or its IsZero says so.
RefZero(f, p) ==
    \/ \A i \in 0..(T[f.typ].size - 1) : IsNilWord(Cell(At(p, i))) \/ Cell(At(p, i)) = [c |-> "s", v |-> "nil"]
    \/ f.oz = "method" /\ Cell(p) = [c |-> "s", v |-> "zero"]

RECURSIVE RefDoc(_, _), RefMembers(_, _), RefHops(_, _), RefQuoted(_, _)

RefHops(p, path) ==
    IF path = <<>> THEN <<p>>
    ELSE LET c == Cell(At(p, Head(path)))
         IN  IF c.to = <<>> THEN <<>> ELSE RefHops(Start(c.to[1]), Tail(path))

RefQuoted(t, p) ==
    CASE T[t].kind = "Pointer" /\ T[t].hook = "" ->
            IF Cell(p).to = <<>> THEN Leaf(Null) ELSE RefQuoted(T[t].elem, Start(Cell(p).to[1]))
      [] T[t].hook = "" /\ T[t].kind \in Scalars \ {"Number"} ->
            IF Cell(p).v = "NaN" THEN Bad("value") ELSE Leaf(Tok("q", Cell(p).v))
      [] OTHER -> RefDoc(t, p)

\* A struct's members: its own, those a spread adds and those of the case an
\* inline variant holds.
RefField(f, p0) ==
    LET hop == RefHops(p0, f.path)
        p == At(hop[1], f.off)
        c == Cell(p)
        case == IF c.to = <<>> THEN <<>> ELSE unfoldCase(c.t, Start(c.to[1])) IN
    CASE hop = <<>> -> <<>>
      [] hop # <<>> /\ f.role = "unknown" ->
            IF c.doc = <<>> THEN <<>>
            ELSE IF c.doc[1].k # "obj" THEN << <<"", Bad("misuse")>> >> ELSE OfDoc(c.doc[1]).e
      [] hop # <<>> /\ f.role = "embed" ->
            IF case = <<>> THEN <<>>
            ELSE IF T[case[1].t].kind # "Struct" THEN << <<"", Bad("misuse")>> >>
            ELSE RefMembers(case[1].t, case[1].p)
      [] hop # <<>> /\ f.role = "" /\ T[f.typ].kind # "Value"
            /\ ((f.oe /\ RefEmpty(f.typ, c)) \/ (f.oz # "" /\ RefZero(f, p))) -> <<>>
      [] OTHER -> << <<f.key, IF f.quoted THEN RefQuoted(f.typ, p) ELSE RefDoc(f.typ, p)>> >>

RefMembers(t, p) == Concat([i \in 1..Len(T[t].fields) |-> RefField(T[t].fields[i], p)])

RefDoc(t, p) ==
    LET d == T[t]
        c == Cell(p)
        Elems(data, n) == [k |-> "arr", e |-> [i \in 1..n |-> RefDoc(d.elem, At(data, (i - 1) * T[d.elem].size))]] IN
    CASE d.kind = "Value" -> IF c.doc = <<>> THEN Leaf(Null) ELSE OfDoc(c.doc[1])
      [] d.hook # "" ->
            IF c.v \in {"error", "panic"} THEN Bad(c.v)
            ELSE IF c.v \in {"", "nil"} /\ d.hook # "text" THEN Leaf(Null) ELSE Leaf(Tok("v", c.v))
      [] d.kind \in Scalars \cup {"RawMessage"} ->
            IF c.v = "NaN" THEN Bad("value")
            ELSE IF d.kind = "Number" /\ c.v = "" THEN Leaf(Tok("v", "0"))
            ELSE IF d.kind = "RawMessage" /\ c.v \in {"", "nil"} THEN Leaf(Null)
            ELSE Leaf(Tok("v", c.v))
      [] d.kind = "Struct" -> IF d.reject THEN Bad("shape") ELSE [k |-> "obj", e |-> RefMembers(t, p)]
      [] d.kind = "Bytes" -> IF c.data = <<>> THEN Leaf(Null) ELSE Leaf(Tok("b64", c.data[1][1].v))
      [] d.kind = "Slice" -> IF c.data = <<>> THEN Leaf(Null) ELSE Elems(Start(c.data[1]), c.n)
      [] d.kind = "Array" -> Elems(p, d.len)
      [] d.kind = "Map" ->
            IF c.m = <<>> THEN Leaf(Null)
            ELSE [k |-> "obj", e |-> [i \in 1..Len(c.m[1]) |->
                                        <<c.m[1][i].key, RefDoc(d.elem, Start(c.m[1][i].blk))>>]]
      [] d.kind \in {"Any", "Iface"} -> IF c.to = <<>> THEN Leaf(Null) ELSE RefDoc(c.t, Start(c.to[1]))
      [] d.kind = "Pointer" -> IF c.to = <<>> THEN Leaf(Null) ELSE RefDoc(d.elem, Start(c.to[1]))
      [] OTHER -> Bad("type")

Kids(d) == IF d.k = "obj" THEN [i \in 1..Len(d.e) |-> d.e[i][2]]
           ELSE IF d.k = "arr" THEN d.e ELSE <<>>

\* The errors of a document in the order of its text.
RECURSIVE RefErrors(_)
RefErrors(d) == IF d.k = "err" THEN <<d.e>>
                ELSE Concat([i \in 1..Len(Kids(d)) |-> RefErrors(Kids(d)[i])])

RECURSIVE Render(_, _, _)
Render(d, depth, indent) ==
    LET kids == Kids(d)
        Break(n) == IF indent THEN <<NL(n)>> ELSE <<>>
        Key(i) == IF d.k = "arr" THEN <<>>
                  ELSE <<Tok("k", d.e[i][1])>> \o (IF indent THEN <<Tok("sp", "")>> ELSE <<>>)
        o == IF d.k = "obj" THEN <<"{", "}">> ELSE <<"[", "]">>
        body == Concat([i \in 1..Len(kids) |->
                          (IF i > 1 THEN <<Tok(",", "")>> ELSE <<>>) \o Break(depth + 1)
                            \o Key(i) \o Render(kids[i], depth + 1, indent)])
    IN  IF d.k = "lit" THEN <<d.tok>>
        ELSE <<Tok(o[1], "")>> \o body \o (IF kids = <<>> THEN <<>> ELSE Break(depth)) \o <<Tok(o[2], "")>>

\* The containers and pointers on the deepest path of a value.
RECURSIVE Nesting(_, _)
Nesting(t, p) ==
    LET d == T[t]
        c == Cell(p)
        SetMax(S) == CHOOSE n \in S \cup {0} : \A m \in S : m <= n
        Elems(data, n) == 1 + SetMax({Nesting(d.elem, At(data, (i - 1) * T[d.elem].size)) : i \in 1..n})
        Field(f) == LET hop == RefHops(p, f.path) IN
                    IF hop = <<>> \/ f.role = "unknown" THEN 0 ELSE Nesting(f.typ, At(hop[1], f.off)) IN
    CASE d.hook # "" -> 0
      [] d.hook = "" /\ d.kind = "Struct" -> 1 + SetMax({Field(d.fields[i]) : i \in 1..Len(d.fields)})
      [] d.hook = "" /\ d.kind = "Slice" -> IF c.data = <<>> THEN 1 ELSE Elems(Start(c.data[1]), c.n)
      [] d.hook = "" /\ d.kind = "Array" -> Elems(p, d.len)
      [] d.hook = "" /\ d.kind = "Map" ->
            1 + (IF c.m = <<>> THEN 0 ELSE SetMax({Nesting(d.elem, Start(c.m[1][i].blk)) : i \in 1..Len(c.m[1])}))
      [] d.hook = "" /\ d.kind \in {"Pointer"} -> 1 + (IF c.to = <<>> THEN 0 ELSE Nesting(d.elem, Start(c.to[1])))
      [] d.hook = "" /\ d.kind \in {"Any", "Iface"} -> 1 + (IF c.to = <<>> THEN 0 ELSE Nesting(c.t, Start(c.to[1])))
      [] OTHER -> 0

(***************************************************************************)
(* The properties.                                                         *)
(***************************************************************************)
Ref == RefDoc(last.t, Start(last.blk))
Known == <<last.t, last.indent>> \in Deviant

TypeOK ==
    /\ es.ind \in Nat /\ es.exec \in Nat /\ es.inv \in Nat /\ es.indent \in BOOLEAN
    /\ \A i \in 1..Len(es.ctx) : Len(es.ctx[i]) = MaxDepth
    /\ buf.a \in 0..Len(arenas) /\ (buf.a # 0 => buf.lo <= Len(arenas[buf.a]))
    /\ \A o \in outs : o.a \in 1..Len(arenas) /\ o.lo + Len(o.toks) <= Len(arenas[o.a])
    /\ calls \in 0..MaxCalls

\* A call that succeeds has written the document the value stands for, as
\* compact text or indented, whatever the compiler inlined, looped, called or
\* left to a Go encoder and whatever earlier calls left in the state.
OutputExact ==
    last.done /\ last.err = "" /\ ~Known
        => /\ RefErrors(Ref) = <<>>
           /\ last.out = Render(Ref, 0, last.indent)

\* A call fails only for a reason the value gives: the first member that cannot
\* be written, or more nesting than the stack has frames.
ErrorsJustified ==
    last.done /\ last.err # "" /\ ~Known
        => \/ RefErrors(Ref) # <<>> /\ last.err = RefErrors(Ref)[1]
           \/ last.err = "depth" /\ Nesting(last.t, Start(last.blk)) > MaxDepth

\* A state goes back to the pool with no frame of any context pointing into a
\* value and no run counted as active, however the call ended. The blueprint of
\* an aborted frame and the indentation may stay and are not looked at here:
\* HistoryFree says that nothing left behind influences a later result.
StateReusable ==
    /\ \A i \in 1..Len(es.ctx) : \A j \in 1..MaxDepth :
           es.ctx[i][j].ret = NilBase /\ es.ctx[i][j].p0 = NilBase
    /\ es.exec = 0 /\ es.inv = 0

\* The result of a call does not depend on the calls before it.
HistoryFree ==
    last.done /\ calls > 1 /\ ~(T[last.t].kind = "Pointer" /\ Cell(Start(last.blk)).to = <<>>)
        => \E e \in {encodeTop(acquire(NewState, last.indent), last)} : last.out = e.out /\ last.err = e.err

\* Every jump of a compiled type lands on an op, a loop's body is what its two
\* ends enclose, and a skipped field is skipped whole.
JumpsLand ==
    last.done /\ (T[last.t].kind \in {"Struct", "Slice", "Array", "Map", "Pointer", "Value"}) =>
        \A bp \in {compileBlueprint(last.t)} :
        LET Lands(n) == n \in DOMAIN bp.ops \cup {bp.len}
            Op(n) == IF n \in DOMAIN bp.ops THEN bp.ops[n].op ELSE "end"
        IN  \A n \in DOMAIN bp.ops : LET o == bp.ops[n] IN
            CASE o.op \in {"SkipIfZero", "SkipIfZeroGo"} -> Lands(n + o.a) /\ o.a > 16
              [] o.op = "Call" -> Op(o.a) = "ObjOpen"
              [] o.op = "PtrDeref" -> Lands(n + o.a) /\ Op(n + o.a - 8) = "PtrEnd"
              [] o.op \in {"SliceBegin", "ArrayBegin"} -> Op(n + 16 + o.b) = "SliceEnd" /\ Lands(n + o.b + 32)
              [] o.op = "MapStrIter" -> Op(n + 16 + o.b) = "MapStrIterEnd" /\ Lands(n + o.b + 32)
              [] o.op \in {"SliceEnd", "MapStrIterEnd"} ->
                    o.a <= n /\ Op(n - o.a - 16) \in {"SliceBegin", "ArrayBegin", "MapStrIter"}
                             /\ bp.ops[n - o.a - 16].b = o.a
              [] OTHER -> TRUE

\* No later call changes the bytes a caller was given or lent, except the dst
\* of an AppendMarshal whose value's own marshaler panicked.
ResultsStable ==
    \A o \in outs : o.a \notin lent
        => SubSeq(arenas[o.a], o.lo + 1, o.lo + Len(o.toks)) = o.toks

(* A call writes the text of its value or fails for a reason the value     *)
(* gives, and the jumps of its blueprint are well formed.                  *)
EncodesExactly == TypeOK /\ OutputExact /\ ErrorsJustified /\ JumpsLand

(* A pooled state carries from one call to the next neither pointers into  *)
(* its values nor its run counts nor an influence on the result.           *)
PoolClean == StateReusable /\ HistoryFree
=============================================================================
