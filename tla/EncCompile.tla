----------------------------- MODULE EncCompile -----------------------------
(***************************************************************************)
(* The blueprint compiler of the encoder, venc/compile*.go.  A Go type is  *)
(* compiled to intermediate instructions with labels (irBuilder), a pass   *)
(* removes trampolines, and lowering lays the instructions out as ops of   *)
(* 8 or 16 bytes whose operands are relative or absolute byte offsets.     *)
(*                                                                         *)
(* T maps a type to its descriptor:                                        *)
(*   kind    the ElemTypeKind ("Int" stands for int and int64, the kinds   *)
(*           with keyed and quoted ops; "Int8" for the other integers)     *)
(*   hook    "", "json", "text" or "time" (a type that marshals itself)    *)
(*   elem    the element, pointee or map value type                        *)
(*   len     the length of an array                                        *)
(*   size    the memory cells of one value: a scalar or a header is 1      *)
(*   fields  a struct's flattened fields                                   *)
(*   reject  the struct has a shape the type layer refused                 *)
(*   iter    the map can be walked by the op MAP_STR_ITER                  *)
(* A field has a key name, a type, its cell offset off from the base that  *)
(* path (the slots of the embedded pointers it is promoted across)         *)
(* establishes, the omitempty flag oe, oz = "" or "zero" or "method" for   *)
(* the omitzero check, quoted for `,string`, role = "", "unknown" or       *)
(* "embed", and far when its offset or key does not fit the op's fields or *)
(* the key pool is full.                                                   *)
(***************************************************************************)
EXTENDS Naturals, Sequences

CONSTANTS T,        \* the type table
          LenMod    \* 2^16: an array length keeps its low 16 bits

Scalars == {"Bool", "Int", "Int8", "Float", "String", "Number"}
NoFb == [ti |-> ""]
InvalidLabel == 0

\* One instruction: key is the member's key ("" for none), off the field
\* offset, a and b the operands, target and loop labels, id a label's own,
\* tag the kind of a zero check.
Inst(op) == [op |-> op, key |-> "", off |-> 0, a |-> 0, b |-> 0,
             target |-> 0, loop |-> 0, id |-> 0, tag |-> "", fb |-> NoFb]

NewBuilder == [insts |-> <<>>, next |-> 0, visiting |-> <<>>, subs |-> <<>>]

Emit(b, i) == [b EXCEPT !.insts = Append(@, i)]
AllocLabel(b) == [b EXCEPT !.next = @ + 1]
DefineLabel(b, l) == Emit(b, [Inst("Label") EXCEPT !.id = l])

Visits(b, t) == t \in DOMAIN b.visiting
SetVisit(b, t, l) ==
    [b EXCEPT !.visiting = [u \in DOMAIN @ \cup {t} |-> IF u = t THEN l ELSE @[u]]]
DropVisit(b, t) ==
    [b EXCEPT !.visiting = [u \in DOMAIN @ \ {t} |-> @[u]]]

\* The fallback record of a field, and of a type in element position.
FieldFB(f, off, reason) ==
    [ti |-> f.typ, off |-> off, reason |-> reason, key |-> f.key, path |-> f.path,
     oe |-> f.oe, oz |-> f.oz, quoted |-> f.quoted, chk |-> TRUE]
TypeFB(t, reason) ==
    [ti |-> t, off |-> 0, reason |-> reason, key |-> "", path |-> <<>>,
     oe |-> FALSE, oz |-> "", quoted |-> FALSE, chk |-> FALSE]
BareFB(f, reason) ==
    [FieldFB(f, f.off, reason) EXCEPT !.key = "", !.oe = FALSE, !.oz = "", !.quoted = FALSE]

Seqs(t) == T[t].hook = "" /\ T[t].kind \in {"Float", "Int", "String"}
NeedsOmitZero(f) == f.oz # "" /\ T[f.typ].kind # "Value"

(***************************************************************************)
(* The checks emitStructBody puts before a field's emission: whether its   *)
(* omitzero closure runs in Go, and the form and the tag of the native     *)
(* check.  A static check skips 24 bytes, itself and one short op; the     *)
(* label form spans an emission of any length.                             *)
(***************************************************************************)
GoChecked(f) ==
    LET d == T[f.typ] IN
    CASE d.kind = "Value" -> FALSE
      [] d.hook = "time" -> NeedsOmitZero(f)
      [] d.hook # "" -> FALSE
      [] f.quoted /\ d.kind # "Int" -> FALSE
      [] d.kind = "Struct" -> ~d.reject /\ NeedsOmitZero(f)
      [] d.kind = "Array" -> NeedsOmitZero(f)
      [] d.kind \in Scalars \cup {"Pointer", "Slice", "Bytes", "Map", "Iface"} -> f.oz = "method"
      [] OTHER -> FALSE

ozKindTag(kind) ==
    CASE kind \in {"Slice", "Bytes"} -> "OZSlice" [] kind = "Map" -> "OZMap"
      [] kind = "RawMessage" -> "OZRaw" [] OTHER -> kind

omitCheckTag(f, needsOmitempty, needsOmitZero) ==
    CASE needsOmitempty -> T[f.typ].kind
      [] needsOmitZero -> ozKindTag(T[f.typ].kind)
      [] OTHER -> ""

CheckTag(f) ==
    LET d == T[f.typ]
        reflectOZ == f.oz = "zero" IN
    CASE d.kind = "Value" -> IF f.oe THEN "Value" ELSE ""
      [] d.hook = "time" -> ""
      [] d.hook # "" -> IF f.oe THEN d.kind ELSE ""
      [] f.quoted /\ d.kind # "Int" -> IF f.oe THEN d.kind ELSE ""
      [] d.kind \in Scalars \cup {"Any", "Iface"} -> IF f.oe \/ reflectOZ THEN d.kind ELSE ""
      [] d.kind \in {"Struct", "Array"} -> ""
      [] d.kind \in {"Pointer", "Slice", "Bytes", "Map"} -> omitCheckTag(f, f.oe, reflectOZ)
      [] d.kind = "RawMessage" /\ f.oz # "" /\ ~f.oe -> "OZRaw"
      [] OTHER -> IF f.oe THEN d.kind ELSE ""

\* Mutant: a map's check skips a fixed distance.
BugLabelForm(f) == T[f.typ].hook = "" /\ ~f.quoted /\ T[f.typ].kind \in {"Pointer", "Slice"}
LabelForm(f) == T[f.typ].hook = "" /\ ~f.quoted /\ T[f.typ].kind \in {"Pointer", "Slice", "Map"}

(***************************************************************************)
(* Field and type emission.                                                *)
(***************************************************************************)
Keyed(op, key, off) == [Inst(op) EXCEPT !.key = key, !.off = off]

Packed(d) == d.len % LenMod

RECURSIVE emitStructBody(_, _, _, _), emitTypeBody(_, _)

emitNestedStruct(b, t, key, off) ==
    LET was == Visits(b, t)
        b1 == Emit(b, Keyed("ObjOpen", key, 0))
        b2 == IF was THEN b1 ELSE SetVisit(b1, t, InvalidLabel)
        b3 == emitStructBody(b2, T[t].fields, off, 1)
        b4 == IF was THEN SetVisit(b3, t, b.visiting[t]) ELSE DropVisit(b3, t)
    IN  Emit(b4, Inst("ObjClose"))

emitPointer(b, t, key, off) ==
    LET after == b.next + 1
        b1 == Emit(AllocLabel(b), [Keyed("PtrDeref", key, off) EXCEPT !.target = after])
        b2 == Emit(emitTypeBody(b1, T[t].elem), Inst("PtrEnd"))
    IN  DefineLabel(b2, after)

\* A loop over a slice's or an array's elements, unless the element has an
\* op that renders the whole sequence.
emitLoop(b, t, key, off, op) ==
    LET d == T[t]
        body == b.next + 1
        after == b.next + 2
        n == IF op = "ArrayBegin" THEN Packed(d) ELSE 0
        b1 == Emit(AllocLabel(AllocLabel(b)),
                   [Keyed(op, key, off) EXCEPT !.a = n, !.target = after])
    IN  IF Seqs(d.elem)
        THEN Emit(b, [Keyed(IF op = "ArrayBegin" THEN "SeqArray" ELSE "SeqSlice", key, off)
                        EXCEPT !.a = n])
        ELSE DefineLabel(Emit(emitTypeBody(DefineLabel(b1, body), d.elem),
                              [Inst("SliceEnd") EXCEPT !.loop = body, !.b = T[d.elem].size]), after)

emitSlice(b, t, key, off) == emitLoop(b, t, key, off, "SliceBegin")
emitArray(b, t, key, off) == emitLoop(b, t, key, off, "ArrayBegin")

\* Maps run the Go encoder through a fallback entry.  MAP_STR_ITER also has
\* a native body, which the interpreter jumps over; its after label stands
\* before the closing op.
emitMap(b, t, key, off) ==
    LET fb == [TypeFB(t, "map") EXCEPT !.off = off]
        body == b.next + 1
        after == b.next + 2
        b1 == Emit(AllocLabel(AllocLabel(b)),
                   [Keyed("MapStrIter", key, off) EXCEPT !.target = after, !.fb = fb])
    IN  IF T[t].iter
        THEN Emit(DefineLabel(emitTypeBody(DefineLabel(b1, body), T[t].elem), after),
                  [Inst("MapStrIterEnd") EXCEPT !.loop = body])
        ELSE Emit(b, [Keyed("Map", key, off) EXCEPT !.fb = fb])

\* A struct being compiled is entered by a call: to its own label when it has
\* one, otherwise to a subroutine compiled after the main program.
emitCall(b, t) ==
    LET pending == {i \in 1..Len(b.subs) : b.subs[i].ti = t}
        l == IF b.visiting[t] # InvalidLabel THEN b.visiting[t]
             ELSE IF pending # {} THEN b.subs[CHOOSE i \in pending : TRUE].label
             ELSE b.next + 1
        b1 == IF b.visiting[t] = InvalidLabel /\ pending = {}
              THEN [AllocLabel(b) EXCEPT !.subs = Append(@, [ti |-> t, label |-> l])]
              ELSE b
    IN  Emit(SetVisit(b1, t, l), [Inst("Call") EXCEPT !.target = l])

emitTypeBody(b, t) ==
    LET d == T[t] IN
    CASE d.kind = "Value" -> Emit(b, [Inst("Value") EXCEPT !.fb = TypeFB(t, "value")])
      [] d.hook = "time" -> Emit(b, [Inst("Time") EXCEPT !.fb = TypeFB(t, "marshaler")])
      [] d.hook # "" -> Emit(b, [Inst("Fallback") EXCEPT !.fb = TypeFB(t, "unknown")])
      [] d.kind \in Scalars -> Emit(b, Inst(d.kind))
      [] d.kind = "Struct" /\ d.reject ->
            Emit(b, [Inst("Fallback") EXCEPT !.fb = TypeFB(t, "unknown")])
      [] d.kind = "Struct" /\ Visits(b, t) -> emitCall(b, t)
      [] d.kind = "Struct" ->
            LET b1 == Emit(SetVisit(b, t, InvalidLabel), Inst("ObjOpen"))
                b2 == Emit(emitStructBody(b1, d.fields, 0, 1), Inst("ObjClose"))
            IN  DropVisit(b2, t)
      [] d.kind = "Bytes" -> Emit(b, Inst("Bytes"))
      [] d.kind = "Slice" -> emitSlice(b, t, "", 0)
      [] d.kind = "Array" -> emitArray(b, t, "", 0)
      [] d.kind = "Map" -> emitMap(b, t, "", 0)
      [] d.kind \in {"Any", "Iface"} -> Emit(b, Inst("Interface"))
      [] d.kind = "Pointer" -> emitPointer(b, t, "", 0)
      [] OTHER -> Emit(b, [Inst("Fallback") EXCEPT !.fb = TypeFB(t, "unknown")])

\* The emission of a field that has its own key and offset.
emitFieldValue(b, f, off) ==
    LET d == T[f.typ]
        Fall(reason) == Emit(b, [Keyed("Fallback", f.key, off) EXCEPT !.fb = FieldFB(f, off, reason)])
    IN
    CASE d.kind = "Value" -> Emit(b, [Keyed("Value", f.key, off) EXCEPT !.fb = FieldFB(f, off, "value")])
      [] d.hook = "time" -> Emit(b, [Keyed("Time", f.key, off) EXCEPT !.fb = FieldFB(f, off, "marshaler")])
      [] d.hook # "" -> Fall("marshaler")
      [] f.quoted -> IF d.kind = "Int" THEN Emit(b, Keyed("KQInt", f.key, off)) ELSE Fall("quoted")
      [] d.kind \in Scalars -> Emit(b, Keyed(d.kind, f.key, off))
      [] d.kind = "Struct" -> IF d.reject THEN Fall("unknown") ELSE emitNestedStruct(b, f.typ, f.key, off)
      [] d.kind = "Pointer" -> emitPointer(b, f.typ, f.key, off)
      [] d.kind = "Bytes" -> Emit(b, Keyed("Bytes", f.key, off))
      [] d.kind = "Slice" -> emitSlice(b, f.typ, f.key, off)
      [] d.kind = "Array" -> emitArray(b, f.typ, f.key, off)
      [] d.kind = "Map" -> emitMap(b, f.typ, f.key, off)
      [] d.kind \in {"Any", "Iface"} -> Emit(b, Keyed("Interface", f.key, off))
      [] OTHER -> Fall("unknown")

\* The label a check jumps to, behind what it skips.
LandIf(checked, b, l) == IF checked THEN DefineLabel(b, l) ELSE b

\* The checks around that emission: the Go check outside, the native one in.
emitChecked(b, f, off) ==
    LET tag == CheckTag(f)
        l1 == b.next + 1
        b1 == IF GoChecked(f)
              THEN Emit(AllocLabel(b), [Inst("SkipIfZeroGo") EXCEPT
                          !.off = off, !.target = l1, !.fb = FieldFB(f, off, "omitzero")])
              ELSE b
        l2 == b1.next + 1
        b2 == CASE tag = "" -> b1
                [] LabelForm(f) ->
                     Emit(AllocLabel(b1), [Inst("SkipIfZero") EXCEPT !.off = off, !.target = l2, !.tag = tag])
                [] OTHER ->
                     Emit(b1, [Inst("SkipIfZero") EXCEPT !.off = off, !.a = 16 + 8, !.tag = tag])
    IN  LandIf(GoChecked(f), LandIf(tag # "" /\ LabelForm(f), emitFieldValue(b2, f, off), l2), l1)

\* One field: inline spread, inline variant, promotion across a pointer, an
\* offset or key out of range, or the checked emission.
emitField(b, f, baseOff) ==
    LET off == baseOff + f.off
        Bare(reason) == Emit(b, [Inst("Fallback") EXCEPT !.fb = BareFB(f, reason)])
        beyond == f.path # <<>> \/ f.far
    IN
    CASE f.role = "unknown" /\ beyond -> Bare("spread")
      [] f.role = "unknown" -> Emit(b, [Inst("ValueSpread") EXCEPT !.off = off])
      [] f.role = "embed" /\ beyond -> Bare("unfold")
      [] f.role = "embed" -> Emit(b, [Inst("Unfold") EXCEPT !.off = off])
      [] f.path # <<>> -> Emit(b, [Inst("Fallback") EXCEPT !.fb = FieldFB(f, f.off, "viaptr")])
      [] f.far -> Emit(b, [Inst("Fallback") EXCEPT !.fb = FieldFB(f, off, "overflow")])
      [] OTHER -> emitChecked(b, f, off)

emitStructBody(b, fields, baseOff, i) ==
    IF i > Len(fields) THEN b
    ELSE emitStructBody(emitField(b, fields[i], baseOff), fields, baseOff, i + 1)

RECURSIVE drainCycleSubs(_)
drainCycleSubs(b) ==
    IF b.subs = <<>> THEN b
    ELSE LET sub == Head(b.subs)
             b1 == DefineLabel(SetVisit([b EXCEPT !.subs = Tail(@)], sub.ti, sub.label), sub.label)
         IN  drainCycleSubs(Emit(Emit(emitStructBody(Emit(b1, Inst("ObjOpen")), T[sub.ti].fields, 0, 1),
                                      Inst("ObjClose")), Inst("Ret")))

(***************************************************************************)
(* The pass that removes trampolines, a label whose code is one call.      *)
(***************************************************************************)
IsTrampoline(insts, i) ==
    i + 2 <= Len(insts) /\ insts[i].op = "Label" /\ insts[i+1].op = "Call" /\ insts[i+2].op = "Ret"

RECURSIVE FinalTarget(_, _, _)
FinalTarget(insts, l, fuel) ==
    LET S == {i \in 1..Len(insts) : IsTrampoline(insts, i) /\ insts[i].id = l}
    IN  IF S = {} \/ fuel = 0 THEN l
        ELSE FinalTarget(insts, insts[(CHOOSE i \in S : TRUE) + 1].target, fuel - 1)

RECURSIVE DropTrampolines(_, _)
DropTrampolines(insts, i) ==
    IF i > Len(insts) THEN <<>>
    ELSE IF IsTrampoline(insts, i) THEN DropTrampolines(insts, i + 3)
    ELSE <<insts[i]>> \o DropTrampolines(insts, i + 1)

runPasses(insts) ==
    DropTrampolines(
        [i \in 1..Len(insts) |->
            IF insts[i].op = "Call"
            THEN [insts[i] EXCEPT !.target = FinalTarget(insts, @, Len(insts))]
            ELSE insts[i]], 1)

(***************************************************************************)
(* Lowering.                                                               *)
(***************************************************************************)
LongOps == {"SkipIfZero", "SkipIfZeroGo", "Call", "PtrDeref", "SliceBegin", "SliceEnd",
            "ArrayBegin", "SeqSlice", "SeqArray", "MapStrIter", "MapStrIterEnd"}

OpSize(op) == IF op = "Label" THEN 0 ELSE IF op \in LongOps THEN 16 ELSE 8

RECURSIVE Offsets(_, _, _)
Offsets(insts, i, at) ==
    IF i > Len(insts) THEN <<>>
    ELSE <<at>> \o Offsets(insts, i + 1, at + OpSize(insts[i].op))

resolveOperands(i, self, at) ==
    CASE i.op \in {"SkipIfZero", "SkipIfZeroGo", "PtrDeref"} /\ i.target # InvalidLabel ->
            [i EXCEPT !.a = at[i.target] - self]
      [] i.op = "Call" -> [i EXCEPT !.a = at[i.target]]
      [] i.op \in {"SliceBegin", "ArrayBegin"} -> [i EXCEPT !.b = at[i.target] - (self + 16) - 16]
      [] i.op \in {"SliceEnd", "MapStrIterEnd"} -> [i EXCEPT !.a = self - at[i.loop]]
      [] i.op = "MapStrIter" -> [i EXCEPT !.b = at[i.target] - (self + 16)]
      [] OTHER -> i

\* A blueprint: its ops by byte offset and their total size.
lower(insts) ==
    LET offs == Offsets(insts, 1, 0)
        real == {i \in 1..Len(insts) : insts[i].op # "Label"}
        labels == {insts[i].id : i \in (1..Len(insts)) \ real}
        at == [l \in labels |-> offs[CHOOSE i \in (1..Len(insts)) \ real : insts[i].id = l]]
    IN  [ops |-> [o \in {offs[i] : i \in real} |->
                    LET i == CHOOSE j \in real : offs[j] = o
                    IN  resolveOperands(insts[i], o, at)],
         len |-> IF insts = <<>> THEN 0 ELSE offs[Len(insts)] + OpSize(insts[Len(insts)].op)]

Finish(b) == lower(runPasses(drainCycleSubs(Emit(b, Inst("Ret"))).insts))

compileBlueprint(t) ==
    LET d == T[t]
        rooted == DefineLabel(SetVisit(AllocLabel(NewBuilder), t, 1), 1)
    IN  IF d.kind = "Struct" /\ d.hook = ""
        THEN Finish(Emit(emitStructBody(Emit(rooted, Inst("ObjOpen")), d.fields, 0, 1), Inst("ObjClose")))
        ELSE Finish(emitTypeBody(NewBuilder, t))

\* The fields of an inline variant's case without the braces: the label of
\* the case type stands before its first field.
compileBodyBlueprint(t) ==
    Finish(emitStructBody(DefineLabel(SetVisit(AllocLabel(NewBuilder), t, 1), 1), T[t].fields, 0, 1))

=============================================================================
