------------------------------ MODULE TypeTree ------------------------------
(***************************************************************************)
(* vbind.Build: a Go type graph becomes the flat table the binders walk.   *)
(*                                                                         *)
(* collect numbers a type before it descends, so a recursive reference sees*)
(* a row that is not filled in yet; the passes after it (slot groups, key  *)
(* rows, map drain records, the map buffer bound, field flags, arena use,  *)
(* the tape gates) work over the finished table.  The recursion is flat    *)
(* here: "work" is the list of what is left to do, depth first.            *)
(*                                                                         *)
(* decl[u] describes type u: kind, elem (pointee, element or map value),   *)
(* key, size, and for a struct the sequence of its fields:                 *)
(*   t the field's type     via  the embedded pointers crossed to reach it *)
(*   res reserves unknown keys     quoted  carries the string option       *)
(*   poly  "", "variant", "inline" or "kindof", with disc, the index of    *)
(*         the discriminator field, and cases, the case types              *)
(***************************************************************************)
EXTENDS Integers, Sequences, FiniteSets, FiniteSetsExt, SequencesExt

CONSTANTS Programs,      \* the type graphs considered
          Root,          \* the type a tree is built for
          ChainDepth,    \* maxMapChainDepth, and the binder's frame limit
          MemoLimit      \* the length the key memo's offsets can reach

ASSUME LimitsAssumption == ChainDepth \in Nat \ {0} /\ MemoLimit \in Nat \ {0}

VARIABLES decl, phase,
          work,          \* what collect still has to do
          types, fields, slots, polys, mapSites, \* the builder's tables
          tarjan,        \* the slot graph walk's own state
          rows,          \* the key memo row of each struct, 0 for none
          drain,         \* the drain record of each map site
          mapBuf,        \* MapBufMinBytes
          scan,          \* the arena pass: the next type, and whether any changed
          gate, visited, \* the tape gate's positions to visit, and those visited
          unsupported, sites \* TapeBindUnsupported found, SplitTapeSites

vars == <<decl, phase, work, types, fields, slots, polys, mapSites, tarjan, rows,
          drain, mapBuf, scan, gate, visited, unsupported, sites>>
tables == <<types, fields, slots, polys, mapSites>>
passes == <<tarjan, rows, drain, mapBuf, scan, gate, visited, unsupported, sites>>

SliceAny == "[]any"
MapAny   == "m[any]"
Containers == {"struct", "array", "slice", "map"}
Unbounded == -1

-----------------------------------------------------------------------------
(* Looking types up.                                                       *)
Seen(u) == \E i \in DOMAIN types : types[i].ut = u
IdxOf(u) == CHOOSE i \in DOMAIN types : types[i].ut = u

(* S closed under succ, over the names of the program.                     *)
Closure(S, succ(_)) ==
  LET grow[n \in 0..Cardinality(DOMAIN decl)] ==
        IF n = 0 THEN S ELSE LET g == grow[n - 1] IN g \union UNION {succ(u) : u \in g}
  IN grow[Cardinality(DOMAIN decl)]

FieldTypes(u) == {decl[u].fields[i].t : i \in DOMAIN decl[u].fields}

(* A pointer type that leads back to itself through pointers alone.        *)
PointerCycle(u) ==
  LET hop[n \in 0..Cardinality(DOMAIN decl)] ==
        IF n = 0 THEN u
        ELSE LET v == hop[n - 1] IN IF decl[v].kind = "ptr" THEN decl[v].elem ELSE v
  IN \A n \in DOMAIN hop : decl[hop[n]].kind = "ptr"

(* The type of the one field a hooked struct may have.                     *)
Behind(u) == {decl[u].elem} \ {""}

(* What reflection walks in search of a stream: findStreamField stops at a *)
(* stream, streamRecurses goes on through its elements.                    *)
Parts(u) == CASE decl[u].kind = "struct" -> FieldTypes(u)
              [] decl[u].kind \in {"slice", "array", "map", "ptr"} -> {decl[u].elem}
              [] decl[u].kind = "hook" -> Behind(u)
              [] OTHER -> {}
HasStream(u) == \E v \in Closure({u}, Parts) : decl[v].kind = "stream"
StreamRecurses(u) ==
  LET through(v) == IF decl[v].kind = "stream" THEN {decl[v].elem} ELSE Parts(v)
  IN \E v \in Closure({u}, through) : decl[v].kind = "stream" /\ decl[v].elem = u

(* Slot classes.  A pointee that is a map has a class apart from the map's *)
(* header; slices and streams of one element have classes of their own.    *)
Has(ss, table, key) == \E i \in DOMAIN ss : ss[i].table = table /\ ss[i].key = key
SlotOf(ss, table, key) == CHOOSE i \in DOMAIN ss : ss[i].table = table /\ ss[i].key = key
Register(ss, table, key, kind, roots) ==
  IF Has(ss, table, key) THEN ss
  ELSE Append(ss, [table |-> table, key |-> key, kind |-> kind, roots |-> roots,
                   group |-> 0, mode |-> "bump", any |-> FALSE])

PointeeTable(u) == IF decl[u].kind = "map" THEN "word" ELSE "slot"
registerSlotClass(ss, u) == Register(ss, PointeeTable(u), u, "pointer", {u})
registerMapSlotClass(ss, u) == Register(ss, "slot", u, "map", {decl[u].key, decl[u].elem})
registerSliceSlotClass(ss, u, stream) ==
  Register(ss, IF stream THEN "stream" ELSE "slice", u, "slice", {u})

-----------------------------------------------------------------------------
(* collect.  Its items: collect a type, append a struct's fields, check and*)
(* record one case of a polymorphic field, append its table, finish a type.*)
Collect(u) == [op |-> "collect", ut |-> u, f |-> 0, c |-> 0]
Item(op, u, f, c) == [op |-> op, ut |-> u, f |-> f, c |-> c]

CaseItems(u, f) ==
  LET cs == decl[u].fields[f].cases IN
  FlattenSeq([c \in DOMAIN cs |-> <<Collect(cs[c]), Item("case", u, f, c)>>])
    \o <<Item("poly", u, f, 0)>>

PolyItems(u, polyKinds) ==
  LET fs == decl[u].fields IN
  FlattenSeq([f \in DOMAIN fs |-> IF fs[f].poly \in polyKinds THEN CaseItems(u, f) ELSE <<>>])

Items(u) ==
  (CASE decl[u].kind = "struct" ->
          [i \in DOMAIN decl[u].fields |-> Collect(decl[u].fields[i].t)]
            \o <<Item("fields", u, 0, 0)>>
            \o PolyItems(u, {"variant", "inline"}) \o PolyItems(u, {"kindof"})
     [] decl[u].kind \in {"ptr", "slice", "stream", "array"} -> <<Collect(decl[u].elem)>>
     [] decl[u].kind = "map" -> <<Collect(decl[u].key), Collect(decl[u].elem)>>
     [] decl[u].kind = "any" -> <<Collect(SliceAny), Collect(MapAny)>>
     [] OTHER -> <<>>) \o <<Item("finish", u, 0, 0)>>

Fresh(u) == [ut |-> u, kind |-> decl[u].kind, child |-> 0, base |-> 0, n |-> 0,
             flags |-> {}, defer |-> FALSE, str |-> FALSE, tape |-> FALSE,
             pub |-> FALSE, alloc |-> 0, inline |-> 0, reserve |-> FALSE, fin |-> FALSE]

Init ==
  /\ decl \in Programs /\ phase = "collect" /\ work = <<Collect(Root)>>
  /\ types = <<>> /\ fields = <<>> /\ slots = <<>> /\ polys = <<>> /\ mapSites = <<>>
  /\ tarjan = [index |-> <<>>, low |-> <<>>, stack |-> <<>>, comp |-> <<>>,
               frames |-> <<>>, count |-> 0, comps |-> 0]
  /\ rows = <<>> /\ drain = <<>> /\ mapBuf = 0 /\ scan = [at |-> 1, changed |-> FALSE]
  /\ gate = <<>> /\ visited = {} /\ unsupported = FALSE /\ sites = 0

At(op) == phase = "collect" /\ work # <<>> /\ Head(work).op = op
AtFinish(kinds) == At("finish") /\ decl[Head(work).ut].kind \in kinds
Here == Head(work).ut

(* A build error ends Build.                                               *)
Fail == phase' = "failed" /\ work' = <<>> /\ UNCHANGED <<decl, tables, passes>>

CollectSeen ==
  /\ At("collect") /\ Seen(Here)
  /\ work' = Tail(work) /\ UNCHANGED <<decl, phase, tables, passes>>

(* The row is numbered and visible before its children are collected.      *)
CollectNew ==
  /\ At("collect") /\ ~Seen(Here)
  /\ ~(decl[Here].kind = "ptr" /\ PointerCycle(Here))
  /\ types' = Append(types, Fresh(Here))
  /\ work' = Items(Here) \o Tail(work)
  /\ UNCHANGED <<decl, phase, fields, slots, polys, mapSites, passes>>

CollectCycle ==
  /\ At("collect") /\ ~Seen(Here)
  /\ decl[Here].kind = "ptr" /\ PointerCycle(Here)
  /\ Fail

(* The row of the type being finished, filled in.                          *)
Filled(row) ==
  LET cold == row.kind \in {"ptr", "val", "any", "iface", "hook", "text", "raw"} IN
  [row EXCEPT !.fin = TRUE,
              !.flags = @ \union (IF cold THEN {"cold"} ELSE {})
                          \union (IF row.kind \in Containers /\ row.defer THEN {"deferred"} ELSE {})]

Fill(row) == types' = [types EXCEPT ![IdxOf(Here)] = Filled(row)]
Row == types[IdxOf(Here)]
Done1 == work' = Tail(work) /\ UNCHANGED <<decl, phase, passes>>

(* Scalars, hooks, raw messages, Values and interfaces have no children.   *)
LeafRow(row) ==
  [row EXCEPT !.defer = row.kind \in {"hook", "text", "raw", "val", "iface"},
              !.str   = row.kind \in {"text", "str", "num", "val"},
              !.tape  = row.kind = "val", !.pub = row.kind = "val"]

FinishLeaf ==
  /\ AtFinish({"int", "byte", "str", "num", "raw", "val", "hook", "text", "iface"})
  /\ Fill(LeafRow(Row))
  /\ Done1 /\ UNCHANGED <<fields, slots, polys, mapSites>>

FinishPointer ==
  /\ AtFinish({"ptr"})
  /\ LET e  == decl[Here].elem
         ss == registerSlotClass(slots, e)
     IN /\ slots' = ss
        /\ Fill([Row EXCEPT !.child = IdxOf(e), !.alloc = SlotOf(ss, PointeeTable(e), e),
                            !.defer = types[IdxOf(e)].defer])
  /\ Done1 /\ UNCHANGED <<fields, polys, mapSites>>

(* A stream's elements may not be pointers nor contain the stream itself.  *)
BadStream(u) == decl[u].kind = "stream"
                /\ (decl[decl[u].elem].kind = "ptr" \/ StreamRecurses(decl[u].elem))

FinishSlice ==
  /\ AtFinish({"slice", "stream"}) /\ ~BadStream(Here)
  /\ LET e      == decl[Here].elem
         stream == decl[Here].kind = "stream"
         ss     == registerSliceSlotClass(slots, e, stream)
     IN /\ slots' = ss
        /\ Fill([Row EXCEPT !.child = IdxOf(e),
                            !.alloc = SlotOf(ss, IF stream THEN "stream" ELSE "slice", e),
                            !.flags = IF stream /\ HasStream(e) THEN {"elemStream"} ELSE {},
                            !.defer = decl[e].kind = "byte" \/ types[IdxOf(e)].defer])
  /\ Done1 /\ UNCHANGED <<fields, polys, mapSites>>

FinishArray ==
  /\ AtFinish({"array"})
  /\ Fill([Row EXCEPT !.child = IdxOf(decl[Here].elem),
                      !.defer = types[IdxOf(decl[Here].elem)].defer])
  /\ Done1 /\ UNCHANGED <<fields, slots, polys, mapSites>>

BugNeedsIndirection(v) == types[v].kind \in {"hook", "text", "raw", "val", "iface"}

(* A map value that holds a deferred target is staged in a slot of its own *)
(* class; the class is registered only if the value looks deferred now.    *)
mapValueNeedsIndirection(v) ==
  /\ types[v].kind # "ptr"
  /\ types[v].kind \in {"hook", "text", "raw", "val", "iface"} \/ types[v].defer

Stride(u) == 16 + decl[u].size

FinishMap ==
  /\ AtFinish({"map"}) /\ ~HasStream(decl[Here].elem)
  /\ LET e  == decl[Here].elem
         v  == IdxOf(e)
         d  == mapValueNeedsIndirection(v)
         s1 == IF d THEN registerSlotClass(slots, e) ELSE slots
         s2 == registerMapSlotClass(s1, Here)
     IN /\ slots' = s2
        /\ mapSites' = Append(mapSites,
             [idx |-> IdxOf(Here), val |-> v, stride |-> Stride(e),
              slot |-> IF d THEN SlotOf(s1, PointeeTable(e), e) ELSE 0])
        /\ Fill([Row EXCEPT !.child = v, !.alloc = SlotOf(s2, "slot", Here),
                            !.defer = types[v].defer, !.str = TRUE])
  /\ Done1 /\ UNCHANGED <<fields, polys>>

(* An any retains a []any header or a map[string]any.                      *)
FinishAny ==
  /\ AtFinish({"any"})
  /\ LET s1 == Register(slots, "prim", "float64", "prim", {})
         s2 == Register(s1, "prim", "string", "prim", {})
         s3 == Register(s2, "prim", SliceAny, "prim", {SliceAny})
     IN slots' = registerMapSlotClass(s3, MapAny)
  /\ Fill([Row EXCEPT !.str = TRUE])
  /\ Done1 /\ UNCHANGED <<fields, polys, mapSites>>

FinishBad ==
  /\ \/ AtFinish({"slice", "stream"}) /\ BadStream(Here)
     \/ AtFinish({"map"}) /\ HasStream(decl[Here].elem)
  /\ Fail

-----------------------------------------------------------------------------
BugFieldRow(u, i) ==
  LET f == decl[u].fields[i] IN
  [ty |-> IdxOf(f.t) + 1, flags |-> {}, poly |-> 0, tags |-> {}]

(* Structs.  The fields are appended once their types are collected; each  *)
(* inherits the flags its type has at that moment.                         *)
FieldRow(u, i) ==
  LET f == decl[u].fields[i] IN
  [ty |-> IdxOf(f.t), flags |-> types[IdxOf(f.t)].flags \ {"phase2"}, poly |-> 0,
   tags |-> (IF f.quoted THEN {"quoted"} ELSE {}) \union (IF f.res THEN {"reserve"} ELSE {})
            \union (IF f.via # <<>> THEN {"viaptr"} ELSE {})]

RECURSIVE RegisterAll(_, _)
RegisterAll(ss, us) ==
  IF us = <<>> THEN ss ELSE RegisterAll(registerSlotClass(ss, Head(us)), Tail(us))

(* What attachVariants refuses: two embedded variants, a discriminator that*)
(* is missing, not a string or behind a pointer, a target behind a pointer *)
(* or of a shape that cannot hold a case.                                  *)
BadPoly(u) ==
  LET fs == decl[u].fields IN
  \/ Cardinality({f \in DOMAIN fs : fs[f].poly = "inline"}) > 1
  \/ \E f \in DOMAIN fs :
       /\ fs[f].poly # ""
       /\ \/ fs[f].via # <<>> \/ decl[fs[f].t].kind \notin {"any", "iface"}
          \/ /\ fs[f].poly \in {"variant", "inline"}
             /\ \/ fs[f].disc \notin DOMAIN fs
                \/ decl[fs[fs[f].disc].t].kind # "str" \/ fs[fs[f].disc].via # <<>>

BadReserve(u) ==
  LET rs == {f \in DOMAIN decl[u].fields : decl[u].fields[f].res} IN
  Cardinality(rs) > 1 \/ \E f \in rs : decl[u].fields[f].via # <<>>

AppendFields ==
  /\ At("fields") /\ ~BadPoly(Here) /\ ~BadReserve(Here)
  /\ LET fs == decl[Here].fields IN
     /\ slots' = RegisterAll(slots, FlattenSeq([i \in DOMAIN fs |-> fs[i].via]))
     /\ fields' = fields \o [i \in DOMAIN fs |-> FieldRow(Here, i)]
     /\ types' = [types EXCEPT ![IdxOf(Here)].base = Len(fields),
                               ![IdxOf(Here)].n = Len(fs)]
  /\ Done1 /\ UNCHANGED <<polys, mapSites>>

FieldsBad == At("fields") /\ (BadPoly(Here) \/ BadReserve(Here)) /\ Fail

(* One case of a polymorphic field, after its type is collected.           *)
HereField == decl[Here].fields[Head(work).f]
HereCase  == HereField.cases[Head(work).c]
BugBadCase ==
  \/ HereField.poly = "inline" /\ decl[HereCase].kind # "struct"
  \/ decl[HereField.t].kind = "iface" /\ decl[HereCase].kind = "any"

BadCase ==
  \/ HereField.poly = "inline" /\ (decl[HereCase].kind # "struct"
                                   \/ types[IdxOf(HereCase)].inline # 0)
  \/ HereField.poly \in {"variant", "inline"} /\ HasStream(HereCase)
  \/ decl[HereField.t].kind = "iface" /\ decl[HereCase].kind = "any"

AddCase ==
  /\ At("case") /\ ~BadCase
  /\ slots' = registerSlotClass(slots, HereCase)
  /\ Done1 /\ UNCHANGED <<types, fields, polys, mapSites>>

CaseBad == At("case") /\ BadCase /\ Fail

(* The finished case table.  An inline variant claims its discriminator;   *)
(* two named variants may share one, which keeps the first.                *)
AddPoly ==
  /\ At("poly")
  /\ LET p == Len(polys) + 1
         b == types[IdxOf(Here)].base
         t == b + Head(work).f
         d == b + HereField.disc
         inline == HereField.poly = "inline"
         tagged == [fields EXCEPT ![t].tags = @ \union {HereField.poly}, ![t].poly = p]
     IN /\ polys' = Append(polys, [c \in DOMAIN HereField.cases |-> IdxOf(HereField.cases[c])])
        /\ fields' = IF HereField.poly = "kindof" THEN tagged
                     ELSE IF inline
                     THEN [tagged EXCEPT ![d].tags = @ \union {"vdisc", "inlinevdisc"}, ![d].poly = p]
                     ELSE IF "vdisc" \in tagged[d].tags THEN tagged
                     ELSE [tagged EXCEPT ![d].tags = @ \union {"vdisc"}, ![d].poly = p]
        /\ types' = IF inline THEN [types EXCEPT ![IdxOf(Here)].inline = p] ELSE types
  /\ Done1 /\ UNCHANGED <<slots, mapSites>>

OwnFields(row) == {fields[i] : i \in (row.base + 1)..(row.base + row.n)}

FinishStruct ==
  /\ AtFinish({"struct"})
  /\ LET reserve == \E f \in OwnFields(Row) : "reserve" \in f.tags
         poly    == \E f \in OwnFields(Row) : f.tags \intersect {"variant", "inline", "kindof"} # {}
     IN Fill([Row EXCEPT !.reserve = reserve, !.str = TRUE,
                         !.flags = IF poly \/ reserve THEN {"phase2"} ELSE {},
                         !.tape  = poly \/ reserve,
                         !.defer = \E f \in OwnFields(Row) : types[f.ty].defer])
  /\ Done1 /\ UNCHANGED <<fields, slots, polys, mapSites>>

-----------------------------------------------------------------------------
(* markSCCGroups.  The backings a slot's memory can retain: structs and    *)
(* arrays are inlined, hooked ones included, and the first pointer, slice, *)
(* map or any ends a branch.                                               *)
Inlined(u) == CASE decl[u].kind = "struct" -> {v \in FieldTypes(u) : Seen(v)}
                [] decl[u].kind = "array"  -> {v \in {decl[u].elem} : Seen(v)}
                [] decl[u].kind = "hook"   -> {v \in Behind(u) : Seen(v)}
                [] OTHER -> {}

SlotEdge(u) ==
  CASE decl[u].kind = "ptr" /\ Has(slots, "slot", decl[u].elem) ->
         {SlotOf(slots, "slot", decl[u].elem)}
    [] decl[u].kind = "slice" /\ Has(slots, "slice", decl[u].elem) ->
         {SlotOf(slots, "slice", decl[u].elem)}
    [] decl[u].kind = "map" /\ Has(slots, "slot", u) -> {SlotOf(slots, "slot", u)}
    [] decl[u].kind = "any" /\ Has(slots, "prim", SliceAny) ->
         {SlotOf(slots, "prim", SliceAny), SlotOf(slots, "slot", MapAny)}
    [] OTHER -> {}

SlotEdges(s) ==
  LET roots == {u \in slots[s].roots : Seen(u)} IN
  UNION {SlotEdge(u) : u \in Closure(roots, Inlined)}

Adj(s) == SetToSortSeq(SlotEdges(s), <)

CollectDone ==
  /\ phase = "collect" /\ work = <<>>
  /\ phase' = "scc"
  /\ tarjan' = [tarjan EXCEPT !.index = [s \in DOMAIN slots |-> 0],
                              !.low   = [s \in DOMAIN slots |-> 0],
                              !.comp  = [s \in DOMAIN slots |-> 0]]
  /\ UNCHANGED <<decl, work, tables, rows, drain, mapBuf, scan, gate, visited, unsupported, sites>>

Restart(t, v) == [t EXCEPT !.count = @ + 1, !.index[v] = t.count + 1, !.low[v] = t.count + 1,
                           !.stack = <<v>> \o @,
                           !.frames = <<[v |-> v, todo |-> Adj(v)]>> \o @]

BugTarjanEdge(t) ==
  LET f == Head(t.frames)
      w == Head(f.todo)
      u == [t EXCEPT !.frames[1].todo = Tail(@)]
  IN IF t.index[w] = 0 THEN Restart(u, w)
     ELSE IF t.index[w] < t.low[f.v] THEN [u EXCEPT !.low[f.v] = t.index[w]] ELSE u

TarjanEdge(t) ==
  LET f == Head(t.frames)
      w == Head(f.todo)
      u == [t EXCEPT !.frames[1].todo = Tail(@)]
  IN IF t.index[w] = 0 THEN Restart(u, w)
     ELSE IF w \in Range(t.stack) /\ t.index[w] < t.low[f.v]
          THEN [u EXCEPT !.low[f.v] = t.index[w]]
          ELSE u

TarjanClose(t) ==
  LET v   == Head(t.frames).v
      pos == CHOOSE i \in DOMAIN t.stack : t.stack[i] = v
      top == {t.stack[i] : i \in 1..pos}
      u   == IF t.low[v] # t.index[v] THEN t
             ELSE [t EXCEPT !.comps = @ + 1,
                            !.stack = SubSeq(@, pos + 1, Len(@)),
                            !.comp  = [s \in DOMAIN @ |-> IF s \in top THEN t.comps + 1 ELSE @[s]]]
      rest == Tail(t.frames)
  IN IF rest # <<>> /\ t.low[v] < t.low[Head(rest).v]
     THEN [u EXCEPT !.frames = rest, !.low[Head(rest).v] = t.low[v]]
     ELSE [u EXCEPT !.frames = rest]

Unvisited == {s \in DOMAIN slots : tarjan.index[s] = 0}

TarjanStep ==
  /\ phase = "scc" /\ (tarjan.frames # <<>> \/ Unvisited # {})
  /\ tarjan' = IF tarjan.frames = <<>>
               THEN Restart(tarjan, CHOOSE s \in Unvisited : \A o \in Unvisited : s <= o)
               ELSE IF Head(tarjan.frames).todo # <<>> THEN TarjanEdge(tarjan)
               ELSE TarjanClose(tarjan)
  /\ UNCHANGED <<decl, phase, work, tables, rows, drain, mapBuf, scan, gate, visited, unsupported, sites>>

(* A component of one slot counts only with a loop of its own; a grouped   *)
(* slice is record-batched, any other grouped slot is bumped by record.    *)
GroupOf(s) ==
  LET c == tarjan.comp[s] IN
  IF s \in SlotEdges(s) \/ \E o \in DOMAIN slots \ {s} : tarjan.comp[o] = c THEN c ELSE 0

MarkGroups ==
  /\ phase = "scc" /\ tarjan.frames = <<>> /\ Unvisited = {}
  /\ LET anyg == IF Has(slots, "prim", SliceAny)
                 THEN {GroupOf(SlotOf(slots, "prim", SliceAny)), GroupOf(SlotOf(slots, "slot", MapAny))} \ {0}
                 ELSE {}
     IN slots' = [s \in DOMAIN slots |->
          [slots[s] EXCEPT !.group = GroupOf(s), !.any = GroupOf(s) \in anyg,
             !.mode = IF GroupOf(s) = 0 THEN "bump"
                      ELSE IF slots[s].kind = "slice" THEN "recbatch" ELSE "recbump"]]
  /\ phase' = "attach"
  /\ UNCHANGED <<decl, work, types, fields, polys, mapSites, passes>>

-----------------------------------------------------------------------------
(* attachKeyMemoRows: a row of field count + 1 for each struct that fits.  *)
StructIdxs == SelectSeq([i \in DOMAIN types |-> i], LAMBDA i : types[i].kind = "struct")

KeyMemoRows ==
  LET n == Len(StructIdxs)
      size(k) == types[StructIdxs[k]].n + 1
      lay[k \in 0..n] ==
        IF k = 0 THEN [at |-> <<>>, next |-> 1]
        ELSE LET l == lay[k - 1] IN
             IF l.next + size(k) > MemoLimit THEN [l EXCEPT !.at = Append(@, 0)]
             ELSE [at |-> Append(l.at, l.next), next |-> l.next + size(k)]
  IN lay[n].at

(* attachMapDrainInfos: whether the value is deferred is asked again.      *)
DrainInfos == [k \in DOMAIN mapSites |->
                 [idx |-> mapSites[k].idx, val |-> mapSites[k].val, slot |-> mapSites[k].slot,
                  deferred |-> mapValueNeedsIndirection(mapSites[k].val)]]

(* buildTypeAdjacency and sizeMapBuffer: the heaviest chain of map regions *)
(* a descent can hold open, a cycle counting for the deepest chain.        *)
TypeAdj(i) ==
  CASE types[i].kind \in {"ptr", "slice", "stream", "array", "map"} -> {types[i].child}
    [] types[i].kind = "struct" -> {f.ty : f \in OwnFields(types[i])}
    [] types[i].kind = "any"    -> {IdxOf(SliceAny), IdxOf(MapAny)}
    [] OTHER -> {}

RegionSize(i) ==
  LET here == {k \in DOMAIN mapSites : mapSites[k].idx = i} IN
  IF here = {} THEN 0 ELSE 32 + 32 * mapSites[CHOOSE k \in here : TRUE].stride

SupOf(S) == IF S = {} THEN 0 ELSE CHOOSE x \in S : \A y \in S : y <= x
ByteCap == ChainDepth * SupOf({RegionSize(i) : i \in DOMAIN types})
AtMost(a, b) == IF a < b THEN a ELSE b

RECURSIVE LongestFrom(_, _)
LongestFrom(i, onStack) ==
  IF i \in onStack THEN ByteCap
  ELSE AtMost(RegionSize(i) + SupOf({LongestFrom(c, onStack \union {i}) : c \in TypeAdj(i)}), ByteCap)

BugSizeMapBuffer == SupOf({RegionSize(i) : i \in DOMAIN types})

sizeMapBuffer == IF mapSites = <<>> THEN 0
                 ELSE SupOf({LongestFrom(i, {}) : i \in DOMAIN types})

BugReapplied == fields

(* reapplyFieldFlags: recursive references saw flags that were not final.  *)
Reapplied == [i \in DOMAIN fields |->
                [fields[i] EXCEPT !.flags = types[fields[i].ty].flags \ {"phase2"}]]

Attach ==
  /\ phase = "attach"
  /\ rows' = KeyMemoRows /\ drain' = DrainInfos /\ mapBuf' = sizeMapBuffer
  /\ fields' = Reapplied
  /\ phase' = "arena"
  /\ UNCHANGED <<decl, work, types, slots, polys, mapSites, tarjan, scan, gate, visited, unsupported, sites>>

-----------------------------------------------------------------------------
(* propagateArenaUse: passes over the table until one changes nothing.     *)
ArenaChildren(i) == IF types[i].kind = "any" THEN {} ELSE TypeAdj(i)

PropagateRow(i) ==
  LET cs == {types[c] : c \in ArenaChildren(i)} IN
  [types[i] EXCEPT !.str = @ \/ \E c \in cs : c.str, !.tape = @ \/ \E c \in cs : c.tape,
                   !.pub = @ \/ \E c \in cs : c.pub]

BugPropagate ==
  /\ phase = "arena" /\ scan.at <= Len(types)
  /\ types' = [types EXCEPT ![scan.at] = PropagateRow(scan.at)]
  /\ scan' = [at |-> scan.at + 1, changed |-> FALSE]
  /\ UNCHANGED <<decl, phase, work, fields, slots, polys, mapSites, tarjan, rows, drain, mapBuf, gate, visited, unsupported, sites>>

Propagate ==
  /\ phase = "arena" /\ scan.at <= Len(types)
  /\ types' = [types EXCEPT ![scan.at] = PropagateRow(scan.at)]
  /\ scan' = [at |-> scan.at + 1, changed |-> scan.changed \/ PropagateRow(scan.at) # types[scan.at]]
  /\ UNCHANGED <<decl, phase, work, fields, slots, polys, mapSites, tarjan, rows, drain, mapBuf, gate, visited, unsupported, sites>>

PropagateAgain ==
  /\ phase = "arena" /\ scan.at > Len(types) /\ scan.changed
  /\ scan' = [at |-> 1, changed |-> FALSE]
  /\ UNCHANGED <<decl, phase, work, tables, tarjan, rows, drain, mapBuf, gate, visited, unsupported, sites>>

(* computeTapeBindUnsupported.  A position is a type index, the root being *)
(* judged by its own rule; the cases of a polymorphic field are gated and  *)
(* searched before the field itself.                                       *)
RootUnsupported(k) == k \in {"any", "iface", "hook", "text", "raw", "num", "stream"}
NestedUnsupported(k) == k \in {"hook", "text", "raw", "iface", "num", "stream"}

RECURSIVE Pointee(_)
Pointee(i) == IF types[i].kind = "ptr" THEN Pointee(types[i].child) ELSE i

NestedParts(i) ==
  IF types[i].kind \in {"ptr", "slice", "array", "map"} THEN {types[i].child}
  ELSE IF types[i].kind = "struct" THEN {f.ty : f \in OwnFields(types[i])} ELSE {}

IdxClosure(S) ==
  LET grow[n \in 0..Len(types)] ==
        IF n = 0 THEN S ELSE LET g == grow[n - 1] IN g \union UNION {NestedParts(i) : i \in g}
  IN grow[Len(types)]

BadPosition(i) ==
  \/ types[i].kind = "ptr" /\ types[types[i].child].kind \in {"any", "iface"}
  \/ types[i].kind # "ptr" /\ NestedUnsupported(types[i].kind)

CaseUnsupported(c) ==
  \/ "cold" \in types[c].flags /\ types[c].kind \notin {"ptr", "val", "any"}
  \/ \E i \in IdxClosure({c}) : BadPosition(i)

GateStart ==
  /\ phase = "arena" /\ scan.at > Len(types) /\ ~scan.changed
  /\ phase' = "gate" /\ gate' = <<[idx |-> IdxOf(Root), root |-> TRUE]>>
  /\ UNCHANGED <<decl, work, tables, tarjan, rows, drain, mapBuf, scan, visited, unsupported, sites>>

BugGateBad(g) ==
  \/ g.root /\ RootUnsupported(types[Pointee(g.idx)].kind)
  \/ ~g.root /\ BadPosition(g.idx)

GateBad(g) ==
  \/ g.root /\ RootUnsupported(types[Pointee(g.idx)].kind)
  \/ ~g.root /\ BadPosition(g.idx)
  \/ /\ types[g.idx].kind = "struct"
     /\ \E f \in OwnFields(types[g.idx]) :
          /\ f.tags \intersect {"variant", "inline", "kindof"} # {}
          /\ \E c \in Range(polys[f.poly]) : CaseUnsupported(c)

(* A pointer at the root is judged by its pointee's kind and goes no       *)
(* further.                                                                *)
GateNext(g) ==
  IF g.root /\ types[g.idx].kind = "ptr" THEN <<>>
  ELSE SetToSeq({[idx |-> i, root |-> FALSE] : i \in NestedParts(g.idx)})

GateStep ==
  /\ phase = "gate" /\ gate # <<>> /\ ~unsupported
  /\ LET g == Head(gate) IN
     IF g.idx \in visited THEN gate' = Tail(gate) /\ UNCHANGED <<visited, unsupported>>
     ELSE /\ visited' = visited \union {g.idx}
          /\ unsupported' = GateBad(g)
          /\ gate' = GateNext(g) \o Tail(gate)
  /\ UNCHANGED <<decl, phase, work, tables, tarjan, rows, drain, mapBuf, scan, sites>>

(* countSplitTapeSites: positions, not types, so the path is the guard.    *)
DualView(i) == types[i].reserve /\ types[i].inline # 0

BugCollectionSites(n) == n

(* An element count is the document's to choose.                           *)
CollectionSites(n) == IF n # 0 THEN Unbounded ELSE 0

RECURSIVE SitesFrom(_, _)
SitesFrom(i, onPath) ==
  LET row  == types[i]
      down == onPath \union {i}
      kids == {[f |-> f, c |-> 0] : f \in (row.base + 1)..(row.base + row.n)}
              \union UNION {{[f |-> f, c |-> c] : c \in DOMAIN polys[fields[f].poly]} :
                              f \in {g \in (row.base + 1)..(row.base + row.n) :
                                       fields[g].tags \intersect {"variant", "inline", "kindof"} # {}}}
      sub(k) == SitesFrom(IF k.c = 0 THEN fields[k.f].ty ELSE polys[fields[k.f].poly][k.c], down)
  IN IF i \in onPath THEN Unbounded
     ELSE CASE row.kind \in {"slice", "array", "map", "stream"} ->
                 CollectionSites(SitesFrom(row.child, down))
            [] row.kind = "ptr" -> SitesFrom(row.child, down)
            [] row.kind = "struct" ->
                 LET n == IF \E k \in kids : sub(k) = Unbounded THEN Unbounded
                          ELSE MapThenSumSet(sub, kids) IN
                 IF n = Unbounded THEN n ELSE n + IF DualView(i) THEN 1 ELSE 0
            [] OTHER -> 0

Resolve ==
  /\ phase = "gate" /\ (gate = <<>> \/ unsupported)
  /\ sites' = SitesFrom(IdxOf(Root), {})
  /\ phase' = "built"
  /\ UNCHANGED <<decl, work, tables, tarjan, rows, drain, mapBuf, scan, gate, visited, unsupported>>

Next == \/ CollectSeen \/ CollectNew \/ CollectCycle
        \/ FinishLeaf \/ FinishPointer \/ FinishSlice \/ FinishArray \/ FinishMap
        \/ FinishAny \/ FinishBad \/ FinishStruct
        \/ AppendFields \/ FieldsBad \/ AddCase \/ CaseBad \/ AddPoly
        \/ CollectDone \/ TarjanStep \/ MarkGroups \/ Attach
        \/ Propagate \/ PropagateAgain \/ GateStart \/ GateStep \/ Resolve

Spec == Init /\ [][Next]_vars

-----------------------------------------------------------------------------
Built == phase = "built"

(* What the properties compare the tables with, from the declarations.     *)
IdxReach(S, succ(_)) ==
  LET grow[n \in 0..Len(types)] ==
        IF n = 0 THEN S ELSE LET g == grow[n - 1] IN g \union UNION {succ(i) : i \in g}
  IN grow[Len(types)]

(* The types strictly under i, the cases of polymorphic fields included.   *)
Cases(i) == UNION {Range(polys[f.poly]) : f \in {g \in OwnFields(types[i]) : g.poly # 0}}
Below(i) ==
  LET down(j) == TypeAdj(j) \union IF types[j].kind = "struct" THEN Cases(j) ELSE {}
  IN IdxReach(down(i), down)

InlineHooks(u) ==
  LET inl(v) == CASE decl[v].kind = "struct" -> FieldTypes(v)
                  [] decl[v].kind = "array" -> {decl[v].elem} [] OTHER -> {}
  IN \E v \in Closure({u}, inl) : decl[v].kind \in {"hook", "text", "raw", "val", "iface"}

(* Retention, from the declarations alone.  A slot class stores values of  *)
(* some types; what lies in their own bytes holds references to classes.   *)
Stored(s) == LET u == slots[s].key IN
  IF slots[s].kind = "map" THEN {decl[u].key, decl[u].elem}
  ELSE IF slots[s].table = "prim" THEN {u} \intersect {SliceAny} ELSE {u}

Laid(u) == CASE decl[u].kind = "struct" ->
                  {f.t : f \in {g \in Range(decl[u].fields) : g.via = <<>>}}
             [] decl[u].kind = "array"  -> {decl[u].elem}
             [] decl[u].kind = "hook"   -> Behind(u)
             [] OTHER -> {}

Held(u) ==
  CASE decl[u].kind = "ptr"    -> {<<PointeeTable(decl[u].elem), decl[u].elem>>}
    [] decl[u].kind = "slice"  -> {<<"slice", decl[u].elem>>}
    [] decl[u].kind = "stream" -> {<<"stream", decl[u].elem>>}
    [] decl[u].kind = "map"    -> {<<"slot", u>>}
    [] decl[u].kind = "any"    -> {<<"prim", SliceAny>>, <<"slot", MapAny>>}
    [] decl[u].kind = "struct" ->
         LET fs == Range(decl[u].fields) IN
         {<<"slot", Head(f.via)>> : f \in {g \in fs : g.via # <<>>}}
         \union UNION {{<<PointeeTable(c), c>> : c \in Range(f.cases)} : f \in fs}
    [] OTHER -> {}

(* The same as markSCCGroups counts it: it looks through the cell behind a *)
(* pointer to a map and through an embedded pointer at what they lead to,  *)
(* and sees neither the boxes of polymorphic cases nor a stream's elements.*)
LaidThrough(u) == CASE decl[u].kind = "struct" -> FieldTypes(u)
                    [] decl[u].kind = "array"  -> {decl[u].elem}
                    [] OTHER -> {}
HeldThrough(u) == CASE decl[u].kind = "ptr" -> {<<"slot", decl[u].elem>>}
                    [] decl[u].kind \in {"struct", "stream"} -> {}
                    [] OTHER -> Held(u)

(* The pairs of classes the first of which can retain the second.          *)
RetainsBy(laid(_), held(_)) ==
  LET refs(s) == UNION {held(u) : u \in Closure(Stored(s), laid)}
      near == UNION {{<<s, o>> : o \in {o \in DOMAIN slots :
                        <<slots[o].table, slots[o].key>> \in refs(s)}} : s \in DOMAIN slots}
      far[n \in 0..Len(slots)] ==
        IF n = 0 THEN near
        ELSE LET f == far[n - 1] IN
             f \union UNION {{<<p[1], q[2]>> : q \in {q \in near : q[1] = p[2]}} : p \in f}
  IN far[Len(slots)]

(* The regions a descent of n types below i can hold open, at most.        *)
RegionsOpen ==
  LET need[n \in 0..ChainDepth] ==
        IF n = 0 THEN [i \in DOMAIN types |-> 0]
        ELSE LET less == need[n - 1] IN
             [i \in DOMAIN types |-> RegionSize(i) + SupOf({less[c] : c \in TypeAdj(i)})]
  IN SupOf({need[ChainDepth][i] : i \in DOMAIN types})

(* Every way from the root to a struct that hosts two views, as the steps  *)
(* taken through fields, cases and pointers.                               *)
StepsFrom(i) ==
  IF types[i].kind = "ptr" THEN {<<1, 0, types[i].child>>}
  ELSE {<<f, 0, fields[f].ty>> : f \in (types[i].base + 1)..(types[i].base + types[i].n)}
       \union UNION {{<<f, c, polys[fields[f].poly][c]>> : c \in DOMAIN polys[fields[f].poly]} :
                       f \in {g \in (types[i].base + 1)..(types[i].base + types[i].n) :
                                fields[g].tags \intersect {"variant", "inline", "kindof"} # {}}}

Ways ==
  LET ways[n \in 0..Len(types)] ==
        IF n = 0 THEN {<< <<0, 0, IdxOf(Root)>> >>}
        ELSE UNION {{Append(w, s) : s \in StepsFrom(Last(w)[3])} : w \in ways[n - 1]}
  IN UNION {ways[n] : n \in 0..Len(types)}

(* The positions the tape walker meets: below the root, and below the      *)
(* cases of each polymorphic field that lies there.                        *)
MainPositions == IdxClosure({IdxOf(Root)})
CasePositions ==
  IdxClosure(UNION {UNION {Range(polys[f.poly]) : f \in
      {g \in OwnFields(types[i]) : g.tags \intersect {"variant", "inline", "kindof"} # {}}} :
        i \in {j \in MainPositions : types[j].kind = "struct"}})

-----------------------------------------------------------------------------
(* The shapes of the builder's tables.                                     *)
TypeOK ==
  /\ phase \in {"collect", "scc", "attach", "arena", "gate", "built", "failed"}
  /\ \A i \in DOMAIN types : types[i].child \in 0..Len(types) /\ types[i].inline \in 0..Len(polys)
  /\ \A i \in DOMAIN fields : fields[i].ty \in DOMAIN types
  /\ \A k \in DOMAIN mapSites : mapSites[k].slot \in 0..Len(slots)

(* The finished table is the type graph: each type has one row, its child  *)
(* is the declared one and its fields lie in declared order in one run,    *)
(* however the recursion interleaved (resolveChildPointers relies on it).  *)
TableMirrorsTypes ==
  Built => \A i \in DOMAIN types :
    LET r == types[i] IN
    /\ r.fin /\ \A j \in DOMAIN types : types[j].ut = r.ut => i = j
    /\ r.kind \in {"ptr", "slice", "stream", "array", "map"} => types[r.child].ut = decl[r.ut].elem
    /\ r.kind = "struct" =>
         /\ r.n = Len(decl[r.ut].fields)
         /\ \A f \in 1..r.n :
              /\ types[fields[r.base + f].ty].ut = decl[r.ut].fields[f].t
              /\ fields[r.base + f].flags = types[fields[r.base + f].ty].flags \ {"phase2"}

(* Slots that share a group can retain each other, and a slot in a group   *)
(* can retain itself: the allocator detaches a recursive structure's       *)
(* memory as a unit.  Conversely slots that retain each other through      *)
(* pointers, slices, maps and anys share one.  "An edge A to B means       *)
(* values stored in backing A can retain backing B" (build.go:890-891) is  *)
(* not kept of three backings: the cell behind a pointer to a map (the     *)
(* edge goes to the map itself, build.go:1055-1059), the pointee of an     *)
(* embedded pointer (its fields are taken for the host's) and the box of a *)
(* polymorphic case (no edge at all).  On a cycle these get no group.      *)
GroupsAreCycles ==
  Built =>
    LET all     == RetainsBy(Laid, Held)
        counted == RetainsBy(LaidThrough, HeldThrough)
        together(s, o) == slots[s].group # 0 /\ slots[s].group = slots[o].group
    IN \A s, o \in DOMAIN slots :
         /\ together(s, o) => <<o, s>> \in all /\ <<s, o>> \in all
         /\ <<o, s>> \in counted /\ <<s, o>> \in counted => together(s, o)

(* The map buffer holds every region a descent can have open at once,      *)
(* recursive maps included, up to the binder's frame limit.                *)
MapBufferSuffices == Built => mapBuf >= RegionsOpen

(* The arena flags are closed: a type is marked exactly when something it  *)
(* can reach writes the arena, however deep the recursion.                 *)
ArenaUseClosed ==
  Built => \A i \in DOMAIN types :
    LET under == IdxReach({i}, ArenaChildren) IN
    /\ types[i].str = \E j \in under :
         types[j].kind \in {"str", "num", "text", "val", "struct", "map", "any"}
    /\ types[i].tape = \E j \in under : types[j].kind = "val" \/ "phase2" \in types[j].flags
    /\ types[i].pub = \E j \in under : types[j].kind = "val"

(* No hook target lies in a map region: a value holding one inline is      *)
(* staged in a slot, and binder and drain agree on it.  Maps on a cycle    *)
(* through their own value, by fields or by polymorphic cases, are         *)
(* excepted: their slot is assigned first.                                 *)
HooksLeaveRegions ==
  Built => \A k \in DOMAIN drain :
    LET d == drain[k] IN
    d.idx \notin Below(d.val) =>
      /\ InlineHooks(types[d.val].ut) => d.deferred
      /\ d.deferred => d.slot # 0 /\ slots[d.slot].key = types[d.val].ut
      /\ types[d.val].kind \in Containers => (d.deferred = ("deferred" \in types[d.val].flags))

(* An embedded variant's case never hosts another embedded variant, whose  *)
(* keys the split at struct close would drop; a case that leads back to    *)
(* its host is not covered.                                                *)
EmbedsOneLevel ==
  Built => \A i \in DOMAIN types :
    types[i].inline # 0 => \A c \in Range(polys[types[i].inline]) :
      types[c].inline # 0 => i \in IdxReach({c}, TypeAdj)

(* A bounded count of split tapes is the number of ways to reach a struct  *)
(* hosting both views, and then no collection leads to one.                *)
SplitSitesExact ==
  Built /\ sites # Unbounded =>
    /\ sites = Cardinality({w \in Ways : DualView(Last(w)[3])})
    /\ \A w \in Ways : types[Last(w)[3]].kind \in {"slice", "array", "map", "stream"} =>
         \A j \in IdxClosure({Last(w)[3]}) : ~DualView(j)

(* The tape gate refuses exactly the types that hold a position the tape   *)
(* walker cannot bind; a pointer at the root is judged by its kind alone.  *)
TapeGateExact ==
  Built /\ types[IdxOf(Root)].kind # "ptr" =>
    unsupported = (\/ RootUnsupported(types[IdxOf(Root)].kind)
                   \/ \E i \in MainPositions \ {IdxOf(Root)} : BadPosition(i)
                   \/ \E i \in CasePositions : BadPosition(i))

(* The builder's rows, children and field runs are the type graph,         *)
(* although recursion fills them out of order (collect,                    *)
(* resolveChildPointers).                                                  *)
Mirror == TypeOK /\ TableMirrorsTypes

(* What the passes compute over recursive types is closed: cycle groups,   *)
(* buffer, arena flags and staging agree with reachability in the finished *)
(* graph.                                                                  *)
RecursionClosed ==
  GroupsAreCycles /\ MapBufferSuffices /\ ArenaUseClosed /\ HooksLeaveRegions

(* The checks on polymorphic hosts see every position they must, through   *)
(* cases, pointers and recursion, and no other.                            *)
PolyChecksExact == EmbedsOneLevel /\ SplitSitesExact /\ TapeGateExact
=============================================================================
