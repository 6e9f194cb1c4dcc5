------------------------------- MODULE GoBind -------------------------------
(***************************************************************************)
(* The pure-Go bind engine (internal/gbind): one recursive walk over the   *)
(* document that writes into the destination through the allocator, with   *)
(* everything that must not land mid-walk staged: hook calls, Value        *)
(* documents, the entries of maps whose values hold hooks. The type table  *)
(* Typ stands for vbind.TypeTree (TypeTree builds it), Poly for its        *)
(* variant and kindof tables. A struct's words are consecutive, every      *)
(* other value is one word: <<kind, text>> a number or bool, <<"str", ..>> *)
(* a string, <<"ptr", a>>, a slice header, <<"map", m>>, <<"doc", d>>,     *)
(* <<"hook", text>> what a hook stored, <<"any", kind, w>> and             *)
(* <<"iface", type, w>> an interface. Left out: zero-copy strings, base64  *)
(* byte slices, hooks through non-empty interfaces, streams inside the     *)
(* elements of a stream.                                                   *)
(***************************************************************************)
EXTENDS GoRead

CONSTANTS
  Typ,          \* type -> [kind, size, ...]
  Poly,         \* poly -> [disc, cases, default]
  AnyCls,       \* the slot classes of the boxes bindAny carves
  IntText,      \* the texts an integer map key accepts
  HookFails,    \* the texts a hook rejects
  MaxStaged,    \* maxStaged
  MaxPtrChain,  \* maxPtrChain
  RegionSlots   \* regionSlots

Shared == -1    \* the shared backing of empty slices
Fields(t) == Typ[t].fields
WithHeap(c, h) == [c EXCEPT !.h = h]
Word(c, at) == c.h.mem[at]
Write(c, at, w) == WithHeap(c, Put(c.h, at, <<w>>))

\* carve: one zeroed element, as the binder after it and its address.
CarveFrom(c, r) == [c |-> WithHeap(c, r.h), at |-> r.at]
CarveFor(c, k) == CarveFrom(c, Carve(Room(c.h, k), k))

\* The pointee of the pointer at dst, carved when it is nil.
PointAt(dst, r) == [r EXCEPT !.c = Write(@, dst, <<"ptr", r.at>>)]
Pointee(c, dst, k) ==
  IF Word(c, dst) # Zero THEN [c |-> c, at |-> Word(c, dst)[2]] ELSE PointAt(dst, CarveFor(c, k))

\* A binder c and the address at a value binds to.
Place(c, at) == [c |-> c, at |-> at]

RECURSIVE ResolvePtrChain(_, _, _)
\* resolvePtrChain: every pointer layer below a field, element or value.
ResolvePtrChain(r, t, layers) ==
  IF Typ[t].kind # "ptr" THEN [c |-> r.c, at |-> r.at, t |-> t]
  ELSE IF layers = MaxPtrChain THEN [c |-> Fail(r.c, "depth", NoPos), at |-> r.at, t |-> t]
  ELSE ResolvePtrChain(Pointee(r.c, r.at, Typ[t].cls), Typ[t].kid, layers + 1)

RECURSIVE ResolveHops(_, _, _)
\* resolveHops: a promoted field's embedded pointers.
ResolveHops(r, hops, t) ==
  IF hops = <<>> THEN r
  ELSE IF Word(r.c, r.at + Head(hops).off) = Zero /\ Head(hops).unset
    THEN [r EXCEPT !.c = FailType(@, "unsettable", @.p, t)]
  ELSE ResolveHops(Pointee(r.c, r.at + Head(hops).off, Head(hops).cls), Tail(hops), t)

\* nullZero: null clears reference-like storage, and leaves the rest.
NullZero(c, dst, t) ==
  IF Typ[t].kind \in {"ptr", "slice", "stream", "map", "any"} THEN Write(c, dst, Zero) ELSE c

\* typeMismatch: a field records it and skips the value, an element aborts
\* once the token has proved well formed.
TypeMismatch(c, t, site) ==
  LET s == ScalarAt(c)
  IN IF site = "field" THEN SkipValue(Record(c, c.p, t))
     ELSE IF ~Eof(c) /\ Ch(c) \notin {"{", "["} /\ Bad(s) THEN s
     ELSE FailValueOrEof(c, "mismatch", t)

\* bindQuoted: a `,string` value. A raw null is told from an escaped one by
\* how far the cursor moved, and the cursor has skipped the blanks after the
\* closing quote (cursor.go:30): only a raw null that the next token follows
\* directly is the field's own.
BugOwnNull(tok) == tok.quoted = "null" /\ ~tok.esc
OwnNull(tok) == tok.quoted = "null" /\ ~tok.esc /\ ~tok.spaced
WriteQuoted(r, q, pos) ==
  IF Bad(r.c) THEN r.c
  ELSE IF q = "null" THEN NullZero(r.c, r.at, r.t)
  ELSE IF QuotedFits(Typ[r.t].kind, q) THEN WriteQuotedScalar(r.c, r.at, Typ[r.t].kind, q)
  ELSE Record(r.c, pos, r.t)
BindQuoted(c, dst, t) ==
  IF Bad(Str(c)) THEN Str(c)
  ELSE IF OwnNull(Tok(c)) THEN NullZero(Str(c), dst, t)
  ELSE WriteQuoted(ResolvePtrChain(Place(Str(c), dst), t, 0), Tok(c).quoted, c.p)

-----------------------------------------------------------------------------
(* Staging.                                                                *)

\* Host.Deferred: the hook stores its text at the target, or rejects it.
RunHook(c, d) ==
  LET done == [c EXCEPT !.calls = Append(@, d.data)]
  IN IF d.data \in HookFails THEN [done EXCEPT !.hookErr = IF @ = "" THEN "hook" ELSE @]
     ELSE Write(done, d.target, <<"hook", d.data>>)
\* drainDeferred.
DrainDeferred(c) == [FoldLeft(RunHook, c, c.deferred) EXCEPT !.deferred = <<>>]

\* deferValue: stage a hook call; a hook takes the raw span from start on,
\* a text hook the decoded string.
StageCall(c, dst, data) ==
  IF Bad(c) THEN c ELSE [c EXCEPT !.deferred = Append(@, [target |-> dst, data |-> data])]
StageSpan(c, dst, start) == StageCall(c, dst, SubSeq(c.src, start, c.p - 1))
StageHook(c, dst, t, ctr) ==
  IF Typ[t].kind # "text" THEN StageSpan(SkipValue(c), dst, c.p)
  ELSE IF Ch(c) = "n" THEN Atom(c)
  ELSE IF Ch(c) # "s" THEN FailType(c, "mismatch", c.p, ctr)
  ELSE StageCall(StrAt(c).c, dst, <<Tok(c).body>>)
DeferValue(c, dst, t, ctr) ==
  StageHook(IF Len(c.deferred) = MaxStaged THEN DrainDeferred(c) ELSE c, dst, t, ctr)

\* Staged targets stay behind when their elements move.
BugRebase(c, old, n, moved) == c
\* rebase: hook targets move with the elements of a growing slice.
Rebase(c, old, n, moved) ==
  [c EXCEPT !.deferred = [i \in 1..Len(@) |->
     IF old <= @[i].target /\ @[i].target < old + n THEN [@[i] EXCEPT !.target = @ - old + moved] ELSE @[i]]]

\* storeDoc and stageDoc: a Value over a document of its own, its tape
\* withheld.
StoreDoc(c, dst, text) ==
  LET id == Len(c.h.docs) + 1
  IN Write([c EXCEPT !.h.docs = Append(@, [text |-> text, live |-> FALSE]), !.staged = @ \cup {id}], dst, <<"doc", id>>)
\* publishDocs.
PublishDocs(c) ==
  [c EXCEPT !.h.docs = [i \in 1..Len(@) |-> [@[i] EXCEPT !.live = @ \/ i \in c.staged]], !.staged = {}]

\* bindValueDoc.
StoreSpan(c, dst, start) == IF Bad(c) THEN c ELSE StoreDoc(c, dst, SubSeq(c.src, start, c.p - 1))
BindValueDoc(c, dst) ==
  IF Eof(c) THEN Fail(c, "eof", c.p)
  ELSE IF c.opt.tape /\ Ch(c) = "n" THEN SkipToken(Write(c, dst, Zero))
  ELSE StoreSpan(ValidValue(c), dst, c.p)

\* mapSlot and AssignKey: one entry; a key that fails conversion gets none,
\* and the first failure is recorded.
AssignEntry(c, e) ==
  IF Typ[e.t].intkey /\ e.key \notin IntText THEN [c EXCEPT !.keyErr = IF @ = "" THEN "key" ELSE @]
  ELSE [c EXCEPT !.h.maps[e.m] = (e.key :> Words(c.h, e.val, Typ[Typ[e.t].kid].size)) @@ @]

AssignPending(c) == [FoldLeft(AssignEntry, c, c.pending) EXCEPT !.pending = <<>>]
\* The entries publish before the hooks that write their values.
BugSettle(c) == DrainDeferred(AssignPending(c))
\* settle: the staged hooks, then the map entries they feed.
Settle(c) == AssignPending(DrainDeferred(c))

\* The documents publish whatever the hooks said.
BugReported(c) ==
  IF c.hookErr # "" THEN FailType(PublishDocs(c), "hook", NoPos, "")
  ELSE IF c.keyErr # "" THEN FailType(PublishDocs(c), "key", NoPos, "")
  ELSE PublishDocs(c)
\* report: a report point, settled.
Reported(c) ==
  IF c.hookErr # "" THEN FailType(c, "hook", NoPos, "")
  ELSE IF c.keyErr # "" THEN FailType(c, "key", NoPos, "")
  ELSE PublishDocs(c)
Report(c) == Reported(Settle(c))

-----------------------------------------------------------------------------
(* Keys.                                                                   *)

\* The field the memo names is taken without comparing its key.
BugMatchKey(c, t, body, next) ==
  LET f == Fields(t)
      hit == {i \in 1..Len(f) : f[i].key = body}
      m == c.memo[t][next]
      idx == IF hit = {} THEN 0 ELSE Min(hit)
  IN IF next \in hit THEN [c |-> c, idx |-> next]
     ELSE IF m # 0 THEN [c |-> c, idx |-> m]
     ELSE [c |-> IF idx = 0 THEN c ELSE [c EXCEPT !.memo[t][next] = idx], idx |-> idx]
\* matchSpan, matchString: the predicted field, then the one the memo
\* recorded against that prediction, then the lookup; 0 is a miss.
MatchKey(c, t, body, next) ==
  LET f == Fields(t)
      hit == {i \in 1..Len(f) : f[i].key = body}
      m == c.memo[t][next]
      idx == IF hit = {} THEN 0 ELSE Min(hit)
  IN IF next \in hit THEN [c |-> c, idx |-> next]
     ELSE IF m \in hit THEN [c |-> c, idx |-> m]
     ELSE [c |-> IF idx = 0 THEN c ELSE [c EXCEPT !.memo[t][next] = idx], idx |-> idx]

\* hostField.
HostField(t, key) == LET hit == {i \in 1..Len(Fields(t)) : Fields(t)[i].key = key} IN IF hit = {} THEN 0 ELSE Min(hit)

-----------------------------------------------------------------------------
(* The walk. Each operator returns the binder past the value.              *)

RECURSIVE BindValue(_, _, _, _, _, _), BindMembers(_, _, _, _), BindElems(_, _, _, _),
          FixedElems(_, _, _, _), MapEntries(_, _, _, _), DeferredEntries(_, _, _),
          BindPolyStruct(_, _, _), PolyMembers(_, _), PolyClose(_, _), StreamElems(_, _, _, _)

\* bindField: a host field, across its embedded pointers.
BindAcross(r, t, f) == IF Bad(r.c) THEN r.c ELSE BindValue(r.c, r.at + f.off, f.t, t, "field", f.quoted)
BindField(c, host, t, f) == BindAcross(ResolveHops(Place(c, host), f.hops, t), t, f)

\* bindStruct: an object past its brace, members merging into dst.
BindStruct(c, dst, t) ==
  IF Typ[t].host THEN BindPolyStruct(c, dst, t)
  ELSE IF Ch(c) = "}" THEN Step(c)
  ELSE IF Bad(Push(c)) THEN Push(c)
  ELSE BindMembers(Push(c), dst, t, 1)
AfterMember(v, dst, t, next) ==
  IF Bad(v) THEN v
  ELSE IF Ch(v) = "," THEN BindMembers(Step(v), dst, t, next)
  ELSE IF Ch(v) = "}" THEN Pop(Step(v))
  ELSE CloseErr(v)
MemberValue(c, dst, t, idx) ==
  IF Bad(c) THEN c ELSE IF idx = 0 THEN SkipValue(c) ELSE BindField(c, dst, t, Fields(t)[idx])
\* r is the key at c matched.
BindMember(r, c, dst, t, next) ==
  IF r.idx = 0 /\ c.opt.disallow THEN FailType(c, "unknown", c.p, t)
  ELSE AfterMember(MemberValue(ExpectColon(r.c), dst, t, r.idx), dst, t, IF r.idx = 0 THEN next ELSE r.idx + 1)
BindMembers(c, dst, t, next) ==
  IF Ch(c) # "s" THEN Fail(c, "syntax", c.p)
  ELSE IF Bad(Str(c)) THEN Str(c)
  ELSE BindMember(MatchKey(Str(c), t, Tok(c).body, next), c, dst, t, next)

\* zeroArrayTail and emptyArray.
ZeroArrayTail(c, dst, t, count) ==
  LET z == Typ[Typ[t].kid].size IN WithHeap(c, Clear(c.h, dst + count * z, (Typ[t].n - count) * z))
EmptyArray(c, dst, t) ==
  IF Typ[t].kind # "slice" THEN ZeroArrayTail(c, dst, t, 0)
  ELSE IF Word(c, dst) = Zero THEN Write(c, dst, Slice(Shared, 0, 0))
  ELSE WithHeap(c, SetLen(c.h, dst, 0))

\* arrayElems: a non-empty array whose frame is pushed.
ArrayElems(c, dst, t) ==
  IF Typ[t].kind # "slice" THEN FixedElems(c, dst, t, 0)
  ELSE BindElems(WithHeap(c, SetLen(IF Word(c, dst) = Zero THEN OpenSlice(c.h, dst, Typ[t].cls) ELSE c.h, dst, 0)),
                 dst, t, 0)
\* The frame of an empty array stays.
BugBindArray(c, dst, t) ==
  LET d == Push(c)
  IN IF Bad(d) THEN d ELSE IF Ch(c) = "]" THEN Step(EmptyArray(d, dst, t)) ELSE ArrayElems(d, dst, t)
\* bindArray.
BindArray(c, dst, t) ==
  LET d == Push(c)
  IN IF Ch(c) = "]" THEN Step(EmptyArray([c EXCEPT !.descents = @ + 1], dst, t))
     ELSE IF Bad(d) THEN d
     ELSE ArrayElems(d, dst, t)

\* growSlice: the heap h after the growth, hook targets moved with it.
GrewTo(c, h, dst, t) ==
  Rebase(WithHeap(c, h), Data(c.h, dst), SLen(c.h, dst) * Tmpl[Typ[t].cls].esz, Data(h, dst))
GrowBound(c, dst, t) == GrewTo(c, GrowSlice(c.h, dst, Typ[t].cls), dst, t)

\* A failed slice keeps covering the tail its close returned.
BugSeal(h, dst, k, n) == CloseSlice(h, k, Data(h, dst), n)
\* The error path of arrayElems: an element that entered a container counts
\* in the length, and the rest of the tail returns.
Seal(h, dst, k, n) ==
  IF Borrows(h, k, Data(h, dst)) THEN SetCap(CloseSlice(h, k, Data(h, dst), n), dst, n) ELSE h
SealFailed(e, dst, t, n, entered) ==
  WithHeap(e, Seal(IF entered THEN SetLen(e.h, dst, n) ELSE e.h, dst, Typ[t].cls, n))

AfterElem(v, dst, t, n, descents) ==
  IF Bad(v) THEN SealFailed(v, dst, t, n, v.descents # descents)
  ELSE IF Ch(v) = "," THEN BindElems(Step(WithHeap(v, SetLen(v.h, dst, n))), dst, t, n)
  ELSE IF Ch(v) = "]"
    THEN Pop(Step(WithHeap(v, CloseSlice(Put(v.h, dst, <<Slice(Data(v.h, dst), n, n)>>), Typ[t].cls, Data(v.h, dst), n))))
  ELSE SealFailed(CloseErr(v), dst, t, n, v.descents # descents)
BindElem(c, dst, t, count) ==
  AfterElem(BindValue(c, Data(c.h, dst) + count * Tmpl[Typ[t].cls].esz, Typ[t].kid, t, "elem", FALSE),
            dst, t, count + 1, c.descents)
BindElems(c, dst, t, count) ==
  BindElem(IF count = SCap(c.h, dst) THEN GrowBound(c, dst, t) ELSE c, dst, t, count)

\* fixedElems: in place, surplus elements skipped.
AfterFixed(v, dst, t, n) ==
  IF Bad(v) THEN v
  ELSE IF Ch(v) = "," THEN FixedElems(Step(v), dst, t, n)
  ELSE IF Ch(v) = "]" THEN Pop(Step(ZeroArrayTail(v, dst, t, n)))
  ELSE CloseErr(v)
FixedElems(c, dst, t, count) ==
  AfterFixed(IF count >= Typ[t].n THEN SkipValue(c)
             ELSE BindValue(c, dst + count * Typ[Typ[t].kid].size, Typ[t].kid, t, "elem", FALSE),
             dst, t, Min({count + 1, Typ[t].n}))

-----------------------------------------------------------------------------
(* Maps.                                                                   *)

\* openMap: a live map merges, nil takes the prewired one its class carves.
TakeMap(dst, r) == Write(r.c, dst, Word(r.c, r.at))
OpenMap(c, dst, t) == IF Word(c, dst) # Zero THEN c ELSE TakeMap(dst, CarveFor(c, Typ[t].cls))

Stride(t) == 1 + Typ[Typ[t].kid].size
\* openRegion: a zeroed region from the type's free list, or a fresh one.
OpenRegion(c, t) ==
  IF c.regions[t] = <<>> THEN Place(WithHeap(c, NewArray(c.h, RegionSlots * Stride(t))), Len(c.h.mem) + 1)
  ELSE Place([c EXCEPT !.regions[t] = Front(@)], Last(c.regions[t]))

\* The region returns with what its entries left in it.
BugFreeRegion(c, t, r, used) == [c EXCEPT !.regions[t] = Append(@, r)]
\* The used slots of a drained region cleared.
FreeRegion(c, t, r, used) ==
  [WithHeap(c, Clear(c.h, r, used * Stride(t))) EXCEPT !.regions[t] = Append(@, r)]
\* closeRegion and drainRegion: the complete entries in order.
CloseRegion(c, t, m, r, n, used) ==
  FreeRegion(FoldLeft(AssignEntry, c,
                      [i \in 1..n |-> [t |-> t, m |-> m, key |-> c.h.mem[r + (i - 1) * Stride(t)][2],
                                       val |-> r + (i - 1) * Stride(t) + 1]]),
             t, r, used)

\* mapEntries: entry n + 1 binds into its slot of the region at o; the entry
\* in progress of a failed walk is never assigned.
AfterEntry(v, t, m, r, n) ==
  IF Bad(v) THEN CloseRegion(v, t, m, r, n - 1, n)
  ELSE IF Ch(v) = "," /\ n = RegionSlots THEN MapEntries(OpenRegion(CloseRegion(Step(v), t, m, r, n, n), t), t, m, 0)
  ELSE IF Ch(v) = "," THEN MapEntries(Place(Step(v), r), t, m, n)
  ELSE IF Ch(v) = "}" THEN Pop(CloseRegion(Step(v), t, m, r, n, n))
  ELSE CloseErr(CloseRegion(v, t, m, r, n, n))
MapEntry(c, key, t, m, r, n) ==
  IF Bad(c) THEN CloseRegion(c, t, m, r, n, n)
  ELSE AfterEntry(BindValue(Write(c, r + n * Stride(t), <<"key", key>>), r + n * Stride(t) + 1, Typ[t].kid, t, "elem", FALSE),
                  t, m, r, n + 1)
MapEntries(o, t, m, n) ==
  IF Ch(o.c) # "s" THEN CloseRegion(Fail(o.c, "syntax", o.c.p), t, m, o.at, n, n)
  ELSE MapEntry(ExpectColon(StrAt(o.c).c), Tok(o.c).body, t, m, o.at, n)

\* deferredEntries: each value in a slot of its own, published after the
\* hooks.
AfterDeferred(v, t, m) ==
  IF Bad(v) THEN v
  ELSE IF Ch(v) = "," THEN DeferredEntries(Step(v), t, m)
  ELSE IF Ch(v) = "}" THEN Pop(Step(v))
  ELSE CloseErr(v)
BindPending(s, key, t, m) ==
  BindValue([s.c EXCEPT !.pending = Append(@, [t |-> t, m |-> m, key |-> key, val |-> s.at])],
            s.at, Typ[t].kid, t, "elem", FALSE)
DeferredEntry(c, key, t, m) ==
  IF Bad(c) THEN c ELSE AfterDeferred(BindPending(CarveFor(c, Typ[t].valcls), key, t, m), t, m)
DeferredEntries(c, t, m) ==
  IF Ch(c) # "s" THEN Fail(c, "syntax", c.p) ELSE DeferredEntry(ExpectColon(StrAt(c).c), Tok(c).body, t, m)

EnterMap(c, t, m) ==
  IF Typ[t].valdefer THEN DeferredEntries(c, t, m) ELSE MapEntries(OpenRegion(c, t), t, m, 0)
\* bindMap.
InMap(c, dst, t) ==
  IF Ch(c) = "}" THEN Step([c EXCEPT !.descents = @ + 1])
  ELSE IF Bad(Push(c)) THEN Push(c)
  ELSE EnterMap(Push(c), t, Word(c, dst)[2])
BindMap(c, dst, t) == InMap(OpenMap(c, dst, t), dst, t)

-----------------------------------------------------------------------------
(* Interfaces.                                                             *)

\* A box of class k holding the word of r, published at dst under a kind.
FillBox(dst, kind, w, r) == Write(Write(r.c, r.at, w), dst, <<"any", kind, r.at>>)
Boxed(r, dst, k, kind) == IF Bad(r.c) THEN r.c ELSE FillBox(dst, kind, r.word, CarveFor(r.c, k))

\* bindAny: a container is published before its contents bind.
AnyFloat(c, dst, x) == Boxed([c |-> c, word |-> <<"float", x>>], dst, AnyCls.float, "float")
AnyNumber(c, dst, ctr) ==
  IF c.opt.usenum THEN Boxed(NumberTextAt(c), dst, AnyCls.str, "number")
  ELSE IF ~Tok(c).ok THEN Fail(c, "syntax", c.p)
  ELSE IF ~Tok(c).flt THEN FailType(AnyFloat(c, dst, "inf"), "mismatch", c.p, ctr)
  ELSE Step(AnyFloat(c, dst, Tok(c).body))
AnySlice(c, at) ==
  IF Ch(c) = "]" THEN Pop(Step(EmptyArray(c, at, "anyslice"))) ELSE ArrayElems(c, at, "anyslice")
AnyArray(dst, r) == AnySlice(Write(r.c, dst, <<"any", "slice", r.at>>), r.at)
AnyMap(c, m) == IF Ch(c) = "}" THEN Pop(Step(c)) ELSE EnterMap(c, "anymap", m)
AnyObject(dst, r) == AnyMap(Write(r.c, dst, <<"any", "map", Word(r.c, r.at)[2]>>), Word(r.c, r.at)[2])
AnyContainer(c, dst) ==
  IF Bad(Push(c)) THEN Push(c)
  ELSE IF Ch(c) = "[" THEN AnyArray(dst, CarveFor(Step(Push(c)), AnyCls.slice))
  ELSE AnyObject(dst, CarveFor(Step(Push(c)), Typ["anymap"].cls))
BindAny(c, dst, ctr) ==
  CASE Ch(c) = "s" -> Boxed(StrAt(c), dst, AnyCls.str, "string")
    [] Ch(c) = "d" -> AnyNumber(c, dst, ctr)
    [] Ch(c) \in {"t", "f", "n"} ->
         IF Bad(Atom(c)) THEN Atom(c) ELSE Write(Atom(c), dst, IF Ch(c) = "n" THEN Zero ELSE <<"any", "bool", Ch(c)>>)
    [] Ch(c) \in {"[", "{"} -> AnyContainer(c, dst)
    [] OTHER -> FailValueOrEof(c, "syntax", ctr)

-----------------------------------------------------------------------------
(* Poly hosts. hst is one host instance: its address and type, the members *)
(* it deferred, and the discriminator offsets this object wrote.           *)

TextOf(h, w) == IF w = Zero THEN "" ELSE h.strs[w[2]][w[3]]
NoCase == [t |-> "", cls |-> ""]
JsonKind(ch) == CASE ch \in {"t", "f"} -> "bool" [] ch = "d" -> "number" [] ch = "s" -> "string"
                  [] ch = "[" -> "array" [] ch = "{" -> "object" [] OTHER -> ""
CollectsEntries(t) == Typ[t].iv # "" \/ Typ[t].ru # -1
EntryKey(c, e) == IF e.copied THEN e.key ELSE c.scratch
SeekTo(c, at) == [c EXCEPT !.p = at]
Phase2Err(c, kind, hst) == FailType(c, kind, NoPos, hst.t)

\* Entry: the member whose value, from vpos on, the binder c has passed.
Entry(c, hst, key, copied, kpos, vpos) ==
  [c |-> c, hst |-> [hst EXCEPT !.entries = Append(@, [key |-> key, copied |-> copied, kpos |-> kpos,
                                                       vpos |-> vpos, vend |-> c.p - 1])]]
\* An escaped key is kept as a view of the scratch buffer.
BugDeferEntry(c, hst, key, kpos) == Entry(ValidValue(c), hst, key, ~Lex[c.src[kpos]].esc, kpos, c.p)
\* deferEntry: record a member and pass its value. An escaped key moves out
\* of the scratch buffer first.
DeferEntry(c, hst, key, kpos) ==
  Entry(ValidValue(IF Lex[c.src[kpos]].esc THEN KeepText(c, key).c ELSE c), hst, key, TRUE, kpos, c.p)

\* A discriminator left by an earlier parse selects.
BugCaseByDisc(c, hst, x) ==
  LET s == TextOf(c.h, Word(c, hst.dst + Poly[x].disc))
  IN [bound |-> Poly[x].disc \in hst.bound,
      case |-> IF s \in DOMAIN Poly[x].cases THEN Poly[x].cases[s] ELSE Poly[x].default]
\* caseByDisc: only a discriminator this object bound selects a case.
CaseByDisc(c, hst, x) ==
  LET bound == Poly[x].disc \in hst.bound
      s == TextOf(c.h, Word(c, hst.dst + Poly[x].disc))
  IN [bound |-> bound,
      case |-> IF ~bound THEN NoCase
               ELSE IF s \in DOMAIN Poly[x].cases THEN Poly[x].cases[s] ELSE Poly[x].default]
CaseByKindof(x, kind) == IF kind \in DOMAIN Poly[x].cases THEN Poly[x].cases[kind] ELSE NoCase

\* coldCase: one the walk cannot construct in place. An inline case is a struct
\* or a Value (the build refuses others), so `any` matters to fields alone.
ColdCase(pc) == Typ[pc.t].cold /\ Typ[pc.t].kind \notin {"ptr", "value", "any"}

\* bindCase: the interface word is published, then the value binds into it.
CaseWord(c, target, t, at) == Write(c, target, <<"iface", t, Word(c, at)>>)
CaseBox(r, target, hst, t) ==
  BindValue(Write(r.c, target, <<"iface", t, <<"ptr", r.at>>>>), r.at, t, hst.t, "field", FALSE)
BindCase(c, target, hst, pc) ==
  LET word == Len(c.h.mem) + 1
  IN IF Typ[pc.t].kind = "any" THEN BindAny(c, target, hst.t)
     ELSE IF Typ[pc.t].kind \in {"ptr", "map"}
       THEN CaseWord(BindValue(Write(WithHeap(c, NewArray(c.h, 1)), target, <<"iface", pc.t, Zero>>),
                               word, pc.t, hst.t, "field", FALSE), target, pc.t, word)
     ELSE CaseBox(CarveFor(c, pc.cls), target, hst, pc.t)

\* polyField: a variant or kindof member of case pc, now or deferred.
CaseOf(c, hst, f) ==
  IF f.role = "kindof" THEN CaseByKindof(f.poly, JsonKind(Ch(c))) ELSE CaseByDisc(c, hst, f.poly).case
PolyCase(c, hst, f, key, kpos, pc) ==
  IF f.role = "kindof" /\ JsonKind(Ch(c)) = "" THEN [c |-> Fail(c, "syntax", c.p), hst |-> hst]
  ELSE IF f.role = "kindof" /\ pc = NoCase THEN [c |-> FailType(c, "kindof", c.p, hst.t), hst |-> hst]
  ELSE IF pc = NoCase \/ ColdCase(pc) THEN DeferEntry(c, hst, key, kpos)
  ELSE [c |-> BindCase(c, hst.dst + f.off, hst, pc), hst |-> hst]
PolyField(c, hst, f, key, kpos) ==
  IF Ch(c) # "n" THEN PolyCase(c, hst, f, key, kpos, CaseOf(c, hst, f))
  ELSE [c |-> IF Bad(Atom(c)) THEN Atom(c) ELSE Write(Atom(c), hst.dst + f.off, Zero), hst |-> hst]

\* hostMember: bind or defer the member whose value is at the cursor.
HostMember(c, hst, i, key, kpos) ==
  LET f == Fields(hst.t)[i]
      g == IF f.disc /\ Ch(c) = "s" THEN [hst EXCEPT !.bound = @ \cup {f.off}] ELSE hst
  IN IF i = 0 THEN IF CollectsEntries(hst.t) THEN DeferEntry(c, hst, key, kpos)
                   ELSE [hst |-> hst, c |-> IF c.opt.disallow THEN FailType(c, "unknown", kpos, hst.t) ELSE SkipValue(c)]
     ELSE IF f.role \in {"reserve", "ivariant", "ivdisc"} THEN DeferEntry(c, hst, key, kpos)
     ELSE IF f.role \in {"variant", "kindof"} THEN PolyField(c, hst, f, key, kpos)
     ELSE [hst |-> g, c |-> BindField(c, hst.dst, hst.t, f)]

\* bindPolyStruct: phase 1, then the close.
NewHost(dst, t) == [dst |-> dst, t |-> t, entries |-> <<>>, bound |-> {}]
BindPolyStruct(c, dst, t) ==
  LET d == Push(IF Ch(c) = "}" THEN Step(c) ELSE c)
  IN IF Bad(d) THEN d
     ELSE Popped(IF Ch(c) = "}" THEN PolyClose(d, NewHost(dst, t)) ELSE PolyMembers(d, NewHost(dst, t)))
AfterPolyMember(r) ==
  IF Bad(r.c) THEN r.c
  ELSE IF Ch(r.c) = "," THEN PolyMembers(Step(r.c), r.hst)
  ELSE IF Ch(r.c) = "}" THEN PolyClose(Step(r.c), r.hst)
  ELSE CloseErr(r.c)
PolyMember(c, hst, key, kpos) ==
  IF Bad(c) THEN c ELSE AfterPolyMember(HostMember(c, hst, HostField(hst.t, key), key, kpos))
PolyMembers(c, hst) ==
  IF Ch(c) # "s" THEN Fail(c, "syntax", c.p)
  ELSE PolyMember(ExpectColon(Str(c)), hst, Tok(c).body, c.p)

\* phase2Poly: a deferred variant or kindof member of case pc.
DiscError(hst, x) == IF Poly[x].disc \in hst.bound THEN "unknown disc" ELSE "missing disc"
Phase2Case(c, hst, f, pc) ==
  IF pc = NoCase THEN Phase2Err(c, IF f.role = "kindof" THEN "kindof" ELSE DiscError(hst, f.poly), hst)
  ELSE IF ColdCase(pc) THEN Phase2Err(c, "cold case", hst)
  ELSE IF Bad(Push(c)) THEN Push(c)
  ELSE Popped(BindCase(Push(c), hst.dst + f.off, hst, pc))
Phase2Poly(c, hst, f) == Phase2Case(c, hst, f, CaseOf(c, hst, f))

\* storeObjectValue: a Value of an object holding the entries.
ObjectText(src, es) ==
  FoldLeft(LAMBDA text, i : text \o (IF i = 1 THEN <<>> ELSE <<",">>) \o <<src[es[i].kpos], ":">> \o SubSeq(src, es[i].vpos, es[i].vend),
           <<"{">>, [i \in 1..Len(es) |-> i]) \o <<"}">>

\* bindInlineDisc: the discriminator must be a string.
WriteDisc(s, hst, f, q) ==
  IF Bad(s.c) THEN s.c
  ELSE IF ~f.quoted THEN Write(s.c, hst.dst + Poly[f.poly].disc, s.word)
  ELSE IF QuotedFits("string", q) THEN WriteQuotedScalar(s.c, hst.dst + Poly[f.poly].disc, "string", q)
  ELSE Phase2Err(s.c, "mismatch", hst)
BindInlineDisc(c, hst, f, e) ==
  IF Ch(SeekTo(c, e.vpos)) # "s" THEN Phase2Err(c, "mismatch", hst)
  ELSE SeekTo(WriteDisc(StrAt(SeekTo(c, e.vpos)), hst, f, Tok(SeekTo(c, e.vpos)).quoted), c.p)

\* polyClose's classification: a deferred poly binds, the others go to the
\* case's view a or the reserve's view b.
Sinks(hc) == hc # NoCase /\ Typ[hc.t].kind = "struct" /\ Typ[hc.t].ru # -1
Classify(acc, hst, hc, e) ==
  LET c == acc.c
      i == HostField(hst.t, EntryKey(c, e))
      f == Fields(hst.t)[i]
      ru == Typ[hst.t].ru # -1
      iv == Typ[hst.t].iv # ""
      declares == hc # NoCase /\ (Typ[hc.t].kind # "struct" \/ HostField(hc.t, EntryKey(c, e)) # 0)
      toA == [acc EXCEPT !.a = Append(@, e)]
  IN IF Bad(c) THEN acc
     ELSE IF i # 0 /\ f.role \in {"variant", "kindof"} THEN [acc EXCEPT !.c = SeekTo(Phase2Poly(SeekTo(c, e.vpos), hst, f), c.p)]
     ELSE IF declares THEN toA
     ELSE IF i # 0 /\ f.disc THEN acc
     ELSE IF ru THEN IF iv THEN [acc EXCEPT !.b = Append(@, e)] ELSE toA
     ELSE IF Sinks(hc) THEN toA
     ELSE IF c.opt.disallow THEN [acc EXCEPT !.c = Phase2Err(c, "unknown", hst)]
     ELSE acc
RECURSIVE ClassifyAll(_, _, _, _)
ClassifyAll(acc, hst, hc, es) ==
  IF es = <<>> THEN acc ELSE ClassifyAll(Classify(acc, hst, hc, Head(es)), hst, hc, Tail(es))

\* bindEntries: members an outer walk located, into a struct.
EntryField(c, hst, i) ==
  IF i # 0 THEN BindField(c, hst.dst, hst.t, Fields(hst.t)[i])
  ELSE IF c.opt.disallow THEN FailType(c, "unknown", NoPos, hst.t)
  ELSE c
BindEntry(acc, e) ==
  LET c == SeekTo(acc.c, e.vpos)
      key == EntryKey(c, e)
  IN IF Bad(acc.c) THEN acc
     ELSE IF Typ[acc.hst.t].host
       THEN [HostMember(c, acc.hst, HostField(acc.hst.t, key), key, e.kpos) EXCEPT !.c = SeekTo(@, acc.c.p)]
     ELSE [acc EXCEPT !.c = SeekTo(EntryField(c, acc.hst, HostField(acc.hst.t, key)), acc.c.p)]
CloseEntries(r) == IF Typ[r.hst.t].host /\ ~Bad(r.c) THEN PolyClose(r.c, r.hst) ELSE r.c
RECURSIVE BindEach(_, _)
BindEach(acc, es) == IF es = <<>> THEN acc ELSE BindEach(BindEntry(acc, Head(es)), Tail(es))
BindEntries(c, dst, t, es) == CloseEntries(BindEach([c |-> c, hst |-> NewHost(dst, t)], es))

\* bindInlineCase: a struct case takes its view as members, a Value case as
\* one object; pointer and map cases take nothing.
InlineMembers(c, at, t, view) ==
  IF Bad(c) THEN c
  ELSE Popped(CASE Typ[t].kind = "value" -> StoreDoc(c, at, ObjectText(c.src, view))
                [] Typ[t].kind = "struct" -> BindEntries(c, at, t, view)
                [] OTHER -> c)
InlineBox(r, target, t, view) ==
  InlineMembers(Push(Write(r.c, target, <<"iface", t, <<"ptr", r.at>>>>)), r.at, t, view)
BindInlineCase(c, target, pc, view) ==
  IF Typ[pc.t].kind \in {"ptr", "map"} THEN c ELSE InlineBox(CarveFor(c, pc.cls), target, pc.t, view)

\* polyClose: the inline discriminator, the classification, the reserve,
\* the inline case.
CloseCase(c, hst, hc, view) ==
  LET targets == {i \in 1..Len(Fields(hst.t)) : Fields(hst.t)[i].role = "ivariant"}
  IN IF hc = NoCase \/ targets = {} THEN c
     ELSE IF ColdCase(hc) THEN Phase2Err(c, "cold case", hst)
     ELSE BindInlineCase(c, hst.dst + Fields(hst.t)[Min(targets)].off, hc, view)
CloseReserve(r, hst, hc) ==
  IF Bad(r.c) THEN r.c
  ELSE CloseCase(IF Typ[hst.t].ru = -1 THEN r.c
                 ELSE StoreDoc(r.c, hst.dst + Typ[hst.t].ru, ObjectText(r.c.src, IF Typ[hst.t].iv = "" THEN r.a ELSE r.b)),
                 hst, hc, r.a)
CloseEach(c, hst, told, hc) ==
  IF told /\ hc = NoCase THEN Phase2Err(c, DiscError(hst, Typ[hst.t].iv), hst)
  ELSE CloseReserve(ClassifyAll([c |-> c, a |-> <<>>, b |-> <<>>], hst, hc, hst.entries), hst, hc)
CloseSelected(c, hst, told) ==
  IF Bad(c) THEN c
  ELSE CloseEach(c, hst, told, IF Typ[hst.t].iv = "" THEN NoCase ELSE CaseByDisc(c, hst, Typ[hst.t].iv).case)
IsInlineDisc(hst, i) == i # 0 /\ Fields(hst.t)[i].disc /\ Fields(hst.t)[i].poly = Typ[hst.t].iv
PolyClose(c, hst) ==
  LET iv == Typ[hst.t].iv
      discs == SelectSeq(hst.entries, LAMBDA e : IsInlineDisc(hst, HostField(hst.t, EntryKey(c, e))))
      told == iv # "" /\ discs # <<>>
  IN CloseSelected(IF told THEN BindInlineDisc(c, hst, Fields(hst.t)[HostField(hst.t, EntryKey(c, discs[1]))], discs[1]) ELSE c,
                   IF told THEN [hst EXCEPT !.bound = @ \cup {Poly[iv].disc}] ELSE hst, told)

-----------------------------------------------------------------------------
(* What a destination holds, as a reader sees it.                          *)

RECURSIVE ZeroOf(_)
ZeroOf(t) ==
  LET ty == Typ[t]
  IN CASE ty.kind \in {"string", "number"} -> <<"text", "">>
       [] ty.kind = "struct" -> <<"struct", [i \in 1..Len(ty.fields) |-> ZeroOf(ty.fields[i].t)]>>
       [] ty.kind = "array" -> <<"array", [i \in 1..ty.n |-> ZeroOf(ty.kid)]>>
       [] ty.kind = "stream" -> <<"stream">>
       [] OTHER -> <<"nil">>

RECURSIVE View(_, _, _), FieldView(_, _, _), MapView(_, _, _)
FieldView(h, at, f) ==
  IF f.hops = <<>> THEN View(h, at + f.off, f.t)
  ELSE LET w == h.mem[at + Head(f.hops).off]
       IN IF w = Zero THEN ZeroOf(f.t) ELSE FieldView(h, w[2], [f EXCEPT !.hops = Tail(@)])
MapView(h, m, kid) ==
  [k \in DOMAIN h.maps[m] |-> View([h EXCEPT !.mem = @ \o h.maps[m][k]], Len(h.mem) + 1, kid)]
View(h, at, t) ==
  LET w == h.mem[at]
      ty == Typ[t]
      items(a, n, kid) == [i \in 1..n |-> View(h, a + (i - 1) * Typ[kid].size, kid)]
  IN CASE ty.kind \in {"string", "number"} -> <<"text", TextOf(h, w)>>
       [] ty.kind = "struct" -> <<"struct", [i \in 1..Len(ty.fields) |-> FieldView(h, at, ty.fields[i])]>>
       [] ty.kind = "array" -> <<"array", items(at, ty.n, ty.kid)>>
       [] ty.kind = "stream" -> <<"stream">>
       [] w = Zero -> <<"nil">>
       [] ty.kind = "ptr" -> <<"ptr", View(h, w[2], ty.kid)>>
       [] ty.kind = "slice" -> <<"slice", w[3], items(w[2], w[4], ty.kid)>>
       [] ty.kind = "map" -> <<"map", MapView(h, w[2], ty.kid)>>
       [] ty.kind = "any" /\ w[2] = "map" -> <<"any", "map", MapView(h, w[3], "any")>>
       [] ty.kind = "any" /\ w[2] = "bool" -> w
       [] ty.kind = "any" /\ w[2] = "slice" -> <<"any", "slice", View(h, w[3], "anyslice")>>
       [] ty.kind = "any" -> <<"any", w[2], IF w[2] = "float" THEN h.mem[w[3]] ELSE <<"text", TextOf(h, h.mem[w[3]])>>>>
       [] ty.kind = "iface" -> IF w[1] = "any" THEN View(h, at, "any")
                               ELSE IF Typ[w[2]].kind = "ptr" THEN <<"iface", w[2], IF w[3] = Zero THEN <<"nil">> ELSE <<"ptr", View(h, w[3][2], Typ[w[2]].kid)>>>>
                               ELSE IF Typ[w[2]].kind = "map" THEN <<"iface", w[2], IF w[3] = Zero THEN <<"nil">> ELSE <<"map", MapView(h, w[3][2], Typ[w[2]].kid)>>>>
                               ELSE <<"iface", w[2], View(h, w[3][2], w[2])>>
       [] ty.kind = "value" -> <<"doc", h.docs[w[2]].text>>
       [] OTHER -> w

-----------------------------------------------------------------------------
(* Streams: a leaf stream hands its elements over in batches; its handler  *)
(* (external) takes the first Typ[t].take of them and stops.               *)

\* GrowBatch: the next batch in the cleared backing or in a fresh one.
GrowBatch(c, dst, t) ==
  LET n == Typ[t].batch
      z == Typ[Typ[t].kid].size
  IN IF Typ[t].reuse THEN WithHeap(c, SetLen(Clear(c.h, Data(c.h, dst), n * z), dst, 0))
     ELSE Write(WithHeap(c, NewArray(c.h, n * z)), dst, Slice(Len(c.h.mem) + 1, 0, n))

\* The items of a full batch the handler takes, as it sees them.
TakenItems(c, dst, t, s) ==
  LET kid == Typ[t].kid
      at(i) == Data(c.h, dst) + (i - 1) * Typ[kid].size
  IN [i \in 1..Min({SLen(c.h, dst), Typ[t].take - s.taken}) |-> [t |-> kid, at |-> at(i), seen |-> View(c.h, at(i), kid)]]
Handed(c, s) == IF Bad(c) \/ s.first THEN c ELSE WithHeap(c, ReleaseScoped(c.h, s.mark))
HandItems(c, dst, t, s) == Handed(IF Bad(c) THEN c ELSE [c EXCEPT !.out = @ \o TakenItems(c, dst, t, s)], s)
\* The handler reads the batch before the staged hooks have run.
BugHandOver(c, dst, t, s) == Handed(Report([c EXCEPT !.out = @ \o TakenItems(c, dst, t, s)]), s)
\* The handoff: report (SettleBatch past the first), then the handler reads
\* the batch.
HandOver(c, dst, t, s) == HandItems(Report(c), dst, t, s)
Taken(c, dst, t, s) == [s EXCEPT !.taken = @ + Min({SLen(c.h, dst), Typ[t].take - @}), !.first = FALSE]

\* streamDriver.loop past its push: s is how far the handler has come.
StreamClose(c, dst, t, s) == IF s.taken = Typ[t].take THEN c ELSE HandOver(c, dst, t, s)
AfterItem(v, dst, t, s) ==
  IF Bad(v) THEN v
  ELSE IF Ch(v) = "," THEN StreamElems(Step(v), dst, t, s)
  ELSE IF Ch(v) = "]" THEN StreamClose(Pop(Step(WithHeap(v, SetCap(v.h, dst, SLen(v.h, dst))))), dst, t, s)
  ELSE CloseErr(v)
BindItem(c, dst, t) ==
  BindValue(WithHeap(c, SetLen(c.h, dst, SLen(c.h, dst) + 1)),
            Data(c.h, dst) + SLen(c.h, dst) * Typ[Typ[t].kid].size, Typ[t].kid, t, "elem", FALSE)
StreamElem(c, dst, t, s, handed) ==
  IF Bad(c) THEN c
  ELSE AfterItem(IF s.taken = Typ[t].take THEN SkipValue(c)
                 ELSE BindItem(IF handed THEN GrowBatch(c, dst, t) ELSE c, dst, t), dst, t, s)
StreamElems(c, dst, t, s) ==
  LET full == s.taken < Typ[t].take /\ SLen(c.h, dst) = Typ[t].batch
  IN StreamElem(IF full THEN HandOver(c, dst, t, s) ELSE c, dst, t, IF full THEN Taken(c, dst, t, s) ELSE s, full)

\* bindStream: past the bracket, in a retention mark and a string view of
\* its own, both restored whatever happens.
StreamReady(c, dst, t) ==
  Write(WithHeap(c, NewArray(c.h, Typ[t].batch * Typ[Typ[t].kid].size)), dst, Slice(Len(c.h.mem) + 1, 0, Typ[t].batch))
StreamWalk(c, dst, t, s) ==
  IF Ch(c) = "]" THEN HandOver(Step(c), dst, t, s)
  ELSE IF Bad(Push(c)) THEN Push(c)
  ELSE StreamElems(Push(c), dst, t, s)
StreamSettled(c) == IF Bad(c) THEN c ELSE Settle(c)
StreamLeave(c, dst, t, outer) ==
  [c EXCEPT !.streams = outer.streams,
            !.h = ReleaseScoped([Put(c.h, dst, <<Slice(0, SLen(c.h, dst), SCap(c.h, dst))>>) EXCEPT
                                   !.str = IF Typ[t].writes THEN outer.h.str ELSE @], Len(outer.h.retained))]
BindStream(c, dst, t) ==
  StreamLeave(StreamSettled(
    StreamWalk(StreamReady(IF Typ[t].writes THEN NewStrView([c EXCEPT !.streams = @ + 1], ScopeCells) ELSE c, dst, t),
               dst, t, [taken |-> 0, first |-> TRUE, mark |-> Len(c.h.retained)])), dst, t, c)

-----------------------------------------------------------------------------
(* Values.                                                                 *)

\* The value at the cursor into a destination of its own JSON kind; mis
\* when the destination cannot hold it, the cursor back at its start.
Held(c) == [c |-> c, mis |-> FALSE]
\* A string into a number, c past it and stored: its body must be a number.
NumberString(c, dst, at) ==
  IF Bad(c) \/ Tok(SeekTo(c, at)).num THEN Held(c) ELSE [c |-> SeekTo(Write(c, dst, Zero), at), mis |-> TRUE]
Direct(c, dst, t) ==
  LET k == Typ[t].kind
  IN CASE k = "string" /\ Ch(c) = "s" -> Held(StoreString(c, dst))
       [] k = "number" /\ Ch(c) = "s" -> NumberString(StoreString(c, dst), dst, c.p)
       [] k = "number" /\ Ch(c) = "d" -> Held(StoreNumberText(c, dst))
       [] k \in {"int", "float"} /\ Ch(c) = "d" -> NumberAt(c, dst, k)
       [] k = "bool" /\ Ch(c) \in {"t", "f"} ->
            Held(IF Bad(Atom(c)) THEN Atom(c) ELSE Write(Atom(c), dst, <<"bool", c.src[c.p]>>))
       [] k = "struct" /\ Ch(c) = "{" -> Held(BindStruct(Step(c), dst, t))
       [] k = "map" /\ Ch(c) = "{" -> Held(BindMap(Step(c), dst, t))
       [] k \in {"slice", "array"} /\ Ch(c) = "[" -> Held(BindArray(Step(c), dst, t))
       [] k = "stream" /\ Ch(c) = "[" -> Held(BindStream(Step(c), dst, t))
       [] OTHER -> [c |-> c, mis |-> TRUE]

\* What bindSlow and root settle ahead of the kinds.
Ahead(c, t) == Typ[t].kind \in {"any", "value", "hook", "text"} \/ Ch(c) = "n"
BindAhead(c, dst, t, ctr) ==
  LET k == Typ[t].kind
      a == Atom(c)
  IN IF k = "any" THEN BindAny(c, dst, ctr)
     ELSE IF k = "value" THEN BindValueDoc(c, dst)
     ELSE IF k \in {"hook", "text"} THEN DeferValue(c, dst, t, ctr)
     ELSE IF Bad(a) THEN a ELSE NullZero(a, dst, t)

\* bindValue and bindSlow: a field, element or map value.
Fitted(d, t, site) == IF d.mis THEN TypeMismatch(d.c, t, site) ELSE d.c
BindAt(r, ctr, site, quoted) ==
  IF Bad(r.c) THEN r.c
  ELSE IF Ahead(r.c, r.t) THEN BindAhead(r.c, r.at, r.t, ctr)
  ELSE IF quoted THEN TypeMismatch(r.c, r.t, site)
  ELSE Fitted(Direct(r.c, r.at, r.t), r.t, site)
BindValue(c, dst, t, ctr, site, quoted) ==
  IF quoted /\ Ch(c) = "s" THEN BindQuoted(c, dst, t)
  ELSE BindAt(IF Ch(c) # "n" THEN ResolvePtrChain(Place(c, dst), t, 0) ELSE [c |-> c, at |-> dst, t |-> t],
              ctr, site, quoted)

RECURSIVE RootChain(_, _)
\* The root chain has no layer limit.
RootChain(r, t) ==
  IF Typ[t].kind # "ptr" \/ Ch(r.c) = "n" THEN [c |-> [r.c EXCEPT !.root = t], at |-> r.at, t |-> t]
  ELSE RootChain(Pointee(r.c, r.at, Typ[t].cls), Typ[t].kid)

\* root: the value as a field's, so that a mismatch is recorded and the
\* value skipped.
RootAt(r) ==
  IF ~Ahead(r.c, r.t) /\ (Ch(r.c) \notin {"{", "[", "s", "t", "f", "d"} \/ (Ch(r.c) = "d" /\ ~Tok(r.c).ok))
  THEN Fail(r.c, "syntax", r.c.p)
  ELSE BindValue(r.c, r.at, r.t, r.t, "field", FALSE)
Root(c, dst) == IF Eof(c) THEN Fail(c, "eof", c.p) ELSE RootAt(RootChain(Place(c, dst), c.root))

\* A mismatch leaves the staged hooks behind.
BugFinish(c) ==
  IF c.mismatch # NoErr THEN [c EXCEPT !.err = c.mismatch]
  ELSE IF ~Eof(c) THEN Fail(c, "trailing", c.p)
  ELSE Report(c)
\* finish: a recorded mismatch settles the rest and takes precedence.
Finish(c) ==
  IF c.mismatch # NoErr THEN [Settle(c) EXCEPT !.err = c.mismatch]
  ELSE IF ~Eof(c) THEN Fail(c, "trailing", c.p)
  ELSE Report(c)

\* Bind: the walk w, the report e, and the scan's verdict over a walk error.
Outcome(w, e) ==
  LET scanned == Bad(e) /\ (Bad(w) \/ ~Eof(w)) /\ ~ScanOK(w.src, w.opt.strict)
  IN [st |-> [h |-> CommitStr(e.h), regions |-> e.regions, memo |-> e.memo],
      err |-> IF scanned THEN [kind |-> "syntax", pos |-> NoPos, t |-> ""]
              ELSE [e.err EXCEPT !.pos = IF w.opt.tape THEN NoPos ELSE @],
      settled |-> ~Bad(w) /\ ~scanned, depth |-> e.depth, calls |-> e.calls, out |-> e.out]
Walked(w) == Outcome(w, IF Bad(w) THEN w ELSE Finish(w))
Bind(st, t, src, opt, dst) ==
  Walked(Root(NewBinder([st EXCEPT !.h = EnsureStr(@, Len(src), Typ[t].streams)], src, opt, t), dst))

\* goBind: the bind and its release point.
GoBindRelease(st, t, src, opt, dst) ==
  [Bind([st EXCEPT !.h.debt = @ + Len(src)], t, src, opt, dst) EXCEPT !.st.h = Release(@)]

=============================================================================
