---------------------------- MODULE GoUnmarshal -----------------------------
(***************************************************************************)
(* Repeated Unmarshal calls through one pooled parser on the Go engine     *)
(* (decode/bind/engine_go.go over GoBind): each call binds a document into *)
(* a fresh destination or over one that already holds a result. The first  *)
(* half states what a bind must produce, over JSON trees and Go values,    *)
(* with no memory, no staging and no cursor; the second is the machine.    *)
(***************************************************************************)
EXTENDS GoBind

CONSTANTS
  Roots,       \* the destination types
  Docs,        \* root -> documents the first call may bring
  Later,       \* root -> documents the later calls may bring
  Probe,       \* root -> documents the call after a document outside Later brings
  Opts,        \* the option records
  Plain,       \* the default options
  MaxCalls     \* calls of a behaviour; two after a document outside Later

VARIABLES
  root,        \* the type this parser binds
  st,          \* what the parser keeps between calls, and all memory
  dsts,        \* the destinations, by address
  shown,       \* destination -> what its owner last saw in it
  held,        \* the stream items handlers kept
  last         \* the last call
vars == <<root, st, dsts, shown, held, last>>

-----------------------------------------------------------------------------
(* JSON documents as trees.                                                *)

RECURSIVE Node(_, _), Children(_, _, _, _)
Leaf(src, i, ok) == [ok |-> ok, at |-> i, next |-> i + 1, keys |-> <<>>, kids |-> <<>>]
Node(src, i) ==
  IF i > Len(src) THEN Leaf(src, i, FALSE)
  ELSE LET tok == Lex[src[i]]
           closer == IF tok.ch = "{" THEN "}" ELSE "]"
       IN IF tok.ch \notin {"{", "["} THEN Leaf(src, i, tok.ok /\ tok.ch \in {"s", "d", "t", "f", "n"})
          ELSE IF i < Len(src) /\ src[i + 1] = closer THEN [Leaf(src, i, TRUE) EXCEPT !.next = i + 2]
          ELSE Children(src, i + 1, closer, Leaf(src, i, TRUE))
Children(src, i, closer, acc) ==
  LET keyed == closer = "}"
      v == Node(src, IF keyed THEN i + 2 ELSE i)
      more == [acc EXCEPT !.kids = Append(@, v), !.keys = IF keyed THEN Append(@, i) ELSE @, !.next = v.next + 1]
  IN IF keyed /\ (i + 1 > Len(src) \/ Lex[src[i]].ch # "s" \/ ~Lex[src[i]].ok \/ src[i + 1] # ":")
       THEN [acc EXCEPT !.ok = FALSE]
     ELSE IF ~v.ok \/ v.next > Len(src) \/ src[v.next] \notin {",", closer} THEN [acc EXCEPT !.ok = FALSE]
     ELSE IF src[v.next] = "," THEN Children(src, v.next + 1, closer, more)
     ELSE more
Grammatical(src, strict) ==
  LET n == Node(src, 1) IN n.ok /\ n.next = Len(src) + 1 /\ ScanOK(src, strict)
RECURSIVE Nesting(_)
Nesting(n) == IF n.kids = <<>> THEN 1 ELSE 1 + Max({Nesting(n.kids[i]) : i \in 1..Len(n.kids)})

-----------------------------------------------------------------------------
(* What a bind produces. A result is [v, a]: the value, and the account a  *)
(* of the first mismatch, the abort, the hook texts in order, and the      *)
(* stream items.                                                           *)

RECURSIVE RefValue(_, _, _, _, _, _, _, _), RefAny(_, _, _, _, _), RefSeq(_, _, _, _, _, _, _)
Account == [mis |-> NoErr, err |-> NoErr, hooks |-> <<>>, key |-> FALSE, out |-> <<>>]
Rejected(a, v, n, t, site) ==
  LET e == [kind |-> "mismatch", pos |-> n.at, t |-> t]
  IN IF site = "elem" THEN [v |-> v, a |-> [a EXCEPT !.err = e]]
     ELSE [v |-> v, a |-> [a EXCEPT !.mis = IF @ = NoErr THEN e ELSE @]]
Failed(a) == \E i \in 1..Len(a.hooks) : a.hooks[i] \in HookFails
Hooked(a, old, text) ==
  [v |-> IF text \in HookFails THEN old ELSE <<"hook", text>>, a |-> [a EXCEPT !.hooks = Append(@, text)]]

\* Elements i.. of an array, over what the old elements hold; r is element i.
RefRest(r, src, olds, t, kids, i, o) ==
  [RefSeq(r.a, src, olds, t, kids, i + 1, o) EXCEPT !.v = <<r.v>> \o @]
RefSeq(a, src, olds, t, kids, i, o) ==
  IF i > Len(kids) \/ a.err # NoErr THEN [v |-> <<>>, a |-> a]
  ELSE RefRest(RefValue(a, src, IF i <= Len(olds) THEN olds[i] ELSE ZeroOf(Typ[t].kid), Typ[t].kid, kids[i], t, "elem", o),
               src, olds, t, kids, i, o)

RefEntry(acc, key, t, r) ==
  IF Typ[t].intkey /\ key \notin IntText THEN [acc EXCEPT !.a = [r.a EXCEPT !.key = TRUE]]
  ELSE [v |-> (key :> r.v) @@ acc.v, a |-> r.a]
RefMap(a, src, old, t, n, o) ==
  FoldLeft(LAMBDA acc, i :
             IF acc.a.err # NoErr THEN acc
             ELSE RefEntry(acc, Lex[src[n.keys[i]]].body, t,
                           RefValue(acc.a, src, ZeroOf(Typ[t].kid), Typ[t].kid, n.kids[i], t, "elem", o)),
           [v |-> old, a |-> a], [i \in 1..Len(n.kids) |-> i])

RefAny(a, src, n, ctr, o) ==
  LET tok == Lex[src[n.at]]
      ok(v) == [v |-> v, a |-> a]
  IN CASE tok.ch = "s" -> ok(<<"any", "string", <<"text", tok.body>>>>)
       [] tok.ch = "d" -> IF o.usenum THEN ok(<<"any", "number", <<"text", tok.body>>>>)
                          ELSE IF tok.flt THEN ok(<<"any", "float", <<"float", tok.body>>>>)
                          ELSE Rejected(a, <<"any", "float", <<"float", "inf">>>>, n, ctr, "elem")
       [] tok.ch \in {"t", "f"} -> ok(<<"any", "bool", tok.ch>>)
       [] tok.ch = "n" -> ok(<<"nil">>)
       [] tok.ch = "[" -> [RefSeq(a, src, <<>>, "anyslice", n.kids, 1, o) EXCEPT !.v = <<"any", "slice", <<"slice", Len(n.kids), @>>>>]
       [] tok.ch = "{" -> [RefMap(a, src, <<>>, "anymap", n, o) EXCEPT !.v = <<"any", "map", @>>]

\* A `,string` value. "A body of "null" is a JSON null: the raw spelling
\* takes the field slot, a pointer cleared as a bare null would clear it,
\* while an escaped spelling resolves the pointee" (value.go:350-354): the
\* code draws the line elsewhere, and a raw null with blanks after it
\* resolves the pointee too. The reference follows the code here.
ClearsPointer(tok) == tok.quoted = "null" /\ ~(tok.esc \/ tok.spaced)
RefQuoted(a, old, t, n, tok) ==
  IF tok.quoted = "null" THEN [v |-> old, a |-> a]
  ELSE IF ~QuotedFits(Typ[t].kind, tok.quoted) THEN Rejected(a, old, n, t, "field")
  ELSE [v |-> IF Typ[t].kind = "string" THEN <<"text", Lex[tok.quoted].body>> ELSE <<Typ[t].kind, Lex[tok.quoted].body>>, a |-> a]

\* A plain struct: members in order, each into the field of its name.
Into(acc, j, r) == [v |-> [acc.v EXCEPT ![j] = r.v], a |-> r.a]
RefMember(acc, src, t, j, key, n, o) ==
  LET f == Fields(t)[j]
  IN IF acc.a.err # NoErr THEN acc
     ELSE IF j = 0 THEN IF o.disallow THEN [acc EXCEPT !.a.err = [kind |-> "unknown", pos |-> key, t |-> t]] ELSE acc
     ELSE IF \E h \in 1..Len(f.hops) : f.hops[h].unset
       THEN [acc EXCEPT !.a.err = [kind |-> "unsettable", pos |-> n.at, t |-> t]]
     ELSE Into(acc, j, RefValue(acc.a, src, acc.v[j], f.t, n, t, IF f.quoted THEN "quoted" ELSE "field", o))
RefMembers(a, src, old, t, n, o) ==
  FoldLeft(LAMBDA acc, i : RefMember(acc, src, t, HostField(t, Lex[src[n.keys[i]]].body), n.keys[i], n.kids[i], o),
           [v |-> old[2], a |-> a], [i \in 1..Len(n.kids) |-> i])

\* A stream: whole batches bind until the handler has its items, and a
\* failed hook stops the next handoff.
StopOnHook(a) == IF a.err = NoErr /\ Failed(a) THEN [a EXCEPT !.err = [kind |-> "hook", pos |-> NoPos, t |-> ""]] ELSE a
Bound(acc, r) == [v |-> Append(acc.v, r.v), a |-> r.a]
RefItem(acc, src, t, n, o) ==
  IF acc.a.err # NoErr THEN acc
  ELSE Bound(acc, RefValue(acc.a, src, ZeroOf(Typ[t].kid), Typ[t].kid, n, t, "elem", o))
RefItems(a, src, t, kids, n, o) ==
  FoldLeft(LAMBDA acc, i :
             RefItem(IF i > 1 /\ (i - 1) % Typ[t].batch = 0 THEN [acc EXCEPT !.a = StopOnHook(@)] ELSE acc, src, t, kids[i], o),
           [v |-> <<>>, a |-> a], [i \in 1..n |-> i])
Streamed(r, t) ==
  [v |-> <<"stream">>,
   a |-> IF r.a.err # NoErr THEN r.a ELSE [r.a EXCEPT !.out = @ \o SubSeq(r.v, 1, Min({Len(r.v), Typ[t].take}))]]
RefStream(a, src, t, kids, o) ==
  LET batches == (Typ[t].take + Typ[t].batch - 1) \div Typ[t].batch
  IN Streamed([RefItems(a, src, t, kids, Min({Len(kids), batches * Typ[t].batch}), o) EXCEPT !.a = StopOnHook(@)], t)

\* A poly host: the discriminator selects wherever it stands among the
\* members, and each member goes to the host, the case or the reserve.
Member(src, n, key) == LET at == {i \in 1..Len(n.keys) : Lex[src[n.keys[i]]].body = key} IN IF at = {} THEN 0 ELSE Min(at)
CaseFor(src, n, x, fs) ==
  LET d == CHOOSE i \in 1..Len(fs) : fs[i].disc /\ fs[i].off = Poly[x].disc
      i == Member(src, n, fs[d].key)
      tok == Lex[src[n.kids[i].at]]
  IN IF i = 0 \/ tok.ch # "s" THEN NoCase
     ELSE IF tok.body \in DOMAIN Poly[x].cases THEN Poly[x].cases[tok.body] ELSE Poly[x].default
SubObject(src, n, keep) ==
  LET idx == SelectSeq([i \in 1..Len(n.keys) |-> i], LAMBDA i : i \in keep)
  IN FoldLeft(LAMBDA text, k : text \o (IF k = 1 THEN <<>> ELSE <<",">>) \o <<src[n.keys[idx[k]]], ":">>
                               \o SubSeq(src, n.kids[idx[k]].at, n.kids[idx[k]].next - 1),
              <<"{">>, [k \in 1..Len(idx) |-> k]) \o <<"}">>
Only(n, keep) ==
  LET idx == SelectSeq([i \in 1..Len(n.keys) |-> i], LAMBDA i : i \in keep)
  IN [n EXCEPT !.keys = [k \in 1..Len(idx) |-> n.keys[idx[k]]], !.kids = [k \in 1..Len(idx) |-> n.kids[idx[k]]]]

\* The members of a host by where they go; hc is the inline case.
Name(src, n, i) == Lex[src[n.keys[i]]].body
Role(src, t, n, i) == LET j == HostField(t, Name(src, n, i)) IN IF j = 0 THEN "miss" ELSE Fields(t)[j].role
Own(src, t, n) == {i \in 1..Len(n.keys) : Role(src, t, n, i) = ""}
Polys(src, t, n) == {i \in 1..Len(n.keys) : Role(src, t, n, i) \in {"variant", "kindof"}}
Cased(src, t, n, hc) ==
  {i \in 1..Len(n.keys) : /\ Role(src, t, n, i) \notin {"", "variant", "kindof"}
                          /\ hc # NoCase /\ (Typ[hc.t].kind # "struct" \/ HostField(hc.t, Name(src, n, i)) # 0)}
LeftOver(src, t, n, hc) ==
  {i \in 1..Len(n.keys) : Role(src, t, n, i) \in {"miss", "reserve", "ivariant"}} \ Cased(src, t, n, hc)
WithRole(t, role) == {j \in 1..Len(Fields(t)) : Fields(t)[j].role = role}
PolyFail(r, t) == [r EXCEPT !.a.err = [kind |-> "poly", pos |-> NoPos, t |-> t]]

\* A variant or kindof member of case pc into field j.
RefVariant(acc, src, t, j, pc, n, o) ==
  IF acc.a.err # NoErr THEN acc
  ELSE IF Lex[src[n.at]].ch = "n" THEN [acc EXCEPT !.v[j] = <<"nil">>]
  ELSE IF pc = NoCase \/ ColdCase(pc) THEN PolyFail(acc, t)
  ELSE Into(acc, j, [RefValue(acc.a, src, ZeroOf(pc.t), pc.t, n, t, "field", o) EXCEPT
                       !.v = IF Typ[pc.t].kind = "any" THEN @ ELSE <<"iface", pc.t, @>>])
RefVariants(acc, src, t, n, o) ==
  FoldLeft(LAMBDA b, i :
             LET j == HostField(t, Name(src, n, i))
                 f == Fields(t)[j]
             IN RefVariant(b, src, t, j, IF f.role = "kindof" THEN CaseByKindof(f.poly, JsonKind(Lex[src[n.kids[i].at]].ch))
                                         ELSE CaseFor(src, n, f.poly, Fields(t)), n.kids[i], o),
           acc, SetToSeq(Polys(src, t, n)))

\* The inline case, over the host's members in r.
RefInline(r, src, t, n, hc, o) ==
  IF hc = NoCase \/ WithRole(t, "ivariant") = {} \/ r.a.err # NoErr THEN r
  ELSE IF ColdCase(hc) THEN PolyFail(r, t)
  ELSE IF Typ[hc.t].kind \in {"ptr", "map"} THEN r
  ELSE Into(r, Min(WithRole(t, "ivariant")),
            [(IF Typ[hc.t].kind = "value" THEN [v |-> <<"doc", SubObject(src, n, Cased(src, t, n, hc))>>, a |-> r.a]
              ELSE RefValue(r.a, src, ZeroOf(hc.t), hc.t,
                            Only(n, Cased(src, t, n, hc) \cup (IF WithRole(t, "reserve") = {} /\ Sinks(hc) THEN LeftOver(src, t, n, hc) ELSE {})),
                            t, "field", [o EXCEPT !.disallow = FALSE])) EXCEPT !.v = <<"iface", hc.t, @>>])
\* The reserve and the discriminator d, a member's token or none.
RefReserve(r, src, t, n, hc, d) ==
  [r EXCEPT !.v = [j \in DOMAIN @ |->
     IF d # <<>> /\ Fields(t)[j].role = "ivdisc" THEN <<"text", d[1].body>>
     ELSE IF WithRole(t, "reserve") # {} /\ j = Min(WithRole(t, "reserve")) THEN <<"doc", SubObject(src, n, LeftOver(src, t, n, hc))>>
     ELSE @[j]]]
RefHost(r, src, t, n, hc, d, o) ==
  IF d # <<>> /\ (d[1].ch # "s" \/ hc = NoCase) THEN PolyFail(r, t)
  ELSE IF o.disallow /\ WithRole(t, "reserve") = {} /\ ~Sinks(hc) /\ LeftOver(src, t, n, hc) # {} THEN PolyFail(r, t)
  ELSE RefInline(RefReserve(r, src, t, n, hc, d), src, t, n, hc, o)
InlineDisc(src, t, n) ==
  LET at == UNION {{i \in 1..Len(n.keys) : Name(src, n, i) = Fields(t)[j].key} : j \in WithRole(t, "ivdisc")}
  IN IF Typ[t].iv = "" \/ at = {} THEN <<>> ELSE <<Lex[src[n.kids[Min(at)].at]]>>
RefPoly(a, src, old, t, n, o) ==
  RefHost(RefVariants(RefMembers(a, src, old, t, Only(n, Own(src, t, n)), o), src, t, n, o), src, t, n,
          IF Typ[t].iv = "" THEN NoCase ELSE CaseFor(src, n, Typ[t].iv, Fields(t)), InlineDisc(src, t, n), o)

RefValue(a, src, old, t, n, ctr, site, o) ==
  LET ty == Typ[t]
      tok == Lex[src[n.at]]
      olds == IF old = <<"nil">> THEN <<>> ELSE old[3]
      same == [v |-> old, a |-> a]
      no == Rejected(a, old, n, t, IF site = "quoted" THEN "field" ELSE site)
  IN CASE ty.kind = "ptr" -> IF tok.ch = "n" \/ (site = "quoted" /\ ClearsPointer(tok)) THEN [v |-> <<"nil">>, a |-> a]
                             ELSE [RefValue(a, src, IF old = <<"nil">> THEN ZeroOf(ty.kid) ELSE old[2], ty.kid, n, ctr, site, o)
                                     EXCEPT !.v = <<"ptr", @>>]
       [] site = "quoted" /\ tok.ch = "s" -> RefQuoted(a, old, t, n, tok)
       [] ty.kind = "any" -> RefAny(a, src, n, ctr, o)
       [] ty.kind = "value" -> [v |-> IF o.tape /\ tok.ch = "n" THEN <<"nil">> ELSE <<"doc", SubSeq(src, n.at, n.next - 1)>>, a |-> a]
       [] ty.kind = "hook" -> Hooked(a, old, SubSeq(src, n.at, n.next - 1))
       [] ty.kind = "text" -> IF tok.ch = "n" THEN same ELSE IF tok.ch = "s" THEN Hooked(a, old, <<tok.body>>)
                              ELSE Rejected(a, old, n, ctr, "elem")
       [] tok.ch = "n" -> IF ty.kind \in {"slice", "map"} THEN [v |-> <<"nil">>, a |-> a] ELSE same
       [] site = "quoted" -> no
       [] ty.kind = "string" /\ tok.ch = "s" -> [v |-> <<"text", tok.body>>, a |-> a]
       [] ty.kind = "number" /\ tok.ch \in {"s", "d"} ->
            IF tok.ch = "d" \/ tok.num THEN [v |-> <<"text", tok.body>>, a |-> a]
            ELSE [no EXCEPT !.v = <<"text", "">>]
       [] ty.kind \in {"int", "float"} /\ tok.ch = "d" ->
            IF Fits(ty.kind, tok) THEN [v |-> <<ty.kind, tok.body>>, a |-> a]
            ELSE IF ty.kind = "float" THEN [no EXCEPT !.v = <<"float", "inf">>] ELSE no
       [] ty.kind = "bool" /\ tok.ch \in {"t", "f"} -> [v |-> <<"bool", src[n.at]>>, a |-> a]
       [] ty.kind = "struct" /\ tok.ch = "{" -> 
            [(IF ty.host THEN RefPoly(a, src, old, t, n, o) ELSE RefMembers(a, src, old, t, n, o)) EXCEPT !.v = <<"struct", @>>]
       [] ty.kind = "slice" /\ tok.ch = "[" ->
            IF n.kids = <<>> THEN [v |-> <<"slice", 0, olds>>, a |-> a]
            ELSE [RefSeq(a, src, olds, t, n.kids, 1, o) EXCEPT !.v = <<"slice", Len(n.kids), @>>]
       [] ty.kind = "array" /\ tok.ch = "[" ->
            [RefSeq(a, src, old[2], t, SubSeq(n.kids, 1, Min({Len(n.kids), ty.n})), 1, o) EXCEPT
               !.v = <<"array", [i \in 1..ty.n |-> IF i <= Len(@) THEN @[i] ELSE ZeroOf(ty.kid)]>>]
       [] ty.kind = "map" /\ tok.ch = "{" -> 
            [RefMap(a, src, IF old = <<"nil">> THEN <<>> ELSE old[2], t, n, o) EXCEPT !.v = <<"map", @>>]
       [] ty.kind = "stream" /\ tok.ch = "[" -> RefStream(a, src, t, n.kids, o)
       [] OTHER -> no

\* The verdict: an abort, then the first mismatch, then hooks, then keys.
Verdict(a) == IF a.err # NoErr THEN a.err ELSE IF a.mis # NoErr THEN a.mis
              ELSE IF Failed(a) THEN [kind |-> "hook", pos |-> NoPos, t |-> ""]
              ELSE IF a.key THEN [kind |-> "key", pos |-> NoPos, t |-> ""] ELSE NoErr

-----------------------------------------------------------------------------
(* The machine.                                                            *)

MapTypes == {t \in DOMAIN Typ : Typ[t].kind = "map"}
Structs == {t \in DOMAIN Typ : Typ[t].kind = "struct"}
NoCall == [n |-> 0, wild |-> FALSE, src |-> <<>>, opt |-> Plain, dst |-> 0, old |-> <<>>, err |-> NoErr,
           settled |-> TRUE, depth |-> 0, calls |-> <<>>, out |-> <<>>, docs |-> 0]

Init ==
  /\ root \in Roots
  /\ st = [h |-> NewHeap, regions |-> [t \in MapTypes |-> <<>>],
           memo |-> [t \in Structs |-> [i \in 1..Len(Fields(t)) + 1 |-> 0]]]
  /\ dsts = <<>>
  /\ shown = <<>>
  /\ held = <<>>
  /\ last = NoCall

\* goUnmarshal of src over the destination at dst.
Call(s, src, opt, dst, ds) ==
  \E b \in {GoBindRelease(s, root, src, opt, dst)} :
     /\ st' = b.st
     /\ dsts' = ds
     /\ shown' = [i \in 1..Len(ds) |-> IF ds[i] = dst THEN View(b.st.h, dst, root) ELSE shown[i]]
     /\ held' = held \o b.out
     /\ last' = [n |-> last.n + 1, wild |-> last.wild \/ src \notin Later[root], src |-> src, opt |-> opt, dst |-> dst,
                 old |-> View(s.h, dst, root), err |-> b.err, settled |-> b.settled, depth |-> b.depth,
                 calls |-> b.calls, out |-> b.out, docs |-> Len(s.h.docs)]
     /\ UNCHANGED root

\* Into a new variable of the caller's.
UnmarshalFresh(src, opt) ==
  Call([st EXCEPT !.h = NewArray(@, Typ[root].size)], src, opt, Len(st.h.mem) + 1, Append(dsts, Len(st.h.mem) + 1))
\* Over what an earlier call left.
UnmarshalAgain(src, opt) == dsts # <<>> /\ Call(st, src, opt, Last(dsts), dsts)

\* The bounds: a behaviour has MaxCalls calls, or two when the first brought
\* a document outside Later and plain options.
Budget == last.n < IF last.wild THEN 2 ELSE MaxCalls
Plainly == last.n = 0 \/ ~last.wild \/ last.opt = Plain
\* UnmarshalValue binds the text its tape renders (valuetext.go), which has no
\* blanks and spells null as it is.
Rendered(src) == \A i \in 1..Len(src) : Lex[src[i]].quoted = "null" => OwnNull(Lex[src[i]])
Next ==
  /\ Budget /\ Plainly
  /\ \E src \in IF last.n = 0 THEN Docs[root] ELSE IF last.wild THEN Probe[root] ELSE Later[root],
        opt \in IF last.n = 0 THEN Opts ELSE {Plain} :
       (opt.tape => Rendered(src)) /\ (UnmarshalFresh(src, opt) \/ UnmarshalAgain(src, opt))
Spec == Init /\ [][Next]_vars

-----------------------------------------------------------------------------
(* Properties.                                                             *)

\* Every call leaves the parser between calls: no borrowed tail, and the
\* walk's depth balanced unless it aborted.
TypeOK ==
  /\ root \in Roots
  /\ last.n \in 0..MaxCalls
  /\ Len(shown) = Len(dsts)
  /\ last.err = NoErr => last.settled /\ last.depth = 0
  /\ \A k \in DOMAIN Tmpl : st.h.cls[k].off \in 0..st.h.cls[k].lim

Expected == RefValue(Account, last.src, last.old, root, Node(last.src, 1), root, "field", last.opt)
Judged == last.n > 0 /\ Grammatical(last.src, last.opt.strict) /\ Nesting(Node(last.src, 1)) < MaxDepth
Poly1 == Typ[root].poly

\* A call binds what the document says over what the destination held
\* (merging structs, maps and slice elements, members in order), and its
\* error is the first abort, else the first mismatch, else the first failed
\* hook, else the first failed key: whatever the fields' order, predictions,
\* regions, growths and staged calls were. After an abort only the verdict
\* is compared.
BindsAsSpecified ==
  Judged /\ ~Poly1 =>
    \A r \in {Expected} :
       /\ last.err = [Verdict(r.a) EXCEPT !.pos = IF last.opt.tape THEN NoPos ELSE @]
       /\ r.a.err = NoErr => shown[Len(shown)] = r.v

\* A variant's case does not depend on where its discriminator stands, on
\* escapes in the member names, or on what an earlier call left in the
\* discriminator; leftover members reach the reserve in their order.
PolyOrderFree ==
  Judged /\ Poly1 =>
    \A r \in {Expected} :
       /\ (last.err = NoErr) = (Verdict(r.a) = NoErr)
       /\ r.a.err = NoErr => shown[Len(shown)] = r.v

\* A malformed document is never accepted, wherever the fault stands.
MalformedRejected ==
  last.n > 0 /\ ~last.opt.lenient /\ ~Grammatical(last.src, last.opt.strict) => last.err # NoErr

\* A bind of a type without variants that reached the end of its value runs
\* each hook once, in document order, also when it reports a mismatch.
HooksRunOnce ==
  Judged /\ ~Poly1 => \A r \in {Expected} : r.a.err = NoErr => last.calls = r.a.hooks

\* A stream handler sees each item complete, hooks included, in order; the
\* same types are judged.
ItemsComplete ==
  Judged /\ ~Poly1 =>
    \A r \in {Expected} : r.a.err = NoErr => [i \in 1..Len(last.out) |-> last.out[i].seen] = r.a.out

\* Values become readable with the call that bound them, all of them or none.
ValuesWithheld ==
  ~Typ[root].streams =>
    \A d \in last.docs + 1..Len(st.h.docs) : st.h.docs[d].live = (last.err = NoErr)

\* No later call changes a result an earlier one delivered elsewhere, or an
\* item a stream handler kept.
ResultsStable ==
  /\ \A i \in 1..Len(dsts) : View(st.h, dsts[i], root) = shown[i]
  /\ \A i \in 1..Len(held) : View(st.h, held[i].at, held[i].t) = held[i].seen

\* Storage still to be handed out: block tails, free row slots, spare
\* backings and free map regions.
RangeOf(at, n) == at..at + n - 1
FreeWords(h) ==
  UNION {RangeOf(h.cls[k].block + h.cls[k].off * Tmpl[k].esz, (h.cls[k].lim - h.cls[k].off) * Tmpl[k].esz)
         : k \in {j \in DOMAIN Tmpl : ~Tmpl[j].ismap}}
  \cup UNION {UNION {UNION {RangeOf(SlotAddr(h, k, r, i), 2^(r - 1) * Tmpl[k].esz) : i \in h.cls[k].rows[r].free}
                     : r \in 1..RecRows} : k \in DOMAIN Tmpl}
  \cup UNION {RangeOf(h.spares[i].data, h.spares[i].cap * Tmpl[h.spares[i].k].esz) : i \in 1..Len(h.spares)}
RegionWords == UNION {UNION {RangeOf(st.regions[t][i], RegionSlots * Stride(t)) : i \in 1..Len(st.regions[t])} : t \in MapTypes}

\* What the allocator hands out next is zero: a bind never sees what an
\* earlier one, failed or not, wrote there.
FreeIsZero == \A a \in FreeWords(st.h) \cup RegionWords : st.h.mem[a] = Zero

\* The words a destination leads to, spare capacity included; the words of a
\* map's value are copied out of the map to walk them.
RECURSIVE Reach(_, _, _), FieldReach(_, _, _), MapReach(_, _, _)
FieldReach(h, at, f) ==
  IF f.hops = <<>> THEN Reach(h, at + f.off, f.t)
  ELSE LET w == h.mem[at + Head(f.hops).off]
       IN {at + Head(f.hops).off} \cup
          IF w = Zero THEN {} ELSE FieldReach(h, w[2], [f EXCEPT !.hops = Tail(@)])
MapReach(h, m, kid) ==
  UNION {Reach([h EXCEPT !.mem = @ \o h.maps[m][k]], Len(h.mem) + 1, kid) : k \in DOMAIN h.maps[m]}
Reach(h, at, t) ==
  LET w == h.mem[at]
      ty == Typ[t]
      items(a, n, kid) == UNION {Reach(h, a + (i - 1) * Typ[kid].size, kid) : i \in 1..n}
  IN {at} \cup
     CASE ty.kind = "struct" -> UNION {FieldReach(h, at, f) : f \in Range(ty.fields)}
       [] ty.kind = "array" -> items(at, ty.n, ty.kid)
       [] w = Zero -> {}
       [] ty.kind = "ptr" -> Reach(h, w[2], ty.kid)
       [] ty.kind = "slice" -> items(w[2], w[4], ty.kid)
       [] ty.kind = "map" -> MapReach(h, w[2], ty.kid)
       [] ty.kind = "any" /\ w[2] = "map" -> MapReach(h, w[3], "any")
       [] ty.kind = "any" /\ w[2] = "slice" -> Reach(h, w[3], "anyslice")
       [] ty.kind = "any" /\ w[2] = "bool" -> {}
       [] ty.kind = "any" -> {w[3]}
       [] ty.kind = "iface" /\ w[1] = "any" -> Reach(h, at, "any")
       [] ty.kind = "iface" /\ w[3] = Zero -> {}
       [] ty.kind = "iface" -> CASE Typ[w[2]].kind = "ptr" -> Reach(h, w[3][2], Typ[w[2]].kid)
                                 [] Typ[w[2]].kind = "map" -> MapReach(h, w[3][2], Typ[w[2]].kid)
                                 [] OTHER -> Reach(h, w[3][2], w[2])
       [] OTHER -> {}
\* No destination, spare capacity included, reaches storage the allocator
\* may still hand out: the next bind cannot write through it.
NothingSharedWithFree ==
  \A i \in 1..Len(dsts) : Reach(st.h, dsts[i], root) \cap (FreeWords(st.h) \cup RegionWords) = {}

(* A call binds what the document says over what the destination held and  *)
(* returns the error the document earns, variants in any member order and  *)
(* malformed documents included.                                           *)
Binding == TypeOK /\ BindsAsSpecified /\ PolyOrderFree /\ MalformedRejected

(* User code is called with complete data: each hook once and in order,    *)
(* each stream item after its hooks.                                       *)
CallbacksExact == HooksRunOnce /\ ItemsComplete

(* What a call delivered no later call changes, and a failed call delivers *)
(* no Value.                                                               *)
ResultsKept == ResultsStable /\ ValuesWithheld

(* The memory still to be handed out is zero and unreachable from any      *)
(* result.                                                                 *)
FreeMemoryClean == FreeIsZero /\ NothingSharedWithFree
=============================================================================
