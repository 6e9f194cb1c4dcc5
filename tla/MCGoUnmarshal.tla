--------------------------- MODULE MCGoUnmarshal ----------------------------
(***************************************************************************)
(* GoUnmarshal on small types. Every root has the objects or arrays built  *)
(* from its members or elements, and each of its seed documents cut off at *)
(* every token, with one token replaced, and with one token added.         *)
(***************************************************************************)
EXTENDS GoUnmarshal

Tk(ch) == [ch |-> ch, ok |-> TRUE, closed |-> TRUE, clean |-> TRUE, esc |-> FALSE, spaced |-> FALSE, body |-> "", int |-> FALSE,
           flt |-> FALSE, num |-> FALSE, quoted |-> ""]
Sg(body) == [Tk("s") EXCEPT !.body = body]
Nm(body, int, flt) == [Tk("d") EXCEPT !.body = body, !.int = int, !.flt = flt]
Tokens ==
  [x \in {"{", "}", "[", "]", ",", ":"} |-> Tk(x)] @@
  ("null" :> Tk("n")) @@ ("true" :> Tk("t")) @@ ("nul" :> [Tk("n") EXCEPT !.ok = FALSE]) @@
  ("!" :> [Tk("x") EXCEPT !.ok = FALSE]) @@
  ("1" :> Nm("1", TRUE, TRUE)) @@ ("2" :> Nm("2", TRUE, TRUE)) @@ ("1.5" :> Nm("1.5", FALSE, TRUE)) @@
  ("1e9" :> Nm("1e9", FALSE, FALSE)) @@ ("1x" :> [Nm("1", TRUE, TRUE) EXCEPT !.ok = FALSE]) @@
  [x \in {"a", "b", "c", "d", "q", "r", "t", "v", "k", "z"} |-> Sg(x)] @@
  ("\\a" :> [Sg("a") EXCEPT !.esc = TRUE]) @@ ("\\v" :> [Sg("v") EXCEPT !.esc = TRUE]) @@
  ("\\z" :> [Sg("z") EXCEPT !.esc = TRUE]) @@
  ("^" :> [Sg("^") EXCEPT !.clean = FALSE]) @@ ("''" :> Sg("")) @@
  ("'1" :> [Sg("1") EXCEPT !.num = TRUE, !.quoted = "1"]) @@
  ("'null" :> [Sg("null") EXCEPT !.quoted = "null"]) @@
  ("'null_" :> [Sg("null") EXCEPT !.quoted = "null", !.spaced = TRUE]) @@
  ("\\null" :> [Sg("null") EXCEPT !.quoted = "null", !.esc = TRUE]) @@
  ("open" :> [Tk("s") EXCEPT !.ok = FALSE, !.closed = FALSE]) @@
  ("\\?" :> [Tk("s") EXCEPT !.ok = FALSE, !.esc = TRUE])

Base == [kind |-> "", size |-> 1, kid |-> "", cls |-> "", cold |-> FALSE, streams |-> FALSE, poly |-> FALSE]
Scalar(k) == [Base EXCEPT !.kind = k]
SliceOf(kid, cls) == [Base EXCEPT !.kind = "slice", !.kid = kid, !.cls = cls]
PtrTo(kid, cls) == [Base EXCEPT !.kind = "ptr", !.kid = kid, !.cls = cls]
MapOf(kid, cls, intkey, defer, valcls) ==
  [Base EXCEPT !.kind = "map", !.kid = kid, !.cls = cls] @@ [intkey |-> intkey, valdefer |-> defer, valcls |-> valcls]
Field(key, t, off) == [key |-> key, t |-> t, off |-> off, quoted |-> FALSE, hops |-> <<>>, role |-> "", disc |-> FALSE, poly |-> ""]
Struct(size, fs) == [Base EXCEPT !.kind = "struct", !.size = size] @@ [fields |-> fs, host |-> FALSE, iv |-> "", ru |-> -1]
Host(size, fs, iv, ru) == [Struct(size, fs) EXCEPT !.host = TRUE, !.iv = iv, !.ru = ru, !.poly = TRUE]
Hop(off, cls, unset) == [off |-> off, cls |-> cls, unset |-> unset]

Types ==
  [k \in {"int", "float", "string", "number", "bool", "any", "value", "hook", "text", "iface"} |-> Scalar(k)] @@
  ("anyslice" :> SliceOf("any", "any")) @@ ("anymap" :> MapOf("any", "maps", FALSE, FALSE, "")) @@
  ("pint" :> PtrTo("int", "int")) @@ ("ints" :> SliceOf("int", "int")) @@
  ("arr" :> ([Base EXCEPT !.kind = "array", !.kid = "int", !.size = 2] @@ [n |-> 2])) @@
  ("Flat" :> Struct(7, <<Field("a", "int", 0), Field("b", "string", 1), Field("c", "pint", 2), Field("d", "float", 3),
                         [Field("q", "pint", 4) EXCEPT !.quoted = TRUE], Field("k", "number", 5),
                         [Field("r", "int", 0) EXCEPT !.hops = <<Hop(6, "in", FALSE)>>],
                         [Field("t", "string", 1) EXCEPT !.hops = <<Hop(6, "in", FALSE)>>],
                         [Field("z", "int", 0) EXCEPT !.hops = <<Hop(6, "in", FALSE), Hop(2, "in", TRUE)>>]>>)) @@
  ("E" :> Struct(2, <<Field("a", "int", 0), Field("b", "hook", 1)>>)) @@ ("List" :> SliceOf("E", "E")) @@
  ("Nested" :> SliceOf("ints", "ints")) @@
  ("Tree" :> Struct(2, <<Field("a", "int", 0), Field("k", "Kids", 1)>>)) @@ ("Kids" :> SliceOf("Tree", "tree")) @@
  ("L" :> MapOf("ints", "maps", FALSE, FALSE, "")) @@ ("H" :> MapOf("E", "maps", TRUE, TRUE, "E")) @@
  ("Dict" :> Struct(2, <<Field("a", "L", 0), Field("b", "H", 1)>>)) @@
  ("Vals" :> Struct(5, <<Field("v", "value", 0), Field("b", "hook", 1), Field("t", "text", 2), Field("r", "arr", 3)>>)) @@
  ("Var" :> Host(3, <<Field("a", "int", 0), [Field("t", "string", 1) EXCEPT !.disc = TRUE, !.poly = "pv"],
                      [Field("v", "iface", 2) EXCEPT !.role = "variant", !.poly = "pv"]>>, "", -1)) @@
  ("Kind" :> Host(2, <<[Field("k", "iface", 0) EXCEPT !.role = "kindof", !.poly = "pk"],
                       [Field("r", "value", 1) EXCEPT !.role = "reserve"]>>, "", 1)) @@
  ("Inl" :> Host(4, <<Field("a", "int", 0), [Field("t", "string", 1) EXCEPT !.role = "ivdisc", !.disc = TRUE, !.poly = "pi"],
                      [Field("v", "iface", 2) EXCEPT !.role = "ivariant"],
                      [Field("r", "value", 3) EXCEPT !.role = "reserve"]>>, "pi", 3)) @@
  ("pE" :> PtrTo("E", "E")) @@ ("Cold" :> [Scalar("text") EXCEPT !.cold = TRUE]) @@
  ("Items" :> ([Base EXCEPT !.kind = "stream", !.kid = "Item"] @@ [take |-> 3, batch |-> 2, reuse |-> FALSE, writes |-> TRUE])) @@
  ("Item" :> Struct(3, <<Field("a", "int", 0), Field("b", "hook", 1), Field("c", "string", 2)>>)) @@
  ("Feed" :> [Struct(2, <<Field("v", "Items", 0), Field("a", "string", 1)>>) EXCEPT !.streams = TRUE])

PolyTables ==
  [pv |-> [disc |-> 1, default |-> NoCase,
           cases |-> [a |-> [t |-> "E", cls |-> "E"], b |-> [t |-> "pE", cls |-> ""], c |-> [t |-> "L", cls |-> ""],
                      d |-> [t |-> "Cold", cls |-> "any"]]],
   pk |-> [disc |-> 0, default |-> NoCase,
           cases |-> [number |-> [t |-> "int", cls |-> "int"], array |-> [t |-> "ints", cls |-> "ints"],
                      object |-> [t |-> "any", cls |-> ""]]],
   pi |-> [disc |-> 1, default |-> [t |-> "value", cls |-> "any"], cases |-> [a |-> [t |-> "E", cls |-> "E"]]]]

Bump(esz) == [mode |-> "bump", esz |-> esz, ismap |-> FALSE, any |-> FALSE]
Classes ==
  ("int" :> Bump(1)) @@ ("ints" :> Bump(1)) @@ ("any" :> [Bump(1) EXCEPT !.mode = "recbatch", !.any = TRUE]) @@
  ("maps" :> [Bump(1) EXCEPT !.ismap = TRUE]) @@ ("in" :> Bump(3)) @@ ("E" :> Bump(2)) @@
  ("tree" :> [Bump(2) EXCEPT !.mode = "recbatch"]) @@
  ("anybox" :> [Bump(1) EXCEPT !.mode = "recbump", !.any = TRUE])
AnyBoxes == [str |-> "anybox", float |-> "anybox", slice |-> "anybox"]
BadTexts == {<<"true">>, <<"z">>}

-----------------------------------------------------------------------------
RECURSIVE Commas(_)
Commas(ss) == IF ss = <<>> THEN <<>> ELSE IF Len(ss) = 1 THEN ss[1] ELSE ss[1] \o <<",">> \o Commas(Tail(ss))
Obj(ms) == <<"{">> \o Commas(ms) \o <<"}">>
Arr(es) == <<"[">> \o Commas(es) \o <<"]">>
M(k, v) == <<k, ":">> \o v
UpTo(S, n) == UNION {[1..k -> S] : k \in 0..n}
Objs(S, n) == {Obj(ms) : ms \in UpTo(S, n)}
Arrs(S, n) == {Arr(es) : es \in UpTo(S, n)}
Cuts(d) == {SubSeq(d, 1, k) : k \in 0..Len(d) - 1}
Swaps(d) == {[d EXCEPT ![i] = x] : i \in 1..Len(d), x \in {",", "]", "}", "1", "1x", "nul", "!", "open", "\\?", "^"}}
Inserts(d) == {InsertAt(d, i, x) : i \in 1..Len(d) + 1, x \in {",", "1", "["}}
Faults(D) == UNION {Cuts(d) \cup Swaps(d) \cup Inserts(d) : d \in D}

FlatMembers == {M("a", <<"1">>), M("a", <<"1.5">>), M("a", <<"a">>), M("\\a", <<"2">>), M("b", <<"b">>), M("b", <<"''">>),
                M("b", <<"1">>), M("c", <<"1">>), M("c", <<"null">>), M("c", <<"a">>), M("d", <<"1e9">>), M("d", <<"1.5">>),
                M("q", <<"'1">>), M("q", <<"1">>), M("q", <<"'null">>), M("q", <<"'null_">>), M("q", <<"\\null">>), M("q", <<"a">>),
                M("k", <<"1.5">>), M("k", <<"'1">>), M("k", <<"a">>), M("r", <<"1">>), M("t", <<"null">>),
                M("z", <<"1">>), M("v", <<"[", "1", "]">>)}
FlatSeeds == {Obj(<<M("b", <<"b">>), M("v", <<"[", "1", "]">>), M("a", <<"1">>)>>), Obj(<<M("t", <<"a">>), M("c", <<"2">>), M("r", <<"1">>)>>)}
Es == {Obj(<<>>), Obj(<<M("a", <<"1">>)>>), Obj(<<M("b", <<"2">>)>>), Obj(<<M("a", <<"a">>), M("b", <<"a">>)>>), Obj(<<M("b", <<"true">>)>>)}
ListSeeds == {Arr(<<Obj(<<M("b", <<"2">>)>>), Obj(<<M("a", <<"1">>)>>)>>), Arr(<<Obj(<<M("b", <<"1">>)>>), Obj(<<M("b", <<"2">>)>>), Obj(<<M("b", <<"a">>)>>), Obj(<<M("a", <<"2">>)>>), Obj(<<>>)>>)}
Ints == Arrs({<<"1">>, <<"2">>}, 2) \cup {Arr(<<<<"1">>, <<"2">>, <<"1">>, <<"2">>, <<"1">>>>), Arr(<<<<"a">>>>), Arr(<<<<"1">>, <<"null">>>>)}
NestedSeeds == {Arr(<<Arr(<<<<"1">>>>), Arr(<<<<"1">>, <<"2">>, <<"1">>>>)>>)}
Leaves == {Obj(<<>>), Obj(<<M("a", <<"1">>)>>)}
Trees == {Obj(<<M("k", Arr(es))>>) : es \in UpTo(Leaves, 3)}
TreeSeeds == {Obj(<<M("k", Arr(<<Obj(<<M("a", <<"1">>), M("k", Arr(<<Obj(<<M("a", <<"2">>)>>), Obj(<<>>)>>))>>), Obj(<<M("a", <<"1">>)>>), Obj(<<>>)>>)), M("a", <<"2">>)>>)}
DictMembers == {M("a", Obj(<<M("a", <<"[", "1", "]">>)>>)), M("a", Obj(<<M("a", <<"[", "]">>), M("b", <<"[", "2", "]">>), M("\\a", <<"null">>)>>)),
                M("a", Obj(<<M("a", <<"[", "1", "]">>), M("b", <<"[", "a", "]">>)>>)), M("a", <<"null">>), M("a", Obj(<<>>)),
                M("b", Obj(<<M("'1", Obj(<<M("b", <<"2">>)>>)), M("'1", Obj(<<M("a", <<"1">>)>>))>>)), M("b", Obj(<<M("a", Obj(<<>>))>>)),
                M("b", Obj(<<M("'1", Obj(<<M("b", <<"true">>)>>))>>))}
DictSeeds == {Obj(<<M("a", Obj(<<M("a", <<"[", "1", "]">>), M("b", <<"[", "2", "]">>), M("c", <<"[", "1", "]">>)>>))>>),
              Obj(<<M("b", Obj(<<M("'1", Obj(<<M("b", <<"2">>)>>))>>))>>)}
Anys == {<<"1">>, <<"1e9">>, <<"a">>, <<"true">>, <<"null">>, <<"[", "]">>, <<"{", "}">>, <<"[", "1", "]">>}
AnySeeds == {Arr(<<Obj(<<M("a", <<"1">>), M("b", <<"[", "a", "]">>)>>), <<"1">>, Arr(<<<<"2">>, <<"b">>, <<"1">>>>)>>)}
ValMembers == {M("v", <<"1">>), M("v", <<"null">>), M("v", <<"[", "1", "]">>), M("b", <<"1">>), M("b", <<"true">>), M("b", <<"[", "2", "]">>),
               M("t", <<"a">>), M("t", <<"null">>), M("t", <<"1">>), M("t", <<"z">>), M("r", <<"[", "1", "]">>), M("r", <<"[", "]">>),
               M("r", <<"[", "1", ",", "2", ",", "a", "]">>), M("r", <<"[", "a", "]">>), M("r", <<"1">>)}
ValSeeds == {Obj(<<M("v", <<"[", "1", "]">>), M("b", <<"[", "2", "]">>), M("r", <<"[", "1", ",", "2", ",", "1", "]">>)>>)}
Bare(k) == CASE k = "\\a" -> "a" [] k = "\\v" -> "v" [] k = "\\z" -> "z" [] OTHER -> k
Distinct(ms) == \A i, j \in 1..Len(ms) : i # j => Bare(ms[i][1]) # Bare(ms[j][1])
PolyObjs(S, n) == {Obj(ms) : ms \in {x \in UpTo(S, n) : Distinct(x)}}
VarMembers == {M("t", <<"a">>), M("t", <<"b">>), M("t", <<"c">>), M("t", <<"z">>), M("t", <<"1">>), M("v", Obj(<<M("a", <<"1">>)>>)), M("\\v", Obj(<<M("a", <<"[", "2", "]">>)>>)),
               M("v", <<"null">>), M("\\a", <<"2">>), M("z", <<"1">>)}
KindMembers == {M("k", <<"1">>), M("k", <<"a">>), M("k", <<"[", "1", "]">>), M("k", Obj(<<M("a", <<"1">>)>>)), M("k", <<"null">>),
                M("\\z", <<"1">>), M("b", <<"[", "2", "]">>), M("r", <<"2">>)}
InlMembers == {M("t", <<"a">>), M("t", <<"b">>), M("t", <<"1">>), M("a", <<"1">>), M("b", <<"2">>), M("\\z", <<"1">>), M("q", <<"[", "1", "]">>), M("v", <<"2">>)}
InlSeeds == {Obj(<<M("b", <<"2">>), M("\\z", <<"1">>), M("t", <<"a">>)>>)}
Items == {Obj(<<M("a", <<"1">>), M("c", <<"a">>)>>), Obj(<<M("b", <<"2">>)>>), Obj(<<M("b", <<"true">>)>>), Obj(<<M("a", <<"a">>)>>), <<"1">>}
FeedDocs == {Obj(<<M("a", <<"b">>), M("v", Arr(es))>>) : es \in UpTo(Items, 3)}
FeedSeeds == {Obj(<<M("v", Arr(<<Obj(<<M("c", <<"a">>)>>), Obj(<<M("b", <<"2">>), M("c", <<"b">>)>>), Obj(<<M("c", <<"c">>)>>), Obj(<<M("c", <<"d">>)>>), Obj(<<M("a", <<"1">>)>>)>>)), M("a", <<"z">>)>>)}

LaterDocs ==
  [Flat |-> FlatSeeds, List |-> ListSeeds, Nested |-> NestedSeeds \cup {Arr(<<Arr(<<<<"2">>, <<"1">>, <<"2">>, <<"2">>, <<"1">>>>), Arr(<<>>)>>)},
   Tree |-> TreeSeeds \cup {Obj(<<M("k", Arr(<<Obj(<<M("a", <<"2">>)>>)>>))>>)},
   Dict |-> DictSeeds, any |-> AnySeeds \cup {Arr(<<<<"2">>>>)}, Vals |-> ValSeeds, Var |-> {Obj(<<M("v", Obj(<<M("a", <<"1">>)>>)), M("t", <<"a">>)>>), Obj(<<M("v", Obj(<<M("a", <<"[", "1", "]">>)>>))>>)},
   Kind |-> {Obj(<<M("k", <<"[", "2", "]">>), M("\\z", <<"1">>), M("\\a", <<"2">>)>>)}, Inl |-> InlSeeds, Feed |-> FeedSeeds]
BuiltDocs ==
  [Flat |-> Objs(FlatMembers, 2) \cup {<<"1">>, <<"null">>, <<"[", "]">>}, List |-> Arrs(Es, 3) \cup {<<"null">>, <<"1">>}, Nested |-> Arrs(Ints, 2),
   Tree |-> Trees, Dict |-> Objs(DictMembers, 2), any |-> Anys \cup Arrs(Anys, 2) \cup Objs({M(k, v) : k \in {"a", "b"}, v \in Anys}, 2),
   Vals |-> Objs(ValMembers, 2), Var |-> PolyObjs(VarMembers, 3), Kind |-> PolyObjs(KindMembers, 3), Inl |-> PolyObjs(InlMembers, 3),
   Feed |-> FeedDocs]
FirstDocs == [r \in DOMAIN BuiltDocs |-> BuiltDocs[r] \cup LaterDocs[r] \cup Faults(LaterDocs[r])]
ProbeDocs == [r \in DOMAIN LaterDocs |-> {CHOOSE d \in LaterDocs[r] : TRUE}]

NoOptions == [strict |-> FALSE, lenient |-> FALSE, disallow |-> FALSE, usenum |-> FALSE, tape |-> FALSE]
OptionSets == {NoOptions, [NoOptions EXCEPT !.strict = TRUE, !.disallow = TRUE], [NoOptions EXCEPT !.lenient = TRUE, !.usenum = TRUE], [NoOptions EXCEPT !.tape = TRUE]}

-----------------------------------------------------------------------------
(* The constants' values, each computed once.                              *)
MCLex == LET table == Tokens IN table
MCTyp == LET table == Types IN table
MCPoly == LET table == PolyTables IN table
MCTmpl == LET table == Classes IN table
MCLater == LET docs == LaterDocs IN docs
MCAllDocs == LET docs == FirstDocs IN docs
MCProbe == LET docs == ProbeDocs IN docs
MCOpts == OptionSets
MCPlain == NoOptions
MCAnyCls == AnyBoxes
MCHookFails == BadTexts
=============================================================================
