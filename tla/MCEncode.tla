------------------------------ MODULE MCEncode ------------------------------
(***************************************************************************)
(* Types of every kind the compiler tells apart, and values of them at     *)
(* their edges: zero, empty but present, nil at every hop, and deeper than *)
(* the stack.                                                              *)
(***************************************************************************)
EXTENDS Encode

Ty(kind) == [kind |-> kind, hook |-> "", elem |-> "", len |-> 0, size |-> 1,
             fields |-> <<>>, reject |-> FALSE, iter |-> FALSE]
Of(kind, elem) == [Ty(kind) EXCEPT !.elem = elem]
Hook(h) == [Ty("String") EXCEPT !.hook = h]
St(size, fields) == [Ty("Struct") EXCEPT !.size = size, !.fields = fields]
F(key, typ, off) == [key |-> key, typ |-> typ, off |-> off, path |-> <<>>, oe |-> FALSE, oz |-> "",
                     quoted |-> FALSE, role |-> "", far |-> FALSE]
OE(f) == [f EXCEPT !.oe = TRUE]
OZ(f) == [f EXCEPT !.oz = "zero"]
Quo(f) == [f EXCEPT !.quoted = TRUE]
Via(f, slot) == [f EXCEPT !.path = <<slot>>]

Basics ==
    [bool |-> Ty("Bool"), int |-> Ty("Int"), int8 |-> Ty("Int8"), float |-> Ty("Float"),
     str |-> Ty("String"), num |-> Ty("Number"), raw |-> Ty("RawMessage"), bytes |-> Ty("Bytes"),
     any |-> Ty("Any"), value |-> Ty("Value"), chan |-> Ty("Chan"),
     json |-> Hook("json"), text |-> Hook("text"), time |-> Hook("time"),
     pint |-> Of("Pointer", "int"), ppint |-> Of("Pointer", "pint"), pjson |-> Of("Pointer", "json"),
     sint |-> Of("Slice", "int"), sfloat |-> Of("Slice", "float"), sbool |-> Of("Slice", "bool"),
     ssbool |-> Of("Slice", "sbool"), spint |-> Of("Slice", "pint"), s2pint |-> Of("Slice", "spint"),
     s3pint |-> Of("Slice", "s2pint"), s4pint |-> Of("Slice", "s3pint"), sany |-> Of("Slice", "any"),
     a2int |-> [Of("Array", "int") EXCEPT !.len = 2, !.size = 2],
     a2bool |-> [Of("Array", "bool") EXCEPT !.len = 2, !.size = 2],
     a0bool |-> [Of("Array", "bool") EXCEPT !.size = 0],
     a4bool |-> [Of("Array", "bool") EXCEPT !.len = 4, !.size = 4],
     mint |-> [Of("Map", "int") EXCEPT !.iter = TRUE],
     manyv |-> Of("Map", "any"), msin |-> [Of("Map", "Inner") EXCEPT !.iter = TRUE]]

Structs ==
    [Inner |-> St(2, <<F("a", "int", 0), F("b", "pint", 1)>>),
     pInner |-> Of("Pointer", "Inner"), sInner |-> Of("Slice", "Inner"),
     a2Inner |-> [Of("Array", "Inner") EXCEPT !.len = 2, !.size = 4],
     Flat |-> St(6, <<OE(F("i", "int", 0)), OE(F("s", "str", 1)), OE(Quo(F("q", "int", 2))),
                      OE(Quo(F("f", "float", 3))), OE(F("n", "num", 4)), OZ(F("w", "int8", 5))>>),
     Cont |-> St(7, <<OE(F("p", "pInner", 0)), OZ(F("l", "sInner", 1)), OE(F("m", "mint", 2)),
                      OZ(F("t", "a2bool", 3)), OE(F("x", "any", 5)), F("z", "bool", 6)>>),
     Bin |-> St(5, <<OE(F("b", "bytes", 0)), OZ(F("c", "bytes", 1)), OE(F("r", "raw", 2)),
                     OZ(F("o", "raw", 3)), F("v", "value", 4)>>),
     Nest |-> St(5, <<F("h", "int", 0), OZ(F("n", "Inner", 1)), F("s", "sInner", 3), F("t", "int", 4)>>),
     Arrs |-> St(8, <<F("a", "a2int", 0), F("e", "a0bool", 2), F("i", "a2Inner", 2), F("s", "sbool", 6),
                      F("m", "msin", 7)>>),
     Node |-> St(3, <<F("v", "int", 0), OE(F("next", "pNode", 1)), OZ(F("kids", "sNode", 2))>>),
     pNode |-> Of("Pointer", "Node"), sNode |-> Of("Slice", "Node"),
     A |-> St(2, <<F("b", "pB", 0), F("i", "B", 1)>>), pA |-> Of("Pointer", "A"),
     B |-> St(1, <<OE(F("a", "pA", 0))>>), pB |-> Of("Pointer", "B"),
     Hk |-> St(4, <<OE(F("j", "json", 0)), F("t", "text", 1), OZ(F("d", "time", 2)),
                    [F("z", "str", 3) EXCEPT !.oz = "method"]>>),
     Rej |-> [St(1, <<F("a", "int", 0)>>) EXCEPT !.reject = TRUE],
     HasRej |-> St(2, <<F("a", "int", 0), F("r", "Rej", 1)>>), sRej |-> Of("Slice", "Rej"),
     HasChan |-> St(1, <<F("c", "chan", 0)>>),
     PtrHook |-> St(1, <<F("p", "pjson", 0)>>),
     QPtr |-> St(1, <<Quo(F("p", "pint", 0))>>),
     Wide |-> St(2, <<[OE(F("far", "int", 0)) EXCEPT !.far = TRUE], F("b", "bool", 1)>>),
     PE |-> St(2, <<Via(OE(F("a", "int", 0)), 0), Via(F("b", "pint", 1), 0), F("y", "int", 1)>>),
     OutPE |-> St(3, <<F("h", "int", 0), F("pe", "PE", 1)>>),
     ZeroPE |-> St(3, <<F("pe", "PE", 0), F("h", "int", 2)>>),
     Host |-> St(3, <<F("k", "int", 0), [F("", "any", 1) EXCEPT !.role = "embed"],
                      [F("", "value", 2) EXCEPT !.role = "unknown"]>>),
     Bare |-> St(1, <<[F("", "any", 0) EXCEPT !.role = "embed"]>>), sBare |-> Of("Slice", "Bare"),
     RBare |-> St(1, <<[F("", "any", 0) EXCEPT !.role = "embed"]>>),
     FarHost |-> St(2, <<F("k", "int", 0), [F("", "value", 1) EXCEPT !.role = "unknown", !.far = TRUE]>>),
     CaseE |-> St(0, <<>>), CaseO |-> St(1, <<OE(F("o", "int", 0))>>),
     CaseS |-> St(2, <<F("s", "int", 0), F("u", "sbool", 1)>>), pCaseS |-> Of("Pointer", "CaseS"),
     CaseF |-> St(1, <<F("f", "float", 0)>>),
     CaseR |-> St(2, <<F("r", "int", 0), F("self", "pCaseR", 1)>>), pCaseR |-> Of("Pointer", "CaseR"),
     Box |-> St(1, <<F("n", "any", 0)>>)]

MCT == LET names == DOMAIN Basics \cup DOMAIN Structs
       IN  [t \in names |-> IF t \in DOMAIN Basics THEN Basics[t] ELSE Structs[t]]

\* Cells and documents.
s(v) == [c |-> "s", v |-> v]
p(blk) == [c |-> "p", to |-> <<blk>>]
pnil == [c |-> "p", to |-> <<>>]
l(blk, n) == [c |-> "l", data |-> <<blk>>, n |-> n]
lnil == [c |-> "l", data |-> <<>>, n |-> 0]
m(es0) == [c |-> "m", m |-> <<es0>>]
mnil == [c |-> "m", m |-> <<>>]
i(t, blk) == [c |-> "i", t |-> t, to |-> <<blk>>]
inil == [c |-> "i", t |-> "", to |-> <<>>]
d(doc) == [c |-> "d", doc |-> <<doc>>]
dnil == [c |-> "d", doc |-> <<>>]
lit(v) == [k |-> "lit", v |-> v]
obj(e) == [k |-> "obj", e |-> e]
arr(e) == [k |-> "arr", e |-> e]
V(t, blk) == [t |-> t, blk |-> blk]

in1 == <<s("1"), p(<<s("2")>>)>>
in0 == <<s("0"), pnil>>
one3 == l(<<l(<<l(<<p(<<s("1")>>)>>, 1)>>, 1)>>, 1)
leaf == <<s("9"), pnil, lnil>>
Chain(b) == <<s("7"), p(b), lnil>>
Brood(b, n) == <<s("8"), pnil, l(b, n)>>

Plain ==
    {V("int", <<s("5")>>), V("float", <<s("NaN")>>), V("pint", <<pnil>>), V("pint", <<p(<<s("3")>>)>>),
     V("ppint", <<p(<<pnil>>)>>), V("any", <<inil>>), V("any", <<i("pint", <<pnil>>)>>),
     V("any", <<i("sint", <<l(<<s("1"), s("2")>>, 2)>>)>>), V("chan", <<s("1")>>), V("num", <<s("")>>),
     V("raw", <<s("")>>), V("bytes", <<l(<<s("Ag")>>, 1)>>), V("json", <<s("")>>), V("json", <<s("panic")>>),
     V("text", <<s("x")>>), V("value", <<dnil>>),
     V("value", <<d(arr(<<lit("1"), obj(<<>>), obj(<< <<"k", arr(<<>>)>>, <<"k2", arr(<<lit("2")>>)>> >>)>>))>>)}

SeqValues ==
    {V("sint", <<lnil>>), V("sint", <<l(<<>>, 0)>>), V("sfloat", <<l(<<s("1"), s("NaN")>>, 2)>>),
     V("ssbool", <<l(<<l(<<s("true"), s("false")>>, 2), lnil, l(<<>>, 0)>>, 3)>>),
     V("s3pint", <<one3>>), V("s4pint", <<l(<<one3>>, 1)>>),
     V("spint", <<l(<<pnil, p(<<s("1")>>), pnil>>, 3)>>),
     V("sany", <<l(<<i("Inner", in1), inil, i("pInner", <<p(in0)>>), i("sbool", <<l(<<s("true")>>, 1)>>)>>, 4)>>),
     V("any", <<i("sany", <<l(<<i("sany", <<lnil>>), i("value", <<d(lit("1"))>>), i("manyv", <<mnil>>),
                              i("sany", <<l(<<>>, 0)>>)>>, 4)>>)>>),
     V("any", <<i("manyv", <<m(<<[key |-> "a", blk |-> <<i("chan", <<s("1")>>)>>]>>)>>)>>),
     V("sInner", <<l(in1 \o in0, 2)>>), V("sRej", <<l(<<s("1")>>, 1)>>), V("sRej", <<l(<<>>, 0)>>),
     V("a2bool", <<s("true"), s("false")>>), V("a4bool", <<s("true"), s("true"), s("true"), s("true")>>),
     V("mint", <<mnil>>), V("mint", <<m(<<>>)>>), V("mint", <<m(<<[key |-> "a", blk |-> <<s("1")>>]>>)>>),
     V("msin", <<m(<<[key |-> "a", blk |-> in1], [key |-> "b", blk |-> in0]>>)>>),
     V("manyv", <<m(<<[key |-> "a", blk |-> <<i("Inner", in1)>>], [key |-> "b", blk |-> <<i("json", <<s("error")>>)>>]>>)>>)}

Fields ==
    {V("Flat", <<s("0"), s(""), s("0"), s("0"), s(""), s("0")>>),
     V("Flat", <<s("1"), s("x"), s("2"), s("3"), s("4"), s("5")>>),
     V("Flat", <<s("0"), s("x"), s("0"), s("NaN"), s(""), s("5")>>),
     V("Cont", <<pnil, lnil, mnil, s("false"), s("false"), inil, s("true")>>),
     V("Cont", <<p(in0), l(<<>>, 0), m(<<>>), s("false"), s("true"), i("CaseE", <<>>), s("false")>>),
     V("Cont", <<p(in1), l(in0 \o in1, 2), m(<<[key |-> "k", blk |-> <<s("4")>>]>>), s("true"), s("false"),
                 i("Flat", <<s("1"), s(""), s("0"), s("2"), s(""), s("0")>>), s("true")>>),
     V("Bin", <<lnil, lnil, s("nil"), s("nil"), dnil>>),
     V("Bin", <<l(<<>>, 0), l(<<s("Ag")>>, 1), s(""), s(""), d(obj(<< <<"a", lit("1")>> >>))>>),
     V("Nest", <<s("1"), s("0"), pnil, lnil, s("2")>>),
     V("Nest", <<s("1"), s("0"), p(<<s("6")>>), l(in1, 1), s("2")>>),
     V("Arrs", <<s("1"), s("2")>> \o in1 \o in0 \o <<l(<<s("true")>>, 1), mnil>>),
     V("Hk", <<s(""), s(""), s("0"), s("zero")>>), V("Hk", <<s("J"), s("T"), s("D"), s("Z")>>),
     V("Hk", <<s("J"), s("error"), s("panic"), s("Z")>>), V("Hk", <<s("panic"), s("T"), s("D"), s("Z")>>),
     V("HasRej", <<s("1"), s("1")>>), V("HasChan", <<s("1")>>),
     V("PtrHook", <<p(<<s("J")>>)>>), V("QPtr", <<pnil>>), V("QPtr", <<p(<<s("4")>>)>>),
     V("Wide", <<s("0"), s("true")>>), V("Wide", <<s("3"), s("true")>>),
     V("PE", <<pnil, s("1")>>), V("PE", <<p(<<s("0"), p(<<s("2")>>)>>), s("1")>>),
     V("OutPE", <<s("1"), p(<<s("5"), pnil>>), s("2")>>), V("ZeroPE", <<p(<<s("5"), pnil>>), s("2"), s("1")>>)}

Trees ==
    {V("Node", leaf), V("Node", Chain(leaf)), V("Node", Chain(Brood(leaf \o leaf, 2))),
     V("Node", Chain(Chain(leaf))), V("Node", Brood(Brood(leaf, 1), 1)), V("sNode", <<l(leaf \o Chain(leaf), 2)>>),
     V("A", <<pnil, pnil>>), V("A", <<p(<<p(<<pnil, pnil>>)>>), pnil>>), V("A", <<pnil, p(<<pnil, pnil>>)>>),
     V("B", <<p(<<p(<<pnil>>), pnil>>)>>), V("Box", <<i("Box", <<i("Box", <<i("Box", <<inil>>)>>)>>)>>),
     V("Box", <<i("Node", Chain(leaf))>>), V("Box", <<i("json", <<s("panic")>>)>>)}

Variants ==
    {V("Host", <<s("1"), e, u>>) :
        e \in {inil, i("CaseE", <<>>), i("CaseO", <<s("0")>>), i("CaseS", <<s("3"), lnil>>),
               i("pCaseS", <<p(<<s("3"), l(<<s("true")>>, 1)>>)>>), i("pCaseS", <<pnil>>), i("int", <<s("4")>>)},
        u \in {dnil, d(obj(<<>>)), d(obj(<< <<"x", lit("1")>>, <<"y", arr(<<lit("2")>>)>> >>)), d(arr(<<>>))}}
    \cup {V("Bare", <<inil>>), V("Bare", <<i("CaseE", <<>>)>>), V("Bare", <<i("CaseF", <<s("NaN")>>)>>),
          V("sBare", <<l(<<i("CaseS", <<s("1"), l(<<s("true")>>, 1)>>), i("CaseO", <<s("0")>>), inil>>, 3)>>),
          V("sBare", <<l(<<i("CaseF", <<s("NaN")>>)>>, 1)>>), V("RBare", <<i("CaseR", <<s("1"), p(<<s("2"), pnil>>)>>)>>),
          V("FarHost", <<s("1"), d(obj(<< <<"x", lit("1")>> >>))>>)}

Values == Plain \cup SeqValues \cup Fields \cup Trees \cup Variants
MCInputs == Values

\* What a later call encodes: recursion, loops, an inline variant, a nested
\* run and a nil.
MCLater ==
    {V("Node", Chain(leaf)), V("ssbool", <<l(<<l(<<s("true")>>, 1), lnil>>, 2)>>),
     V("Host", <<s("1"), i("CaseS", <<s("3"), lnil>>), dnil>>), V("Box", <<i("Inner", in1)>>),
     V("pint", <<pnil>>), V("Hk", <<s("panic"), s("T"), s("D"), s("Z")>>)}

\* Known differences: the array whose length wraps, the promoted fields of a
\* nested struct, the recursive case, the far spread, and the line break
\* before a pointee that marshals itself.
MCDeviant ==
    ({"a4bool", "OutPE", "RBare", "FarHost"} \X BOOLEAN) \cup {<<"PtrHook", TRUE>>}
=============================================================================
