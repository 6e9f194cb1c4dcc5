----------------------------- MODULE MCTypeTree -----------------------------
(* Two mutually recursive structs over every pair of a set of shapes, and  *)
(* hosts of polymorphic, reserving, embedded and streamed members.         *)
EXTENDS TypeTree

T(kind) == [kind |-> kind, elem |-> "", key |-> "", size |-> 1, fields |-> <<>>]
Of(kind, e) == [T(kind) EXCEPT !.elem = e]
MapOf(e) == [Of("map", e) EXCEPT !.key = "str"]
F(t) == [t |-> t, via |-> <<>>, res |-> FALSE, quoted |-> FALSE, poly |-> "", disc |-> 0, cases |-> <<>>]
S(fs) == [T("struct") EXCEPT !.fields = fs, !.size = Len(fs)]

Common ==
  [int |-> T("int"), str |-> T("str"), num |-> T("num"), byte |-> T("byte"), hook |-> T("hook"),
   text |-> T("text"), raw |-> T("raw"), val |-> T("val"), any |-> T("any"), iface |-> T("iface")]
  @@ ("[]any" :> Of("slice", "any")) @@ ("m[any]" :> MapOf("any"))
  @@ ("*A" :> Of("ptr", "A")) @@ ("[]A" :> Of("slice", "A")) @@ ("m[A]" :> MapOf("A"))
  @@ ("*B" :> Of("ptr", "B")) @@ ("[]B" :> Of("slice", "B")) @@ ("m[B]" :> MapOf("B"))
  @@ ("[2]B" :> Of("array", "B")) @@ ("s[B]" :> Of("stream", "B")) @@ ("s[A]" :> Of("stream", "A"))
  @@ ("*m[A]" :> Of("ptr", "m[A]")) @@ ("*m[B]" :> Of("ptr", "m[B]")) @@ ("loop" :> Of("ptr", "loop")) @@ ("[]byte" :> Of("slice", "byte"))
  @@ ("*iface" :> Of("ptr", "iface")) @@ ("m[m[B]]" :> MapOf("m[B]")) @@ ("s[*B]" :> Of("stream", "*B"))
  @@ ("C" :> S(<<F("int")>>)) @@ ("hookA" :> Of("hook", "*A"))

Graph(a, b) == Common @@ ("A" :> S(a)) @@ ("B" :> S(b))

ShapesA == {"int", "hookA", "*A", "[]A", "m[A]", "m[B]", "[]B", "any", "*m[A]", "*m[B]"}
ShapesB == {"int", "val", "hook", "*A", "[]A", "A", "m[A]", "*m[A]"}
Recursive == {Graph(<<F(x), F(y)>>, <<F(z)>>) : x, y \in ShapesA, z \in ShapesB}

Poly(t, k, cs) == [F(t) EXCEPT !.poly = k, !.disc = 1, !.cases = cs]
Reserve == [F("val") EXCEPT !.res = TRUE]
Via(t) == [F(t) EXCEPT !.via = <<"B">>]

Tails == {<<>>, <<F("[2]B")>>, <<F("*B"), F("B")>>, <<F("m[B]")>>, <<F("s[B]")>>, <<Reserve>>,
          <<F("*iface")>>, <<F("m[m[B]]")>>,
          <<F("[]byte")>>, <<F("loop")>>, <<F("s[*B]")>>, <<F("s[A]")>>, <<F("num")>>, <<F("*A")>>}
Firsts == {<<F("str"), Poly("any", "variant", <<"B", "int">>)>>,
           <<F("str"), Poly("any", "inline", <<"B">>)>>,
           <<F("str"), Poly("any", "inline", <<"A">>)>>,
           <<F("str"), Poly("any", "inline", <<"B">>), Poly("any", "variant", <<"hook">>)>>,
           <<F("str"), Poly("iface", "kindof", <<"B">>)>>,
           <<F("str"), Poly("iface", "kindof", <<"any">>)>>,
           <<F("str"), Poly("iface", "kindof", <<"A", "m[A]">>)>>,
           <<F("str"), Poly("any", "variant", <<"*A", "*m[A]">>)>>,
           <<F("int"), Poly("any", "variant", <<"B">>)>>,
           <<F("str"), Reserve, Poly("any", "inline", <<"B">>)>>,
           <<F("str")>>}
Inners == {<<F("int")>>, <<F("str"), Poly("any", "inline", <<"C">>)>>,
           <<F("str"), Reserve, Poly("any", "inline", <<"C">>)>>, <<F("text")>>, <<F("s[B]")>>}
(* A embeds *B and has B's field promoted.                                 *)
Promoted == {"int", "val", "*A", "[]A", "m[A]"}
Embeds == {Graph(h \o <<Via(z)>> \o t, <<F(z)>>) :
             h \in {<<>>, <<Reserve>>}, z \in Promoted, t \in {<<>>, <<F("*B")>>}}
Hosts == {Graph(a \o t, b) : a \in Firsts, t \in Tails, b \in Inners}

MCPrograms == Recursive \union Embeds \union Hosts
=============================================================================
