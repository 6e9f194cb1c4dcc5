--------------------------- MODULE MCStructFields ---------------------------
(* Hosts of up to three members over two promoted structs: every mix of    *)
(* embedded, pointer-embedded, tagged, renamed, dropped and reserved       *)
(* members that can meet on one key.                                       *)
EXTENDS StructFields

NoTag == [dash |-> FALSE, name |-> "", opts |-> <<>>]
As(n) == [NoTag EXCEPT !.name = n]
Opt(w) == [NoTag EXCEPT !.opts = w]
Dash == [NoTag EXCEPT !.dash = TRUE]

D(go, kind, to, tag) == [go |-> go, anon |-> FALSE, exp |-> TRUE, tag |-> tag,
                         vj |-> FALSE, kind |-> kind, to |-> to, off |-> 0]
Anon(d) == [d EXCEPT !.anon = TRUE]

Embedded == {Anon(D("S", "struct", "S", NoTag)), Anon(D("P", "ptrstruct", "S", NoTag)),
             Anon(D("T", "struct", "T", NoTag)), Anon(D("Q", "ptrstruct", "T", NoTag))}
HostOnly == {D("X", "int", "", NoTag), D("V", "value", "", Opt(<<"embed">>)),
             D("E", "struct", "S", Opt(<<"embed">>)),
             Anon(D("N", "struct", "S", As("X"))),
             [D("X", "int", "", Dash) EXCEPT !.vj = TRUE],
             D("W", "int", "", Opt(<<"embed">>)),
             D("E", "struct", "S", Opt(<<"embed", "string">>)),
             D("E", "struct", "S", [Opt(<<"embed">>) EXCEPT !.name = "X"])}
Leaves == {D("X", "int", "", Opt(<<"string">>)), D("Y", "ptrint", "", As("X")),
           [D("x", "int", "", NoTag) EXCEPT !.exp = FALSE],
           D("V", "value", "", Opt(<<"embed">>)),
           D("Z", "struct", "S", Opt(<<"Embed">>)),
           D("Z", "iface", "", [Opt(<<"embed">>) EXCEPT !.name = "Z"])}

(* A struct's declarations laid out at consecutive offsets.                *)
Laid(ds) == [i \in DOMAIN ds |-> [ds[i] EXCEPT !.off = 8 * (i - 1)]]

Untagged == D("X", "int", "", NoTag)
Tagged   == D("Y", "ptrint", "", As("X"))

MCHosts == {<<a, b>> : a \in Embedded, b \in Embedded \union HostOnly}
           \union {<<a, b, Tagged>> : a \in Embedded, b \in Embedded \union {Untagged}}
MCInner == {<<a, b>> : a \in Leaves, b \in {Tagged, D("U", "int", "", NoTag)}}
           \union {<<Anon(D("Q", "ptrstruct", "T", NoTag)), Tagged>>}
MCDeep  == {<<Anon(D("S", "struct", "S", NoTag)), b>> : b \in {Untagged, Tagged}}
           \union {<<a>> : a \in Leaves}

MCPrograms == {[H |-> Laid(h), S |-> Laid(i), T |-> Laid(d)] :
                 h \in MCHosts, i \in MCInner, d \in MCDeep}
=============================================================================
