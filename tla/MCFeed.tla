------------------------------- MODULE MCFeed -------------------------------
(***************************************************************************)
(* Feed over documents chosen so that every token, every error and every   *)
(* kind of value meets every window edge.                                  *)
(***************************************************************************)
EXTENDS FeedRef

MCTypes == {"int", "ints", "rec"}
MCKindOf == [int |-> "num", ints |-> "slice", rec |-> "struct"]
MCChildOf == [int |-> "int", ints |-> "int", rec |-> "ints"]

(* Complete values and the space around them.                              *)
Values == {
  <<>>, <<"n", "s">>,
  <<"1", "1", "n", "1">>,
  <<"s", "[", "1", "1", "s", ",", "1", "]", "1">>,
  <<"[", "]", "{", "}", "[", "1", "]">>,
  <<"{", "q", "a", "q", ":", "[", "1", "1", "]", "}", "n", "1">>,
  <<"{", "q", "a", "a", "q", ":", "{", "q", "q", ":", "1", "}", "}">>,
  <<"{", "q", "a", "q", ":", "1", ",", "q", "a", "q", ":", "[", "]", "}", "1">>,
  <<"q", "s", "[", "a", "q", "n", "[", "[", "1", "]", ",", "{", "}", "]", "s">> }

(* Values outside the grammar, and values the input ends in.               *)
Malformed == {
  <<"[", "1", "s", "1", "s", "s", "]">>,
  <<"1", "a", "n", "1">>,
  <<"a", "n", "[", "1", ",", "]">>,
  <<"{", "q", "a", "q", "s", "1", "}", "n", "1">>,
  <<"{", "q", "a", "q", ":", "[", "1", "n", "1", "]", "}", "n", "n", "1">>,
  <<"[", "n", "1", "n", "]", "n", "1">>,
  <<"[", "1", ",", "q", "q", "]", "s", "1", "n", "1">>,
  <<"{", "q", "a", "q", ":", "{", "q", "q", "s", "n", "}", "}">>,
  <<"{", "q", "a", "q">>,
  <<"[", "[", "1", "n", ",", "n", "1">> }

(* Strings the input ends in.                                              *)
Unclosed == {
  <<"1", "n", "q", "1">>,
  <<"[", "1", ",", "q", "n", "]">>,
  <<"{", "q", "a", "n", "1">> }

(* A value that fails with an unclosed string two lines on.                *)
TruncatedLine == {<<"[", "n", "1", "n", "q", "a">>}

(* Every document of up to n of these characters.                          *)
UpTo(n) == UNION {[1 .. k -> {"[", "]", ",", "1", "n"}] : k \in 0 .. n}
Short == UpTo(4)

All == Short \cup Values \cup Malformed \cup Unclosed \cup TruncatedLine

DecodeErrors == {"syntax", "eof", "type"}

Plain(docs) == {[doc |-> d, accepts |-> Nil] : d \in docs}
Recovering(docs) == {[doc |-> d, accepts |-> DecodeErrors] : d \in docs}

Both == Plain(All) \cup Recovering(UpTo(3) \cup Malformed \cup Unclosed \cup TruncatedLine)
=============================================================================
