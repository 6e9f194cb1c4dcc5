------------------------------ MODULE MCGoDoc -------------------------------
(***************************************************************************)
(* GoDoc on small texts: every text of up to two symbols of the whole      *)
(* alphabet, longer ones of the brackets, and each seed document with one  *)
(* symbol replaced, cut off or added at its end.                           *)
(***************************************************************************)
EXTENDS GoDoc

Symbols == {"{", "}", "[", "]", ":", ",", Quote, Slash, " ", Ctl, Lead, Cont,
            "0", "1", "8", "-", ".", "e", "n", "u"}
Short == UNION {[1..k -> Symbols] : k \in 0..2}
Brackets == UNION {[1..k -> {"[", "]", ",", "1"}] : k \in 3..5}
Strings == UNION {[1..k -> {Quote, Slash, Ctl, "n"}] : k \in 3..5}
Numbers == UNION {[1..k -> {"-", "0", "1", "8", ".", "e"}] : k \in 3..3}

Seeds == {
  <<"{", Quote, "n", Quote, ":", "1", "}">>,
  <<"{", Quote, "n", Quote, ":", "8", ",", Quote, "n", Quote, ":", "-", "8", "}">>,
  <<"[", "[", "1", "]", ",", "[", "]", "]">>,
  <<"[", "[", "[", "1", "]", "]", "]">>,
  <<"[", "1", "]", " ", ",", "1">>,
  <<"{", "}", " ", "1">>,
  <<Quote, Slash, "u", "0", "0", "1", "e", Quote>>,
  <<Quote, Slash, "u", "d", "8", "0", "0", Slash, "u", "d", "c", "0", "0", Quote>>,
  <<Quote, Slash, "u", "d", "c", "0", "0", "1", Quote>>,
  <<"[", Quote, Slash, Quote, Quote, ",", "1", "0", "]">>,
  <<"[", Quote, Lead, Cont, Quote, ",", "-", "1", "8", "]">>,
  <<"n", "u", "l", "l">>, <<"t", "r", "u", "e">>,
  <<"1", ".", "0", "e", "-", "1">>, <<"0", ".", "1", "e", "1">>, <<"8", "e", "1">>, <<"1", "8", "1">>,
  <<" ", "[", "]", " ">> }
Replaced(t) == {[t EXCEPT ![k] = c] : k \in 1..Len(t), c \in Symbols}
Cuts(t) == {SubSeq(t, 1, k) : k \in 1..Len(t)}
MCTexts == Short \cup Brackets \cup Strings \cup Numbers
             \cup UNION {{t} \cup Replaced(t) \cup Cuts(t) : t \in Seeds}

MCLater == { <<"[", "1", ",", "1", ",", "1", "]">>, <<"[", Quote, "n", Quote, ",", "]">>,
             <<Quote, "n", "n", "n", "n", "n", "n", "n", "n", Quote>> }
=============================================================================
