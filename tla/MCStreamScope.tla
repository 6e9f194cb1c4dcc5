---------------------------- MODULE MCStreamScope ---------------------------
(***************************************************************************)
(* Instances of StreamScope for TLC.                                       *)
(***************************************************************************)
EXTENDS StreamScope

Hooked(bodies, depth, batch, Moves(_), hooks) ==
  {[body |-> b, depth |-> depth, batch |-> batch, before |-> h[1], after |-> h[2],
    moves |-> [l \in 1 .. depth |-> Moves(l)]] : b \in bodies, h \in hooks}
Cases(bodies, depth, batch, Moves(_)) == Hooked(bodies, depth, batch, Moves, {<<{}, {}>>})

Polite == AllMoves \ {"continue", "fail"}
Steady == Polite \ {"break", "skip"}

(* Two levels: arrays below, at and past the batch, and a stream after.    *)
Arrays == {<<>>, <<0>>, <<0, 0>>, <<0, 0, 0>>}
TwoLevels == {<<<<a, b>>, <<<<0>>>>>> : a, b \in Arrays}
             \cup {<<<<a>>, <<>>, <<<<>>>>>> : a \in Arrays}

(* Elements that fail to bind, and hooks that fail, in either batch.       *)
Faulty == {<<0>>, <<1>>, <<2>>, <<0, 1>>, <<0, 0, 1>>, <<0, 0, 2>>}
Faults == {<<<<a, b>>>> : a, b \in Faulty}

(* One field that fails, before or after a stream, of a document's own and *)
(* of an element that holds the stream.                                    *)
Around == {<<{p}, {}>> : p \in {<<1>>, <<1, 1>>, <<1, 2>>}}
          \cup {<<{}, {p}>> : p \in {<<1>>, <<1, 1>>, <<1, 2>>}}
Held == {<<<<a, b>>>> : a \in {<<>>, <<0>>, <<0, 0, 0>>}, b \in {<<>>, <<0>>}}
        \cup {<<<<>>>>}
HeldTwice == {<<<<<<<<>>, <<0>>>>, <<<<0>>>>>>>>}
AroundInner == {<<{<<1, 1, 1>>}, {}>>, <<{}, {<<1, 1, 1>>}>>, <<{}, {<<1, 1, 2>>}>>}

(* Three levels, the handlers in the middle leaving only by a signal.      *)
Middles == {<<>>, <<<<>>>>, <<<<0, 0>>>>, <<<<0>>, <<0, 0>>>>}
ThreeLevels == {<<<<m, n>>>> : m, n \in Middles}

All == Cases(TwoLevels, 2, 2, LAMBDA l : IF l = 2 THEN Polite \cup {"continue"} ELSE Polite)
       \cup Cases(Faults, 2, 2, LAMBDA l : AllMoves \ {"continue"})
       \cup Hooked(Held, 2, 2, LAMBDA l : AllMoves \ {"continue"}, Around)
       \cup Hooked(HeldTwice, 3, 1, LAMBDA l : IF l = 2 THEN Steady ELSE Polite, AroundInner)
       \cup Cases(ThreeLevels, 3, 1, LAMBDA l : IF l = 2 THEN Steady ELSE Polite)
=============================================================================
