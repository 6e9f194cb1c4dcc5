----------------------------- MODULE MCObjPool -----------------------------
(***************************************************************************)
(* Instances of ObjPool for TLC.                                           *)
(***************************************************************************)
EXTENDS ObjPool, TLC

(* Every key shares the one group.                                         *)
OneGroup == [k \in Keys |-> 0]

CONSTANTS k1, k2, o1, o2, o3

TwoKeys == {k1, k2}
Objects == {o1, o2, o3}

(* Two objects of one type and one of another.                             *)
KeyOfObjects == [o \in Objs |-> IF o = o3 THEN k2 ELSE k1]

Symm == Permutations(Procs) \cup Permutations(EntryIds)
          \cup Permutations({o \in Objs : KeyOf[o] = k1})
=============================================================================
