----------------------------- MODULE MCRtCache -----------------------------
(***************************************************************************)
(* Instances of RtCache for TLC.                                           *)
(***************************************************************************)
EXTENDS RtCache, TLC

(* Every key hashes to the one group: the case the associativity is for.   *)
OneGroup == [k \in Keys |-> CHOOSE g \in Groups : TRUE]

(* Every key gives up the last way of a full group.                        *)
EvictLast == [k \in Keys |-> Ways - 1]

Symm == Permutations(Procs)

=============================================================================
