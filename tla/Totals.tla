------------------------------- MODULE Totals -------------------------------
(***************************************************************************)
(* The sum of a function from a finite set to the natural numbers, as the  *)
(* number of units it stands for: x contributes the units <<x, 1>> to      *)
(* <<x, f[x]>>.  A total defined by counting can be reasoned about with    *)
(* the theorems on cardinality.                                            *)
(***************************************************************************)
EXTENDS Integers, FiniteSets

Units(f) == UNION {{x} \X (1 .. f[x]) : x \in DOMAIN f}
Total(f) == Cardinality(Units(f))
=============================================================================
