---------------------------- MODULE MCParserPool ----------------------------
(***************************************************************************)
(* Instances of ParserPool for TLC.                                        *)
(***************************************************************************)
EXTENDS ParserPool, TLC

Symm == Permutations(Procs) \cup Permutations(Parsers)
=============================================================================
