---------------------------- MODULE MCStreamWrite ---------------------------
(***************************************************************************)
(* Instances of StreamWrite for TLC.                                       *)
(***************************************************************************)
EXTENDS StreamWrite

Full == [omit |-> FALSE, producer |-> TRUE]
Omit == [omit |-> TRUE, producer |-> TRUE]
Absent == [omit |-> TRUE, producer |-> FALSE]
Missing == [omit |-> FALSE, producer |-> FALSE]

Objects == {<<>>, <<Full, Full>>, <<Omit, Full>>, <<Absent, Omit>>, <<Full, Missing>>}
Producers == {"nil", "own", "drop", "fault", "panic", "recover", "null"}
=============================================================================
