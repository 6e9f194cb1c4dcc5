---------------------------- MODULE MCTypeBuild ----------------------------
(***************************************************************************)
(* R is `struct { Next *R `json:",string"`; A A }`, S is *R, and A is a    *)
(* struct with a pointer-receiver MarshalJSON, so A, R and T               *)
(* (`struct { R R }`) need addressable storage.  The cycle of R and S is   *)
(* entered at the struct.  Q is `struct { Prev *Q `json:",string"` }` and  *)
(* P is *Q: this cycle is entered at the pointer.                          *)
(***************************************************************************)
EXTENDS TypeBuild

MCChild  == "R" :> <<"S", "A">> @@ "S" :> <<"R">> @@ "A" :> <<>>
            @@ "T" :> <<"R">> @@ "Q" :> <<"P">> @@ "P" :> <<"Q">>
MCInline == "R" :> {"A"} @@ "T" :> {"R"} @@ [t \in {"S", "A", "Q", "P"} |-> {}]
MCHook   == "A" :> "addr" @@ [t \in {"R", "S", "T", "Q", "P"} |-> "none"]
=============================================================================
