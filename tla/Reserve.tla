------------------------------ MODULE Reserve ------------------------------
(***************************************************************************)
(* What package rtcache promises of ObjPool, the reserve of warm objects   *)
(* behind sync.Pool: every operation moves whole objects, in one step,     *)
(* between the reserve and the goroutine that calls it.  Offer may decline,*)
(* and then the caller keeps the object.  Disabling the reserve releases   *)
(* what is parked.                                                         *)
(***************************************************************************)
CONSTANTS
  Procs,     \* goroutines
  Objs,      \* poolable objects
  Nil

VARIABLES
  parked,    \* the objects the reserve owns
  held       \* held[p]: the object goroutine p owns, or Nil

vars == <<parked, held>>

Owned == parked \cup {held[p] : p \in Procs}

(* New of the sync.Pool builds a cold object when the reserve has none.    *)
Build(p, o) ==
  /\ held[p] = Nil
  /\ o \notin Owned
  /\ held' = [held EXCEPT ![p] = o]
  /\ UNCHANGED parked

Take(p, o) ==
  /\ held[p] = Nil
  /\ o \in parked
  /\ parked' = parked \ {o}
  /\ held' = [held EXCEPT ![p] = o]

Offer(p) ==
  /\ held[p] # Nil
  /\ parked' = parked \cup {held[p]}
  /\ held' = [held EXCEPT ![p] = Nil]

(* The caller hands a declined object to its sync.Pool, which may drop it. *)
Release(p) ==
  /\ held[p] # Nil
  /\ held' = [held EXCEPT ![p] = Nil]
  /\ UNCHANGED parked

(* SetEnabled(false) makes a parked object collectable.                    *)
Evict(o) ==
  /\ o \in parked
  /\ parked' = parked \ {o}
  /\ UNCHANGED held

Init == parked = {} /\ held = [p \in Procs |-> Nil]

Next ==
  \/ \E p \in Procs, o \in Objs : Build(p, o) \/ Take(p, o)
  \/ \E p \in Procs : Offer(p) \/ Release(p)
  \/ \E o \in Objs : Evict(o)

Spec == Init /\ [][Next]_vars
=============================================================================
