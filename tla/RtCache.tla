------------------------------ MODULE RtCache ------------------------------
(***************************************************************************)
(* The type-descriptor cache of package rtcache: Table, a set-associative  *)
(* table of atomic words, in front of a sync.Map.                          *)
(*                                                                         *)
(* Every goroutine runs Cache.GetOrBuild for one key at a time.  Each      *)
(* atomic load, store or sync.Map call is one step, so scans of a group    *)
(* interleave with the stores of other goroutines.  A way is one atomic    *)
(* pointer to an immutable Entry, hence key and value move together.       *)
(***************************************************************************)
EXTENDS Integers

CONSTANTS
  Procs,      \* goroutines calling GetOrBuild
  Keys,       \* rtype pointers
  Groups,     \* the independently indexed groups
  Ways,       \* entries per group
  Index,      \* Index[k]: the group a key hashes to
  EvictWay,   \* EvictWay[k]: the hash-selected way a full group gives up
  Builds,     \* distinguishes the results of repeated builds of one key
  Nil         \* the nil pointer

Way == 0 .. Ways - 1
Val == [of : Keys, by : Builds]     \* a built descriptor names its key
Entry == [key : Keys, val : Val]

ASSUME WaysAssumption == Ways \in Nat \ {0}
ASSUME IndexAssumption == Index \in [Keys -> Groups]
ASSUME EvictWayAssumption == EvictWay \in [Keys -> Way]
ASSUME NilAssumption == Nil \notin Val /\ Nil \notin Entry

VARIABLES
  fast,     \* fast[g][w]: Table, the way words
  slow,     \* slow[k]: the sync.Map
  pc,       \* where each goroutine is
  key,      \* the key it looks up
  way,      \* its scan position, or the way it is about to store to
  val,      \* the value it is about to publish or to store
  got       \* got[p][k]: what GetOrBuild last returned to p for k (history)

vars == <<fast, slow, pc, key, way, val, got>>

Goto(p, l) == pc' = [pc EXCEPT ![p] = l]

(* What the way under the scan holds.                                      *)
Load(p) == fast[Index[key[p]]][way[p]]
OwnKey(p) == IF Load(p) = Nil THEN FALSE ELSE Load(p).key = key[p]
OtherKey(p) == IF Load(p) = Nil THEN FALSE ELSE Load(p).key # key[p]

(***************************************************************************)
(* Table.Get, reached through Cache.Get.  The first nil way ends the scan. *)
(***************************************************************************)
Call(p, k) ==
  /\ pc[p] = "idle"
  /\ key' = [key EXCEPT ![p] = k]
  /\ way' = [way EXCEPT ![p] = 0]
  /\ Goto(p, "get")
  /\ UNCHANGED <<fast, slow, val, got>>

Return(p, v) == got' = [got EXCEPT ![p][key[p]] = v] /\ Goto(p, "idle")

(* Mutant: the scan takes the first entry without comparing keys.          *)
BugGetHitAnyKey(p) ==
  /\ pc[p] = "get"
  /\ Load(p) # Nil
  /\ Return(p, Load(p).val)
  /\ UNCHANGED <<fast, slow, key, way, val>>

GetHit(p) ==
  /\ pc[p] = "get"
  /\ OwnKey(p)
  /\ Return(p, Load(p).val)
  /\ UNCHANGED <<fast, slow, key, way, val>>

GetNext(p) ==
  /\ pc[p] = "get"
  /\ OtherKey(p)
  /\ way[p] + 1 \in Way
  /\ way' = [way EXCEPT ![p] = @ + 1]
  /\ UNCHANGED <<fast, slow, pc, key, val, got>>

GetMiss(p) ==
  /\ pc[p] = "get"
  /\ Load(p) = Nil \/ (OtherKey(p) /\ way[p] + 1 \notin Way)
  /\ Goto(p, "slow")
  /\ UNCHANGED <<fast, slow, key, way, val, got>>

(***************************************************************************)
(* The slow tier.  A hit is promoted into the fast table before Get        *)
(* returns; a miss runs the builder, whose failure caches nothing.         *)
(***************************************************************************)
SlowHit(p) ==
  /\ pc[p] = "slow"
  /\ slow[key[p]] # Nil
  /\ val' = [val EXCEPT ![p] = slow[key[p]]]
  /\ way' = [way EXCEPT ![p] = 0]
  /\ Goto(p, "set")
  /\ UNCHANGED <<fast, slow, key, got>>

SlowMiss(p) ==
  /\ pc[p] = "slow"
  /\ slow[key[p]] = Nil
  /\ Goto(p, "build")
  /\ UNCHANGED <<fast, slow, key, way, val, got>>

BuildOk(p, b) ==
  /\ pc[p] = "build"
  /\ val' = [val EXCEPT ![p] = [of |-> key[p], by |-> b]]
  /\ Goto(p, "publish")
  /\ UNCHANGED <<fast, slow, key, way, got>>

BuildFail(p) ==
  /\ pc[p] = "build"
  /\ Goto(p, "idle")
  /\ UNCHANGED <<fast, slow, key, way, val, got>>

(* Mutant: the publisher goes on with its own build after losing the race. *)
BugPublishKeepsOwn(p) ==
  /\ pc[p] = "publish"
  /\ slow' = [slow EXCEPT ![key[p]] = IF @ = Nil THEN val[p] ELSE @]
  /\ way' = [way EXCEPT ![p] = 0]
  /\ Goto(p, "set")
  /\ UNCHANGED <<fast, key, val, got>>

(* Publish: LoadOrStore keeps the first value and hands it to every later  *)
(* publisher.                                                              *)
Publish(p) ==
  /\ pc[p] = "publish"
  /\ LET actual == IF slow[key[p]] = Nil THEN val[p] ELSE slow[key[p]]
     IN  /\ slow' = [slow EXCEPT ![key[p]] = actual]
         /\ val' = [val EXCEPT ![p] = actual]
  /\ way' = [way EXCEPT ![p] = 0]
  /\ Goto(p, "set")
  /\ UNCHANGED <<fast, key, got>>

(***************************************************************************)
(* Table.Set: scan for an empty way or the key's own entry, then store.    *)
(* The store is a second step, so another Set may claim the way between.   *)
(***************************************************************************)
(* Mutant: claims the hash-selected way of a group that is not full.       *)
BugSetFoundEvicts(p) ==
  /\ pc[p] = "set"
  /\ ~OtherKey(p)
  /\ way' = [way EXCEPT ![p] = EvictWay[key[p]]]
  /\ Goto(p, "store")
  /\ UNCHANGED <<fast, slow, key, val, got>>

SetFound(p) ==
  /\ pc[p] = "set"
  /\ ~OtherKey(p)
  /\ Goto(p, "store")
  /\ UNCHANGED <<fast, slow, key, way, val, got>>

SetNext(p) ==
  /\ pc[p] = "set"
  /\ OtherKey(p)
  /\ way[p] + 1 \in Way
  /\ way' = [way EXCEPT ![p] = @ + 1]
  /\ UNCHANGED <<fast, slow, pc, key, val, got>>

(* Mutant: a full group's store runs one way past the scan.                *)
BugSetEvictPastEnd(p) ==
  /\ pc[p] = "set"
  /\ OtherKey(p)
  /\ way[p] + 1 \notin Way
  /\ way' = [way EXCEPT ![p] = @ + 1]
  /\ Goto(p, "store")
  /\ UNCHANGED <<fast, slow, key, val, got>>

SetEvict(p) ==
  /\ pc[p] = "set"
  /\ OtherKey(p)
  /\ way[p] + 1 \notin Way
  /\ way' = [way EXCEPT ![p] = EvictWay[key[p]]]
  /\ Goto(p, "store")
  /\ UNCHANGED <<fast, slow, key, val, got>>

SetStore(p) ==
  /\ pc[p] = "store"
  /\ fast' = [fast EXCEPT ![Index[key[p]]][way[p]] =
                [key |-> key[p], val |-> val[p]]]
  /\ Return(p, val[p])
  /\ UNCHANGED <<slow, key, way, val>>

Init ==
  /\ fast = [g \in Groups |-> [w \in Way |-> Nil]]
  /\ slow = [k \in Keys |-> Nil]
  /\ pc = [p \in Procs |-> "idle"]
  /\ key \in [Procs -> Keys]
  /\ way = [p \in Procs |-> 0]
  /\ val = [p \in Procs |-> Nil]
  /\ got = [p \in Procs |-> [k \in Keys |-> Nil]]

Step(p) ==
  \/ GetHit(p)
  \/ GetNext(p)
  \/ GetMiss(p)
  \/ SlowHit(p)
  \/ SlowMiss(p)
  \/ \E b \in Builds : BuildOk(p, b)
  \/ BuildFail(p)
  \/ Publish(p)
  \/ SetFound(p)
  \/ SetNext(p)
  \/ SetEvict(p)
  \/ SetStore(p)

Next == \E p \in Procs : (\E k \in Keys : Call(p, k)) \/ Step(p)

Spec == Init /\ [][Next]_vars

-----------------------------------------------------------------------------
(***************************************************************************)
(* Properties                                                              *)
(***************************************************************************)
PCs == {"idle", "get", "slow", "build", "publish", "set", "store"}

(* The types of the shared words and of each goroutine's locals.           *)
TypeOK ==
  /\ fast \in [Groups -> [Way -> Entry \cup {Nil}]]
  /\ slow \in [Keys -> Val \cup {Nil}]
  /\ pc \in [Procs -> PCs]
  /\ key \in [Procs -> Keys]
  /\ way \in [Procs -> Way]
  /\ val \in [Procs -> Val \cup {Nil}]
  /\ got \in [Procs -> [Keys -> Val \cup {Nil}]]

(* Canonicity: however calls interleave and whoever wins the publication,  *)
(* every goroutine is handed the same descriptor for a key, the one the    *)
(* slow map keeps, and never a descriptor built for another key (package   *)
(* users compare descriptors by pointer).                                  *)
Canonical ==
  \A p \in Procs, k \in Keys :
    got[p][k] # Nil => got[p][k] = slow[k] /\ got[p][k].of = k

(* Every published way agrees with the slow map and sits in its key's      *)
(* group: no store of a racing Set leaves a key paired with another key's  *)
(* value, or with a value that lost the publication.                       *)
FastAgreesWithSlow ==
  \A g \in Groups, w \in Way :
    fast[g][w] # Nil =>
      /\ Index[fast[g][w].key] = g
      /\ fast[g][w].val = slow[fast[g][w].key]

(* Occupied ways form a prefix of their group, which is what lets          *)
(* Table.Get stop at the first nil way.                                    *)
OccupiedPrefix ==
  \A g \in Groups, w \in Way :
    fast[g][w] # Nil => \A v \in 0 .. w - 1 : fast[g][v] # Nil

(* The table keeps the shape that its lookup relies on.                    *)
TableWellFormed == TypeOK /\ OccupiedPrefix
=============================================================================
