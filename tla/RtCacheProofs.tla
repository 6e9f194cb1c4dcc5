---------------------------- MODULE RtCacheProofs ----------------------------
(***************************************************************************)
(* Proofs that the rtcache invariants hold for any number of goroutines,   *)
(* keys, groups and ways, and any hash.                                    *)
(***************************************************************************)
EXTENDS RtCache, TLAPS

(* What is published under a key was built for it.                         *)
SlowNamesKey == \A k \in Keys : slow[k] # Nil => slow[k].of = k

(* A goroutine about to publish holds a build of its own key; one inside   *)
(* Table.Set holds the published value.                                    *)
LocalsAgree ==
  \A p \in Procs :
    /\ pc[p] = "publish" => val[p] # Nil /\ val[p].of = key[p]
    /\ pc[p] \in {"set", "store"} => val[p] # Nil /\ val[p] = slow[key[p]]

(* Table.Set has found every way before its position occupied, and no way  *)
(* reverts to nil meanwhile.                                               *)
ScannedOccupied ==
  \A p \in Procs :
    pc[p] \in {"set", "store"} =>
      \A v \in 0 .. way[p] - 1 : fast[Index[key[p]]][v] # Nil

IInv ==
  /\ TypeOK
  /\ SlowNamesKey
  /\ LocalsAgree
  /\ Canonical
  /\ FastAgreesWithSlow
  /\ OccupiedPrefix
  /\ ScannedOccupied

-----------------------------------------------------------------------------
(* Every step of Get, GetOrBuild, Publish and Set keeps the types of the   *)
(* shared words and of the call's locals.                                  *)
LEMMA TypeStep == TypeOK /\ LocalsAgree /\ [Next]_vars => TypeOK'
<1> USE WaysAssumption, IndexAssumption, EvictWayAssumption, NilAssumption
<1> SUFFICES ASSUME TypeOK, LocalsAgree, [Next]_vars PROVE TypeOK'
  OBVIOUS
<1>1. ASSUME NEW p \in Procs, NEW k \in Keys, Call(p, k) PROVE TypeOK'
  BY <1>1, SMT DEF TypeOK, Call, Goto, PCs, Way
<1>2. ASSUME NEW p \in Procs, GetHit(p) PROVE TypeOK'
  <2>1. Load(p) \in Entry
    BY <1>2 DEF GetHit, OwnKey, Load, TypeOK
  <2>2. Load(p).val \in Val
    BY <2>1 DEF Entry
  <2>3. got' \in [Procs -> [Keys -> Val \cup {Nil}]]
    BY <1>2, <2>2 DEF GetHit, Return, TypeOK
  <2> QED
    BY <1>2, <2>3 DEF GetHit, Return, Goto, TypeOK, PCs
<1>3. ASSUME NEW p \in Procs, GetNext(p) PROVE TypeOK'
  BY <1>3 DEF GetNext, TypeOK
<1>4. ASSUME NEW p \in Procs, GetMiss(p) PROVE TypeOK'
  BY <1>4 DEF GetMiss, Goto, TypeOK, PCs
<1>5. ASSUME NEW p \in Procs, SlowHit(p) PROVE TypeOK'
  BY <1>5, SMT DEF SlowHit, Goto, TypeOK, PCs, Way
<1>13. ASSUME NEW p \in Procs, SlowMiss(p) PROVE TypeOK'
  BY <1>13, SMT DEF SlowMiss, Goto, TypeOK, PCs
<1>6. ASSUME NEW p \in Procs, NEW b \in Builds, BuildOk(p, b) PROVE TypeOK'
  BY <1>6 DEF BuildOk, Goto, TypeOK, PCs, Val
<1>7. ASSUME NEW p \in Procs, BuildFail(p) PROVE TypeOK'
  BY <1>7 DEF BuildFail, Goto, TypeOK, PCs
<1>8. ASSUME NEW p \in Procs, Publish(p) PROVE TypeOK'
  BY <1>8, SMT DEF Publish, Goto, TypeOK, PCs, Way
<1>9. ASSUME NEW p \in Procs, SetFound(p) PROVE TypeOK'
  BY <1>9 DEF SetFound, Goto, TypeOK, PCs
<1>10. ASSUME NEW p \in Procs, SetNext(p) PROVE TypeOK'
  BY <1>10 DEF SetNext, TypeOK
<1>14. ASSUME NEW p \in Procs, SetEvict(p) PROVE TypeOK'
  BY <1>14 DEF SetEvict, Goto, TypeOK, PCs
<1>11. ASSUME NEW p \in Procs, SetStore(p) PROVE TypeOK'
  BY <1>11 DEF LocalsAgree, SetStore, Return, Goto, TypeOK, PCs, Entry
<1>12. CASE UNCHANGED vars
  BY <1>12 DEF vars, TypeOK
<1> QED
  BY <1>1, <1>2, <1>3, <1>4, <1>5, <1>6, <1>7, <1>8, <1>9, <1>10, <1>11,
     <1>12, <1>13, <1>14 DEF Next, Step

(* The conjuncts about values: what is published, held and returned for a  *)
(* key is the one value the slow map keeps for it.                         *)
LEMMA ValueStep ==
  ASSUME TypeOK, SlowNamesKey, LocalsAgree, Canonical, FastAgreesWithSlow,
         [Next]_vars
  PROVE  (SlowNamesKey /\ LocalsAgree /\ Canonical /\ FastAgreesWithSlow)'
<1> USE WaysAssumption, IndexAssumption, EvictWayAssumption, NilAssumption
<1> DEFINE Goal == SlowNamesKey /\ LocalsAgree /\ Canonical /\ FastAgreesWithSlow
<1> USE DEF SlowNamesKey, LocalsAgree, Canonical, FastAgreesWithSlow, TypeOK
<1>1. ASSUME NEW p \in Procs, NEW k \in Keys, Call(p, k) PROVE Goal'
  BY <1>1 DEF Call, Goto
<1>2. ASSUME NEW p \in Procs, GetHit(p) PROVE Goal'
  <2>1. /\ Load(p) \in Entry
        /\ Load(p).key = key[p]
        /\ Load(p).val = slow[key[p]]
    BY <1>2 DEF GetHit, OwnKey, Load
  <2>2. Load(p).val \in Val
    BY <2>1 DEF Entry
  <2>3. Canonical'
    BY <1>2, <2>1, <2>2 DEF GetHit, Return
  <2> QED
    BY <1>2, <2>3 DEF GetHit, Return, Goto
<1>3. ASSUME NEW p \in Procs, GetNext(p) PROVE Goal'
  BY <1>3 DEF GetNext
<1>4. ASSUME NEW p \in Procs, GetMiss(p) PROVE Goal'
  BY <1>4 DEF GetMiss, Goto
<1>5. ASSUME NEW p \in Procs, SlowHit(p) PROVE Goal'
  BY <1>5 DEF SlowHit, Goto
<1>13. ASSUME NEW p \in Procs, SlowMiss(p) PROVE Goal'
  BY <1>13 DEF SlowMiss, Goto
<1>6. ASSUME NEW p \in Procs, NEW b \in Builds, BuildOk(p, b) PROVE Goal'
  <2>1. [of |-> key[p], by |-> b] \in Val
    BY DEF Val
  <2> QED
    BY <1>6, <2>1 DEF BuildOk, Goto
<1>7. ASSUME NEW p \in Procs, BuildFail(p) PROVE Goal'
  BY <1>7 DEF BuildFail, Goto
<1>8. ASSUME NEW p \in Procs, Publish(p) PROVE Goal'
  <2> DEFINE actual == IF slow[key[p]] = Nil THEN val[p] ELSE slow[key[p]]
  <2>1. /\ actual # Nil
        /\ actual.of = key[p]
        /\ slow[key[p]] # Nil => actual = slow[key[p]]
    BY <1>8 DEF Publish
  <2>2. /\ slow' = [slow EXCEPT ![key[p]] = actual]
        /\ val' = [val EXCEPT ![p] = actual]
        /\ pc' = [pc EXCEPT ![p] = "set"]
        /\ UNCHANGED <<fast, key, got>>
    BY <1>8 DEF Publish, Goto
  <2> HIDE DEF actual
  <2>3. \A k \in Keys : slow[k] # Nil => slow'[k] = slow[k]
    BY <2>1, <2>2
  <2>4. SlowNamesKey' /\ LocalsAgree'
    BY <2>1, <2>2, <2>3
  <2>5. Canonical'
    BY <2>2, <2>3
  <2>6. FastAgreesWithSlow'
    <3> SUFFICES ASSUME NEW g \in Groups, NEW w \in Way, fast[g][w] # Nil
                 PROVE  /\ Index[fast[g][w].key] = g
                        /\ fast[g][w].val = slow'[fast[g][w].key]
      BY <2>2
    <3>1. fast[g][w].key \in Keys /\ fast[g][w].val \in Val
      BY DEF Entry
    <3> QED
      BY <2>3, <3>1
  <2> QED
    BY <2>4, <2>5, <2>6
<1>9. ASSUME NEW p \in Procs, SetFound(p) PROVE Goal'
  BY <1>9 DEF SetFound, Goto
<1>10. ASSUME NEW p \in Procs, SetNext(p) PROVE Goal'
  BY <1>10 DEF SetNext
<1>14. ASSUME NEW p \in Procs, SetEvict(p) PROVE Goal'
  BY <1>14 DEF SetEvict, Goto
<1>11. ASSUME NEW p \in Procs, SetStore(p) PROVE Goal'
  BY <1>11 DEF SetStore, Return, Goto
<1>12. CASE UNCHANGED vars
  BY <1>12 DEF vars
<1> QED
  BY <1>1, <1>2, <1>3, <1>4, <1>5, <1>6, <1>7, <1>8, <1>9, <1>10, <1>11,
     <1>12, <1>13, <1>14 DEF Next, Step

(* The conjuncts about the shape of a group: no way reverts to nil, and a  *)
(* store lands on the way after an occupied prefix.                        *)
LEMMA PrefixStep ==
  ASSUME TypeOK, LocalsAgree, OccupiedPrefix, ScannedOccupied, [Next]_vars
  PROVE  (OccupiedPrefix /\ ScannedOccupied)'
<1> USE WaysAssumption, IndexAssumption, EvictWayAssumption, NilAssumption
<1> DEFINE Goal == OccupiedPrefix /\ ScannedOccupied
<1> USE DEF OccupiedPrefix, ScannedOccupied, TypeOK, Way
<1>1. ASSUME NEW p \in Procs, NEW k \in Keys, Call(p, k) PROVE Goal'
  BY <1>1 DEF Call, Goto
<1>2. ASSUME NEW p \in Procs, GetHit(p) PROVE Goal'
  BY <1>2 DEF GetHit, Return, Goto
<1>3. ASSUME NEW p \in Procs, GetNext(p) PROVE Goal'
  BY <1>3 DEF GetNext
<1>4. ASSUME NEW p \in Procs, GetMiss(p) PROVE Goal'
  BY <1>4 DEF GetMiss, Goto
<1>5. ASSUME NEW p \in Procs, SlowHit(p) PROVE Goal'
  BY <1>5 DEF SlowHit, Goto
<1>13. ASSUME NEW p \in Procs, SlowMiss(p) PROVE Goal'
  BY <1>13 DEF SlowMiss, Goto
<1>6. ASSUME NEW p \in Procs, NEW b \in Builds, BuildOk(p, b) PROVE Goal'
  BY <1>6 DEF BuildOk, Goto
<1>7. ASSUME NEW p \in Procs, BuildFail(p) PROVE Goal'
  BY <1>7 DEF BuildFail, Goto
<1>8. ASSUME NEW p \in Procs, Publish(p) PROVE Goal'
  BY <1>8 DEF Publish, Goto
<1>9. ASSUME NEW p \in Procs, SetFound(p) PROVE Goal'
  BY <1>9 DEF SetFound, Goto
<1>10. ASSUME NEW p \in Procs, SetNext(p) \/ SetEvict(p) PROVE Goal'
  <2>1. /\ fast[Index[key[p]]][way[p]] # Nil
        /\ pc[p] = "set"
        /\ UNCHANGED <<fast, key>>
    BY <1>10 DEF SetNext, SetEvict, OtherKey, Load
  <2>2. \A v \in 0 .. way[p] : fast[Index[key[p]]][v] # Nil
    <3> SUFFICES ASSUME NEW v \in 0 .. way[p]
                 PROVE  fast[Index[key[p]]][v] # Nil
      OBVIOUS
    <3>1. v = way[p] \/ v \in 0 .. way[p] - 1
      OBVIOUS
    <3> QED
      BY <2>1, <3>1
  <2>3. \A v \in 0 .. way'[p] - 1 : fast[Index[key[p]]][v] # Nil
    <3>1. /\ way'[p] \in Way
          /\ way'[p] = way[p] + 1 \/ way[p] = Ways - 1
      BY <1>10 DEF SetNext, SetEvict
    <3>2. \A v \in 0 .. way'[p] - 1 : v \in 0 .. way[p]
      BY <3>1
    <3> QED
      BY <2>2, <3>2
  <2>4. \A q \in Procs : q # p => pc'[q] = pc[q] /\ way'[q] = way[q]
    BY <1>10 DEF SetNext, SetEvict, Goto
  <2>5. ScannedOccupied'
    <3> SUFFICES ASSUME NEW q \in Procs, pc'[q] \in {"set", "store"},
                        NEW v \in 0 .. way'[q] - 1
                 PROVE  fast[Index[key[q]]][v] # Nil
      BY <2>1
    <3>1. CASE q = p
      BY <2>3, <3>1
    <3>2. CASE q # p
      BY <2>4, <3>2
    <3> QED
      BY <3>1, <3>2
  <2> QED
    BY <2>1, <2>5
<1>11. ASSUME NEW p \in Procs, SetStore(p) PROVE Goal'
  <2> DEFINE g == Index[key[p]]
             e == [key |-> key[p], val |-> val[p]]
  <2>0. e # Nil
    BY <1>11 DEF SetStore, LocalsAgree, Entry
  <2>1. /\ fast' = [fast EXCEPT ![g][way[p]] = e]
        /\ pc' = [pc EXCEPT ![p] = "idle"]
        /\ UNCHANGED <<key, way>>
    BY <1>11 DEF SetStore, Return, Goto
  <2>2. \A h \in Groups, v \in Way : fast[h][v] # Nil => fast'[h][v] # Nil
    BY <2>0, <2>1
  <2>3. \A v \in 0 .. way[p] - 1 : fast[g][v] # Nil
    BY <1>11 DEF SetStore
  <2>4. \A h \in Groups, w \in Way :
          fast'[h][w] # Nil => (fast[h][w] # Nil \/ (h = g /\ w = way[p]))
    BY <2>1
  <2> HIDE DEF g, e
  <2>5. OccupiedPrefix'
    <3> SUFFICES ASSUME NEW h \in Groups, NEW w \in Way, fast'[h][w] # Nil,
                        NEW v \in 0 .. w - 1
                 PROVE  fast'[h][v] # Nil
      OBVIOUS
    <3>1. v \in Way
      OBVIOUS
    <3>2. fast[h][v] # Nil
      <4>1. CASE fast[h][w] # Nil
        BY <4>1
      <4>2. CASE h = g /\ w = way[p]
        BY <2>3, <4>2
      <4> QED
        BY <2>4, <4>1, <4>2
    <3> QED
      BY <2>2, <3>1, <3>2
  <2>6. ScannedOccupied'
    <3> SUFFICES ASSUME NEW q \in Procs, pc'[q] \in {"set", "store"},
                        NEW v \in 0 .. way[q] - 1
                 PROVE  fast'[Index[key[q]]][v] # Nil
      BY <2>1
    <3>1. pc[q] \in {"set", "store"} /\ v \in Way /\ Index[key[q]] \in Groups
      BY <2>1
    <3>2. fast[Index[key[q]]][v] # Nil
      BY <3>1
    <3> QED
      BY <2>2, <3>1, <3>2
  <2> QED
    BY <2>5, <2>6
<1>12. CASE UNCHANGED vars
  BY <1>12 DEF vars
<1> QED
  BY <1>1, <1>2, <1>3, <1>4, <1>5, <1>6, <1>7, <1>8, <1>9, <1>10, <1>11,
     <1>12, <1>13 DEF Next, Step

-----------------------------------------------------------------------------
(* The inductive invariant holds in every state of every behaviour of      *)
(* concurrent GetOrBuild calls.                                            *)
LEMMA Invariance == Spec => []IInv
<1>1. Init => IInv
  BY WaysAssumption, NilAssumption, SMT
  DEF Init, IInv, TypeOK, PCs, Way, SlowNamesKey, LocalsAgree, Canonical,
      FastAgreesWithSlow, OccupiedPrefix, ScannedOccupied
<1>2. IInv /\ [Next]_vars => IInv'
  BY TypeStep, ValueStep, PrefixStep DEF IInv
<1> QED
  BY <1>1, <1>2, PTL DEF Spec

(* GetOrBuild is canonical for any number of goroutines, keys and ways:    *)
(* racing publishers all return the value LoadOrStore kept.                *)
THEOREM CanonicalHolds == Spec => []Canonical
<1>1. IInv => Canonical
  BY DEF IInv
<1> QED
  BY <1>1, Invariance, PTL

(* No interleaving of Table.Set stores makes a fast way disagree with the  *)
(* slow map.                                                               *)
THEOREM FastAgreesHolds == Spec => []FastAgreesWithSlow
<1>1. IInv => FastAgreesWithSlow
  BY DEF IInv
<1> QED
  BY <1>1, Invariance, PTL

(* The table keeps its shape, and Table.Get may stop at the first nil way: *)
(* occupied ways stay a prefix whatever Sets race in the group.            *)
THEOREM ShapeHolds == Spec => []TableWellFormed
<1>1. IInv => TableWellFormed
  BY DEF IInv, TableWellFormed
<1> QED
  BY <1>1, Invariance, PTL
=============================================================================
