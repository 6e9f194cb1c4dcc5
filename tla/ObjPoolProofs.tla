---------------------------- MODULE ObjPoolProofs ----------------------------
(***************************************************************************)
(* Proofs about ObjPool for any number of goroutines, keys, groups, ways,  *)
(* objects and entry addresses, any index, and any limits: an object has   *)
(* one owner, the byte counter never drifts, the budget bounds what is     *)
(* resident, and ObjPool implements Reserve.                               *)
(***************************************************************************)
EXTENDS ObjPool, FiniteSetTheorems, TLAPS

(***************************************************************************)
(* How a total changes with the function it sums: the facts about byte     *)
(* counters that the accounting rests on.                                  *)
(***************************************************************************)
(* The units of one summand: as many as its value.                         *)
LEMMA Column ==
  ASSUME NEW x, NEW n \in Nat
  PROVE  IsFiniteSet({x} \X (1 .. n)) /\ Cardinality({x} \X (1 .. n)) = n
<1>1. IsFiniteSet({x}) /\ Cardinality({x}) = 1
  BY FS_Singleton
<1>2. IsFiniteSet(1 .. n) /\ Cardinality(1 .. n) = n
  BY FS_Interval
<1>3. /\ IsFiniteSet({x} \X (1 .. n))
      /\ Cardinality({x} \X (1 .. n)) = Cardinality({x}) * Cardinality(1 .. n)
  BY <1>1, <1>2, FS_Product, Zenon
<1> QED
  BY <1>1, <1>2, <1>3

(* A total of finitely many natural numbers is a natural number.           *)
LEMMA TotalType ==
  ASSUME NEW S, IsFiniteSet(S), NEW f \in [S -> Nat]
  PROVE  IsFiniteSet(Units(f)) /\ Total(f) \in Nat
<1> DEFINE Cols == {{x} \X (1 .. f[x]) : x \in S}
<1>1. IsFiniteSet(Cols)
  <2> DEFINE col == [x \in S |-> {x} \X (1 .. f[x])]
  <2>1. col \in Surjection(S, Cols)
    BY DEF Surjection
  <2> QED
    BY <2>1, FS_Surjection
<1>2. ASSUME NEW T \in Cols PROVE IsFiniteSet(T)
  <2>1. PICK x \in S : T = {x} \X (1 .. f[x])
    OBVIOUS
  <2>2. f[x] \in Nat
    OBVIOUS
  <2> QED
    BY <2>1, <2>2, Column, Zenon
<1>3. IsFiniteSet(UNION Cols)
  BY <1>1, <1>2, FS_UNION
<1>4. IsFiniteSet(Units(f))
  BY <1>3 DEF Units
<1> QED
  BY <1>4, FS_CardinalityType DEF Total

(* Nothing adds up to zero.                                                *)
LEMMA TotalZero ==
  ASSUME NEW S, NEW f \in [S -> Nat], \A x \in S : f[x] = 0
  PROVE  Total(f) = 0
<1>1. Units(f) = {}
  BY DEF Units
<1> QED
  BY <1>1, FS_EmptySet DEF Total

(* Changing one summand changes the total by the difference.               *)
LEMMA TotalUpdate ==
  ASSUME NEW S, IsFiniteSet(S), NEW f \in [S -> Nat], NEW g \in [S -> Nat],
         NEW x \in S, \A y \in S \ {x} : g[y] = f[y]
  PROVE  Total(g) = Total(f) - f[x] + g[x]
<1> DEFINE Rest(h) == {u \in Units(h) : u[1] # x}
           Col(h) == {x} \X (1 .. h[x])
<1>1. Rest(f) = Rest(g)
  BY DEF Units
<1>2. ASSUME NEW h \in [S -> Nat]
      PROVE  Total(h) = Cardinality(Rest(h)) + h[x]
  <2>1. Units(h) = Rest(h) \cup Col(h) /\ Rest(h) \cap Col(h) = {}
    BY DEF Units
  <2>2. IsFiniteSet(Units(h))
    BY TotalType
  <2>3. IsFiniteSet(Rest(h))
    BY <2>2, FS_Subset
  <2>4. IsFiniteSet(Col(h)) /\ Cardinality(Col(h)) = h[x]
    BY Column
  <2>5. Cardinality(Units(h))
          = Cardinality(Rest(h)) + Cardinality(Col(h)) - Cardinality({})
    BY <2>1, <2>3, <2>4, FS_Union
  <2>6. Cardinality(Rest(h)) \in Nat
    BY <2>3, FS_CardinalityType
  <2> QED
    BY <2>4, <2>5, <2>6, FS_EmptySet DEF Total
<1>3. Total(f) \in Nat /\ Cardinality(Rest(f)) = Total(f) - f[x]
  <2>1. Total(f) \in Nat /\ IsFiniteSet(Units(f))
    BY TotalType
  <2>2. Cardinality(Rest(f)) \in Nat
    BY <2>1, FS_Subset, FS_CardinalityType
  <2> QED
    BY <1>2, <2>1, <2>2
<1> QED
  BY <1>1, <1>2, <1>3

(* A function no greater anywhere has no greater a total.                  *)
LEMMA TotalMonotone ==
  ASSUME NEW S, IsFiniteSet(S), NEW f \in [S -> Nat], NEW g \in [S -> Nat],
         \A x \in S : f[x] <= g[x]
  PROVE  Total(f) <= Total(g)
<1>1. Units(f) \subseteq Units(g)
  BY DEF Units
<1>2. IsFiniteSet(Units(g))
  BY TotalType
<1> QED
  BY <1>1, <1>2, FS_Subset DEF Total

(* An entry is parked under the key its object was built for.              *)
EntriesKeyed == \A s \in Occupied : KeyOf[At(s).obj] = At(s).key

(* What a call in progress knows.  Nobody else touches what the caller     *)
(* holds, so an Offer still holds its object and a Take still holds none;  *)
(* the entry a compare-and-swap names is of the key the scan looks for;    *)
(* and a survey has counted at most the ways it has seen.                  *)
Offering == {"survey", "charge", "park", "refund"}

LocalsAgree ==
  \A p \in Procs :
    /\ pc[p] = "idle" => loc[p] = NoLocals
    /\ pc[p] \in {"take", "takeCAS"} => held[p] = Nil /\ loc[p].key \in Keys
    /\ pc[p] \in {"takeCAS", "takeCredit", "dropCAS", "dropCredit"} => loc[p].entry # Nil
    /\ pc[p] = "takeCAS" => loc[p].entry.key = loc[p].key
    /\ pc[p] \in Offering => held[p] # Nil /\ loc[p].size \in Sizes
    /\ pc[p] = "survey" => loc[p].depth <= loc[p].pos
    /\ pc[p] \in {"charge", "park"} => loc[p].free # -1
    /\ held[p] # Nil => foot[p] \in Sizes

(* The entries in use, in a way or loaded by a call: two of one address    *)
(* are one entry, so comparing pointers compares entries and no CAS takes  *)
(* an entry for another that was freed and allocated again in its place.   *)
InUse == {At(s) : s \in Occupied} \cup ({loc[p].entry : p \in Procs} \ {Nil})
AddressIdentifies == \A e, f \in InUse : e.id = f.id => e = f

IInv ==
  /\ TypeOK
  /\ LocalsAgree
  /\ EntriesKeyed
  /\ SingleOwner
  /\ AddressIdentifies
  /\ Accounting

-----------------------------------------------------------------------------
(* The ways are finitely many, and a load of one yields an entry or nil.   *)
LEMMA SlotsFinite == IsFiniteSet(Slots)
<1>1. IsFiniteSet(Group) /\ IsFiniteSet(Way)
  BY FS_Interval, GeometryAssumption DEF Group, Way
<1> QED
  BY <1>1, FS_Product, Zenon DEF Slots

(* What a way holds is an entry or nothing.                                *)
LEMMA LoadType ==
  ASSUME TypeOK, NEW p \in Procs
  PROVE  /\ loc[p] \in Locals
         /\ Load(p) \in Entry \cup {Nil}
         /\ <<loc[p].grp, loc[p].pos>> \in Slots
         /\ Load(p) = At(<<loc[p].grp, loc[p].pos>>)
BY DEF TypeOK, Locals, Load, Slots, At

(* Storing into a way changes that way and no other.                       *)
LEMMA StoreOne ==
  ASSUME TypeOK, NEW g \in Group, NEW w \in Way, NEW e, SetWay(g, w, e),
         NEW s \in Slots
  PROVE  At(s)' = IF s = <<g, w>> THEN e ELSE At(s)
BY DEF TypeOK, SetWay, Slots, At

(* The scan of a group stays inside it.                                    *)
LEMMA NextWayType ==
  ASSUME NEW l \in Locals, l.pos + 1 \in Way
  PROVE  /\ AtNextWay(l) \in Locals
         /\ AtNextWay(l).pos = l.pos + 1 /\ AtNextWay(l).entry = Nil
         /\ AtNextWay(l).key = l.key /\ AtNextWay(l).size = l.size
         /\ AtNextWay(l).depth = l.depth
BY DEF AtNextWay, Locals

(* A goroutine that is idle has no locals.                                 *)
LEMMA NoLocalsType == NoLocals \in Locals /\ 0 \in Group /\ 0 \in Way
BY GeometryAssumption DEF NoLocals, Locals, Group, Way

(* Returning clears them.                                                  *)
LEMMA ReturnType ==
  ASSUME TypeOK, NEW p \in Procs, Return(p)
  PROVE  /\ loc' \in [Procs -> Locals] /\ pc' \in [Procs -> PCs]
         /\ loc'[p] = NoLocals /\ pc'[p] = "idle"
         /\ \A q \in Procs \ {p} : loc'[q] = loc[q] /\ pc'[q] = pc[q]
BY NoLocalsType DEF Return, Goto, TypeOK, PCs

(* Where a scan that goes on arrives.                                      *)
LEMMA TakeOnType ==
  ASSUME TypeOK, NEW p \in Procs, TakeOn(p)
  PROVE  /\ loc' \in [Procs -> Locals] /\ pc' \in [Procs -> PCs]
         /\ \/ pc'[p] = "take" /\ loc'[p].key = loc[p].key /\ loc'[p].entry = Nil
            \/ pc'[p] = "idle" /\ loc'[p] = NoLocals
         /\ \A q \in Procs \ {p} : loc'[q] = loc[q] /\ pc'[q] = pc[q]
<1>1. CASE ~LastWay(p)
  <2>1. AtNextWay(loc[p]) \in Locals /\ AtNextWay(loc[p]).key = loc[p].key
          /\ AtNextWay(loc[p]).entry = Nil
    BY <1>1, NextWayType DEF LastWay, TypeOK, Locals
  <2> QED
    BY <1>1, <2>1 DEF TakeOn, Goto, TypeOK, PCs
<1>2. CASE LastWay(p)
  BY <1>2, ReturnType DEF TakeOn
<1> QED
  BY <1>1, <1>2

(* A Drop goes to its next way or returns.                                 *)
LEMMA DropOnType ==
  ASSUME TypeOK, NEW p \in Procs, DropOn(p)
  PROVE  /\ loc' \in [Procs -> Locals] /\ pc' \in [Procs -> PCs]
         /\ \/ pc'[p] = "drop" /\ loc'[p].entry = Nil
            \/ pc'[p] = "idle" /\ loc'[p] = NoLocals
         /\ \A q \in Procs \ {p} : loc'[q] = loc[q] /\ pc'[q] = pc[q]
<1>1. CASE ~LastWay(p)
  <2>1. AtNextWay(loc[p]) \in Locals /\ AtNextWay(loc[p]).entry = Nil
    BY <1>1, NextWayType DEF LastWay, TypeOK, Locals
  <2> QED
    BY <1>1, <2>1 DEF DropOn, Goto, TypeOK, PCs
<1>2. CASE LastWay(p) /\ loc[p].grp + 1 \in Group
  <2> DEFINE l == [NoLocals EXCEPT !.grp = loc[p].grp + 1]
  <2>1. l \in Locals /\ l.entry = Nil
    BY <1>2, NoLocalsType DEF Locals, NoLocals
  <2> QED
    BY <1>2, <2>1 DEF DropOn, Goto, TypeOK, PCs
<1>3. CASE LastWay(p) /\ loc[p].grp + 1 \notin Group
  BY <1>3, ReturnType DEF DropOn
<1> QED
  BY <1>1, <1>2, <1>3

-----------------------------------------------------------------------------
(* Every step keeps the types of the shared words and what the calls in    *)
(* progress know.                                                          *)
LEMMA LocalStep ==
  ASSUME TypeOK, LocalsAgree, [Next]_vars
  PROVE  TypeOK' /\ LocalsAgree'
<1> DEFINE Goal == TypeOK' /\ LocalsAgree'
<1> USE DEF LocalsAgree, Offering
<1>1. ASSUME NEW p \in Procs, NEW o \in Objs, NEW s \in Sizes, Build(p, o, s) PROVE Goal
  BY <1>1 DEF Build, TypeOK
<1>2. ASSUME NEW p \in Procs, NEW s \in Sizes, Grow(p, s) PROVE Goal
  BY <1>2 DEF Grow, TypeOK
<1>3. ASSUME NEW p \in Procs, Release(p) PROVE Goal
  BY <1>3 DEF Release, TypeOK
<1>4. ASSUME NEW p \in Procs, NEW k \in Keys, TakeCall(p, k) PROVE Goal
  <2> DEFINE l == [loc[p] EXCEPT !.key = k, !.grp = Index[k]]
  <2>0. loc[p] \in Locals /\ Index[k] \in Group
    BY IndexAssumption DEF TypeOK
  <2>a. l \in Locals /\ l.key = k
    BY <2>0 DEF Locals
  <2>b. loc' = [loc EXCEPT ![p] = l]
    BY <1>4 DEF TakeCall, TypeOK
  <2>1. /\ loc' \in [Procs -> Locals] /\ loc'[p].key = k
        /\ \A q \in Procs \ {p} : loc'[q] = loc[q]
    <3> HIDE DEF l
    <3> QED BY <2>a, <2>b DEF TypeOK
  <2> QED
    BY <1>4, <2>1 DEF TakeCall, Goto, TypeOK, PCs
<1>5. ASSUME NEW p \in Procs, TakeLoad(p) PROVE Goal
  <2>1. /\ loc' \in [Procs -> Locals]
        /\ loc'[p].key = loc[p].key /\ loc'[p].entry = Load(p)
        /\ \A q \in Procs \ {p} : loc'[q] = loc[q]
    BY <1>5, LoadType DEF TakeLoad, TypeOK, Locals
  <2> QED
    BY <1>5, <2>1 DEF TakeLoad, Goto, TypeOK, PCs
<1>6. ASSUME NEW p \in Procs, TakePass(p) \/ TakeLose(p) PROVE Goal
  <2>1. /\ TakeOn(p) /\ pc[p] \in {"take", "takeCAS"}
        /\ UNCHANGED <<ways, charged, disabled, held, foot>>
    BY <1>6 DEF TakePass, TakeLose
  <2> QED
    BY <2>1, TakeOnType DEF TypeOK
<1>7. ASSUME NEW p \in Procs, TakeWin(p) PROVE Goal
  <2>1. loc[p].entry \in Entry /\ loc[p].entry.obj \in Objs /\ loc[p].entry.size \in Sizes
    BY <1>7, LoadType DEF TakeWin, Locals, Entry
  <2>2. ways' \in [Group -> [Way -> Entry \cup {Nil}]]
    BY <1>7 DEF TakeWin, SetWay, TypeOK
  <2> QED
    BY <1>7, <2>1, <2>2 DEF TakeWin, Goto, TypeOK, PCs
<1>8. ASSUME NEW p \in Procs, TakeCredit(p) PROVE Goal
  <2>1. charged' \in Int
    BY <1>8, SizesAssumption DEF TakeCredit, TypeOK, Locals, Entry
  <2> QED
    BY <1>8, <2>1, ReturnType DEF TakeCredit, TypeOK
<1>9. ASSUME NEW p \in Procs, OfferCall(p) PROVE Goal
  <2>1. foot[p] \in Sizes /\ held[p] \in Objs
    BY <1>9 DEF OfferCall, TypeOK
  <2> DEFINE l == [loc[p] EXCEPT !.size = foot[p], !.grp = Index[KeyOf[held[p]]]]
  <2>0. loc[p] = NoLocals /\ loc[p] \in Locals /\ Index[KeyOf[held[p]]] \in Group
    BY <1>9, <2>1, IndexAssumption, KeyOfAssumption DEF OfferCall, TypeOK
  <2>a. l \in Locals /\ l.size = foot[p] /\ l.depth = 0 /\ l.pos = 0
    <3>1. l \in Locals /\ l.size = foot[p] /\ l.depth = loc[p].depth /\ l.pos = loc[p].pos
      BY <2>0, <2>1 DEF Locals
    <3>2. loc[p].depth = 0 /\ loc[p].pos = 0
      BY <2>0 DEF NoLocals
    <3> QED
      BY <3>1, <3>2
  <2>b. loc' = [loc EXCEPT ![p] = l]
    BY <1>9 DEF OfferCall, TypeOK
  <2>2. /\ loc' \in [Procs -> Locals]
        /\ loc'[p].size = foot[p] /\ loc'[p].depth = 0 /\ loc'[p].pos = 0
        /\ \A q \in Procs \ {p} : loc'[q] = loc[q]
    <3> HIDE DEF l
    <3> QED BY <2>a, <2>b DEF TypeOK
  <2> QED
    BY <1>9, <2>1, <2>2 DEF OfferCall, Goto, TypeOK, PCs
<1>10. ASSUME NEW p \in Procs, Survey(p) PROVE Goal
  <2> DEFINE l == Surveyed(p, loc[p])
  <2>1. loc[p] \in Locals /\ loc[p].pos \in 0 .. Ways - 1 /\ Ways \in Nat
    BY GeometryAssumption DEF TypeOK, Locals, Way
  <2>2. loc[p].depth \in 0 .. loc[p].pos
    BY <1>10, <2>1 DEF Survey, Locals
  <2>3. /\ l \in Locals /\ l.pos = loc[p].pos /\ l.depth <= loc[p].pos + 1
        /\ l.size = loc[p].size
    <3> DEFINE f == IF Load(p) = Nil /\ loc[p].free = -1 THEN loc[p].pos ELSE loc[p].free
    <3>1. PICK d \in {loc[p].depth, loc[p].depth + 1} :
            l = [loc[p] EXCEPT !.free = f, !.depth = d]
      BY DEF Surveyed
    <3>2. f \in Way \cup {-1}
      BY <2>1 DEF Locals, Way
    <3>3. d \in 0 .. Ways /\ d <= loc[p].pos + 1
      BY <2>1, <2>2
    <3> HIDE DEF l, f
    <3> QED
      BY <2>1, <3>1, <3>2, <3>3 DEF Locals
  <2>4. /\ loc' \in [Procs -> Locals] /\ pc' \in [Procs -> PCs]
        /\ \/ pc'[p] = "survey" /\ loc'[p].depth <= loc'[p].pos
              /\ loc'[p].size = loc[p].size
           \/ pc'[p] = "charge" /\ loc'[p].free # -1 /\ loc'[p].size = loc[p].size
           \/ pc'[p] = "idle" /\ loc'[p] = NoLocals
        /\ \A q \in Procs \ {p} : loc'[q] = loc[q] /\ pc'[q] = pc[q]
    <3>1. CASE ~LastWay(p) /\ loc' = [loc EXCEPT ![p] = AtNextWay(l)] /\ UNCHANGED pc
      <4>1. l.pos + 1 \in Way
        BY <3>1, <2>3 DEF LastWay
      <4>2. /\ AtNextWay(l) \in Locals /\ AtNextWay(l).pos = l.pos + 1
            /\ AtNextWay(l).size = l.size /\ AtNextWay(l).depth = l.depth
        BY <4>1, <2>3, NextWayType
      <4> HIDE DEF l
      <4> QED
        BY <1>10, <3>1, <4>2, <2>3 DEF Survey, TypeOK
    <3>2. CASE l.free # -1 /\ loc' = [loc EXCEPT ![p] = l] /\ Goto(p, "charge")
      BY <3>2, <2>3 DEF Goto, TypeOK, PCs
    <3>3. CASE Return(p)
      BY <3>3, ReturnType
    <3> QED
      BY <1>10, <3>1, <3>2, <3>3 DEF Survey
  <2> QED
    BY <1>10, <2>4 DEF Survey, TypeOK
<1>11. ASSUME NEW p \in Procs, Charge(p) PROVE Goal
  <2>1. charged' \in Int
    BY <1>11, SizesAssumption DEF Charge, TypeOK, Locals
  <2> QED
    BY <1>11, <2>1 DEF Charge, Goto, TypeOK, PCs
<1>12. ASSUME NEW p \in Procs, NEW i \in FreeIds, ParkWin(p, i) PROVE Goal
  <2>1. OfferedEntry(p, i) \in Entry
    BY <1>12, KeyOfAssumption DEF ParkWin, OfferedEntry, Entry, TypeOK, FreeIds
  <2>2. loc[p].grp \in Group /\ loc[p].free \in Way
    BY <1>12 DEF ParkWin, TypeOK, Locals
  <2>3. ways' \in [Group -> [Way -> Entry \cup {Nil}]]
    BY <1>12, <2>1, <2>2 DEF ParkWin, SetWay, TypeOK
  <2> QED
    BY <1>12, <2>3, ReturnType DEF ParkWin, TypeOK
<1>13. ASSUME NEW p \in Procs, ParkLose(p) PROVE Goal
  BY <1>13 DEF ParkLose, Goto, TypeOK, PCs
<1>14. ASSUME NEW p \in Procs, Refund(p) PROVE Goal
  <2>1. charged' \in Int
    BY <1>14, SizesAssumption DEF Refund, TypeOK, Locals
  <2> QED
    BY <1>14, <2>1, ReturnType DEF Refund, TypeOK
<1>15. ASSUME NEW p \in Procs, Enable(p) PROVE Goal
  BY <1>15 DEF Enable, TypeOK
<1>16. ASSUME NEW p \in Procs, Disable(p) PROVE Goal
  BY <1>16 DEF Disable, Goto, TypeOK, PCs
<1>17. ASSUME NEW p \in Procs, DropLoad(p) PROVE Goal
  <2>1. /\ loc' \in [Procs -> Locals] /\ loc'[p].entry = Load(p)
        /\ \A q \in Procs \ {p} : loc'[q] = loc[q]
    BY <1>17, LoadType DEF DropLoad, TypeOK, Locals
  <2> QED
    BY <1>17, <2>1 DEF DropLoad, Goto, TypeOK, PCs
<1>18. ASSUME NEW p \in Procs, DropPass(p) \/ DropLose(p) PROVE Goal
  <2>1. /\ DropOn(p) /\ pc[p] \in {"drop", "dropCAS"}
        /\ UNCHANGED <<ways, charged, disabled, held, foot>>
    BY <1>18 DEF DropPass, DropLose
  <2> QED
    BY <2>1, DropOnType DEF TypeOK
<1>19. ASSUME NEW p \in Procs, DropWin(p) PROVE Goal
  <2>1. ways' \in [Group -> [Way -> Entry \cup {Nil}]]
    BY <1>19 DEF DropWin, SetWay, TypeOK
  <2> QED
    BY <1>19, <2>1 DEF DropWin, Goto, TypeOK, PCs
<1>20. ASSUME NEW p \in Procs, DropCredit(p) PROVE Goal
  <2>1. charged' \in Int
    BY <1>20, SizesAssumption DEF DropCredit, TypeOK, Locals, Entry
  <2> QED
    BY <1>20, <2>1, DropOnType DEF DropCredit, TypeOK
<1>21. CASE UNCHANGED vars
  BY <1>21 DEF vars, TypeOK
<1> QED
  BY <1>1, <1>2, <1>3, <1>4, <1>5, <1>6, <1>7, <1>8, <1>9, <1>10, <1>11, <1>12,
     <1>13, <1>14, <1>15, <1>16, <1>17, <1>18, <1>19, <1>20, <1>21
  DEF Next, Client, TakeStep, OfferStep, DropStep

-----------------------------------------------------------------------------
(* The steps at which an object changes hands; every other step leaves the *)
(* ways and the objects the goroutines own as they are.                    *)
Moves(p) ==
  \/ \E o \in Objs, s \in Sizes : Build(p, o, s)
  \/ Release(p)
  \/ TakeWin(p)
  \/ \E i \in FreeIds : ParkWin(p, i)
  \/ DropWin(p)

(* Only a compare-and-swap, a hand-over or a release moves an object.      *)
LEMMA MovesOrNot ==
  ASSUME [Next]_vars
  PROVE  UNCHANGED <<ways, held>> \/ \E p \in Procs : Moves(p)
<1>1. ASSUME NEW p \in Procs, Client(p) PROVE UNCHANGED <<ways, held>> \/ Moves(p)
  BY <1>1 DEF Client, Grow, Moves
<1>2. ASSUME NEW p \in Procs, TakeStep(p) PROVE UNCHANGED <<ways, held>> \/ Moves(p)
  BY <1>2 DEF TakeStep, TakeLoad, TakePass, TakeLose, TakeCredit, Moves
<1>3. ASSUME NEW p \in Procs, OfferStep(p) PROVE UNCHANGED <<ways, held>> \/ Moves(p)
  BY <1>3 DEF OfferStep, Survey, Charge, ParkLose, Refund, Moves
<1>4. ASSUME NEW p \in Procs, DropStep(p) PROVE UNCHANGED <<ways, held>> \/ Moves(p)
  BY <1>4 DEF DropStep, DropLoad, DropPass, DropLose, DropCredit, Moves
<1>5. ASSUME NEW p \in Procs,
             (\E k \in Keys : TakeCall(p, k)) \/ OfferCall(p) \/ Enable(p) \/ Disable(p)
      PROVE  UNCHANGED <<ways, held>>
  BY <1>5 DEF TakeCall, OfferCall, Enable, Disable
<1>6. CASE UNCHANGED vars
  BY <1>6 DEF vars
<1> QED
  BY <1>1, <1>2, <1>3, <1>4, <1>5, <1>6 DEF Next

(* A claim that succeeds empties the way whose entry it loaded.            *)
LEMMA Claimed ==
  ASSUME TypeOK, LocalsAgree, NEW p \in Procs, TakeWin(p) \/ DropWin(p)
  PROVE  LET s == <<loc[p].grp, loc[p].pos>>
             e == loc[p].entry
         IN  /\ s \in Occupied /\ At(s) = e /\ e \in Entry
             /\ \A t \in Slots : At(t)' = IF t = s THEN Nil ELSE At(t)
             /\ Occupied' = Occupied \ {s}
             /\ TakeWin(p) => held[p] = Nil /\ e.key = loc[p].key
<1> DEFINE s == <<loc[p].grp, loc[p].pos>>
           e == loc[p].entry
<1>1. e # Nil /\ Load(p) = e /\ SetWay(loc[p].grp, loc[p].pos, Nil)
  BY DEF TakeWin, DropWin, LocalsAgree
<1>2. s \in Slots /\ At(s) = e /\ e \in Entry
  BY <1>1, LoadType
<1>3. ASSUME NEW t \in Slots PROVE At(t)' = IF t = s THEN Nil ELSE At(t)
  BY <1>1, StoreOne DEF TypeOK, Locals
<1>4. Slots' = Slots
  BY DEF Slots, Group, Way
<1>5. Occupied' = Occupied \ {s}
  BY <1>1, <1>2, <1>3, <1>4 DEF Occupied
<1>6. TakeWin(p) => held[p] = Nil /\ e.key = loc[p].key
  BY DEF TakeWin, LocalsAgree
<1> QED
  BY <1>1, <1>2, <1>3, <1>5, <1>6 DEF Occupied

(* An Offer that succeeds fills an empty way with what the caller held.    *)
LEMMA Parked ==
  ASSUME TypeOK, LocalsAgree, NEW p \in Procs, NEW i \in FreeIds, ParkWin(p, i)
  PROVE  LET s == <<loc[p].grp, loc[p].free>>
             e == OfferedEntry(p, i)
         IN  /\ s \in Slots /\ At(s) = Nil /\ e \in Entry
             /\ e.obj = held[p] /\ held[p] # Nil /\ e.key = KeyOf[held[p]]
             /\ e.size = loc[p].size /\ e.id = i
             /\ \A t \in Slots : At(t)' = IF t = s THEN e ELSE At(t)
             /\ Occupied' = Occupied \cup {s}
<1> DEFINE s == <<loc[p].grp, loc[p].free>>
           e == OfferedEntry(p, i)
<1>1. held[p] \in Objs /\ loc[p].size \in Sizes /\ held[p] # Nil
  BY NilAssumption DEF ParkWin, LocalsAgree, Offering, TypeOK
<1>2. e \in Entry /\ e.obj = held[p] /\ e.key = KeyOf[held[p]]
        /\ e.size = loc[p].size /\ e.id = i
  BY <1>1, KeyOfAssumption DEF OfferedEntry, Entry, FreeIds
<1>3. loc[p].grp \in Group /\ loc[p].free \in Way
  BY DEF ParkWin, LocalsAgree, TypeOK, Locals
<1>4. s \in Slots /\ At(s) = Nil
  BY <1>3 DEF ParkWin, Slots, At
<1>5. ASSUME NEW t \in Slots PROVE At(t)' = IF t = s THEN e ELSE At(t)
  BY <1>3, StoreOne DEF ParkWin
<1>6. Slots' = Slots
  BY DEF Slots, Group, Way
<1>7. Occupied' = Occupied \cup {s}
  BY <1>2, <1>4, <1>5, <1>6, NilAssumption DEF Occupied
<1> QED
  BY <1>1, <1>2, <1>4, <1>5, <1>7

(* No step gives an object a second owner, and what is parked stays under  *)
(* the key its object was built for.                                       *)
LEMMA OwnerStep ==
  ASSUME TypeOK, LocalsAgree, EntriesKeyed, SingleOwner, [Next]_vars
  PROVE  EntriesKeyed' /\ SingleOwner'
<1> DEFINE Goal == EntriesKeyed' /\ SingleOwner'
<1>0. \A s \in Occupied : At(s) \in Entry /\ At(s).obj \in Objs /\ At(s) # Nil
  BY DEF Occupied, Slots, At, TypeOK, Entry
<1>1. CASE UNCHANGED <<ways, held>>
  BY <1>1 DEF EntriesKeyed, SingleOwner, Occupied, Slots, At
<1>2. ASSUME NEW p \in Procs, NEW o \in Objs, NEW s \in Sizes, Build(p, o, s) PROVE Goal
  <2>1. /\ Occupied' = Occupied /\ \A t \in Occupied : At(t)' = At(t)
        /\ held' = [held EXCEPT ![p] = o]
        /\ \A q \in Procs : held[q] # o
        /\ \A t \in Occupied : At(t).obj # o
    BY <1>2 DEF Build, Occupied, Slots, At, Owned
  <2> QED
    BY <2>1 DEF EntriesKeyed, SingleOwner, TypeOK
<1>3. ASSUME NEW p \in Procs, Release(p) PROVE Goal
  <2>1. /\ Occupied' = Occupied /\ \A t \in Occupied : At(t)' = At(t)
        /\ held' = [held EXCEPT ![p] = Nil]
    BY <1>3 DEF Release, Occupied, Slots, At
  <2> QED
    BY <1>0, <2>1, NilAssumption DEF EntriesKeyed, SingleOwner, TypeOK
<1>4. ASSUME NEW p \in Procs, TakeWin(p) PROVE Goal
  <2> DEFINE s == <<loc[p].grp, loc[p].pos>>
  <2>1. /\ s \in Occupied /\ At(s) = loc[p].entry /\ held[p] = Nil
        /\ \A t \in Occupied \ {s} : At(t)' = At(t)
        /\ Occupied' = Occupied \ {s}
    BY <1>4, Claimed DEF Occupied
  <2>2. held' = [held EXCEPT ![p] = At(s).obj]
    BY <1>4, <2>1 DEF TakeWin
  <2> HIDE DEF s
  <2> QED
    BY <1>0, <2>1, <2>2 DEF EntriesKeyed, SingleOwner, TypeOK
<1>5. ASSUME NEW p \in Procs, NEW i \in FreeIds, ParkWin(p, i) PROVE Goal
  <2> DEFINE s == <<loc[p].grp, loc[p].free>>
             e == OfferedEntry(p, i)
  <2>1. /\ s \notin Occupied /\ e # Nil
        /\ e.obj = held[p] /\ held[p] # Nil /\ e.key = KeyOf[held[p]]
        /\ \A t \in Occupied' : At(t)' = IF t = s THEN e ELSE At(t)
        /\ Occupied' = Occupied \cup {s}
    BY <1>5, Parked, NilAssumption DEF Occupied
  <2>2. /\ held'[p] = Nil /\ \A q \in Procs \ {p} : held'[q] = held[q]
        /\ held[p] \in Objs
    BY <1>5, <2>1 DEF ParkWin, TypeOK
  <2> HIDE DEF s, e
  <2>3. EntriesKeyed'
    BY <2>1 DEF EntriesKeyed
  <2>4. \A t, u \in Occupied' : At(t)'.obj = At(u)'.obj => t = u
    BY <2>1, <2>2 DEF SingleOwner
  <2>5. \A q, r \in Procs : held'[q] # Nil /\ held'[q] = held'[r] => q = r
    BY <2>2 DEF SingleOwner
  <2>6. \A t \in Occupied', q \in Procs : At(t)'.obj # held'[q]
    BY <1>0, <2>1, <2>2, NilAssumption DEF SingleOwner
  <2> QED
    BY <2>3, <2>4, <2>5, <2>6 DEF SingleOwner
<1>6. ASSUME NEW p \in Procs, DropWin(p) PROVE Goal
  <2> DEFINE s == <<loc[p].grp, loc[p].pos>>
  <2>1. /\ \A t \in Occupied \ {s} : At(t)' = At(t)
        /\ Occupied' = Occupied \ {s}
    BY <1>6, Claimed DEF Occupied
  <2>2. held' = held
    BY <1>6 DEF DropWin
  <2> HIDE DEF s
  <2> QED
    BY <2>1, <2>2 DEF EntriesKeyed, SingleOwner
<1> QED
  BY <1>1, <1>2, <1>3, <1>4, <1>5, <1>6, MovesOrNot DEF Moves

-----------------------------------------------------------------------------
(* A call only ever loads an entry that is in use.                         *)
LEMMA LoadsInUse ==
  ASSUME TypeOK, LocalsAgree, [Next]_vars, NEW q \in Procs
  PROVE  loc'[q].entry \in InUse \cup {Nil}
<1> DEFINE Goal == loc'[q].entry \in InUse \cup {Nil}
<1>0. loc[q].entry \in InUse \cup {Nil}
  BY DEF InUse
<1>1. ASSUME NEW p \in Procs, Client(p) \/ Enable(p) \/ Disable(p) PROVE Goal
  BY <1>0, <1>1 DEF Client, Build, Grow, Release, Enable, Disable
<1>2. ASSUME NEW p \in Procs,
             (\E k \in Keys : TakeCall(p, k)) \/ OfferCall(p)
      PROVE  Goal
  <2> DEFINE called(k) == [loc[p] EXCEPT !.key = k, !.grp = Index[k]]
             offered == [loc[p] EXCEPT !.size = foot[p], !.grp = Index[KeyOf[held[p]]]]
  <2>1. /\ \A k \in Keys : called(k).entry = loc[p].entry
        /\ offered.entry = loc[p].entry
    BY DEF TypeOK, Locals
  <2>2. \/ \E k \in Keys : loc' = [loc EXCEPT ![p] = called(k)]
        \/ loc' = [loc EXCEPT ![p] = offered]
    BY <1>2 DEF TakeCall, OfferCall, TypeOK
  <2> HIDE DEF called, offered
  <2>3. loc'[q].entry = loc[q].entry
    BY <2>1, <2>2 DEF TypeOK
  <2> QED
    BY <1>0, <2>3
<1>3. ASSUME NEW p \in Procs, TakeLoad(p) \/ DropLoad(p) PROVE Goal
  <2>1. /\ Load(p) # Nil /\ Load(p) = At(<<loc[p].grp, loc[p].pos>>)
        /\ <<loc[p].grp, loc[p].pos>> \in Slots
    BY <1>3, LoadType DEF TakeLoad, DropLoad
  <2>2. Load(p) \in InUse
    BY <2>1 DEF InUse, Occupied
  <2>3. loc'[q].entry \in {loc[q].entry, Load(p)}
    BY <1>3 DEF TakeLoad, DropLoad, TypeOK, Locals
  <2> QED
    BY <1>0, <2>2, <2>3
<1>4. ASSUME NEW p \in Procs, TakePass(p) \/ TakeLose(p) PROVE Goal
  <2>1. TakeOn(p)
    BY <1>4 DEF TakePass, TakeLose
  <2> QED
    BY <1>0, <2>1, TakeOnType DEF NoLocals
<1>5. ASSUME NEW p \in Procs, TakeWin(p) \/ DropWin(p) \/ Charge(p) \/ ParkLose(p) PROVE Goal
  BY <1>0, <1>5 DEF TakeWin, DropWin, Charge, ParkLose
<1>6. ASSUME NEW p \in Procs,
             TakeCredit(p) \/ Refund(p) \/ \E i \in FreeIds : ParkWin(p, i)
      PROVE  Goal
  <2>1. Return(p)
    BY <1>6 DEF TakeCredit, Refund, ParkWin
  <2> QED
    BY <1>0, <2>1, ReturnType DEF NoLocals
<1>7. ASSUME NEW p \in Procs, Survey(p) PROVE Goal
  <2> DEFINE l == Surveyed(p, loc[p])
  <2>1. loc[p] \in Locals /\ l.entry = loc[p].entry
    BY DEF Surveyed, TypeOK, Locals
  <2>2. AtNextWay(l).entry = Nil
    BY <2>1 DEF AtNextWay, Surveyed, Locals
  <2>3. CASE loc' = [loc EXCEPT ![p] = l] \/ loc' = [loc EXCEPT ![p] = AtNextWay(l)]
    <3> HIDE DEF l
    <3> QED
      BY <1>0, <2>1, <2>2, <2>3 DEF TypeOK
  <2>4. CASE Return(p)
    BY <1>0, <2>4, ReturnType DEF NoLocals
  <2> QED
    BY <1>7, <2>3, <2>4 DEF Survey
<1>8. ASSUME NEW p \in Procs, DropPass(p) \/ DropLose(p) \/ DropCredit(p) PROVE Goal
  <2>1. DropOn(p)
    BY <1>8 DEF DropPass, DropLose, DropCredit
  <2> QED
    BY <1>0, <2>1, DropOnType DEF NoLocals
<1>9. CASE UNCHANGED vars
  BY <1>0, <1>9 DEF vars
<1> QED
  BY <1>1, <1>2, <1>3, <1>4, <1>5, <1>6, <1>7, <1>8, <1>9
  DEF Next, TakeStep, OfferStep, DropStep

(* An address is given to a new entry only when nothing refers to it.      *)
LEMMA AddressStep ==
  ASSUME TypeOK, LocalsAgree, AddressIdentifies, [Next]_vars
  PROVE  AddressIdentifies'
<1>1. \A q \in Procs : loc'[q].entry \in InUse \cup {Nil}
  BY LoadsInUse
<1>2. CASE \A t \in Occupied' : At(t)' \in InUse
  BY <1>1, <1>2 DEF AddressIdentifies, InUse
<1>3. CASE UNCHANGED <<ways, held>>
  <2>1. \A t \in Occupied' : At(t)' \in InUse
    BY <1>3 DEF InUse, Occupied, Slots, At
  <2> QED
    BY <1>2, <2>1
<1>4. ASSUME NEW p \in Procs, Moves(p), \A i \in FreeIds : ~ParkWin(p, i)
      PROVE  AddressIdentifies'
  <2>1. CASE TakeWin(p) \/ DropWin(p)
    <3>1. \A t \in Occupied' : t \in Occupied /\ At(t)' = At(t)
      BY <2>1, Claimed DEF Occupied
    <3> QED
      BY <1>2, <3>1 DEF InUse
  <2>2. CASE Release(p) \/ \E o \in Objs, s \in Sizes : Build(p, o, s)
    <3>1. \A t \in Occupied' : t \in Occupied /\ At(t)' = At(t)
      BY <2>2 DEF Release, Build, Occupied, Slots, At
    <3> QED
      BY <1>2, <3>1 DEF InUse
  <2> QED
    BY <1>4, <2>1, <2>2 DEF Moves
<1>5. ASSUME NEW p \in Procs, NEW i \in FreeIds, ParkWin(p, i)
      PROVE  AddressIdentifies'
  <2> DEFINE e == OfferedEntry(p, i)
  <2>1. \A f \in InUse : f.id # i
    BY <1>5 DEF InUse, FreeIds
  <2>2. e.id = i /\ \A t \in Occupied' : At(t)' \in InUse \cup {e}
    <3>0. e.id = i
      BY DEF OfferedEntry
    <3>1. \A t \in Slots :
            At(t)' = IF t = <<loc[p].grp, loc[p].free>> THEN e ELSE At(t)
      BY <1>5, StoreOne DEF ParkWin, LocalsAgree, TypeOK, Locals
    <3>2. Slots' = Slots
      BY DEF Slots, Group, Way
    <3>3. \A t \in Occupied' : t \in Slots /\ (At(t)' = e \/ At(t)' = At(t)) /\ At(t)' # Nil
      BY <3>1, <3>2 DEF Occupied
    <3> HIDE DEF e
    <3> QED
      BY <3>0, <3>3 DEF InUse, Occupied
  <2> HIDE DEF e
  <2>3. InUse' \subseteq InUse \cup {e}
    BY <1>1, <2>2 DEF InUse
  <2> QED
    BY <2>1, <2>2, <2>3 DEF AddressIdentifies
<1> QED
  BY <1>3, <1>4, <1>5, MovesOrNot

-----------------------------------------------------------------------------
(* The two sums over calls that the accounting speaks of.                  *)
Flying == Total([p \in Procs |-> InFlight(p)])
Staying == Total([p \in Procs |-> Resident(p)])

(* Every term of the sums is a number of bytes.                            *)
TermsTyped ==
  /\ \A s \in Slots : Weight(s) \in Nat
  /\ \A p \in Procs : InFlight(p) \in Nat /\ Resident(p) \in Nat
  /\ \A p \in Procs : Resident(p) <= InFlight(p)

(* Every term of the byte count is a natural.                              *)
LEMMA TermTypes == TypeOK /\ LocalsAgree => TermsTyped
<1> SUFFICES ASSUME TypeOK, LocalsAgree
             PROVE  /\ \A s \in Slots : Weight(s) \in Nat
                    /\ \A p \in Procs : InFlight(p) \in Nat
  BY DEF Resident, TermsTyped
<1>1. ASSUME NEW s \in Slots PROVE Weight(s) \in Nat
  <2>1. At(s) \in Entry \cup {Nil}
    BY DEF Slots, At, TypeOK
  <2> QED
    BY <2>1, SizesAssumption DEF Weight, Entry
<1>2. ASSUME NEW p \in Procs PROVE InFlight(p) \in Nat
  <2>1. loc[p].size \in Nat
    <3>1. loc[p].size \in Sizes \cup {0}
      BY DEF TypeOK, Locals
    <3>2. Sizes \cup {0} \subseteq Nat
      BY SizesAssumption
    <3> QED
      BY <3>1, <3>2, Zenon
  <2>2. pc[p] \in {"takeCredit", "dropCredit"} => loc[p].entry.size \in Nat
    BY SizesAssumption DEF TypeOK, LocalsAgree, Locals, Entry
  <2> QED
    BY <2>1, <2>2 DEF InFlight
<1> QED
  BY <1>1, <1>2

SumsTyped ==
  /\ ParkedBytes \in Nat /\ Flying \in Nat /\ Staying \in Nat
  /\ Staying <= Flying

(* So are their sums.                                                      *)
LEMMA SumTypes == TypeOK /\ LocalsAgree => SumsTyped
<1> SUFFICES ASSUME TypeOK, LocalsAgree PROVE SumsTyped
  OBVIOUS
<1> DEFINE w == [s \in Slots |-> Weight(s)]
           f == [p \in Procs |-> InFlight(p)]
           r == [p \in Procs |-> Resident(p)]
<1>1. w \in [Slots -> Nat] /\ f \in [Procs -> Nat] /\ r \in [Procs -> Nat]
  BY TermTypes DEF TermsTyped
<1>2. \A p \in Procs : r[p] <= f[p]
  BY TermTypes DEF TermsTyped
<1> HIDE DEF w, f, r
<1>3. Total(w) \in Nat /\ Total(f) \in Nat /\ Total(r) \in Nat
  BY <1>1, TotalType, SlotsFinite, ProcsAssumption
<1>4. Total(r) <= Total(f)
  BY <1>1, <1>2, TotalMonotone, ProcsAssumption
<1> QED
  BY <1>3, <1>4 DEF SumsTyped, ParkedBytes, Flying, Staying, w, f, r

(* A step of one call changes the sums by the change of its own terms.     *)
LEMMA CallCounted ==
  ASSUME TypeOK, LocalsAgree, TypeOK', LocalsAgree', NEW p \in Procs,
         \A q \in Procs \ {p} : loc'[q] = loc[q] /\ pc'[q] = pc[q]
  PROVE  /\ Flying' = Flying - InFlight(p) + InFlight(p)'
         /\ Staying' = Staying - Resident(p) + Resident(p)'
<1> DEFINE f == [q \in Procs |-> InFlight(q)]
           r == [q \in Procs |-> Resident(q)]
<1>1. f \in [Procs -> Nat] /\ r \in [Procs -> Nat]
  BY TermTypes DEF TermsTyped
<1>2. f' \in [Procs -> Nat] /\ r' \in [Procs -> Nat]
  <2>1. TermsTyped'
    BY TermTypes, PTL
  <2> QED
    BY <2>1 DEF TermsTyped
<1>3. \A q \in Procs \ {p} : f'[q] = f[q] /\ r'[q] = r[q]
  BY DEF InFlight, Resident
<1>4. f[p] = InFlight(p) /\ r[p] = Resident(p) /\ f'[p] = InFlight(p)' /\ r'[p] = Resident(p)'
  OBVIOUS
<1>5. Flying = Total(f) /\ Flying' = Total(f') /\ Staying = Total(r) /\ Staying' = Total(r')
  BY DEF Flying, Staying, Total, Units
<1> HIDE DEF f, r
<1>6. Total(f') = Total(f) - f[p] + f'[p] /\ Total(r') = Total(r) - r[p] + r'[p]
  BY <1>1, <1>2, <1>3, TotalUpdate, ProcsAssumption
<1> QED
  BY <1>4, <1>5, <1>6

(* A store into one way changes the parked bytes by what the way held.     *)
LEMMA WayCounted ==
  ASSUME TypeOK, LocalsAgree, TypeOK', LocalsAgree', NEW s \in Slots,
         \A t \in Slots \ {s} : At(t)' = At(t)
  PROVE  ParkedBytes' = ParkedBytes - Weight(s) + Weight(s)'
<1> DEFINE w == [t \in Slots |-> Weight(t)]
<1>1. w \in [Slots -> Nat] /\ Slots' = Slots
  BY TermTypes DEF TermsTyped, Slots, Group, Way
<1>2. w' \in [Slots -> Nat]
  <2>1. TermsTyped'
    BY TermTypes, PTL
  <2> QED
    BY <1>1, <2>1 DEF TermsTyped
<1>3. \A t \in Slots \ {s} : w'[t] = w[t]
  BY <1>1 DEF Weight
<1>4. w[s] = Weight(s) /\ w'[s] = Weight(s)'
  BY <1>1
<1>5. ParkedBytes = Total(w) /\ ParkedBytes' = Total(w')
  BY DEF ParkedBytes, Total, Units
<1> HIDE DEF w
<1>6. Total(w') = Total(w) - w[s] + w'[s]
  BY <1>1, <1>2, <1>3, TotalUpdate, SlotsFinite
<1> QED
  BY <1>4, <1>5, <1>6

(* Accounting in terms of the sums.                                        *)
LEMMA AccountingSums ==
  Accounting <=> charged = ParkedBytes + Flying /\ ParkedBytes + Staying <= Budget
BY DEF Accounting, ChargeExact, WithinBudget, Flying, Staying

(* Each step moves bytes between a way, a call and the counter without     *)
(* losing any, and only an Offer whose sum stayed within the budget adds   *)
(* to what is resident.                                                    *)
LEMMA AccountingStep ==
  ASSUME TypeOK, LocalsAgree, Accounting, TypeOK', LocalsAgree', [Next]_vars
  PROVE  Accounting'
<1> DEFINE others(p) == \A q \in Procs \ {p} : loc'[q] = loc[q] /\ pc'[q] = pc[q]
<1>1. /\ charged = ParkedBytes + Flying /\ ParkedBytes + Staying <= Budget
      /\ charged \in Int /\ Budget \in Int
  BY AccountingSums, LimitsAssumption DEF TypeOK
<1>2. SumsTyped
  BY SumTypes
<1>3. SumsTyped'
  BY SumTypes, PTL
<1>4. SUFFICES charged' = ParkedBytes' + Flying' /\ ParkedBytes' + Staying' <= Budget
  <2>1. Accounting' <=>
          (charged = ParkedBytes + Flying /\ ParkedBytes + Staying <= Budget)'
    BY AccountingSums, PTL
  <2> QED
    BY <1>4, <2>1
<1>5. \A p \in Procs : InFlight(p) \in Nat /\ Resident(p) \in Nat
  BY TermTypes DEF TermsTyped
<1>6. ways' = ways => ParkedBytes' = ParkedBytes
  BY DEF ParkedBytes, Total, Units, Weight, At, Slots, Group, Way
<1>7. ASSUME NEW p \in Procs, others(p), UNCHANGED <<ways, charged>>,
             InFlight(p)' = InFlight(p), Resident(p)' = Resident(p)
      PROVE  charged' = ParkedBytes' + Flying' /\ ParkedBytes' + Staying' <= Budget
  BY <1>1, <1>2, <1>5, <1>6, <1>7, CallCounted DEF SumsTyped
<1> DEFINE Goal == charged' = ParkedBytes' + Flying' /\ ParkedBytes' + Staying' <= Budget
<1>8. ASSUME NEW p \in Procs, Client(p) \/ Enable(p) PROVE Goal
  <2>1. others(p) /\ UNCHANGED <<ways, charged, pc, loc>>
    BY <1>8 DEF Client, Build, Grow, Release, Enable
  <2>2. InFlight(p)' = InFlight(p) /\ Resident(p)' = Resident(p)
    BY <2>1 DEF InFlight, Resident
  <2> QED
    BY <1>7, <2>1, <2>2
<1>9. ASSUME NEW p \in Procs,
             \/ (\E k \in Keys : TakeCall(p, k)) \/ OfferCall(p) \/ Disable(p)
             \/ TakeLoad(p) \/ TakePass(p) \/ TakeLose(p) \/ Survey(p)
             \/ DropLoad(p) \/ DropPass(p) \/ DropLose(p)
      PROVE  Goal
  <2>1. UNCHANGED <<ways, charged>>
    BY <1>9 DEF TakeCall, OfferCall, Disable, TakeLoad, TakePass, TakeLose, Survey,
                DropLoad, DropPass, DropLose
  <2>2. CASE \/ (\E k \in Keys : TakeCall(p, k)) \/ OfferCall(p) \/ Disable(p)
             \/ TakeLoad(p) \/ DropLoad(p)
    <3>1. others(p)
      BY <2>2 DEF TakeCall, OfferCall, Disable, TakeLoad, DropLoad, Goto, TypeOK
    <3>2. /\ pc[p] \in {"idle", "take", "drop"}
          /\ pc'[p] \in {"take", "takeCAS", "survey", "drop", "dropCAS"}
      BY <2>2 DEF TakeCall, OfferCall, Disable, TakeLoad, DropLoad, Goto, TypeOK
    <3>3. InFlight(p) = 0 /\ InFlight(p)' = 0 /\ Resident(p) = 0 /\ Resident(p)' = 0
      BY <3>2 DEF InFlight, Resident
    <3> QED
      BY <1>7, <2>1, <3>1, <3>3
  <2>3. CASE TakePass(p) \/ TakeLose(p)
    <3>1. TakeOn(p) /\ pc[p] \in {"take", "takeCAS"}
      BY <2>3 DEF TakePass, TakeLose
    <3>2. others(p) /\ pc'[p] \in {"idle", "take"}
      BY <3>1, TakeOnType
    <3>3. InFlight(p) = 0 /\ InFlight(p)' = 0 /\ Resident(p) = 0 /\ Resident(p)' = 0
      BY <3>1, <3>2 DEF InFlight, Resident
    <3> QED
      BY <1>7, <2>1, <3>2, <3>3
  <2>4. CASE DropPass(p) \/ DropLose(p)
    <3>1. DropOn(p) /\ pc[p] \in {"drop", "dropCAS"}
      BY <2>4 DEF DropPass, DropLose
    <3>2. others(p) /\ pc'[p] \in {"idle", "drop"}
      BY <3>1, DropOnType
    <3>3. InFlight(p) = 0 /\ InFlight(p)' = 0 /\ Resident(p) = 0 /\ Resident(p)' = 0
      BY <3>1, <3>2 DEF InFlight, Resident
    <3> QED
      BY <1>7, <2>1, <3>2, <3>3
  <2>5. CASE Survey(p)
    <3>1. others(p) /\ pc'[p] \in {"survey", "charge", "idle"} /\ pc[p] = "survey"
      BY <2>5, ReturnType DEF Survey, Goto, TypeOK
    <3>2. InFlight(p) = 0 /\ InFlight(p)' = 0 /\ Resident(p) = 0 /\ Resident(p)' = 0
      BY <3>1 DEF InFlight, Resident
    <3> QED
      BY <1>7, <2>1, <3>1, <3>2
  <2> QED
    BY <1>9, <2>2, <2>3, <2>4, <2>5
<1>10. ASSUME NEW p \in Procs, TakeWin(p) \/ DropWin(p) PROVE Goal
  <2>1. PICK s \in Slots : s = <<loc[p].grp, loc[p].pos>>
    BY LoadType
  <2>2. /\ At(s) = loc[p].entry /\ At(s) # Nil /\ At(s)' = Nil
        /\ \A t \in Slots \ {s} : At(t)' = At(t)
    BY <1>10, <2>1, Claimed DEF Occupied
  <2>3. Weight(s) = loc[p].entry.size /\ Weight(s)' = 0
    BY <2>2 DEF Weight
  <2>4. /\ others(p) /\ UNCHANGED <<charged, loc>>
        /\ pc[p] \in {"takeCAS", "dropCAS"} /\ pc'[p] \in {"takeCredit", "dropCredit"}
    BY <1>10 DEF TakeWin, DropWin, Goto, TypeOK
  <2>5. /\ InFlight(p) = 0 /\ InFlight(p)' = loc[p].entry.size
        /\ Resident(p) = 0 /\ Resident(p)' = loc[p].entry.size
    BY <2>4 DEF InFlight, Resident
  <2>6. ParkedBytes' = ParkedBytes - Weight(s) + Weight(s)'
    BY <2>2, WayCounted
  <2>7. /\ Flying' = Flying - InFlight(p) + InFlight(p)'
        /\ Staying' = Staying - Resident(p) + Resident(p)'
    BY <2>4, CallCounted
  <2>8. loc[p].entry.size \in Nat
    BY <2>3, TermTypes DEF TermsTyped
  <2> QED
    BY <1>1, <1>2, <2>3, <2>4, <2>5, <2>6, <2>7, <2>8 DEF SumsTyped
<1>11. ASSUME NEW p \in Procs, TakeCredit(p) \/ DropCredit(p) PROVE Goal
  <2>1. /\ ways' = ways /\ charged' = charged - loc[p].entry.size
        /\ pc[p] \in {"takeCredit", "dropCredit"}
    BY <1>11 DEF TakeCredit, DropCredit
  <2>2. others(p) /\ pc'[p] \in {"idle", "drop"}
    BY <1>11, ReturnType, DropOnType DEF TakeCredit, DropCredit
  <2>3. /\ InFlight(p) = loc[p].entry.size /\ InFlight(p)' = 0
        /\ Resident(p) = loc[p].entry.size /\ Resident(p)' = 0
    BY <2>1, <2>2 DEF InFlight, Resident
  <2>4. /\ Flying' = Flying - InFlight(p) + InFlight(p)'
        /\ Staying' = Staying - Resident(p) + Resident(p)'
    BY <2>2, CallCounted
  <2> QED
    BY <1>1, <1>2, <1>5, <1>6, <2>1, <2>3, <2>4 DEF SumsTyped
<1>12. ASSUME NEW p \in Procs, Charge(p) PROVE Goal
  <2>1. /\ ways' = ways /\ loc' = loc /\ charged' = charged + loc[p].size
        /\ others(p) /\ pc[p] = "charge"
        /\ pc'[p] = IF charged + loc[p].size > Budget THEN "refund" ELSE "park"
    BY <1>12 DEF Charge, Goto, TypeOK
  <2>2. InFlight(p) = 0 /\ InFlight(p)' = loc[p].size /\ Resident(p) = 0
    BY <2>1 DEF InFlight, Resident
  <2>3. /\ pc'[p] = "refund" => Resident(p)' = 0
        /\ loc[p].size \in Nat
    BY <2>1, <1>12, SizesAssumption DEF Resident, Charge, LocalsAgree, Offering
  <2>4. /\ Flying' = Flying - InFlight(p) + InFlight(p)'
        /\ Staying' = Staying - Resident(p) + Resident(p)'
    BY <2>1, CallCounted
  <2>5. charged' = ParkedBytes' + Flying'
    BY <1>1, <1>2, <1>6, <2>1, <2>2, <2>3, <2>4 DEF SumsTyped
  <2>6. CASE charged + loc[p].size > Budget
    BY <1>1, <1>2, <1>6, <2>1, <2>2, <2>3, <2>4, <2>5, <2>6 DEF SumsTyped
  <2>7. CASE charged + loc[p].size <= Budget
    BY <1>1, <1>3, <2>1, <2>3, <2>5, <2>7 DEF SumsTyped
  <2> QED
    BY <1>1, <2>3, <2>6, <2>7
<1>13. ASSUME NEW p \in Procs, NEW i \in FreeIds, ParkWin(p, i) PROVE Goal
  <2>1. PICK s \in Slots : s = <<loc[p].grp, loc[p].free>>
    BY <1>13, Parked
  <2>2. PICK e \in Entry : e = OfferedEntry(p, i)
    BY <1>13, Parked
  <2>3. /\ At(s) = Nil /\ At(s)' = e /\ e # Nil /\ e.size = loc[p].size
        /\ \A t \in Slots \ {s} : At(t)' = At(t)
    BY <1>13, <2>1, <2>2, Parked, NilAssumption
  <2>4. Weight(s) = 0 /\ Weight(s)' = loc[p].size
    BY <2>3 DEF Weight
  <2>5. others(p) /\ charged' = charged /\ pc[p] = "park" /\ pc'[p] = "idle"
    BY <1>13, ReturnType DEF ParkWin
  <2>6. /\ InFlight(p) = loc[p].size /\ InFlight(p)' = 0
        /\ Resident(p) = loc[p].size /\ Resident(p)' = 0
    BY <2>5 DEF InFlight, Resident
  <2>7. ParkedBytes' = ParkedBytes - Weight(s) + Weight(s)'
    BY <2>3, WayCounted
  <2>8. /\ Flying' = Flying - InFlight(p) + InFlight(p)'
        /\ Staying' = Staying - Resident(p) + Resident(p)'
    BY <2>5, CallCounted
  <2> QED
    BY <1>1, <1>2, <1>5, <2>4, <2>5, <2>6, <2>7, <2>8 DEF SumsTyped
<1>14. ASSUME NEW p \in Procs, ParkLose(p) PROVE Goal
  <2>1. /\ UNCHANGED <<ways, charged, loc>> /\ others(p)
        /\ pc[p] = "park" /\ pc'[p] = "refund"
    BY <1>14 DEF ParkLose, Goto, TypeOK
  <2>2. InFlight(p)' = InFlight(p) /\ Resident(p)' = 0
    BY <2>1 DEF InFlight, Resident
  <2>3. /\ Flying' = Flying - InFlight(p) + InFlight(p)'
        /\ Staying' = Staying - Resident(p) + Resident(p)'
    BY <2>1, CallCounted
  <2>4. InFlight(p) \in Nat /\ Resident(p) \in Nat
    BY <1>5
  <2>5. /\ charged' = charged /\ ParkedBytes' = ParkedBytes
        /\ Flying' = Flying /\ Staying' = Staying - Resident(p)
    BY <1>2, <1>6, <2>1, <2>2, <2>3, <2>4 DEF SumsTyped
  <2> QED
    BY <1>1, <1>2, <2>4, <2>5 DEF SumsTyped
<1>15. ASSUME NEW p \in Procs, Refund(p) PROVE Goal
  <2>1. /\ ways' = ways /\ charged' = charged - loc[p].size
        /\ others(p) /\ pc[p] = "refund" /\ pc'[p] = "idle"
    BY <1>15, ReturnType DEF Refund
  <2>2. /\ InFlight(p) = loc[p].size /\ InFlight(p)' = 0
        /\ Resident(p) = 0 /\ Resident(p)' = 0
    BY <2>1 DEF InFlight, Resident
  <2>3. /\ Flying' = Flying - InFlight(p) + InFlight(p)'
        /\ Staying' = Staying - Resident(p) + Resident(p)'
    BY <2>1, CallCounted
  <2> QED
    BY <1>1, <1>2, <1>5, <1>6, <2>1, <2>2, <2>3 DEF SumsTyped
<1>16. CASE UNCHANGED vars
  <2>1. UNCHANGED <<ways, charged>> /\ Flying' = Flying /\ Staying' = Staying
    BY <1>16 DEF vars, Flying, Staying, Total, Units, InFlight, Resident
  <2> QED
    BY <1>1, <1>6, <2>1
<1> QED
  BY <1>8, <1>9, <1>10, <1>11, <1>12, <1>13, <1>14, <1>15, <1>16
  DEF Next, TakeStep, OfferStep, DropStep

-----------------------------------------------------------------------------
(* The invariant holds at first, when nothing is parked or charged.        *)
LEMMA Initially == Init => IInv
<1> SUFFICES ASSUME Init PROVE IInv
  OBVIOUS
<1>1. \A s \in Slots : At(s) = Nil
  BY DEF Init, Slots, At
<1>2. TypeOK
  <2>1. ways \in [Group -> [Way -> Entry \cup {Nil}]]
    BY DEF Init
  <2>2. loc \in [Procs -> Locals] /\ pc \in [Procs -> PCs]
    BY NoLocalsType DEF Init, PCs
  <2>3. held \in [Procs -> Objs \cup {Nil}] /\ foot \in [Procs -> Sizes \cup {0}]
    BY DEF Init
  <2>4. charged \in Int
    BY SMT DEF Init
  <2>5. disabled \in BOOLEAN
    BY Zenon DEF Init
  <2> QED
    BY <2>1, <2>2, <2>3, <2>4, <2>5 DEF TypeOK
<1>3. LocalsAgree
  BY DEF Init, LocalsAgree, Offering
<1>4. EntriesKeyed /\ SingleOwner
  BY <1>1 DEF Init, EntriesKeyed, SingleOwner, Occupied
<1>5. AddressIdentifies
  BY <1>1 DEF Init, AddressIdentifies, InUse, Occupied, NoLocals
<1>6. Accounting
  <2> DEFINE w == [s \in Slots |-> Weight(s)]
             f == [p \in Procs |-> InFlight(p)]
             r == [p \in Procs |-> Resident(p)]
  <2>1. /\ w \in [Slots -> Nat] /\ \A s \in Slots : w[s] = 0
        /\ f \in [Procs -> Nat] /\ \A p \in Procs : f[p] = 0
        /\ r \in [Procs -> Nat] /\ \A p \in Procs : r[p] = 0
    BY <1>1 DEF Init, Weight, InFlight, Resident
  <2> HIDE DEF w, f, r
  <2>2. Total(w) = 0 /\ Total(f) = 0 /\ Total(r) = 0
    BY <2>1, TotalZero
  <2>3. ParkedBytes = 0 /\ Flying = 0 /\ Staying = 0
    BY <2>2 DEF ParkedBytes, Flying, Staying, w, f, r
  <2> QED
    BY <2>3, AccountingSums, LimitsAssumption DEF Init
<1> QED
  BY <1>2, <1>3, <1>4, <1>5, <1>6 DEF IInv

(* Every step keeps it.                                                    *)
LEMMA Inductive == IInv /\ [Next]_vars => IInv'
<1> SUFFICES ASSUME IInv, [Next]_vars PROVE IInv'
  OBVIOUS
<1>1. TypeOK' /\ LocalsAgree'
  BY LocalStep DEF IInv
<1> QED
  BY <1>1, OwnerStep, AddressStep, AccountingStep DEF IInv

(* So it holds always.                                                     *)
LEMMA Invariance == Spec => []IInv
BY Initially, Inductive, PTL DEF Spec

(* Two goroutines never own one object, and none owns what is parked,      *)
(* whatever Takes, Offers and SetEnabled race (objpool.go:108).            *)
THEOREM OneOwner == Spec => [](TypeOK /\ SingleOwner)
<1>1. IInv => TypeOK /\ SingleOwner
  BY DEF IInv
<1> QED
  BY <1>1, Invariance, PTL

(* A Take that claims an entry returns an object of the caller's own key.  *)
LEMMA TakeKey ==
  ASSUME TypeOK, LocalsAgree, EntriesKeyed, [Next]_vars, NEW p \in Procs,
         pc[p] = "takeCAS", pc'[p] = "takeCredit"
  PROVE  KeyOf[held'[p]] = loc[p].key
<1>1. ASSUME NEW q \in Procs, TakeOn(q) PROVE pc'[p] # "takeCredit"
  BY <1>1, TakeOnType
<1>2. ASSUME NEW q \in Procs, DropOn(q) PROVE pc'[p] # "takeCredit"
  BY <1>2, DropOnType
<1>3. ASSUME NEW q \in Procs, Return(q) PROVE pc'[p] # "takeCredit"
  BY <1>3, ReturnType
<1>4. ASSUME NEW q \in Procs, Client(q) \/ OfferStep(q) PROVE FALSE
  BY <1>3, <1>4 DEF Client, Build, Grow, Release, OfferStep, Survey, Charge, ParkWin,
     ParkLose, Refund, Goto, TypeOK
<1>5. ASSUME NEW q \in Procs, DropStep(q) PROVE FALSE
  BY <1>2, <1>5 DEF DropStep, DropLoad, DropPass, DropWin, DropLose, DropCredit, Goto, TypeOK
<1>6. ASSUME NEW q \in Procs,
             (\E k \in Keys : TakeCall(q, k)) \/ OfferCall(q) \/ Enable(q) \/ Disable(q)
      PROVE  FALSE
  BY <1>6 DEF TakeCall, OfferCall, Enable, Disable, Goto, TypeOK
<1>7. ~UNCHANGED vars
  BY DEF vars
<1>8. PICK q \in Procs : TakeStep(q)
  BY <1>4, <1>5, <1>6, <1>7 DEF Next
<1>9. TakeWin(q)
  BY <1>1, <1>3, <1>8 DEF TakeStep, TakeLoad, TakePass, TakeLose, TakeCredit, Goto, TypeOK
<1>10. q = p
  BY <1>9 DEF TakeWin, Goto, TypeOK
<1>11. PICK s \in Occupied : At(s) = loc[p].entry /\ loc[p].entry.key = loc[p].key
  BY <1>9, <1>10, Claimed
<1>12. held'[p] = loc[p].entry.obj
  BY <1>9, <1>10 DEF TakeWin, TypeOK
<1> QED
  BY <1>11, <1>12 DEF EntriesKeyed

(* The same with the keys: an object passes only to a caller of its own    *)
(* key, even when the way was emptied and refilled under the caller's CAS. *)
THEOREM OwnershipHolds == Spec => Ownership
<1>1. IInv /\ [Next]_vars =>
        [\A p \in Procs :
           pc[p] = "takeCAS" /\ pc'[p] = "takeCredit" => KeyOf[held'[p]] = loc[p].key]_vars
  BY TakeKey DEF IInv
<1>2. Spec => TakeReturnsOwnKey
  BY <1>1, Invariance, PTL DEF Spec, TakeReturnsOwnKey
<1> QED
  BY <1>2, OneOwner, PTL DEF Ownership

(* The byte counter is exact and the budget bounds what is resident, with  *)
(* every race of Takes, Offers and SetEnabled (objpool.go:134).            *)
THEOREM AccountingHolds == Spec => []Accounting
<1>1. IInv => Accounting
  BY DEF IInv
<1> QED
  BY <1>1, Invariance, PTL

(* A compare-and-swap on the address of an entry succeeds only if the way  *)
(* still holds the very entry that was loaded: no address is reused under  *)
(* a call (objpool.go:108, the garbage collector).                         *)
THEOREM NoAddressReuse == Spec => []AddressIdentifies
<1>1. IInv => AddressIdentifies
  BY DEF IInv
<1> QED
  BY <1>1, Invariance, PTL

-----------------------------------------------------------------------------
(* ObjPool implements Reserve, the atomic reserve: a successful CAS of     *)
(* Take, Offer or SetEnabled is the step at which its object changes       *)
(* hands, and every other step is invisible to the callers.                *)
ParkedObjs == {At(s).obj : s \in Occupied}

(* Every step is one of the atomic reserve, or leaves it alone.            *)
LEMMA StepImplements ==
  ASSUME TypeOK, LocalsAgree, SingleOwner, [Next]_vars
  PROVE  [Abstract!Next]_(Abstract!vars)
<1> DEFINE Goal == [Abstract!Next]_(Abstract!vars)
<1> USE DEF Abstract!vars, Abstract!Next
<1>0. \A s \in Occupied : At(s) \in Entry /\ At(s).obj \in Objs
  BY DEF Occupied, Slots, At, TypeOK, Entry
<1>1. CASE UNCHANGED <<ways, held>>
  <2>1. ParkedObjs' = ParkedObjs
    BY <1>1 DEF ParkedObjs, Occupied, Slots, At
  <2> QED
    BY <1>1, <2>1 DEF ParkedObjs
<1>2. ASSUME NEW p \in Procs, NEW o \in Objs, NEW s \in Sizes, Build(p, o, s) PROVE Goal
  <2>1. ParkedObjs' = ParkedObjs
    BY <1>2 DEF Build, ParkedObjs, Occupied, Slots, At
  <2>2. Abstract!Build(p, o)
    BY <1>2, <2>1 DEF Build, Abstract!Build, Owned, Abstract!Owned, ParkedObjs
  <2> QED
    BY <2>2
<1>3. ASSUME NEW p \in Procs, Release(p) PROVE Goal
  <2>1. ParkedObjs' = ParkedObjs
    BY <1>3 DEF Release, ParkedObjs, Occupied, Slots, At
  <2>2. Abstract!Release(p)
    BY <1>3, <2>1 DEF Release, Abstract!Release, ParkedObjs
  <2> QED
    BY <2>2
<1>4. ASSUME NEW p \in Procs, TakeWin(p) \/ DropWin(p)
      PROVE  /\ loc[p].entry.obj \in ParkedObjs \cap Objs
             /\ ParkedObjs' = ParkedObjs \ {loc[p].entry.obj}
  <2>1. PICK s \in Occupied :
          /\ At(s) = loc[p].entry /\ Occupied' = Occupied \ {s}
          /\ \A t \in Occupied \ {s} : At(t)' = At(t)
    BY <1>4, Claimed DEF Occupied
  <2> QED
    BY <1>0, <2>1 DEF ParkedObjs, SingleOwner
<1>5. ASSUME NEW p \in Procs, TakeWin(p) PROVE Goal
  <2>1. held[p] = Nil
    BY <1>5 DEF TakeWin, LocalsAgree
  <2>2. Abstract!Take(p, loc[p].entry.obj)
    BY <1>4, <1>5, <2>1 DEF TakeWin, Abstract!Take, ParkedObjs
  <2> QED
    BY <1>4, <1>5, <2>2
<1>6. ASSUME NEW p \in Procs, DropWin(p) PROVE Goal
  <2>1. Abstract!Evict(loc[p].entry.obj)
    BY <1>4, <1>6 DEF DropWin, Abstract!Evict, ParkedObjs
  <2> QED
    BY <1>4, <1>6, <2>1
<1>7. ASSUME NEW p \in Procs, NEW i \in FreeIds, ParkWin(p, i) PROVE Goal
  <2>1. PICK s \in Slots, e \in Entry :
          /\ s \notin Occupied /\ Occupied' = Occupied \cup {s}
          /\ e.obj = held[p] /\ held[p] # Nil
          /\ \A t \in Occupied' : At(t)' = IF t = s THEN e ELSE At(t)
    <3>1. PICK s \in Slots : s = <<loc[p].grp, loc[p].free>>
      BY <1>7, Parked
    <3>2. PICK e \in Entry : e = OfferedEntry(p, i)
      BY <1>7, Parked
    <3> QED
      BY <1>7, <3>1, <3>2, Parked DEF Occupied
  <2>2. ParkedObjs' = ParkedObjs \cup {held[p]}
    BY <2>1 DEF ParkedObjs
  <2>3. Abstract!Offer(p)
    BY <1>7, <2>1, <2>2 DEF ParkWin, Abstract!Offer, ParkedObjs
  <2> QED
    BY <2>3
<1> QED
  BY <1>1, <1>2, <1>3, <1>5, <1>6, <1>7, MovesOrNot DEF Moves

(* For any number of goroutines, keys, groups and ways, ObjPool implements *)
(* the atomic reserve its callers rely on (objpool.go:108).                *)
THEOREM Implements == Spec => ImplementsReserve
<1>1. Init => Abstract!Init
  BY DEF Init, Abstract!Init, Occupied, Slots, At
<1>2. IInv /\ [Next]_vars => [Abstract!Next]_(Abstract!vars)
  BY StepImplements DEF IInv
<1> QED
  BY <1>1, <1>2, Invariance, PTL DEF Spec, ImplementsReserve, Abstract!Spec
=============================================================================
