-------------------------- MODULE ParserPoolProofs --------------------------
(***************************************************************************)
(* Proofs about the lending of parsers for any number of goroutines and    *)
(* parsers: a parser is in one place, the in-flight counter is exact, and  *)
(* the reserve takes only surplus.                                         *)
(***************************************************************************)
EXTENDS ParserPool, FiniteSetTheorems, TLAPS

(* A goroutine has a parser exactly between the getParser that lent it and *)
(* the step of putParser that gives it back.                               *)
Borrowing == {"use", "slot", "slotCAS", "reserve"}
BorrowersHold == \A p \in Procs : held[p] # Nil <=> pc[p] \in Borrowing

(* A goroutine that will leave a parser in the hot slot or in the pool     *)
(* unless another one is still out: it has not yet read the counter, or it *)
(* read zero.                                                              *)
Returning == {"slot", "slotCAS", "reserve"}
Owes(p) ==
  \/ pc[p] \in {"count", "get", "use"}
  \/ pc[p] \in Returning /\ others[p] = 0

(* Whenever the reserve holds a parser, or a goroutine is about to offer   *)
(* one, the pool side has a parser or is owed one.                         *)
SurplusOnly ==
  ~collected /\ (parked # {} \/ \E p \in Procs : pc[p] \in Returning /\ others[p] > 0)
    => pool # {} \/ hot # Nil \/ \E p \in Procs : Owes(p)

IInv ==
  /\ TypeOK
  /\ OnePlace
  /\ BorrowersHold
  /\ InFlightExact
  /\ SurplusOnly

-----------------------------------------------------------------------------
(* OnePlace, borrower by borrower.                                         *)
LEMMA PlaceByBorrower ==
  OnePlace <=>
    /\ \A p, q \in Procs : held[p] # Nil /\ held[p] = held[q] => p = q
    /\ \A o \in pool : o \notin parked /\ o # hot
    /\ hot \notin parked
    /\ \A p \in Procs :
         held[p] # Nil => held[p] \notin pool /\ held[p] \notin parked /\ held[p] # hot
BY DEF OnePlace, Lent

(* No step of getParser, putParser, the collector or the test hook puts a  *)
(* parser in a second place.                                               *)
LEMMA PlaceStep ==
  ASSUME TypeOK, OnePlace, BorrowersHold, [Next]_vars
  PROVE  OnePlace' /\ BorrowersHold'
<1> DEFINE Places ==
             /\ \A p, q \in Procs : held[p] # Nil /\ held[p] = held[q] => p = q
             /\ \A o \in pool : o \notin parked /\ o # hot
             /\ hot \notin parked
             /\ \A p \in Procs :
                  held[p] # Nil => held[p] \notin pool /\ held[p] \notin parked /\ held[p] # hot
           Goal == Places' /\ BorrowersHold'
<1>0. Places
  BY PlaceByBorrower
<1> SUFFICES Goal
  <2>1. OnePlace' <=> Places'
    BY PlaceByBorrower, PTL
  <2> QED
    BY <2>1
<1> USE NilAssumption DEF BorrowersHold, Borrowing, TypeOK
<1>1. ASSUME NEW p \in Procs, GetHot(p) PROVE Goal
  BY <1>0, <1>1 DEF GetHot, Borrow, Goto
<1>2. ASSUME NEW p \in Procs, GetNoHot(p) \/ GetCount(p) PROVE Goal
  BY <1>0, <1>2 DEF GetNoHot, GetCount, Goto
<1>3. ASSUME NEW p \in Procs, NEW o \in Parsers, PoolHit(p, o) PROVE Goal
  BY <1>0, <1>3 DEF PoolHit, Lend, Borrow, Goto
<1>4. ASSUME NEW p \in Procs, NEW o \in Parsers, NewWarm(p, o) PROVE Goal
  BY <1>0, <1>4 DEF NewWarm, Lend, Borrow, Goto
<1>5. ASSUME NEW p \in Procs, NEW o \in Parsers, NewCold(p, o) PROVE Goal
  <2>1. o \notin pool /\ o \notin parked /\ o # hot /\ \A q \in Procs : held[q] # o
    BY <1>5 DEF NewCold, Live, Lent
  <2> QED
    BY <1>0, <1>5, <2>1 DEF NewCold, Lend, Borrow, Goto
<1>6. ASSUME NEW p \in Procs, Grow(p) PROVE Goal
  BY <1>0, <1>6 DEF Grow
<1>7. ASSUME NEW p \in Procs, PutRelease(p) \/ PutTrySlot(p) \/ PutHotTaken(p) PROVE Goal
  BY <1>0, <1>7 DEF PutRelease, PutTrySlot, PutHotTaken, Goto
<1>8. ASSUME NEW p \in Procs, PutHot(p) PROVE Goal
  BY <1>0, <1>8 DEF PutHot, Returned, Borrow, Goto
<1>9. ASSUME NEW p \in Procs, PutReserve(p) PROVE Goal
  BY <1>0, <1>9 DEF PutReserve, Returned, Borrow, Goto
<1>10. ASSUME NEW p \in Procs, PutPool(p) PROVE Goal
  BY <1>0, <1>10 DEF PutPool, Returned, Borrow, Goto
<1>11. ASSUME NEW o \in Parsers, Collect(o) PROVE Goal
  BY <1>0, <1>11 DEF Collect
<1>12. ASSUME NEW on \in BOOLEAN, SetReserveEnabled(on) PROVE Goal
  BY <1>0, <1>12 DEF SetReserveEnabled
<1>13. CASE UNCHANGED vars
  BY <1>0, <1>13 DEF vars
<1> QED
  BY <1>1, <1>2, <1>3, <1>4, <1>5, <1>6, <1>7, <1>8, <1>9, <1>10, <1>11, <1>12, <1>13
  DEF Next, Get, Put

-----------------------------------------------------------------------------
(* How the set of charged borrows, and so its size, can change.            *)
LEMMA ChargedCounts ==
  /\ IsFiniteSet(Charged) /\ Cardinality(Charged) \in Nat
  /\ \A p \in Procs : p \notin Charged =>
       Cardinality(Charged \cup {p}) = Cardinality(Charged) + 1
  /\ \A p \in Charged : /\ Cardinality(Charged \ {p}) = Cardinality(Charged) - 1
                        /\ Cardinality(Charged) >= 1
  /\ Charged = {} <=> Cardinality(Charged) = 0
<1>1. IsFiniteSet(Charged)
  BY ProcsAssumption, FS_Subset DEF Charged
<1>2. Cardinality(Charged) \in Nat
  BY <1>1, FS_CardinalityType
<1>3. ASSUME NEW p \in Procs, p \notin Charged
      PROVE  Cardinality(Charged \cup {p}) = Cardinality(Charged) + 1
  BY <1>1, <1>3, FS_AddElement
<1>4. ASSUME NEW p \in Charged
      PROVE  Cardinality(Charged \ {p}) = Cardinality(Charged) - 1
  BY <1>1, FS_RemoveElement
<1>5. Charged = {} <=> Cardinality(Charged) = 0
  BY <1>1, FS_EmptySet
<1> QED
  BY <1>1, <1>2, <1>3, <1>4, <1>5

(* The counter follows the set of pool borrows: what getParser charged is  *)
(* released once, and a borrow from the hot slot never is.                 *)
LEMMA CountStep ==
  ASSUME TypeOK, OnePlace, BorrowersHold, InFlightExact, [Next]_vars
  PROVE  InFlightExact'
<1> USE DEF TypeOK
<1>0. \A p, q \in Procs : held[p] # Nil /\ held[p] = held[q] => p = q
  BY DEF OnePlace
<1>a. CASE Charged' = Charged /\ inFlight' = inFlight
  BY <1>a DEF InFlightExact
<1>1. ASSUME NEW p \in Procs, GetHot(p) PROVE InFlightExact'
  <2>1. \A q \in Procs : held[q] # hot \/ held[q] = Nil
    BY PlaceByBorrower
  <2>2. Charged' = Charged
    BY <1>1, <2>1, NilAssumption DEF GetHot, Borrow, Goto, Charged, BorrowersHold, Borrowing
  <2> QED
    BY <1>a, <1>1, <2>2 DEF GetHot
<1>2. ASSUME NEW p \in Procs, GetCount(p) PROVE InFlightExact'
  <2>1. p \notin Charged /\ Charged' = Charged \cup {p}
    BY <1>2 DEF GetCount, Goto, Charged
  <2> QED
    BY <1>2, <2>1, ChargedCounts DEF GetCount, InFlightExact
<1>3. ASSUME NEW p \in Procs, NEW o \in Parsers, Lend(p, o),
             \A q \in Procs : held[q] # o
      PROVE  InFlightExact'
  <2>1. Charged' = Charged
    BY <1>3, NilAssumption DEF Lend, Borrow, Goto, Charged, BorrowersHold, Borrowing
  <2> QED
    BY <1>a, <1>3, <2>1 DEF Lend
<1>4. ASSUME NEW p \in Procs, NEW o \in Parsers,
             PoolHit(p, o) \/ NewWarm(p, o) \/ NewCold(p, o)
      PROVE  InFlightExact'
  <2>1. Lend(p, o)
    BY <1>4 DEF PoolHit, NewWarm, NewCold
  <2>2. \A q \in Procs : held[q] # o
    BY <1>4, PlaceByBorrower, NilAssumption DEF PoolHit, NewWarm, NewCold, Live, Lent
  <2> QED
    BY <1>3, <2>1, <2>2
<1>5. ASSUME NEW p \in Procs, PutRelease(p) PROVE InFlightExact'
  <2>1. CASE counted[held[p]]
    <3>1. p \in Charged /\ Charged' = Charged \ {p}
      BY <1>5, <2>1 DEF PutRelease, Goto, Charged
    <3> QED
      BY <1>5, <2>1, <3>1, ChargedCounts DEF PutRelease, InFlightExact
  <2>2. CASE ~counted[held[p]]
    <3>1. Charged' = Charged
      BY <1>5, <2>2 DEF PutRelease, Goto, Charged
    <3> QED
      BY <1>a, <1>5, <2>2, <3>1 DEF PutRelease
  <2> QED
    BY <2>1, <2>2
<1>6. ASSUME NEW p \in Procs, GetNoHot(p) \/ PutTrySlot(p) \/ PutHotTaken(p) PROVE InFlightExact'
  <2>1. Charged' = Charged
    BY <1>6 DEF GetNoHot, PutTrySlot, PutHotTaken, Goto, Charged
  <2> QED
    BY <1>a, <1>6, <2>1 DEF GetNoHot, PutTrySlot, PutHotTaken
<1>7. ASSUME NEW p \in Procs, PutHot(p) \/ PutReserve(p) \/ PutPool(p) PROVE InFlightExact'
  <2>1. Charged' = Charged
    BY <1>7 DEF PutHot, PutReserve, PutPool, Returned, Borrow, Goto, Charged
  <2> QED
    BY <1>a, <1>7, <2>1 DEF PutHot, PutReserve, PutPool
<1>8. CASE UNCHANGED <<pc, counted, held, inFlight>>
  BY <1>a, <1>8 DEF Charged
<1> QED
  BY <1>1, <1>2, <1>4, <1>5, <1>6, <1>7, <1>8
  DEF Next, Get, Put, Grow, Collect, SetReserveEnabled, vars

(* The counter stays a natural because it counts goroutines.               *)
LEMMA TypeStep ==
  ASSUME TypeOK, BorrowersHold, InFlightExact, InFlightExact', [Next]_vars
  PROVE  TypeOK'
<1>0. inFlight' \in Nat
  <2>1. (Cardinality(Charged) \in Nat)'
    BY ChargedCounts, PTL
  <2> QED
    BY <2>1 DEF InFlightExact
<1> USE DEF TypeOK, PCs
<1>1. ASSUME NEW p \in Procs, GetHot(p) PROVE TypeOK'
  BY <1>0, <1>1 DEF GetHot, Borrow, Goto
<1>2. ASSUME NEW p \in Procs, GetNoHot(p) \/ GetCount(p) PROVE TypeOK'
  BY <1>0, <1>2 DEF GetNoHot, GetCount, Goto
<1>3. ASSUME NEW p \in Procs, NEW o \in Parsers,
             PoolHit(p, o) \/ NewWarm(p, o) \/ NewCold(p, o)
      PROVE  TypeOK'
  <2>1. /\ held' = [held EXCEPT ![p] = o] /\ counted' = [counted EXCEPT ![o] = TRUE]
        /\ pc' = [pc EXCEPT ![p] = "use"]
        /\ UNCHANGED <<hot, inFlight, slotsOff, others, collected>>
    BY <1>3 DEF PoolHit, NewWarm, NewCold, Lend, Borrow, Goto
  <2>2. pool' \subseteq Parsers /\ parked' \subseteq Parsers
    BY <1>3 DEF PoolHit, NewWarm, NewCold
  <2>3. large' = large \/ large' = [large EXCEPT ![o] = FALSE]
    BY <1>3 DEF PoolHit, NewWarm, NewCold
  <2>4. large' \in [Parsers -> BOOLEAN] /\ counted' \in [Parsers -> BOOLEAN]
    BY <2>1, <2>3
  <2>5. held' \in [Procs -> Parsers \cup {Nil}] /\ pc' \in [Procs -> PCs]
    BY <2>1
  <2> QED
    BY <1>0, <2>1, <2>2, <2>4, <2>5
<1>4. ASSUME NEW p \in Procs, Grow(p) PROVE TypeOK'
  BY <1>0, <1>4 DEF Grow
<1>5. ASSUME NEW p \in Procs, PutRelease(p) PROVE TypeOK'
  <2>1. others' = [others EXCEPT ![p] = inFlight']
    BY <1>5 DEF PutRelease
  <2> QED
    BY <1>0, <1>5, <2>1 DEF PutRelease, Goto
<1>6. ASSUME NEW p \in Procs, PutTrySlot(p) \/ PutHotTaken(p) PROVE TypeOK'
  BY <1>0, <1>6 DEF PutTrySlot, PutHotTaken, Goto
<1>7. ASSUME NEW p \in Procs, PutHot(p) \/ PutReserve(p) \/ PutPool(p) PROVE TypeOK'
  <2>1. held[p] \in Parsers
    BY <1>7 DEF PutHot, PutReserve, PutPool, BorrowersHold, Borrowing
  <2> QED
    BY <1>0, <1>7, <2>1 DEF PutHot, PutReserve, PutPool, Returned, Borrow, Goto
<1>8. ASSUME NEW o \in Parsers, Collect(o) PROVE TypeOK'
  BY <1>0, <1>8 DEF Collect
<1>9. ASSUME NEW on \in BOOLEAN, SetReserveEnabled(on) PROVE TypeOK'
  BY <1>0, <1>9 DEF SetReserveEnabled
<1>10. CASE UNCHANGED vars
  BY <1>10 DEF vars
<1> QED
  BY <1>1, <1>2, <1>3, <1>4, <1>5, <1>6, <1>7, <1>8, <1>9, <1>10 DEF Next, Get, Put

(* A goroutine offers its parser to the reserve only if another was out    *)
(* when it counted; the one that counted last leaves its own to the pool.  *)
LEMMA SurplusStep ==
  ASSUME TypeOK, BorrowersHold, SurplusOnly, InFlightExact', TypeOK', [Next]_vars
  PROVE  SurplusOnly'
<1> DEFINE owed == \E q \in Procs : Owes(q)
<1> USE DEF TypeOK
<1>0. ASSUME NEW p \in Procs,
             GetHot(p) \/ GetNoHot(p) \/ GetCount(p)
               \/ \E o \in Parsers : PoolHit(p, o) \/ NewWarm(p, o) \/ NewCold(p, o)
      PROVE  SurplusOnly'
  <2>1. pc'[p] \in {"count", "get", "use"}
    BY <1>0 DEF GetHot, GetNoHot, GetCount, PoolHit, NewWarm, NewCold, Lend, Goto
  <2>2. Owes(p)'
    BY <2>1 DEF Owes
  <2> QED
    BY <2>2 DEF SurplusOnly
<1>1. ASSUME NEW p \in Procs, PutRelease(p) PROVE SurplusOnly'
  <2>1. pc'[p] = "slot" /\ others'[p] = inFlight'
    BY <1>1 DEF PutRelease, Goto
  <2>2. CASE inFlight' = 0
    <3>1. Owes(p)'
      BY <2>1, <2>2 DEF Owes, Returning
    <3> QED
      BY <3>1 DEF SurplusOnly
  <2>3. CASE inFlight' # 0
    <3>1. (Charged = {} <=> Cardinality(Charged) = 0)'
      BY ChargedCounts, PTL
    <3>2. PICK q \in Procs : q \in Charged'
      BY <2>3, <3>1 DEF InFlightExact, Charged
    <3>3. Owes(q)'
      BY <3>2 DEF Charged, Owes
    <3> QED
      BY <3>3 DEF SurplusOnly
  <2> QED
    BY <2>2, <2>3
<1>2. ASSUME NEW p \in Procs, PutTrySlot(p) \/ PutHotTaken(p) PROVE SurplusOnly'
  <2>1. /\ UNCHANGED <<hot, pool, parked, others, collected>>
        /\ pc[p] \in Returning /\ pc'[p] \in Returning
        /\ \A q \in Procs \ {p} : pc'[q] = pc[q]
    BY <1>2 DEF PutTrySlot, PutHotTaken, Goto, Returning
  <2>2. \A q \in Procs : /\ pc'[q] \in Returning <=> pc[q] \in Returning
                        /\ Owes(q)' <=> Owes(q)
    BY <2>1 DEF Owes, Returning
  <2> QED
    BY <2>1, <2>2 DEF SurplusOnly
<1>3. ASSUME NEW p \in Procs, PutHot(p) PROVE SurplusOnly'
  <2>1. hot' # Nil
    BY <1>3 DEF PutHot, BorrowersHold, Borrowing
  <2> QED
    BY <2>1 DEF SurplusOnly
<1>4. ASSUME NEW p \in Procs, PutPool(p) PROVE SurplusOnly'
  <2>1. pool' # {}
    BY <1>4 DEF PutPool
  <2> QED
    BY <2>1 DEF SurplusOnly
<1>5. ASSUME NEW p \in Procs, PutReserve(p) PROVE SurplusOnly'
  <2>1. /\ pc[p] = "reserve" /\ others[p] > 0 /\ UNCHANGED <<hot, pool, collected>>
        /\ \A q \in Procs \ {p} : pc'[q] = pc[q] /\ others'[q] = others[q]
    BY <1>5 DEF PutReserve, Returned, Goto
  <2>2. ~Owes(p)
    BY <2>1 DEF Owes, Returning
  <2>3. ~collected => pool # {} \/ hot # Nil \/ owed
    BY <2>1 DEF SurplusOnly, Returning
  <2>4. ASSUME NEW q \in Procs, Owes(q) PROVE Owes(q)'
    BY <2>1, <2>2, <2>4 DEF Owes
  <2> QED
    BY <2>1, <2>3, <2>4 DEF SurplusOnly
<1>6. ASSUME UNCHANGED <<hot, pool, others, pc, collected>>, parked' \subseteq parked
      PROVE  SurplusOnly'
  BY <1>6 DEF SurplusOnly, Owes
<1>7. ASSUME NEW o \in Parsers, Collect(o) PROVE SurplusOnly'
  BY <1>7 DEF Collect, SurplusOnly
<1> QED
  BY <1>0, <1>1, <1>2, <1>3, <1>4, <1>5, <1>6, <1>7
  DEF Next, Get, Put, Grow, SetReserveEnabled, vars

-----------------------------------------------------------------------------
(* The invariant holds at first, when nothing is lent.                     *)
LEMMA Initially == Init => IInv
<1> SUFFICES ASSUME Init PROVE IInv
  OBVIOUS
<1>1. TypeOK
  <2>1. slotsOff \in BOOLEAN /\ collected \in BOOLEAN
    BY Zenon DEF Init
  <2> QED
    BY <2>1 DEF Init, TypeOK, PCs
<1>2. OnePlace
  BY NilAssumption, PlaceByBorrower DEF Init
<1>3. BorrowersHold /\ SurplusOnly
  BY DEF Init, BorrowersHold, Borrowing, SurplusOnly, Returning
<1>4. InFlightExact
  <2>1. Charged = {}
    BY DEF Init, Charged
  <2> QED
    BY <2>1, FS_EmptySet DEF Init, InFlightExact
<1> QED
  BY <1>1, <1>2, <1>3, <1>4 DEF IInv

(* Every step keeps it.                                                    *)
LEMMA Inductive == IInv /\ [Next]_vars => IInv'
<1> SUFFICES ASSUME IInv, [Next]_vars PROVE IInv'
  OBVIOUS
<1>1. OnePlace' /\ BorrowersHold'
  BY PlaceStep DEF IInv
<1>2. InFlightExact'
  BY CountStep DEF IInv
<1>3. TypeOK'
  BY <1>2, TypeStep DEF IInv
<1>4. SurplusOnly'
  BY <1>2, <1>3, SurplusStep DEF IInv
<1> QED
  BY <1>1, <1>2, <1>3, <1>4 DEF IInv

(* So it holds always.                                                     *)
LEMMA Invariance == Spec => []IInv
BY Initially, Inductive, PTL DEF Spec

(* A parser is lent to one goroutine at a time and is nowhere else while   *)
(* it is lent, for any number of concurrent Unmarshals (bind.go:504).      *)
THEOREM OwnershipHolds == Spec => []Ownership
<1>1. IInv => Ownership
  BY DEF IInv, Ownership
<1> QED
  BY <1>1, Invariance, PTL

(* The in-flight counter counts the pool borrows, and a parser enters the  *)
(* reserve only while the pool side has one to lend or is owed one, so     *)
(* that once all are back the pool side is not empty (bind.go:519).        *)
THEOREM AccountingHolds == Spec => []Accounting
<1>1. IInv => ReserveTakesSurplus
  BY DEF IInv, SurplusOnly, ReserveTakesSurplus, Owes, Returning
<1>2. IInv => Accounting
  BY <1>1 DEF IInv, Accounting
<1> QED
  BY <1>2, Invariance, PTL
=============================================================================
