---------------------------- MODULE ParserPool ----------------------------
(***************************************************************************)
(* How decode/bind lends parsers of one shape: a hot slot (an atomic       *)
(* pointer), the shape's sync.Pool, and the reserve that backs the pool's  *)
(* New.  getParser and putParser take one step per atomic operation.       *)
(*                                                                         *)
(* External: sync.Pool, which may miss although it holds parsers and drops *)
(* any of them at a garbage collection; the reserve is the atomic one of   *)
(* module Reserve, which may miss or decline at any time.                  *)
(***************************************************************************)
EXTENDS Integers, FiniteSets

CONSTANTS
  Procs,      \* goroutines between a getParser and its putParser, or idle
  Parsers,
  Nil

ASSUME ProcsAssumption == IsFiniteSet(Procs)
ASSUME NilAssumption == Nil \notin Parsers

VARIABLES
  hot,            \* the hot slot
  pool,           \* parsers in the sync.Pool
  parked,         \* parsers in the reserve
  inFlight,       \* parsers borrowed through the pool
  slotsOff,       \* hotSlotsDisabled
  counted,        \* counted[o]: this borrow was charged to inFlight
  large,          \* large[o]: the footprint exceeds hotParserMax
  held,           \* held[p]: the parser p has borrowed
  others,         \* others[p]: inFlight as putParser saw it
  pc,
  collected       \* a garbage collection has emptied part of the pool

vars == <<hot, pool, parked, inFlight, slotsOff, counted, large, held, others,
          pc, collected>>

Goto(p, l) == pc' = [pc EXCEPT ![p] = l]
Borrow(p, o) == held' = [held EXCEPT ![p] = o]
Lent == {held[p] : p \in Procs} \ {Nil}
Live == Lent \cup pool \cup parked \cup ({hot} \ {Nil})

(***************************************************************************)
(* getParser                                                               *)
(***************************************************************************)
GetHot(p) ==
  /\ pc[p] = "idle"
  /\ hot # Nil
  /\ hot' = Nil
  /\ counted' = [counted EXCEPT ![hot] = FALSE]
  /\ Borrow(p, hot)
  /\ Goto(p, "use")
  /\ UNCHANGED <<pool, parked, inFlight, slotsOff, large, others, collected>>

GetNoHot(p) ==
  /\ pc[p] = "idle"
  /\ hot = Nil
  /\ Goto(p, "count")
  /\ UNCHANGED <<hot, pool, parked, inFlight, slotsOff, counted, large, held,
                 others, collected>>

GetCount(p) ==
  /\ pc[p] = "count"
  /\ inFlight' = inFlight + 1
  /\ Goto(p, "get")
  /\ UNCHANGED <<hot, pool, parked, slotsOff, counted, large, held, others,
                 collected>>

(* parserPool.Get finds a parser, or calls New, which prefers a warm one.  *)
Lend(p, o) ==
  /\ pc[p] = "get"
  /\ Borrow(p, o)
  /\ counted' = [counted EXCEPT ![o] = TRUE]
  /\ Goto(p, "use")
  /\ UNCHANGED <<hot, inFlight, slotsOff, others, collected>>

PoolHit(p, o) ==
  /\ o \in pool
  /\ pool' = pool \ {o}
  /\ Lend(p, o)
  /\ UNCHANGED <<parked, large>>

NewWarm(p, o) ==
  /\ o \in parked
  /\ parked' = parked \ {o}
  /\ Lend(p, o)
  /\ UNCHANGED <<pool, large>>

NewCold(p, o) ==
  /\ o \in Parsers \ Live
  /\ large' = [large EXCEPT ![o] = FALSE]
  /\ Lend(p, o)
  /\ UNCHANGED <<pool, parked>>

(* A parse grows the parser's buffers.                                     *)
Grow(p) ==
  /\ pc[p] = "use"
  /\ large' = [large EXCEPT ![held[p]] = TRUE]
  /\ UNCHANGED <<hot, pool, parked, inFlight, slotsOff, counted, held, others,
                 pc, collected>>

(***************************************************************************)
(* putParser                                                               *)
(***************************************************************************)
(* Mutant: a hot-slot borrow is released as if it had been counted.        *)
BugPutAlwaysReleases(p) ==
  /\ pc[p] = "use"
  /\ inFlight' = inFlight - 1
  /\ others' = [others EXCEPT ![p] = inFlight - 1]
  /\ Goto(p, "slot")
  /\ UNCHANGED <<hot, pool, parked, slotsOff, counted, large, held, collected>>

(* Mutant: the surplus test counts the parser being returned.              *)
BugPutCountsSelf(p) ==
  /\ pc[p] = "use"
  /\ inFlight' = IF counted[held[p]] THEN inFlight - 1 ELSE inFlight
  /\ others' = [others EXCEPT ![p] = inFlight]
  /\ Goto(p, "slot")
  /\ UNCHANGED <<hot, pool, parked, slotsOff, counted, large, held, collected>>

PutRelease(p) ==
  /\ pc[p] = "use"
  /\ LET n == IF counted[held[p]] THEN inFlight - 1 ELSE inFlight
     IN  inFlight' = n /\ others' = [others EXCEPT ![p] = n]
  /\ Goto(p, "slot")
  /\ UNCHANGED <<hot, pool, parked, slotsOff, counted, large, held, collected>>

(* The hot slot is tried when it is enabled and the parser fits.           *)
PutTrySlot(p) ==
  /\ pc[p] = "slot"
  /\ Goto(p, IF slotsOff \/ large[held[p]] THEN "reserve" ELSE "slotCAS")
  /\ UNCHANGED <<hot, pool, parked, inFlight, slotsOff, counted, large, held,
                 others, collected>>

Returned(p) ==
  /\ Borrow(p, Nil)
  /\ others' = [others EXCEPT ![p] = 0]
  /\ Goto(p, "idle")

(* Mutant: a parser that entered the slot is also handed on.               *)
BugPutHotKeepsBorrow(p) ==
  /\ pc[p] = "slotCAS"
  /\ hot = Nil
  /\ hot' = held[p]
  /\ Goto(p, "reserve")
  /\ UNCHANGED <<pool, parked, inFlight, slotsOff, counted, large, held,
                 others, collected>>

PutHot(p) ==
  /\ pc[p] = "slotCAS"
  /\ hot = Nil
  /\ hot' = held[p]
  /\ Returned(p)
  /\ UNCHANGED <<pool, parked, inFlight, slotsOff, counted, large, collected>>

PutHotTaken(p) ==
  /\ pc[p] = "slotCAS"
  /\ hot # Nil
  /\ Goto(p, "reserve")
  /\ UNCHANGED <<hot, pool, parked, inFlight, slotsOff, counted, large, held,
                 others, collected>>

PutReserve(p) ==
  /\ pc[p] = "reserve"
  /\ others[p] > 0
  /\ parked' = parked \cup {held[p]}
  /\ Returned(p)
  /\ UNCHANGED <<hot, pool, inFlight, slotsOff, counted, large, collected>>

PutPool(p) ==
  /\ pc[p] = "reserve"
  /\ pool' = pool \cup {held[p]}
  /\ Returned(p)
  /\ UNCHANGED <<hot, parked, inFlight, slotsOff, counted, large, collected>>

(***************************************************************************)
(* The environment: a garbage collection drops a pooled parser, and the    *)
(* test hook setParserReserveEnabled switches the slots and empties the    *)
(* reserve.                                                                *)
(***************************************************************************)
Collect(o) ==
  /\ o \in pool
  /\ pool' = pool \ {o}
  /\ collected' = TRUE
  /\ UNCHANGED <<hot, parked, inFlight, slotsOff, counted, large, held, others, pc>>

SetReserveEnabled(on) ==
  /\ slotsOff' = ~on
  /\ \E kept \in SUBSET parked :
       /\ on => kept = parked
       /\ parked' = kept
  /\ UNCHANGED <<hot, pool, inFlight, counted, large, held, others, pc, collected>>

-----------------------------------------------------------------------------
Init ==
  /\ hot = Nil
  /\ pool = {}
  /\ parked = {}
  /\ inFlight = 0
  /\ slotsOff = FALSE
  /\ counted = [o \in Parsers |-> FALSE]
  /\ large = [o \in Parsers |-> FALSE]
  /\ held = [p \in Procs |-> Nil]
  /\ others = [p \in Procs |-> 0]
  /\ pc = [p \in Procs |-> "idle"]
  /\ collected = FALSE

Get(p) ==
  \/ GetHot(p)
  \/ GetNoHot(p)
  \/ GetCount(p)
  \/ \E o \in Parsers : PoolHit(p, o) \/ NewWarm(p, o) \/ NewCold(p, o)

Put(p) ==
  \/ PutRelease(p)
  \/ PutTrySlot(p)
  \/ PutHot(p)
  \/ PutHotTaken(p)
  \/ PutReserve(p)
  \/ PutPool(p)

Next ==
  \/ \E p \in Procs : Get(p) \/ Grow(p) \/ Put(p)
  \/ \E o \in Parsers : Collect(o)
  \/ \E on \in BOOLEAN : SetReserveEnabled(on)

Spec == Init /\ [][Next]_vars

-----------------------------------------------------------------------------
(***************************************************************************)
(* Properties                                                              *)
(***************************************************************************)
PCs == {"idle", "count", "get", "use", "slot", "slotCAS", "reserve"}

(* The types of the shared words and of each goroutine's locals; the       *)
(* in-flight counter never goes negative.                                  *)
TypeOK ==
  /\ hot \in Parsers \cup {Nil}
  /\ pool \subseteq Parsers
  /\ parked \subseteq Parsers
  /\ inFlight \in Nat
  /\ slotsOff \in BOOLEAN
  /\ counted \in [Parsers -> BOOLEAN]
  /\ large \in [Parsers -> BOOLEAN]
  /\ held \in [Procs -> Parsers \cup {Nil}]
  /\ others \in [Procs -> Nat]
  /\ pc \in [Procs -> PCs]
  /\ collected \in BOOLEAN

(* A parser is in one place: two concurrent Unmarshals never share one,    *)
(* and a borrowed one is neither in the slot, the pool nor the reserve.    *)
OnePlace ==
  /\ \A p, q \in Procs : held[p] # Nil /\ held[p] = held[q] => p = q
  /\ pool \cap parked = {}
  /\ hot \notin pool \cup parked
  /\ Lent \cap (pool \cup parked \cup {hot}) = {}

(* inFlight counts exactly the pool borrows not yet being returned, so     *)
(* putParser releases what getParser charged whichever way the parser      *)
(* came.                                                                   *)
Charged == {p \in Procs : \/ pc[p] = "get"
                          \/ pc[p] = "use" /\ counted[held[p]]}
InFlightExact == inFlight = Cardinality(Charged)

(* The reserve only takes surplus: when every parser has been returned and *)
(* no garbage collection took one, a nonempty reserve leaves a parser in   *)
(* the pool or in the hot slot for the next borrow.                        *)
ReserveTakesSurplus ==
  (\A p \in Procs : pc[p] = "idle") /\ ~collected /\ parked # {}
    => pool # {} \/ hot # Nil

(* Hot slot, pool, reserve and borrowers share out the parsers: each is in *)
(* one place (bind.go:504).                                                *)
Ownership == TypeOK /\ OnePlace

(* The in-flight counter is exact, so the reserve takes only what the pool *)
(* can spare.                                                              *)
Accounting == InFlightExact /\ ReserveTakesSurplus
=============================================================================
