------------------------------ MODULE ObjPool ------------------------------
(***************************************************************************)
(* ObjPool of package rtcache: a fixed number of ways per group, each an   *)
(* atomic pointer to an entry, and a shared byte counter.  Take, Offer and *)
(* SetEnabled scan a group with one atomic load per way and commit with a  *)
(* compare-and-swap, so every load, CAS and counter update is one step.    *)
(*                                                                         *)
(* A CAS compares entry pointers.  The identity of an entry is its id; the *)
(* allocator may reuse one as soon as neither a way nor a goroutine refers *)
(* to it.  An object's footprint may grow while a goroutine holds it, so   *)
(* an entry records the size that was charged.                             *)
(***************************************************************************)
EXTENDS Integers, FiniteSets, Totals

CONSTANTS
  Procs, Keys,
  NGroups,        \* independently indexed groups
  Ways,           \* entries per group
  Index,          \* Index[k]: the group of a key
  Objs, KeyOf,    \* the objects, and the key each was built for
  EntryIds,       \* addresses of entries
  Sizes,          \* footprints an object may have
  ObjMax,         \* the per-object admission ceiling
  Budget,         \* the ceiling on resident bytes
  ReserveDepth,   \* warm objects kept per key
  Nil

Group == 0 .. NGroups - 1
Way == 0 .. Ways - 1
Entry == [key : Keys, obj : Objs, size : Sizes, id : EntryIds]

ASSUME ProcsAssumption == IsFiniteSet(Procs)
ASSUME GeometryAssumption == NGroups \in Nat \ {0} /\ Ways \in Nat \ {0}
ASSUME IndexAssumption == Index \in [Keys -> Group]
ASSUME KeyOfAssumption == KeyOf \in [Objs -> Keys]
ASSUME SizesAssumption == Sizes \subseteq Nat
ASSUME LimitsAssumption ==
  ObjMax \in Nat /\ Budget \in Nat /\ ReserveDepth \in Nat
ASSUME NilAssumption == Nil \notin Entry /\ Nil \notin Objs

VARIABLES
  ways,       \* ways[g][w]: the way words
  charged,    \* the byte counter
  disabled,   \* admission is off
  held,       \* held[p]: the object goroutine p owns, or Nil
  foot,       \* foot[p]: the footprint of that object
  pc,         \* where p is
  loc         \* loc[p]: the locals of p's call

vars == <<ways, charged, disabled, held, foot, pc, loc>>

(* The locals: the key of a Take; the way the scan looks at; the entry     *)
(* loaded, which the CAS compares; and, for Offer, the first free way its  *)
(* survey saw (or -1), the entries of its key it saw, and the size charged.*)
Locals == [key : Keys \cup {Nil}, grp : Group, pos : Way,
           entry : Entry \cup {Nil}, free : Way \cup {-1}, depth : 0 .. Ways,
           size : Sizes \cup {0}]
NoLocals == [key |-> Nil, grp |-> 0, pos |-> 0, entry |-> Nil, free |-> -1,
             depth |-> 0, size |-> 0]

Goto(p, l) == pc' = [pc EXCEPT ![p] = l]
Return(p) == Goto(p, "idle") /\ loc' = [loc EXCEPT ![p] = NoLocals]
Load(p) == ways[loc[p].grp][loc[p].pos]
SetWay(g, w, e) == ways' = [ways EXCEPT ![g][w] = e]
LastWay(p) == loc[p].pos + 1 \notin Way
AtNextWay(l) == [l EXCEPT !.pos = @ + 1, !.entry = Nil]

(***************************************************************************)
(* The clients: a sync.Pool New that found the reserve empty builds a cold *)
(* object, a goroutine grows the object it uses, and one whose Offer was   *)
(* declined gives the object to the sync.Pool, where it may be collected.  *)
(***************************************************************************)
Slots == Group \X Way
At(s) == ways[s[1]][s[2]]
Occupied == {s \in Slots : At(s) # Nil}
Owned == {At(s).obj : s \in Occupied} \cup {held[p] : p \in Procs}

Build(p, o, s) ==
  /\ pc[p] = "idle" /\ held[p] = Nil
  /\ o \notin Owned
  /\ held' = [held EXCEPT ![p] = o]
  /\ foot' = [foot EXCEPT ![p] = s]
  /\ UNCHANGED <<ways, charged, disabled, pc, loc>>

Grow(p, s) ==
  /\ pc[p] = "idle" /\ held[p] # Nil
  /\ s > foot[p]
  /\ foot' = [foot EXCEPT ![p] = s]
  /\ UNCHANGED <<ways, charged, disabled, held, pc, loc>>

Release(p) ==
  /\ pc[p] = "idle" /\ held[p] # Nil
  /\ held' = [held EXCEPT ![p] = Nil]
  /\ foot' = [foot EXCEPT ![p] = 0]
  /\ UNCHANGED <<ways, charged, disabled, pc, loc>>

(***************************************************************************)
(* Take: load each way; an entry of the caller's key is claimed by CAS.  A *)
(* lost CAS leaves the way to the winner and the scan goes on.             *)
(***************************************************************************)
TakeCall(p, k) ==
  /\ pc[p] = "idle" /\ held[p] = Nil
  /\ loc' = [loc EXCEPT ![p].key = k, ![p].grp = Index[k]]
  /\ Goto(p, "take")
  /\ UNCHANGED <<ways, charged, disabled, held, foot>>

(* Mutant: claims whatever object the way holds.                           *)
BugTakeLoadAnyKey(p) ==
  /\ pc[p] = "take"
  /\ Load(p) # Nil
  /\ loc' = [loc EXCEPT ![p].entry = Load(p)]
  /\ Goto(p, "takeCAS")
  /\ UNCHANGED <<ways, charged, disabled, held, foot>>

TakeLoad(p) ==
  /\ pc[p] = "take"
  /\ Load(p) # Nil
  /\ Load(p).key = loc[p].key
  /\ loc' = [loc EXCEPT ![p].entry = Load(p)]
  /\ Goto(p, "takeCAS")
  /\ UNCHANGED <<ways, charged, disabled, held, foot>>

(* On to the next way; past the last one, Take returns nil.                *)
TakeOn(p) ==
  \/ /\ ~LastWay(p)
     /\ loc' = [loc EXCEPT ![p] = AtNextWay(@)]
     /\ Goto(p, "take")
  \/ /\ LastWay(p)
     /\ Return(p)

TakePass(p) ==
  /\ pc[p] = "take"
  /\ IF Load(p) = Nil THEN TRUE ELSE Load(p).key # loc[p].key
  /\ TakeOn(p)
  /\ UNCHANGED <<ways, charged, disabled, held, foot>>

(* Mutant: the way is cleared by a store, whatever it holds by then.       *)
BugTakeStores(p) ==
  /\ pc[p] = "takeCAS"
  /\ SetWay(loc[p].grp, loc[p].pos, Nil)
  /\ held' = [held EXCEPT ![p] = loc[p].entry.obj]
  /\ foot' = [foot EXCEPT ![p] = loc[p].entry.size]
  /\ Goto(p, "takeCredit")
  /\ UNCHANGED <<charged, disabled, loc>>

TakeWin(p) ==
  /\ pc[p] = "takeCAS"
  /\ Load(p) = loc[p].entry
  /\ SetWay(loc[p].grp, loc[p].pos, Nil)
  /\ held' = [held EXCEPT ![p] = loc[p].entry.obj]
  /\ foot' = [foot EXCEPT ![p] = loc[p].entry.size]
  /\ Goto(p, "takeCredit")
  /\ UNCHANGED <<charged, disabled, loc>>

TakeLose(p) ==
  /\ pc[p] = "takeCAS"
  /\ Load(p) # loc[p].entry
  /\ TakeOn(p)
  /\ UNCHANGED <<ways, charged, disabled, held, foot>>

TakeCredit(p) ==
  /\ pc[p] = "takeCredit"
  /\ charged' = charged - loc[p].entry.size
  /\ Return(p)
  /\ UNCHANGED <<ways, disabled, held, foot>>

(***************************************************************************)
(* Offer: refuse while disabled or past the per-object ceiling, survey the *)
(* group, charge the budget, and only then publish by CAS.  A declined     *)
(* object stays with the caller.                                           *)
(***************************************************************************)
OfferCall(p) ==
  /\ pc[p] = "idle" /\ held[p] # Nil
  /\ ~disabled
  /\ foot[p] <= ObjMax
  /\ loc' = [loc EXCEPT ![p].size = foot[p], ![p].grp = Index[KeyOf[held[p]]]]
  /\ Goto(p, "survey")
  /\ UNCHANGED <<ways, charged, disabled, held, foot>>

(* What the survey knows once it has looked at one more way.               *)
Surveyed(p, l) ==
  LET own == IF Load(p) = Nil THEN FALSE ELSE Load(p).key = KeyOf[held[p]]
  IN  [l EXCEPT !.free = IF Load(p) = Nil /\ @ = -1 THEN l.pos ELSE @,
                !.depth = IF own THEN @ + 1 ELSE @]

Survey(p) ==
  /\ pc[p] = "survey"
  /\ LET l == Surveyed(p, loc[p])
     IN  \/ /\ ~LastWay(p)
            /\ loc' = [loc EXCEPT ![p] = AtNextWay(l)]
            /\ UNCHANGED pc
         \/ /\ LastWay(p)
            /\ l.free # -1 /\ l.depth < ReserveDepth
            /\ loc' = [loc EXCEPT ![p] = l]
            /\ Goto(p, "charge")
         \/ /\ LastWay(p)
            /\ l.free = -1 \/ l.depth >= ReserveDepth
            /\ Return(p)
  /\ UNCHANGED <<ways, charged, disabled, held, foot>>

(* Mutant: compares the counter before this offer is added.                *)
BugChargeChecksBefore(p) ==
  /\ pc[p] = "charge"
  /\ charged' = charged + loc[p].size
  /\ Goto(p, IF charged > Budget THEN "refund" ELSE "park")
  /\ UNCHANGED <<ways, disabled, held, foot, loc>>

Charge(p) ==
  /\ pc[p] = "charge"
  /\ charged' = charged + loc[p].size
  /\ Goto(p, IF charged + loc[p].size > Budget THEN "refund" ELSE "park")
  /\ UNCHANGED <<ways, disabled, held, foot, loc>>

(* The addresses no way and no goroutine refers to.                        *)
FreeIds ==
  EntryIds \ ({At(s).id : s \in Occupied}
              \cup {loc[p].entry.id : p \in {q \in Procs : loc[q].entry # Nil}})

OfferedEntry(p, i) ==
  [key |-> KeyOf[held[p]], obj |-> held[p], size |-> loc[p].size, id |-> i]

(* Mutant: parks the object and leaves the caller owning it as well.       *)
BugParkKeeps(p, i) ==
  /\ pc[p] = "park"
  /\ ways[loc[p].grp][loc[p].free] = Nil
  /\ SetWay(loc[p].grp, loc[p].free, OfferedEntry(p, i))
  /\ Return(p)
  /\ UNCHANGED <<charged, disabled, held, foot>>

ParkWin(p, i) ==
  /\ pc[p] = "park"
  /\ ways[loc[p].grp][loc[p].free] = Nil
  /\ SetWay(loc[p].grp, loc[p].free, OfferedEntry(p, i))
  /\ held' = [held EXCEPT ![p] = Nil]
  /\ foot' = [foot EXCEPT ![p] = 0]
  /\ Return(p)
  /\ UNCHANGED <<charged, disabled>>

(* Mutant: a lost way declines without giving the charge back.             *)
BugParkLoseKeepsCharge(p) ==
  /\ pc[p] = "park"
  /\ ways[loc[p].grp][loc[p].free] # Nil
  /\ Return(p)
  /\ UNCHANGED <<ways, charged, disabled, held, foot>>

ParkLose(p) ==
  /\ pc[p] = "park"
  /\ ways[loc[p].grp][loc[p].free] # Nil
  /\ Goto(p, "refund")
  /\ UNCHANGED <<ways, charged, disabled, held, foot, loc>>

Refund(p) ==
  /\ pc[p] = "refund"
  /\ charged' = charged - loc[p].size
  /\ Return(p)
  /\ UNCHANGED <<ways, disabled, held, foot>>

(***************************************************************************)
(* SetEnabled: switch the flag; disabling then walks every way of every    *)
(* group and drops what it finds.                                          *)
(***************************************************************************)
Enable(p) ==
  /\ pc[p] = "idle"
  /\ disabled' = FALSE
  /\ UNCHANGED <<ways, charged, held, foot, pc, loc>>

Disable(p) ==
  /\ pc[p] = "idle"
  /\ disabled' = TRUE
  /\ Goto(p, "drop")
  /\ UNCHANGED <<ways, charged, held, foot, loc>>

(* Mutant: the walk runs past the last way of a group.                     *)
BugDropOnPastEnd(p) ==
  /\ loc' = [loc EXCEPT ![p] = AtNextWay(@)]
  /\ Goto(p, "drop")

(* On to the next way, which may be the first of the next group.           *)
DropOn(p) ==
  \/ /\ ~LastWay(p)
     /\ loc' = [loc EXCEPT ![p] = AtNextWay(@)]
     /\ Goto(p, "drop")
  \/ /\ LastWay(p)
     /\ loc[p].grp + 1 \in Group
     /\ loc' = [loc EXCEPT ![p] = [NoLocals EXCEPT !.grp = loc[p].grp + 1]]
     /\ Goto(p, "drop")
  \/ /\ LastWay(p)
     /\ loc[p].grp + 1 \notin Group
     /\ Return(p)

DropLoad(p) ==
  /\ pc[p] = "drop"
  /\ Load(p) # Nil
  /\ loc' = [loc EXCEPT ![p].entry = Load(p)]
  /\ Goto(p, "dropCAS")
  /\ UNCHANGED <<ways, charged, disabled, held, foot>>

DropPass(p) ==
  /\ pc[p] = "drop"
  /\ Load(p) = Nil
  /\ DropOn(p)
  /\ UNCHANGED <<ways, charged, disabled, held, foot>>

DropWin(p) ==
  /\ pc[p] = "dropCAS"
  /\ Load(p) = loc[p].entry
  /\ SetWay(loc[p].grp, loc[p].pos, Nil)
  /\ Goto(p, "dropCredit")
  /\ UNCHANGED <<charged, disabled, held, foot, loc>>

DropLose(p) ==
  /\ pc[p] = "dropCAS"
  /\ Load(p) # loc[p].entry
  /\ DropOn(p)
  /\ UNCHANGED <<ways, charged, disabled, held, foot>>

DropCredit(p) ==
  /\ pc[p] = "dropCredit"
  /\ charged' = charged - loc[p].entry.size
  /\ DropOn(p)
  /\ UNCHANGED <<ways, disabled, held, foot>>

-----------------------------------------------------------------------------
Init ==
  /\ ways = [g \in Group |-> [w \in Way |-> Nil]]
  /\ charged = 0
  /\ disabled = FALSE
  /\ held = [p \in Procs |-> Nil]
  /\ foot = [p \in Procs |-> 0]
  /\ pc = [p \in Procs |-> "idle"]
  /\ loc = [p \in Procs |-> NoLocals]

Client(p) ==
  \/ \E o \in Objs, s \in Sizes : Build(p, o, s)
  \/ \E s \in Sizes : Grow(p, s)
  \/ Release(p)

TakeStep(p) == TakeLoad(p) \/ TakePass(p) \/ TakeWin(p) \/ TakeLose(p) \/ TakeCredit(p)

OfferStep(p) ==
  \/ Survey(p)
  \/ Charge(p)
  \/ \E i \in FreeIds : ParkWin(p, i)
  \/ ParkLose(p)
  \/ Refund(p)

DropStep(p) == DropLoad(p) \/ DropPass(p) \/ DropWin(p) \/ DropLose(p) \/ DropCredit(p)

Next ==
  \E p \in Procs :
    \/ Client(p)
    \/ \E k \in Keys : TakeCall(p, k)
    \/ TakeStep(p)
    \/ OfferCall(p)
    \/ OfferStep(p)
    \/ Enable(p)
    \/ Disable(p)
    \/ DropStep(p)

Spec == Init /\ [][Next]_vars

-----------------------------------------------------------------------------
(***************************************************************************)
(* Properties                                                              *)
(***************************************************************************)
PCs == {"idle", "take", "takeCAS", "takeCredit", "survey", "charge", "park",
        "refund", "drop", "dropCAS", "dropCredit"}

(* The types of the shared words and of each call's locals.                *)
TypeOK ==
  /\ ways \in [Group -> [Way -> Entry \cup {Nil}]]
  /\ charged \in Int
  /\ disabled \in BOOLEAN
  /\ held \in [Procs -> Objs \cup {Nil}]
  /\ foot \in [Procs -> Sizes \cup {0}]
  /\ pc \in [Procs -> PCs]
  /\ loc \in [Procs -> Locals]

(* An object has one owner: a way of the reserve or one goroutine.  No     *)
(* race of two Takes, of two Offers, or of either with SetEnabled hands an *)
(* object (a parser with mutable scratch) to two goroutines.               *)
SingleOwner ==
  /\ \A s, t \in Occupied : At(s).obj = At(t).obj => s = t
  /\ \A p, q \in Procs : held[p] # Nil /\ held[p] = held[q] => p = q
  /\ \A s \in Occupied, p \in Procs : At(s).obj # held[p]

(* The bytes a goroutine has added and not yet published or given back, or *)
(* has unpublished and not yet credited.                                   *)
InFlight(p) ==
  CASE pc[p] \in {"park", "refund"} -> loc[p].size
    [] pc[p] \in {"takeCredit", "dropCredit"} -> loc[p].entry.size
    [] OTHER -> 0

Weight(s) == IF At(s) = Nil THEN 0 ELSE At(s).size
ParkedBytes == Total([s \in Slots |-> Weight(s)])

(* The budget is credited by exactly what it was debited, although objects *)
(* grow while they are out: the counter is the parked bytes plus what      *)
(* calls in progress have in flight, so it never drifts.                   *)
ChargeExact == charged = ParkedBytes + Total([p \in Procs |-> InFlight(p)])

(* The budget bounds what is resident: the overshoot that the counter can  *)
(* show comes only from Offers about to refund it, so parked bytes, bytes  *)
(* being parked and bytes being released never exceed the budget.          *)
Resident(p) == IF pc[p] = "refund" THEN 0 ELSE InFlight(p)
WithinBudget == ParkedBytes + Total([p \in Procs |-> Resident(p)]) <= Budget

(* Take only ever returns an object parked under the caller's own key,     *)
(* even when the way was emptied and refilled under its CAS.               *)
TakeReturnsOwnKey ==
  [][\A p \in Procs :
       pc[p] = "takeCAS" /\ pc'[p] = "takeCredit" => KeyOf[held'[p]] = loc[p].key]_vars

(* ObjPool implements the atomic reserve: each successful CAS is the one   *)
(* step at which an object changes hands.                                  *)
Abstract == INSTANCE Reserve WITH parked <- {At(s).obj : s \in Occupied}
ImplementsReserve == Abstract!Spec

(* An object (a parser with mutable scratch) has one owner, a way of the   *)
(* reserve or one goroutine, and passes only to a caller of its own key,   *)
(* whatever Takes, Offers and SetEnabled race (objpool.go:108).            *)
Ownership == []TypeOK /\ []SingleOwner /\ TakeReturnsOwnKey

(* The byte counter never drifts from what is parked or in flight, and     *)
(* what is resident never exceeds the budget (objpool.go:134).             *)
Accounting == ChargeExact /\ WithinBudget
=============================================================================
