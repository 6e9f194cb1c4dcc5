------------------------------ MODULE SlotAlloc ------------------------------
(***************************************************************************)
(* The allocator a bind carves every value from (vbind/allocator.go,       *)
(* vbind/recbatch.go, and SlotClass.CommitBump of vbind/typetree.go), as   *)
(* operators on a heap h:                                                  *)
(*   h.mem      the words of memory; an address is an index, a fresh array *)
(*              is appended and never freed (the collector frees only what *)
(*              nothing reaches);                                          *)
(*   h.cls      one slot class per element type: a bump block whose tail   *)
(*              the one open slice borrows, or for a recursive type a      *)
(*              matrix of rows, one per power-of-two capacity;             *)
(*   h.loose, h.spares, h.watch   standalone backings, the recycled ones   *)
(*              and the growth observations;                               *)
(*   h.retained, h.live           what is staged for the write barrier;    *)
(*   h.strs, h.str                the string arenas and the current view;  *)
(*   h.docs                       the documents of the Values bound.       *)
(* Offsets and limits count elements. A class of zero-sized elements is    *)
(* not modelled.                                                           *)
(***************************************************************************)
EXTENDS Integers, Sequences, SequencesExt, FiniteSets, FiniteSetsExt

CONSTANTS
  Tmpl,        \* slot class -> [mode, esz, ismap, any]
  TplBatch,    \* elements of a class's first block
  BatchMax,    \* the block ceiling and bypass threshold, slotBatchMax
  MuInitial,   \* the seed of the block-size average
  RecRows,     \* rows of the recursive matrix; row r holds capacity 2^(r-1)
  RowSlots,    \* slots of a row
  DetachK,     \* releases between two detaches of a recursive class
  DebtBudget,  \* decoded input that detaches the any classes
  SpareMax,    \* words the recycled backings may hold
  Amortize,    \* parses one fresh string arena serves
  StrTail      \* spare cells of a string arena

Zero == <<>>
Slice(data, len, cap) == <<"slice", data, len, cap>>
NilMap == [k \in {} |-> Zero]
MaxRowCap == 2^(RecRows - 1)

\* n words written at address at.
Put(h, at, ws) ==
  [h EXCEPT !.mem = SubSeq(@, 1, at - 1) \o ws \o SubSeq(@, at + Len(ws), Len(@))]
Clear(h, at, n) == Put(h, at, [i \in 1..n |-> Zero])
Words(h, at, n) == SubSeq(h.mem, at, at + n - 1)

\* A fresh array of n zero words; it starts at Len(h.mem) + 1.
NewArray(h, n) == [h EXCEPT !.mem = @ \o [i \in 1..n |-> Zero]]

\* initMapSlots: map cells are prewired with a ready empty map each.
WireMaps(h, k, at, n) ==
  IF ~Tmpl[k].ismap THEN h
  ELSE [Put(h, at, [i \in 1..n |-> <<"map", Len(h.maps) + i>>]) EXCEPT !.maps = @ \o [i \in 1..n |-> NilMap]]

\* installBlock: a fresh bump block of n elements; the displaced one stays
\* staged until the drains are over, the fresh one until a release.
InstallBlock(h, k, n) ==
  LET at == Len(h.mem) + 1
      old == h.cls[k].block
  IN [WireMaps(NewArray(h, n * Tmpl[k].esz), k, at, n) EXCEPT
                   !.retained = @ \o (IF old = 0 THEN <<at>> ELSE <<old, at>>),
                   !.cls[k] = [@ EXCEPT !.block = at, !.off = 0, !.lim = n, !.len = 0, !.cap = n]]

EmptyRows == [r \in 1..RecRows |-> [base |-> 0, free |-> {}]]

\* NewAllocator.
NewClass(h, k) ==
  LET empty == [block |-> 0, off |-> 0, lim |-> 0, len |-> 0, cap |-> 0, mu |-> MuInitial, hint |-> 0,
                borrow |-> 0, rows |-> EmptyRows]
      g == [h EXCEPT !.cls = (k :> empty) @@ @]
  IN IF Tmpl[k].mode = "recbatch" THEN g ELSE InstallBlock(g, k, TplBatch)
NewHeap ==
  LET bare == [mem |-> <<>>, maps |-> <<>>, cls |-> <<>>, retained |-> <<>>, live |-> {}, loose |-> <<>>,
               spares |-> <<>>, watch |-> <<>>, left |-> DetachK, debt |-> 0, strs |-> <<<<>>>>,
               str |-> [id |-> 1, at |-> 0, used |-> 0], docs |-> <<>>]
  IN FoldSet(LAMBDA k, h : NewClass(h, k), bare, DOMAIN Tmpl)

\* Carve: one zeroed element of a class with room, as the heap after it and
\* its address.
Room(h, k) == IF h.cls[k].off >= h.cls[k].lim THEN InstallBlock(h, k, BatchMax) ELSE h
Carve(h, k) ==
  [h |-> [h EXCEPT !.cls[k].off = @ + 1], at |-> h.cls[k].block + h.cls[k].off * Tmpl[k].esz]

-----------------------------------------------------------------------------
(* The slice protocol. A header is the word at address hdr.                *)

Data(h, hdr) == h.mem[hdr][2]
SLen(h, hdr) == h.mem[hdr][3]
SCap(h, hdr) == h.mem[hdr][4]
SetLen(h, hdr, n) == Put(h, hdr, <<Slice(Data(h, hdr), n, SCap(h, hdr))>>)
SetCap(h, hdr, n) == Put(h, hdr, <<Slice(Data(h, hdr), SLen(h, hdr), n)>>)

\* The elements of a grown slice move to data, which holds cap of them.
MoveTo(h, hdr, k, data, cap) ==
  LET nil == h.mem[hdr] = Zero
      n == IF nil THEN 0 ELSE SLen(h, hdr)
      moved == IF n = 0 THEN h ELSE Put(h, data, Words(h, Data(h, hdr), n * Tmpl[k].esz))
  IN Put(moved, hdr, <<Slice(data, n, cap)>>)

\* watchGrow: the latest slice of the class that outgrew its backing of n.
WatchGrow(h, k, hdr, n) ==
  LET w == [k |-> k, hdr |-> hdr, data |-> Data(h, hdr), cap |-> SCap(h, hdr), shared |-> FALSE]
      at == {i \in 1..Len(h.watch) : h.watch[i].k = k}
  IN IF n = 0 THEN h
     ELSE IF at = {} THEN [h EXCEPT !.watch = Append(@, w)]
     ELSE LET i == Min(at) IN
          [h EXCEPT !.watch[i] = [w EXCEPT !.shared = h.watch[i].shared \/ h.watch[i].hdr # hdr]]

\* takeSpare: the index of the smallest recycled backing of n elements, or 0.
BestSpare(h, k, n) ==
  LET fit == {i \in 1..Len(h.spares) : h.spares[i].k = k /\ h.spares[i].cap >= n}
  IN IF fit = {} THEN 0
     ELSE CHOOSE i \in fit : \A j \in fit : h.spares[i].cap < h.spares[j].cap
                                            \/ (h.spares[i].cap = h.spares[j].cap /\ i <= j)

SpareWords(h) == FoldLeft(LAMBDA n, s : n + s.cap * Tmpl[s.k].esz, 0, h.spares)

\* retireLoose: the standalone backing a slice moved off, recycled zeroed;
\* any other backing is the caller's or a block's and is left alone.
RetireLoose(h, k, old) ==
  LET data == old[2]
      cap == old[4]
      at == {i \in 1..Len(h.loose) : old # Zero /\ h.loose[i].data = data}
      g == [h EXCEPT !.loose = RemoveAt(@, Min(at))]
  IN IF at = {} THEN h
     ELSE IF SpareWords(h) + cap * Tmpl[k].esz > SpareMax THEN g
     ELSE [Clear(g, data, cap * Tmpl[k].esz) EXCEPT !.spares = Append(@, [k |-> k, data |-> data, cap |-> cap])]

\* A request past the block ceiling: a standalone backing, recycled or fresh.
Backed(h, hdr, k, data, cap) ==
  [RetireLoose(MoveTo([h EXCEPT !.retained = Append(@, data)], hdr, k, data, cap), k, h.mem[hdr]) EXCEPT
     !.loose = Append(@, [k |-> k, data |-> data, cap |-> cap])]
Bypass(h, hdr, k, need) ==
  IF BestSpare(h, k, need) = 0
  THEN Backed(NewArray(h, need * Tmpl[k].esz), hdr, k, Len(h.mem) + 1, need)
  ELSE LET i == BestSpare(h, k, need)
       IN Backed([h EXCEPT !.spares = RemoveAt(@, i)], hdr, k, h.spares[i].data, h.spares[i].cap)

\* A whole block sized by the running average, all of it charged to the
\* slice until its close returns the rest.
TakeBlock(h, hdr, k, need, n) ==
  LET c == h.cls[k]
      mu == IF c.cap >= BatchMax \div 4 THEN (c.len + n + c.mu) \div 2 ELSE c.mu
      cap == Min({Max({mu, need}), BatchMax})
  IN MoveTo([InstallBlock(h, k, cap) EXCEPT !.cls[k].mu = mu, !.cls[k].borrow = 0, !.cls[k].off = cap],
            hdr, k, Len(h.mem) + 1, cap)

\* ServeSliceGrow: growth of a slice of a bump class.
Served(h, hdr, k, need, n) ==
  IF need > BatchMax THEN Bypass(h, hdr, k, need) ELSE TakeBlock(h, hdr, k, need, n)
ServeSliceGrow(h, hdr, k) ==
  LET n == IF h.mem[hdr] = Zero THEN 0 ELSE SLen(h, hdr)
      need == IF n > 0 /\ h.cls[k].hint > n THEN h.cls[k].hint ELSE Max({2 * n, BatchMax \div 4})
  IN WatchGrow(Served([h EXCEPT !.cls[k].hint = IF n > 0 THEN 0 ELSE @], hdr, k, need, n), k, hdr, n)

\* take and slotAddr: the lowest free slot of a row.
SlotAddr(h, k, r, i) == h.cls[k].rows[r].base + (i - 1) * 2^(r - 1) * Tmpl[k].esz
TakeRow(h, k, r) == [h EXCEPT !.cls[k].rows[r].free = @ \ {Min(@)}]

\* refillRow: a fresh row of free slots.
RefillRow(h, k, r) ==
  LET at == Len(h.mem) + 1
      old == h.cls[k].rows[r].base
  IN [NewArray(h, RowSlots * 2^(r - 1) * Tmpl[k].esz) EXCEPT
        !.retained = @ \o (IF old = 0 THEN <<at>> ELSE <<old, at>>),
        !.cls[k].rows[r] = [base |-> at, free |-> 1..RowSlots]]

\* A slot of row r for the slice, the row refilled when it has none left.
FromRow(h, hdr, k, r) ==
  IF h.cls[k].rows[r].free = {} THEN MoveTo(TakeRow(RefillRow(h, k, r), k, r), hdr, k, Len(h.mem) + 1, 2^(r - 1))
  ELSE MoveTo(TakeRow(h, k, r), hdr, k, SlotAddr(h, k, r, Min(h.cls[k].rows[r].free)), 2^(r - 1))

\* The returned slot keeps what its last slice wrote.
BugFreeRow(h, k, data, cap) ==
  LET r == CHOOSE q \in 1..RecRows : cap % 2^(q - 1) = 0 /\ (q = RecRows \/ cap % 2^q # 0)
      size == cap * Tmpl[k].esz
      base == h.cls[k].rows[r].base
      off == data - base
  IN IF cap \notin 1..MaxRowCap \/ base = 0 \/ off < 0 \/ off >= RowSlots * size \/ off % size # 0 THEN h
     ELSE [h EXCEPT !.cls[k].rows[r].free = @ \cup {off \div size + 1}]

\* free: a slot of the current row returns, zeroed; an address outside the
\* row is ignored.
FreeRow(h, k, data, cap) ==
  LET r == CHOOSE q \in 1..RecRows : cap % 2^(q - 1) = 0 /\ (q = RecRows \/ cap % 2^q # 0)
      size == cap * Tmpl[k].esz
      base == h.cls[k].rows[r].base
      off == data - base
  IN IF cap \notin 1..MaxRowCap \/ base = 0 \/ off < 0 \/ off >= RowSlots * size \/ off % size # 0 THEN h
     ELSE Clear([h EXCEPT !.cls[k].rows[r].free = @ \cup {off \div size + 1}], data, size)

\* OpenSlice: the first backing of a nil slice.
OpenSlice(h, hdr, k) ==
  LET c == h.cls[k]
  IN IF Tmpl[k].mode = "recbatch" THEN FromRow(h, hdr, k, 1)
     ELSE IF c.off = c.lim THEN ServeSliceGrow(h, hdr, k)
     ELSE Put([h EXCEPT !.cls[k].borrow = c.off, !.cls[k].off = c.lim], hdr,
              <<Slice(c.block + c.off * Tmpl[k].esz, 0, c.cap - c.len)>>)

\* GrowSlice: a full slice moves to a larger backing. A row slot it leaves
\* returns to its row unless the move refilled a row.
GrowSlice(h, hdr, k) ==
  LET cap == SCap(h, hdr)
      r == Min({q \in 1..RecRows + cap : 2^(q - 1) > cap})
  IN IF Tmpl[k].mode # "recbatch" THEN ServeSliceGrow(h, hdr, k)
     ELSE IF r > RecRows
       THEN LET at == Len(h.mem) + 1
                g == [NewArray(h, 2^(r - 1) * Tmpl[k].esz) EXCEPT !.retained = Append(@, at)]
            IN FreeRow(MoveTo(g, hdr, k, at, 2^(r - 1)), k, Data(h, hdr), cap)
     ELSE IF h.cls[k].rows[r].free = {} THEN FromRow(h, hdr, k, r)
     ELSE FreeRow(FromRow(h, hdr, k, r), k, Data(h, hdr), cap)

\* Whether the slice at data is the borrower of its class's tail.
Borrows(h, k, data) ==
  LET c == h.cls[k]
  IN Tmpl[k].mode = "bump" /\ c.off = c.lim /\ data - c.block = c.borrow * Tmpl[k].esz /\ c.borrow < c.lim

\* CloseSlice and CommitBump: the borrower keeps its n elements and returns
\* the rest of the tail.
CloseSlice(h, k, data, n) ==
  IF ~Borrows(h, k, data) THEN h
  ELSE [h EXCEPT !.cls[k] = [@ EXCEPT !.off = (data - h.cls[k].block) \div Tmpl[k].esz + n,
                                      !.len = @ + n, !.borrow = h.cls[k].lim]]

-----------------------------------------------------------------------------
(* Release points.                                                         *)

\* harvestGrowHints: the final length of the one slice of a class that
\* outgrew its backing predicts the next.
HarvestOne(h, w) ==
  LET word == h.mem[w.hdr]
      whole == ~w.shared /\ Len(word) = 4 /\ word[1] = "slice" /\ word[2] = w.data /\ word[3] <= w.cap
  IN [h EXCEPT !.cls[w.k].hint = IF whole THEN word[3] ELSE 0]

\* settleGrowth.
SettleGrowth(h) == [FoldLeft(HarvestOne, h, h.watch) EXCEPT !.watch = <<>>, !.loose = <<>>]

\* sweepMapSlots: consumed map cells are cleared.
SweepClass(h, k) == IF Tmpl[k].ismap /\ h.cls[k].block # 0 THEN Clear(h, h.cls[k].block, h.cls[k].off) ELSE h
SweepMapSlots(h) == FoldSet(LAMBDA k, g : SweepClass(g, k), h, DOMAIN Tmpl)

\* detachSet.reset: the recursive classes of a policy drop their backings.
ResetClass(c, k) ==
  IF Tmpl[k].mode = "recbatch" THEN [c EXCEPT !.rows = EmptyRows]
  ELSE [c EXCEPT !.block = 0, !.off = 0, !.lim = 0]
Detach(h, ks) == [h EXCEPT !.cls = [k \in DOMAIN @ |-> IF k \in ks THEN ResetClass(@[k], k) ELSE @[k]]]
ByPolicy(any) == {k \in DOMAIN Tmpl : Tmpl[k].mode # "bump" /\ Tmpl[k].any = any
                                      /\ ~(Tmpl[k].mode = "recbump" /\ Tmpl[k].ismap)}

\* The backings later carves may come from.
Carvable(h) == {h.cls[k].block : k \in DOMAIN Tmpl} \cup
               UNION {{h.cls[k].rows[r].base : r \in 1..RecRows} : k \in DOMAIN Tmpl}

\* StageLive.
StageLive(h) == [h EXCEPT !.live = Carvable(h) \ {0}]

\* Release: one release point per bind. Both counters run only with classes
\* to detach.
DetachDue(h) ==
  IF h.left = 1 THEN Detach([h EXCEPT !.left = DetachK], ByPolicy(FALSE)) ELSE [h EXCEPT !.left = @ - 1]
DetachPaid(h) == IF h.debt >= DebtBudget THEN Detach([h EXCEPT !.debt = 0], ByPolicy(TRUE)) ELSE h
Detached(h) == IF ByPolicy(TRUE) \cup ByPolicy(FALSE) = {} THEN h ELSE DetachPaid(DetachDue(h))
Release(h) == StageLive(Detached(SweepMapSlots(SettleGrowth([h EXCEPT !.retained = <<>>]))))

\* ReleaseScoped: a stream's release point, back to its retention mark.
ReleaseScoped(h, mark) == StageLive(SettleGrowth([h EXCEPT !.retained = SubSeq(@, 1, mark)]))

-----------------------------------------------------------------------------
(* The string arena: one cell per decoded string.                          *)

\* EnsureStrArena and its exact form for trees with streams.
EnsureStr(h, n, exact) ==
  LET need == n + StrTail
      size == IF exact THEN need ELSE Max({Amortize * n + StrTail, need})
  IN IF Len(h.strs[h.str.id]) - h.str.at >= need THEN h
     ELSE [h EXCEPT !.strs = Append(@, [i \in 1..size |-> ""]),
                    !.str = [id |-> Len(h.strs) + 1, at |-> 0, used |-> 0]]

\* alloc: one cell of the view, or past it a backing of its own.
StoreStr(h, s) ==
  LET k == h.str.at + h.str.used + 1
  IN IF k > Len(h.strs[h.str.id]) THEN [h EXCEPT !.strs = Append(@, <<s>>)]
     ELSE [h EXCEPT !.strs[h.str.id][k] = s, !.str.used = @ + 1]
StrWord(h, s) ==
  LET k == h.str.at + h.str.used + 1
  IN IF k > Len(h.strs[h.str.id]) THEN <<"str", Len(h.strs) + 1, 1>> ELSE <<"str", h.str.id, k>>

\* The written cells do not move with the view.
BugCommitStr(h) == [h EXCEPT !.str.used = 0]
\* CommitStrArena.
CommitStr(h) == [h EXCEPT !.str = [@ EXCEPT !.at = @ + h.str.used, !.used = 0]]

=============================================================================
