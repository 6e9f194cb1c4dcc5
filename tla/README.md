# A TLA+ model of vjson

vjson is a JSON library for Go. It binds and encodes through tables compiled from
the program's types, keeps parsers and encoder states in pools, reads input in
chunks, and calls user code from inside its walks. Its hot paths run in native
code, with a Go engine behind the same contract. This directory holds TLA+ modules
for the parts whose correctness depends on orders of steps, on what earlier calls
left behind, or on tables that recursion builds. TLC checks each module on small
instances; TLAPS proves eight of them correct in their main promises for every
instance: the type cache, the reserve, parser lending, descriptor builds, the field
walk, the chunked decoder, stream reading and stream writing. Paths below are relative to the
repository; `PROJECT.json` maps each definition to the lines it
models.

Run `tlc -workers 2 -config MCFeed.cfg MCFeed` for a model, and
`tlapm FeedProofs.tla` for its proofs; the proofs about a module `M` are in
`MProofs`.

## 1. The system

| Part | State | Operations | Talks to |
|---|---|---|---|
| `rtcache/rtcache.go` type cache | groups of atomic ways, a `sync.Map` behind | `Get`, `Set`, `GetOrBuild` | every descriptor build |
| `rtcache/objpool.go` reserve | ways of parked objects, a byte counter, a switch | `Take`, `Offer`, `SetEnabled` | `New` of the `sync.Pool`s |
| `decode/bind/bind.go` parser lending | hot slot and pool per shape, in-flight counter | `getParser`, `putParser` | each decode; the reserve |
| `typ/unitype_build.go`, `venc/typebuild.go` descriptors | cache with pending entries, trees under construction | `UniTypeOf`, `PartialUniTypeOf`, `EncTypeInfoOf`, the struct field walk | everything that needs a type |
| `vbind/build.go`, `typetree.go`, `variant.go` type tree | rows, fields, slot classes, map sites, polymorphic tables | `Build` and its passes | read by both binders and the allocator |
| `vbind/allocator.go`, `recbatch.go` allocator | blocks, rows, spares, string arena, debt | carve, grow, close, commit, release | both binders; results live in its memory |
| `internal/gdec` Go scanner, tape builder | structural index, tape, strings | `Scan`, `Check`, `Extent`, `Locate`, `BuildTape`, `Valid` | Go engine, DOM, feed |
| `value`, `decode/dom` DOM | tape and string arenas of a pooled parser | `Parse`, `Get`, `Index`, `String`, Raw views | users |
| `internal/gbind` Go engine | cursor, staged hooks, open regions, key memo | `Bind` and one function per target kind | allocator, user hooks, stream handlers |
| `decode/bind/decoder.go`, `feed.go` streaming decoder | window, its offset in the input, scan, recovery anchor, sticky error | `Decode`, `More`, fill, compact, mount, recovery | the reader; the native walk |
| `native/ndec` scanner and walk | structural index of a window; cursor, phase, stack, first error | one token per step; yields to Go | all decoders |
| `stream`, `decode/bind/stream.go` stream reading | stack of activations, break signals, batch view | `Iter`, `Decode`, `Skip`, `Break`, drains, settles | user handlers; the walk, re-entrantly |
| `stream/sink.go`, `venc/stream.go` stream writing | sink word, driver flags | `Encode` of a sink, finish | user producers; the encode buffer |
| `venc/compile*.go` encoder compiler | instruction list, labels, types being visited | one emitter per kind, layout passes, lowering | the interpreter and the native VM |
| `venc/interp.go`, `encode.go`, `marshal.go` encoder | pooled state: buffer, contexts with frames, indentation | `Marshal`, `AppendMarshal`, one step per op | user marshalers, which may re-enter |
| `venc/encoder.go` Encoder | buffer, sticky error | `Encode`, flush, reclaim, last write | the writer |

What is hard in it, and what makes each part correct:

* **Concurrency.** Caches, reserve and descriptor builds scan without a lock and
  commit with one store or one CAS. A key keeps one value for ever, an object has
  one owner, the byte budget is credited by what was debited, nobody reads a
  half-built descriptor.
* **Recursion.** Types refer to themselves. Rows, flags, buffer sizes, cycle groups
  and jump targets are computed while parts of the answer are still missing, and
  must end up as if they had been computed from the finished graph.
* **Reuse.** Parsers, arenas, backings and encoder states serve one call after
  another. No call may read what an earlier one left, also one that failed or
  panicked, and none may change what an earlier one delivered.
* **Deferral.** Hooks, map entries, variants and errors are settled after the walk
  has moved on. Addresses staged meanwhile may move; the order decides the error.
* **Chunking.** A read may end inside any token. Every chunking must give the result
  of the whole input.
* **Re-entrancy.** A handler drives the walk that called it, leaves early, raises
  signals for scopes above, drops errors. Each element is delivered once or lies in
  an array that was given up; an error always reaches the caller.
* **Partial failure.** A writer takes part of a buffer; a producer ignores an error
  and goes on. What was accepted is written once, and the first error decides.

`PROJECT.json` lists these hazards one by one, at the line where each bites, with
the properties that would notice and what they leave open.

## 2. The modules

**RtCache** is `Table` and `Cache.GetOrBuild`: every load, store and `sync.Map` call
is a step. A build may fail; two builds of a key give different values, of which
`Publish` (`LoadOrStore`) keeps one. The hash is a constant function.

**ObjPool** is the reserve, one step per atomic operation. Entries have an identity
the allocator may reuse as soon as nothing holds it, so a CAS can meet a new entry
at an old address; objects grow while they are lent. **Reserve** is what it
promises: one step moves one object between the reserve and one goroutine. ObjPool
implements it with `parked` mapped to the objects in occupied ways; a successful
CAS is the linearization point. **ParserPool** is `getParser`, `putParser` and the
switch around them, over `sync.Pool` (external: it may miss although it holds
parsers, and drops them at a collection) and the atomic reserve. **Totals** states
sums of bytes as cardinalities of sets of units, so that they can be reasoned about
as well as evaluated.

**TypeBuild** gives each goroutine a stack of builds. `cache`, `open` (pending
entries not yet closed), `ext` (descriptors with their Ext) and `building` follow
`buildUniType`; `einfo`, `local` and `epub` follow `buildEncRec`, the needs-address
marking, binding and publication. A wait on a pending entry is a step that is
enabled once the entry is closed. **StructFields** is the breadth-first field walk
of one struct (`collectStructFields`): one action per declaration, level and
closing step, with the record per key, the ways a struct is reached, hop paths and
rejects. Its reference states Go's rule of the dominant field over the whole
program at once.

**TypeTree** is `vbind.Build` over a type program: `collect` as a work list of
starts and finishes (the order of the recursion), then Tarjan's algorithm over slot
classes, the drain records, the map buffer, arena flags, field flags and the tape
gate, each a phase. Its properties restate every table by reachability in the
finished graph.

**GoLex** holds the scanners of `internal/gdec` over symbols that stand for the byte
classes they distinguish; **GoLocate** the one that names the first offence;
**GoTape** the tape builder with its number cells and string arena; **JsonValue**
the tape's readers, the Raw views and serialization. **GoDoc** composes them: a text
arrives byte by byte in any split, then parsers parse one text after another into
shared arenas while the client keeps every Value. Its reference is a grammar
written over the text.

**SlotAlloc** is the allocator over a flat memory of words: blocks, rows, spares,
learned lengths, detaching, the string arena. **GoRead** is the engine's cursor,
skips and error records; **GoBind** one operator per bind function, over machine
records that carry the heap, staged hooks, regions and documents; **GoUnmarshal**
the calls: one action per `Unmarshal` into a fresh or the last destination, with
options, followed by the parser's release. Its reference is a recursive definition
of what a document means over an old value; `View` reads the memory back.

**EncCompile** turns a type into a blueprint: instructions with labels, layout
passes, then byte offsets. **EncInterp** runs one: `Step...` operators, one per op,
over a machine with frames, buffer, indentation and pending comma; fallbacks call
the Go encoders, which call the machine again in a child context. **Encode** is
`Marshal` and `AppendMarshal` over one pooled state, with buffers as slices of
arenas so that results and spare capacity can be watched. Its reference maps a
value to a document and the document to text.

**BindWalk** is the native window scanner (which structurals are published and
which withheld because bytes past the edge may belong to them) and the walk as a
function on machine records, one token per application. **Feed** is the Decoder
around it. **FeedRef** runs the same walk over the rest of the input in one window;
its properties compare the two.

**StreamScope** makes the Go call stack of nested handlers explicit: `acts` is the
stack of activations, each with the drive it waits in. Handlers are
nondeterministic within a set of moves; leaf streams bind a batch at a time, outer
ones one element into a single slot. **StreamWrite** is the Encoder with the sinks
of an object's stream members; every Write may take any prefix and may fail.

## 3. The runs

| Run | Instance | Result | Distinct states |
|---|---|---|---|
| `rtcache` | 3 goroutines, 2 keys in one group of 2 ways, 2 builds | one value per key for every caller; the table agrees with the map; occupied ways form a prefix | 640 220 |
| `objpool` | 2 goroutines, 3 objects of 2 keys, 3 ways, 4 entry addresses, sizes 1 to 3, budget 3 | single owner, exact charge, budget, own key, implements `Reserve` | 192 975 |
| `parserpool` | 3 goroutines, 3 parsers | one place per parser, exact in-flight count, the reserve takes only surplus | 179 072 |
| `typebuild` | 2 goroutines, a self-recursive struct with an array of hooks, a struct that holds it, and a cycle asked for at its pointer; decoder and encoder descriptors | descriptors asked for are whole, address flags do not depend on who built what, a quoted flag is what the order inside its cycle makes it, published ones stay, calls return | 32 104 |
| `fields` | hosts of up to 3 members over two promoted structs, embedded by value and pointer, tagged, renamed, dropped, reserving | dominance, addresses, one member per key in order, clashes reported | 63 336 |
| `typetree` | two mutually recursive structs over all pairs of shapes; hosts of variants, kinds, reserves, embeds, streams | tables mirror the types; groups, sizes, flags and gates equal their definitions by reachability, groups by retention | 70 345 |
| `godoc` | all texts of up to 2 symbols, up to 5 over brackets and string symbols, numbers of 3, and every one-symbol change of 18 seeds; two parses per parser | scanners agree with the grammar and each other; Values read as their text says, also after later parses | 106 496 |
| `gobind` | 11 root types; documents from members and elements, seeds cut off, changed and extended at every token; up to 3 calls on one parser | binds what the reference says, hooks once, results untouched, free memory zero and unshared | 32 309 |
| `encode` | types of every kind the compiler tells apart, values at their edges, compact and indented; 2 calls on one state, hooks that fail or panic | exact text, errors justified, state reusable, result independent of history | 41 525 |
| `feed` | all documents of up to 4 characters over `[ ] , 1 n` and about 20 longer ones, reads of 0 to 3 bytes, read errors with bytes and without, with and without a skip predicate | chunking changes neither results, mismatch offsets nor boundaries; recovery resumes on the next line; every call returns | 758 615 |
| `stream` | two levels with batches of 2, three levels with batches of 1, elements that fail, hooks that fail inside a stream and in the fields before and after it | in order, nothing lost or read unsettled, errors surface, signals hold, the parse ends | 299 603 |
| `write` | 5 objects of up to 2 members, up to 2 elements each, 2 calls | no byte lost or repeated, exact text, the first error wins | 33 968 |

**Properties.** Related statements about one promise are checked as one property; its
parts have names and comments of their own in the modules.

| Run | Property | Parts |
|---|---|---|
| `rtcache` | `TableWellFormed` | `TypeOK`, `OccupiedPrefix` |
| `objpool` | `Ownership` | `TypeOK`, `SingleOwner`, `TakeReturnsOwnKey` |
|  | `Accounting` | `ChargeExact`, `WithinBudget` |
| `parserpool` | `Ownership` | `TypeOK`, `OnePlace` |
|  | `Accounting` | `InFlightExact`, `ReserveTakesSurplus` |
| `typebuild` | `BuildsAttended` | `TypeOK`, `PendingHasBuilder` |
|  | `DescriptorsExact` | `CompleteDescriptors`, `QuotedByEntry` |
|  | `EncodersExact` | `PublishedWhole`, `NeedsAddrExact` |
| `fields` | `Election` | `TypeOK`, `DominanceKept`, `ReserveClashReported` |
|  | `Placement` | `AddressedThroughPath`, `OnePerKeyInOrder` |
| `typetree` | `Mirror` | `TypeOK`, `TableMirrorsTypes` |
|  | `RecursionClosed` | `GroupsAreCycles`, `MapBufferSuffices`, `ArenaUseClosed`, `HooksLeaveRegions` |
|  | `PolyChecksExact` | `EmbedsOneLevel`, `SplitSitesExact`, `TapeGateExact` |
| `godoc` | `GrammarKept` | `ScansAgree`, `LocateExact`, `ValidExact`, `RawExact` |
|  | `ReadsAsWritten` | `TypeOK`, `ValuesStable`, `LookupsAgree`, `TextRoundTrips`, `ArenasSuffice` |
| `gobind` | `Binding` | `TypeOK`, `BindsAsSpecified`, `PolyOrderFree`, `MalformedRejected` |
|  | `CallbacksExact` | `HooksRunOnce`, `ItemsComplete` |
|  | `ResultsKept` | `ResultsStable`, `ValuesWithheld` |
|  | `FreeMemoryClean` | `FreeIsZero`, `NothingSharedWithFree` |
| `encode` | `EncodesExactly` | `TypeOK`, `OutputExact`, `ErrorsJustified`, `JumpsLand` |
|  | `PoolClean` | `StateReusable`, `HistoryFree` |
| `feed` | `ChunkingInvisible` | `TypeOK`, `ResultParity`, `MismatchOffsetParity` |
|  | `BoundariesKept` | `BoundaryParity`, `ResumesOnNextLine`, `MoreTruthful` |
| `stream` | `ExactlyOnce` | `TypeOK`, `DeliveredInOrder`, `NothingLost`, `FailedHookNotRead` |
|  | `DrivesNest` | `MachineInScope`, `NoReentrantActivation` |
|  | `ErrorsHold` | `ErrorSurfaces`, `NoWalkAfterError` |
| `write` | `BytesKept` | `TypeOK`, `NothingLost` |
|  | `ReturnsExact` | `OutputExact`, `FirstErrorWins` |

The other properties stand alone: `Canonical`, `FastAgreesWithSlow`,
`ImplementsReserve`, `PublishedStays`, `CallsReturn`, `ExtentExact`,
`ResultsStable` of `encode`, `WindowFaithful`, `DecodeReturns`,
`GivenUpStaysGivenUp`, `Terminates` and `NoWriteAfterError`.

**Bounds.** Two keys in a group of two ways make every eviction and double entry
happen; a third goroutine lets one sleep through a cycle of the other two. Three
objects of two keys in one group, with more addresses than ways, are what an ABA
needs. Two goroutines suffice for every race on one type. Two mutually recursive
structs give self-loops, two-cycles and nested ones; `ChainDepth` and `MemoLimit`
stand for the frame limit and the memo's rows. In `godoc`, `IntBits`, `UintDigits`,
`MaxExp` and `MinExp` shrink the number widths so that both sides of every limit are
reached, `TapeGuess` and `StrTail` so that arenas overflow. In `gobind` the block
limit `BatchMax` is 4, rows have `RowSlots` of 2, the debt budget is 20 bytes, so
that refills, bypasses, spares and detaching occur within two calls; `Later`,
`Probe` and `Plain` restrict what follows an unusual first call. In `encode` the
stack has `MaxDepth` 4 frames and lengths wrap at `LenMod` 4. Reads of three bytes
split every token of the documents of `feed` in every way. Arrays of three with
batches of two give a full batch, a partial one and an empty close. `MaxCalls`,
`MaxElems`, `MaxRead`, `MaxZeroReads` (`feedMaxZeroReads`, 128 in the code),
`DrainMark` and `Width` bound the rest. Goroutines and interchangeable objects are
symmetric in the first three runs, which check no liveness. `typebuild`, `fields`,
`typetree`, `godoc` and `gobind` end when their calls are used up, so deadlock is not
checked there.

**Fairness.** `CallsReturn` assumes weak fairness of each goroutine's steps: the Go
scheduler runs a goroutine that can run. `DecodeReturns` assumes it of `Busy`, the
steps inside a call: a goroutine in `Decode` or `More` is not stopped and its Reads
return. No call need ever be made. `Terminates` assumes that the single thread which
runs driver, walk and handlers goes on (`WF_vars(Next)`), as sequential code does; a
handler's move is one step, so handlers that compute for ever are excluded.

## 4. Where documentation and code part

The runs state what the code keeps. What it does not keep was found while the
properties were being stated; each case is excepted in the property or the instance
and recorded as a hazard with the quotation.

*Types.* Two goroutines that enter a type cycle at different types wait for each
other (`typ/unitype_build.go:24`, `:93`); `typebuild` enters each cycle at one type,
and `CompleteDescriptors` speaks of the types asked for, since inner types of a cycle
are in the cache before their parents are whole (`:169`). A `,string` field that
points to the struct it lies in loses its quoted flag when the struct is asked for
first; when the pointer type is, that type has no Ext yet when the field is looked at
(`:730`) and the flag stays: `QuotedByEntry` states exactly this, and the instance
has a cycle of each kind. Two tagged candidates and
an untagged one at one depth elect the untagged one, where `:457` says any other tie
cancels; `DominanceKept` excepts it. A map on a cycle through its own deferred value
gets a drain record without a slot class (`vbind/build.go:692`); `HooksLeaveRegions`
excepts it, on a cycle by fields or by polymorphic cases. The slot graph misses three
backings that "values stored in backing A can retain" (`build.go:890`): the cell
behind a pointer to a map (`:1055`), the pointee of an embedded pointer (`:321`) and
the box of a polymorphic case (`variant.go:541`). A class whose only cycle leads
through one of them gets no group and is recycled singly; `GroupsAreCycles` compares
with retention between all backings in one direction and, in the other, excepts the
paths through these three. A variant case that leads back to its host escapes the one-level rule of
embeds (`vbind/variant.go:515`). The tape gate enters neither a pointer root nor the
variants inside a case (`build.go:1343`, `:1453`), and `TapeGateExact` follows it.

*Scanning.* `Valid` and `dom.Parse` accept siblings after a root container, as in
`[1] ,1` (`internal/gdec/tape.go:274`; `vj_valid.go:12`). A number past the double
range becomes an infinity that `Value.String` prints. The default parse takes raw control
bytes in strings (`parse.go:41`) and `String` copies them as they are
(`serialize.go:31`), so that text is no JSON, where `value.go:337` calls it the JSON
representation: `TextRoundTrips` asks that it parses to the same value again, and
that it is JSON whenever the source was. `CheckAt` passes over an
escaped byte of a multi-byte character. `Value.Len` saturates at 2^24-1, `Value.Int`
and `Raw.Int` differ for long reals: outside the bounds.

*Binding.* `WithSlotBatchMax(1..3)` makes the block floor zero
(`vbind/allocator.go:612`). A row slot that a reused destination outgrows is cleared,
also under an alias the caller kept (`recbatch.go:154`). A hook staged for a fixed
array element runs although a duplicate key zeroed it. A quoted `null` followed by a
blank allocates its pointer: the length that tells it apart is measured to the cursor,
which has passed the blank (`value.go:364`, `cursor.go:30`, against `:350`);
`OwnNull` models the code and the reference draws the same line. A stream publishes Values
batch by batch although an earlier mismatch fails the parse.

*Encoding.* D1: fields promoted across a pointer inside a struct held by value hop
from the outer base (`venc/compile.go:259`). D2: a recursive inline case calls its
brace-less body (`:163`). D3: the interpreter's fallback ignores the reason of a
spread and writes a value without a key (`interp.go:606`). D4: it breaks a line twice
before a pointee that marshals itself. D5: array lengths share 32 bits with the
element size (`compile.go:629`). These five types are `MCDeviant` in the instance:
`OutputExact` and `ErrorsJustified` do not judge them, the other properties do. D6:
after a recovered panic `AppendMarshal` leaves the caller's slice in the pool
(`marshal.go:155`); `ResultsStable` excepts such slices. D7: only the outermost run
counts in `execDepth`, so the budget of `encode.go:91` is never met by values nested
through interfaces.

*Streaming.* The offset of some syntax errors depends on the chunking (`bind.h:1493`;
`MismatchOffsetParity` leaves syntax errors out). An element of the wrong type stops
the walk inside its array and the next `Decode` starts there (`bind.go:641`;
`BoundaryParity` speaks of values read to their end). A middle handler that breaks
off at an element boundary lets its drain run into the parent array
(`decode/bind/stream.go:320`), and `continue` without `Decode` on an element that
contains streams yields it again (`scope.go:252`): in `stream` the middle one of
three leaves by a signal only, and only leaf handlers continue. A member whose first
element panicked and was recovered counts as omitted although its key is written
(`venc/stream.go:191`), and a short write of `null` is not noticed (`encoder.go:206`);
`OutputExact` of StreamWrite excepts both. Restaged lines are mounted as final
(`feed.go:115`); `ResultParity` excepts recovering documents that end in an open
string.

*Pools.* A warmed table may go on storing (`rtcache.go:86`); two `Offer`s of one key
can exceed `ReserveDepth` (`objpool.go:5`); an `Offer` under way can park after
`SetEnabled(false)` (`:203`).

## 5. The proofs

Each theorem has the form `Spec => [](...)` (or an action property, or the
specification `Reserve`) and holds for every value of the module's constants under
its named ASSUMEs: finitely many goroutines, at least one way, a hash that maps keys
to groups, a nil distinct from everything else, well-formed type programs, finitely
many types of which none contains itself by value (`InlineAssumption`, a rule of Go). The
bounds of the runs (`MaxCalls`, `MaxElems`, `MaxRead`, ...) are constants too: any
number will do.

| Module | Theorem | Says |
|---|---|---|
| `RtCacheProofs` | `ShapeHolds`, `CanonicalHolds`, `FastAgreesHolds` | a key keeps one value; the table agrees with the map; occupied ways form a prefix |
| `ObjPoolProofs` | `OwnershipHolds`, `AccountingHolds` | an object has one owner; the byte counter is exact and within the budget |
|  | `NoAddressReuse` | a CAS that succeeds finds the entry that was loaded |
|  | `Implements` | each atomic step is a step of `Reserve` or none |
| `ParserPoolProofs` | `OwnershipHolds`, `AccountingHolds` | a parser is in one place; the in-flight count is exact; the reserve takes only surplus |
| `TypeBuildProofs` | `EveryBuildAttended`, `IdentityStays` | a pending entry has exactly one builder; a published descriptor stays |
|  | `EncodersWhole` | what can be reached from a published EncTypeInfo is bound, with its type's children and the right needs-address flag |
| `StructFieldsProofs` | `MembersPlaced` | hops and offset are those of the path; a key has one member; members come in order |
| `FeedProofs` | `NoByteMoved` | the window is the part of the document its base says |
| `StreamScopeProofs` | `ErrorsSurvive` | a reported error ends the walk and fails the parse, whatever the handlers do |
| `StreamWriteProofs` | `NoByteLost`, `FailedWriteIsLast`, `ReturnsTrue` | what was encoded is written once; nothing follows a failed Write; nil means the whole text, an error is the first one |

Hardly any of these is inductive. What each proof adds, and why:

* **RtCache.** `SlowNamesKey`: a published value was built for its key.
  `LocalsAgree`: whoever is about to publish holds a build of its own key, and
  inside `Set` the published value; without it a store could put a losing build into
  the table. `ScannedOccupied`: `Set` has seen every way before its position
  occupied, and no way becomes nil again.
* **ObjPool.** `LocalsAgree`: what an `Offer` or `Take` in progress holds;
  `EntriesKeyed`: an entry is parked under its object's key; `AddressIdentifies`:
  of the entries in a way or loaded by a call, two at one address are one entry.
  The last rules ABA out: an address is reused only when nobody holds the old entry.
  The counter is a sum over ways and over calls with unsettled charges; `Totals`
  makes it the size of a set, and one step moves units in or out of that set.
* **ParserPool.** `BorrowersHold`: a goroutine has a parser exactly between the two
  calls. `SurplusOnly`: if the reserve has a parser, or someone is about to offer
  one, then the pool side has one or is owed one, namely by a goroutine that will
  read zero for the others. Between two collections only; a collection empties the
  pool at will.
* **TypeBuild.** `One` and `Held`: the frames that build, over all stacks, are in
  bijection with the open entries. `Alone`: an EncTypeInfo build that binds has
  nothing above or below it. `Owned`: objects of a build exist, so publishing names
  a whole one. Most of the text shows that pushing, replacing and popping a frame
  keeps the builds of the other frames. `EncodersWhole` needs a second invariant,
  `EInv`, on top: `Infos` says that a bound object's edges lead to bound objects of its
  type's children, so reachability needs no more than induction along the edges.
  `Going(g)` is what makes the objects of a build bindable all at once: of those that
  are not bound, each is in the hand of a frame that has gathered the edges up to its
  position (`Tower`, `Ready`), or has them all, and every edge leads to a bound object
  or to one of the same build (`Good`). A frame reads an Ext only after its
  `UniTypeOf` returned, hence after it was set (`Cached`). `NeedsExact` and
  `MarksExact` show that the reference and `markNeedsAddr`, both cut off after as many
  levels as there are types, satisfy the same equation, by induction on the depth of
  inline storage: the marks agree although half of a tree is another goroutine's.
* **StructFields.** `Queues`: an entry's type, offset and hops are where its path
  leads, by the reference's own walk; `Collected`: candidates are declarations of such
  entries; `Recorded`: the only candidate of a key that is not cleared is the one its
  record names. `Entered(Append(p, i))` is one step beyond `Entered(p)`, by induction.
* **Feed.** `Bytes` is the theorem plus what recovery has kept of earlier windows.
  To keep it, offsets must stay inside the window: `Fresh` says that wherever the
  cursor is read, its index belongs to this window (a stale one is left only behind an
  error no later call gets past); `Control` and `Machine` that the walk stops where it can
  be resumed; `Unarmed` that nothing is kept between values. A third of the proof is
  that each of the walk's steps keeps its machine well-formed.
* **StreamScope.** Once an error is out, the innermost activation must be on its way
  out with it, or its handler must be one whose scope kept the error and has nothing
  left to drive (`Spent`): otherwise a handler that swallows the error would start the
  walk again behind it. That a handler whose `Decode` failed is `Spent` depends on how
  the walk reached the element: a slot that is not a leaf's holds one element, a hook
  runs on the batch just bound, and the yield that leads to a hook must find the
  activation that armed it. So the invariant `InOrder` follows the innermost array
  through every yield: where the cursor stands (`AtValue`), whose slot is armed
  (`Armed`) and which activation drives whom (`Owned`), with the seeds, batches and
  signals of all of them. Nothing is assumed of the handlers.
* **StreamWrite.** `NothingLost` is nearly inductive, with `SinkWord` and `Shape`
  for who may append. `OutputExact` speaks of the end of a call; `Framing` says of every
  place in between how much of the text is out: `Before` for the members done,
  `Ahead(n)` inside an array after n elements, and that the driver's `first` flag
  means an empty object so far. `Upto` is a recursive function; that it exists and that its first
  members depend on no later ones are lemmas by induction.

Induction is over sets (`SetInduction`: a set that contains 0 and is closed under
successor contains `0 .. N`), derived from the well-foundedness of the naturals. A
recursive function is first shown to exist; then it equals its rule.

What stays with TLC, and why:

* **Liveness**: `CallsReturn`, `DecodeReturns`, `Terminates`. The provers have no
  fairness rules beyond propositional ones.
* **References that recurse over data**: FeedRef runs the walk to the end
  (`ChunkingInvisible`, `BoundariesKept`); GoLex to GoDoc, SlotAlloc to GoUnmarshal,
  EncCompile to Encode and TypeTree are recursive operators over texts, values and
  graphs. What such a definition computes for every input is out of the provers' reach.
* **`DescriptorsExact`**: `CompleteDescriptors` rests on `Roots`: inner types of a
  cycle are published before their parents are whole, so an inductive form must say
  which types a build in progress can still reach. `QuotedByEntry` rests on
  them too: whether the pointer type of a quoted field is whole before its struct
  depends on which of them was asked for. `Election` compares with a count over all paths of a
  program (`Ways`).
* **StreamScope**: `DrivesNest` is false for handlers that may do anything at every
  level (section 4: a middle handler that breaks off at an element boundary lets its
  drain overrun); it and `ExactlyOnce` hold on the handlers of the instance, which no
  assumption on the constants describes.

## 6. Not modelled

The native encoder VM: the C twin of EncInterp, whose own difficulty is a buffer that
fills in the middle of an op. The native DOM builder, map drains and scoped views:
TypeTree and GoBind model the records and regions they share with the Go engine. In
BindWalk targets are numbers, slices and structs with one field; the arenas that
follow a window, `Buffered` and the trailing check of `UnmarshalFeed` are left out.
In StructFields and the other type models sequences are values, so two slices that
share an array (`unitype_build.go:637`) are not seen. In the Go engine zero-copy strings, base64 byte slices, hooks behind non-empty
interfaces and streams in streams; documents that repeat a member of a variant's
host; `HooksRunOnce` and `ItemsComplete` judge the roots without variants, whose hooks
the other properties of `gobind` still run. In the encoder marshalers that call the
library again, byte formatting, and stream members outside StreamWrite. The
perfect-hash field lookup, SIMD kernels and float rounding work on 64-bit data that
TLC cannot enumerate usefully. Deep copy is sequential and shares no state with the
rest. The blob loader, runtime shims, options, errors, facades and developer scripts
have no state machine of their own.

## 7. Plan

1. **Proofs**: Feed `ResumesOnNextLine` and the offsets of its `TypeOK`; TypeBuild
   `CompleteDescriptors`; Encode `PoolClean` and GoUnmarshal's `FreeIsZero` once their
   operators are functions; StreamScope `GivenUpStaysGivenUp`.
2. **Native encoder VM**: buffer-full yields between any two bytes, resumed, against
   EncInterp as the abstract machine.
3. **Composition**: ParserPool over ObjPool instead of Reserve; StreamScope over the
   chunked Feed; GoUnmarshal over ParserPool.
4. **Deep copy**: cycles and shared pointers.
