------------------------------ MODULE TypeBuild ------------------------------
(***************************************************************************)
(* How the two per-type descriptors are built and shared.                  *)
(*                                                                         *)
(* typ.UniTypeOf keeps one UniType per reflect.Type in a sync.Map.  The    *)
(* first goroutine to store a pending entry builds the descriptor, all     *)
(* others wait for its `done` channel, and a goroutine breaks cycles with  *)
(* the local map of the shells it has in flight.  Since the LoadOrStore    *)
(* has one winner, a UniType is identified with its type.                  *)
(*                                                                         *)
(* venc.EncTypeInfoOf builds on it without any waiting of its own: every   *)
(* goroutine makes private EncTypeInfo objects, reuses those it finds      *)
(* published, and publishes its own once all of them are bound; the first  *)
(* publication of a type wins.                                             *)
(*                                                                         *)
(* One step is one access to shared state (a load, a LoadOrStore, a Store, *)
(* a close, a Publish) with the local work that precedes the next one.     *)
(***************************************************************************)
EXTENDS Naturals, FiniteSets, SequencesExt, TLC

CONSTANTS
  Gor,        \* goroutines
  Types,      \* reflect types
  Child,      \* Child[t]: the types t's Ext refers to, in build order
  Inline,     \* Inline[t]: those stored inside t's own bytes
  Hook,       \* Hook[t]: "none", or a marshal method with a "value" or "addr" receiver;
              \* a struct with an omitzero field whose IsZero has a pointer receiver
              \* counts as "addr", a value.Value as "none"
  Quoted,     \* struct types whose first child is a `,string` field that points to a struct
  Roots,      \* the types the program passes to UniTypeOf and EncTypeInfoOf
  MaxCalls    \* bound: calls per goroutine

ASSUME ChildAssumption ==
  /\ Child \in [Types -> Seq(Types)]
  /\ \A t \in Types : Inline[t] \subseteq ToSet(Child[t])
  /\ Hook \in [Types -> {"none", "value", "addr"}]
  /\ Quoted \subseteq Types /\ Roots \subseteq Types /\ MaxCalls \in Nat

(* No Go type contains itself by value: inline storage has a depth.         *)
ASSUME InlineAssumption ==
  /\ IsFiniteSet(Types)
  /\ \E depth \in [Types -> 0..Cardinality(Types)] :
       \A t \in Types : \A u \in Inline[t] : depth[u] < depth[t]

NoObj == <<>>

VARIABLES
  cache,      \* uniTypeCache: "absent", "pending" or "done"
  open,       \* done channels not closed yet
  ext,        \* types whose UniType has its Ext
  flag,       \* struct types whose `,string` field kept the quoted flag
  stack,      \* stack[g]: frames of the calls g is in, innermost last
  building,   \* building[g]: types of g's in-flight shells
  calls,      \* calls[g]: calls made
  local,      \* local[g]: EncTypeInfo objects of g's running build, by type
  einfo,      \* EncTypeInfo objects: edges, needsAddr, bound
  epub        \* encTypeCache: the published object of each type

vars == <<cache, open, ext, flag, stack, building, calls, local, einfo, epub>>
univars == <<cache, open, ext, flag, building>>
encvars == <<local, einfo, epub>>

(* The map f with y stored under x.                                          *)
With(f, x, y) == [z \in DOMAIN f \cup {x} |-> IF z = x THEN y ELSE f[z]]

Frame(op, t) == [op |-> op, t |-> t, at |-> "load", i |-> 1, edges |-> <<>>]
Top(g) == Last(stack[g])
Under(g) == Front(stack[g])
Goto(g, f) == stack' = [stack EXCEPT ![g] = Append(Under(g), f)]
At(g, op, a) == stack[g] # <<>> /\ Top(g).op = op /\ Top(g).at = a

Init ==
  /\ cache = [t \in Types |-> "absent"]
  /\ open = {} /\ ext = {} /\ flag = {} /\ einfo = <<>>
  /\ stack = [g \in Gor |-> <<>>]
  /\ building = [g \in Gor |-> {}]
  /\ calls = [g \in Gor |-> 0]
  /\ local = [g \in Gor |-> <<>>]
  /\ epub = [t \in Types |-> NoObj]

(***************************************************************************)
(* typ: UniTypeOf ("uni") and partialUniTypeOf ("part").                   *)
(***************************************************************************)

UniTypeOf(g, t) ==
  /\ stack[g] = <<>> /\ calls[g] < MaxCalls
  /\ calls' = [calls EXCEPT ![g] = @ + 1]
  /\ stack' = [stack EXCEPT ![g] = <<Frame("uni", t)>>]
  /\ building' = [building EXCEPT ![g] = {}]
  /\ UNCHANGED <<cache, open, ext, flag, encvars>>

(* The caller of a finished frame: an outer build takes the next child, an   *)
(* EncTypeInfo build reads the descriptor it asked for.                      *)
Returned(g) ==
  LET up == Under(g) IN
  IF up = <<>> THEN <<>>
  ELSE LET f == Last(up) IN
       Append(Front(up), CASE f.op = "enc" -> [f EXCEPT !.at = "shell"]
                           [] OTHER        -> [f EXCEPT !.i = @ + 1])

Return(g) == stack' = [stack EXCEPT ![g] = Returned(g)]

(* A child already in the goroutine's own build chain breaks the cycle: the  *)
(* shell is returned, without its Ext.                                       *)
PartialShell(g) ==
  /\ At(g, "part", "load") /\ Top(g).t \in building[g]
  /\ Return(g)
  /\ UNCHANGED <<univars, calls, encvars>>

NeedsLoad(g) ==
  \/ At(g, "uni", "load")
  \/ At(g, "part", "load") /\ Top(g).t \notin building[g]

LoadHit(g) ==
  /\ NeedsLoad(g) /\ cache[Top(g).t] = "done"
  /\ Return(g)
  /\ UNCHANGED <<univars, calls, encvars>>

LoadPending(g) ==
  /\ NeedsLoad(g) /\ cache[Top(g).t] = "pending"
  /\ Goto(g, [Top(g) EXCEPT !.at = "wait"])
  /\ UNCHANGED <<univars, calls, encvars>>

LoadMiss(g) ==
  /\ NeedsLoad(g) /\ cache[Top(g).t] = "absent"
  /\ Goto(g, [Top(g) EXCEPT !.at = "store"])
  /\ UNCHANGED <<univars, calls, encvars>>

BugGotoType(g) ==
  /\ stack[g] # <<>> /\ Top(g).at = "wait" /\ Top(g).t \notin open
  /\ stack' = [stack EXCEPT ![g] = Append(Under(g), [Top(g) EXCEPT !.t = NoObj])]
  /\ UNCHANGED <<univars, calls, encvars>>

Wake(g) ==
  /\ stack[g] # <<>> /\ Top(g).at = "wait" /\ Top(g).t \notin open
  /\ Return(g)
  /\ UNCHANGED <<univars, calls, encvars>>

(* LoadOrStore of the pending entry: the winner builds, a loser returns or   *)
(* waits.  Kind and hooks are set on the shell before any child is built.    *)
StoreWin(g) ==
  LET t == Top(g).t IN
  /\ stack[g] # <<>> /\ Top(g).at = "store" /\ cache[t] = "absent"
  /\ cache' = [cache EXCEPT ![t] = "pending"]
  /\ open' = open \cup {t}
  /\ building' = [building EXCEPT ![g] = @ \cup {t}]
  /\ Goto(g, [Top(g) EXCEPT !.at = "kids"])
  /\ UNCHANGED <<ext, flag, calls, encvars>>

BugStoreLose(g) ==
  /\ stack[g] # <<>> /\ Top(g).at = "store" /\ cache[Top(g).t] # "absent"
  /\ Goto(g, [Top(g) EXCEPT !.at = "kids"])
  /\ UNCHANGED <<univars, calls, encvars>>

StoreLose(g) ==
  /\ stack[g] # <<>> /\ Top(g).at = "store" /\ cache[Top(g).t] # "absent"
  /\ IF cache[Top(g).t] = "done"
     THEN Return(g)
     ELSE Goto(g, [Top(g) EXCEPT !.at = "wait"])
  /\ UNCHANGED <<univars, calls, encvars>>

(* Defects a property must notice precede the definition they stand for.     *)
BugPublishBeforeExt(g) ==
  LET t == Top(g).t IN
  /\ stack[g] # <<>> /\ Top(g).at = "kids" /\ Top(g).op # "enc"
  /\ Top(g).i <= Len(Child[t])
  /\ cache' = [cache EXCEPT ![t] = "done"]
  /\ open' = open \ {t}
  /\ stack' = [stack EXCEPT ![g] = Append(@, Frame("part", Child[t][Top(g).i]))]
  /\ UNCHANGED <<ext, flag, building, calls, encvars>>

BuildChild(g) ==
  /\ stack[g] # <<>> /\ Top(g).at = "kids" /\ Top(g).op # "enc"
  /\ Top(g).i <= Len(Child[Top(g).t])
  /\ stack' = [stack EXCEPT ![g] = Append(@, Frame("part", Child[Top(g).t][Top(g).i]))]
  /\ UNCHANGED <<univars, calls, encvars>>

(* The quoted flag of a pointer field is dropped when the pointee's kind     *)
(* cannot be quoted, which is looked up through the field type's own Ext: it *)
(* stays when that is a shell of the same build chain.                       *)
BugKeepsQuoted(t) == t \in Quoted
KeepsQuoted(t) == t \in Quoted /\ Child[t][1] \notin ext

(* All children are there: Ext is assigned and the descriptor published.     *)
Publish(g) ==
  LET t == Top(g).t IN
  /\ stack[g] # <<>> /\ Top(g).at = "kids" /\ Top(g).op # "enc"
  /\ Top(g).i > Len(Child[t])
  /\ ext' = ext \cup {t}
  /\ flag' = IF KeepsQuoted(t) THEN flag \cup {t} ELSE flag
  /\ cache' = [cache EXCEPT ![t] = "done"]
  /\ Goto(g, [Top(g) EXCEPT !.at = "close"])
  /\ UNCHANGED <<open, building, calls, encvars>>

BugCloseDone(g) ==
  /\ stack[g] # <<>> /\ Top(g).at = "close"
  /\ Return(g)
  /\ UNCHANGED <<univars, calls, encvars>>

CloseDone(g) ==
  /\ stack[g] # <<>> /\ Top(g).at = "close"
  /\ open' = open \ {Top(g).t}
  /\ Return(g)
  /\ UNCHANGED <<cache, ext, flag, building, calls, encvars>>

(***************************************************************************)
(* venc: EncTypeInfoOf and buildEncRec ("enc").                            *)
(***************************************************************************)

EncTypeInfoOf(g, t) ==
  /\ stack[g] = <<>> /\ calls[g] < MaxCalls
  /\ calls' = [calls EXCEPT ![g] = @ + 1]
  /\ stack' = [stack EXCEPT ![g] = <<Frame("enc", t)>>]
  /\ local' = [local EXCEPT ![g] = <<>>]
  /\ UNCHANGED <<univars, einfo, epub>>

(* The object of one build: its goroutine, its call and its type.            *)
Obj(g, t) == <<g, calls[g], t>>

(* A subtree is complete: its object becomes an edge of the parent, or the   *)
(* build goes on to bind and publish what it made.                           *)
EncReturned(g, o) ==
  LET up == Under(g) IN
  IF up = <<>>
  THEN IF local[g] = <<>> THEN <<>> ELSE <<[Frame("bind", Top(g).t) EXCEPT !.at = "mark"]>>
  ELSE Append(Front(up), [Last(up) EXCEPT !.i = @ + 1, !.edges = Append(@, o)])

EncHit(g) ==
  LET t == Top(g).t IN
  /\ At(g, "enc", "load") /\ epub[t] # NoObj
  /\ stack' = [stack EXCEPT ![g] = EncReturned(g, epub[t])]
  /\ UNCHANGED <<univars, calls, encvars>>

EncInFlight(g) ==
  LET t == Top(g).t IN
  /\ At(g, "enc", "load") /\ epub[t] = NoObj /\ t \in DOMAIN local[g]
  /\ stack' = [stack EXCEPT ![g] = EncReturned(g, local[g][t])]
  /\ UNCHANGED <<univars, calls, encvars>>

EncMiss(g) ==
  LET t == Top(g).t IN
  /\ At(g, "enc", "load") /\ epub[t] = NoObj /\ t \notin DOMAIN local[g]
  /\ stack' = [stack EXCEPT ![g] = Append(@, Frame("uni", t))]
  /\ building' = [building EXCEPT ![g] = {}]
  /\ UNCHANGED <<cache, open, ext, flag, calls, encvars>>

(* newEncTypeFromUT registers the shell before the container edges are       *)
(* filled.  fillContainerExt dispatches on the Ext it reads: a UniType whose *)
(* Ext is still missing would pass for a leaf.                               *)
EncShell(g) ==
  LET t == Top(g).t  o == Obj(g, t) IN
  /\ At(g, "enc", "shell")
  /\ local' = [local EXCEPT ![g] = With(@, t, o)]
  /\ einfo' = With(einfo, o, [edges |-> <<>>, addr |-> FALSE, bound |-> FALSE])
  /\ Goto(g, [Top(g) EXCEPT !.at = "kids", !.i = IF t \in ext THEN 1 ELSE Len(Child[t]) + 1])
  /\ UNCHANGED <<univars, calls, epub>>

EncChild(g) ==
  /\ At(g, "enc", "kids") /\ Top(g).i <= Len(Child[Top(g).t])
  /\ stack' = [stack EXCEPT ![g] = Append(@, Frame("enc", Child[Top(g).t][Top(g).i]))]
  /\ UNCHANGED <<univars, calls, encvars>>

BugEncFilled(g) ==
  LET o == local[g][Top(g).t] IN
  /\ At(g, "enc", "kids") /\ Top(g).i > Len(Child[Top(g).t])
  /\ einfo' = [einfo EXCEPT ![o].edges = Top(g).edges]
  /\ epub' = [epub EXCEPT ![Top(g).t] = IF @ = NoObj THEN o ELSE @]
  /\ stack' = [stack EXCEPT ![g] = EncReturned(g, o)]
  /\ UNCHANGED <<univars, calls, local>>

EncFilled(g) ==
  LET o == local[g][Top(g).t] IN
  /\ At(g, "enc", "kids") /\ Top(g).i > Len(Child[Top(g).t])
  /\ einfo' = [einfo EXCEPT ![o].edges = Top(g).edges]
  /\ stack' = [stack EXCEPT ![g] = EncReturned(g, o)]
  /\ UNCHANGED <<univars, calls, local, epub>>

BugMarkForeignUnset(g) ==
  {o \in DOMAIN einfo : Hook[o[3]] = "addr"}

(* markNeedsAddr: a hook decides alone; otherwise inline storage propagates. *)
(* An object of an earlier build keeps the flag it was published with.  The  *)
(* inline relation has no cycle, so its depth is bounded by the types.       *)
MarkNeedsAddr(g) ==
  LET mark[n \in 0..Cardinality(Types)] ==
        {o \in DOMAIN einfo :
           IF o \notin Range(local[g]) THEN einfo[o].addr
           ELSE IF Hook[o[3]] # "none" THEN Hook[o[3]] = "addr"
           ELSE n > 0 /\ \E i \in DOMAIN einfo[o].edges :
                           /\ einfo[o].edges[i][3] \in Inline[o[3]]
                           /\ einfo[o].edges[i] \in mark[n - 1]}
  IN mark[Cardinality(Types)]

EncBind(g) ==
  LET need == MarkNeedsAddr(g) IN
  /\ At(g, "bind", "mark")
  /\ einfo' = [o \in DOMAIN einfo |->
                 IF o \in Range(local[g])
                 THEN [einfo[o] EXCEPT !.addr = o \in need, !.bound = TRUE] ELSE einfo[o]]
  /\ Goto(g, [Top(g) EXCEPT !.at = "publish"])
  /\ UNCHANGED <<univars, calls, local, epub>>

BugEncPublish(g, t) ==
  /\ At(g, "bind", "publish") /\ t \in DOMAIN local[g]
  /\ epub' = [epub EXCEPT ![t] = local[g][t]]
  /\ LET rest == [u \in DOMAIN local[g] \ {t} |-> local[g][u]] IN
       /\ local' = [local EXCEPT ![g] = rest]
       /\ stack' = IF DOMAIN rest = {} THEN [stack EXCEPT ![g] = <<>>] ELSE stack
  /\ UNCHANGED <<univars, calls, einfo>>

(* encTypeCache.Publish: the first object of a type stays.                   *)
EncPublish(g, t) ==
  /\ At(g, "bind", "publish") /\ t \in DOMAIN local[g]
  /\ epub' = [epub EXCEPT ![t] = IF @ = NoObj THEN local[g][t] ELSE @]
  /\ LET rest == [u \in DOMAIN local[g] \ {t} |-> local[g][u]] IN
       /\ local' = [local EXCEPT ![g] = rest]
       /\ stack' = IF DOMAIN rest = {} THEN [stack EXCEPT ![g] = <<>>] ELSE stack
  /\ UNCHANGED <<univars, calls, einfo>>

Step(g) ==
  \/ PartialShell(g) \/ LoadHit(g) \/ LoadPending(g) \/ LoadMiss(g) \/ Wake(g)
  \/ StoreWin(g) \/ StoreLose(g) \/ BuildChild(g) \/ Publish(g) \/ CloseDone(g)
  \/ EncHit(g) \/ EncInFlight(g) \/ EncMiss(g) \/ EncShell(g) \/ EncChild(g)
  \/ EncFilled(g) \/ EncBind(g) \/ \E t \in Types : EncPublish(g, t)

Call(g) == \E t \in Roots : UniTypeOf(g, t) \/ EncTypeInfoOf(g, t)

Next == \E g \in Gor : Step(g) \/ Call(g)

(* The scheduler runs every goroutine that can run.                          *)
Spec == Init /\ [][Next]_vars /\ \A g \in Gor : WF_vars(Step(g))

-----------------------------------------------------------------------------
(***************************************************************************)
(* Properties.                                                             *)
(***************************************************************************)

TypeOK ==
  /\ cache \in [Types -> {"absent", "pending", "done"}]
  /\ open \subseteq Types /\ ext \subseteq Types /\ flag \subseteq Quoted
  /\ \A g \in Gor : building[g] \subseteq Types /\ calls[g] \in 0..MaxCalls
  /\ \A t \in Types : epub[t] = NoObj \/ epub[t] \in DOMAIN einfo
  /\ \A g \in Gor : \A i \in DOMAIN stack[g] : stack[g][i].t \in Types

(* What can be reached from a descriptor through its Ext.                    *)
Reach(t) ==
  LET R[n \in 0..Cardinality(Types)] ==
        IF n = 0 THEN {t}
        ELSE LET near == R[n - 1]
             IN near \cup UNION {ToSet(Child[u]) : u \in near \cap ext}
  IN R[Cardinality(Types)]

(* UniTypeOf hands out whole descriptors: once a root type is in the cache  *)
(* every descriptor reachable from it has its Ext (unitype_build.go:24,      *)
(* 38-39: only PartialUniTypeOf may return a shell without one).  It holds   *)
(* of the type at which a cycle is entered; the types inside it are in the   *)
(* cache before the cycle is whole.                                          *)
CompleteDescriptors ==
  \A t \in Roots : cache[t] = "done" => Reach(t) \subseteq ext

(* Where the `,string` of a field that points to a struct is dropped.  Only  *)
(* the kinds of IsQuotableKind support the tag (unitype.go:310), but the     *)
(* pointee's kind is looked up through the Ext of the pointer type           *)
(* (unitype_build.go:727-740), which is missing when the pointer type was    *)
(* asked for first: then the struct keeps the flag.  So the descriptor       *)
(* depends on the type at which the program enters the cycle, and on nothing *)
(* else: not on the goroutine that built it or on what else was in flight.   *)
QuotedByEntry ==
  \A t \in Quoted : cache[t] = "done" => (t \in flag <=> Child[t][1] \in Roots)

(* A pending entry has exactly one builder, which has the type on its stack: *)
(* nobody waits for a build that nobody runs.                                *)
PendingHasBuilder ==
  \A t \in open : Cardinality({g \in Gor : \E i \in DOMAIN stack[g] :
        stack[g][i].t = t /\ stack[g][i].op # "enc" /\ stack[g][i].at \in {"kids", "close"}}) = 1

(* Whatever goroutine built which part, every object reachable from a        *)
(* published EncTypeInfo is bound and knows its children, so an encoder      *)
(* never calls through a half-built subtree (venc/typebuild.go:44-62).       *)
PublishedWhole ==
  \A o \in {epub[t] : t \in Types} \ {NoObj} :
     LET R[n \in 0..Cardinality(Types)] ==
           IF n = 0 THEN {o} ELSE R[n-1] \cup UNION {ToSet(einfo[p].edges) : p \in R[n-1]}
     IN \A p \in R[Cardinality(Types)] :
          einfo[p].bound /\ [i \in DOMAIN einfo[p].edges |-> einfo[p].edges[i][3]] = Child[p[3]]

(* The flag that makes the encoder copy a value before a pointer-receiver    *)
(* method runs on it is right for every published type, also when a subtree  *)
(* came from another goroutine's build (venc/typebuild.go:64-107).           *)
NeedsAddrRef ==
  LET Needs[n \in 0..Cardinality(Types)] ==
        {t \in Types : IF Hook[t] # "none" THEN Hook[t] = "addr"
                       ELSE n > 0 /\ \E u \in Inline[t] : u \in Needs[n - 1]}
  IN Needs[Cardinality(Types)]
NeedsAddrExact ==
  \A t \in Types : epub[t] # NoObj => (einfo[epub[t]].addr <=> t \in NeedsAddrRef)

(* A published descriptor is never replaced, so type identity by pointer is  *)
(* stable for as long as the program runs.                                   *)
PublishedStays ==
  [][\A t \in Types : epub[t] # NoObj => epub'[t] = epub[t]]_vars

(* Every call of UniTypeOf or EncTypeInfoOf returns: builds in flight are    *)
(* waited for, and end (unitype_build.go:24).  It holds when the goroutines  *)
(* enter a cycle at one of its types; when they enter it at two, each can    *)
(* wait for the other.                                                       *)
CallsReturn == \A g \in Gor : (stack[g] # <<>>) ~> (stack[g] = <<>>)

(* A build in flight is somebody's: each pending entry has a builder.      *)
BuildsAttended == TypeOK /\ PendingHasBuilder

(* UniTypeOf's descriptors, as far as the code determines them.             *)
DescriptorsExact == CompleteDescriptors /\ QuotedByEntry

(* The same of EncTypeInfo.                                                *)
EncodersExact == PublishedWhole /\ NeedsAddrExact
=============================================================================
