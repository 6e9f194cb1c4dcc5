---------------------------- MODULE StructFields ----------------------------
(***************************************************************************)
(* Which members a Go struct has on the wire: typ.collectStructFields.     *)
(*                                                                         *)
(* The walk is breadth first over the structs a host embeds, one declared  *)
(* field per step.  A field is dropped, rejected, promoted (queued for the *)
(* next depth, an embedded pointer ending the run of offset arithmetic     *)
(* with a hop) or folded into the record of its JSON key, which decides on *)
(* the fly which of the key's candidates survives.  When the queue is dry  *)
(* the survivors are sorted into declaration order.                        *)
(*                                                                         *)
(* A program is a function from struct names to sequences of declarations: *)
(*   go   the Go name          off    the field's offset in its struct     *)
(*   anon embedded in Go       exp    exported                             *)
(*   tag  the json tag: dash, name and the option words as written         *)
(*   vj   carries a vjson tag  kind   the descriptor kind of its type      *)
(*   to   the struct it names, for kinds "struct" and "ptrstruct"          *)
(***************************************************************************)
EXTENDS Naturals, Sequences, FiniteSets, SequencesExt

CONSTANTS Programs,     \* the type programs considered
          Host,         \* the struct whose members are collected
          MaxDepth      \* no program embeds deeper than this

ASSUME DepthAssumption == MaxDepth \in Nat

(* Declarations are those of a Go program: offsets are bytes, and a struct *)
(* kind names a struct.                                                    *)
ASSUME ProgramsAssumption ==
  \A p \in Programs :
    /\ Host \in DOMAIN p
    /\ \A s \in DOMAIN p : \A i \in 1..Len(p[s]) :
         LET d == p[s][i] IN
         d.off \in Nat /\ (d.kind \in {"struct", "ptrstruct"} => d.to \in DOMAIN p)
    /\ \A s \in DOMAIN p : Len(p[s]) \in Nat

VARIABLES prog,         \* the program, fixed
          current,      \* the entries of this depth, the first being walked
          next,         \* the entries queued for the next depth
          at,           \* the index of the declaration to visit
          depth, visited,
          reached,      \* how often each struct was queued for this depth
          fields, names, rejects, \* the candidates, the key records, the refusals
          result, done  \* the collected members, once done

vars == <<prog, current, next, at, depth, visited, reached, fields, names,
          rejects, result, done>>

ReserveUnknownName == "unknown"
Cleared == [name |-> ""]

-----------------------------------------------------------------------------
(* The json tag.  An option counts only when it is spelt exactly; a near   *)
(* miss of a known option is kept for the caller to reject, and any other  *)
(* word is inert.                                                          *)
Canonical(word) ==
  CASE word \in {"omitempty", "omitEmpty"} -> "omitempty"
    [] word \in {"string", "String"}       -> "string"
    [] word \in {"embed", "Embed"}         -> "embed"
    [] OTHER                               -> ""

ParseTag(tag) ==
  LET words == Range(tag.opts) IN
  [name    |-> tag.name,
   opts    |-> {w \in words : Canonical(w) = w /\ w # ""},
   mutants |-> {w \in words : Canonical(w) \notin {"", w}}]

OnlyEmbed(opts) == opts \subseteq {"embed"}

(* An option the field's type cannot carry is dropped without comment.     *)
Quotable(kind) == kind \in {"int", "ptrint", "string"}

-----------------------------------------------------------------------------
(* Folding one candidate into its key's record.  A deeper candidate is     *)
(* cleared at once; otherwise the record recounts its classes and re-elects*)
(* its field, clearing the one it deposes and the newcomer if it lost.     *)
FreshInfo(d) == [depth |-> d, index |-> 0, tagged |-> 0, taggedIdx |-> 0,
                 untagged |-> 0, untaggedIdx |-> 0]

Counted(ni, pos, tagged) ==
  IF tagged
  THEN [ni EXCEPT !.tagged = @ + 1, !.taggedIdx = IF ni.tagged = 0 THEN pos ELSE @]
  ELSE [ni EXCEPT !.untagged = @ + 1, !.untaggedIdx = IF ni.untagged = 0 THEN pos ELSE @]

BugElected(ni) == IF ni.untagged = 1 THEN ni.untaggedIdx
                  ELSE IF ni.tagged = 1 THEN ni.taggedIdx ELSE 0

Elected(ni) == IF ni.tagged = 1 THEN ni.taggedIdx
               ELSE IF ni.untagged = 1 THEN ni.untaggedIdx ELSE 0

BugLost(index, pos, win) == {pos} \ {win}

(* What the election clears: the field deposed and the newcomer, whichever *)
(* was not elected.                                                        *)
Lost(index, pos, win) == {index, pos} \ {win, 0}

AddField(s, sf, d, tagged) ==
  LET pos   == Len(s.fields) + 1
      known == sf.name \in DOMAIN s.names
  IN IF known /\ s.names[sf.name].depth < d
     THEN [s EXCEPT !.fields = Append(@, Cleared)]
     ELSE LET shallower == known /\ s.names[sf.name].depth > d
              was  == IF known THEN s.names[sf.name] ELSE FreshInfo(d)
              base == IF shallower THEN FreshInfo(d) ELSE was
              cnt  == Counted(base, pos, tagged)
              win  == Elected(cnt)
              lost == Lost(was.index, pos, win)
              all  == Append(s.fields, sf)
          IN [fields  |-> [i \in 1..pos |-> IF i \in lost THEN Cleared ELSE all[i]],
              names   |-> [n \in DOMAIN s.names \union {sf.name} |->
                             IF n = sf.name THEN [cnt EXCEPT !.index = win]
                                            ELSE s.names[n]],
              rejects |-> IF sf.name = ReserveUnknownName
                             /\ cnt.tagged + cnt.untagged = 2
                          THEN s.rejects \union {<<"two reserves", sf.go>>}
                          ELSE s.rejects]

-----------------------------------------------------------------------------
Entry(typ, offset, path, hops) ==
  [typ |-> typ, offset |-> offset, path |-> path, hops |-> hops]

Times(q) == [s \in DOMAIN prog |-> Cardinality({i \in DOMAIN q : q[i].typ = s})]

Init ==
  /\ prog \in Programs
  /\ current = <<Entry(Host, 0, <<>>, <<>>)>> /\ next = <<>> /\ at = 1
  /\ depth = 0 /\ visited = {Host}
  /\ reached = [s \in DOMAIN prog |-> IF s = Host THEN 1 ELSE 0]
  /\ fields = <<>> /\ names = <<>> /\ rejects = {}
  /\ result = <<>> /\ done = FALSE

Walking == ~done /\ current # <<>> /\ at <= Len(prog[Head(current).typ])

Decl == prog[Head(current).typ][at]
Tag  == ParseTag(Decl.tag)
Embeds == "embed" \in Tag.opts
\* An anonymous value.Value or Stream field is a struct to this walk: its kind
\* is "struct", of a type whose fields are unexported. "value" is a named field.
IsStruct == Decl.kind \in {"struct", "ptrstruct"}

(* Options beside embed contradict embedding, on a field that asks for it  *)
(* by tag; so does an explicit name on a field that is not embedded in Go; *)
(* so do any options or near misses on a struct embedded in Go; and only a *)
(* struct, a Value or an interface can be embedded at all.                 *)
DropsAnon  == Decl.anon /\ IsStruct /\ Decl.tag.dash
NamesAnon  == Decl.anon /\ IsStruct /\ ~Decl.tag.dash /\ Tag.name # ""
OptsReject == Embeds /\ ~OnlyEmbed(Tag.opts)
AnonReject == /\ Decl.anon /\ IsStruct /\ ~DropsAnon /\ ~NamesAnon
              /\ (~OnlyEmbed(Tag.opts) \/ Tag.mutants # {})
NameReject == Embeds /\ ~Decl.anon /\ Tag.name # ""
Promotes   == \/ Decl.anon /\ IsStruct /\ ~DropsAnon /\ ~NamesAnon
              \/ ~Decl.anon /\ Embeds /\ Decl.kind = "struct"
Hidden     == ~Decl.anon /\ ~Decl.exp
BadEmbed   == Embeds /\ (\/ Tag.name # "" /\ Tag.name # Decl.go
                         \/ Decl.kind \notin {"value", "iface"})

Refuses == OptsReject \/ AnonReject \/ NameReject

Why == IF OptsReject \/ AnonReject THEN "options" ELSE "name"

(* The walk moves to the next declaration of the entry.                    *)
Advance == at' = at + 1 /\ UNCHANGED <<prog, current, depth, visited, reached, result, done>>

(* collectDirect: a tag that contradicts itself refuses the field.         *)
Reject ==
  /\ Walking /\ ~Decl.tag.dash /\ Refuses
  /\ rejects' = rejects \union {<<Why, Decl.go>>}
  /\ Advance /\ UNCHANGED <<next, fields, names>>

BugPromotedEntry(e, d, i) ==
  IF d.kind = "ptrstruct"
  THEN Entry(d.to, e.offset + d.off, Append(e.path, i),
             Append(e.hops, [slot |-> e.offset + d.off, unsettable |-> ~d.exp]))
  ELSE Entry(d.to, e.offset + d.off, Append(e.path, i), e.hops)

(* collectDirect: a struct's members are promoted into the host.  Below an *)
(* embedded pointer they are addressed from the pointee.                   *)
PromotedEntry(e, d, i) ==
  LET slot == e.offset + d.off IN
  IF d.kind = "ptrstruct"
  THEN Entry(d.to, 0, Append(e.path, i),
             Append(e.hops, [slot |-> slot, unsettable |-> ~d.exp]))
  ELSE Entry(d.to, slot, Append(e.path, i), e.hops)

Promote ==
  /\ Walking /\ ~Decl.tag.dash /\ ~Refuses /\ Promotes
  /\ next' = Append(next, PromotedEntry(Head(current), Decl, at))
  /\ Advance /\ UNCHANGED <<fields, names, rejects>>

(* collectDirect: an unexported field, or one tagged "-", is no member.  A *)
(* dash beside a vjson tag is refused, since the option can never apply.   *)
Drop ==
  /\ Walking
  /\ Decl.tag.dash \/ (~Refuses /\ ~Promotes /\ Hidden)
  /\ rejects' = IF ~DropsAnon /\ ~Hidden /\ Decl.vj
                THEN rejects \union {<<"dash", Decl.go>>} ELSE rejects
  /\ Advance /\ UNCHANGED <<next, fields, names>>

Named == Walking /\ ~Decl.tag.dash /\ ~Refuses /\ ~Promotes /\ ~Hidden

Misspelt == {<<"misspelt", Decl.go>> : w \in Tag.mutants}

(* namedField: a shape that cannot embed is refused after its misspellings *)
RejectEmbed ==
  /\ Named /\ BadEmbed
  /\ rejects' = rejects \union Misspelt \union {<<"embed", Decl.go>>}
  /\ Advance /\ UNCHANGED <<next, fields, names>>

BugCandidate(e, d, i) ==
  LET t == ParseTag(d.tag) IN
  [name |-> IF t.name # "" THEN t.name ELSE d.go,
   go |-> d.go, off |-> e.offset + d.off, hops |-> e.hops,
   path |-> Append(e.path, i), flags |-> t.opts]

(* namedField: the field becomes a candidate for its key.  A Value embeds  *)
(* under a name no key can carry; an interface keeps its Go name.          *)
Candidate(e, d, i) ==
  LET t == ParseTag(d.tag) IN
  [name  |-> IF "embed" \in t.opts /\ d.kind = "value" THEN ReserveUnknownName
             ELSE IF t.name # "" THEN t.name ELSE d.go,
   go    |-> d.go, off |-> e.offset + d.off, hops |-> e.hops,
   path  |-> Append(e.path, i),
   flags |-> (t.opts \ (IF Quotable(d.kind) THEN {} ELSE {"string"}))]

(* A struct reached twice at this depth makes each name it promotes an     *)
(* ambiguous selector: the candidate is fed a second time.                 *)
Collect ==
  /\ Named /\ ~BadEmbed
  /\ LET e   == Head(current)
         sf  == Candidate(e, Decl, at)
         s0  == [fields |-> fields, names |-> names,
                 rejects |-> rejects \union Misspelt]
         s1  == AddField(s0, sf, depth, Tag.name # "")
         s2  == IF reached[e.typ] > 1 THEN AddField(s1, sf, depth, Tag.name # "")
                                      ELSE s1
     IN fields' = s2.fields /\ names' = s2.names /\ rejects' = s2.rejects
  /\ Advance /\ UNCHANGED next

-----------------------------------------------------------------------------
BugDropVisited(q) == q

(* The breadth-first loop: the queue from its next struct that was not      *)
(* walked yet.  When there is none, the next depth begins.                 *)
DropVisited(q) ==
  LET ahead == {k \in DOMAIN q : q[k].typ \notin visited}
  IN IF ahead = {} THEN <<>> ELSE SubSeq(q, Min(ahead), Len(q))

NextEntry ==
  /\ ~done /\ current # <<>> /\ ~Walking
  /\ LET rest == DropVisited(Tail(current)) IN
     /\ rest # <<>>
     /\ current' = rest /\ visited' = visited \union {Head(rest).typ}
  /\ at' = 1
  /\ UNCHANGED <<prog, next, depth, reached, fields, names, rejects, result, done>>

NextDepth ==
  /\ ~done /\ current # <<>> /\ ~Walking
  /\ DropVisited(Tail(current)) = <<>>
  /\ LET rest == DropVisited(next) IN
     /\ current' = rest
     /\ visited' = visited \union (IF rest = <<>> THEN {} ELSE {Head(rest).typ})
  /\ reached' = Times(next)
  /\ next' = <<>> /\ depth' = depth + 1 /\ at' = 1
  /\ UNCHANGED <<prog, fields, names, rejects, result, done>>

(* The survivors, sorted into declaration order.                           *)
Before(p, q) ==
  \E k \in 1..Len(q) :
    /\ k <= Len(p) => p[k] < q[k]
    /\ k > Len(p) => k = Len(p) + 1
    /\ \A j \in 1..(k - 1) : p[j] = q[j]

Survivors == {i \in DOMAIN fields : fields[i] # Cleared}

BugFinish ==
  /\ ~done /\ current = <<>>
  /\ result' = SelectSeq(fields, LAMBDA f : f # Cleared)
  /\ done' = TRUE
  /\ UNCHANGED <<prog, current, next, at, depth, visited, reached, fields, names, rejects>>

Sorted(r) == \A i, j \in DOMAIN r : i < j => Before(r[i].path, r[j].path)

Finish ==
  /\ ~done /\ current = <<>>
  /\ LET kept == {fields[i] : i \in Survivors} IN
     \E r \in [1..Cardinality(kept) -> kept] : Sorted(r) /\ result' = r
  /\ done' = TRUE
  /\ UNCHANGED <<prog, current, next, at, depth, visited, reached, fields, names, rejects>>

Next == Reject \/ Promote \/ Drop \/ RejectEmbed \/ Collect
        \/ NextEntry \/ NextDepth \/ Finish

Spec == Init /\ [][Next]_vars

-----------------------------------------------------------------------------
(* The rule of encoding/json, as the collector's comments state it, over   *)
(* the whole program at once.                                              *)
FieldsOf(s) == prog[s]
FieldIdx == UNION {DOMAIN prog[s] : s \in DOMAIN prog}

(* What the collector sees of one declaration, apart from the walk.        *)
RefTag(d) == ParseTag(d.tag)
RefStruct(d) == d.kind \in {"struct", "ptrstruct"}
RefContradicts(d) ==
  LET t == RefTag(d) IN
  \/ "embed" \in t.opts /\ t.opts # {"embed"}
  \/ d.anon /\ RefStruct(d) /\ t.name = "" /\ (t.opts \ {"embed"} # {} \/ t.mutants # {})
  \/ ~d.anon /\ "embed" \in t.opts /\ t.name # ""
RefPromotes(d) ==
  /\ ~d.tag.dash /\ ~RefContradicts(d)
  /\ \/ d.anon /\ RefStruct(d) /\ RefTag(d).name = ""
     \/ ~d.anon /\ "embed" \in RefTag(d).opts /\ d.kind = "struct"
RefMember(d) ==
  /\ ~d.tag.dash /\ ~RefContradicts(d) /\ ~RefPromotes(d) /\ (d.anon \/ d.exp)
  /\ "embed" \in RefTag(d).opts => d.kind \in {"value", "iface"} /\ RefTag(d).name \in {"", d.go}

(* The structs first reached at each depth, and by how many declarations.  *)
Level[d \in 0..MaxDepth] ==
  IF d = 0 THEN {Host}
  ELSE {s \in DOMAIN prog :
          /\ \A k \in 0..(d - 1) : s \notin Level[k]
          /\ \E p \in Level[d - 1] : \E i \in DOMAIN FieldsOf(p) :
               RefPromotes(FieldsOf(p)[i]) /\ FieldsOf(p)[i].to = s}

Claimed(c) == FieldsOf(c[1])[c[2]]

Ways(s, d) ==
  IF d = 0 THEN 1
  ELSE Cardinality({w \in Level[d - 1] \X FieldIdx :
                      /\ w[2] \in DOMAIN FieldsOf(w[1])
                      /\ RefPromotes(Claimed(w)) /\ Claimed(w).to = s})

RefName(d) ==
  IF d.kind = "value" /\ "embed" \in RefTag(d).opts THEN ReserveUnknownName
  ELSE IF RefTag(d).name # "" THEN RefTag(d).name ELSE d.go

(* The candidates of a key: its declarations, a depth and how many times.  *)
Claims(key) ==
  {c \in (DOMAIN prog) \X FieldIdx \X (0..MaxDepth) :
     /\ c[1] \in Level[c[3]] /\ c[2] \in DOMAIN FieldsOf(c[1])
     /\ RefMember(Claimed(c)) /\ RefName(Claimed(c)) = key}

Shallowest(key) == {c \in Claims(key) : \A o \in Claims(key) : c[3] <= o[3]}
TaggedClaim(c) == Claimed(c).tag.name # ""

Sole(S) == Cardinality(S) = 1 /\ \A c \in S : Ways(c[1], c[3]) = 1

(* The dominant field of a key, as a set of at most one claim.             *)
Dominant(key) ==
  LET all == Shallowest(key)
      tg  == {c \in all : TaggedClaim(c)}
  IN IF tg # {} THEN (IF Sole(tg) THEN tg ELSE {})
     ELSE (IF Sole(all) THEN all ELSE {})

Keys == UNION {{RefName(FieldsOf(s)[i]) : i \in DOMAIN FieldsOf(s)} : s \in DOMAIN prog}

(* Two or more tagged candidates tied with a lone untagged one.            *)
TaggedTie(key) ==
  LET all == Shallowest(key)
      tg  == {c \in all : TaggedClaim(c)}
  IN tg # {} /\ ~Sole(tg) /\ Sole(all \ tg)

Picked(key) == {i \in DOMAIN result : result[i].name = key}

(* The struct that declares the last field of a path of indices.           *)
StructAt(path) ==
  LET walk[k \in 0..Len(path)] == IF k = 0 THEN Host ELSE FieldsOf(walk[k - 1])[path[k]].to
  IN walk[Len(path) - 1]

(* Where the memory lies that a path ends at: the slots of the pointers    *)
(* crossed and the offset in the last pointee.                             *)
Enter(w, d) ==
  LET o == w.off + d.off IN
  IF d.kind = "ptrstruct"
  THEN [typ |-> d.to, slots |-> Append(w.slots, o), off |-> 0]
  ELSE [typ |-> d.to, slots |-> w.slots, off |-> o]

Entered(path) ==
  LET walk[k \in 0..Len(path)] ==
        IF k = 0 THEN [typ |-> Host, slots |-> <<>>, off |-> 0]
        ELSE Enter(walk[k - 1], FieldsOf(walk[k - 1].typ)[path[k]])
  IN walk[Len(path)]

Address(path) ==
  LET w == Entered(Front(path)) IN
  [slots |-> w.slots, off |-> w.off + FieldsOf(w.typ)[Last(path)].off]

-----------------------------------------------------------------------------
(* The shapes of the walk's state.                                         *)
TypeOK ==
  /\ done \in BOOLEAN
  /\ depth \in 0..(MaxDepth + 1) /\ visited \subseteq DOMAIN prog
  /\ reached \in [DOMAIN prog -> 0..8]
  /\ \A n \in DOMAIN names : names[n].index \in 0..Len(fields)

(* Of a key's candidates at the shallowest depth the only tagged one wins, *)
(* with no tagged one a lone untagged one, and any other tie cancels the   *)
(* key (comment of addField).  Each claim is a declaration of the struct   *)
(* that declares it.  The tie of two tagged candidates and one untagged is *)
(* excepted: there addField keeps the untagged one.                        *)
DominanceKept ==
  done => \A key \in Keys :
    ~TaggedTie(key) =>
      {<<StructAt(result[i].path), Last(result[i].path)>> : i \in Picked(key)}
        = {<<c[1], c[2]>> : c \in Dominant(key)}

(* A member is addressed through the pointers its path really crosses:     *)
(* hops and offset agree with the selector's own walk, whatever the        *)
(* siblings promoted before it.                                            *)
AddressedThroughPath ==
  done => \A i \in DOMAIN result :
    LET a == Address(result[i].path) IN
    /\ [k \in DOMAIN result[i].hops |-> result[i].hops[k].slot] = a.slots
    /\ result[i].off = a.off

(* A key names at most one member, and the members come in the order Go    *)
(* declares them, which the positional lookup tables rely on.              *)
OnePerKeyInOrder ==
  done => \A i, j \in DOMAIN result :
    i < j => /\ result[i].name # result[j].name
             /\ Before(result[i].path, result[j].path)

(* Two fields that reserve unknown keys at one depth are reported, never   *)
(* silently cancelled against each other.                                  *)
ReserveClashReported ==
  done => LET all == Shallowest(ReserveUnknownName) IN
    (all # {} /\ ~Sole(all)) => \E r \in rejects : r[1] = "two reserves"

(* What the binding tables read of a member is true: where it lies, that   *)
(* its key is its own, and its place among the members.                    *)
Placement == AddressedThroughPath /\ OnePerKeyInOrder

(* Each key goes to Go's dominant field and to no other, and a clash of    *)
(* reserves is reported (collectStructFields).                             *)
Election == TypeOK /\ DominanceKept /\ ReserveClashReported
=============================================================================
