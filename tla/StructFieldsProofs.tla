------------------------- MODULE StructFieldsProofs -------------------------
(***************************************************************************)
(* Proofs about StructFields: in every program, whatever the structs embed *)
(* and at whatever depth, each collected member is addressed through the   *)
(* pointers that its path crosses, and has its key to itself.              *)
(***************************************************************************)
EXTENDS StructFields, SequenceTheorems, WellFoundedInduction, NaturalsInduction, TLAPS

(***************************************************************************)
(* Walking a path.                                                         *)
(***************************************************************************)
(* A set of naturals that is not empty has a least element.                *)
LEMMA LeastNatural ==
  ASSUME NEW S, S \subseteq Nat, S # {}
  PROVE  \E x \in S : \A y \in S : x <= y
<1>1. PICK x \in S : \A y \in S : ~(<<y, x>> \in OpToRel(<, Nat))
  BY WFMin, NatLessThanWellFounded
<1>2. \A y \in S : ~(y < x)
  BY <1>1 DEF OpToRel
<1>. QED BY <1>2

(* Induction up to N, with a set for the property.                         *)
LEMMA SetInduction ==
  ASSUME NEW N \in Nat, NEW S, 0 \in S,
         ASSUME NEW n \in 0 .. N - 1, n \in S PROVE n + 1 \in S
  PROVE  0 .. N \subseteq S
<1>. SUFFICES ASSUME (0 .. N) \ S # {} PROVE FALSE
  OBVIOUS
<1>1. PICK n \in (0 .. N) \ S : \A m \in (0 .. N) \ S : n <= m
  <2>1. (0 .. N) \ S \subseteq Nat
    OBVIOUS
  <2>. QED BY <2>1, LeastNatural
<1>2. n - 1 \in 0 .. N - 1 /\ n - 1 + 1 = n
  BY <1>1
<1>3. n - 1 \in S
  BY <1>1, <1>2
<1>4. n - 1 + 1 \in S
  BY <1>2, <1>3
<1>. QED BY <1>1, <1>2, <1>4

(* The rule by which Entered walks a path.                                 *)
AtHost == [typ |-> Host, slots |-> <<>>, off |-> 0]
Walk(g, p, k) == IF k = 0 THEN AtHost ELSE Enter(g[k - 1], FieldsOf(g[k - 1].typ)[p[k]])
Walks(g, p, n) == \A k \in 0 .. n : g[k] = Walk(g, p, k)

(* Any path can be walked to any length.                                   *)
LEMMA Walkable ==
  ASSUME NEW p, NEW N \in Nat
  PROVE  \E g : DOMAIN g = 0 .. N /\ g = [k \in 0 .. N |-> g[k]] /\ Walks(g, p, N)
<1>. DEFINE T == {n \in 0 .. N : \E g : /\ DOMAIN g = 0 .. n /\ g = [k \in 0 .. n |-> g[k]]
                                          /\ Walks(g, p, n)}
<1>1. 0 \in T
  <2>. DEFINE g == [k \in 0 .. 0 |-> AtHost]
  <2>1. DOMAIN g = 0 .. 0 /\ g = [k \in 0 .. 0 |-> g[k]]
    OBVIOUS
  <2>2. g[0] = AtHost
    OBVIOUS
  <2>. HIDE DEF g
  <2>3. \A k \in 0 .. 0 : k = 0
    OBVIOUS
  <2>4. Walk(g, p, 0) = AtHost
    BY Zenon DEF Walk
  <2>5. Walks(g, p, 0)
    BY <2>2, <2>3, <2>4, Zenon DEF Walks
  <2>. QED BY <2>1, <2>5
<1>2. ASSUME NEW n \in 0 .. N - 1, n \in T PROVE n + 1 \in T
  <2>1. PICK g : DOMAIN g = 0 .. n /\ g = [k \in 0 .. n |-> g[k]] /\ Walks(g, p, n)
    BY <1>2
  <2>2. PICK w : w = Walk(g, p, n + 1)
    OBVIOUS
  <2>. DEFINE h == [k \in 0 .. n + 1 |-> IF k <= n THEN g[k] ELSE w]
  <2>3. DOMAIN h = 0 .. n + 1 /\ h = [k \in 0 .. n + 1 |-> h[k]]
    OBVIOUS
  <2>4. \A k \in 0 .. n : h[k] = g[k]
    OBVIOUS
  <2>5. h[n + 1] = w
    OBVIOUS
  <2>. HIDE DEF h
  <2>6. Walks(h, p, n + 1)
    <3>. SUFFICES ASSUME NEW k \in 0 .. n + 1 PROVE h[k] = Walk(h, p, k)
      BY DEF Walks
    <3>1. k # 0 => k - 1 \in 0 .. n
      OBVIOUS
    <3>2. Walk(h, p, k) = Walk(g, p, k)
      BY <2>4, <3>1 DEF Walk
    <3>3. CASE k \in 0 .. n
      BY <2>1, <2>4, <3>2, <3>3 DEF Walks
    <3>4. CASE k = n + 1
      BY <2>2, <2>5, <3>2, <3>4
    <3>. QED BY <3>3, <3>4
  <2>7. n + 1 \in 0 .. N
    OBVIOUS
  <2>. QED BY <2>3, <2>6, <2>7
<1>3. N \in T
  <2>. HIDE DEF T
  <2>1. 0 .. N \subseteq T
    BY <1>1, <1>2, SetInduction
  <2>. QED BY <2>1
<1>. QED BY <1>3

(* Entered(p) is the end of such a walk.                                   *)
LEMMA EnteredRule ==
  ASSUME NEW p, Len(p) \in Nat
  PROVE  \E g : Walks(g, p, Len(p)) /\ Entered(p) = g[Len(p)]
<1>. DEFINE N == Len(p)
            Rule(g) == [k \in 0 .. N |-> IF k = 0 THEN [typ |-> Host, slots |-> <<>>, off |-> 0]
                                         ELSE Enter(g[k - 1], FieldsOf(g[k - 1].typ)[p[k]])]
            w == CHOOSE f : f = Rule(f)
<1>1. PICK g : DOMAIN g = 0 .. N /\ g = [k \in 0 .. N |-> g[k]] /\ Walks(g, p, N)
  BY Walkable
<1>2. g = Rule(g)
  BY <1>1 DEF Walks, Walk, AtHost
<1>3. w = Rule(w)
  BY <1>2
<1>4. Entered(p) = w[N]
  BY DEF Entered
<1>5. PICK v : v = w
  OBVIOUS
<1>6. v = Rule(v) /\ Entered(p) = v[N]
  BY <1>3, <1>4, <1>5
<1>. HIDE DEF w
<1>7. Walks(v, p, N)
  BY <1>6 DEF Walks, Walk, AtHost
<1>. QED BY <1>6, <1>7

(* Two walks agree as far as their paths do.                               *)
LEMMA WalksAgree ==
  ASSUME NEW g, NEW h, NEW p, NEW q, NEW n \in Nat, Walks(g, p, n), Walks(h, q, n),
         \A k \in 1 .. n : p[k] = q[k]
  PROVE  g[n] = h[n]
<1>. DEFINE T == {k \in 0 .. n : g[k] = h[k]}
<1>1. 0 \in T
  <2>1. 0 \in 0 .. n
    OBVIOUS
  <2>2. g[0] = AtHost /\ h[0] = AtHost
    BY <2>1, Zenon DEF Walks, Walk
  <2>. QED BY <2>1, <2>2
<1>2. ASSUME NEW k \in 0 .. n - 1, k \in T PROVE k + 1 \in T
  <2>1. k + 1 # 0 /\ k + 1 - 1 = k /\ k + 1 \in 1 .. n /\ k + 1 \in 0 .. n
    OBVIOUS
  <2>2. g[k + 1] = Enter(g[k], FieldsOf(g[k].typ)[p[k + 1]])
    BY <2>1 DEF Walks, Walk
  <2>3. h[k + 1] = Enter(h[k], FieldsOf(h[k].typ)[q[k + 1]])
    BY <2>1 DEF Walks, Walk
  <2>4. g[k] = h[k] /\ p[k + 1] = q[k + 1]
    BY <1>2, <2>1
  <2>. QED BY <2>1, <2>2, <2>3, <2>4
<1>3. n \in T
  <2>1. n \in 0 .. n
    OBVIOUS
  <2>2. 0 .. n \subseteq T
    <3>. HIDE DEF T
    <3>. QED BY <1>1, <1>2, SetInduction
  <2>. QED BY <2>1, <2>2
<1>. QED BY <1>3

(* The empty path ends at the host.                                        *)
LEMMA EnteredNone == Entered(<<>>) = AtHost
<1>1. Len(<<>>) = 0
  BY EmptySeq
<1>2. PICK g : Walks(g, <<>>, 0) /\ Entered(<<>>) = g[0]
  BY <1>1, EnteredRule
<1>3. 0 \in 0 .. 0
  OBVIOUS
<1>4. g[0] = Walk(g, <<>>, 0)
  BY <1>2, <1>3 DEF Walks
<1>. QED BY <1>2, <1>4 DEF Walk

(* A longer path ends one struct further.                                  *)
LEMMA EnteredAppend ==
  ASSUME NEW p \in Seq(Nat), NEW i \in Nat
  PROVE  Entered(Append(p, i)) = Enter(Entered(p), FieldsOf(Entered(p).typ)[i])
<1>1. PICK q : q = Append(p, i)
  OBVIOUS
<1>2. PICK n : n = Len(p)
  OBVIOUS
<1>3. n \in Nat /\ n + 1 \in Nat
  BY <1>2, LenProperties
<1>4. q \in Seq(Nat) /\ Len(q) = n + 1 /\ q[n + 1] = i /\ \A k \in 1 .. n : q[k] = p[k]
  BY <1>1, <1>2, AppendProperties
<1>5. PICK g : Walks(g, p, n) /\ Entered(p) = g[n]
  BY <1>2, <1>3, EnteredRule
<1>6. PICK h : Walks(h, q, n + 1) /\ Entered(q) = h[n + 1]
  <2>1. Len(q) \in Nat
    BY <1>3, <1>4
  <2>. QED BY <1>4, <2>1, EnteredRule
<1>7. Walks(h, q, n)
  <2>1. \A k \in 0 .. n : k \in 0 .. n + 1
    BY <1>3
  <2>. QED BY <1>6, <2>1 DEF Walks
<1>8. h[n] = g[n]
  BY <1>3, <1>4, <1>5, <1>7, WalksAgree
<1>9. n + 1 # 0 /\ n + 1 - 1 = n /\ n + 1 \in 0 .. n + 1
  BY <1>3
<1>10. h[n + 1] = Enter(h[n], FieldsOf(h[n].typ)[q[n + 1]])
  <2>1. h[n + 1] = Walk(h, q, n + 1)
    BY <1>6, <1>9 DEF Walks
  <2>2. PICK m : m = n + 1
    OBVIOUS
  <2>3. m # 0 => Walk(h, q, m) = Enter(h[m - 1], FieldsOf(h[m - 1].typ)[q[m]])
    BY Zenon DEF Walk
  <2>4. m # 0 /\ m - 1 = n
    BY <1>3, <2>2
  <2>5. Walk(h, q, m) = Enter(h[n], FieldsOf(h[n].typ)[q[m]])
    BY <2>3, <2>4, Zenon
  <2>. QED BY <2>1, <2>2, <2>5, Zenon
<1>. QED BY <1>1, <1>4, <1>5, <1>6, <1>8, <1>10

(* So a field is addressed from the struct that declares it.               *)
LEMMA AddressAppend ==
  ASSUME NEW p \in Seq(Nat), NEW i \in Nat
  PROVE  Address(Append(p, i)) =
           [slots |-> Entered(p).slots, off |-> Entered(p).off + FieldsOf(Entered(p).typ)[i].off]
<1>1. PICK q : q = Append(p, i)
  OBVIOUS
<1>2. Len(p) \in Nat
  BY LenProperties
<1>3. q \in Seq(Nat) /\ Len(q) = Len(p) + 1 /\ q[Len(p) + 1] = i /\ \A k \in 1 .. Len(p) : q[k] = p[k]
  BY <1>1, AppendProperties
<1>4. Last(q) = i
  BY <1>2, <1>3 DEF Last
<1>5. Front(q) = p
  <2>1. Len(q) - 1 = Len(p)
    BY <1>2, <1>3
  <2>2. Front(q) = [k \in 1 .. Len(p) |-> q[k]]
    BY <1>2, <1>3, <2>1 DEF Front
  <2>3. p = [k \in 1 .. Len(p) |-> p[k]]
    BY LenProperties
  <2>. QED BY <1>3, <2>2, <2>3
<1>. QED BY <1>1, <1>4, <1>5 DEF Address

(***************************************************************************)
(* Entries, candidates and records.                                        *)
(***************************************************************************)
(* An entry's offset and hops are those of its path.                       *)
Hop == [slot : Nat, unsettable : BOOLEAN]
Slots(hops) == [k \in DOMAIN hops |-> hops[k].slot]
Places ==
  {e \in [typ : DOMAIN prog, offset : Nat, path : Seq(Nat), hops : Seq(Hop)] :
     Entered(e.path) = [typ |-> e.typ, slots |-> Slots(e.hops), off |-> e.offset]}

(* A candidate is a declaration of an entry.                               *)
Members == UNION {{Candidate(e, prog[e.typ][i], i) : i \in 1 .. Len(prog[e.typ])} : e \in Places}

Located(f) ==
  /\ [k \in DOMAIN f.hops |-> f.hops[k].slot] = Address(f.path).slots
  /\ f.off = Address(f.path).off

(* The inductive invariant.                                                *)
Queues ==
  /\ prog \in Programs /\ at \in Nat \ {0}
  /\ current \in Seq(Places) /\ next \in Seq(Places)
Collected == fields \in Seq(Members \cup {Cleared})

(* A key's record names the one candidate of the key that is not cleared.  *)
IsInfo(ni) ==
  ni = [depth |-> ni.depth, index |-> ni.index, tagged |-> ni.tagged, taggedIdx |-> ni.taggedIdx,
        untagged |-> ni.untagged, untaggedIdx |-> ni.untaggedIdx]
Recorded(fs, ns) ==
  /\ \A n \in DOMAIN ns : IsInfo(ns[n])
  /\ \A i \in 1 .. Len(fs) :
       fs[i] # Cleared => fs[i].name \in DOMAIN ns /\ ns[fs[i].name].index = i

IInv == /\ Queues /\ Collected /\ Recorded(fields, names)
        /\ AddressedThroughPath /\ OnePerKeyInOrder

(* What the programs assume of a declaration.                              *)
LEMMA Declaration ==
  ASSUME prog \in Programs, NEW s \in DOMAIN prog, NEW i \in 1 .. Len(prog[s])
  PROVE  /\ i \in Nat \ {0} /\ prog[s][i].off \in Nat
         /\ prog[s][i].kind \in {"struct", "ptrstruct"} => prog[s][i].to \in DOMAIN prog
<1>1. Len(prog[s]) \in Nat
  BY ProgramsAssumption
<1>. QED BY <1>1, ProgramsAssumption

(* The slots of one more hop.                                              *)
LEMMA SlotsAppend ==
  ASSUME NEW hops \in Seq(Hop), NEW hop \in Hop
  PROVE  Slots(Append(hops, hop)) = Append(Slots(hops), hop.slot)
<1>1. PICK n : n = Len(hops)
  OBVIOUS
<1>2. PICK r : r = Append(hops, hop)
  OBVIOUS
<1>3. PICK a : a = Slots(hops)
  OBVIOUS
<1>4. n \in Nat /\ DOMAIN hops = 1 .. n /\ \A k \in 1 .. n : hops[k].slot \in Nat
  <2>1. n \in Nat /\ DOMAIN hops = 1 .. n
    BY <1>1, LenProperties
  <2>2. \A k \in 1 .. n : hops[k] \in Hop
    BY <1>1, ElementOfSeq
  <2>. QED BY <2>1, <2>2 DEF Hop
<1>5. /\ r \in Seq(Hop) /\ Len(r) = n + 1 /\ DOMAIN r = 1 .. n + 1
      /\ \A k \in 1 .. n : r[k] = hops[k]
      /\ r[n + 1] = hop
  BY <1>1, <1>2, <1>4, AppendProperties, LenProperties
<1>6. a = [k \in 1 .. n |-> hops[k].slot]
  BY <1>3, <1>4 DEF Slots
<1>7. a \in Seq(Nat) /\ Len(a) = n
  BY <1>4, <1>6
<1>8. hop.slot \in Nat
  BY DEF Hop
<1>9. PICK b : b = Append(a, hop.slot)
  OBVIOUS
<1>10. /\ b \in Seq(Nat) /\ Len(b) = n + 1
       /\ \A k \in 1 .. n : b[k] = a[k]
       /\ b[n + 1] = hop.slot
  BY <1>7, <1>8, <1>9, AppendProperties
<1>11. PICK c : c = Slots(r)
  OBVIOUS
<1>12. c = [k \in 1 .. n + 1 |-> r[k].slot]
  BY <1>5, <1>11 DEF Slots
<1>13. c \in Seq(Nat) /\ Len(c) = n + 1
  <2>1. \A k \in 1 .. n + 1 : r[k].slot \in Nat
    <3>1. \A k \in 1 .. n + 1 : r[k] \in Hop
      BY <1>5, ElementOfSeq
    <3>. QED BY <3>1 DEF Hop
  <2>. QED BY <1>4, <1>12, <2>1
<1>14. \A k \in 1 .. n + 1 : c[k] = b[k]
  <2>. TAKE k \in 1 .. n + 1
  <2>1. k \in 1 .. n \/ k = n + 1
    BY <1>4
  <2>2. c[k] = r[k].slot
    BY <1>12
  <2>3. CASE k \in 1 .. n
    BY <1>5, <1>6, <1>10, <2>2, <2>3
  <2>4. CASE k = n + 1
    BY <1>5, <1>10, <2>2, <2>4
  <2>. QED BY <2>1, <2>3, <2>4
<1>15. b = c
  BY <1>10, <1>13, <1>14, SeqEqual
<1>. QED BY <1>2, <1>3, <1>9, <1>11, <1>15

(* A promoted struct is entered where its entry says.                      *)
LEMMA Promoted ==
  ASSUME prog \in Programs, NEW e \in Places, NEW i \in 1 .. Len(prog[e.typ]),
         prog[e.typ][i].kind \in {"struct", "ptrstruct"}
  PROVE  PromotedEntry(e, prog[e.typ][i], i) \in Places
<1>1. PICK d : d = prog[e.typ][i]
  OBVIOUS
<1>2. e \in [typ : DOMAIN prog, offset : Nat, path : Seq(Nat), hops : Seq(Hop)]
  BY DEF Places
<1>3. Entered(e.path) = [typ |-> e.typ, slots |-> Slots(e.hops), off |-> e.offset]
  BY DEF Places
<1>4. i \in Nat /\ d.off \in Nat /\ d.to \in DOMAIN prog
  BY <1>1, <1>2, Declaration
<1>5. PICK q : q = Append(e.path, i)
  OBVIOUS
<1>6. q \in Seq(Nat)
  BY <1>2, <1>4, <1>5, AppendProperties
<1>7. PICK o : o = e.offset + d.off
  OBVIOUS
<1>8. o \in Nat
  BY <1>2, <1>4, <1>7
<1>9. Entered(q) = Enter([typ |-> e.typ, slots |-> Slots(e.hops), off |-> e.offset], d)
  <2>1. Entered(q) = Enter(Entered(e.path), FieldsOf(Entered(e.path).typ)[i])
    BY <1>2, <1>4, <1>5, EnteredAppend
  <2>2. FieldsOf(Entered(e.path).typ)[i] = d
    BY <1>1, <1>3 DEF FieldsOf
  <2>. QED BY <1>3, <2>1, <2>2
<1>10. CASE d.kind = "ptrstruct"
  <2>1. PICK hop : hop = [slot |-> o, unsettable |-> ~d.exp]
    OBVIOUS
  <2>2. hop \in Hop /\ hop.slot = o
    BY <1>8, <2>1 DEF Hop
  <2>3. PICK r : r = Append(e.hops, hop)
    OBVIOUS
  <2>4. r \in Seq(Hop) /\ Slots(r) = Append(Slots(e.hops), o)
    BY <1>2, <2>2, <2>3, AppendProperties, SlotsAppend
  <2>5. PromotedEntry(e, d, i) = [typ |-> d.to, offset |-> 0, path |-> q, hops |-> r]
    BY <1>5, <1>7, <1>10, <2>1, <2>3 DEF PromotedEntry, Entry
  <2>6. Entered(q) = [typ |-> d.to, slots |-> Slots(r), off |-> 0]
    BY <1>7, <1>9, <1>10, <2>4 DEF Enter
  <2>7. PICK x : x = [typ |-> d.to, offset |-> 0, path |-> q, hops |-> r]
    OBVIOUS
  <2>8. x \in [typ : DOMAIN prog, offset : Nat, path : Seq(Nat), hops : Seq(Hop)]
    BY <1>4, <1>6, <2>4, <2>7
  <2>9. Entered(x.path) = [typ |-> x.typ, slots |-> Slots(x.hops), off |-> x.offset]
    BY <2>6, <2>7
  <2>. QED BY <1>1, <2>5, <2>7, <2>8, <2>9 DEF Places
<1>11. CASE d.kind # "ptrstruct"
  <2>1. PromotedEntry(e, d, i) = [typ |-> d.to, offset |-> o, path |-> q, hops |-> e.hops]
    BY <1>5, <1>7, <1>11 DEF PromotedEntry, Entry
  <2>2. Entered(q) = [typ |-> d.to, slots |-> Slots(e.hops), off |-> o]
    BY <1>7, <1>9, <1>11 DEF Enter
  <2>. QED BY <1>1, <1>2, <1>4, <1>6, <1>8, <2>1, <2>2 DEF Places
<1>. QED BY <1>10, <1>11

(* A candidate is addressed from its entry.                                *)
LEMMA CandidateLocated ==
  ASSUME prog \in Programs, NEW f \in Members
  PROVE  Located(f)
<1>1. PICK e \in Places : \E i \in 1 .. Len(prog[e.typ]) : f = Candidate(e, prog[e.typ][i], i)
  BY DEF Members
<1>2. PICK i \in 1 .. Len(prog[e.typ]) : f = Candidate(e, prog[e.typ][i], i)
  BY <1>1
<1>3. e \in [typ : DOMAIN prog, offset : Nat, path : Seq(Nat), hops : Seq(Hop)]
  BY DEF Places
<1>4. Entered(e.path) = [typ |-> e.typ, slots |-> Slots(e.hops), off |-> e.offset]
  BY DEF Places
<1>5. i \in Nat
  BY <1>3, Declaration
<1>6. f.path = Append(e.path, i) /\ f.hops = e.hops /\ f.off = e.offset + prog[e.typ][i].off
  BY <1>2 DEF Candidate
<1>7. Address(f.path) = [slots |-> Slots(e.hops), off |-> e.offset + prog[e.typ][i].off]
  <2>1. Address(f.path) = [slots |-> Entered(e.path).slots,
                           off |-> Entered(e.path).off + FieldsOf(Entered(e.path).typ)[i].off]
    BY <1>3, <1>5, <1>6, AddressAppend
  <2>. QED BY <1>4, <2>1 DEF FieldsOf
<1>. QED BY <1>6, <1>7 DEF Located, Slots

(* Its path is one.                                                        *)
LEMMA MemberPath ==
  ASSUME prog \in Programs, NEW f \in Members
  PROVE  f.path \in Seq(Nat)
<1>1. PICK e \in Places : \E i \in 1 .. Len(prog[e.typ]) : f = Candidate(e, prog[e.typ][i], i)
  BY DEF Members
<1>2. PICK i \in 1 .. Len(prog[e.typ]) : f = Candidate(e, prog[e.typ][i], i)
  BY <1>1
<1>3. e.path \in Seq(Nat) /\ e.typ \in DOMAIN prog
  BY DEF Places
<1>4. i \in Nat
  BY <1>3, Declaration
<1>5. f.path = Append(e.path, i)
  BY <1>2 DEF Candidate
<1>. QED BY <1>3, <1>4, <1>5, AppendProperties

(* Folding a candidate into its record adds it, or nothing, and clears     *)
(* others.                                                                 *)
Holds(s, M) ==
  /\ s = [fields |-> s.fields, names |-> s.names, rejects |-> s.rejects]
  /\ s.fields \in Seq(M \cup {Cleared})

LEMMA AddFieldType ==
  ASSUME NEW M, NEW s0, Holds(s0, M), NEW sf \in M, NEW d, NEW tagged
  PROVE  Holds(AddField(s0, sf, d, tagged), M)
<1>1. PICK fs, ns, rs : s0 = [fields |-> fs, names |-> ns, rejects |-> rs] /\ fs \in Seq(M \cup {Cleared})
  BY DEF Holds
<1>2. PICK n : n = Len(fs)
  OBVIOUS
<1>3. n \in Nat
  BY <1>2, LenProperties
<1>4. PICK C : C = M \cup {Cleared}
  OBVIOUS
<1>5. PICK all : all = Append(fs, sf)
  OBVIOUS
<1>6. all \in Seq(C) /\ Len(all) = n + 1
  BY <1>1, <1>2, <1>4, <1>5, AppendProperties
<1>7. Append(fs, Cleared) \in Seq(C)
  BY <1>1, <1>4, AppendProperties
<1>8. \A lost : [i \in 1 .. n + 1 |-> IF i \in lost THEN Cleared ELSE all[i]] \in Seq(C)
  <2>. TAKE lost
  <2>1. \A i \in 1 .. n + 1 : all[i] \in C
    BY <1>6, ElementOfSeq
  <2>2. \A i \in 1 .. n + 1 : (IF i \in lost THEN Cleared ELSE all[i]) \in C
    BY <1>4, <2>1
  <2>3. n + 1 \in Nat
    BY <1>3
  <2>. QED BY <2>2, <2>3
<1>9. PICK s : s = AddField(s0, sf, d, tagged)
  OBVIOUS
<1>10. CASE sf.name \in DOMAIN ns /\ ns[sf.name].depth < d
  <2>1. s = [s0 EXCEPT !.fields = Append(fs, Cleared)]
    BY <1>1, <1>9, <1>10 DEF AddField
  <2>2. s = [fields |-> Append(fs, Cleared), names |-> ns, rejects |-> rs]
    BY <1>1, <2>1
  <2>. QED BY <1>1, <1>4, <1>7, <1>9, <2>2 DEF Holds
<1>11. CASE ~(sf.name \in DOMAIN ns /\ ns[sf.name].depth < d)
  <2>1. PICK lost, nn, rr :
          s = [fields |-> [i \in 1 .. n + 1 |-> IF i \in lost THEN Cleared ELSE all[i]],
               names |-> nn, rejects |-> rr]
    BY <1>1, <1>2, <1>5, <1>9, <1>11 DEF AddField
  <2>2. s.fields \in Seq(C)
    BY <1>8, <2>1
  <2>. QED BY <1>1, <1>4, <1>9, <2>1, <2>2 DEF Holds
<1>. QED BY <1>10, <1>11

(* A recount is a record.                                                  *)
LEMMA CountedType ==
  ASSUME NEW ni, IsInfo(ni), NEW pos, NEW tagged
  PROVE  IsInfo(Counted(ni, pos, tagged))
BY DEF Counted, IsInfo

(* Folding keeps the records: the newcomer and the field it competes with  *)
(* are cleared unless elected.                                             *)
LEMMA AddFieldRecords ==
  ASSUME NEW M, NEW s0, Holds(s0, M), Recorded(s0.fields, s0.names),
         NEW sf \in M, NEW d, NEW tagged
  PROVE  Recorded(AddField(s0, sf, d, tagged).fields, AddField(s0, sf, d, tagged).names)
<1>1. PICK fs, ns, rs : s0 = [fields |-> fs, names |-> ns, rejects |-> rs] /\ fs \in Seq(M \cup {Cleared})
  BY DEF Holds
<1>2. PICK n : n = Len(fs)
  OBVIOUS
<1>3. n \in Nat /\ n + 1 \in Nat
  BY <1>1, <1>2, LenProperties
<1>4. /\ \A k \in DOMAIN ns : IsInfo(ns[k])
      /\ \A i \in 1 .. n : fs[i] # Cleared => fs[i].name \in DOMAIN ns /\ ns[fs[i].name].index = i
  BY <1>1, <1>2 DEF Recorded
<1>5. \A x \in M \cup {Cleared} : /\ Len(Append(fs, x)) = n + 1
                                  /\ Append(fs, x)[n + 1] = x
                                  /\ \A i \in 1 .. n : Append(fs, x)[i] = fs[i]
  BY <1>1, <1>2, AppendProperties
<1>6. \A i \in 1 .. n + 1 : i \in 1 .. n \/ i = n + 1
  BY <1>3
<1>9. PICK s : s = AddField(s0, sf, d, tagged)
  OBVIOUS
<1>10. CASE sf.name \in DOMAIN ns /\ ns[sf.name].depth < d
  <2>1. s = [s0 EXCEPT !.fields = Append(fs, Cleared)]
    BY <1>1, <1>9, <1>10 DEF AddField
  <2>2. PICK gs : gs = Append(fs, Cleared)
    OBVIOUS
  <2>3. s.fields = gs /\ s.names = ns
    BY <1>1, <2>1, <2>2
  <2>4. Len(gs) = n + 1 /\ gs[n + 1] = Cleared /\ \A i \in 1 .. n : gs[i] = fs[i]
    BY <1>5, <2>2
  <2>5. Recorded(gs, ns)
    BY <1>4, <1>6, <2>4 DEF Recorded
  <2>. QED BY <1>9, <2>3, <2>5
<1>11. CASE ~(sf.name \in DOMAIN ns /\ ns[sf.name].depth < d)
  <2>1. PICK all : all = Append(fs, sf)
    OBVIOUS
  <2>2. Len(all) = n + 1 /\ all[n + 1] = sf /\ \A i \in 1 .. n : all[i] = fs[i]
    BY <1>5, <2>1
  <2>3. PICK was : was = IF sf.name \in DOMAIN ns THEN ns[sf.name] ELSE FreshInfo(d)
    OBVIOUS
  <2>4. PICK base : base = IF sf.name \in DOMAIN ns /\ ns[sf.name].depth > d THEN FreshInfo(d) ELSE was
    OBVIOUS
  <2>5. IsInfo(base)
    <3>1. IsInfo(FreshInfo(d))
      BY DEF IsInfo, FreshInfo
    <3>. QED BY <1>4, <2>3, <2>4, <3>1
  <2>6. PICK win : win = Elected(Counted(base, n + 1, tagged))
    OBVIOUS
  <2>7. PICK c, info : c = Counted(base, n + 1, tagged) /\ info = [c EXCEPT !.index = win]
    OBVIOUS
  <2>8. IsInfo(info) /\ info.index = win
    <3>1. IsInfo(c)
      BY <2>5, <2>7, CountedType
    <3>. QED BY <2>7, <3>1 DEF IsInfo
  <2>9. PICK lost : lost = Lost(was.index, n + 1, win)
    OBVIOUS
  <2>10. PICK gs : gs = [i \in 1 .. n + 1 |-> IF i \in lost THEN Cleared ELSE all[i]]
    OBVIOUS
  <2>11. PICK ms : ms = [k \in DOMAIN ns \union {sf.name} |-> IF k = sf.name THEN info ELSE ns[k]]
    OBVIOUS
  <2>12. s.fields = gs /\ s.names = ms
    <3>1. PICK rr : s = [fields |-> gs, names |-> ms, rejects |-> rr]
      BY <1>1, <1>2, <1>9, <1>11, <2>1, <2>3, <2>4, <2>6, <2>7, <2>9, <2>10, <2>11 DEF AddField
    <3>. QED BY <3>1
  <2>13. Len(gs) = n + 1
    BY <1>3, <2>10
  <2>14. \A k \in DOMAIN ms : IsInfo(ms[k])
    BY <1>4, <2>8, <2>11
  <2>15. ASSUME NEW i \in 1 .. n + 1, gs[i] # Cleared
         PROVE  gs[i].name \in DOMAIN ms /\ ms[gs[i].name].index = i
    <3>1. i \notin lost /\ gs[i] = all[i] /\ i # 0
      BY <1>3, <2>10, <2>15
    <3>2. CASE i = n + 1
      <4>1. gs[i] = sf /\ i = win
        BY <2>2, <2>9, <3>1, <3>2 DEF Lost
      <4>. QED BY <2>8, <2>11, <4>1
    <3>3. CASE i \in 1 .. n
      <4>1. gs[i] = fs[i] /\ fs[i].name \in DOMAIN ns /\ ns[fs[i].name].index = i
        BY <1>4, <2>2, <2>15, <3>1, <3>3
      <4>2. CASE fs[i].name = sf.name
        <5>1. was.index = i
          BY <2>3, <4>1, <4>2
        <5>2. i = win
          BY <2>9, <3>1, <5>1 DEF Lost
        <5>. QED BY <2>8, <2>11, <4>1, <4>2, <5>2
      <4>3. CASE fs[i].name # sf.name
        BY <2>11, <4>1, <4>3
      <4>. QED BY <4>2, <4>3
    <3>. QED BY <1>6, <3>2, <3>3
  <2>. QED BY <1>9, <2>12, <2>13, <2>14, <2>15 DEF Recorded
<1>. QED BY <1>10, <1>11

(***************************************************************************)
(* The actions.                                                            *)
(***************************************************************************)
(* What the invariant says of the declaration at hand.                     *)
LEMMA AtDeclaration ==
  ASSUME IInv, Walking
  PROVE  /\ Head(current) \in Places /\ Head(current).typ \in DOMAIN prog
         /\ at \in 1 .. Len(prog[Head(current).typ])
         /\ Decl = prog[Head(current).typ][at]
<1>1. current \in Seq(Places) /\ current # <<>>
  BY DEF IInv, Queues, Walking
<1>2. PICK e : e = Head(current)
  OBVIOUS
<1>3. e \in Places
  BY <1>1, <1>2, HeadTailProperties
<1>4. e.typ \in DOMAIN prog
  BY <1>3 DEF Places
<1>5. Len(prog[e.typ]) \in Nat
  BY <1>4, ProgramsAssumption DEF IInv, Queues
<1>6. at \in Nat \ {0} /\ at <= Len(prog[e.typ])
  BY <1>2 DEF IInv, Queues, Walking
<1>7. at \in 1 .. Len(prog[e.typ])
  BY <1>5, <1>6
<1>. QED BY <1>2, <1>3, <1>4, <1>7 DEF Decl

(* What is not walked yet of a queue is a queue.                           *)
LEMMA DropType ==
  ASSUME NEW q \in Seq(Places)
  PROVE  DropVisited(q) \in Seq(Places)
<1>. DEFINE A == {k \in DOMAIN q : q[k].typ \notin visited}
<1>1. PICK n : n = Len(q)
  OBVIOUS
<1>2. n \in Nat /\ DOMAIN q = 1 .. n
  BY <1>1, LenProperties
<1>3. CASE A = {}
  BY <1>3, EmptySeq DEF DropVisited
<1>4. CASE A # {}
  <2>1. A \subseteq Nat
    BY <1>2
  <2>2. PICK m : m = Min(A)
    OBVIOUS
  <2>3. m \in A
    <3>. HIDE DEF A
    <3>. QED BY <1>4, <2>1, <2>2, LeastNatural DEF Min
  <2>4. m \in 1 .. n + 1 /\ n \in m - 1 .. n
    BY <1>2, <2>3
  <2>5. SubSeq(q, m, n) \in Seq(Places)
    BY <1>1, <1>2, <2>4, SubSeqProperties
  <2>. QED BY <1>1, <1>4, <2>2, <2>5 DEF DropVisited
<1>. QED BY <1>3, <1>4

(* The queues hold entries of paths.                                       *)
LEMMA QueuesStep ==
  ASSUME IInv, [Next]_vars
  PROVE  Queues'
<1>0. /\ prog \in Programs /\ at \in Nat \ {0}
      /\ current \in Seq(Places) /\ next \in Seq(Places)
  BY DEF IInv, Queues
<1>1. prog' = prog
  BY DEF Next, Reject, Promote, Drop, RejectEmbed, Collect, NextEntry, NextDepth, Finish, Advance, vars
<1>2. Places' = Places
  BY <1>1 DEF Places, Entered, Enter, FieldsOf
<1>3. CASE Promote
  <2>1. PICK e : e = Head(current)
    OBVIOUS
  <2>2. /\ Walking /\ Promotes /\ at' = at + 1 /\ current' = current
        /\ next' = Append(next, PromotedEntry(e, Decl, at))
    BY <1>3, <2>1 DEF Promote, Advance
  <2>3. e \in Places /\ at \in 1 .. Len(prog[e.typ]) /\ Decl = prog[e.typ][at]
    BY <2>1, <2>2, AtDeclaration
  <2>4. Decl.kind \in {"struct", "ptrstruct"}
    BY <2>2 DEF Promotes, IsStruct
  <2>5. PromotedEntry(e, Decl, at) \in Places
    BY <1>0, <2>3, <2>4, Promoted
  <2>6. next' \in Seq(Places)
    BY <1>0, <2>2, <2>5, AppendProperties
  <2>. QED BY <1>0, <1>1, <1>2, <2>2, <2>6 DEF Queues
<1>4. CASE Reject \/ Drop \/ RejectEmbed \/ Collect
  <2>1. at' = at + 1 /\ current' = current /\ next' = next
    BY <1>4 DEF Reject, Drop, RejectEmbed, Collect, Advance
  <2>. QED BY <1>0, <1>1, <1>2, <2>1 DEF Queues
<1>5. CASE NextEntry
  <2>1. PICK q : q = Tail(current)
    OBVIOUS
  <2>2. at' = 1 /\ next' = next /\ current' = DropVisited(q)
    BY <1>5, <2>1 DEF NextEntry
  <2>3. q \in Seq(Places)
    BY <1>0, <1>5, <2>1, HeadTailProperties DEF NextEntry
  <2>4. DropVisited(q) \in Seq(Places)
    BY <2>3, DropType
  <2>5. current' \in Seq(Places) /\ next' \in Seq(Places) /\ at' \in Nat \ {0}
    BY <1>0, <2>2, <2>4
  <2>. QED BY <1>0, <1>1, <1>2, <2>5 DEF Queues
<1>6. CASE NextDepth
  <2>1. at' = 1 /\ next' = <<>> /\ current' = DropVisited(next)
    BY <1>6 DEF NextDepth
  <2>2. <<>> \in Seq(Places)
    BY EmptySeq
  <2>3. current' \in Seq(Places) /\ next' \in Seq(Places) /\ at' \in Nat \ {0}
    BY <1>0, <2>1, <2>2, DropType
  <2>. QED BY <1>0, <1>1, <1>2, <2>3 DEF Queues
<1>7. CASE Finish \/ UNCHANGED vars
  <2>1. at' = at /\ current' = current /\ next' = next
    BY <1>7 DEF Finish, vars
  <2>. QED BY <1>0, <1>1, <1>2, <2>1 DEF Queues
<1>. QED BY <1>3, <1>4, <1>5, <1>6, <1>7 DEF Next

(* The candidates are declarations of entries.                             *)
LEMMA CollectedStep ==
  ASSUME IInv, [Next]_vars
  PROVE  Collected'
<1>0. prog \in Programs /\ fields \in Seq(Members \cup {Cleared})
  BY DEF IInv, Queues, Collected
<1>1. prog' = prog
  BY DEF Next, Reject, Promote, Drop, RejectEmbed, Collect, NextEntry, NextDepth, Finish, Advance, vars
<1>2. Members' = Members
  BY <1>1 DEF Members, Places, Entered, Enter, FieldsOf
<1>3. CASE Collect
  <2>1. PICK e : e = Head(current)
    OBVIOUS
  <2>2. PICK sf : sf = Candidate(e, Decl, at)
    OBVIOUS
  <2>3. Walking
    BY <1>3 DEF Collect, Named
  <2>4. e \in Places /\ at \in 1 .. Len(prog[e.typ]) /\ Decl = prog[e.typ][at]
    BY <2>1, <2>3, AtDeclaration
  <2>5. sf \in Members
    BY <2>2, <2>4 DEF Members
  <2>6. PICK r : r = rejects \union Misspelt
    OBVIOUS
  <2>7. PICK t : t = (Tag.name # "")
    OBVIOUS
  <2>8. PICK s0 : s0 = [fields |-> fields, names |-> names, rejects |-> r]
    OBVIOUS
  <2>9. Holds(s0, Members)
    BY <1>0, <2>8 DEF Holds
  <2>10. PICK s1 : s1 = AddField(s0, sf, depth, t)
    OBVIOUS
  <2>11. Holds(s1, Members) /\ Holds(AddField(s1, sf, depth, t), Members)
    BY <2>5, <2>9, <2>10, AddFieldType
  <2>12. PICK s2 : s2 = AddField(s1, sf, depth, t)
    OBVIOUS
  <2>13. fields' = s2.fields \/ fields' = s1.fields
    BY <1>3, <2>1, <2>2, <2>6, <2>7, <2>8, <2>10, <2>12 DEF Collect
  <2>. QED BY <1>2, <2>11, <2>12, <2>13 DEF Collected, Holds
<1>4. CASE ~Collect
  <2>1. fields' = fields
    BY <1>4 DEF Next, Reject, Promote, Drop, RejectEmbed, NextEntry, NextDepth, Finish, vars
  <2>. QED BY <1>0, <1>2, <2>1 DEF Collected
<1>. QED BY <1>3, <1>4

(* A kept candidate that becomes a member is where its path says.          *)
LEMMA LocatedStep ==
  ASSUME IInv, [Next]_vars
  PROVE  AddressedThroughPath'
<1>0. prog \in Programs /\ fields \in Seq(Members \cup {Cleared})
  BY DEF IInv, Queues, Collected
<1>1. prog' = prog
  BY DEF Next, Reject, Promote, Drop, RejectEmbed, Collect, NextEntry, NextDepth, Finish, Advance, vars
<1>2. \A path : Address(path)' = Address(path)
  BY <1>1 DEF Address, Entered, Enter, FieldsOf
<1>3. CASE Finish
  <2>. DEFINE kept == {fields[i] : i \in Survivors}
  <2>1. PICK n, r : r \in [1 .. n -> kept] /\ result' = r
    BY <1>3 DEF Finish
  <2>2. \A f \in kept : Located(f)
    <3>. TAKE f \in kept
    <3>1. PICK i \in DOMAIN fields : f = fields[i] /\ f # Cleared
      BY DEF Survivors
    <3>2. f \in Members
      <4>1. i \in 1 .. Len(fields)
        BY <1>0, LenProperties
      <4>. QED BY <1>0, <3>1, <4>1, ElementOfSeq
    <3>. QED BY <1>0, <3>2, CandidateLocated
  <2>. HIDE DEF kept
  <2>3. \A i \in DOMAIN result' : Located(result'[i])
    BY <2>1, <2>2
  <2>. QED BY <1>2, <2>3 DEF AddressedThroughPath, Located
<1>4. CASE ~Finish
  <2>1. result' = result /\ done' = done
    BY <1>4 DEF Next, Reject, Promote, Drop, RejectEmbed, Collect, NextEntry, NextDepth, Advance, vars
  <2>. QED BY <1>2, <2>1 DEF IInv, AddressedThroughPath
<1>. QED BY <1>3, <1>4

(* The records follow the candidates.                                      *)
LEMMA RecordedStep ==
  ASSUME IInv, [Next]_vars
  PROVE  Recorded(fields, names)'
<1>0. fields \in Seq(Members \cup {Cleared}) /\ Recorded(fields, names)
  BY DEF IInv, Collected
<1>1. CASE Collect
  <2>1. PICK e : e = Head(current)
    OBVIOUS
  <2>2. PICK sf : sf = Candidate(e, Decl, at)
    OBVIOUS
  <2>3. Walking
    BY <1>1 DEF Collect, Named
  <2>4. e \in Places /\ at \in 1 .. Len(prog[e.typ]) /\ Decl = prog[e.typ][at]
    BY <2>1, <2>3, AtDeclaration
  <2>5. sf \in Members
    BY <2>2, <2>4 DEF Members
  <2>6. PICK r : r = rejects \union Misspelt
    OBVIOUS
  <2>7. PICK t : t = (Tag.name # "")
    OBVIOUS
  <2>8. PICK s0 : s0 = [fields |-> fields, names |-> names, rejects |-> r]
    OBVIOUS
  <2>9. Holds(s0, Members) /\ Recorded(s0.fields, s0.names)
    BY <1>0, <2>8 DEF Holds
  <2>10. PICK s1 : s1 = AddField(s0, sf, depth, t)
    OBVIOUS
  <2>11. Holds(s1, Members) /\ Recorded(s1.fields, s1.names)
    BY <2>5, <2>9, <2>10, AddFieldType, AddFieldRecords
  <2>12. PICK s2 : s2 = AddField(s1, sf, depth, t)
    OBVIOUS
  <2>13. Recorded(s2.fields, s2.names)
    BY <2>5, <2>11, <2>12, AddFieldRecords
  <2>14. \/ fields' = s2.fields /\ names' = s2.names
         \/ fields' = s1.fields /\ names' = s1.names
    BY <1>1, <2>1, <2>2, <2>6, <2>7, <2>8, <2>10, <2>12 DEF Collect
  <2>. QED BY <2>11, <2>13, <2>14 DEF Recorded
<1>2. CASE ~Collect
  <2>1. fields' = fields /\ names' = names
    BY <1>2 DEF Next, Reject, Promote, Drop, RejectEmbed, NextEntry, NextDepth, Finish, vars
  <2>. QED BY <1>0, <2>1 DEF Recorded
<1>. QED BY <1>1, <1>2

(* No path comes before itself.                                            *)
LEMMA NotBeforeItself ==
  ASSUME NEW p \in Seq(Nat)
  PROVE  ~Before(p, p)
<1>1. Len(p) \in Nat /\ \A k \in 1 .. Len(p) : p[k] \in Nat
  BY LenProperties, ElementOfSeq
<1>. QED BY <1>1 DEF Before

(* So the members, which are sorted, have keys of their own.               *)
LEMMA OnePerKeyStep ==
  ASSUME IInv, [Next]_vars
  PROVE  OnePerKeyInOrder'
<1>1. CASE Finish
  <2>. DEFINE kept == {fields[i] : i \in Survivors}
  <2>1. PICK n, r : r \in [1 .. n -> kept] /\ Sorted(r) /\ result' = r
    BY <1>1 DEF Finish
  <2>2. fields \in Seq(Members \cup {Cleared}) /\ Recorded(fields, names)
    BY DEF IInv, Collected
  <2>3. \A f, g \in kept : f.name = g.name => f = g
    <3>. TAKE f, g \in kept
    <3>1. PICK i \in DOMAIN fields : f = fields[i] /\ f # Cleared
      BY DEF Survivors
    <3>2. PICK j \in DOMAIN fields : g = fields[j] /\ g # Cleared
      BY DEF Survivors
    <3>3. i \in 1 .. Len(fields) /\ j \in 1 .. Len(fields)
      BY <2>2, LenProperties
    <3>4. names[f.name].index = i /\ names[g.name].index = j
      BY <2>2, <3>1, <3>2, <3>3 DEF Recorded
    <3>. QED BY <3>1, <3>2, <3>4
  <2>4. \A f \in kept : f.path \in Seq(Nat)
    <3>. TAKE f \in kept
    <3>1. PICK i \in DOMAIN fields : f = fields[i] /\ f # Cleared
      BY DEF Survivors
    <3>2. f \in Members
      <4>1. i \in 1 .. Len(fields)
        BY <2>2, LenProperties
      <4>. QED BY <2>2, <3>1, <4>1, ElementOfSeq
    <3>. QED BY <3>2, MemberPath DEF IInv, Queues
  <2>. HIDE DEF kept
  <2>5. \A i, j \in DOMAIN r : i < j => r[i].name # r[j].name /\ Before(r[i].path, r[j].path)
    <3>. SUFFICES ASSUME NEW i \in DOMAIN r, NEW j \in DOMAIN r, i < j
                  PROVE  r[i].name # r[j].name /\ Before(r[i].path, r[j].path)
      OBVIOUS
    <3>1. Before(r[i].path, r[j].path)
      BY <2>1 DEF Sorted
    <3>2. r[i] \in kept /\ r[j] \in kept
      BY <2>1
    <3>3. r[i] # r[j]
      BY <2>4, <3>1, <3>2, NotBeforeItself
    <3>. QED BY <2>3, <3>1, <3>2, <3>3
  <2>6. \A i, j \in DOMAIN result' : i < j => result'[i].name # result'[j].name
                                         /\ Before(result'[i].path, result'[j].path)
    BY <2>1, <2>5
  <2>. QED BY <2>6 DEF OnePerKeyInOrder, Before
<1>2. CASE ~Finish
  <2>1. result' = result /\ done' = done
    BY <1>2 DEF Next, Reject, Promote, Drop, RejectEmbed, Collect, NextEntry, NextDepth, Advance, vars
  <2>. QED BY <2>1 DEF IInv, OnePerKeyInOrder, Before
<1>. QED BY <1>1, <1>2

(* At first the host is entered by the empty path.                         *)
LEMMA Initially == Init => IInv
<1>. SUFFICES ASSUME Init PROVE IInv
  OBVIOUS
<1>1. PICK e : e = Entry(Host, 0, <<>>, <<>>)
  OBVIOUS
<1>2. Slots(<<>>) = <<>>
  BY DEF Slots
<1>3. Host \in DOMAIN prog
  BY ProgramsAssumption DEF Init
<1>4. <<>> \in Seq(Nat) /\ <<>> \in Seq(Hop) /\ <<>> \in Seq(Places)
      /\ <<>> \in Seq(Members \cup {Cleared})
  BY EmptySeq
<1>5. e \in Places
  BY <1>1, <1>2, <1>3, <1>4, EnteredNone DEF Places, Entry, AtHost
<1>6. current \in Seq(Places)
  BY <1>1, <1>5 DEF Init
<1>7. Recorded(fields, names)
  <2>1. fields = <<>> /\ names = <<>>
    BY DEF Init
  <2>2. DOMAIN names = {} /\ Len(fields) = 0
    BY <2>1, EmptySeq
  <2>3. 1 .. 0 = {}
    OBVIOUS
  <2>. QED BY <2>2, <2>3 DEF Recorded
<1>. QED BY <1>4, <1>6, <1>7 DEF Init, IInv, Queues, Collected, AddressedThroughPath, OnePerKeyInOrder

(* Recorded and the shape of the queues carry both results.                *)
LEMMA Invariance == Spec => []IInv
<1>1. Init => IInv
  BY Initially
<1>2. IInv /\ [Next]_vars => IInv'
  BY QueuesStep, CollectedStep, RecordedStep, LocatedStep, OnePerKeyStep DEF IInv
<1>. QED BY <1>1, <1>2, PTL DEF Spec

(* In every program, a member is addressed through the pointers its path   *)
(* really crosses, whatever the structs promoted before it                 *)
(* (collectDirect); at most one of a key's candidates becomes a member,    *)
(* and the members come in declaration order, which the positional lookup  *)
(* tables rely on (addField).                                              *)
THEOREM MembersPlaced == Spec => []Placement
<1>1. IInv => Placement
  BY DEF IInv, Placement
<1>. QED BY <1>1, Invariance, PTL
=============================================================================
