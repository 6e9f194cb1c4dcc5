--------------------------- MODULE TypeBuildProofs ---------------------------
(***************************************************************************)
(* Proofs about TypeBuild: for any number of goroutines and any types, a   *)
(* pending entry has exactly one builder, what is published stays, and an  *)
(* EncTypeInfo is published only once all that can be reached from it is   *)
(* bound, with the right flags.                                            *)
(***************************************************************************)
EXTENDS TypeBuild, SequenceTheorems, FiniteSetTheorems, WellFoundedInduction, TLAPS

(***************************************************************************)
(* Stacks of frames.                                                       *)
(***************************************************************************)
(* A frame is at a place of its operation.                                 *)
IsFrame(f) ==
  /\ f = [op |-> f.op, t |-> f.t, at |-> f.at, i |-> f.i, edges |-> f.edges]
  /\ f.t \in Types /\ f.i \in Nat \ {0}
  /\ \/ f.op \in {"uni", "part"} /\ f.at \in {"load", "wait", "store", "kids", "close"}
     \/ f.op = "enc" /\ f.at \in {"load", "shell", "kids"}
     \/ f.op = "bind" /\ f.at \in {"mark", "publish"}

IsStack(s) ==
  /\ s \in Seq({s[i] : i \in DOMAIN s})
  /\ \A i \in DOMAIN s : IsFrame(s[i])

(* The frames that build a pending entry.                                  *)
Building(f) == f.op # "enc" /\ f.at \in {"kids", "close"}
Works(s) == {i \in DOMAIN s : Building(s[i])}

(* An EncTypeInfo build that has come to binding has no frame left.        *)
Alone(s) == \A i \in DOMAIN s : s[i].op = "bind" => DOMAIN s = {1}

(* r is s with other frames, but the same builds.                          *)
SameBuilds(s, r) ==
  IsStack(r) /\ (Alone(s) => Alone(r)) /\ Works(r) = Works(s) /\ \A i \in Works(r) : r[i].t = s[i].t

Changed(s, f, r) == r = Append(Front(s), f)

(* A stack as a sequence of frames.                                        *)
LEMMA StackType ==
  ASSUME NEW s, IsStack(s)
  PROVE  Len(s) \in Nat /\ DOMAIN s = 1 .. Len(s) /\ s = [i \in 1 .. Len(s) |-> s[i]]
BY LenProperties DEF IsStack

(* Any sequence of frames is a stack.                                      *)
LEMMA IsAStack ==
  ASSUME NEW n \in Nat, NEW r, r = [i \in 1 .. n |-> r[i]], \A i \in 1 .. n : IsFrame(r[i])
  PROVE  IsStack(r) /\ Len(r) = n /\ DOMAIN r = 1 .. n
<1>1. DOMAIN r = 1 .. n
  OBVIOUS
<1>2. r \in Seq({r[i] : i \in DOMAIN r})
  <2>. DEFINE S == {r[i] : i \in DOMAIN r}
  <2>1. \A i \in 1 .. n : r[i] \in S
    BY <1>1
  <2>. HIDE DEF S
  <2>2. [i \in 1 .. n |-> r[i]] \in Seq(S)
    BY <2>1, IsASeq
  <2>. QED BY <2>2 DEF S
<1>3. Len(r) = n
  BY <1>1, <1>2, LenProperties
<1>. QED BY <1>1, <1>2, <1>3 DEF IsStack

(* The innermost frame, and the frames under it.                           *)
LEMMA TopType ==
  ASSUME NEW s, IsStack(s), s # <<>>
  PROVE  /\ Len(s) \in Nat \ {0} /\ Len(s) \in DOMAIN s
         /\ Last(s) = s[Len(s)] /\ IsFrame(Last(s))
         /\ IsStack(Front(s)) /\ Len(Front(s)) = Len(s) - 1
         /\ DOMAIN Front(s) = 1 .. Len(s) - 1
         /\ \A i \in 1 .. Len(s) - 1 : Front(s)[i] = s[i]
<1>1. Len(s) \in Nat /\ DOMAIN s = 1 .. Len(s) /\ s = [i \in 1 .. Len(s) |-> s[i]]
  BY StackType
<1>2. Len(s) # 0
  BY EmptySeq DEF IsStack
<1>3. Len(s) \in Nat \ {0} /\ Len(s) \in DOMAIN s /\ Last(s) = s[Len(s)] /\ IsFrame(Last(s))
  BY <1>1, <1>2 DEF Last, IsStack
<1>. DEFINE r == [i \in 1 .. Len(s) - 1 |-> s[i]]
<1>4. Front(s) = r
  BY <1>1 DEF Front
<1>5. Len(s) - 1 \in Nat /\ \A i \in 1 .. Len(s) - 1 : r[i] = s[i] /\ IsFrame(r[i])
  BY <1>1, <1>2 DEF IsStack
<1>6. r = [i \in 1 .. Len(s) - 1 |-> r[i]]
  OBVIOUS
<1>. HIDE DEF r
<1>7. IsStack(r) /\ Len(r) = Len(s) - 1 /\ DOMAIN r = 1 .. Len(s) - 1
  BY <1>5, <1>6, IsAStack
<1>. QED BY <1>3, <1>4, <1>5, <1>7

(* A frame on top.                                                         *)
LEMMA PushType ==
  ASSUME NEW s, IsStack(s), NEW f, IsFrame(f)
  PROVE  /\ IsStack(Append(s, f)) /\ DOMAIN Append(s, f) = 1 .. Len(s) + 1
         /\ \A i \in 1 .. Len(s) : Append(s, f)[i] = s[i]
         /\ Append(s, f)[Len(s) + 1] = f
<1>1. Len(s) \in Nat /\ DOMAIN s = 1 .. Len(s)
  BY StackType
<1>2. PICK n \in Nat : n = Len(s) + 1
  BY <1>1
<1>. DEFINE r == Append(s, f)
            S == {s[i] : i \in DOMAIN s} \cup {f}
<1>3. s \in Seq(S) /\ f \in S
  <2>1. s \in Seq({s[i] : i \in DOMAIN s})
    BY DEF IsStack
  <2>. QED BY <2>1
<1>. HIDE DEF S
<1>4. /\ r \in Seq(S) /\ Len(r) = n
      /\ \A i \in 1 .. Len(s) : r[i] = s[i] /\ r[n] = f
  BY <1>1, <1>2, <1>3, AppendProperties
<1>5. r[n] = f
  BY <1>1, <1>2, <1>3, AppendProperties
<1>6. r = [i \in 1 .. n |-> r[i]]
  BY <1>4, LenProperties
<1>7. \A i \in 1 .. n : IsFrame(r[i])
  <2>1. \A i \in 1 .. n : i = n \/ i \in 1 .. Len(s)
    BY <1>1, <1>2
  <2>. QED BY <1>1, <1>4, <1>5, <2>1 DEF IsStack
<1>. HIDE DEF r
<1>8. IsStack(r) /\ DOMAIN r = 1 .. n
  BY <1>6, <1>7, IsAStack
<1>. QED BY <1>2, <1>4, <1>5, <1>8 DEF r

(* The innermost frame replaced.                                           *)
LEMMA ChangeType ==
  ASSUME NEW s, IsStack(s), s # <<>>, NEW f, IsFrame(f),
         NEW r, Changed(s, f, r)
  PROVE  /\ IsStack(r) /\ DOMAIN r = DOMAIN s
         /\ \A i \in DOMAIN s : i # Len(s) => r[i] = s[i]
         /\ r[Len(s)] = f
<1>1. /\ Len(s) \in Nat \ {0} /\ IsStack(Front(s)) /\ Len(Front(s)) = Len(s) - 1
      /\ \A i \in 1 .. Len(s) - 1 : Front(s)[i] = s[i]
  BY TopType
<1>2. DOMAIN s = 1 .. Len(s)
  BY StackType
<1>. DEFINE u == Front(s)
<1>3. IsStack(u) /\ Len(u) + 1 = Len(s)
  BY <1>1
<1>. HIDE DEF u
<1>4. /\ IsStack(Append(u, f)) /\ DOMAIN Append(u, f) = 1 .. Len(u) + 1
      /\ \A i \in 1 .. Len(u) : Append(u, f)[i] = u[i]
      /\ Append(u, f)[Len(u) + 1] = f
  BY <1>3, PushType
<1>5. r = Append(u, f)
  BY DEF u, Changed
<1>6. IsStack(r) /\ DOMAIN r = 1 .. Len(s) /\ r[Len(s)] = f
  BY <1>3, <1>4, <1>5
<1>7. \A i \in 1 .. Len(s) - 1 : r[i] = u[i]
  BY <1>1, <1>3, <1>4, <1>5
<1>8. \A i \in 1 .. Len(s) : i # Len(s) => i \in 1 .. Len(s) - 1
  BY <1>1
<1>9. \A i \in 1 .. Len(s) : i # Len(s) => r[i] = s[i]
  BY <1>1, <1>7, <1>8 DEF u
<1>. QED BY <1>2, <1>6, <1>9

(* Replaced by a frame that builds the same or nothing either.             *)
LEMMA ChangeKeeps ==
  ASSUME NEW s, IsStack(s), s # <<>>, NEW f, IsFrame(f),
         NEW r, Changed(s, f, r),
         f.t = Last(s).t, f.op = Last(s).op, Building(f) <=> Building(Last(s))
  PROVE  SameBuilds(s, r)
<1>1. /\ IsStack(r) /\ DOMAIN r = DOMAIN s
      /\ \A i \in DOMAIN s : i # Len(s) => r[i] = s[i]
      /\ r[Len(s)] = f
  BY ChangeType
<1>2. Last(s) = s[Len(s)]
  BY TopType
<1>3. \A i \in DOMAIN s : Building(r[i]) <=> Building(s[i])
  BY <1>1, <1>2
<1>4. \A i \in DOMAIN s : r[i].t = s[i].t /\ r[i].op = s[i].op
  BY <1>1, <1>2
<1>5. Alone(s) => Alone(r)
  BY <1>1, <1>4 DEF Alone
<1>. QED BY <1>1, <1>3, <1>4, <1>5 DEF SameBuilds, Works

(* A frame on top that builds nothing.                                     *)
LEMMA PushKeeps ==
  ASSUME NEW s, IsStack(s), s # <<>>, Last(s).op # "bind",
         NEW f, IsFrame(f), ~ Building(f), f.op # "bind"
  PROVE  SameBuilds(s, Append(s, f))
<1>. DEFINE r == Append(s, f)
<1>1. Len(s) \in Nat /\ DOMAIN s = 1 .. Len(s)
  BY StackType
<1>2. /\ IsStack(r) /\ DOMAIN r = 1 .. Len(s) + 1
      /\ \A i \in 1 .. Len(s) : r[i] = s[i]
      /\ r[Len(s) + 1] = f
  BY PushType
<1>. HIDE DEF r
<1>3. \A i \in 1 .. Len(s) + 1 : i \in 1 .. Len(s) \/ i = Len(s) + 1
  BY <1>1
<1>4. \A i \in 1 .. Len(s) : i \in 1 .. Len(s) + 1
  BY <1>1
<1>5. Works(r) = Works(s)
  BY <1>1, <1>2, <1>3, <1>4 DEF Works
<1>6. \A i \in Works(r) : r[i].t = s[i].t
  BY <1>1, <1>2, <1>5 DEF Works
<1>7. Alone(s) => Alone(r)
  <2>1. Last(s) = s[Len(s)] /\ Len(s) \in DOMAIN s
    BY TopType
  <2>2. ASSUME Alone(s), NEW i \in DOMAIN s
        PROVE  s[i].op # "bind"
    BY <2>1, <2>2 DEF Alone
  <2>. QED BY <1>1, <1>2, <1>3, <2>2 DEF Alone
<1>. QED BY <1>2, <1>5, <1>6, <1>7 DEF SameBuilds, r

(* The innermost frame taken off.                                          *)
LEMMA PopType ==
  ASSUME NEW s, IsStack(s), s # <<>>
  PROVE  /\ IsStack(Front(s)) /\ Works(Front(s)) = Works(s) \ {Len(s)}
         /\ \A i \in Works(Front(s)) : Front(s)[i] = s[i]
         /\ Alone(s) => Alone(Front(s))
<1>1. /\ Len(s) \in Nat \ {0} /\ IsStack(Front(s)) /\ DOMAIN Front(s) = 1 .. Len(s) - 1
      /\ \A i \in 1 .. Len(s) - 1 : Front(s)[i] = s[i]
  BY TopType
<1>2. DOMAIN s = 1 .. Len(s)
  BY StackType
<1>3. \A i : i \in 1 .. Len(s) - 1 <=> i \in 1 .. Len(s) /\ i # Len(s)
  BY <1>1
<1>4. Alone(s) => Alone(Front(s))
  <2>1. ASSUME Alone(s), NEW i \in DOMAIN Front(s)
        PROVE  Front(s)[i].op # "bind"
    <3>1. i \in DOMAIN s /\ Len(s) \in DOMAIN s /\ i # Len(s) /\ Front(s)[i] = s[i]
      BY <1>1, <1>2, <1>3
    <3>. QED BY <2>1, <3>1 DEF Alone
  <2>. QED BY <2>1 DEF Alone
<1>. QED BY <1>1, <1>2, <1>3, <1>4 DEF Works

(* Builds the same, with other frames, in two steps.                       *)
LEMMA SameTwice ==
  ASSUME NEW s, NEW u, NEW r, SameBuilds(s, u), SameBuilds(u, r)
  PROVE  SameBuilds(s, r)
BY DEF SameBuilds

(* A frame with another place, position or edges.                          *)
LEMMA FrameAt ==
  ASSUME NEW f, IsFrame(f), NEW a,
         \/ f.op \in {"uni", "part"} /\ a \in {"load", "wait", "store", "kids", "close"}
         \/ f.op = "enc" /\ a \in {"load", "shell", "kids"}
         \/ f.op = "bind" /\ a \in {"mark", "publish"},
         NEW h, h = [f EXCEPT !.at = a]
  PROVE  IsFrame(h) /\ h.t = f.t /\ h.op = f.op /\ h.at = a /\ h.i = f.i
<1>1. f = [op |-> f.op, t |-> f.t, at |-> f.at, i |-> f.i, edges |-> f.edges]
  BY DEF IsFrame
<1>2. h = [op |-> f.op, t |-> f.t, at |-> a, i |-> f.i, edges |-> f.edges]
  BY <1>1
<1>3. h.t = f.t /\ h.op = f.op /\ h.at = a /\ h.i = f.i /\ h.edges = f.edges
  BY <1>2
<1>. QED BY <1>2, <1>3 DEF IsFrame

(* A new frame.                                                            *)
LEMMA NewFrame ==
  ASSUME NEW op \in {"uni", "part", "enc"}, NEW t \in Types
  PROVE  IsFrame(Frame(op, t)) /\ ~ Building(Frame(op, t))
BY DEF IsFrame, Frame, Building

(* Positions are counted from 1.                                           *)
LEMMA NextPosition == \A n \in Nat \ {0} : n + 1 \in Nat \ {0}
OBVIOUS

(* The next child, with or without its edge.                               *)
LEMMA FrameNext ==
  ASSUME NEW f, IsFrame(f), NEW h,
         \/ h = [f EXCEPT !.i = @ + 1]
         \/ \E e : h = [f EXCEPT !.i = @ + 1, !.edges = e]
  PROVE  IsFrame(h) /\ h.t = f.t /\ h.op = f.op /\ h.at = f.at
<1>1. f = [op |-> f.op, t |-> f.t, at |-> f.at, i |-> f.i, edges |-> f.edges]
  BY DEF IsFrame
<1>2. PICK e : h = [op |-> f.op, t |-> f.t, at |-> f.at, i |-> f.i + 1, edges |-> e]
  <2>1. CASE h = [f EXCEPT !.i = @ + 1]
    BY <1>1, <2>1
  <2>2. ASSUME NEW e, h = [f EXCEPT !.i = @ + 1, !.edges = e]
        PROVE  h = [op |-> f.op, t |-> f.t, at |-> f.at, i |-> f.i + 1, edges |-> e]
    BY <1>1, <2>2
  <2>. QED BY <2>1, <2>2
<1>3. h.t = f.t /\ h.op = f.op /\ h.at = f.at /\ h.i = f.i + 1 /\ h.edges = e
  BY <1>2
<1>4. f.i + 1 \in Nat \ {0}
  <2>1. \A n \in Nat \ {0} : n + 1 \in Nat \ {0}
    BY NextPosition
  <2>2. f.i \in Nat \ {0}
    BY DEF IsFrame
  <2>. QED BY <2>1, <2>2, Zenon
<1>. QED BY <1>2, <1>3, <1>4 DEF IsFrame

(* A stack of one frame that builds nothing.                               *)
LEMMA OneFrame ==
  ASSUME NEW f, IsFrame(f), ~ Building(f)
  PROVE  IsStack(<<f>>) /\ Works(<<f>>) = {} /\ Alone(<<f>>)
<1>. DEFINE r == <<f>>
<1>1. r = [i \in 1 .. 1 |-> r[i]] /\ \A i \in 1 .. 1 : r[i] = f
  OBVIOUS
<1>. HIDE DEF r
<1>2. IsStack(r) /\ DOMAIN r = 1 .. 1
  BY <1>1, IsAStack
<1>3. Works(r) = {}
  BY <1>1, <1>2 DEF Works
<1>4. Alone(r)
  BY <1>2 DEF Alone
<1>. QED BY <1>2, <1>3, <1>4 DEF r

(* Nothing builds nothing.                                                 *)
LEMMA NoFrames ==
  IsStack(<<>>) /\ Works(<<>>) = {} /\ Alone(<<>>) /\ SameBuilds(<<>>, <<>>)
<1>. DEFINE r == <<>>
<1>1. r = [i \in 1 .. 0 |-> r[i]] /\ \A i \in 1 .. 0 : IsFrame(r[i])
  OBVIOUS
<1>. HIDE DEF r
<1>2. IsStack(r) /\ DOMAIN r = 1 .. 0
  BY <1>1, IsAStack
<1>3. Works(r) = {}
  BY <1>2 DEF Works
<1>4. Alone(r)
  BY <1>2 DEF Alone
<1>. QED BY <1>2, <1>3, <1>4 DEF r, SameBuilds

(* The caller of a finished frame goes on with the builds it had.          *)
LEMMA ReturnKeeps ==
  ASSUME NEW g \in Gor, IsStack(stack[g]), stack[g] # <<>>
  PROVE  SameBuilds(Front(stack[g]), Returned(g))
<1>. DEFINE up == Front(stack[g])
<1>1. IsStack(up)
  BY TopType
<1>2. Returned(g) = IF up = <<>> THEN <<>>
                    ELSE Append(Front(up), CASE Last(up).op = "enc" -> [Last(up) EXCEPT !.at = "shell"]
                                             [] OTHER -> [Last(up) EXCEPT !.i = @ + 1])
  BY DEF Returned, Under
<1>. HIDE DEF up
<1>3. CASE up = <<>>
  BY <1>2, <1>3, NoFrames DEF up
<1>4. CASE up # <<>> /\ Last(up).op = "enc"
  <2>. DEFINE h == [Last(up) EXCEPT !.at = "shell"]
  <2>1. IsFrame(Last(up))
    BY <1>1, <1>4, TopType
  <2>2. IsFrame(h) /\ h.t = Last(up).t /\ h.op = Last(up).op
    BY <2>1, <1>4, FrameAt
  <2>. HIDE DEF h
  <2>3. Building(h) <=> Building(Last(up))
    BY <2>2, <1>4 DEF Building
  <2>4. Returned(g) = Append(Front(up), h)
    BY <1>2, <1>4 DEF h
  <2>5. Changed(up, h, Returned(g))
    BY <2>4 DEF Changed
  <2>. QED BY <1>1, <1>4, <2>2, <2>3, <2>5, ChangeKeeps DEF up
<1>5. CASE up # <<>> /\ Last(up).op # "enc"
  <2>. DEFINE h == [Last(up) EXCEPT !.i = @ + 1]
  <2>1. IsFrame(Last(up))
    BY <1>1, <1>5, TopType
  <2>2. IsFrame(h) /\ h.t = Last(up).t /\ h.op = Last(up).op /\ h.at = Last(up).at
    BY <2>1, FrameNext
  <2>. HIDE DEF h
  <2>3. Building(h) <=> Building(Last(up))
    BY <2>2 DEF Building
  <2>4. Returned(g) = Append(Front(up), h)
    BY <1>2, <1>5 DEF h
  <2>5. Changed(up, h, Returned(g))
    BY <2>4 DEF Changed
  <2>. QED BY <1>1, <1>5, <2>2, <2>3, <2>5, ChangeKeeps DEF up
<1>. QED BY <1>3, <1>4, <1>5

(* The same for a finished subtree of an EncTypeInfo build.                *)
LEMMA EncReturnKeeps ==
  ASSUME NEW g \in Gor, IsStack(stack[g]), stack[g] # <<>>, NEW o
  PROVE  SameBuilds(Front(stack[g]), EncReturned(g, o))
<1>. DEFINE up == Front(stack[g])
            b == [Frame("bind", Top(g).t) EXCEPT !.at = "mark"]
<1>1. IsStack(up) /\ IsFrame(Last(stack[g]))
  BY TopType
<1>2. EncReturned(g, o) = IF up = <<>>
        THEN IF local[g] = <<>> THEN <<>> ELSE <<b>>
        ELSE Append(Front(up), [Last(up) EXCEPT !.i = @ + 1, !.edges = Append(@, o)])
  BY DEF EncReturned, Under
<1>3. IsFrame(b) /\ ~ Building(b)
  <2>1. b = [op |-> "bind", t |-> Last(stack[g]).t, at |-> "mark", i |-> 1, edges |-> <<>>]
    BY DEF Frame, Top
  <2>2. Last(stack[g]).t \in Types
    BY <1>1 DEF IsFrame
  <2>. HIDE DEF b
  <2>. QED BY <2>1, <2>2 DEF IsFrame, Building
<1>. HIDE DEF up, b
<1>4. CASE up = <<>>
  <2>1. SameBuilds(<<>>, <<b>>)
    BY <1>3, OneFrame, NoFrames DEF SameBuilds
  <2>. QED BY <1>2, <1>4, <2>1, NoFrames DEF up
<1>5. CASE up # <<>>
  <2>1. PICK e : e = Append(Last(up).edges, o)
    OBVIOUS
  <2>. DEFINE h == [Last(up) EXCEPT !.i = @ + 1, !.edges = e]
  <2>2. IsFrame(Last(up))
    BY <1>1, <1>5, TopType
  <2>3. [Last(up) EXCEPT !.i = @ + 1, !.edges = Append(@, o)] = h
    BY <2>1
  <2>4. IsFrame(h) /\ h.t = Last(up).t /\ h.op = Last(up).op /\ h.at = Last(up).at
    BY <2>2, FrameNext
  <2>. HIDE DEF h
  <2>5. Building(h) <=> Building(Last(up))
    BY <2>4 DEF Building
  <2>6. EncReturned(g, o) = Append(Front(up), h)
    BY <1>2, <1>5, <2>3
  <2>7. Changed(up, h, EncReturned(g, o))
    BY <2>6 DEF Changed
  <2>. QED BY <1>1, <1>5, <2>4, <2>5, <2>7, ChangeKeeps DEF up
<1>. QED BY <1>4, <1>5

(***************************************************************************)
(* The inductive invariant.                                                *)
(***************************************************************************)
(* Every stack is one.                                                     *)
Stacks == DOMAIN stack = Gor /\ \A g \in Gor : IsStack(stack[g]) /\ Alone(stack[g])

(* A pending entry is built by one frame, and only pending entries are.    *)
One == \A g, h \in Gor : \A i \in Works(stack[g]), j \in Works(stack[h]) :
         stack[g][i].t = stack[h][j].t => g = h /\ i = j
Held == \A t \in Types :
          t \in open <=> \E g \in Gor : \E i \in Works(stack[g]) : stack[g][i].t = t

(* What is not in the cache is not being built.                            *)
Known ==
  /\ cache \in [Types -> {"absent", "pending", "done"}]
  /\ open \subseteq Types /\ ext \subseteq Types /\ flag \subseteq Quoted
  /\ \A t \in Types : cache[t] = "absent" => t \notin open
Counted ==
  /\ building \in [Gor -> SUBSET Types]
  /\ calls \in [Gor -> 0 .. MaxCalls]

(* Objects of a build and published objects exist.                         *)
Owned ==
  /\ DOMAIN local = Gor /\ DOMAIN epub = Types
  /\ \A g \in Gor : \A t \in DOMAIN local[g] : local[g][t] \in DOMAIN einfo
  /\ \A t \in Types : epub[t] = NoObj \/ epub[t] \in DOMAIN einfo

Builds == Stacks /\ One /\ Held
IInv == Builds /\ Known /\ Counted /\ Owned

(* A step that neither starts nor ends a build.                            *)
LEMMA KeepBuilds ==
  ASSUME Builds, NEW g \in Gor, NEW r, SameBuilds(stack[g], r),
         stack' = [stack EXCEPT ![g] = r], open' = open
  PROVE  Builds'
<1>1. DOMAIN stack = Gor /\ \A h \in Gor : IsStack(stack[h]) /\ Alone(stack[h])
  BY DEF Builds, Stacks
<1>2. DOMAIN stack' = Gor /\ stack'[g] = r /\ \A h \in Gor : h # g => stack'[h] = stack[h]
  BY <1>1
<1>3. \A h \in Gor : /\ IsStack(stack'[h]) /\ Alone(stack'[h])
                      /\ Works(stack'[h]) = Works(stack[h])
  <2>1. IsStack(r) /\ Alone(r) /\ Works(r) = Works(stack[g])
    BY <1>1 DEF SameBuilds
  <2>. QED BY <1>1, <1>2, <2>1
<1>4. \A h \in Gor : \A i \in Works(stack'[h]) : stack'[h][i].t = stack[h][i].t
  <2>1. \A i \in Works(r) : r[i].t = stack[g][i].t
    BY DEF SameBuilds
  <2>. QED BY <1>2, <2>1
<1>5. Stacks'
  BY <1>2, <1>3 DEF Stacks
<1>6. One'
  <2>1. One
    BY DEF Builds
  <2>. QED BY <1>3, <1>4, <2>1 DEF One
<1>7. Held'
  <2>1. Held
    BY DEF Builds
  <2>. QED BY <1>3, <1>4, <2>1 DEF Held
<1>. QED BY <1>5, <1>6, <1>7 DEF Builds

(* The winner of the LoadOrStore starts the build of a type that nobody    *)
(* builds.                                                                 *)
LEMMA AddBuild ==
  ASSUME Builds, NEW g \in Gor, stack[g] # <<>>, NEW t \in Types, t \notin open,
         NEW f, IsFrame(f), Building(f), f.t = t, f.op = Last(stack[g]).op,
         ~ Building(Last(stack[g])),
         NEW r, Changed(stack[g], f, r),
         stack' = [stack EXCEPT ![g] = r], open' = open \cup {t}
  PROVE  Builds'
<1>. DEFINE s == stack[g]
<1>1. DOMAIN stack = Gor /\ \A h \in Gor : IsStack(stack[h]) /\ Alone(stack[h])
  BY DEF Builds, Stacks
<1>2. DOMAIN stack' = Gor /\ stack'[g] = r /\ \A h \in Gor : h # g => stack'[h] = stack[h]
  BY <1>1
<1>3. PICK n : n = Len(s)
  OBVIOUS
<1>4. n \in DOMAIN s /\ ~ Building(s[n]) /\ f.op = s[n].op
  BY <1>1, <1>3, TopType
<1>5. IsStack(r) /\ DOMAIN r = DOMAIN s /\ r[n] = f /\ \A i \in DOMAIN s : i # n => r[i] = s[i]
  BY <1>1, <1>3, ChangeType
<1>6. Works(r) = Works(s) \cup {n} /\ n \notin Works(s)
  BY <1>4, <1>5 DEF Works
<1>7. \A i \in Works(s) : r[i] = s[i]
  BY <1>5, <1>6 DEF Works
<1>8. \A h \in Gor : \A i \in Works(stack[h]) : stack[h][i].t # t
  <2>1. Held
    BY DEF Builds
  <2>. QED BY <2>1 DEF Held
<1>9. Stacks'
  <2>1. Alone(r)
    BY <1>1, <1>4, <1>5 DEF Alone
  <2>. QED BY <1>1, <1>2, <1>5, <2>1 DEF Stacks
<1>. HIDE DEF s
<1>10. \A h \in Gor : \A i \in Works(stack'[h]) :
          \/ h = g /\ i = n /\ stack'[h][i].t = t
          \/ i \in Works(stack[h]) /\ stack'[h][i].t = stack[h][i].t
  <2>1. ASSUME NEW h \in Gor, NEW i \in Works(stack'[h]), h = g
        PROVE  \/ h = g /\ i = n /\ stack'[h][i].t = t
               \/ i \in Works(stack[h]) /\ stack'[h][i].t = stack[h][i].t
    BY <1>2, <1>5, <1>6, <1>7, <2>1 DEF s
  <2>2. ASSUME NEW h \in Gor, NEW i \in Works(stack'[h]), h # g
        PROVE  i \in Works(stack[h]) /\ stack'[h][i].t = stack[h][i].t
    BY <1>2, <2>2
  <2>. QED BY <2>1, <2>2
<1>11. One'
  <2>1. One
    BY DEF Builds
  <2>2. ASSUME NEW h \in Gor, NEW k \in Gor, NEW i \in Works(stack'[h]), NEW j \in Works(stack'[k]),
               stack'[h][i].t = stack'[k][j].t
        PROVE  h = k /\ i = j
    <3>1. CASE i \in Works(stack[h]) /\ stack'[h][i].t = stack[h][i].t
      <4>1. j \in Works(stack[k]) /\ stack'[k][j].t = stack[k][j].t
        BY <1>8, <1>10, <2>2, <3>1
      <4>. QED BY <2>1, <2>2, <3>1, <4>1 DEF One
    <3>2. CASE h = g /\ i = n /\ stack'[h][i].t = t
      <4>1. k = g /\ j = n
        BY <1>8, <1>10, <2>2, <3>2
      <4>. QED BY <3>2, <4>1
    <3>. QED BY <1>10, <3>1, <3>2
  <2>. QED BY <2>2 DEF One
<1>12. Held'
  <2>1. Held
    BY DEF Builds
  <2>2. ASSUME NEW u \in Types, u \in open'
        PROVE  \E h \in Gor : \E i \in Works(stack'[h]) : stack'[h][i].t = u
    <3>1. CASE u = t
      <4>1. n \in Works(stack'[g]) /\ stack'[g][n].t = t
        BY <1>2, <1>5, <1>6
      <4>. QED BY <3>1, <4>1
    <3>2. CASE u \in open
      <4>0. PICK h \in Gor : \E i \in Works(stack[h]) : stack[h][i].t = u
        BY <2>1, <3>2 DEF Held
      <4>1. PICK i \in Works(stack[h]) : stack[h][i].t = u
        BY <4>0
      <4>2. CASE h # g
        BY <1>2, <4>1, <4>2
      <4>3. CASE h = g
        <5>1. i \in Works(s) /\ s[i].t = u
          BY <4>1, <4>3 DEF s
        <5>2. i \in Works(r) /\ r[i].t = u
          BY <1>6, <1>7, <5>1
        <5>. QED BY <1>2, <5>2
      <4>. QED BY <4>2, <4>3
    <3>. QED BY <2>2, <3>1, <3>2
  <2>3. ASSUME NEW u \in Types, NEW h \in Gor, NEW i \in Works(stack'[h]), stack'[h][i].t = u
        PROVE  u \in open'
    <3>1. CASE h = g /\ i = n /\ stack'[h][i].t = t
      BY <2>3, <3>1
    <3>2. CASE i \in Works(stack[h]) /\ stack'[h][i].t = stack[h][i].t
      <4>1. u \in open
        BY <2>1, <2>3, <3>2 DEF Held
      <4>. QED BY <4>1
    <3>. QED BY <1>10, <3>1, <3>2
  <2>. QED BY <2>2, <2>3 DEF Held
<1>. QED BY <1>9, <1>11, <1>12 DEF Builds

(* The builder closes the channel as it leaves: it was the only one.       *)
LEMMA DropBuild ==
  ASSUME Builds, NEW g \in Gor, stack[g] # <<>>, Building(Last(stack[g])),
         NEW r, SameBuilds(Front(stack[g]), r),
         stack' = [stack EXCEPT ![g] = r], open' = open \ {Last(stack[g]).t}
  PROVE  Builds'
<1>. DEFINE s == stack[g]
<1>1. DOMAIN stack = Gor /\ \A h \in Gor : IsStack(stack[h]) /\ Alone(stack[h])
  BY DEF Builds, Stacks
<1>2. DOMAIN stack' = Gor /\ stack'[g] = r /\ \A h \in Gor : h # g => stack'[h] = stack[h]
  BY <1>1
<1>3. PICK n : n = Len(s)
  OBVIOUS
<1>4. PICK t : t = Last(s).t
  OBVIOUS
<1>5. n \in Works(s) /\ s[n].t = t
  <2>1. n \in DOMAIN s /\ Last(s) = s[n]
    BY <1>1, <1>3, TopType
  <2>. QED BY <1>4, <2>1 DEF Works
<1>6. IsStack(r) /\ Alone(r) /\ Works(r) = Works(s) \ {n} /\ \A i \in Works(r) : r[i].t = s[i].t
  <2>1. /\ IsStack(Front(s)) /\ Works(Front(s)) = Works(s) \ {n}
        /\ \A i \in Works(Front(s)) : Front(s)[i] = s[i]
        /\ Alone(s) => Alone(Front(s))
    BY <1>1, <1>3, PopType
  <2>. QED BY <1>1, <2>1 DEF SameBuilds
<1>7. Stacks'
  BY <1>1, <1>2, <1>6 DEF Stacks
<1>8. open' = open \ {t}
  BY <1>4
<1>. HIDE DEF s
<1>9. \A h \in Gor : \A i \in Works(stack'[h]) :
         i \in Works(stack[h]) /\ stack'[h][i].t = stack[h][i].t /\ ~ (h = g /\ i = n)
  BY <1>2, <1>6 DEF s
<1>10. \A h \in Gor : \A i \in Works(stack[h]) :
          ~ (h = g /\ i = n) => i \in Works(stack'[h]) /\ stack'[h][i].t = stack[h][i].t
  BY <1>2, <1>6 DEF s
<1>11. One
  BY DEF Builds
<1>12. One'
  BY <1>9, <1>11 DEF One
<1>13. Held'
  <2>1. Held
    BY DEF Builds
  <2>2. ASSUME NEW u \in Types, u \in open'
        PROVE  \E h \in Gor : \E i \in Works(stack'[h]) : stack'[h][i].t = u
    <3>1. u \in open /\ u # t
      BY <1>8, <2>2
    <3>0. PICK h \in Gor : \E i \in Works(stack[h]) : stack[h][i].t = u
      BY <2>1, <3>1 DEF Held
    <3>2. PICK i \in Works(stack[h]) : stack[h][i].t = u
      BY <3>0
    <3>3. ~ (h = g /\ i = n)
      BY <1>5, <3>1, <3>2 DEF s
    <3>. QED BY <1>10, <3>2, <3>3
  <2>3. ASSUME NEW u \in Types, NEW h \in Gor, NEW i \in Works(stack'[h]), stack'[h][i].t = u
        PROVE  u \in open'
    <3>1. i \in Works(stack[h]) /\ stack[h][i].t = u /\ ~ (h = g /\ i = n)
      BY <1>9, <2>3
    <3>2. u # t
      BY <1>5, <1>11, <3>1 DEF One, s
    <3>3. u \in open
      BY <2>1, <3>1 DEF Held
    <3>. QED BY <1>8, <3>2, <3>3
  <2>. QED BY <2>2, <2>3 DEF Held
<1>. QED BY <1>7, <1>12, <1>13 DEF Builds

(* The builder frame under the innermost one goes on: no build ends.       *)
LEMMA Returns ==
  ASSUME Builds, NEW g \in Gor, stack[g] # <<>>, ~ Building(Last(stack[g])),
         NEW r, SameBuilds(Front(stack[g]), r),
         stack' = [stack EXCEPT ![g] = r], open' = open
  PROVE  Builds'
<1>. DEFINE s == stack[g]
<1>1. IsStack(s)
  BY DEF Builds, Stacks
<1>2. Works(s) \ {Len(s)} = Works(s)
  <2>1. Last(s) = s[Len(s)]
    BY <1>1, TopType
  <2>. QED BY <2>1 DEF Works
<1>3. SameBuilds(s, Front(s))
  <2>1. /\ IsStack(Front(s)) /\ Works(Front(s)) = Works(s)
        /\ \A i \in Works(Front(s)) : Front(s)[i] = s[i]
        /\ Alone(s) => Alone(Front(s))
    BY <1>1, <1>2, PopType
  <2>. QED BY <2>1 DEF SameBuilds
<1>4. SameBuilds(s, r)
  BY <1>3, SameTwice
<1>. QED BY <1>4, KeepBuilds

(* The innermost frame moves on: no build starts or ends.                  *)
LEMMA Moves ==
  ASSUME Builds, NEW g \in Gor, stack[g] # <<>>,
         NEW f, IsFrame(f), f.t = Last(stack[g]).t, f.op = Last(stack[g]).op,
         Building(f) <=> Building(Last(stack[g])),
         Goto(g, f), open' = open
  PROVE  Builds'
<1>. DEFINE s == stack[g]
            r == Append(Front(s), f)
<1>1. IsStack(s)
  BY DEF Builds, Stacks
<1>2. Changed(s, f, r)
  BY DEF Changed
<1>3. stack' = [stack EXCEPT ![g] = r]
  BY DEF Goto, Under
<1>. HIDE DEF r, s
<1>4. SameBuilds(s, r)
  BY <1>1, <1>2, ChangeKeeps DEF s
<1>. QED BY <1>3, <1>4, KeepBuilds DEF s

(* A call in a call.                                                       *)
LEMMA Calls ==
  ASSUME Builds, NEW g \in Gor, stack[g] # <<>>, Last(stack[g]).op # "bind",
         NEW op \in {"uni", "part", "enc"}, NEW t \in Types,
         stack' = [stack EXCEPT ![g] = Append(@, Frame(op, t))], open' = open
  PROVE  Builds'
<1>. DEFINE s == stack[g]
            f == Frame(op, t)
<1>1. IsStack(s)
  BY DEF Builds, Stacks
<1>2. IsFrame(f) /\ ~ Building(f) /\ f.op # "bind"
  <2>1. f.op = op
    BY DEF Frame
  <2>. QED BY <2>1, NewFrame
<1>3. stack' = [stack EXCEPT ![g] = Append(s, f)]
  OBVIOUS
<1>. HIDE DEF s, f
<1>4. SameBuilds(s, Append(s, f))
  BY <1>1, <1>2, PushKeeps DEF s
<1>. QED BY <1>3, <1>4, KeepBuilds DEF s

(* The first call of a goroutine that is in none.                          *)
LEMMA Starts ==
  ASSUME Builds, NEW g \in Gor, stack[g] = <<>>,
         NEW op \in {"uni", "part", "enc"}, NEW t \in Types,
         stack' = [stack EXCEPT ![g] = <<Frame(op, t)>>], open' = open
  PROVE  Builds'
<1>. DEFINE f == Frame(op, t)
<1>1. IsFrame(f) /\ ~ Building(f)
  BY NewFrame
<1>2. stack' = [stack EXCEPT ![g] = <<f>>]
  OBVIOUS
<1>. HIDE DEF f
<1>3. SameBuilds(<<>>, <<f>>)
  BY <1>1, OneFrame, NoFrames DEF SameBuilds
<1>4. SameBuilds(stack[g], <<f>>)
  BY <1>3
<1>. QED BY <1>2, <1>4, KeepBuilds

(***************************************************************************)
(* The actions, and the builds.                                            *)
(***************************************************************************)
(* What the invariant says of the goroutine that takes a step.             *)
LEMMA TopOf ==
  ASSUME Builds, NEW g \in Gor, stack[g] # <<>>
  PROVE  /\ IsStack(stack[g]) /\ Alone(stack[g]) /\ Top(g) = Last(stack[g]) /\ IsFrame(Top(g))
         /\ Top(g).t \in Types /\ Top(g).i \in Nat \ {0}
<1>1. IsStack(stack[g]) /\ Alone(stack[g])
  BY DEF Builds, Stacks
<1>2. IsFrame(Last(stack[g]))
  BY <1>1, TopType
<1>. QED BY <1>1, <1>2 DEF Top, IsFrame

(* A returned, waited for or cached descriptor ends no build.              *)
LEMMA BuildsReturn ==
  ASSUME Builds, NEW g \in Gor, stack[g] # <<>>, ~ Building(Top(g)), Return(g), open' = open
  PROVE  Builds'
<1>1. IsStack(stack[g]) /\ Top(g) = Last(stack[g])
  BY TopOf
<1>2. SameBuilds(Front(stack[g]), Returned(g))
  BY <1>1, ReturnKeeps
<1>3. stack' = [stack EXCEPT ![g] = Returned(g)]
  BY DEF Return
<1>. QED BY <1>1, <1>2, <1>3, Returns

(* Neither does an edge of an EncTypeInfo.                                 *)
LEMMA BuildsEncReturn ==
  ASSUME Builds, NEW g \in Gor, stack[g] # <<>>, ~ Building(Top(g)), NEW o,
         stack' = [stack EXCEPT ![g] = EncReturned(g, o)], open' = open
  PROVE  Builds'
<1>1. IsStack(stack[g]) /\ Top(g) = Last(stack[g])
  BY TopOf
<1>2. SameBuilds(Front(stack[g]), EncReturned(g, o))
  BY <1>1, EncReturnKeeps
<1>. QED BY <1>1, <1>2, Returns

(* A frame that goes to another place of its operation.                    *)
LEMMA BuildsGoto ==
  ASSUME Builds, NEW g \in Gor, stack[g] # <<>>, NEW a,
         \/ Top(g).op \in {"uni", "part"} /\ a \in {"load", "wait", "store", "kids", "close"}
         \/ Top(g).op = "enc" /\ a \in {"load", "shell", "kids"}
         \/ Top(g).op = "bind" /\ a \in {"mark", "publish"},
         (Top(g).op # "enc" /\ a \in {"kids", "close"}) <=> Building(Top(g)),
         NEW f, f = [Top(g) EXCEPT !.at = a], Goto(g, f), open' = open
  PROVE  Builds'
<1>1. IsFrame(Top(g)) /\ Top(g) = Last(stack[g])
  BY TopOf
<1>. PICK p : p = Top(g)
  OBVIOUS
<1>2. IsFrame(f) /\ f.t = p.t /\ f.op = p.op /\ f.at = a
  <2>1. IsFrame(p) /\ f = [p EXCEPT !.at = a]
    BY <1>1
  <2>2. \/ p.op \in {"uni", "part"} /\ a \in {"load", "wait", "store", "kids", "close"}
        \/ p.op = "enc" /\ a \in {"load", "shell", "kids"}
        \/ p.op = "bind" /\ a \in {"mark", "publish"}
    OBVIOUS
  <2>. QED BY ONLY <2>1, <2>2, FrameAt
<1>3. Building(f) <=> Building(p)
  BY <1>2 DEF Building
<1>. QED BY <1>1, <1>2, <1>3, Moves

(* The place of a frame tells its operation.                               *)
LEMMA PlaceTells ==
  ASSUME NEW f, IsFrame(f)
  PROVE  /\ f.at \in {"wait", "store", "close"} => f.op \in {"uni", "part"}
         /\ f.at = "kids" /\ f.op # "enc" => f.op \in {"uni", "part"} /\ Building(f)
         /\ f.at = "close" => Building(f)
         /\ f.at \in {"load", "wait", "store", "shell", "mark", "publish"} => ~ Building(f)
         /\ f.op = "enc" => ~ Building(f)
BY DEF IsFrame, Building

(* Children are types.                                                     *)
LEMMA ChildType ==
  ASSUME NEW t \in Types
  PROVE  /\ Len(Child[t]) \in Nat
         /\ \A i \in Nat \ {0} : i <= Len(Child[t]) => Child[t][i] \in Types
<1>1. Child[t] \in Seq(Types)
  BY ChildAssumption
<1>. PICK c : c = Child[t]
  OBVIOUS
<1>2. c \in Seq(Types)
  BY <1>1
<1>3. Len(c) \in Nat /\ \A i \in 1 .. Len(c) : c[i] \in Types
  BY <1>2, LenProperties, ElementOfSeq
<1>4. \A i \in Nat \ {0} : i <= Len(c) => c[i] \in Types
  BY <1>3
<1>. QED BY <1>3, <1>4

(* The LoadOrStore that wins builds a type nobody was building.            *)
LEMMA BuildsStoreWin ==
  ASSUME Builds, Known, NEW g \in Gor, StoreWin(g)
  PROVE  Builds'
<1>1. /\ stack[g] # <<>> /\ Top(g).at = "store" /\ cache[Top(g).t] = "absent"
      /\ open' = open \cup {Top(g).t}
      /\ Goto(g, [Top(g) EXCEPT !.at = "kids"])
  BY DEF StoreWin
<1>2. IsFrame(Top(g)) /\ Top(g) = Last(stack[g]) /\ Top(g).t \in Types
  BY <1>1, TopOf
<1>. PICK p : p = Top(g)
  OBVIOUS
<1>3. p.op \in {"uni", "part"} /\ ~ Building(p)
  BY <1>1, <1>2, PlaceTells
<1>4. PICK f : f = [p EXCEPT !.at = "kids"]
  OBVIOUS
<1>5. IsFrame(f) /\ f.t = p.t /\ f.op = p.op /\ f.at = "kids"
  <2>1. IsFrame(p)
    BY <1>2
  <2>. QED BY ONLY <2>1, <1>3, <1>4, FrameAt
<1>6. Building(f)
  BY <1>3, <1>5 DEF Building
<1>7. PICK r : r = Append(Front(stack[g]), f)
  OBVIOUS
<1>8. Changed(stack[g], f, r) /\ stack' = [stack EXCEPT ![g] = r]
  BY <1>1, <1>4, <1>7 DEF Changed, Goto, Under
<1>9. p.t \in Types /\ p.t \notin open
  BY <1>1, <1>2 DEF Known
<1>10. PICK t \in Types : t = p.t
  BY <1>9
<1>11. f.t = t /\ t \notin open /\ open' = open \cup {t} /\ f.op = Last(stack[g]).op
  BY <1>1, <1>2, <1>5, <1>9, <1>10
<1>12. ~ Building(Last(stack[g]))
  BY <1>2, <1>3
<1>. QED BY <1>1, <1>5, <1>6, <1>8, <1>11, <1>12, AddBuild

(* The channel is closed by the only builder of the type.                  *)
LEMMA BuildsCloseDone ==
  ASSUME Builds, NEW g \in Gor, CloseDone(g)
  PROVE  Builds'
<1>1. stack[g] # <<>> /\ Top(g).at = "close" /\ open' = open \ {Top(g).t} /\ Return(g)
  BY DEF CloseDone
<1>2. IsStack(stack[g]) /\ IsFrame(Top(g)) /\ Top(g) = Last(stack[g])
  BY <1>1, TopOf
<1>3. Building(Last(stack[g]))
  BY <1>1, <1>2, PlaceTells
<1>4. SameBuilds(Front(stack[g]), Returned(g))
  BY <1>1, <1>2, ReturnKeeps
<1>5. stack' = [stack EXCEPT ![g] = Returned(g)]
  BY <1>1 DEF Return
<1>6. open' = open \ {Last(stack[g]).t}
  BY <1>1, <1>2
<1>. QED BY <1>1, <1>3, <1>4, <1>5, <1>6, DropBuild

(* No other step starts or ends the build of a pending entry: typ.         *)
LEMMA BuildsUni ==
  ASSUME Builds, NEW g \in Gor,
         \/ PartialShell(g) \/ LoadHit(g) \/ LoadPending(g) \/ LoadMiss(g) \/ Wake(g)
         \/ StoreLose(g) \/ BuildChild(g) \/ Publish(g)
  PROVE  Builds'
<1>1. stack[g] # <<>> /\ open' = open
  BY DEF PartialShell, LoadHit, LoadPending, LoadMiss, Wake, StoreLose, BuildChild, Publish,
         NeedsLoad, At, univars
<1>2. /\ IsFrame(Top(g)) /\ Top(g) = Last(stack[g]) /\ Top(g).t \in Types
      /\ Top(g).i \in Nat \ {0}
  BY <1>1, TopOf
<1>3. /\ Top(g).at \in {"wait", "store", "close"} => Top(g).op \in {"uni", "part"}
      /\ Top(g).at = "kids" /\ Top(g).op # "enc" => Top(g).op \in {"uni", "part"} /\ Building(Top(g))
      /\ Top(g).at \in {"load", "wait", "store"} => ~ Building(Top(g))
  BY <1>2, PlaceTells
<1>4. CASE Return(g) /\ Top(g).at \in {"load", "wait", "store"}
  BY <1>1, <1>3, <1>4, BuildsReturn
<1>5. ASSUME NEW a \in {"wait", "store"}, Goto(g, [Top(g) EXCEPT !.at = a]),
             Top(g).at \in {"load", "store"}, Top(g).op \in {"uni", "part"}
      PROVE  Builds'
  <2>1. PICK f : f = [Top(g) EXCEPT !.at = a]
    OBVIOUS
  <2>2. Goto(g, f)
    BY <1>5, <2>1
  <2>. QED BY <1>1, <1>3, <1>5, <2>1, <2>2, BuildsGoto
<1>6. CASE PartialShell(g) \/ LoadHit(g) \/ Wake(g)
  BY <1>4, <1>6 DEF PartialShell, LoadHit, Wake, NeedsLoad, At
<1>7. CASE LoadPending(g)
  BY <1>5, <1>7 DEF LoadPending, NeedsLoad, At
<1>8. CASE LoadMiss(g)
  BY <1>5, <1>8 DEF LoadMiss, NeedsLoad, At
<1>9. CASE StoreLose(g)
  <2>1. CASE cache[Top(g).t] = "done"
    BY <1>4, <1>9, <2>1 DEF StoreLose
  <2>2. CASE cache[Top(g).t] # "done"
    BY <1>3, <1>5, <1>9, <2>2 DEF StoreLose
  <2>. QED BY <2>1, <2>2
<1>10. CASE BuildChild(g)
  <2>1. Child[Top(g).t][Top(g).i] \in Types
    BY <1>2, <1>10, ChildType DEF BuildChild
  <2>2. PICK t \in Types : t = Child[Top(g).t][Top(g).i]
    BY <2>1
  <2>3. stack' = [stack EXCEPT ![g] = Append(@, Frame("part", t))] /\ Last(stack[g]).op # "bind"
    BY <1>2, <1>3, <1>10, <2>2 DEF BuildChild
  <2>. QED BY <1>1, <2>3, Calls
<1>11. CASE Publish(g)
  <2>1. Top(g).op \in {"uni", "part"} /\ Building(Top(g))
    BY <1>3, <1>11 DEF Publish
  <2>2. PICK f : f = [Top(g) EXCEPT !.at = "close"]
    OBVIOUS
  <2>3. Goto(g, f)
    BY <1>11, <2>2 DEF Publish
  <2>. QED BY <1>1, <2>1, <2>2, <2>3, BuildsGoto
<1>. QED BY <1>6, <1>7, <1>8, <1>9, <1>10, <1>11

(* An EncTypeInfo frame that has its shell goes to its children.           *)
LEMMA FrameShell ==
  ASSUME NEW f, IsFrame(f), f.op = "enc", NEW n \in Nat \ {0},
         NEW h, h = [f EXCEPT !.at = "kids", !.i = n]
  PROVE  IsFrame(h) /\ h.t = f.t /\ h.op = f.op
<1>1. f = [op |-> f.op, t |-> f.t, at |-> f.at, i |-> f.i, edges |-> f.edges]
  BY DEF IsFrame
<1>2. h = [op |-> f.op, t |-> f.t, at |-> "kids", i |-> n, edges |-> f.edges]
  BY <1>1
<1>3. h.t = f.t /\ h.op = f.op /\ h.at = "kids" /\ h.i = n /\ h.edges = f.edges
  BY <1>2
<1>. QED BY <1>2, <1>3 DEF IsFrame

(* When nothing moves, nothing is built either.                            *)
LEMMA BuildsStutter ==
  ASSUME Builds, stack' = stack, open' = open
  PROVE  Builds'
BY DEF Builds, Stacks, One, Held

(* No step of an EncTypeInfo build starts or ends the build of an entry.   *)
LEMMA BuildsEnc ==
  ASSUME Builds, NEW g \in Gor,
         \/ EncHit(g) \/ EncInFlight(g) \/ EncMiss(g) \/ EncShell(g) \/ EncChild(g)
         \/ EncFilled(g) \/ EncBind(g)
  PROVE  Builds'
<1>1. stack[g] # <<>> /\ open' = open
  BY DEF EncHit, EncInFlight, EncMiss, EncShell, EncChild, EncFilled, EncBind, At, univars
<1>2. /\ IsFrame(Top(g)) /\ Top(g) = Last(stack[g]) /\ Top(g).t \in Types
      /\ Top(g).i \in Nat \ {0}
  BY <1>1, TopOf
<1>3. Top(g).op = "enc" => ~ Building(Top(g))
  BY <1>2, PlaceTells
<1>4. ASSUME NEW o, stack' = [stack EXCEPT ![g] = EncReturned(g, o)], Top(g).op = "enc"
      PROVE  Builds'
  BY <1>1, <1>3, <1>4, BuildsEncReturn
<1>5. CASE EncHit(g) \/ EncInFlight(g)
  <2>1. PICK o : stack' = [stack EXCEPT ![g] = EncReturned(g, o)]
    BY <1>5 DEF EncHit, EncInFlight
  <2>2. Top(g).op = "enc"
    BY <1>5 DEF EncHit, EncInFlight, At
  <2>. QED BY <1>4, <2>1, <2>2
<1>6. CASE EncFilled(g)
  <2>1. PICK o : stack' = [stack EXCEPT ![g] = EncReturned(g, o)]
    BY <1>6 DEF EncFilled
  <2>2. Top(g).op = "enc"
    BY <1>6 DEF EncFilled, At
  <2>. QED BY <1>4, <2>1, <2>2
<1>7. CASE EncMiss(g)
  <2>1. PICK t \in Types : t = Top(g).t
    BY <1>2
  <2>2. stack' = [stack EXCEPT ![g] = Append(@, Frame("uni", t))] /\ Last(stack[g]).op # "bind"
    BY <1>2, <1>7, <2>1 DEF EncMiss, At
  <2>. QED BY <1>1, <2>2, Calls
<1>8. CASE EncChild(g)
  <2>1. Child[Top(g).t][Top(g).i] \in Types
    BY <1>2, <1>8, ChildType DEF EncChild
  <2>2. PICK t \in Types : t = Child[Top(g).t][Top(g).i]
    BY <2>1
  <2>3. stack' = [stack EXCEPT ![g] = Append(@, Frame("enc", t))] /\ Last(stack[g]).op # "bind"
    BY <1>2, <1>8, <2>2 DEF EncChild, At
  <2>. QED BY <1>1, <2>3, Calls
<1>9. CASE EncShell(g)
  <2>1. PICK n : n = IF Top(g).t \in ext THEN 1 ELSE Len(Child[Top(g).t]) + 1
    OBVIOUS
  <2>2. n \in Nat \ {0}
    <3>1. Len(Child[Top(g).t]) \in Nat
      BY <1>2, ChildType
    <3>2. PICK m \in Nat : m = Len(Child[Top(g).t])
      BY <3>1
    <3>3. m + 1 \in Nat \ {0} /\ 1 \in Nat \ {0}
      BY ONLY m \in Nat
    <3>. QED BY <2>1, <3>2, <3>3
  <2>3. PICK p : p = Top(g)
    OBVIOUS
  <2>4. PICK f : f = [p EXCEPT !.at = "kids", !.i = n]
    OBVIOUS
  <2>5. Goto(g, f) /\ p.op = "enc"
    BY <1>9, <2>1, <2>3, <2>4 DEF EncShell, At
  <2>6. IsFrame(p)
    BY <1>2, <2>3
  <2>7. IsFrame(f) /\ f.t = p.t /\ f.op = p.op
    BY ONLY <2>2, <2>4, <2>5, <2>6, FrameShell
  <2>8. ~ Building(f) /\ ~ Building(Last(stack[g]))
    BY <1>2, <1>3, <2>3, <2>5, <2>7 DEF Building
  <2>9. f.t = Last(stack[g]).t /\ f.op = Last(stack[g]).op
    BY <1>2, <2>3, <2>7
  <2>. QED BY <1>1, <2>5, <2>7, <2>8, <2>9, Moves
<1>10. CASE EncBind(g)
  <2>1. Top(g).op = "bind" /\ Top(g).at = "mark" /\ Goto(g, [Top(g) EXCEPT !.at = "publish"])
    BY <1>10 DEF EncBind, At
  <2>2. PICK f : f = [Top(g) EXCEPT !.at = "publish"]
    OBVIOUS
  <2>3. ~ Building(Top(g)) /\ Goto(g, f)
    BY <2>1, <2>2 DEF Building
  <2>. QED BY <1>1, <2>1, <2>2, <2>3, BuildsGoto
<1>. QED BY <1>5, <1>6, <1>7, <1>8, <1>9, <1>10

(* The last publication ends the call, and by then it builds nothing.      *)
LEMMA BuildsEncPublish ==
  ASSUME Builds, NEW g \in Gor, NEW t \in Types, EncPublish(g, t)
  PROVE  Builds'
<1>1. /\ stack[g] # <<>> /\ open' = open /\ Top(g).op = "bind"
      /\ stack' = [stack EXCEPT ![g] = <<>>] \/ stack' = stack
  BY DEF EncPublish, At, univars
<1>2. CASE stack' = stack
  BY <1>1, <1>2, BuildsStutter
<1>3. CASE stack' = [stack EXCEPT ![g] = <<>>]
  <2>1. /\ IsStack(stack[g]) /\ Alone(stack[g]) /\ Top(g) = Last(stack[g])
    BY <1>1, TopOf
  <2>2. Last(stack[g]) = stack[g][Len(stack[g])] /\ Len(stack[g]) \in DOMAIN stack[g]
    BY <1>1, <2>1, TopType
  <2>3. DOMAIN stack[g] = {1} /\ Len(stack[g]) = 1 /\ stack[g][1].op = "bind"
    BY <1>1, <2>1, <2>2 DEF Alone
  <2>4. ~ Building(stack[g][1])
    <3>1. IsFrame(stack[g][1])
      BY <2>1, <2>3 DEF IsStack
    <3>. QED BY <2>3, <3>1 DEF IsFrame, Building
  <2>5. Works(stack[g]) = {}
    BY <2>3, <2>4 DEF Works
  <2>6. SameBuilds(stack[g], <<>>)
    BY <2>5, NoFrames DEF SameBuilds
  <2>. QED BY <1>1, <1>3, <2>6, KeepBuilds
<1>. QED BY <1>1, <1>2, <1>3

(* Nor do the calls themselves.                                            *)
LEMMA BuildsCall ==
  ASSUME Builds, NEW g \in Gor, NEW t \in Types, UniTypeOf(g, t) \/ EncTypeInfoOf(g, t)
  PROVE  Builds'
<1>1. CASE UniTypeOf(g, t)
  BY <1>1, Starts DEF UniTypeOf
<1>2. CASE EncTypeInfoOf(g, t)
  BY <1>2, Starts DEF EncTypeInfoOf, univars
<1>. QED BY <1>1, <1>2

(***************************************************************************)
(* The rest of the invariant.                                              *)
(***************************************************************************)
(* The cache, the channels and the counters.                               *)
LEMMA KnownStep ==
  ASSUME Builds, Known, NEW g \in Gor, Step(g) \/ Call(g)
  PROVE  Known'
<1>1. CASE UNCHANGED <<cache, open, ext, flag>>
  BY <1>1 DEF Known
<1>2. CASE StoreWin(g)
  <2>1. Top(g).t \in Types
    BY <1>2, TopOf DEF StoreWin
  <2>. QED BY <1>2, <2>1 DEF StoreWin, Known
<1>3. CASE Publish(g)
  <2>1. Top(g).t \in Types
    BY <1>3, TopOf DEF Publish
  <2>2. flag' \subseteq Quoted
    BY <1>3 DEF Publish, Known, KeepsQuoted
  <2>. QED BY <1>3, <2>1, <2>2 DEF Publish, Known
<1>4. CASE CloseDone(g)
  BY <1>4 DEF CloseDone, Known
<1>5. CASE \/ PartialShell(g) \/ LoadHit(g) \/ LoadPending(g) \/ LoadMiss(g) \/ Wake(g)
           \/ StoreLose(g) \/ BuildChild(g)
  BY <1>1, <1>5 DEF PartialShell, LoadHit, LoadPending, LoadMiss, Wake, StoreLose, BuildChild, univars
<1>6. CASE \/ EncHit(g) \/ EncInFlight(g) \/ EncMiss(g) \/ EncShell(g) \/ EncChild(g)
           \/ EncFilled(g) \/ EncBind(g) \/ \E t \in Types : EncPublish(g, t)
  BY <1>1, <1>6 DEF EncHit, EncInFlight, EncMiss, EncShell, EncChild, EncFilled, EncBind,
                    EncPublish, univars
<1>7. CASE Call(g)
  BY <1>1, <1>7 DEF Call, UniTypeOf, EncTypeInfoOf, univars
<1>. QED BY <1>2, <1>3, <1>4, <1>5, <1>6, <1>7 DEF Step

(* In-flight shells and calls stay what they are.                          *)
LEMMA CountedStep ==
  ASSUME Builds, Counted, NEW g \in Gor, Step(g) \/ Call(g)
  PROVE  Counted'
<1>1. CASE UNCHANGED <<building, calls>>
  BY <1>1 DEF Counted
<1>2. CASE StoreWin(g)
  <2>1. Top(g).t \in Types
    BY <1>2, TopOf DEF StoreWin
  <2>. QED BY <1>2, <2>1 DEF StoreWin, Counted
<1>3. CASE EncMiss(g)
  BY <1>3 DEF EncMiss, Counted
<1>4. CASE Call(g)
  <2>1. MaxCalls \in Nat
    BY ChildAssumption
  <2>2. calls[g] \in 0 .. MaxCalls /\ calls[g] < MaxCalls /\ calls' = [calls EXCEPT ![g] = @ + 1]
    BY <1>4 DEF Call, UniTypeOf, EncTypeInfoOf, Counted
  <2>3. calls[g] + 1 \in 0 .. MaxCalls
    BY <2>1, <2>2
  <2>4. calls' \in [Gor -> 0 .. MaxCalls]
    BY <2>2, <2>3 DEF Counted
  <2>5. building' \in [Gor -> SUBSET Types]
    BY <1>4 DEF Call, UniTypeOf, EncTypeInfoOf, Counted, univars
  <2>. QED BY <2>4, <2>5 DEF Counted
<1>5. CASE \/ PartialShell(g) \/ LoadHit(g) \/ LoadPending(g) \/ LoadMiss(g) \/ Wake(g)
           \/ StoreLose(g) \/ BuildChild(g) \/ Publish(g) \/ CloseDone(g)
  BY <1>1, <1>5 DEF PartialShell, LoadHit, LoadPending, LoadMiss, Wake, StoreLose, BuildChild,
                    Publish, CloseDone, univars
<1>6. CASE \/ EncHit(g) \/ EncInFlight(g) \/ EncShell(g) \/ EncChild(g)
           \/ EncFilled(g) \/ EncBind(g) \/ \E t \in Types : EncPublish(g, t)
  BY <1>1, <1>6 DEF EncHit, EncInFlight, EncShell, EncChild, EncFilled, EncBind,
                    EncPublish, univars
<1>. QED BY <1>2, <1>3, <1>4, <1>5, <1>6 DEF Step

(* Objects are made before they are registered, and never unmade.          *)
LEMMA OwnedStep ==
  ASSUME Builds, Owned, NEW g \in Gor, Step(g) \/ Call(g)
  PROVE  Owned'
<1>1. CASE UNCHANGED encvars
  BY <1>1 DEF Owned, encvars
<1>2. CASE Call(g)
  <2>1. CASE \E t \in Roots : UniTypeOf(g, t)
    BY <1>1, <2>1 DEF UniTypeOf
  <2>2. CASE \E t \in Roots : EncTypeInfoOf(g, t)
    <3>1. local' = [local EXCEPT ![g] = <<>>] /\ einfo' = einfo /\ epub' = epub
      BY <2>2 DEF EncTypeInfoOf
    <3>2. DOMAIN local' = Gor /\ \A h \in Gor : local'[h] = IF h = g THEN <<>> ELSE local[h]
      BY <3>1 DEF Owned
    <3>3. DOMAIN <<>> = {}
      OBVIOUS
    <3>. QED BY <3>1, <3>2, <3>3 DEF Owned
  <2>. QED BY <1>2, <2>1, <2>2 DEF Call
<1>3. CASE EncShell(g)
  <2>1. PICK t : t = Top(g).t
    OBVIOUS
  <2>2. PICK o : o = Obj(g, t)
    OBVIOUS
  <2>3. PICK e : e = [edges |-> <<>>, addr |-> FALSE, bound |-> FALSE]
    OBVIOUS
  <2>4. local' = [local EXCEPT ![g] = With(@, t, o)] /\ einfo' = With(einfo, o, e) /\ epub' = epub
    BY <1>3, <2>1, <2>2, <2>3 DEF EncShell
  <2>5. DOMAIN einfo' = DOMAIN einfo \cup {o}
    BY <2>4 DEF With
  <2>6. /\ DOMAIN local' = Gor /\ local'[g] = With(local[g], t, o)
        /\ \A h \in Gor : h # g => local'[h] = local[h]
    BY <2>4 DEF Owned
  <2>7. /\ DOMAIN local'[g] = DOMAIN local[g] \cup {t}
        /\ \A u \in DOMAIN local'[g] : local'[g][u] = IF u = t THEN o ELSE local[g][u]
    BY <2>6 DEF With
  <2>8. \A h \in Gor : \A u \in DOMAIN local'[h] : local'[h][u] \in DOMAIN einfo'
    BY <2>5, <2>6, <2>7 DEF Owned
  <2>9. \A u \in Types : epub'[u] = NoObj \/ epub'[u] \in DOMAIN einfo'
    BY <2>4, <2>5 DEF Owned
  <2>. QED BY <2>4, <2>6, <2>8, <2>9 DEF Owned
<1>4. CASE EncFilled(g) \/ EncBind(g)
  <2>1. DOMAIN einfo' = DOMAIN einfo /\ local' = local /\ epub' = epub
    BY <1>4 DEF EncFilled, EncBind
  <2>. QED BY <2>1 DEF Owned
<1>5. ASSUME NEW t \in Types, EncPublish(g, t)
      PROVE  Owned'
  <2>1. PICK rest : rest = [u \in DOMAIN local[g] \ {t} |-> local[g][u]]
    OBVIOUS
  <2>2. /\ t \in DOMAIN local[g] /\ einfo' = einfo
        /\ epub' = [epub EXCEPT ![t] = IF @ = NoObj THEN local[g][t] ELSE @]
        /\ local' = [local EXCEPT ![g] = rest]
    BY <1>5, <2>1 DEF EncPublish
  <2>3. local[g][t] \in DOMAIN einfo
    BY <2>2 DEF Owned
  <2>4. /\ DOMAIN local' = Gor /\ local'[g] = rest
        /\ \A h \in Gor : h # g => local'[h] = local[h]
    BY <2>2 DEF Owned
  <2>5. \A u \in DOMAIN rest : u \in DOMAIN local[g] /\ rest[u] = local[g][u]
    BY <2>1
  <2>6. \A h \in Gor : \A u \in DOMAIN local'[h] : local'[h][u] \in DOMAIN einfo
    BY <2>4, <2>5 DEF Owned
  <2>7. DOMAIN epub' = Types /\ \A u \in Types : epub'[u] = NoObj \/ epub'[u] \in DOMAIN einfo
    BY <2>2, <2>3 DEF Owned
  <2>. QED BY <2>2, <2>4, <2>6, <2>7 DEF Owned
<1>6. CASE \/ PartialShell(g) \/ LoadHit(g) \/ LoadPending(g) \/ LoadMiss(g) \/ Wake(g)
           \/ StoreWin(g) \/ StoreLose(g) \/ BuildChild(g) \/ Publish(g) \/ CloseDone(g)
  BY <1>1, <1>6 DEF PartialShell, LoadHit, LoadPending, LoadMiss, Wake, StoreWin, StoreLose,
                    BuildChild, Publish, CloseDone
<1>7. CASE EncHit(g) \/ EncInFlight(g) \/ EncMiss(g) \/ EncChild(g)
  BY <1>1, <1>7 DEF EncHit, EncInFlight, EncMiss, EncChild
<1>. QED BY <1>2, <1>3, <1>4, <1>5, <1>6, <1>7 DEF Step

(***************************************************************************)
(* The theorem.                                                            *)
(***************************************************************************)
(* Nothing is built at first.                                              *)
LEMMA Initially == Init => IInv
<1>. SUFFICES ASSUME Init PROVE IInv
  OBVIOUS
<1>1. Stacks
  BY NoFrames DEF Init, Stacks
<1>2. \A g \in Gor : Works(stack[g]) = {}
  BY NoFrames DEF Init
<1>3. One
  BY <1>2 DEF One
<1>4. Held
  BY <1>2 DEF Held, Init
<1>5. Known
  BY DEF Init, Known
<1>6. Counted
  BY ChildAssumption DEF Init, Counted
<1>7. Owned
  BY DEF Init, Owned
<1>. QED BY <1>1, <1>3, <1>4, <1>5, <1>6, <1>7 DEF IInv, Builds

(* Every step keeps the invariant.                                         *)
LEMMA Inductive == IInv /\ [Next]_vars => IInv'
<1>. SUFFICES ASSUME IInv, [Next]_vars PROVE IInv'
  OBVIOUS
<1>1. CASE UNCHANGED vars
  BY <1>1 DEF vars, IInv, Builds, Stacks, One, Held, Known, Counted, Owned
<1>2. ASSUME NEW g \in Gor, Step(g) \/ Call(g)
      PROVE  IInv'
  <2>1. Builds /\ Known /\ Counted /\ Owned
    BY DEF IInv
  <2>2. Builds'
    <3>1. CASE Step(g)
      BY <2>1, <3>1, BuildsStoreWin, BuildsCloseDone, BuildsUni, BuildsEnc, BuildsEncPublish DEF Step
    <3>2. CASE Call(g)
      <4>1. PICK t \in Roots : UniTypeOf(g, t) \/ EncTypeInfoOf(g, t)
        BY <3>2 DEF Call
      <4>2. t \in Types
        BY ChildAssumption
      <4>. QED BY <2>1, <4>1, <4>2, BuildsCall
    <3>. QED BY <1>2, <3>1, <3>2
  <2>3. Known' /\ Counted' /\ Owned'
    BY <1>2, <2>1, KnownStep, CountedStep, OwnedStep
  <2>. QED BY <2>2, <2>3 DEF IInv
<1>. QED BY <1>1, <1>2 DEF Next

(* The invariant says that each pending entry has its builder.             *)
LEMMA OneBuilder == IInv => TypeOK /\ PendingHasBuilder
<1>. SUFFICES ASSUME IInv PROVE TypeOK /\ PendingHasBuilder
  OBVIOUS
<1>1. TypeOK
  <2>1. \A g \in Gor : \A i \in DOMAIN stack[g] : stack[g][i].t \in Types
    BY DEF IInv, Builds, Stacks, IsStack, IsFrame
  <2>2. \A g \in Gor : building[g] \subseteq Types /\ calls[g] \in 0 .. MaxCalls
    BY DEF IInv, Counted
  <2>. QED BY <2>1, <2>2 DEF IInv, Known, Owned, TypeOK
<1>2. ASSUME NEW t \in open
      PROVE  Cardinality({g \in Gor : \E i \in DOMAIN stack[g] :
               stack[g][i].t = t /\ stack[g][i].op # "enc" /\ stack[g][i].at \in {"kids", "close"}}) = 1
  <2>. DEFINE S == {g \in Gor : \E i \in DOMAIN stack[g] :
               stack[g][i].t = t /\ stack[g][i].op # "enc" /\ stack[g][i].at \in {"kids", "close"}}
  <2>1. t \in Types
    BY <1>2 DEF IInv, Known
  <2>2. \A g \in Gor : g \in S <=> \E i \in Works(stack[g]) : stack[g][i].t = t
    BY DEF Works, Building
  <2>3. PICK g \in Gor : \E i \in Works(stack[g]) : stack[g][i].t = t
    BY <1>2, <2>1 DEF IInv, Builds, Held
  <2>4. \A h \in Gor : (\E i \in Works(stack[h]) : stack[h][i].t = t) => h = g
    BY <2>3 DEF IInv, Builds, One
  <2>5. S = {g}
    BY <2>2, <2>3, <2>4
  <2>. HIDE DEF S
  <2>6. Cardinality(S) = 1
    BY <2>5, FS_Singleton
  <2>. QED BY <2>6 DEF S
<1>. QED BY <1>1, <1>2 DEF PendingHasBuilder

(* Only EncPublish writes the cache of EncTypeInfos, and the first object  *)
(* of a type stays.                                                        *)
LEMMA FirstStays ==
  IInv /\ [Next]_vars => [\A t \in Types : epub[t] # NoObj => epub'[t] = epub[t]]_vars
<1>. SUFFICES ASSUME IInv, Next
              PROVE  \A t \in Types : epub[t] # NoObj => epub'[t] = epub[t]
  OBVIOUS
<1>1. PICK g \in Gor : Step(g) \/ Call(g)
  BY DEF Next
<1>2. CASE epub' = epub
  BY <1>2
<1>3. ASSUME NEW u \in Types, EncPublish(g, u)
      PROVE  \A t \in Types : epub[t] # NoObj => epub'[t] = epub[t]
  BY <1>3 DEF EncPublish, IInv, Owned
<1>4. CASE \/ PartialShell(g) \/ LoadHit(g) \/ LoadPending(g) \/ LoadMiss(g) \/ Wake(g)
           \/ StoreWin(g) \/ StoreLose(g) \/ BuildChild(g) \/ Publish(g) \/ CloseDone(g)
  BY <1>2, <1>4 DEF PartialShell, LoadHit, LoadPending, LoadMiss, Wake, StoreWin, StoreLose,
                    BuildChild, Publish, CloseDone, encvars
<1>5. CASE \/ EncHit(g) \/ EncInFlight(g) \/ EncMiss(g) \/ EncChild(g) \/ EncShell(g)
           \/ EncFilled(g) \/ EncBind(g) \/ Call(g)
  BY <1>2, <1>5 DEF EncHit, EncInFlight, EncMiss, EncChild, EncShell, EncFilled, EncBind,
                    Call, UniTypeOf, EncTypeInfoOf, encvars
<1>. QED BY <1>1, <1>3, <1>4, <1>5 DEF Step

(* The inductive invariant holds in every state of every behaviour.        *)
LEMMA Invariance == Spec => []IInv
  BY Initially, Inductive, PTL DEF Spec

(***************************************************************************)
(* EncTypeInfo builds: what is published is whole.                         *)
(***************************************************************************)
Loaded == {t \in Types : cache[t] # "absent"}
Bound == {o \in DOMAIN einfo : einfo[o].bound}

(* What may be an edge while g builds: a bound object, or one of its own.  *)
Good(g) == Bound \cup Range(local[g])

(* e are the edges to the first n children of t, all in S.                 *)
EdgesTo(e, t, n, S) ==
  e \in Seq(S) /\ Len(e) = n /\ \A k \in 1 .. n : e[k][3] = Child[t][k]
AllEdges(e, t, S) == EdgesTo(e, t, Len(Child[t]), S)

(* What a frame knows at its place: K are the types in the cache, X those  *)
(* with their Ext, L those g has an object of, S the edges it may take.    *)
Ready(K, X, L, S, f) ==
  /\ f.op \in {"uni", "part"} =>
       (f.at = "wait" => f.t \in K) /\ (f.at = "close" => f.t \in X)
  /\ f.op = "enc" =>
       /\ f.at \in {"load", "shell"} => f.edges = <<>>
       /\ f.at = "shell" => f.t \in X /\ f.t \notin L
       /\ f.at = "kids" => f.t \in L /\ f.i <= Len(Child[f.t]) + 1 /\ EdgesTo(f.edges, f.t, f.i - 1, S)

(* Frame f waits for frame h.                                              *)
Calling(L, f, h) ==
  \/ f.op = "enc" /\ h.op = "enc" /\ f.at = "kids" /\ f.i <= Len(Child[f.t]) /\ h.t = Child[f.t][f.i]
  \/ f.op = "enc" /\ h.op = "uni" /\ f.at = "load" /\ h.t = f.t /\ f.t \notin L
  \/ f.op \in {"uni", "part"} /\ h.op = "part"

Tower(K, X, L, S, s) ==
  /\ \A i \in DOMAIN s : Ready(K, X, L, S, s[i])
  /\ \A i, j \in DOMAIN s : j = i + 1 => Calling(L, s[i], s[j])
  /\ \A i, j \in DOMAIN s : i < j /\ s[j].op = "enc" => s[i].op = "enc" /\ s[i].at = "kids"
  /\ s # <<>> => s[1].op \in {"uni", "enc", "bind"}

(* A sequence over a set is one over a larger set.                         *)
LEMMA SeqGrows ==
  ASSUME NEW S, NEW R, S \subseteq R, NEW e \in Seq(S)
  PROVE  e \in Seq(R)
<1>1. Len(e) \in Nat /\ e = [k \in 1 .. Len(e) |-> e[k]] /\ \A k \in 1 .. Len(e) : e[k] \in S
  BY LenProperties, ElementOfSeq
<1>2. \A k \in 1 .. Len(e) : e[k] \in R
  BY <1>1
<1>3. [k \in 1 .. Len(e) |-> e[k]] \in Seq(R)
  BY <1>1, <1>2, IsASeq
<1>. QED BY <1>1, <1>3

(* Edges into a set are edges into a larger one.                           *)
LEMMA EdgesGrow ==
  ASSUME NEW e, NEW t, NEW n, NEW S, NEW R, S \subseteq R, EdgesTo(e, t, n, S)
  PROVE  EdgesTo(e, t, n, R)
BY SeqGrows DEF EdgesTo

(* No edges yet.                                                           *)
LEMMA EdgesNone ==
  ASSUME NEW t, NEW S
  PROVE  EdgesTo(<<>>, t, 0, S)
BY DEF EdgesTo

(* The edge to the next child.                                             *)
LEMMA EdgesNext ==
  ASSUME NEW e, NEW t, NEW n \in Nat, NEW S, EdgesTo(e, t, n, S),
         NEW o \in S, o[3] = Child[t][n + 1]
  PROVE  EdgesTo(Append(e, o), t, n + 1, S)
<1>1. e \in Seq(S) /\ Len(e) = n
  BY DEF EdgesTo
<1>2. /\ Append(e, o) \in Seq(S) /\ Len(Append(e, o)) = n + 1
      /\ \A k \in 1 .. n : Append(e, o)[k] = e[k]
      /\ Append(e, o)[n + 1] = o
  BY <1>1, AppendProperties
<1>3. \A k \in 1 .. n + 1 : k \in 1 .. n \/ k = n + 1
  OBVIOUS
<1>. QED BY <1>2, <1>3 DEF EdgesTo

(* A tower stands while what it rests on grows.                            *)
LEMMA TowerGrows ==
  ASSUME NEW K, NEW X, NEW L, NEW S, NEW s, Tower(K, X, L, S, s),
         NEW K2, K \subseteq K2, NEW X2, X \subseteq X2, NEW S2, S \subseteq S2
  PROVE  Tower(K2, X2, L, S2, s)
<1>1. ASSUME NEW i \in DOMAIN s
      PROVE  Ready(K2, X2, L, S2, s[i])
  <2>1. Ready(K, X, L, S, s[i])
    BY <1>1 DEF Tower
  <2>2. EdgesTo(s[i].edges, s[i].t, s[i].i - 1, S) => EdgesTo(s[i].edges, s[i].t, s[i].i - 1, S2)
    BY EdgesGrow
  <2>. QED BY <2>1, <2>2 DEF Ready
<1>. QED BY <1>1 DEF Tower

(* A frame on top of a tower.                                              *)
LEMMA TowerPush ==
  ASSUME NEW K, NEW X, NEW L, NEW S, NEW s, IsStack(s), Tower(K, X, L, S, s),
         NEW f, IsFrame(f), Ready(K, X, L, S, f),
         s = <<>> => f.op \in {"uni", "enc", "bind"},
         s # <<>> => Calling(L, Last(s), f),
         f.op = "enc" => \A i \in DOMAIN s : s[i].op = "enc" /\ s[i].at = "kids",
         NEW r, r = Append(s, f)
  PROVE  Tower(K, X, L, S, r)
<1>1. /\ Len(s) \in Nat /\ DOMAIN s = 1 .. Len(s) /\ IsStack(r) /\ DOMAIN r = 1 .. Len(s) + 1
      /\ \A i \in 1 .. Len(s) : r[i] = s[i]
      /\ r[Len(s) + 1] = f
  BY StackType, PushType
<1>. PICK n \in Nat : n = Len(s)
  BY <1>1
<1>2. DOMAIN s = 1 .. n /\ DOMAIN r = 1 .. n + 1 /\ (\A i \in 1 .. n : r[i] = s[i]) /\ r[n + 1] = f
  BY <1>1
<1>3. \A i \in 1 .. n + 1 : i \in 1 .. n \/ i = n + 1
  OBVIOUS
<1>4. s # <<>> => n > 0 /\ Last(s) = s[n]
  BY TopType
<1>5. s = <<>> => n = 0
  <2>1. s = <<>> => Len(s) = 0
    OBVIOUS
  <2>. QED BY <2>1
<1>6. \A i \in DOMAIN r : Ready(K, X, L, S, r[i])
  BY <1>2, <1>3 DEF Tower
<1>7. ASSUME NEW i \in DOMAIN r, NEW j \in DOMAIN r, j = i + 1
      PROVE  Calling(L, r[i], r[j])
  <2>1. CASE j \in 1 .. n
    <3>1. i \in 1 .. n
      BY <1>2, <1>7, <2>1
    <3>. QED BY <1>2, <1>7, <2>1, <3>1 DEF Tower
  <2>2. CASE j = n + 1
    <3>1. i = n /\ i \in 1 .. n /\ s # <<>>
      BY <1>2, <1>5, <1>7, <2>2
    <3>. QED BY <1>2, <1>4, <2>2, <3>1
  <2>. QED BY <1>2, <1>3, <2>1, <2>2
<1>8. ASSUME NEW i \in DOMAIN r, NEW j \in DOMAIN r, i < j, r[j].op = "enc"
      PROVE  r[i].op = "enc" /\ r[i].at = "kids"
  <2>1. i \in 1 .. n
    BY <1>2, <1>8
  <2>2. CASE j \in 1 .. n
    BY <1>2, <1>8, <2>1, <2>2 DEF Tower
  <2>3. CASE j = n + 1
    BY <1>2, <1>8, <2>1, <2>3
  <2>. QED BY <1>2, <1>3, <2>2, <2>3
<1>9. r[1].op \in {"uni", "enc", "bind"}
  <2>1. CASE s = <<>>
    BY <1>2, <1>5, <2>1
  <2>2. CASE s # <<>>
    BY <1>2, <1>4, <2>2 DEF Tower
  <2>. QED BY <2>1, <2>2
<1>. QED BY <1>6, <1>7, <1>8, <1>9 DEF Tower

(* A tower without its top.                                                *)
LEMMA TowerPop ==
  ASSUME NEW K, NEW X, NEW L, NEW S, NEW s, IsStack(s), s # <<>>, Tower(K, X, L, S, s)
  PROVE  /\ Tower(K, X, L, S, Front(s)) /\ Ready(K, X, L, S, Last(s))
         /\ Front(s) = <<>> => Last(s) = s[1] /\ Last(s).op \in {"uni", "enc", "bind"}
         /\ Front(s) # <<>> => Calling(L, Last(Front(s)), Last(s)) /\ Front(s)[1] = s[1]
         /\ Last(s).op = "enc" => \A i \in DOMAIN Front(s) : Front(s)[i].op = "enc" /\ Front(s)[i].at = "kids"
<1>. DEFINE q == Front(s)
<1>1. /\ Len(s) \in Nat \ {0} /\ Len(s) \in DOMAIN s /\ DOMAIN s = 1 .. Len(s)
      /\ Last(s) = s[Len(s)] /\ IsStack(q) /\ DOMAIN q = 1 .. Len(s) - 1 /\ Len(q) = Len(s) - 1
      /\ \A i \in 1 .. Len(s) - 1 : q[i] = s[i]
  BY TopType, StackType
<1>. HIDE DEF q
<1>0. \A k \in Nat \ {0} : k - 1 \in Nat /\ k = (k - 1) + 1
  OBVIOUS
<1>. PICK n \in Nat : Len(s) = n + 1
  BY <1>0, <1>1
<1>2. /\ DOMAIN s = 1 .. n + 1 /\ DOMAIN q = 1 .. n /\ Last(s) = s[n + 1] /\ Len(q) = n
      /\ \A i \in 1 .. n : q[i] = s[i]
  BY <1>1
<1>3. q # <<>> => n > 0 /\ Last(q) = q[n] /\ q[1] = s[1]
  <2>1. q # <<>> => Len(q) \in Nat \ {0} /\ Last(q) = q[Len(q)]
    BY <1>1, TopType
  <2>. QED BY <1>2, <2>1
<1>4. q = <<>> => n = 0
  <2>1. q = <<>> => Len(q) = 0
    OBVIOUS
  <2>. QED BY <1>2, <2>1
<1>5. \A i \in 1 .. n : i \in 1 .. n + 1 /\ i < n + 1
  OBVIOUS
<1>6. \A i \in DOMAIN q : Ready(K, X, L, S, q[i])
  BY <1>2, <1>5 DEF Tower
<1>7. \A i, j \in DOMAIN q : j = i + 1 => Calling(L, q[i], q[j])
  BY <1>2, <1>5 DEF Tower
<1>8. \A i, j \in DOMAIN q : i < j /\ q[j].op = "enc" => q[i].op = "enc" /\ q[i].at = "kids"
  BY <1>2, <1>5 DEF Tower
<1>9. q # <<>> => q[1].op \in {"uni", "enc", "bind"}
  BY <1>3 DEF Tower
<1>10. Tower(K, X, L, S, q)
  BY <1>6, <1>7, <1>8, <1>9 DEF Tower
<1>11. n + 1 \in DOMAIN s
  BY <1>2
<1>12. Ready(K, X, L, S, Last(s))
  BY <1>2, <1>11 DEF Tower
<1>13. q = <<>> => Last(s) = s[1] /\ Last(s).op \in {"uni", "enc", "bind"}
  BY <1>2, <1>4 DEF Tower
<1>14. q # <<>> => Calling(L, Last(q), Last(s))
  <2>. SUFFICES ASSUME q # <<>> PROVE Calling(L, Last(q), Last(s))
    OBVIOUS
  <2>1. n \in DOMAIN s /\ Last(q) = s[n]
    BY <1>2, <1>3, <1>5
  <2>2. \A i, j \in DOMAIN s : j = i + 1 => Calling(L, s[i], s[j])
    BY DEF Tower
  <2>3. Calling(L, s[n], s[n + 1])
    BY <1>11, <2>1, <2>2
  <2>. QED BY <1>2, <2>1, <2>3
<1>15. Last(s).op = "enc" => \A i \in DOMAIN q : q[i].op = "enc" /\ q[i].at = "kids"
  BY <1>2, <1>5, <1>11 DEF Tower
<1>. QED BY <1>3, <1>10, <1>12, <1>13, <1>14, <1>15 DEF q

(* The top replaced by a frame of the same call.                           *)
LEMMA TowerChange ==
  ASSUME NEW K, NEW X, NEW L, NEW S, NEW s, IsStack(s), s # <<>>, Tower(K, X, L, S, s),
         NEW f, IsFrame(f), f.op = Last(s).op, f.t = Last(s).t,
         NEW K2, K \subseteq K2, NEW X2, X \subseteq X2, NEW S2, S \subseteq S2,
         Ready(K2, X2, L, S2, f),
         NEW r, Changed(s, f, r)
  PROVE  Tower(K2, X2, L, S2, r)
<1>. DEFINE q == Front(s)
<1>1. /\ Tower(K, X, L, S, q)
      /\ q = <<>> => Last(s).op \in {"uni", "enc", "bind"}
      /\ q # <<>> => Calling(L, Last(q), Last(s))
      /\ Last(s).op = "enc" => \A i \in DOMAIN q : q[i].op = "enc" /\ q[i].at = "kids"
  BY TowerPop
<1>2. IsStack(q) /\ r = Append(q, f)
  BY TopType DEF Changed
<1>. HIDE DEF q
<1>3. Tower(K2, X2, L, S2, q)
  BY <1>1, TowerGrows
<1>4. q # <<>> => Calling(L, Last(q), f)
  BY <1>1 DEF Calling
<1>5. /\ q = <<>> => f.op \in {"uni", "enc", "bind"}
      /\ f.op = "enc" => \A i \in DOMAIN q : q[i].op = "enc" /\ q[i].at = "kids"
  BY <1>1
<1>. QED BY ONLY <1>2, <1>3, <1>4, <1>5, IsFrame(f), Ready(K2, X2, L, S2, f), TowerPush

(* While g builds, its objects are unbound: a frame still gathers the edges,*)
(* or they are all there.  Before and after there are none but bound ones. *)
Making(s) == s # <<>> /\ (s[1].op = "enc" \/ s[1].at = "mark")
Plain(s) == s = <<>> \/ s[1].op = "uni"
InHand(s, t) == \E i \in DOMAIN s : s[i].op = "enc" /\ s[i].at = "kids" /\ s[i].t = t

Mine(g) == \A t \in DOMAIN local[g] : t \in Types /\ local[g][t] = Obj(g, t) /\ Obj(g, t) \in DOMAIN einfo
Open(g) ==
  Making(stack[g]) => \A t \in DOMAIN local[g] :
    /\ ~einfo[Obj(g, t)].bound
    /\ InHand(stack[g], t) \/ AllEdges(einfo[Obj(g, t)].edges, t, Good(g))
Closed(g) == ~Making(stack[g]) => \A t \in DOMAIN local[g] : einfo[Obj(g, t)].bound
Registered(g) ==
  stack[g] # <<>> /\ stack[g][1].op = "enc" =>
    \A t \in Types : Obj(g, t) \in DOMAIN einfo => t \in DOMAIN local[g]
Empty(g) == Plain(stack[g]) => DOMAIN local[g] = {}

Going(g) ==
  /\ Tower(Loaded, ext, DOMAIN local[g], Good(g), stack[g])
  /\ Mine(g) /\ Open(g) /\ Closed(g) /\ Registered(g) /\ Empty(g)

(* r comes after s in a build with objects of the types L.                 *)
Follows(L, s, r) ==
  /\ Making(r) <=> Making(s)
  /\ Plain(r) => Plain(s) \/ L = {}
  /\ r # <<>> /\ r[1].op = "enc" => s # <<>> /\ s[1].op = "enc"
  /\ \A t \in L : InHand(s, t) => InHand(r, t)

(* Two steps of a build after each other.                                  *)
LEMMA FollowsTwice ==
  ASSUME NEW L, NEW s, NEW u, NEW r, Follows(L, s, u), Follows(L, u, r)
  PROVE  Follows(L, s, r)
BY DEF Follows

(* Another place of the same call.                                         *)
LEMMA ChangeFollows ==
  ASSUME NEW L, NEW s, IsStack(s), s # <<>>, NEW f, IsFrame(f), f.op = Last(s).op, f.t = Last(s).t,
         f.op # "bind", f.op = "enc" /\ Last(s).at = "kids" => f.at = "kids",
         NEW r, Changed(s, f, r)
  PROVE  Follows(L, s, r)
<1>1. /\ IsStack(r) /\ DOMAIN r = DOMAIN s
      /\ \A i \in DOMAIN s : i # Len(s) => r[i] = s[i]
      /\ r[Len(s)] = f
  BY ChangeType
<1>2. Len(s) \in Nat \ {0} /\ Len(s) \in DOMAIN s /\ Last(s) = s[Len(s)] /\ DOMAIN s = 1 .. Len(s)
  BY TopType, StackType
<1>3. \A i \in DOMAIN s : r[i].op = s[i].op /\ r[i].t = s[i].t
  BY <1>1, <1>2
<1>4. \A i \in DOMAIN s : r[i].at = "mark" <=> s[i].at = "mark"
  <2>1. f.at # "mark" /\ Last(s).at # "mark"
    <3>1. IsFrame(Last(s))
      BY TopType
    <3>. QED BY <3>1 DEF IsFrame
  <2>. QED BY <1>1, <1>2, <2>1
<1>5. 1 \in DOMAIN s /\ r # <<>>
  <2>1. r = <<>> => DOMAIN r = {}
    OBVIOUS
  <2>. QED BY <1>1, <1>2, <2>1
<1>6. Making(r) <=> Making(s)
  BY <1>3, <1>4, <1>5 DEF Making
<1>7. \A i \in DOMAIN s : s[i].op = "enc" /\ s[i].at = "kids" => r[i].at = "kids"
  BY <1>1, <1>2
<1>8. \A t \in L : InHand(s, t) => InHand(r, t)
  BY <1>1, <1>3, <1>7 DEF InHand
<1>. QED BY <1>3, <1>5, <1>6, <1>8 DEF Follows, Plain

(* One more call.                                                          *)
LEMMA PushFollows ==
  ASSUME NEW L, NEW s, IsStack(s), s # <<>>, NEW f, IsFrame(f), NEW r, r = Append(s, f)
  PROVE  Follows(L, s, r)
<1>1. /\ Len(s) \in Nat \ {0} /\ DOMAIN s = 1 .. Len(s) /\ DOMAIN r = 1 .. Len(s) + 1
      /\ \A i \in 1 .. Len(s) : r[i] = s[i]
  BY TopType, StackType, PushType
<1>. PICK n \in Nat \ {0} : n = Len(s)
  BY <1>1
<1>2. DOMAIN s = 1 .. n /\ DOMAIN r = 1 .. n + 1 /\ \A i \in 1 .. n : r[i] = s[i]
  BY <1>1
<1>3. 1 \in 1 .. n /\ 1 \in 1 .. n + 1 /\ \A i \in 1 .. n : i \in 1 .. n + 1
  OBVIOUS
<1>4. r # <<>>
  <2>1. r = <<>> => DOMAIN r = {}
    OBVIOUS
  <2>. QED BY <1>2, <1>3, <2>1
<1>5. \A t \in L : InHand(s, t) => InHand(r, t)
  BY <1>2, <1>3 DEF InHand
<1>. QED BY <1>2, <1>3, <1>4, <1>5 DEF Follows, Plain, Making

(* A call that is over, which gathered no edges of its own.                *)
LEMMA PopFollows ==
  ASSUME NEW L, NEW s, IsStack(s), s # <<>>, Front(s) # <<>>,
         \A t \in L : Last(s).op = "enc" /\ Last(s).at = "kids" => Last(s).t # t
  PROVE  Follows(L, s, Front(s))
<1>. DEFINE q == Front(s)
<1>1. /\ Len(s) \in Nat \ {0} /\ DOMAIN s = 1 .. Len(s) /\ Last(s) = s[Len(s)]
      /\ IsStack(q) /\ DOMAIN q = 1 .. Len(s) - 1 /\ Len(q) = Len(s) - 1
      /\ \A i \in 1 .. Len(s) - 1 : q[i] = s[i]
  BY TopType, StackType
<1>2. q # <<>>
  OBVIOUS
<1>. HIDE DEF q
<1>3. Len(q) \in Nat \ {0}
  BY <1>1, <1>2, TopType
<1>4. q[1] = s[1]
  BY <1>1, <1>3
<1>5. ASSUME NEW t \in L, InHand(s, t)
      PROVE  InHand(q, t)
  <2>1. PICK i \in 1 .. Len(s) : s[i].op = "enc" /\ s[i].at = "kids" /\ s[i].t = t
    BY <1>1, <1>5 DEF InHand
  <2>2. i # Len(s)
    BY <1>1, <2>1
  <2>3. i \in 1 .. Len(s) - 1
    <3>1. PICK n \in Nat : n = Len(s)
      BY <1>1
    <3>2. i \in 1 .. n /\ i # n
      BY <2>1, <2>2, <3>1
    <3>. QED BY ONLY <3>1, <3>2, n \in Nat
  <2>. QED BY <1>1, <2>1, <2>3 DEF InHand
<1>. QED BY <1>2, <1>4, <1>5 DEF Follows, Plain, Making, q

(* A step of g that touches none of its objects.                           *)
LEMMA OwnMoves ==
  ASSUME NEW g \in Gor, Going(g), local'[g] = local[g], einfo' = einfo, calls' = calls,
         Follows(DOMAIN local[g], stack[g], stack'[g]),
         Tower(Loaded', ext', DOMAIN local[g], Good(g), stack'[g])
  PROVE  Going(g)'
<1>1. Good(g)' = Good(g) /\ \A t : Obj(g, t)' = Obj(g, t)
  BY DEF Good, Bound, Obj, Range
<1>2. Tower(Loaded, ext, DOMAIN local[g], Good(g), stack[g])'
  BY <1>1
<1>3. Mine(g)'
  BY <1>1 DEF Going, Mine
<1>4. Open(g)' /\ Closed(g)'
  BY <1>1 DEF Going, Open, Closed, Follows
<1>5. Registered(g)'
  BY <1>1 DEF Going, Registered, Follows
<1>6. Empty(g)'
  BY <1>1 DEF Going, Empty, Follows
<1>. QED BY <1>2, <1>3, <1>4, <1>5, <1>6 DEF Going

(* Objects of h are what they were, and no others are unmade.              *)
Untouched(h) ==
  /\ stack'[h] = stack[h] /\ local'[h] = local[h] /\ calls'[h] = calls[h]
  /\ Loaded \subseteq Loaded' /\ ext \subseteq ext'
  /\ Bound \subseteq Bound'
  /\ \A t \in Types : /\ Obj(h, t) \in DOMAIN einfo => einfo'[Obj(h, t)] = einfo[Obj(h, t)]
                      /\ Obj(h, t) \in DOMAIN einfo <=> Obj(h, t) \in DOMAIN einfo'

(* A build goes on while its frames and objects are left alone.            *)
LEMMA OthersWait ==
  ASSUME NEW h \in Gor, Going(h), Untouched(h)
  PROVE  Going(h)'
<1>1. Good(h) \subseteq Good(h)' /\ \A t : Obj(h, t)' = Obj(h, t)
  BY DEF Good, Range, Obj, Untouched
<1>2. Tower(Loaded, ext, DOMAIN local[h], Good(h), stack[h])'
  <2>1. PICK L, s, S, S2 : /\ L = DOMAIN local[h] /\ s = stack[h]
                           /\ S = Good(h) /\ S2 = Good(h)'
    OBVIOUS
  <2>2. Tower(Loaded, ext, L, S, s)
    BY <2>1 DEF Going
  <2>3. Tower(Loaded', ext', L, S2, s)
    BY <1>1, <2>1, <2>2, TowerGrows DEF Untouched
  <2>4. L = DOMAIN local'[h] /\ s = stack'[h]
    BY <2>1 DEF Untouched
  <2>. QED BY <2>1, <2>3, <2>4
<1>3. \A t \in DOMAIN local[h] : /\ t \in Types /\ local[h][t] = Obj(h, t)
                                 /\ Obj(h, t) \in DOMAIN einfo /\ Obj(h, t) \in DOMAIN einfo'
                                 /\ einfo'[Obj(h, t)] = einfo[Obj(h, t)]
  BY DEF Going, Mine, Untouched
<1>4. local'[h] = local[h] /\ stack'[h] = stack[h]
  BY DEF Untouched
<1>5. Mine(h)'
  BY <1>1, <1>3, <1>4 DEF Mine
<1>6. Open(h)'
  <2>1. ASSUME NEW e, NEW t, AllEdges(e, t, Good(h))
        PROVE  AllEdges(e, t, Good(h)')
    BY <1>1, <2>1, EdgesGrow DEF AllEdges
  <2>2. Open(h)
    BY DEF Going
  <2>. QED BY <1>1, <1>3, <1>4, <2>1, <2>2 DEF Open, AllEdges
<1>7. Closed(h)'
  BY <1>1, <1>3, <1>4 DEF Going, Closed
<1>8. Registered(h)' /\ Empty(h)'
  BY <1>1, <1>4 DEF Going, Registered, Empty, Untouched
<1>. QED BY <1>2, <1>5, <1>6, <1>7, <1>8 DEF Going

(***************************************************************************)
(* The steps of UniTypeOf under an EncTypeInfo build.                      *)
(***************************************************************************)
Cached == \A t \in Types : (cache[t] = "done" <=> t \in ext) /\ (cache[t] = "pending" => t \in open)

(* A step of typ: it leaves the encoder's objects alone, and caches only   *)
(* grow.                                                                   *)
TypStep == UNCHANGED <<local, einfo, epub, calls>> /\ Loaded \subseteq Loaded' /\ ext \subseteq ext'

(* A step of typ to another place of the same frame.                       *)
LEMMA OwnChange ==
  ASSUME Builds, NEW g \in Gor, Going(g), stack[g] # <<>>, TypStep,
         NEW f, IsFrame(f), f.op = Top(g).op, f.t = Top(g).t, f.op \in {"uni", "part"},
         f.at = "wait" => f.t \in Loaded', f.at = "close" => f.t \in ext', Goto(g, f)
  PROVE  Going(g)'
<1>. PICK L, S, s, r : L = DOMAIN local[g] /\ S = Good(g) /\ s = stack[g] /\ r = stack'[g]
  OBVIOUS
<1>1. IsStack(s) /\ s # <<>> /\ Top(g) = Last(s) /\ DOMAIN stack = Gor
  BY TopOf DEF Builds, Stacks
<1>2. Changed(s, f, r)
  BY <1>1 DEF Goto, Under, Changed
<1>3. Follows(L, s, r)
  BY <1>1, <1>2, ChangeFollows
<1>4. Tower(Loaded, ext, L, S, s)
  BY DEF Going
<1>5. Ready(Loaded', ext', L, S, f)
  BY DEF Ready
<1>6. Tower(Loaded', ext', L, S, r)
  BY <1>1, <1>2, <1>4, <1>5, TowerChange DEF TypStep
<1>. QED BY <1>3, <1>6, OwnMoves DEF TypStep

(* The same with only the place changed.                                   *)
LEMMA OwnGoto ==
  ASSUME Builds, NEW g \in Gor, Going(g), stack[g] # <<>>, TypStep, Top(g).op \in {"uni", "part"},
         NEW a \in {"wait", "store", "kids", "close"},
         a = "wait" => Top(g).t \in Loaded', a = "close" => Top(g).t \in ext',
         Goto(g, [Top(g) EXCEPT !.at = a])
  PROVE  Going(g)'
<1>1. IsFrame(Top(g))
  BY TopOf
<1>2. PICK p, f : p = Top(g) /\ f = [p EXCEPT !.at = a]
  OBVIOUS
<1>3. IsFrame(f) /\ f.t = p.t /\ f.op = p.op /\ f.at = a
  <2>1. /\ IsFrame(p) /\ f = [p EXCEPT !.at = a] /\ p.op \in {"uni", "part"}
        /\ a \in {"load", "wait", "store", "kids", "close"}
    BY <1>1, <1>2
  <2>. QED BY ONLY <2>1, FrameAt
<1>. QED BY <1>2, <1>3, OwnChange

(* A UniTypeOf or partialUniTypeOf that returns.                           *)
LEMMA OwnReturn ==
  ASSUME Builds, NEW g \in Gor, Going(g), stack[g] # <<>>, TypStep, Top(g).op \in {"uni", "part"},
         Top(g).op = "uni" => Top(g).t \in ext', Return(g)
  PROVE  Going(g)'
<1>. PICK L, S, s, r, up : /\ L = DOMAIN local[g] /\ S = Good(g) /\ s = stack[g] /\ r = stack'[g]
                           /\ up = Front(s)
  OBVIOUS
<1>1. IsStack(s) /\ s # <<>> /\ Top(g) = Last(s) /\ IsFrame(Last(s)) /\ DOMAIN stack = Gor
  BY TopOf DEF Builds, Stacks
<1>2. r = IF up = <<>> THEN <<>>
          ELSE Append(Front(up), CASE Last(up).op = "enc" -> [Last(up) EXCEPT !.at = "shell"]
                                   [] OTHER -> [Last(up) EXCEPT !.i = @ + 1])
  <2>1. r = Returned(g)
    BY <1>1 DEF Return
  <2>. QED BY <2>1 DEF Returned, Under
<1>3. Tower(Loaded, ext, L, S, s)
  BY DEF Going
<1>4. /\ Tower(Loaded, ext, L, S, up)
      /\ up = <<>> => Last(s) = s[1] /\ Last(s).op \in {"uni", "enc", "bind"}
      /\ up # <<>> => Calling(L, Last(up), Last(s))
  BY ONLY <1>1, <1>3, up = Front(s), TowerPop
<1>5. IsStack(up)
  BY <1>1, TopType
<1>6. CASE up = <<>>
  <2>1. r = <<>> /\ s[1].op = "uni" /\ s[1].at # "mark"
    BY <1>1, <1>2, <1>4, <1>6 DEF IsFrame
  <2>2. L = {}
    BY <1>1, <2>1 DEF Going, Empty, Plain
  <2>3. Follows(L, s, r)
    BY <1>1, <2>1, <2>2 DEF Follows, Making, Plain
  <2>4. Tower(Loaded', ext', L, S, r)
    <3>1. DOMAIN <<>> = {}
      OBVIOUS
    <3>. QED BY <2>1, <3>1 DEF Tower
  <2>. QED BY <2>3, <2>4, OwnMoves DEF TypStep
<1>7. CASE up # <<>>
  <2>1. IsFrame(Last(up)) /\ Calling(L, Last(up), Last(s)) /\ Ready(Loaded, ext, L, S, Last(up))
    BY <1>4, <1>5, <1>7, TopType, TowerPop
  <2>2. \E h : /\ IsFrame(h) /\ h.op = Last(up).op /\ h.t = Last(up).t /\ h.op # "bind"
               /\ h.op = "enc" => Last(up).at # "kids"
               /\ Ready(Loaded', ext', L, S, h) /\ r = Append(Front(up), h)
    <3>1. CASE Last(s).op = "uni"
      <4>1. PICK p, h : p = Last(up) /\ h = [p EXCEPT !.at = "shell"]
        OBVIOUS
      <4>2. p.op = "enc" /\ p.at = "load" /\ p.t = Last(s).t /\ p.t \notin L /\ p.edges = <<>>
        BY <2>1, <3>1, <4>1 DEF Calling, Ready
      <4>3. IsFrame(h) /\ h.t = p.t /\ h.op = p.op /\ h.at = "shell"
        BY ONLY <2>1, <4>1, <4>2, FrameAt
      <4>4. h.edges = <<>>
        <5>1. p = [op |-> p.op, t |-> p.t, at |-> p.at, i |-> p.i, edges |-> p.edges]
          BY <2>1, <4>1 DEF IsFrame
        <5>2. h.edges = p.edges
          BY ONLY <4>1, <5>1
        <5>. QED BY <4>2, <5>2
      <4>5. h.t \in ext' /\ h.t \notin L
        BY <1>1, <3>1, <4>2, <4>3
      <4>6. Ready(Loaded', ext', L, S, h)
        BY <4>2, <4>3, <4>4, <4>5 DEF Ready
      <4>7. r = Append(Front(up), h)
        BY <1>2, <1>7, <4>1, <4>2
      <4>. QED BY <4>1, <4>2, <4>3, <4>6, <4>7
    <3>2. CASE Last(s).op = "part"
      <4>1. PICK p, h : p = Last(up) /\ h = [p EXCEPT !.i = @ + 1]
        OBVIOUS
      <4>2. p.op \in {"uni", "part"}
        BY <2>1, <3>2, <4>1 DEF Calling
      <4>3. IsFrame(h) /\ h.t = p.t /\ h.op = p.op /\ h.at = p.at
        BY ONLY <2>1, <4>1, FrameNext
      <4>4. Ready(Loaded', ext', L, S, h)
        BY <2>1, <4>1, <4>2, <4>3 DEF Ready, TypStep
      <4>5. r = Append(Front(up), h)
        BY <1>2, <1>7, <4>1, <4>2
      <4>. QED BY <4>1, <4>2, <4>3, <4>4, <4>5
    <3>. QED BY <1>1, <3>1, <3>2
  <2>3. PICK h : /\ IsFrame(h) /\ h.op = Last(up).op /\ h.t = Last(up).t /\ h.op # "bind"
                 /\ h.op = "enc" => Last(up).at # "kids"
                 /\ Ready(Loaded', ext', L, S, h) /\ r = Append(Front(up), h)
    BY <2>2
  <2>4. Changed(up, h, r)
    BY <2>3 DEF Changed
  <2>5. Tower(Loaded', ext', L, S, r)
    BY <1>4, <1>5, <1>7, <2>3, <2>4, TowerChange DEF TypStep
  <2>6. Follows(L, up, r)
    BY <1>5, <1>7, <2>3, <2>4, ChangeFollows
  <2>7. Follows(L, s, up)
    BY <1>1, <1>7, PopFollows
  <2>8. Follows(L, s, r)
    BY <2>6, <2>7, FollowsTwice
  <2>. QED BY <2>5, <2>8, OwnMoves DEF TypStep
<1>. QED BY <1>6, <1>7

(* A frame on top that has yet to look its type up.                        *)
LEMMA OwnPush ==
  ASSUME Builds, NEW g \in Gor, Going(g), stack[g] # <<>>, TypStep,
         NEW op \in {"uni", "part", "enc"}, NEW t \in Types,
         Calling(DOMAIN local[g], Top(g), Frame(op, t)),
         op = "enc" => Top(g).op = "enc" /\ Top(g).at = "kids",
         stack' = [stack EXCEPT ![g] = Append(@, Frame(op, t))]
  PROVE  Going(g)'
<1>. PICK L, S, s, r, f : /\ L = DOMAIN local[g] /\ S = Good(g) /\ s = stack[g] /\ r = stack'[g]
                          /\ f = Frame(op, t)
  OBVIOUS
<1>1. IsStack(s) /\ s # <<>> /\ Top(g) = Last(s) /\ DOMAIN stack = Gor
  BY TopOf DEF Builds, Stacks
<1>2. IsFrame(f) /\ f.op = op /\ f.at = "load" /\ f.edges = <<>>
  BY NewFrame DEF Frame
<1>3. r = Append(s, f)
  BY <1>1
<1>4. Tower(Loaded', ext', L, S, s)
  <2>1. Tower(Loaded, ext, L, S, s)
    BY DEF Going
  <2>. QED BY <2>1, TowerGrows DEF TypStep
<1>5. Ready(Loaded', ext', L, S, f)
  BY <1>2 DEF Ready
<1>6. f.op = "enc" => \A i \in DOMAIN s : s[i].op = "enc" /\ s[i].at = "kids"
  <2>. SUFFICES ASSUME f.op = "enc", NEW i \in DOMAIN s
                PROVE  s[i].op = "enc" /\ s[i].at = "kids"
    OBVIOUS
  <2>1. Last(s).op = "enc" /\ Last(s).at = "kids"
    BY <1>1, <1>2
  <2>2. Last(s) = s[Len(s)] /\ Len(s) \in DOMAIN s /\ DOMAIN s = 1 .. Len(s) /\ Len(s) \in Nat
    BY <1>1, TopType, StackType
  <2>3. i = Len(s) \/ i < Len(s)
    BY <2>2
  <2>. QED BY <1>4, <2>1, <2>2, <2>3 DEF Tower
<1>7. Tower(Loaded', ext', L, S, r)
  <2>1. Calling(L, Last(s), f)
    BY <1>1
  <2>2. IsStack(s) /\ s # <<>> /\ IsFrame(f)
    BY <1>1, <1>2
  <2>. QED BY ONLY <2>1, <2>2, <1>3, <1>4, <1>5, <1>6, TowerPush
<1>8. Follows(L, s, r)
  BY <1>1, <1>2, <1>3, PushFollows
<1>. QED BY <1>7, <1>8, OwnMoves DEF TypStep

(* Every step of typ keeps the build it serves.                            *)
LEMMA TypGoes ==
  ASSUME Builds, Known, Cached, NEW g \in Gor, Going(g),
         \/ PartialShell(g) \/ LoadHit(g) \/ LoadPending(g) \/ LoadMiss(g) \/ Wake(g)
         \/ StoreWin(g) \/ StoreLose(g) \/ BuildChild(g) \/ Publish(g) \/ CloseDone(g)
  PROVE  Going(g)' /\ TypStep
<1>1. stack[g] # <<>>
  BY DEF PartialShell, LoadHit, LoadPending, LoadMiss, Wake, StoreWin, StoreLose, BuildChild, Publish,
         CloseDone, NeedsLoad, At
<1>2. /\ IsFrame(Top(g)) /\ Top(g) = Last(stack[g]) /\ Top(g).t \in Types /\ IsStack(stack[g])
      /\ Top(g).i \in Nat \ {0}
  BY <1>1, TopOf
<1>3. Top(g).op \in {"uni", "part"}
  BY <1>2, PlaceTells DEF PartialShell, LoadHit, LoadPending, LoadMiss, Wake, StoreWin, StoreLose,
         BuildChild, Publish, CloseDone, NeedsLoad, At
<1>4. TypStep
  <2>1. UNCHANGED <<local, einfo, epub, calls>>
    BY DEF PartialShell, LoadHit, LoadPending, LoadMiss, Wake, StoreWin, StoreLose, BuildChild, Publish,
           CloseDone, encvars
  <2>2. ext \subseteq ext'
    BY DEF PartialShell, LoadHit, LoadPending, LoadMiss, Wake, StoreWin, StoreLose, BuildChild, Publish,
           CloseDone, univars
  <2>3. \A t \in Types : cache[t] # "absent" => cache'[t] # "absent"
    <3>1. CASE StoreWin(g)
      BY <1>2, <3>1 DEF StoreWin, Known
    <3>2. CASE Publish(g)
      BY <1>2, <3>2 DEF Publish, Known
    <3>3. CASE cache' = cache
      BY <3>3
    <3>. QED BY <3>1, <3>2, <3>3 DEF PartialShell, LoadHit, LoadPending, LoadMiss, Wake, StoreLose,
                BuildChild, CloseDone, univars
  <2>4. Loaded \subseteq Loaded'
    BY <2>3 DEF Loaded
  <2>. QED BY <2>1, <2>2, <2>4 DEF TypStep
<1>5. Ready(Loaded, ext, DOMAIN local[g], Good(g), Top(g))
  BY <1>1, <1>2, TowerPop DEF Going
<1>6. CASE PartialShell(g)
  BY <1>1, <1>3, <1>4, <1>6, OwnReturn DEF PartialShell, At
<1>7. CASE LoadHit(g)
  <2>1. Top(g).t \in ext' /\ Return(g)
    BY <1>2, <1>7 DEF LoadHit, Cached, univars
  <2>. QED BY <1>1, <1>3, <1>4, <2>1, OwnReturn
<1>8. CASE LoadPending(g)
  <2>1. Top(g).t \in Loaded' /\ Goto(g, [Top(g) EXCEPT !.at = "wait"])
    BY <1>2, <1>8 DEF LoadPending, Loaded, univars
  <2>. QED BY <1>1, <1>3, <1>4, <2>1, OwnGoto
<1>9. CASE LoadMiss(g)
  <2>1. Goto(g, [Top(g) EXCEPT !.at = "store"])
    BY <1>9 DEF LoadMiss
  <2>. QED BY <1>1, <1>3, <1>4, <2>1, OwnGoto
<1>10. CASE Wake(g)
  <2>1. Top(g).at = "wait" /\ Top(g).t \notin open /\ Return(g) /\ ext' = ext
    BY <1>10 DEF Wake, univars
  <2>2. Top(g).t \in Loaded
    BY <1>3, <1>5, <2>1 DEF Ready
  <2>3. Top(g).t \in ext'
    BY <1>2, <2>1, <2>2 DEF Loaded, Cached, Known
  <2>. QED BY <1>1, <1>3, <1>4, <2>1, <2>3, OwnReturn
<1>11. CASE StoreWin(g)
  <2>1. Goto(g, [Top(g) EXCEPT !.at = "kids"])
    BY <1>11 DEF StoreWin
  <2>. QED BY <1>1, <1>3, <1>4, <2>1, OwnGoto
<1>12. CASE StoreLose(g)
  <2>1. CASE cache[Top(g).t] = "done"
    <3>1. Top(g).t \in ext' /\ Return(g)
      BY <1>2, <1>12, <2>1 DEF StoreLose, Cached, univars
    <3>. QED BY <1>1, <1>3, <1>4, <3>1, OwnReturn
  <2>2. CASE cache[Top(g).t] # "done"
    <3>1. Top(g).t \in Loaded' /\ Goto(g, [Top(g) EXCEPT !.at = "wait"])
      BY <1>2, <1>12, <2>2 DEF StoreLose, Loaded, univars
    <3>. QED BY <1>1, <1>3, <1>4, <3>1, OwnGoto
  <2>. QED BY <2>1, <2>2
<1>13. CASE BuildChild(g)
  <2>1. Child[Top(g).t][Top(g).i] \in Types
    BY <1>2, <1>13, ChildType DEF BuildChild
  <2>2. PICK t \in Types : t = Child[Top(g).t][Top(g).i]
    BY <2>1
  <2>3. stack' = [stack EXCEPT ![g] = Append(@, Frame("part", t))]
    BY <1>13, <2>2 DEF BuildChild
  <2>4. Calling(DOMAIN local[g], Top(g), Frame("part", t))
    BY <1>3 DEF Calling, Frame
  <2>. QED BY <1>1, <1>4, <2>3, <2>4, OwnPush
<1>14. CASE Publish(g)
  <2>1. Top(g).t \in ext' /\ Goto(g, [Top(g) EXCEPT !.at = "close"])
    BY <1>14 DEF Publish
  <2>. QED BY <1>1, <1>3, <1>4, <2>1, OwnGoto
<1>15. CASE CloseDone(g)
  <2>1. Top(g).at = "close" /\ Return(g) /\ ext' = ext
    BY <1>15 DEF CloseDone
  <2>2. Top(g).t \in ext'
    BY <1>3, <1>5, <2>1 DEF Ready
  <2>. QED BY <1>1, <1>3, <1>4, <2>1, <2>2, OwnReturn
<1>. QED BY <1>4, <1>6, <1>7, <1>8, <1>9, <1>10, <1>11, <1>12, <1>13, <1>14, <1>15

(***************************************************************************)
(* The steps of an EncTypeInfo build.                                      *)
(***************************************************************************)
(* A stack whose bottom frame binds.                                       *)
LEMMA BindFrame ==
  ASSUME NEW t \in Types, NEW b, b = [Frame("bind", t) EXCEPT !.at = "mark"]
  PROVE  IsFrame(b) /\ b.op = "bind" /\ b.at = "mark"
<1>1. b = [op |-> "bind", t |-> t, at |-> "mark", i |-> 1, edges |-> <<>>]
  BY DEF Frame
<1>2. b.op = "bind" /\ b.t = t /\ b.at = "mark" /\ b.i = 1 /\ b.edges = <<>>
  BY <1>1
<1>. QED BY <1>1, <1>2 DEF IsFrame

(* A stack of one frame.                                                   *)
LEMMA OneTower ==
  ASSUME NEW K, NEW X, NEW L, NEW S, NEW f, IsFrame(f), Ready(K, X, L, S, f),
         f.op \in {"uni", "enc", "bind"}
  PROVE  Tower(K, X, L, S, <<f>>) /\ <<f>> # <<>> /\ <<f>>[1] = f
<1>1. DOMAIN <<f>> = {1} /\ <<f>>[1] = f
  OBVIOUS
<1>2. PICK r : r = <<f>>
  OBVIOUS
<1>3. DOMAIN r = {1} /\ r[1] = f
  BY <1>1, <1>2
<1>4. Tower(K, X, L, S, r)
  BY <1>3 DEF Tower
<1>. QED BY <1>2, <1>3, <1>4

(* No frame at all.                                                        *)
LEMMA EmptyTower ==
  ASSUME NEW K, NEW X, NEW L, NEW S
  PROVE  Tower(K, X, L, S, <<>>)
<1>1. DOMAIN <<>> = {}
  OBVIOUS
<1>. QED BY <1>1 DEF Tower

(* The frames r that are left of g's when a subtree is complete.           *)
Resumed(K, X, L, S, g, r) ==
  /\ Tower(K, X, L, S, r) /\ stack[g][1].op = "enc"
  /\ r = <<>> => local[g] = <<>>
  /\ r # <<>> => Making(r) /\ r[1].op # "uni"
  /\ \A t : InHand(stack[g], t) => InHand(r, t) \/ (Top(g).at = "kids" /\ t = Top(g).t)

(* A complete subtree, and its caller.                                     *)
LEMMA EncReturns ==
  ASSUME Builds, NEW g \in Gor, stack[g] # <<>>, Top(g).op = "enc",
         NEW K, NEW X, NEW L, NEW S, Tower(K, X, L, S, stack[g]),
         NEW o \in S, o[3] = Top(g).t, NEW r, r = EncReturned(g, o)
  PROVE  Resumed(K, X, L, S, g, r)
<1>. USE DEF Resumed
<1>. PICK s, up : s = stack[g] /\ up = Front(s)
  OBVIOUS
<1>1. /\ IsStack(s) /\ s # <<>> /\ Top(g) = Last(s) /\ IsFrame(Last(s)) /\ Last(s).t \in Types
      /\ Tower(K, X, L, S, s)
  BY TopOf
<1>2. r = IF up = <<>>
          THEN IF local[g] = <<>> THEN <<>> ELSE <<[Frame("bind", Top(g).t) EXCEPT !.at = "mark"]>>
          ELSE Append(Front(up), [Last(up) EXCEPT !.i = @ + 1, !.edges = Append(@, o)])
  BY DEF EncReturned, Under
<1>3. /\ Tower(K, X, L, S, up)
      /\ up = <<>> => Last(s) = s[1]
      /\ up # <<>> => Calling(L, Last(up), Last(s)) /\ up[1] = s[1]
      /\ \A i \in DOMAIN up : up[i].op = "enc" /\ up[i].at = "kids"
  BY <1>1, TowerPop
<1>4. /\ Len(s) \in Nat \ {0} /\ DOMAIN s = 1 .. Len(s) /\ Last(s) = s[Len(s)]
      /\ IsStack(up) /\ DOMAIN up = 1 .. Len(s) - 1
      /\ \A i \in 1 .. Len(s) - 1 : up[i] = s[i]
  BY <1>1, TopType, StackType
<1>5. \A t : InHand(s, t) => InHand(up, t) \/ (Top(g).at = "kids" /\ t = Top(g).t)
  <2>1. PICK n \in Nat \ {0} : n = Len(s)
    BY <1>4
  <2>2. \A i \in 1 .. n : i = n \/ i \in 1 .. n - 1
    BY ONLY n \in Nat \ {0}
  <2>. QED BY <1>1, <1>4, <2>1, <2>2 DEF InHand
<1>6. CASE up = <<>>
  <2>1. s[1].op = "enc"
    BY <1>1, <1>3, <1>6
  <2>2. \A t : ~ InHand(up, t)
    <3>1. DOMAIN up = {}
      BY <1>6
    <3>. QED BY <3>1 DEF InHand
  <2>3. CASE local[g] = <<>>
    <3>1. r = <<>>
      BY <1>2, <1>6, <2>3
    <3>. QED BY <1>5, <2>1, <2>2, <2>3, <3>1, EmptyTower
  <2>4. CASE local[g] # <<>>
    <3>1. PICK b : b = [Frame("bind", Top(g).t) EXCEPT !.at = "mark"]
      OBVIOUS
    <3>2. IsFrame(b) /\ b.op = "bind" /\ b.at = "mark"
      BY <1>1, <3>1, BindFrame
    <3>3. r = <<b>>
      BY <1>2, <1>6, <2>4, <3>1
    <3>4. Ready(K, X, L, S, b)
      BY <3>2 DEF Ready
    <3>5. Tower(K, X, L, S, r) /\ r # <<>> /\ r[1] = b
      BY <3>2, <3>3, <3>4, OneTower
    <3>. QED BY <1>5, <2>1, <2>2, <3>2, <3>5 DEF Making
  <2>. QED BY <2>3, <2>4
<1>7. CASE up # <<>>
  <2>1. /\ Len(up) \in Nat \ {0} /\ Len(up) \in DOMAIN up /\ DOMAIN up = 1 .. Len(up)
        /\ Last(up) = up[Len(up)] /\ IsFrame(Last(up)) /\ 1 \in DOMAIN up
    BY <1>4, <1>7, TopType, StackType
  <2>2. PICK p, h : p = Last(up) /\ h = [p EXCEPT !.i = @ + 1, !.edges = Append(@, o)]
    OBVIOUS
  <2>3. /\ IsFrame(h) /\ h.t = p.t /\ h.op = p.op /\ h.at = p.at
        /\ h.i = p.i + 1 /\ h.edges = Append(p.edges, o)
    <3>1. IsFrame(p)
      BY <2>1, <2>2
    <3>2. PICK e : e = Append(p.edges, o)
      OBVIOUS
    <3>3. h = [p EXCEPT !.i = @ + 1, !.edges = e]
      BY <2>2, <3>2
    <3>4. p = [op |-> p.op, t |-> p.t, at |-> p.at, i |-> p.i, edges |-> p.edges]
      BY <3>1 DEF IsFrame
    <3>5. h = [op |-> p.op, t |-> p.t, at |-> p.at, i |-> p.i + 1, edges |-> e]
      BY ONLY <3>3, <3>4
    <3>6. h.i = p.i + 1 /\ h.edges = e
      BY ONLY <3>5
    <3>7. IsFrame(h) /\ h.t = p.t /\ h.op = p.op /\ h.at = p.at
      BY ONLY <3>1, <3>3, FrameNext
    <3>. QED BY <3>2, <3>6, <3>7
  <2>4. p.op = "enc" /\ p.at = "kids"
    BY <1>3, <2>1, <2>2
  <2>5. p.i <= Len(Child[p.t]) /\ Last(s).t = Child[p.t][p.i]
    BY <1>1, <1>3, <1>7, <2>2, <2>4 DEF Calling
  <2>6. p.t \in L /\ EdgesTo(p.edges, p.t, p.i - 1, S)
    <3>1. Ready(K, X, L, S, Last(up))
      BY <1>4, <1>3, <1>7, TowerPop
    <3>. QED BY <2>2, <2>4, <3>1 DEF Ready
  <2>7. p.i \in Nat \ {0} /\ p.t \in Types /\ Len(Child[p.t]) \in Nat
    BY <2>1, <2>2, ChildType DEF IsFrame
  <2>8. PICK n \in Nat : p.i = n + 1 /\ p.i - 1 = n /\ h.i = n + 2 /\ h.i - 1 = n + 1
    <3>1. \A k \in Nat \ {0} : k - 1 \in Nat /\ k = (k - 1) + 1 /\ k + 1 = (k - 1) + 2
                               /\ (k + 1) - 1 = (k - 1) + 1
      OBVIOUS
    <3>. QED BY <2>3, <2>7, <3>1
  <2>9. EdgesTo(Append(p.edges, o), p.t, n + 1, S)
    <3>1. EdgesTo(p.edges, p.t, n, S) /\ o[3] = Child[p.t][n + 1]
      BY <1>1, <2>5, <2>6, <2>8
    <3>. QED BY ONLY <3>1, n \in Nat, o \in S, EdgesNext
  <2>10. h.i <= Len(Child[h.t]) + 1
    <3>1. PICK m \in Nat : m = Len(Child[p.t])
      BY <2>7
    <3>2. n + 1 <= m
      BY <2>5, <2>8, <3>1
    <3>3. n + 2 <= m + 1
      BY ONLY <3>2, n \in Nat, m \in Nat
    <3>. QED BY <2>3, <2>8, <3>1, <3>3
  <2>11. Ready(K, X, L, S, h)
    BY <2>3, <2>4, <2>6, <2>8, <2>9, <2>10 DEF Ready
  <2>12. r = Append(Front(up), h) /\ Changed(up, h, r)
    BY <1>2, <1>7, <2>2 DEF Changed
  <2>13. Tower(K, X, L, S, r)
    <3>1. h.op = Last(up).op /\ h.t = Last(up).t
      BY <2>2, <2>3
    <3>. QED BY <1>3, <1>4, <1>7, <2>3, <2>11, <2>12, <3>1, TowerChange
  <2>14. /\ DOMAIN r = DOMAIN up
         /\ \A i \in DOMAIN up : i # Len(up) => r[i] = up[i]
         /\ r[Len(up)] = h
    <3>1. IsStack(up) /\ up # <<>> /\ IsFrame(h) /\ Changed(up, h, r)
      BY <1>4, <1>7, <2>3, <2>12
    <3>. QED BY ONLY <3>1, ChangeType
  <2>15. \A i \in DOMAIN up : r[i].op = "enc" /\ r[i].at = "kids" /\ r[i].t = up[i].t
    <3>1. h.op = "enc" /\ h.at = "kids" /\ h.t = up[Len(up)].t
      BY <2>1, <2>2, <2>3, <2>4
    <3>2. ASSUME NEW i \in DOMAIN up
          PROVE  r[i].op = "enc" /\ r[i].at = "kids" /\ r[i].t = up[i].t
      <4>1. CASE i = Len(up)
        BY <2>14, <3>1, <4>1
      <4>2. CASE i # Len(up)
        <5>1. r[i] = up[i] /\ up[i].op = "enc" /\ up[i].at = "kids"
          BY <1>3, <2>14, <4>2
        <5>. QED BY <5>1
      <4>. QED BY <4>1, <4>2
    <3>. QED BY <3>2
  <2>16. \A t : InHand(up, t) => InHand(r, t)
    BY <2>14, <2>15 DEF InHand
  <2>17. r # <<>> /\ r[1].op = "enc"
    <3>1. r = <<>> => DOMAIN r = {}
      OBVIOUS
    <3>. QED BY <2>1, <2>14, <2>15, <3>1
  <2>18. s[1].op = "enc"
    BY <1>3, <1>7, <2>1
  <2>. QED BY <1>5, <2>13, <2>16, <2>17, <2>18 DEF Making
<1>. QED BY <1>6, <1>7

(* What an object is: a bound one knows its children and whether a value   *)
(* of its type needs an address.                                           *)
Whole(o) ==
  /\ AllEdges(einfo[o].edges, o[3], Bound)
  /\ einfo[o].addr <=> o[3] \in NeedsAddrRef
Infos ==
  /\ \A o \in DOMAIN einfo :
       /\ o[1] \in Gor /\ o[2] \in 0 .. calls[o[1]] /\ o[3] \in Types
       /\ einfo[o] = [edges |-> einfo[o].edges, addr |-> einfo[o].addr, bound |-> einfo[o].bound]
       /\ einfo[o].bound => Whole(o)
  /\ \A t \in Types : epub[t] # NoObj => epub[t] \in Bound /\ epub[t][3] = t

(* A goroutine with no call and no object.                                 *)
LEMMA EmptyGoes ==
  ASSUME NEW g \in Gor, stack'[g] = <<>>, DOMAIN local'[g] = {}
  PROVE  Going(g)'
<1>1. Tower(Loaded, ext, DOMAIN local[g], Good(g), stack[g])'
  BY EmptyTower
<1>2. Mine(g)' /\ Open(g)' /\ Closed(g)' /\ Registered(g)' /\ Empty(g)'
  BY DEF Mine, Open, Closed, Registered, Empty
<1>. QED BY <1>1, <1>2 DEF Going

(* A goroutine with one frame and no object.                               *)
LEMMA FirstGoes ==
  ASSUME NEW g \in Gor, NEW op \in {"uni", "enc"}, NEW t \in Types, stack'[g] = <<Frame(op, t)>>,
         DOMAIN local'[g] = {},
         op = "enc" => \A u \in Types : Obj(g, u)' \notin DOMAIN einfo'
  PROVE  Going(g)'
<1>1. PICK f : f = Frame(op, t)
  OBVIOUS
<1>2. IsFrame(f) /\ f.op = op /\ f.at = "load" /\ f.edges = <<>>
  BY <1>1, NewFrame DEF Frame
<1>3. \A K, X, L, S : Ready(K, X, L, S, f)
  BY <1>2 DEF Ready
<1>4. \A K, X, L, S : Tower(K, X, L, S, <<f>>)
  BY <1>2, <1>3, OneTower
<1>5. Tower(Loaded, ext, DOMAIN local[g], Good(g), stack[g])'
  BY <1>1, <1>4
<1>6. stack'[g][1] = f
  BY <1>1
<1>7. Mine(g)' /\ Open(g)' /\ Closed(g)' /\ Registered(g)' /\ Empty(g)'
  BY <1>2, <1>6 DEF Mine, Open, Closed, Registered, Empty
<1>. QED BY <1>5, <1>7 DEF Going

(* An edge found: published, or in flight.                                 *)
LEMMA FoundGoes ==
  ASSUME Builds, NEW g \in Gor, Going(g), At(g, "enc", "load"),
         NEW o \in Good(g), o[3] = Top(g).t,
         stack' = [stack EXCEPT ![g] = EncReturned(g, o)],
         UNCHANGED <<univars, calls, encvars>>
  PROVE  Going(g)'
<1>. PICK L, S, s, r : L = DOMAIN local[g] /\ S = Good(g) /\ s = stack[g] /\ r = stack'[g]
  OBVIOUS
<1>1. stack[g] # <<>> /\ Top(g).op = "enc" /\ Top(g).at = "load" /\ DOMAIN stack = Gor
  BY DEF At, Builds, Stacks
<1>2. r = EncReturned(g, o)
  BY <1>1
<1>3. local' = local /\ einfo' = einfo /\ calls' = calls /\ ext' = ext /\ Loaded' = Loaded
  BY DEF encvars, univars, Loaded
<1>4. Tower(Loaded, ext, L, S, stack[g])
  BY DEF Going
<1>5. /\ Tower(Loaded, ext, L, S, r) /\ stack[g][1].op = "enc"
      /\ r = <<>> => local[g] = <<>>
      /\ r # <<>> => Making(r) /\ r[1].op # "uni"
      /\ \A t : InHand(stack[g], t) => InHand(r, t) \/ (Top(g).at = "kids" /\ t = Top(g).t)
  <2>1. /\ Builds /\ g \in Gor /\ stack[g] # <<>> /\ Top(g).op = "enc" /\ Tower(Loaded, ext, L, S, stack[g])
        /\ o \in S /\ o[3] = Top(g).t /\ r = EncReturned(g, o)
    BY <1>1, <1>2, <1>4
  <2>2. Resumed(Loaded, ext, L, S, g, r)
    BY ONLY <2>1, EncReturns
  <2>. QED BY <2>2 DEF Resumed
<1>6. CASE r = <<>>
  <2>1. DOMAIN local'[g] = {}
    BY <1>3, <1>5, <1>6
  <2>. QED BY <1>6, <2>1, EmptyGoes
<1>7. CASE r # <<>>
  <2>1. Follows(L, s, r)
    BY <1>1, <1>5, <1>7 DEF Follows, Making, Plain
  <2>. QED BY <1>3, <1>5, <2>1, OwnMoves
<1>. QED BY <1>6, <1>7

(* An object found in the cache or in flight.                              *)
LEMMA EncFinds ==
  ASSUME Builds, Infos, NEW g \in Gor, Going(g), EncHit(g) \/ EncInFlight(g)
  PROVE  Going(g)'
<1>1. CASE EncHit(g)
  <2>1. At(g, "enc", "load") /\ stack[g] # <<>> /\ epub[Top(g).t] # NoObj
    BY <1>1 DEF EncHit, At
  <2>2. PICK o : o = epub[Top(g).t]
    OBVIOUS
  <2>3. Top(g).t \in Types
    BY <2>1, TopOf
  <2>4. o \in Good(g) /\ o[3] = Top(g).t
    BY <2>1, <2>2, <2>3 DEF Infos, Good
  <2>. QED BY <1>1, <2>1, <2>2, <2>4, FoundGoes DEF EncHit
<1>2. CASE EncInFlight(g)
  <2>1. At(g, "enc", "load") /\ Top(g).t \in DOMAIN local[g]
    BY <1>2 DEF EncInFlight
  <2>2. PICK o : o = local[g][Top(g).t]
    OBVIOUS
  <2>3. o \in Good(g) /\ o[3] = Top(g).t
    <3>1. o = <<g, calls[g], Top(g).t>>
      BY <2>1, <2>2 DEF Going, Mine, Obj
    <3>2. o \in Range(local[g])
      BY <2>1, <2>2 DEF Range
    <3>. QED BY <3>1, <3>2 DEF Good
  <2>. QED BY <1>2, <2>1, <2>2, <2>3, FoundGoes DEF EncInFlight
<1>. QED BY <1>1, <1>2

(* A call for the descriptor, or for a child.                              *)
LEMMA EncAsks ==
  ASSUME Builds, NEW g \in Gor, Going(g), EncMiss(g) \/ EncChild(g)
  PROVE  Going(g)'
<1>1. TypStep
  BY DEF TypStep, EncMiss, EncChild, univars, encvars, Loaded
<1>2. stack[g] # <<>>
  BY DEF EncMiss, EncChild, At
<1>3. Top(g).t \in Types /\ Top(g).i \in Nat \ {0}
  BY <1>2, TopOf
<1>4. CASE EncMiss(g)
  <2>1. PICK t \in Types : t = Top(g).t
    BY <1>3
  <2>2. /\ stack' = [stack EXCEPT ![g] = Append(@, Frame("uni", t))]
        /\ Top(g).op = "enc" /\ Top(g).at = "load" /\ t \notin DOMAIN local[g]
    BY <1>4, <2>1 DEF EncMiss, At
  <2>3. Calling(DOMAIN local[g], Top(g), Frame("uni", t))
    BY <2>1, <2>2 DEF Calling, Frame
  <2>. QED BY <1>1, <1>2, <2>2, <2>3, OwnPush
<1>5. CASE EncChild(g)
  <2>1. /\ Top(g).op = "enc" /\ Top(g).at = "kids" /\ Top(g).i <= Len(Child[Top(g).t])
        /\ stack' = [stack EXCEPT ![g] = Append(@, Frame("enc", Child[Top(g).t][Top(g).i]))]
    BY <1>5 DEF EncChild, At
  <2>2. Child[Top(g).t][Top(g).i] \in Types
    BY <1>3, <2>1, ChildType
  <2>3. PICK t \in Types : t = Child[Top(g).t][Top(g).i]
    BY <2>2
  <2>4. Calling(DOMAIN local[g], Top(g), Frame("enc", t))
    BY <2>1, <2>3 DEF Calling, Frame
  <2>5. stack' = [stack EXCEPT ![g] = Append(@, Frame("enc", t))]
    BY <2>1, <2>3
  <2>. QED BY <1>1, <1>2, <2>1, <2>4, <2>5, OwnPush
<1>. QED BY <1>4, <1>5

(* The tower of a build goes on under a new object.                        *)
LEMMA TowerRegisters ==
  ASSUME NEW K, NEW X, NEW L, NEW S, NEW s, Tower(K, X, L, S, s),
         \A i \in DOMAIN s : s[i].op = "enc" /\ s[i].at = "kids",
         NEW M, L \subseteq M, NEW S2, S \subseteq S2
  PROVE  Tower(K, X, M, S2, s)
<1>1. ASSUME NEW i \in DOMAIN s
      PROVE  Ready(K, X, M, S2, s[i])
  <2>1. Ready(K, X, L, S, s[i]) /\ s[i].op = "enc" /\ s[i].at = "kids"
    BY <1>1 DEF Tower
  <2>2. EdgesTo(s[i].edges, s[i].t, s[i].i - 1, S) => EdgesTo(s[i].edges, s[i].t, s[i].i - 1, S2)
    BY EdgesGrow
  <2>. QED BY <2>1, <2>2 DEF Ready
<1>2. ASSUME NEW i \in DOMAIN s, NEW j \in DOMAIN s, j = i + 1
      PROVE  Calling(M, s[i], s[j])
  <2>1. Calling(L, s[i], s[j]) /\ s[i].op = "enc" /\ s[j].op = "enc"
    BY <1>2 DEF Tower
  <2>. QED BY <2>1 DEF Calling
<1>. QED BY <1>1, <1>2 DEF Tower

(* A new object, unbound and without edges.                                *)
LEMMA ShellGoes ==
  ASSUME Builds, Owned, Infos, NEW g \in Gor, Going(g), EncShell(g)
  PROVE  /\ Going(g)' /\ Obj(g, Top(g).t) \notin DOMAIN einfo
         /\ einfo' = With(einfo, Obj(g, Top(g).t), [edges |-> <<>>, addr |-> FALSE, bound |-> FALSE])
<1>. PICK L, S, s, r, t, o, c : /\ L = DOMAIN local[g] /\ S = Good(g) /\ s = stack[g] /\ r = stack'[g]
                                /\ t = Top(g).t /\ o = Obj(g, t)
                                /\ c = [edges |-> <<>>, addr |-> FALSE, bound |-> FALSE]
  OBVIOUS
<1>0. /\ stack[g] # <<>> /\ Top(g).op = "enc" /\ Top(g).at = "shell"
      /\ local' = [local EXCEPT ![g] = With(@, t, o)]
      /\ einfo' = With(einfo, o, c)
      /\ Goto(g, [Top(g) EXCEPT !.at = "kids", !.i = IF t \in ext THEN 1 ELSE Len(Child[t]) + 1])
      /\ ext' = ext /\ Loaded' = Loaded /\ calls' = calls
  BY DEF EncShell, At, univars, Loaded
<1>1. IsStack(s) /\ s # <<>> /\ Top(g) = Last(s) /\ IsFrame(Last(s)) /\ t \in Types /\ DOMAIN stack = Gor
  BY <1>0, TopOf DEF Builds, Stacks
<1>2. Tower(Loaded, ext, L, S, s)
  BY DEF Going
<1>3. PICK up : up = Front(s)
  OBVIOUS
<1>4. /\ Tower(Loaded, ext, L, S, up) /\ Ready(Loaded, ext, L, S, Last(s))
      /\ up = <<>> => Last(s) = s[1]
      /\ up # <<>> => Calling(L, Last(up), Last(s)) /\ up[1] = s[1]
      /\ \A i \in DOMAIN up : up[i].op = "enc" /\ up[i].at = "kids"
  BY <1>0, <1>1, <1>2, <1>3, TowerPop
<1>5. t \in ext /\ t \notin L /\ Last(s).edges = <<>>
  BY <1>0, <1>1, <1>4 DEF Ready
<1>6. IsStack(up) /\ (up # <<>> => 1 \in DOMAIN up /\ Last(up).op = "enc")
  <2>1. IsStack(up)
    BY <1>1, <1>3, TopType
  <2>2. up # <<>> => 1 \in DOMAIN up /\ Len(up) \in DOMAIN up /\ Last(up) = up[Len(up)]
    BY <2>1, TopType, StackType
  <2>. QED BY <1>4, <2>1, <2>2
<1>7. s[1].op = "enc"
  BY <1>0, <1>1, <1>4, <1>6
<1>8. o \notin DOMAIN einfo
  BY <1>1, <1>5, <1>7 DEF Going, Registered
<1>9. PICK f : /\ f = [op |-> "enc", t |-> t, at |-> "kids", i |-> 1, edges |-> <<>>]
               /\ r = Append(up, f)
  <2>1. PICK p : p = Last(s)
    OBVIOUS
  <2>2. PICK k : p = [op |-> "enc", t |-> t, at |-> "shell", i |-> k, edges |-> <<>>]
    BY <1>0, <1>1, <1>5, <2>1 DEF IsFrame
  <2>6. PICK h : h = [p EXCEPT !.at = "kids", !.i = 1]
    OBVIOUS
  <2>3. h = [op |-> "enc", t |-> t, at |-> "kids", i |-> 1, edges |-> <<>>]
    BY ONLY <2>2, <2>6
  <2>4. Goto(g, [p EXCEPT !.at = "kids", !.i = 1])
    BY <1>0, <1>1, <1>5, <2>1
  <2>5. r = Append(up, [p EXCEPT !.at = "kids", !.i = 1])
    BY <1>1, <1>3, <2>4 DEF Goto, Under
  <2>. QED BY <2>3, <2>5, <2>6
<1>10. IsFrame(f) /\ f.op = "enc" /\ f.t = t /\ f.at = "kids" /\ f.i = 1 /\ f.edges = <<>>
  BY <1>1, <1>9 DEF IsFrame
<1>11. /\ DOMAIN local'[g] = L \cup {t} /\ local'[g][t] = o
       /\ \A u \in L : local'[g][u] = local[g][u]
  <2>1. local'[g] = With(local[g], t, o)
    BY <1>0 DEF Owned
  <2>. QED BY <1>5, <2>1 DEF With
<1>12. /\ DOMAIN einfo' = DOMAIN einfo \cup {o} /\ einfo'[o] = c /\ ~ c.bound /\ c.edges = <<>>
       /\ \A x \in DOMAIN einfo : einfo'[x] = einfo[x]
  BY <1>0, <1>8 DEF With
<1>13. Bound' = Bound
  BY <1>12 DEF Bound
<1>14. S \subseteq Good(g)'
  BY <1>11, <1>13 DEF Good, Range
<1>15. \A u : Obj(g, u)' = Obj(g, u) /\ (Obj(g, u) = o => u = t)
  BY <1>0 DEF Obj
<1>16. PICK M, S2 : M = L \cup {t} /\ S2 = Good(g)'
  OBVIOUS
<1>17. Tower(Loaded, ext, M, S2, up)
  BY <1>4, <1>14, <1>16, TowerRegisters
<1>18. Ready(Loaded, ext, M, S2, f)
  <2>1. EdgesTo(<<>>, t, 0, S2)
    BY EdgesNone
  <2>2. PICK m \in Nat : m = Len(Child[t])
    BY <1>1, ChildType
  <2>3. 1 <= m + 1 /\ 1 - 1 = 0
    BY ONLY m \in Nat
  <2>. QED BY <1>10, <1>16, <2>1, <2>2, <2>3 DEF Ready
<1>19. up # <<>> => Calling(M, Last(up), f)
  BY <1>0, <1>1, <1>4, <1>6, <1>10 DEF Calling
<1>20. Tower(Loaded, ext, M, S2, r)
  BY ONLY <1>4, <1>6, <1>9, <1>10, <1>17, <1>18, <1>19, TowerPush
<1>21. Tower(Loaded, ext, DOMAIN local[g], Good(g), stack[g])'
  BY <1>0, <1>11, <1>16, <1>20
<1>22. /\ DOMAIN r = DOMAIN s /\ \A i \in DOMAIN s : i # Len(s) => r[i] = s[i]
       /\ r[Len(s)] = f /\ Last(s) = s[Len(s)] /\ Len(s) \in DOMAIN s /\ 1 \in DOMAIN s
  <2>1. Changed(s, f, r)
    BY <1>3, <1>9 DEF Changed
  <2>2. IsStack(s) /\ s # <<>> /\ IsFrame(f)
    BY <1>1, <1>10
  <2>. QED BY ONLY <2>1, <2>2, ChangeType, TopType, StackType
<1>23. r # <<>> /\ r[1].op = "enc"
  <2>1. r = <<>> => DOMAIN r = {}
    OBVIOUS
  <2>. QED BY <1>7, <1>10, <1>22, <2>1
<1>24. InHand(r, t) /\ \A u : InHand(s, u) => InHand(r, u)
  <2>1. Last(s).at # "kids"
    BY <1>0, <1>1
  <2>. QED BY <1>10, <1>22, <2>1 DEF InHand
<1>25. Mine(g)'
  BY <1>1, <1>11, <1>12, <1>15 DEF Going, Mine
<1>26. Open(g)'
  <2>1. ASSUME NEW u \in DOMAIN local'[g]
        PROVE  /\ ~ einfo'[Obj(g, u)].bound
               /\ InHand(r, u) \/ AllEdges(einfo'[Obj(g, u)].edges, u, S2)
    <3>1. CASE u = t
      BY <1>12, <1>24, <3>1
    <3>2. CASE u \in L
      <4>1. /\ ~ einfo[Obj(g, u)].bound /\ Obj(g, u) \in DOMAIN einfo
            /\ InHand(s, u) \/ AllEdges(einfo[Obj(g, u)].edges, u, S)
        BY <1>1, <1>7, <3>2 DEF Going, Open, Mine, Making
      <4>2. einfo'[Obj(g, u)] = einfo[Obj(g, u)]
        BY <1>12, <4>1
      <4>3. AllEdges(einfo[Obj(g, u)].edges, u, S) => AllEdges(einfo[Obj(g, u)].edges, u, S2)
        BY <1>14, <1>16, EdgesGrow DEF AllEdges
      <4>. QED BY <1>24, <4>1, <4>2, <4>3
    <3>. QED BY <1>11, <2>1, <3>1, <3>2
  <2>. QED BY <1>15, <1>16, <2>1 DEF Open
<1>27. Closed(g)' /\ Empty(g)'
  BY <1>23 DEF Closed, Empty, Making, Plain
<1>28. Registered(g)'
  BY <1>1, <1>7, <1>11, <1>12, <1>15 DEF Going, Registered
<1>. QED BY <1>0, <1>8, <1>21, <1>25, <1>26, <1>27, <1>28 DEF Going

(* An object with all its edges, still unbound.                            *)
LEMMA FilledGoes ==
  ASSUME Builds, Owned, Infos, NEW g \in Gor, Going(g), EncFilled(g)
  PROVE  /\ Going(g)' /\ Obj(g, Top(g).t) \in DOMAIN einfo /\ ~ einfo[Obj(g, Top(g).t)].bound
         /\ einfo' = [einfo EXCEPT ![Obj(g, Top(g).t)] =
                        [edges |-> Top(g).edges, addr |-> @.addr, bound |-> @.bound]]
<1>. PICK L, S, s, r, t, o, e : /\ L = DOMAIN local[g] /\ S = Good(g) /\ s = stack[g] /\ r = stack'[g]
                                /\ t = Top(g).t /\ o = Obj(g, t) /\ e = Top(g).edges
  OBVIOUS
<1>0. /\ stack[g] # <<>> /\ Top(g).op = "enc" /\ Top(g).at = "kids" /\ Top(g).i > Len(Child[t])
      /\ einfo' = [einfo EXCEPT ![local[g][t]].edges = e]
      /\ stack' = [stack EXCEPT ![g] = EncReturned(g, local[g][t])]
      /\ ext' = ext /\ Loaded' = Loaded /\ calls' = calls /\ local' = local
  BY DEF EncFilled, At, univars, Loaded
<1>1. IsStack(s) /\ s # <<>> /\ Top(g) = Last(s) /\ t \in Types /\ DOMAIN stack = Gor /\ Top(g).i \in Nat \ {0}
  BY <1>0, TopOf DEF Builds, Stacks
<1>2. Tower(Loaded, ext, L, S, s)
  BY DEF Going
<1>3. Ready(Loaded, ext, L, S, Top(g))
  BY <1>1, <1>2, TowerPop
<1>4. t \in L /\ Top(g).i <= Len(Child[t]) + 1 /\ EdgesTo(e, t, Top(g).i - 1, S)
  BY <1>0, <1>3 DEF Ready
<1>5. AllEdges(e, t, S)
  <2>1. PICK m, n \in Nat : m = Len(Child[t]) /\ n = Top(g).i
    BY <1>1, ChildType
  <2>2. n > m /\ n <= m + 1
    BY <1>0, <1>4, <2>1
  <2>3. n - 1 = m
    BY ONLY <2>2, m \in Nat, n \in Nat
  <2>. QED BY <1>4, <2>1, <2>3 DEF AllEdges
<1>6. local[g][t] = o /\ o \in DOMAIN einfo /\ o \in S /\ o[3] = t
  <2>1. local[g][t] = o /\ o \in DOMAIN einfo
    BY <1>4 DEF Going, Mine
  <2>2. o \in Range(local[g])
    BY <1>4, <2>1 DEF Range
  <2>3. o = <<g, calls[g], t>>
    BY DEF Obj
  <2>. QED BY <2>1, <2>2, <2>3 DEF Good
<1>7. r = EncReturned(g, o)
  BY <1>0, <1>1, <1>6
<1>8. /\ Tower(Loaded, ext, L, S, r) /\ s[1].op = "enc"
      /\ r = <<>> => local[g] = <<>>
      /\ r # <<>> => Making(r) /\ r[1].op # "uni"
      /\ \A u : InHand(s, u) => InHand(r, u) \/ (Top(g).at = "kids" /\ u = Top(g).t)
  <2>1. /\ Builds /\ g \in Gor /\ stack[g] # <<>> /\ Top(g).op = "enc" /\ o \in S /\ o[3] = Top(g).t
        /\ Tower(Loaded, ext, L, S, stack[g]) /\ r = EncReturned(g, o)
    BY <1>0, <1>2, <1>6, <1>7
  <2>2. Resumed(Loaded, ext, L, S, g, r)
    BY ONLY <2>1, EncReturns
  <2>. QED BY <2>2 DEF Resumed
<1>9. r # <<>>
  <2>1. DOMAIN <<>> = {}
    OBVIOUS
  <2>. QED BY <1>4, <1>8, <2>1
<1>10. ~ einfo[o].bound
  BY <1>1, <1>4, <1>8 DEF Going, Open, Making
<1>11. PICK c : c = [edges |-> e, addr |-> einfo[o].addr, bound |-> einfo[o].bound]
  OBVIOUS
<1>12. einfo' = [einfo EXCEPT ![o] = c]
  <2>1. PICK w : w = einfo[o]
    OBVIOUS
  <2>2. w = [edges |-> w.edges, addr |-> w.addr, bound |-> w.bound]
    BY <1>6, <2>1 DEF Infos
  <2>3. PICK v : v = [w EXCEPT !.edges = e]
    OBVIOUS
  <2>4. v = [edges |-> e, addr |-> w.addr, bound |-> w.bound]
    BY ONLY <2>2, <2>3
  <2>5. einfo' = [einfo EXCEPT ![o] = v]
    BY <1>0, <1>6, <2>1, <2>3
  <2>. QED BY <1>11, <2>1, <2>4, <2>5
<1>13. c.edges = e /\ c.bound = einfo[o].bound
  BY <1>11
<1>14. /\ DOMAIN einfo' = DOMAIN einfo /\ einfo'[o] = c
       /\ \A x \in DOMAIN einfo : x # o => einfo'[x] = einfo[x]
  BY <1>6, <1>12
<1>15. Bound' = Bound
  BY <1>13, <1>14 DEF Bound
<1>16. Good(g)' = S /\ \A u : Obj(g, u)' = Obj(g, u) /\ (Obj(g, u) = o => u = t)
  BY <1>0, <1>15 DEF Good, Range, Obj
<1>17. Tower(Loaded, ext, DOMAIN local[g], Good(g), stack[g])'
  BY <1>0, <1>8, <1>16
<1>18. Mine(g)'
  BY <1>0, <1>14, <1>16 DEF Going, Mine
<1>19. Open(g)'
  <2>1. ASSUME NEW u \in L
        PROVE  ~ einfo'[Obj(g, u)].bound /\ (InHand(r, u) \/ AllEdges(einfo'[Obj(g, u)].edges, u, S))
    <3>1. CASE u = t
      BY <1>5, <1>10, <1>13, <1>14, <3>1
    <3>2. CASE u # t
      <4>1. /\ ~ einfo[Obj(g, u)].bound /\ Obj(g, u) \in DOMAIN einfo
            /\ InHand(s, u) \/ AllEdges(einfo[Obj(g, u)].edges, u, S)
        BY <1>1, <1>8, <2>1 DEF Going, Open, Mine, Making
      <4>2. einfo'[Obj(g, u)] = einfo[Obj(g, u)]
        BY <1>14, <1>16, <3>2, <4>1
      <4>. QED BY <1>8, <3>2, <4>1, <4>2
    <3>. QED BY <3>1, <3>2
  <2>. QED BY <1>0, <1>16, <2>1 DEF Open
<1>20. Closed(g)' /\ Empty(g)'
  BY <1>8, <1>9 DEF Closed, Empty, Plain
<1>21. Registered(g)'
  BY <1>0, <1>1, <1>8, <1>14, <1>16 DEF Going, Registered
<1>22. Going(g)'
  BY <1>17, <1>18, <1>19, <1>20, <1>21 DEF Going
<1>. QED BY <1>6, <1>10, <1>11, <1>12, <1>22

(* A frame that binds or publishes is alone.                               *)
LEMMA BindAlone ==
  ASSUME Builds, NEW g \in Gor, stack[g] # <<>>, Top(g).op = "bind"
  PROVE  DOMAIN stack[g] = {1} /\ stack[g][1] = Top(g) /\ Front(stack[g]) = <<>>
<1>1. /\ IsStack(stack[g]) /\ Alone(stack[g]) /\ Top(g) = Last(stack[g])
  BY TopOf
<1>2. Last(stack[g]) = stack[g][Len(stack[g])] /\ Len(stack[g]) \in DOMAIN stack[g]
  BY <1>1, TopType
<1>3. DOMAIN stack[g] = {1} /\ Len(stack[g]) = 1
  BY <1>1, <1>2 DEF Alone
<1>4. Front(stack[g]) = <<>>
  BY <1>3 DEF Front
<1>. QED BY <1>1, <1>2, <1>3, <1>4

(* All objects of a build are bound at once.                               *)
LEMMA BindGoes ==
  ASSUME Builds, Owned, Infos, NEW g \in Gor, Going(g), EncBind(g)
  PROVE  /\ Going(g)' /\ Bound' = Good(g) /\ stack' = [stack EXCEPT ![g] = stack'[g]]
         /\ \A u \in DOMAIN local[g] :
              /\ local[g][u] = Obj(g, u) /\ Obj(g, u) \in DOMAIN einfo /\ u \in Types
              /\ AllEdges(einfo[Obj(g, u)].edges, u, Good(g)) /\ ~ einfo[Obj(g, u)].bound
         /\ DOMAIN einfo' = DOMAIN einfo
         /\ \A x \in DOMAIN einfo : x \notin Range(local[g]) => einfo'[x] = einfo[x]
         /\ \A x \in Range(local[g]) :
              /\ einfo'[x].edges = einfo[x].edges /\ (einfo'[x].addr <=> x \in MarkNeedsAddr(g))
              /\ einfo'[x] = [edges |-> einfo'[x].edges, addr |-> einfo'[x].addr, bound |-> einfo'[x].bound]
<1>. PICK L, S, s, r, need : /\ L = DOMAIN local[g] /\ S = Good(g) /\ s = stack[g] /\ r = stack'[g]
                             /\ need = MarkNeedsAddr(g)
  OBVIOUS
<1>0. /\ stack[g] # <<>> /\ Top(g).op = "bind" /\ Top(g).at = "mark"
      /\ einfo' = [x \in DOMAIN einfo |->
                     IF x \in Range(local[g])
                     THEN [einfo[x] EXCEPT !.addr = x \in need, !.bound = TRUE] ELSE einfo[x]]
      /\ Goto(g, [Top(g) EXCEPT !.at = "publish"])
      /\ ext' = ext /\ Loaded' = Loaded /\ calls' = calls /\ local' = local
  BY DEF EncBind, At, univars, Loaded
<1>1. DOMAIN s = {1} /\ s[1] = Top(g) /\ Front(s) = <<>> /\ IsFrame(Top(g)) /\ DOMAIN stack = Gor
  BY <1>0, TopOf, BindAlone DEF Builds, Stacks
<1>2. Making(s) /\ \A u : ~ InHand(s, u)
  BY <1>0, <1>1 DEF Making, InHand
<1>3. \A u \in L : /\ ~ einfo[Obj(g, u)].bound /\ Obj(g, u) \in DOMAIN einfo /\ local[g][u] = Obj(g, u)
                   /\ u \in Types /\ AllEdges(einfo[Obj(g, u)].edges, u, S)
  BY <1>2 DEF Going, Open, Mine
<1>4. Range(local[g]) = {Obj(g, u) : u \in L}
  BY <1>3 DEF Range
<1>5. ASSUME NEW x \in Range(local[g])
      PROVE  /\ x \in DOMAIN einfo /\ einfo'[x].bound /\ einfo'[x].edges = einfo[x].edges
             /\ einfo'[x].addr <=> x \in need
             /\ einfo'[x] = [edges |-> einfo'[x].edges, addr |-> einfo'[x].addr, bound |-> einfo'[x].bound]
  <2>1. x \in DOMAIN einfo
    BY <1>3, <1>4
  <2>2. PICK w : w = einfo[x]
    OBVIOUS
  <2>3. w = [edges |-> w.edges, addr |-> w.addr, bound |-> w.bound]
    BY <2>1, <2>2 DEF Infos
  <2>4. PICK v, a : a = (x \in need) /\ v = [w EXCEPT !.addr = a, !.bound = TRUE]
    OBVIOUS
  <2>5. v = [edges |-> w.edges, addr |-> a, bound |-> TRUE]
    BY ONLY <2>3, <2>4
  <2>6. einfo'[x] = v
    BY <1>0, <2>1, <2>2, <2>4
  <2>7. v.edges = w.edges /\ v.addr = a /\ v.bound = TRUE
    BY ONLY <2>5
  <2>8. v.addr <=> x \in need
    BY ONLY <2>4, <2>7, Zenon
  <2>. QED BY <2>1, <2>2, <2>5, <2>6, <2>7, <2>8
<1>6. /\ DOMAIN einfo' = DOMAIN einfo
      /\ \A x \in DOMAIN einfo : x \notin Range(local[g]) => einfo'[x] = einfo[x]
  BY <1>0
<1>7. Bound' = S
  BY <1>5, <1>6 DEF Bound, Good
<1>8. S = Good(g)' /\ \A u : Obj(g, u)' = Obj(g, u)
  BY <1>0, <1>7 DEF Good, Range, Obj
<1>9. PICK f : f = [Top(g) EXCEPT !.at = "publish"] /\ r = Append(<<>>, f) /\ stack' = [stack EXCEPT ![g] = r]
  BY <1>0, <1>1 DEF Goto, Under
<1>10. IsFrame(f) /\ f.op = "bind" /\ f.at = "publish"
  <2>1. PICK p : p = Top(g)
    OBVIOUS
  <2>2. IsFrame(p) /\ p.op = "bind" /\ f = [p EXCEPT !.at = "publish"]
    BY <1>0, <1>1, <1>9, <2>1
  <2>. QED BY ONLY <2>2, FrameAt
<1>11. r = <<f>>
  BY <1>9
<1>12. /\ Tower(Loaded, ext, L, S, r) /\ r # <<>> /\ r[1] = f
  <2>1. Ready(Loaded, ext, L, S, f)
    BY <1>10 DEF Ready
  <2>. QED BY <1>10, <1>11, <2>1, OneTower
<1>13. Tower(Loaded, ext, DOMAIN local[g], Good(g), stack[g])'
  BY <1>0, <1>8, <1>12
<1>14. Mine(g)'
  BY <1>0, <1>6, <1>8 DEF Going, Mine
<1>15. Open(g)' /\ Registered(g)' /\ Empty(g)'
  BY <1>10, <1>12 DEF Open, Registered, Empty, Making, Plain
<1>16. Closed(g)'
  <2>1. \A u \in L : einfo'[Obj(g, u)].bound
    BY <1>4, <1>5
  <2>. QED BY <1>0, <1>8, <2>1 DEF Closed
<1>17. Going(g)'
  BY <1>13, <1>14, <1>15, <1>16 DEF Going
<1>. QED BY <1>3, <1>5, <1>6, <1>7, <1>9, <1>17

(* Published one by one.                                                   *)
LEMMA PublishGoes ==
  ASSUME Builds, Owned, Infos, NEW g \in Gor, Going(g), NEW t \in Types, EncPublish(g, t)
  PROVE  /\ Going(g)' /\ local[g][t] \in Bound /\ local[g][t][3] = t
<1>0. /\ stack[g] # <<>> /\ Top(g).op = "bind" /\ Top(g).at = "publish" /\ t \in DOMAIN local[g]
      /\ einfo' = einfo /\ ext' = ext /\ Loaded' = Loaded /\ calls' = calls
  BY DEF EncPublish, At, univars, Loaded
<1>1. PICK rest : /\ rest = [u \in DOMAIN local[g] \ {t} |-> local[g][u]]
                  /\ local' = [local EXCEPT ![g] = rest]
                  /\ stack' = IF DOMAIN rest = {} THEN [stack EXCEPT ![g] = <<>>] ELSE stack
  BY DEF EncPublish
<1>2. /\ local'[g] = rest /\ DOMAIN rest \subseteq DOMAIN local[g] /\ DOMAIN stack = Gor
      /\ \A u \in DOMAIN rest : rest[u] = local[g][u]
  BY <1>1 DEF Owned, Builds, Stacks
<1>3. DOMAIN stack[g] = {1} /\ stack[g][1] = Top(g) /\ IsFrame(Top(g))
  BY <1>0, TopOf, BindAlone
<1>4. ~ Making(stack[g]) /\ ~ Plain(stack[g]) /\ stack[g][1].op = "bind"
  BY <1>0, <1>3 DEF Making, Plain
<1>5. \A u \in DOMAIN local[g] : /\ u \in Types /\ local[g][u] = Obj(g, u) /\ Obj(g, u) \in DOMAIN einfo
                                 /\ einfo[Obj(g, u)].bound
  BY <1>4 DEF Going, Mine, Closed
<1>6. local[g][t] \in Bound /\ local[g][t][3] = t
  <2>1. local[g][t] = <<g, calls[g], t>>
    BY <1>0, <1>5 DEF Obj
  <2>2. local[g][t] \in Bound
    BY <1>0, <1>5 DEF Bound
  <2>. QED BY <2>1, <2>2
<1>7. CASE DOMAIN rest = {}
  <2>1. stack'[g] = <<>> /\ DOMAIN local'[g] = {}
    BY <1>1, <1>2, <1>7
  <2>. QED BY <1>6, <2>1, EmptyGoes
<1>8. CASE DOMAIN rest # {}
  <2>1. stack'[g] = stack[g]
    BY <1>1, <1>8
  <2>2. \A u : Obj(g, u)' = Obj(g, u)
    BY <1>0 DEF Obj
  <2>3. Tower(Loaded, ext, DOMAIN local[g], Good(g), stack[g])'
    <3>1. PICK f : f = Top(g)
      OBVIOUS
    <3>2. \A K, X, L, S : Ready(K, X, L, S, f)
      BY <1>0, <3>1 DEF Ready
    <3>3. \A K, X, L, S : Tower(K, X, L, S, stack[g])
      BY <1>0, <1>3, <3>1, <3>2 DEF Tower
    <3>. QED BY <2>1, <3>3
  <2>4. Mine(g)' /\ Closed(g)'
    BY <1>0, <1>2, <1>5, <2>1, <2>2 DEF Mine, Closed
  <2>5. Open(g)' /\ Registered(g)' /\ Empty(g)'
    BY <1>4, <2>1 DEF Open, Registered, Empty
  <2>. QED BY <1>6, <2>3, <2>4, <2>5 DEF Going
<1>. QED BY <1>7, <1>8

(* A call has neither frames nor objects before it.                        *)
LEMMA CallGoes ==
  ASSUME Builds, Owned, Infos, Counted, NEW g \in Gor, Going(g), NEW t \in Types,
         UniTypeOf(g, t) \/ EncTypeInfoOf(g, t)
  PROVE  Going(g)'
<1>1. DOMAIN stack = Gor /\ stack[g] = <<>> /\ calls[g] \in Nat
  <2>1. MaxCalls \in Nat
    BY ChildAssumption
  <2>. QED BY <2>1 DEF UniTypeOf, EncTypeInfoOf, Builds, Stacks, Counted
<1>2. CASE UniTypeOf(g, t)
  <2>1. stack'[g] = <<Frame("uni", t)>> /\ local' = local
    BY <1>1, <1>2 DEF UniTypeOf, encvars
  <2>2. DOMAIN local[g] = {}
    BY <1>1 DEF Going, Empty, Plain
  <2>. QED BY <2>1, <2>2, FirstGoes
<1>3. CASE EncTypeInfoOf(g, t)
  <2>1. /\ stack'[g] = <<Frame("enc", t)>> /\ local' = [local EXCEPT ![g] = <<>>] /\ einfo' = einfo
        /\ calls' = [calls EXCEPT ![g] = @ + 1]
    BY <1>1, <1>3 DEF EncTypeInfoOf
  <2>2. DOMAIN local'[g] = {}
    <3>1. DOMAIN <<>> = {}
      OBVIOUS
    <3>. QED BY <2>1, <3>1 DEF Owned
  <2>3. ASSUME NEW u \in Types
        PROVE  Obj(g, u)' \notin DOMAIN einfo'
    <3>1. calls'[g] = calls[g] + 1
      BY <2>1 DEF Counted
    <3>2. PICK o : o = Obj(g, u)'
      OBVIOUS
    <3>3. o = <<g, calls[g] + 1, u>>
      BY <3>1, <3>2 DEF Obj
    <3>4. o[1] = g /\ o[2] = calls[g] + 1
      BY <3>3
    <3>5. calls[g] + 1 \notin 0 .. calls[g]
      BY <1>1
    <3>. QED BY <2>1, <3>2, <3>4, <3>5 DEF Infos
  <2>. QED BY <2>1, <2>2, <2>3, FirstGoes
<1>. QED BY <1>2, <1>3

(***************************************************************************)
(* What markNeedsAddr computes.                                            *)
(***************************************************************************)
(* A nonempty set of naturals has a least element.                         *)
LEMMA LeastNatural ==
  ASSUME NEW S, S \subseteq Nat, S # {}
  PROVE  \E x \in S : \A y \in S : x <= y
<1>1. PICK x \in S : \A y \in S : ~(<<y, x>> \in OpToRel(<, Nat))
  BY WFMin, NatLessThanWellFounded
<1>2. \A y \in S : ~(y < x)
  BY <1>1 DEF OpToRel
<1>. QED BY <1>2

(* Induction up to N, with a set for the property.                         *)
LEMMA SetInduction ==
  ASSUME NEW N \in Nat, NEW S, 0 \in S,
         ASSUME NEW n \in 0 .. N - 1, n \in S PROVE n + 1 \in S
  PROVE  0 .. N \subseteq S
<1>. SUFFICES ASSUME (0 .. N) \ S # {} PROVE FALSE
  OBVIOUS
<1>1. PICK n \in (0 .. N) \ S : \A m \in (0 .. N) \ S : n <= m
  <2>1. (0 .. N) \ S \subseteq Nat
    OBVIOUS
  <2>. QED BY <2>1, LeastNatural
<1>2. n - 1 \in 0 .. N - 1 /\ n - 1 + 1 = n
  BY <1>1
<1>3. n - 1 \in S
  BY <1>1, <1>2
<1>4. n - 1 + 1 \in S
  BY <1>2, <1>3
<1>. QED BY <1>1, <1>2, <1>4

(* A function followed up to N steps.                                        *)
Iterates(F, a, C, N, f) ==
  f \in [0 .. N -> C] /\ f[0] = a /\ \A n \in 1 .. N : f[n] = F[f[n - 1]]

(* It exists.                                                              *)
LEMMA Recursion ==
  ASSUME NEW N \in Nat, NEW C, NEW F \in [C -> C], NEW a \in C
  PROVE  \E f : Iterates(F, a, C, N, f)
<1>. DEFINE S == {n \in 0 .. N : \E f \in [0 .. n -> C] :
                                   f[0] = a /\ \A m \in 1 .. n : f[m] = F[f[m - 1]]}
<1>1. 0 \in S
  <2>1. PICK f : f = [m \in 0 .. 0 |-> a]
    OBVIOUS
  <2>2. f \in [0 .. 0 -> C] /\ f[0] = a /\ \A m \in 1 .. 0 : f[m] = F[f[m - 1]]
    BY <2>1
  <2>3. 0 \in 0 .. N
    OBVIOUS
  <2>. QED BY <2>2, <2>3
<1>2. ASSUME NEW n \in 0 .. N - 1, n \in S
      PROVE  n + 1 \in S
  <2>1. PICK f \in [0 .. n -> C] : f[0] = a /\ \A m \in 1 .. n : f[m] = F[f[m - 1]]
    BY <1>2
  <2>2. PICK h : h = [m \in 0 .. n + 1 |-> IF m = n + 1 THEN F[f[n]] ELSE f[m]]
    OBVIOUS
  <2>3. /\ n \in Nat /\ n + 1 \in 0 .. N /\ n \in 0 .. n /\ 0 \in 0 .. n
        /\ \A m \in 0 .. n : m \in 0 .. n + 1 /\ m # n + 1
        /\ \A m \in 0 .. n + 1 : m = n + 1 \/ m \in 0 .. n
        /\ \A m \in 1 .. n + 1 : m - 1 \in 0 .. n /\ (m = n + 1 => m - 1 = n) /\ m \in 0 .. n + 1
                                 /\ (m # n + 1 => m \in 1 .. n)
    OBVIOUS
  <2>4. f[n] \in C /\ F[f[n]] \in C
    BY <2>1, <2>3
  <2>5. \A m \in 0 .. n : h[m] = f[m]
    BY <2>2, <2>3
  <2>6. h[n + 1] = F[f[n]]
    BY <2>2, <2>3
  <2>7. h \in [0 .. n + 1 -> C]
    <3>1. \A m \in 0 .. n + 1 : h[m] \in C
      BY <2>1, <2>3, <2>4, <2>5, <2>6
    <3>. QED BY <2>2, <3>1
  <2>8. ASSUME NEW m \in 1 .. n + 1
        PROVE  h[m] = F[h[m - 1]]
    <3>1. CASE m = n + 1
      BY <2>3, <2>5, <2>6, <3>1
    <3>2. CASE m # n + 1
      <4>1. m \in 1 .. n /\ m \in 0 .. n /\ m - 1 \in 0 .. n
        BY <2>3, <3>2
      <4>. QED BY <2>1, <2>5, <4>1
    <3>. QED BY <3>1, <3>2
  <2>9. h[0] = a
    BY <2>1, <2>3, <2>5
  <2>. QED BY <2>3, <2>7, <2>8, <2>9
<1>. HIDE DEF S
<1>3. 0 .. N \subseteq S
  BY <1>1, <1>2, SetInduction
<1>4. N \in S
  BY <1>3
<1>. QED BY <1>4 DEF S, Iterates

(* The levels of inline storage that NeedsAddrRef looks through.           *)
LEMMA NeedsLevels ==
  \E f : /\ NeedsAddrRef = f[Cardinality(Types)]
         /\ \A n \in 0 .. Cardinality(Types) :
              f[n] = {t \in Types : IF Hook[t] # "none" THEN Hook[t] = "addr"
                                    ELSE n > 0 /\ \E u \in Inline[t] : u \in f[n - 1]}
<1>. DEFINE N == Cardinality(Types)
            Body(n, X) == {t \in Types : IF Hook[t] # "none" THEN Hook[t] = "addr"
                                         ELSE n > 0 /\ \E u \in Inline[t] : u \in X}
            G(f) == [n \in 0 .. N |-> Body(n, f[n - 1])]
            Needs[n \in 0 .. N] ==
              {t \in Types : IF Hook[t] # "none" THEN Hook[t] = "addr"
                             ELSE n > 0 /\ \E u \in Inline[t] : u \in Needs[n - 1]}
<1>1. N \in Nat
  BY InlineAssumption, FS_CardinalityType
<1>2. NeedsAddrRef = Needs[N]
  BY DEF NeedsAddrRef
<1>3. Needs = CHOOSE f : f = G(f)
  OBVIOUS
<1>. HIDE DEF N, Needs
<1>4. \E f : f = G(f)
  <2>1. PICK F : F = [X \in SUBSET Types |-> Body(1, X)]
    OBVIOUS
  <2>2. F \in [SUBSET Types -> SUBSET Types] /\ Body(0, {}) \in SUBSET Types
    BY <2>1
  <2>3. PICK f \in [0 .. N -> SUBSET Types] : f[0] = Body(0, {}) /\ \A n \in 1 .. N : f[n] = F[f[n - 1]]
    <3>1. PICK a : a = Body(0, {})
      OBVIOUS
    <3>2. N \in Nat /\ F \in [SUBSET Types -> SUBSET Types] /\ a \in SUBSET Types
      BY <1>1, <2>2, <3>1
    <3>3. \E f \in [0 .. N -> SUBSET Types] : f[0] = a /\ \A n \in 1 .. N : f[n] = F[f[n - 1]]
      <4>1. PICK C : C = SUBSET Types
        OBVIOUS
      <4>2. N \in Nat /\ F \in [C -> C] /\ a \in C
        BY <3>2, <4>1
      <4>3. \E f : Iterates(F, a, C, N, f)
        BY ONLY <4>2, Recursion
      <4>. QED BY <4>1, <4>3 DEF Iterates
    <3>. QED BY <3>1, <3>3
  <2>4. ASSUME NEW n \in 0 .. N
        PROVE  f[n] = Body(n, f[n - 1])
    <3>1. CASE n = 0
      BY <2>3, <3>1
    <3>2. CASE n # 0
      <4>1. n \in 1 .. N /\ n - 1 \in 0 .. N /\ n > 0
        BY <1>1, <3>2
      <4>2. f[n] = Body(1, f[n - 1])
        BY <2>1, <2>3, <4>1
      <4>3. PICK X : X = f[n - 1]
        OBVIOUS
      <4>4. Body(n, X) = Body(1, X)
        BY <4>1
      <4>. QED BY <4>2, <4>3, <4>4
    <3>. QED BY <3>1, <3>2
  <2>. HIDE DEF Body
  <2>5. f = [n \in 0 .. N |-> f[n]]
    BY <2>3
  <2>6. f = G(f)
    BY <2>4, <2>5
  <2>. QED BY <2>6
<1>. HIDE DEF G
<1>5. Needs = G(Needs)
  BY <1>3, <1>4
<1>6. \A n \in 0 .. N : Needs[n] = Body(n, Needs[n - 1])
  BY <1>5 DEF G
<1>. QED BY <1>2, <1>6 DEF N

(* Inline storage is among the children.                                   *)
LEMMA InlineType ==
  ASSUME NEW t \in Types
  PROVE  /\ Inline[t] \subseteq Types
         /\ \A u \in Inline[t] : \E k \in 1 .. Len(Child[t]) : Child[t][k] = u
<1>1. Child[t] \in Seq(Types) /\ Inline[t] \subseteq ToSet(Child[t])
  BY ChildAssumption
<1>. PICK c : c = Child[t]
  OBVIOUS
<1>2. DOMAIN c = 1 .. Len(c) /\ \A k \in 1 .. Len(c) : c[k] \in Types
  BY <1>1, LenProperties, ElementOfSeq
<1>. QED BY <1>1, <1>2 DEF ToSet

(* NeedsAddrRef is what its equation says: by then every level of inline   *)
(* storage has been looked through.                                        *)
LEMMA NeedsExact ==
  \A t \in Types : t \in NeedsAddrRef <=> IF Hook[t] # "none" THEN Hook[t] = "addr"
                                          ELSE \E u \in Inline[t] : u \in NeedsAddrRef
<1>. PICK N : N = Cardinality(Types)
  OBVIOUS
<1>1. N \in Nat
  BY InlineAssumption, FS_CardinalityType
<1>2. PICK depth \in [Types -> 0 .. N] : \A t \in Types : \A u \in Inline[t] : depth[u] < depth[t]
  BY InlineAssumption
<1>3. \A t \in Types : Inline[t] \subseteq Types
  BY ChildAssumption, InlineType
<1>4. PICK f : /\ NeedsAddrRef = f[N]
               /\ \A n \in 0 .. N :
                    f[n] = {t \in Types : IF Hook[t] # "none" THEN Hook[t] = "addr"
                                          ELSE n > 0 /\ \E u \in Inline[t] : u \in f[n - 1]}
  BY NeedsLevels
<1>5. \A n \in 0 .. N, t \in Types :
        t \in f[n] <=> IF Hook[t] # "none" THEN Hook[t] = "addr"
                       ELSE n > 0 /\ \E u \in Inline[t] : u \in f[n - 1]
  BY <1>4
<1>. DEFINE Same(t) == \A m \in depth[t] .. N : t \in f[m] <=> t \in f[N]
            S == {n \in 0 .. N + 1 : \A t \in Types : depth[t] < n => Same(t)}
<1>6. 0 \in S
  BY <1>1, <1>2
<1>7. ASSUME NEW n \in 0 .. N, n \in S
      PROVE  n + 1 \in S
  <2>1. ASSUME NEW t \in Types, depth[t] < n + 1
        PROVE  Same(t)
    <3>. SUFFICES ASSUME NEW m \in depth[t] .. N PROVE t \in f[m] <=> t \in f[N]
      OBVIOUS
    <3>1. m \in 0 .. N /\ N \in 0 .. N /\ depth[t] \in 0 .. N
      BY <1>1, <1>2
    <3>2. ASSUME NEW u \in Inline[t]
          PROVE  /\ m > 0 /\ N > 0 /\ u \in Types
                 /\ u \in f[m - 1] <=> u \in f[N]
                 /\ u \in f[N - 1] <=> u \in f[N]
      <4>1. u \in Types /\ depth[u] < depth[t] /\ depth[u] \in 0 .. N
        BY <1>2, <1>3
      <4>2. PICK d, e \in 0 .. N : d = depth[u] /\ e = depth[t]
        BY <3>1, <4>1
      <4>3. d < e /\ e < n + 1 /\ m \in e .. N
        BY <2>1, <4>1, <4>2
      <4>4. m > 0 /\ N > 0 /\ d < n /\ m - 1 \in d .. N /\ N - 1 \in d .. N
        BY ONLY <1>1, <4>3, d \in 0 .. N, e \in 0 .. N, n \in 0 .. N
      <4>5. Same(u)
        BY <1>7, <4>1, <4>2, <4>4
      <4>. QED BY <4>1, <4>2, <4>4, <4>5
    <3>3. t \in f[m] <=> IF Hook[t] # "none" THEN Hook[t] = "addr" ELSE \E u \in Inline[t] : u \in f[N]
      BY <1>5, <3>1, <3>2
    <3>4. t \in f[N] <=> IF Hook[t] # "none" THEN Hook[t] = "addr" ELSE \E u \in Inline[t] : u \in f[N]
      BY <1>5, <3>1, <3>2
    <3>. QED BY <3>3, <3>4
  <2>2. n + 1 \in 0 .. N + 1
    BY <1>1
  <2>. HIDE DEF Same
  <2>. QED BY <2>1, <2>2
<1>. HIDE DEF Same, S
<1>8. N + 1 \in S
  <2>1. N + 1 \in Nat /\ (N + 1) - 1 = N /\ N + 1 \in 0 .. N + 1
    BY <1>1
  <2>2. PICK M \in Nat : M = N + 1
    BY <2>1
  <2>3. \A n \in 0 .. M - 1 : n \in S => n + 1 \in S
    BY <1>7, <2>1, <2>2
  <2>4. 0 .. M \subseteq S
    BY ONLY <1>6, <2>3, M \in Nat, SetInduction
  <2>. QED BY <2>1, <2>2, <2>4
<1>9. \A t \in Types : Same(t)
  <2>1. \A k \in 0 .. N : k < N + 1
    BY <1>1
  <2>. QED BY <1>2, <1>8, <2>1 DEF S
<1>10. ASSUME NEW t \in Types
       PROVE  t \in NeedsAddrRef <=> IF Hook[t] # "none" THEN Hook[t] = "addr"
                                     ELSE \E u \in Inline[t] : u \in NeedsAddrRef
  <2>1. N \in 0 .. N
    BY <1>1
  <2>2. ASSUME NEW u \in Inline[t]
        PROVE  N > 0 /\ (u \in f[N - 1] <=> u \in f[N])
    <3>1. u \in Types /\ depth[u] < depth[t] /\ depth[u] \in 0 .. N /\ depth[t] \in 0 .. N
      BY <1>2, <1>3
    <3>2. N > 0 /\ N - 1 \in depth[u] .. N
      BY <1>1, <3>1
    <3>. QED BY <1>9, <3>1, <3>2 DEF Same
  <2>. QED BY <1>4, <1>5, <2>1, <2>2
<1>. QED BY <1>10

(* The levels that markNeedsAddr looks through: X are the objects marked   *)
(* one level less deep.                                                    *)
Marked(g, n, X) ==
  {o \in DOMAIN einfo :
     IF o \notin Range(local[g]) THEN einfo[o].addr
     ELSE IF Hook[o[3]] # "none" THEN Hook[o[3]] = "addr"
     ELSE n > 0 /\ \E i \in DOMAIN einfo[o].edges :
                     /\ einfo[o].edges[i][3] \in Inline[o[3]]
                     /\ einfo[o].edges[i] \in X}

(* markNeedsAddr climbs them one by one.                                   *)
LEMMA MarkLevels ==
  ASSUME NEW g
  PROVE  \E f : /\ MarkNeedsAddr(g) = f[Cardinality(Types)]
                /\ \A n \in 0 .. Cardinality(Types) : f[n] = Marked(g, n, f[n - 1])
<1>. DEFINE N == Cardinality(Types)
            G(f) == [n \in 0 .. N |-> Marked(g, n, f[n - 1])]
            mark[n \in 0 .. N] ==
              {o \in DOMAIN einfo :
                 IF o \notin Range(local[g]) THEN einfo[o].addr
                 ELSE IF Hook[o[3]] # "none" THEN Hook[o[3]] = "addr"
                 ELSE n > 0 /\ \E i \in DOMAIN einfo[o].edges :
                                 /\ einfo[o].edges[i][3] \in Inline[o[3]]
                                 /\ einfo[o].edges[i] \in mark[n - 1]}
<1>1. N \in Nat
  BY InlineAssumption, FS_CardinalityType
<1>2. MarkNeedsAddr(g) = mark[N]
  BY DEF MarkNeedsAddr
<1>3. mark = CHOOSE f : f = G(f)
  BY DEF Marked
<1>. HIDE DEF N, mark
<1>4. \E f : f = G(f)
  <2>1. PICK C, F, a : C = SUBSET DOMAIN einfo /\ F = [X \in C |-> Marked(g, 1, X)] /\ a = Marked(g, 0, {})
    OBVIOUS
  <2>2. \A n, X : Marked(g, n, X) \in SUBSET DOMAIN einfo
    BY DEF Marked
  <2>3. \A n, X : n > 0 => Marked(g, n, X) = Marked(g, 1, X)
    BY DEF Marked
  <2>4. \A X : Marked(g, 0, X) = Marked(g, 0, {})
    BY DEF Marked
  <2>5. F \in [C -> C] /\ a \in C
    BY <2>1, <2>2
  <2>6. PICK f : Iterates(F, a, C, N, f)
    BY ONLY <1>1, <2>5, Recursion
  <2>7. ASSUME NEW n \in 0 .. N
        PROVE  f[n] = Marked(g, n, f[n - 1])
    <3>1. CASE n = 0
      BY <2>1, <2>4, <2>6, <3>1 DEF Iterates
    <3>2. CASE n # 0
      <4>1. n \in 1 .. N /\ n - 1 \in 0 .. N /\ n > 0
        BY <1>1, <3>2
      <4>. QED BY <2>1, <2>3, <2>6, <4>1 DEF Iterates
    <3>. QED BY <3>1, <3>2
  <2>8. f = [n \in 0 .. N |-> f[n]]
    BY <2>6 DEF Iterates
  <2>. QED BY <2>7, <2>8
<1>. HIDE DEF G
<1>5. mark = G(mark)
  BY <1>3, <1>4
<1>6. \A n \in 0 .. N : mark[n] = Marked(g, n, mark[n - 1])
  BY <1>5 DEF G
<1>. QED BY <1>2, <1>6 DEF N

(* markNeedsAddr agrees with the definition on every object it binds:      *)
(* objects of other builds carry the right flag already.                   *)
LEMMA MarksExact ==
  ASSUME Infos, NEW g \in Gor,
         \A u \in DOMAIN local[g] :
           /\ local[g][u] = Obj(g, u) /\ Obj(g, u) \in DOMAIN einfo /\ u \in Types
           /\ AllEdges(einfo[Obj(g, u)].edges, u, Good(g))
  PROVE  \A o \in Range(local[g]) : o \in MarkNeedsAddr(g) <=> o[3] \in NeedsAddrRef
<1>. PICK N, Own : N = Cardinality(Types) /\ Own = Range(local[g])
  OBVIOUS
<1>1. N \in Nat
  BY InlineAssumption, FS_CardinalityType
<1>2. PICK depth \in [Types -> 0 .. N] : \A t \in Types : \A u \in Inline[t] : depth[u] < depth[t]
  BY InlineAssumption
<1>3. PICK f : /\ MarkNeedsAddr(g) = f[Cardinality(Types)]
               /\ \A n \in 0 .. Cardinality(Types) : f[n] = Marked(g, n, f[n - 1])
  BY MarkLevels
<1>4. ASSUME NEW o \in Own
      PROVE  /\ o \in DOMAIN einfo /\ o[3] \in Types
             /\ AllEdges(einfo[o].edges, o[3], Bound \cup Own)
  <2>1. PICK u \in DOMAIN local[g] : o = local[g][u]
    BY DEF Range
  <2>2. o = <<g, calls[g], u>>
    BY <2>1 DEF Obj
  <2>3. o[3] = u
    BY <2>2
  <2>. QED BY <2>1, <2>3 DEF Good
<1>5. ASSUME NEW o \in Bound, o \notin Own, NEW n \in 0 .. N
      PROVE  o \in f[n] <=> o[3] \in NeedsAddrRef
  <2>1. o \in DOMAIN einfo /\ (einfo[o].addr <=> o[3] \in NeedsAddrRef)
    BY DEF Infos, Whole, Bound
  <2>2. f[n] = Marked(g, n, f[n - 1])
    BY <1>3
  <2>. QED BY <1>5, <2>1, <2>2 DEF Marked
<1>6. ASSUME NEW o \in Own, NEW n \in 0 .. N
      PROVE  o \in f[n] <=> IF Hook[o[3]] # "none" THEN Hook[o[3]] = "addr"
                            ELSE n > 0 /\ \E i \in DOMAIN einfo[o].edges :
                                            /\ einfo[o].edges[i][3] \in Inline[o[3]]
                                            /\ einfo[o].edges[i] \in f[n - 1]
  <2>1. f[n] = Marked(g, n, f[n - 1])
    BY <1>3
  <2>. QED BY <1>4, <2>1 DEF Marked
<1>. DEFINE Right(o) == \A m \in depth[o[3]] .. N : o \in f[m] <=> o[3] \in NeedsAddrRef
            S == {n \in 0 .. N + 1 : \A o \in Own : depth[o[3]] < n => Right(o)}
<1>7. 0 \in S
  BY <1>1, <1>2, <1>4
<1>8. ASSUME NEW n \in 0 .. N, n \in S
      PROVE  n + 1 \in S
  <2>1. ASSUME NEW o \in Own, depth[o[3]] < n + 1
        PROVE  Right(o)
    <3>. SUFFICES ASSUME NEW m \in depth[o[3]] .. N PROVE o \in f[m] <=> o[3] \in NeedsAddrRef
      OBVIOUS
    <3>. PICK t, e : t = o[3] /\ e = einfo[o].edges
      OBVIOUS
    <3>1. t \in Types /\ depth[t] \in 0 .. N /\ m \in 0 .. N /\ o \in DOMAIN einfo
      BY <1>1, <1>2, <1>4
    <3>2. Len(e) \in Nat /\ Len(e) = Len(Child[t]) /\ DOMAIN e = 1 .. Len(e)
          /\ \A k \in 1 .. Len(e) : e[k] \in Bound \cup Own /\ e[k][3] = Child[t][k]
      <4>1. e \in Seq(Bound \cup Own) /\ Len(e) = Len(Child[t])
            /\ \A k \in 1 .. Len(Child[t]) : e[k][3] = Child[t][k]
        BY <1>4 DEF AllEdges, EdgesTo
      <4>. QED BY <4>1, LenProperties, ElementOfSeq
    <3>3. ASSUME NEW k \in 1 .. Len(e), e[k][3] \in Inline[t]
          PROVE  m > 0 /\ (e[k] \in f[m - 1] <=> e[k][3] \in NeedsAddrRef)
      <4>. PICK q, u : q = e[k] /\ u = q[3]
        OBVIOUS
      <4>1. u \in Types /\ depth[u] < depth[t] /\ depth[u] \in 0 .. N
        BY <1>2, <3>1, <3>3, InlineType
      <4>2. PICK a, b \in 0 .. N : a = depth[u] /\ b = depth[t]
        BY <3>1, <4>1
      <4>3. a < b /\ b < n + 1 /\ m \in b .. N
        BY <2>1, <4>1, <4>2
      <4>4. m > 0 /\ a < n /\ m - 1 \in a .. N /\ m - 1 \in 0 .. N
        BY ONLY <1>1, <4>3, a \in 0 .. N, b \in 0 .. N, n \in 0 .. N
      <4>5. CASE q \in Own
        <5>1. Right(q)
          BY <1>8, <4>2, <4>4, <4>5
        <5>. QED BY <4>2, <4>4, <5>1
      <4>6. CASE q \notin Own
        <5>1. q \in Bound
          BY <3>2, <4>6
        <5>. QED BY <1>5, <4>4, <4>6, <5>1
      <4>. QED BY <4>5, <4>6
    <3>4. \A u \in Inline[t] : \E k \in 1 .. Len(e) : e[k][3] = u
      <4>1. \A u \in Inline[t] : \E k \in 1 .. Len(Child[t]) : Child[t][k] = u
        BY <3>1, InlineType
      <4>2. PICK c, l : c = Child[t] /\ l = Len(e)
        OBVIOUS
      <4>3. l = Len(c) /\ \A k \in 1 .. l : e[k][3] = c[k]
        BY <3>2, <4>2
      <4>4. \A u \in Inline[t] : \E k \in 1 .. l : c[k] = u
        BY <4>1, <4>2, <4>3
      <4>. QED BY ONLY <4>2, <4>3, <4>4
    <3>5. o \in f[m] <=> IF Hook[t] # "none" THEN Hook[t] = "addr"
                         ELSE m > 0 /\ \E k \in 1 .. Len(e) : e[k][3] \in Inline[t] /\ e[k] \in f[m - 1]
      BY <1>6, <3>1, <3>2
    <3>6. (m > 0 /\ \E k \in 1 .. Len(e) : e[k][3] \in Inline[t] /\ e[k] \in f[m - 1])
            <=> \E u \in Inline[t] : u \in NeedsAddrRef
      BY <3>3, <3>4
    <3>7. t \in NeedsAddrRef <=> IF Hook[t] # "none" THEN Hook[t] = "addr"
                                 ELSE \E u \in Inline[t] : u \in NeedsAddrRef
      BY <3>1, NeedsExact
    <3>. QED BY <3>5, <3>6, <3>7
  <2>2. n + 1 \in 0 .. N + 1
    BY <1>1
  <2>. HIDE DEF Right
  <2>. QED BY <2>1, <2>2
<1>. HIDE DEF Right, S
<1>9. N + 1 \in S
  <2>1. N + 1 \in Nat /\ (N + 1) - 1 = N /\ N + 1 \in 0 .. N + 1
    BY <1>1
  <2>2. PICK M \in Nat : M = N + 1
    BY <2>1
  <2>3. \A n \in 0 .. M - 1 : n \in S => n + 1 \in S
    BY <1>8, <2>1, <2>2
  <2>4. 0 .. M \subseteq S
    BY ONLY <1>7, <2>3, M \in Nat, SetInduction
  <2>. QED BY <2>1, <2>2, <2>4
<1>10. ASSUME NEW o \in Own
       PROVE  o \in f[N] <=> o[3] \in NeedsAddrRef
  <2>1. depth[o[3]] \in 0 .. N
    BY <1>2, <1>4
  <2>2. depth[o[3]] < N + 1 /\ N \in depth[o[3]] .. N
    BY <1>1, <2>1
  <2>. QED BY <1>9, <2>2 DEF S, Right
<1>. QED BY <1>3, <1>10

(***************************************************************************)
(* The invariant of the encoder's cache.                                   *)
(***************************************************************************)
Typ(g) ==
  \/ PartialShell(g) \/ LoadHit(g) \/ LoadPending(g) \/ LoadMiss(g) \/ Wake(g)
  \/ StoreWin(g) \/ StoreLose(g) \/ BuildChild(g) \/ Publish(g) \/ CloseDone(g)

(* The cache of UniTypes.                                                  *)
LEMMA CachedStep ==
  ASSUME Builds, Known, Cached, NEW g \in Gor, Going(g), Step(g) \/ Call(g)
  PROVE  Cached'
<1>1. CASE UNCHANGED <<cache, open, ext>>
  BY <1>1 DEF Cached
<1>2. CASE StoreWin(g)
  BY <1>2, TopOf DEF StoreWin, Cached, Known
<1>3. CASE Publish(g)
  BY <1>3, TopOf DEF Publish, Cached, Known
<1>4. CASE CloseDone(g)
  <2>1. stack[g] # <<>> /\ Top(g).at = "close" /\ cache' = cache /\ ext' = ext /\ open' = open \ {Top(g).t}
    BY <1>4 DEF CloseDone
  <2>2. IsFrame(Top(g)) /\ IsStack(stack[g]) /\ Top(g) = Last(stack[g])
    BY <2>1, TopOf
  <2>3. Top(g).op \in {"uni", "part"}
    BY <2>1, <2>2, PlaceTells
  <2>4. Ready(Loaded, ext, DOMAIN local[g], Good(g), Top(g))
    BY <2>1, <2>2, TowerPop DEF Going
  <2>5. Top(g).t \in ext
    BY <2>1, <2>3, <2>4 DEF Ready
  <2>. QED BY <2>1, <2>5 DEF Cached
<1>5. CASE \/ PartialShell(g) \/ LoadHit(g) \/ LoadPending(g) \/ LoadMiss(g) \/ Wake(g)
           \/ StoreLose(g) \/ BuildChild(g)
  BY <1>1, <1>5 DEF PartialShell, LoadHit, LoadPending, LoadMiss, Wake, StoreLose, BuildChild, univars
<1>6. CASE \/ EncHit(g) \/ EncInFlight(g) \/ EncMiss(g) \/ EncShell(g) \/ EncChild(g)
           \/ EncFilled(g) \/ EncBind(g) \/ \E t \in Types : EncPublish(g, t)
  BY <1>1, <1>6 DEF EncHit, EncInFlight, EncMiss, EncShell, EncChild, EncFilled, EncBind,
                    EncPublish, univars
<1>7. CASE Call(g)
  BY <1>1, <1>7 DEF Call, UniTypeOf, EncTypeInfoOf, univars
<1>. QED BY <1>2, <1>3, <1>4, <1>5, <1>6, <1>7 DEF Step

(* A step that makes and changes no object.                                *)
LEMMA InfosKept ==
  ASSUME Infos, UNCHANGED <<einfo, epub>>, \A h \in Gor : 0 .. calls[h] \subseteq 0 .. calls'[h]
  PROVE  Infos'
<1>1. Bound' = Bound
  BY DEF Bound
<1>2. \A o \in DOMAIN einfo : Whole(o)' = Whole(o)
  BY <1>1 DEF Whole
<1>. QED BY <1>1, <1>2 DEF Infos

(* What is whole stays whole.                                              *)
LEMMA WholeStays ==
  ASSUME NEW o, einfo'[o] = einfo[o], Bound \subseteq Bound', Whole(o)
  PROVE  Whole(o)'
<1>1. AllEdges(einfo[o].edges, o[3], Bound')
  BY EdgesGrow DEF Whole, AllEdges
<1>. QED BY <1>1 DEF Whole

(* A new object.                                                           *)
LEMMA InfosShell ==
  ASSUME Builds, Owned, Counted, Infos, NEW g \in Gor, Going(g), EncShell(g)
  PROVE  Infos' /\ Bound \subseteq Bound'
<1>. PICK o, c : o = Obj(g, Top(g).t) /\ c = [edges |-> <<>>, addr |-> FALSE, bound |-> FALSE]
  OBVIOUS
<1>1. o \notin DOMAIN einfo /\ einfo' = With(einfo, o, c) /\ epub' = epub /\ calls' = calls
  BY ShellGoes DEF EncShell
<1>2. /\ DOMAIN einfo' = DOMAIN einfo \cup {o} /\ einfo'[o] = c
      /\ \A x \in DOMAIN einfo : einfo'[x] = einfo[x]
  BY <1>1 DEF With
<1>3. ~ c.bound /\ c = [edges |-> c.edges, addr |-> c.addr, bound |-> c.bound]
  OBVIOUS
<1>4. Bound' = Bound
  BY <1>1, <1>2, <1>3 DEF Bound
<1>5. o[1] = g /\ o[2] \in 0 .. calls[g] /\ o[3] \in Types
  <2>1. Top(g).t \in Types
    BY TopOf DEF EncShell, At
  <2>2. calls[g] \in 0 .. MaxCalls /\ MaxCalls \in Nat
    BY ChildAssumption DEF Counted
  <2>3. o = <<g, calls[g], Top(g).t>>
    BY DEF Obj
  <2>. QED BY <2>1, <2>2, <2>3
<1>6. \A x \in DOMAIN einfo : einfo[x].bound => Whole(x)'
  BY <1>2, <1>4, WholeStays DEF Infos
<1>. QED BY <1>1, <1>2, <1>3, <1>4, <1>5, <1>6 DEF Infos

(* Its edges.                                                              *)
LEMMA InfosFilled ==
  ASSUME Builds, Owned, Infos, NEW g \in Gor, Going(g), EncFilled(g)
  PROVE  Infos' /\ Bound \subseteq Bound'
<1>. PICK o, c : /\ o = Obj(g, Top(g).t)
                 /\ c = [edges |-> Top(g).edges, addr |-> einfo[o].addr, bound |-> einfo[o].bound]
  OBVIOUS
<1>1. /\ o \in DOMAIN einfo /\ ~ einfo[o].bound /\ einfo' = [einfo EXCEPT ![o] = c]
      /\ epub' = epub /\ calls' = calls
  BY FilledGoes DEF EncFilled
<1>2. /\ DOMAIN einfo' = DOMAIN einfo /\ einfo'[o] = c
      /\ \A x \in DOMAIN einfo : x # o => einfo'[x] = einfo[x]
  BY <1>1
<1>3. c.bound = einfo[o].bound /\ c = [edges |-> c.edges, addr |-> c.addr, bound |-> c.bound]
  OBVIOUS
<1>4. Bound' = Bound
  BY <1>2, <1>3 DEF Bound
<1>5. \A x \in DOMAIN einfo : einfo'[x].bound => Whole(x)'
  BY <1>1, <1>2, <1>3, <1>4, WholeStays DEF Infos
<1>. QED BY <1>1, <1>2, <1>3, <1>4, <1>5 DEF Infos

(* All objects of a build at once.                                         *)
LEMMA InfosBind ==
  ASSUME Builds, Owned, Infos, NEW g \in Gor, Going(g), EncBind(g)
  PROVE  Infos' /\ Bound \subseteq Bound'
<1>. PICK Own : Own = Range(local[g])
  OBVIOUS
<1>1. /\ Bound' = Bound \cup Own /\ epub' = epub /\ calls' = calls /\ DOMAIN einfo' = DOMAIN einfo
      /\ \A x \in DOMAIN einfo : x \notin Own => einfo'[x] = einfo[x]
      /\ \A x \in Own :
           /\ einfo'[x].edges = einfo[x].edges /\ (einfo'[x].addr <=> x \in MarkNeedsAddr(g))
           /\ einfo'[x] = [edges |-> einfo'[x].edges, addr |-> einfo'[x].addr, bound |-> einfo'[x].bound]
  BY BindGoes DEF EncBind, Good
<1>2. \A u \in DOMAIN local[g] :
        /\ local[g][u] = Obj(g, u) /\ Obj(g, u) \in DOMAIN einfo /\ u \in Types
        /\ AllEdges(einfo[Obj(g, u)].edges, u, Good(g)) /\ ~ einfo[Obj(g, u)].bound
  BY BindGoes
<1>3. \A x \in Own : x \in MarkNeedsAddr(g) <=> x[3] \in NeedsAddrRef
  BY <1>2, MarksExact
<1>4. ASSUME NEW x \in Own
      PROVE  x \in DOMAIN einfo /\ ~ einfo[x].bound /\ AllEdges(einfo[x].edges, x[3], Bound')
  <2>1. PICK u \in DOMAIN local[g] : x = local[g][u]
    BY DEF Range
  <2>2. x = <<g, calls[g], u>> /\ x = Obj(g, u)
    BY <1>2, <2>1 DEF Obj
  <2>3. x[3] = u
    BY <2>2
  <2>. QED BY <1>1, <1>2, <2>1, <2>2, <2>3 DEF Good
<1>5. \A x \in Own : Whole(x)'
  BY <1>1, <1>3, <1>4 DEF Whole
<1>6. \A x \in DOMAIN einfo : x \notin Own /\ einfo[x].bound => Whole(x)'
  BY <1>1, WholeStays DEF Infos
<1>. QED BY <1>1, <1>4, <1>5, <1>6 DEF Infos

(* The cache of EncTypeInfos.                                              *)
LEMMA InfosPublish ==
  ASSUME Builds, Owned, Infos, NEW g \in Gor, Going(g), NEW t \in Types, EncPublish(g, t)
  PROVE  Infos' /\ Bound \subseteq Bound'
<1>1. /\ einfo' = einfo /\ calls' = calls
      /\ epub' = [epub EXCEPT ![t] = IF @ = NoObj THEN local[g][t] ELSE @]
  BY DEF EncPublish
<1>2. local[g][t] \in Bound /\ local[g][t][3] = t
  BY PublishGoes
<1>3. Bound' = Bound
  BY <1>1 DEF Bound
<1>4. \A u \in Types : epub'[u] = epub[u] \/ (u = t /\ epub'[u] = local[g][t])
  BY <1>1 DEF Owned
<1>5. \A o \in DOMAIN einfo : Whole(o)' = Whole(o)
  BY <1>1, <1>3 DEF Whole
<1>. QED BY <1>1, <1>2, <1>3, <1>4, <1>5 DEF Infos

(* Every step keeps what is said of the objects, and caches only grow.     *)
LEMMA InfosStep ==
  ASSUME Builds, Known, Owned, Counted, Cached, Infos, NEW g \in Gor, Going(g), Step(g) \/ Call(g)
  PROVE  Infos' /\ Bound \subseteq Bound' /\ Loaded \subseteq Loaded' /\ ext \subseteq ext'
<1>1. CASE Typ(g)
  <2>1. TypStep
    BY <1>1, TypGoes DEF Typ
  <2>. QED BY <2>1, InfosKept DEF TypStep, Bound
<1>2. CASE EncHit(g) \/ EncInFlight(g) \/ EncMiss(g) \/ EncChild(g)
  BY <1>2, InfosKept DEF EncHit, EncInFlight, EncMiss, EncChild, univars, encvars, Bound, Loaded
<1>3. CASE EncShell(g)
  BY <1>3, InfosShell DEF EncShell, univars, Loaded
<1>4. CASE EncFilled(g)
  BY <1>4, InfosFilled DEF EncFilled, univars, Loaded
<1>5. CASE EncBind(g)
  BY <1>5, InfosBind DEF EncBind, univars, Loaded
<1>6. ASSUME NEW t \in Types, EncPublish(g, t)
      PROVE  Infos' /\ Bound \subseteq Bound' /\ Loaded \subseteq Loaded' /\ ext \subseteq ext'
  BY <1>6, InfosPublish DEF EncPublish, univars, Loaded
<1>7. CASE Call(g)
  <2>1. UNCHANGED <<einfo, epub, cache, ext>> /\ calls' = [calls EXCEPT ![g] = @ + 1]
    BY <1>7 DEF Call, UniTypeOf, EncTypeInfoOf, univars, encvars
  <2>2. MaxCalls \in Nat
    BY ChildAssumption
  <2>3. ASSUME NEW h \in Gor
        PROVE  0 .. calls[h] \subseteq 0 .. calls'[h]
    <3>1. calls[h] \in Nat /\ (calls'[h] = calls[h] \/ calls'[h] = calls[h] + 1)
      BY <2>1, <2>2 DEF Counted
    <3>. QED BY <3>1
  <2>. QED BY <2>1, <2>3, InfosKept DEF Bound, Loaded
<1>. QED BY <1>1, <1>2, <1>3, <1>4, <1>5, <1>6, <1>7 DEF Step, Typ


(***************************************************************************)
(* The other goroutines.                                                   *)
(***************************************************************************)
(* A step of g leaves the frames, the objects and the calls of h alone.    *)
LEMMA Elsewhere ==
  ASSUME Builds, Known, Owned, Counted, Cached, Infos, NEW g \in Gor, Going(g), Step(g) \/ Call(g),
         NEW h \in Gor, h # g
  PROVE  Untouched(h)
<1>1. DOMAIN stack = Gor /\ DOMAIN local = Gor /\ DOMAIN calls = Gor
  BY DEF Builds, Stacks, Owned, Counted
<1>2. \A t, u : Obj(h, t) # Obj(g, u) /\ Obj(h, t) \notin Range(local[g])
  <2>1. \A t, u : Obj(h, t) # Obj(g, u)
    BY DEF Obj
  <2>2. \A x \in Range(local[g]) : \E u : x = Obj(g, u)
    BY DEF Going, Mine, Range
  <2>. QED BY <2>1, <2>2
<1>. DEFINE Calm == /\ stack'[h] = stack[h] /\ local'[h] = local[h] /\ calls'[h] = calls[h]
                    /\ \A t \in Types : /\ Obj(h, t) \in DOMAIN einfo => einfo'[Obj(h, t)] = einfo[Obj(h, t)]
                                        /\ Obj(h, t) \in DOMAIN einfo <=> Obj(h, t) \in DOMAIN einfo'
<1>. SUFFICES Calm
  BY InfosStep DEF Untouched
<1>3. CASE Typ(g)
  <2>1. \E z : stack' = [stack EXCEPT ![g] = z]
    BY <1>3 DEF Typ, PartialShell, LoadHit, LoadPending, LoadMiss, Wake, StoreWin, StoreLose, BuildChild,
                Publish, CloseDone, Return, Goto
  <2>2. UNCHANGED <<local, einfo, calls>>
    BY <1>3, TypGoes DEF Typ, TypStep
  <2>. QED BY <1>1, <2>1, <2>2
<1>4. CASE EncHit(g) \/ EncInFlight(g) \/ EncMiss(g) \/ EncChild(g)
  BY <1>1, <1>4 DEF EncHit, EncInFlight, EncMiss, EncChild, encvars
<1>5. CASE EncShell(g)
  <2>1. /\ local' = [local EXCEPT ![g] = With(@, Top(g).t, Obj(g, Top(g).t))]
        /\ einfo' = With(einfo, Obj(g, Top(g).t), [edges |-> <<>>, addr |-> FALSE, bound |-> FALSE])
        /\ calls' = calls /\ stack'[h] = stack[h]
    BY <1>1, <1>5 DEF EncShell, Goto
  <2>2. local'[h] = local[h]
    BY <1>1, <2>1
  <2>. QED BY <1>2, <2>1, <2>2 DEF With
<1>6. CASE EncFilled(g)
  <2>1. /\ einfo' = [einfo EXCEPT ![Obj(g, Top(g).t)] =
                       [edges |-> Top(g).edges, addr |-> @.addr, bound |-> @.bound]]
        /\ UNCHANGED <<calls, local>> /\ stack'[h] = stack[h]
    BY <1>1, <1>6, FilledGoes DEF EncFilled
  <2>. QED BY <1>2, <2>1
<1>7. CASE EncBind(g)
  <2>1. /\ DOMAIN einfo' = DOMAIN einfo
        /\ \A x \in DOMAIN einfo : x \notin Range(local[g]) => einfo'[x] = einfo[x]
        /\ UNCHANGED <<calls, local>> /\ stack'[h] = stack[h]
    BY <1>1, <1>7, BindGoes DEF EncBind
  <2>. QED BY <1>2, <2>1
<1>8. ASSUME NEW t \in Types, EncPublish(g, t)
      PROVE  Calm
  BY <1>1, <1>8 DEF EncPublish
<1>9. CASE Call(g)
  BY <1>1, <1>9 DEF Call, UniTypeOf, EncTypeInfoOf, encvars
<1>. HIDE DEF Calm
<1>. QED BY <1>3, <1>4, <1>5, <1>6, <1>7, <1>8, <1>9 DEF Step, Typ

(* A step of g in g's own build.                                           *)
LEMMA Goes ==
  ASSUME Builds, Known, Owned, Counted, Cached, Infos, NEW g \in Gor, Going(g), Step(g) \/ Call(g)
  PROVE  Going(g)'
<1>1. CASE Typ(g)
  BY <1>1, TypGoes DEF Typ
<1>2. CASE EncHit(g) \/ EncInFlight(g)
  BY <1>2, EncFinds
<1>3. CASE EncMiss(g) \/ EncChild(g)
  BY <1>3, EncAsks
<1>4. CASE EncShell(g)
  BY <1>4, ShellGoes
<1>5. CASE EncFilled(g)
  BY <1>5, FilledGoes
<1>6. CASE EncBind(g)
  BY <1>6, BindGoes
<1>7. ASSUME NEW t \in Types, EncPublish(g, t)
      PROVE  Going(g)'
  BY <1>7, PublishGoes
<1>8. CASE Call(g)
  <2>1. Roots \subseteq Types
    BY ChildAssumption
  <2>2. PICK t \in Types : UniTypeOf(g, t) \/ EncTypeInfoOf(g, t)
    BY <1>8, <2>1 DEF Call
  <2>. QED BY <2>2, CallGoes
<1>. QED BY <1>1, <1>2, <1>3, <1>4, <1>5, <1>6, <1>7, <1>8 DEF Step, Typ

(***************************************************************************)
(* The inductive invariant of the encoder's objects.                       *)
(***************************************************************************)
EInv == Cached /\ Infos /\ \A g \in Gor : Going(g)

(* It holds at the start.                                                  *)
LEMMA EInitially == Init => EInv
<1>. SUFFICES ASSUME Init PROVE EInv
  OBVIOUS
<1>1. Cached
  BY DEF Init, Cached
<1>2. Infos
  <2>1. einfo = <<>> /\ DOMAIN <<>> = {}
    BY DEF Init
  <2>2. DOMAIN einfo = {} /\ \A t \in Types : epub[t] = NoObj
    BY <2>1 DEF Init
  <2>. QED BY <2>2 DEF Infos
<1>3. ASSUME NEW g \in Gor
      PROVE  Going(g)
  <2>1. stack[g] = <<>> /\ local[g] = <<>> /\ DOMAIN <<>> = {}
    BY DEF Init
  <2>2. DOMAIN local[g] = {}
    BY <2>1
  <2>3. Tower(Loaded, ext, DOMAIN local[g], Good(g), stack[g])
    BY <2>1, EmptyTower
  <2>4. Mine(g) /\ Open(g) /\ Closed(g) /\ Registered(g) /\ Empty(g)
    BY <2>1, <2>2 DEF Mine, Open, Closed, Registered, Empty
  <2>. QED BY <2>3, <2>4 DEF Going
<1>. QED BY <1>1, <1>2, <1>3 DEF EInv

(* Every step keeps it.                                                    *)
LEMMA EInductive == IInv /\ EInv /\ [Next]_vars => EInv'
<1>. SUFFICES ASSUME IInv, EInv, [Next]_vars PROVE EInv'
  OBVIOUS
<1>1. CASE Next
  <2>1. PICK g \in Gor : Step(g) \/ Call(g)
    BY <1>1 DEF Next
  <2>2. Builds /\ Known /\ Owned /\ Counted /\ Cached /\ Infos /\ Going(g)
    BY DEF IInv, EInv
  <2>3. Cached'
    BY <2>1, <2>2, CachedStep
  <2>4. Infos'
    BY <2>1, <2>2, InfosStep
  <2>5. Going(g)'
    BY <2>1, <2>2, Goes
  <2>6. ASSUME NEW h \in Gor, h # g
        PROVE  Going(h)'
    <3>1. Untouched(h) /\ Going(h)
      BY <2>1, <2>2, <2>6, Elsewhere DEF EInv
    <3>. QED BY <3>1, OthersWait
  <2>. QED BY <2>3, <2>4, <2>5, <2>6 DEF EInv
<1>2. CASE UNCHANGED vars
  <2>1. /\ UNCHANGED <<cache, open, ext, stack, calls, local, einfo, epub>>
        /\ Loaded' = Loaded /\ Bound' = Bound
    BY <1>2 DEF vars, Loaded, Bound
  <2>2. Cached'
    BY <2>1 DEF EInv, Cached
  <2>3. Infos'
    BY <2>1, InfosKept DEF EInv
  <2>4. ASSUME NEW g \in Gor
        PROVE  Going(g)'
    <3>1. Untouched(g) /\ Going(g)
      BY <2>1 DEF Untouched, EInv
    <3>. QED BY <3>1, OthersWait
  <2>. QED BY <2>2, <2>3, <2>4 DEF EInv
<1>. QED BY <1>1, <1>2

(* It holds in every state of every behaviour.                             *)
LEMMA EInvariance == Spec => [](IInv /\ EInv)
<1>1. Init => IInv /\ EInv
  BY Initially, EInitially
<1>2. (IInv /\ EInv) /\ [Next]_vars => (IInv /\ EInv)'
  BY Inductive, EInductive
<1>. QED BY <1>1, <1>2, PTL DEF Spec

(***************************************************************************)
(* What the invariant says of what an encoder can reach.                   *)
(***************************************************************************)
(* The edges of the objects in X, with X.                                  *)
WithEdges(X) == X \cup UNION {ToSet(einfo[p].edges) : p \in X}

(* From bound objects only bound objects can be reached.                   *)
LEMMA BoundClosed ==
  ASSUME Infos, NEW X \in SUBSET Bound
  PROVE  WithEdges(X) \in SUBSET Bound
<1>1. ASSUME NEW p \in X
      PROVE  ToSet(einfo[p].edges) \subseteq Bound
  <2>1. AllEdges(einfo[p].edges, p[3], Bound)
    BY DEF Infos, Whole, Bound
  <2>2. PICK e : e = einfo[p].edges
    OBVIOUS
  <2>3. e \in Seq(Bound)
    BY <2>1, <2>2 DEF AllEdges, EdgesTo
  <2>4. DOMAIN e = 1 .. Len(e) /\ \A k \in 1 .. Len(e) : e[k] \in Bound
    BY <2>3, LenProperties, ElementOfSeq
  <2>. QED BY <2>2, <2>4 DEF ToSet
<1>. QED BY <1>1 DEF WithEdges

(* However far the edges are followed.                                     *)
LEMMA ReachBound ==
  ASSUME Infos, NEW o \in Bound
  PROVE  LET R[n \in 0..Cardinality(Types)] ==
               IF n = 0 THEN {o} ELSE R[n-1] \cup UNION {ToSet(einfo[p].edges) : p \in R[n-1]}
         IN R[Cardinality(Types)] \subseteq Bound
<1>. DEFINE N == Cardinality(Types)
            G(f) == [n \in 0 .. N |-> IF n = 0 THEN {o} ELSE WithEdges(f[n - 1])]
            R[n \in 0 .. N] ==
              IF n = 0 THEN {o} ELSE R[n-1] \cup UNION {ToSet(einfo[p].edges) : p \in R[n-1]}
<1>. SUFFICES R[N] \subseteq Bound
  OBVIOUS
<1>1. N \in Nat
  BY InlineAssumption, FS_CardinalityType
<1>2. R = CHOOSE f : f = G(f)
  BY DEF WithEdges
<1>. HIDE DEF N, R
<1>3. \E f : f = G(f)
  <2>1. PICK C, F, a : C = SUBSET Bound /\ F = [X \in C |-> WithEdges(X)] /\ a = {o}
    OBVIOUS
  <2>2. F \in [C -> C] /\ a \in C
    BY <2>1, BoundClosed
  <2>3. PICK f : Iterates(F, a, C, N, f)
    BY ONLY <1>1, <2>2, Recursion
  <2>4. ASSUME NEW n \in 0 .. N
        PROVE  f[n] = IF n = 0 THEN {o} ELSE WithEdges(f[n - 1])
    <3>1. CASE n = 0
      BY <2>1, <2>3, <3>1 DEF Iterates
    <3>2. CASE n # 0
      <4>1. n \in 1 .. N /\ n - 1 \in 0 .. N
        BY <1>1, <3>2
      <4>. QED BY <2>1, <2>3, <3>2, <4>1 DEF Iterates
    <3>. QED BY <3>1, <3>2
  <2>5. f = [n \in 0 .. N |-> f[n]]
    BY <2>3 DEF Iterates
  <2>. QED BY <2>4, <2>5
<1>. HIDE DEF G
<1>4. R = G(R)
  BY <1>2, <1>3
<1>5. \A n \in 0 .. N : R[n] = IF n = 0 THEN {o} ELSE WithEdges(R[n - 1])
  BY <1>4 DEF G
<1>. DEFINE S == {n \in 0 .. N : R[n] \in SUBSET Bound}
<1>6. 0 \in S
  BY <1>1, <1>5
<1>7. ASSUME NEW n \in 0 .. N - 1, n \in S
      PROVE  n + 1 \in S
  <2>1. n + 1 \in 0 .. N /\ n + 1 # 0 /\ n + 1 - 1 = n
    BY <1>1
  <2>2. R[n + 1] = WithEdges(R[n])
    BY <1>5, <2>1
  <2>3. WithEdges(R[n]) \in SUBSET Bound
    BY <1>7, BoundClosed
  <2>. QED BY <2>1, <2>2, <2>3
<1>. HIDE DEF S
<1>8. 0 .. N \subseteq S
  BY ONLY <1>1, <1>6, <1>7, SetInduction
<1>9. N \in S
  BY <1>1, <1>8
<1>. QED BY <1>9 DEF S

(* The types of a bound object's edges are its type's children.            *)
LEMMA BoundKnows ==
  ASSUME Infos, NEW p \in Bound
  PROVE  /\ einfo[p].bound
         /\ [i \in DOMAIN einfo[p].edges |-> einfo[p].edges[i][3]] = Child[p[3]]
<1>1. p[3] \in Types /\ einfo[p].bound /\ AllEdges(einfo[p].edges, p[3], Bound)
  BY DEF Infos, Whole, Bound
<1>2. PICK e, c : e = einfo[p].edges /\ c = Child[p[3]]
  OBVIOUS
<1>3. e \in Seq(Bound) /\ Len(e) = Len(c) /\ \A k \in 1 .. Len(c) : e[k][3] = c[k]
  BY <1>1, <1>2 DEF AllEdges, EdgesTo
<1>4. c \in Seq(Types)
  BY <1>1, <1>2, ChildAssumption
<1>5. DOMAIN e = 1 .. Len(c) /\ c = [k \in 1 .. Len(c) |-> c[k]]
  BY <1>3, <1>4, LenProperties
<1>6. [i \in DOMAIN e |-> e[i][3]] = c
  BY <1>3, <1>5
<1>. QED BY <1>1, <1>2, <1>6

(* So whatever is published is whole and flagged as it must be.            *)
LEMMA Exactness == EInv => EncodersExact
<1>. SUFFICES ASSUME EInv PROVE PublishedWhole /\ NeedsAddrExact
  BY DEF EncodersExact
<1>. USE DEF EInv
<1>1. ASSUME NEW t \in Types, epub[t] # NoObj
      PROVE  epub[t] \in Bound /\ epub[t][3] = t /\ Whole(epub[t])
  BY <1>1 DEF Infos, Bound
<1>2. PublishedWhole
  <2>1. \A o \in {epub[t] : t \in Types} \ {NoObj} : o \in Bound
    BY <1>1
  <2>2. \A p \in Bound : /\ einfo[p].bound
                         /\ [i \in DOMAIN einfo[p].edges |-> einfo[p].edges[i][3]] = Child[p[3]]
    BY BoundKnows
  <2>. SUFFICES ASSUME NEW o \in {epub[t] : t \in Types} \ {NoObj}
                PROVE  LET R[n \in 0..Cardinality(Types)] ==
                             IF n = 0 THEN {o}
                             ELSE R[n-1] \cup UNION {ToSet(einfo[p].edges) : p \in R[n-1]}
                       IN \A p \in R[Cardinality(Types)] :
                            /\ einfo[p].bound
                            /\ [i \in DOMAIN einfo[p].edges |-> einfo[p].edges[i][3]] = Child[p[3]]
    BY DEF PublishedWhole
  <2>. DEFINE R[n \in 0..Cardinality(Types)] ==
                IF n = 0 THEN {o} ELSE R[n-1] \cup UNION {ToSet(einfo[p].edges) : p \in R[n-1]}
  <2>3. R[Cardinality(Types)] \subseteq Bound
    BY <2>1, ReachBound
  <2>. HIDE DEF R
  <2>4. \A p \in R[Cardinality(Types)] :
          /\ einfo[p].bound
          /\ [i \in DOMAIN einfo[p].edges |-> einfo[p].edges[i][3]] = Child[p[3]]
    BY <2>2, <2>3
  <2>. QED BY <2>4 DEF R
<1>3. NeedsAddrExact
  BY <1>1 DEF NeedsAddrExact, Whole
<1>. QED BY <1>2, <1>3

(* For any goroutines, types and children: a pending entry of uniTypeCache *)
(* always has exactly one builder, which has the type on its stack         *)
(* (unitype_build.go buildUniType; venc/typebuild.go).                     *)
THEOREM EveryBuildAttended == Spec => []BuildsAttended
<1>1. IInv => BuildsAttended
  BY OneBuilder DEF BuildsAttended
<1>. QED BY <1>1, Invariance, PTL

(* A published EncTypeInfo is never replaced, so its address is the        *)
(* type's identity for good (venc/typebuild.go, encTypeCache.Publish).     *)
THEOREM IdentityStays == Spec => PublishedStays
<1>1. IInv /\ [Next]_vars => [\A t \in Types : epub[t] # NoObj => epub'[t] = epub[t]]_vars
  BY FirstStays
<1>. QED BY <1>1, Invariance, PTL DEF Spec, PublishedStays

(* For any goroutines, types and schedule: every object an encoder can     *)
(* reach from a published EncTypeInfo is bound and has its type's children *)
(* for edges, and the flag that makes the encoder copy a value before a    *)
(* pointer-receiver method runs is right, also where subtrees of several   *)
(* goroutines' builds meet (venc/typebuild.go EncTypeInfoOf, markNeedsAddr).*)
THEOREM EncodersWhole == Spec => []EncodersExact
<1>1. IInv /\ EInv => EncodersExact
  BY Exactness
<1>. QED BY <1>1, EInvariance, PTL
=============================================================================
