-------------------------- MODULE ContainmentProofs --------------------------
(***************************************************************************)
(* What a walk of a path comes to, in any tree and for any number of       *)
(* steps: no link and no ".." is left in it, and a path that has none is   *)
(* walked to itself.  The invariants of the file tools rest on this.       *)
(*                                                                         *)
(* What holds after every number of steps is shown step by step, on the    *)
(* set of the numbers after which it holds (StepByStep).                   *)
(***************************************************************************)
EXTENDS Containment, Induction

(* The walk is what its definition says it is.                             *)

Start(p) == [done |-> <<>>, rest |-> p, missing |-> FALSE]

Built(tree, p, n, f) ==
    f = [k \in 0 .. n |-> IF k = 0 THEN Start(p) ELSE WalkStep(tree, f[k - 1])]

LEMMA WalkBuilt ==
    ASSUME NEW tree, NEW p
    PROVE  Built(tree, p, MaxSteps, WalkFrom(tree, p))
<1> DEFINE S == {n \in 0 .. MaxSteps : \E f : Built(tree, p, n, f)}
<1>0. MaxSteps \in Nat
  BY RootsAssumption
<1>1. 0 \in S
  <2>1. Built(tree, p, 0, [k \in 0 .. 0 |-> Start(p)])
    BY DEF Built
  <2>2. QED
    BY <1>0, <2>1
<1>2. ASSUME NEW n \in 0 .. MaxSteps, n \in S, n # MaxSteps PROVE n + 1 \in S
  <2>1. PICK f : Built(tree, p, n, f)
    BY <1>2
  <2> DEFINE g == [k \in 0 .. n + 1 |->
                     IF k = n + 1 THEN WalkStep(tree, f[n]) ELSE f[k]]
  <2>2. ASSUME NEW k \in 0 .. n + 1
        PROVE  g[k] = IF k = 0 THEN Start(p) ELSE WalkStep(tree, g[k - 1])
    <3>1. CASE k = n + 1
      BY <3>1
    <3>2. CASE k = 0
      BY <2>1, <3>2 DEF Built
    <3>3. CASE k \in 1 .. n
      <4>1. k \in 0 .. n /\ k - 1 \in 0 .. n /\ k # 0 /\ k # n + 1 /\ k - 1 # n + 1
        BY <3>3
      <4>2. f[k] = WalkStep(tree, f[k - 1])
        BY <2>1, <4>1 DEF Built
      <4>3. QED
        BY <4>1, <4>2
    <3>4. QED
      BY <1>0, <3>1, <3>2, <3>3
  <2>3. Built(tree, p, n + 1, g)
    <3> DEFINE h == [k \in 0 .. n + 1 |-> IF k = 0 THEN Start(p)
                                        ELSE WalkStep(tree, g[k - 1])]
    <3>1. DOMAIN g = 0 .. n + 1 /\ g = [k \in 0 .. n + 1 |-> g[k]]
      OBVIOUS
    <3> HIDE DEF g
    <3>2. g = h
      BY <2>2, <3>1
    <3>3. QED
      BY <3>2 DEF Built
  <2>4. n + 1 \in 0 .. MaxSteps
    BY <1>0, <1>2
  <2>5. QED
    BY <2>3, <2>4
<1>3. MaxSteps \in S
  <2> HIDE DEF S
  <2>1. 0 .. MaxSteps \subseteq S
    BY <1>0, <1>1, <1>2, StepByStep
  <2>2. QED
    BY <1>0, <2>1
<1>4. QED
  BY <1>3 DEF Built, WalkFrom, Start

LEMMA WalkSteps ==
    ASSUME NEW tree, NEW p
    PROVE  /\ WalkFrom(tree, p)[0] = Start(p)
           /\ \A n \in 0 .. MaxSteps : n # MaxSteps =>
                 WalkFrom(tree, p)[n + 1] = WalkStep(tree, WalkFrom(tree, p)[n])
           /\ Walk(tree, p) = WalkFrom(tree, p)[MaxSteps]
<1>0. MaxSteps \in Nat
  BY RootsAssumption
<1> DEFINE w == WalkFrom(tree, p)
<1>1. w = [k \in 0 .. MaxSteps |->
             IF k = 0 THEN Start(p) ELSE WalkStep(tree, w[k - 1])]
  BY WalkBuilt DEF Built
<1> HIDE DEF w
<1>2. w[0] = Start(p)
  BY <1>0, <1>1
<1>3. ASSUME NEW n \in 0 .. MaxSteps, n # MaxSteps
      PROVE  w[n + 1] = WalkStep(tree, w[n])
  <2>1. n + 1 \in 0 .. MaxSteps /\ n + 1 # 0 /\ (n + 1) - 1 = n
    BY <1>0, <1>3
  <2>2. QED
    BY <1>1, <2>1
<1>4. QED
  BY <1>2, <1>3 DEF w, Walk

-----------------------------------------------------------------------------
(* Paths.                                                                  *)

LEMMA FrontOf ==
    ASSUME NEW p \in Path, p # <<>>
    PROVE  /\ Front(p) \in Path /\ Len(Front(p)) = Len(p) - 1
           /\ Len(p) \in Nat \ {0} /\ Last(p) \in STRING
           /\ \A i \in 1 .. Len(p) - 1 :
                 /\ Front(p)[i] = p[i]
                 /\ SubSeq(Front(p), 1, i) = SubSeq(p, 1, i)
<1>1. Len(p) \in Nat \ {0} /\ \A i \in 1 .. Len(p) : p[i] \in STRING
  BY EmptySeq, ElementOfSeq DEF Path
<1>2. /\ Front(p) \in Path /\ Len(Front(p)) = Len(p) - 1
      /\ \A i \in 1 .. Len(p) - 1 : Front(p)[i] = p[i]
  <2> DEFINE n == Len(p) - 1
  <2>1. n \in Nat /\ n \in Int /\ 1 \in Int /\ \A i \in 1 .. n : p[i] \in STRING
    BY <1>1
  <2> HIDE DEF n
  <2>2. /\ SubSeq(p, 1, n) \in Seq(STRING)
        /\ Len(SubSeq(p, 1, n)) = n
        /\ \A i \in 1 .. n : SubSeq(p, 1, n)[i] = p[i]
    BY <2>1, SubSeqProperties
  <2>3. QED
    BY <2>2 DEF Front, Path, n
<1>3. ASSUME NEW i \in 1 .. Len(p) - 1 PROVE SubSeq(Front(p), 1, i) = SubSeq(p, 1, i)
  BY <1>1, SubSeqOfSubSeq DEF Front, Path
<1>4. QED
  BY <1>1, <1>2, <1>3 DEF Last

\* The first n components of a path.
LEMMA FirstOf ==
    ASSUME NEW p \in Path, NEW n \in 0 .. Len(p)
    PROVE  /\ SubSeq(p, 1, n) \in Path /\ Len(SubSeq(p, 1, n)) = n
           /\ Len(p) \in Nat
           /\ \A i \in 1 .. n :
                 /\ SubSeq(p, 1, n)[i] = p[i]
                 /\ SubSeq(SubSeq(p, 1, n), 1, i) = SubSeq(p, 1, i)
<1>1. Len(p) \in Nat /\ \A i \in 1 .. Len(p) : p[i] \in STRING
  BY EmptySeq, ElementOfSeq DEF Path
<1>2. /\ SubSeq(p, 1, n) \in Path /\ Len(SubSeq(p, 1, n)) = n
      /\ \A i \in 1 .. n : SubSeq(p, 1, n)[i] = p[i]
  BY <1>1, SubSeqProperties DEF Path
<1>3. ASSUME NEW i \in 1 .. n PROVE SubSeq(SubSeq(p, 1, n), 1, i) = SubSeq(p, 1, i)
  BY <1>1, SubSeqOfSubSeq DEF Path
<1>4. QED
  BY <1>1, <1>2, <1>3

LEMMA AppendOf ==
    ASSUME NEW p \in Path, NEW name \in STRING
    PROVE  /\ Append(p, name) \in Path /\ Len(Append(p, name)) = Len(p) + 1
           /\ Append(p, name) # <<>> /\ Front(Append(p, name)) = p
           /\ Last(Append(p, name)) = name /\ Len(p) \in Nat
           /\ \A i \in 1 .. Len(p) :
                 /\ Append(p, name)[i] = p[i]
                 /\ SubSeq(Append(p, name), 1, i) = SubSeq(p, 1, i)
           /\ Append(p, name)[Len(p) + 1] = name
           /\ SubSeq(Append(p, name), 1, Len(p) + 1) = Append(p, name)
<1> DEFINE q == Append(p, name)
<1>1. /\ q \in Path /\ Len(q) = Len(p) + 1 /\ Len(p) \in Nat /\ q # <<>>
      /\ \A i \in 1 .. Len(p) : q[i] = p[i]
      /\ q[Len(p) + 1] = name
  <2>1. p \in Seq(STRING)
    BY DEF Path
  <2>2. Len(p) \in Nat
    BY <2>1, LenProperties
  <2>3. q \in Seq(STRING) /\ q # <<>> /\ Len(q) = Len(p) + 1
    BY <2>1, AppendProperties
  <2>4. \A i \in 1 .. Len(p) : q[i] = p[i]
    BY <2>1, <2>2
  <2>5. q[Len(p) + 1] = name
    BY <2>1, AppendProperties, Zenon
  <2>6. QED
    BY <2>2, <2>3, <2>4, <2>5 DEF Path
<1> HIDE DEF q
<1>2. Front(q) = p
  <2>1. Front(q) \in Path /\ Len(Front(q)) = Len(p)
        /\ \A i \in 1 .. Len(p) : Front(q)[i] = p[i]
    BY <1>1, FrontOf
  <2>2. QED
    BY <2>1, SeqEqual DEF Path
<1>3. ASSUME NEW i \in 1 .. Len(p) PROVE SubSeq(q, 1, i) = SubSeq(p, 1, i)
  <2>1. i \in 1 .. Len(q) - 1
    BY <1>1
  <2>2. QED
    BY <1>1, <1>2, <2>1, FrontOf
<1>4. SubSeq(q, 1, Len(p) + 1) = q
  BY <1>1, SubSeqFull DEF Path
<1>5. Last(q) = name
  BY <1>1 DEF Last
<1>6. QED
  BY <1>1, <1>2, <1>3, <1>4, <1>5 DEF q

\* A path is its front and its last component.
LEMMA FrontAndLast ==
    ASSUME NEW p \in Path, p # <<>>
    PROVE  Append(Front(p), Last(p)) = p
<1>1. /\ Front(p) \in Path /\ Len(Front(p)) = Len(p) - 1 /\ Len(p) \in Nat \ {0}
      /\ Last(p) \in STRING /\ \A i \in 1 .. Len(p) - 1 : Front(p)[i] = p[i]
  BY FrontOf
<1> DEFINE q == Append(Front(p), Last(p))
<1>2. /\ q \in Path /\ Len(q) = Len(Front(p)) + 1
      /\ \A i \in 1 .. Len(Front(p)) : q[i] = Front(p)[i]
      /\ q[Len(Front(p)) + 1] = Last(p)
  <2>1. Front(p) \in Path /\ Last(p) \in STRING
    BY <1>1
  <2> HIDE DEF q
  <2>2. QED
    BY <2>1, AppendOf, Zenon DEF q
<1> HIDE DEF q
<1>3. q = p
  BY <1>1, <1>2, SeqEqual DEF Path, Last
<1>4. QED
  BY <1>3 DEF q

-----------------------------------------------------------------------------
(* A walk leaves no link and no ".." behind it.                            *)

Real(tree, p) ==
    \A i \in 1 .. Len(p) : p[i] # ".." /\ ~IsLinkAt(tree, SubSeq(p, 1, i))

LinksLead(tree) == \A q \in DOMAIN tree : tree[q].target \in Path

OnWay(tree, walk, n) ==
    /\ walk.done \in Path /\ walk.rest \in Path /\ Len(walk.done) <= n
    /\ Real(tree, walk.done)

LEMMA RealFront ==
    ASSUME NEW tree, NEW p \in Path, p # <<>>, Real(tree, p)
    PROVE  Real(tree, Front(p))
<1>1. /\ Len(Front(p)) = Len(p) - 1 /\ Len(p) \in Nat
      /\ \A i \in 1 .. Len(p) - 1 :
            Front(p)[i] = p[i] /\ SubSeq(Front(p), 1, i) = SubSeq(p, 1, i)
  BY FrontOf
<1>2. ASSUME NEW i \in 1 .. Len(Front(p))
      PROVE  Front(p)[i] # ".." /\ ~IsLinkAt(tree, SubSeq(Front(p), 1, i))
  <2>1. i \in 1 .. Len(p) /\ i \in 1 .. Len(p) - 1
    BY <1>1, <1>2
  <2>2. p[i] # ".." /\ ~IsLinkAt(tree, SubSeq(p, 1, i))
    BY <2>1 DEF Real
  <2>3. QED
    BY <1>1, <2>1, <2>2, Zenon
<1>3. QED
  BY <1>2 DEF Real

LEMMA RealAppend ==
    ASSUME NEW tree, NEW p \in Path, Real(tree, p), NEW name \in STRING,
           name # "..", ~IsLinkAt(tree, Append(p, name))
    PROVE  Real(tree, Append(p, name))
<1> DEFINE q == Append(p, name)
<1>1. /\ Len(q) = Len(p) + 1 /\ Len(p) \in Nat
      /\ \A i \in 1 .. Len(p) : q[i] = p[i] /\ SubSeq(q, 1, i) = SubSeq(p, 1, i)
      /\ q[Len(p) + 1] = name /\ SubSeq(q, 1, Len(p) + 1) = q
  BY AppendOf
<1> HIDE DEF q
<1>2. ASSUME NEW i \in 1 .. Len(q)
      PROVE  q[i] # ".." /\ ~IsLinkAt(tree, SubSeq(q, 1, i))
  <2>1. CASE i = Len(p) + 1
    BY <1>1, <2>1 DEF q
  <2>2. CASE i \in 1 .. Len(p)
    BY <1>1, <2>2 DEF Real
  <2>3. QED
    BY <1>1, <2>1, <2>2
<1>3. Real(tree, q)
  BY <1>2 DEF Real
<1>4. QED
  BY <1>3 DEF q

\* What is left of a path to walk.
LEMMA RestOf ==
    ASSUME NEW p \in Path, p # <<>>
    PROVE  Head(p) \in STRING /\ Tail(p) \in Path
  BY HeadTailProperties DEF Path

LEMMA EmptyPath == <<>> \in Path /\ Len(<<>>) = 0 /\ \A tree : Real(tree, <<>>)
<1>1. <<>> \in Seq(STRING) /\ Len(<<>>) = 0
  BY EmptySeq
<1>2. \A tree : Real(tree, <<>>)
  BY <1>1 DEF Real
<1>3. QED
  BY <1>1, <1>2 DEF Path

LEMMA EmptyFront == Front(<<>>) = <<>>
<1>1. <<>> \in Seq(STRING) /\ Len(<<>>) = 0 /\ 0 - 1 = -1 /\ 1 > -1
  BY EmptyPath DEF Path
<1>2. QED
  BY <1>1, SubSeqEmpty DEF Front

LEMMA StepOnWay ==
    ASSUME NEW tree, LinksLead(tree), NEW n \in Nat, NEW walk,
           OnWay(tree, walk, n)
    PROVE  OnWay(tree, WalkStep(tree, walk), n + 1)
<1>1. walk.done \in Path /\ walk.rest \in Path /\ Len(walk.done) \in Nat
  BY LenProperties DEF OnWay, Path
<1>2. CASE walk.rest = <<>>
  BY <1>1, <1>2 DEF WalkStep, OnWay
<1>3. CASE walk.rest # <<>>
  <2> DEFINE name  == Head(walk.rest)
             here  == Append(walk.done, name)
             later == Tail(walk.rest)
             next  == WalkStep(tree, walk)
  <2>1. name \in STRING /\ later \in Path
    BY <1>1, <1>3, RestOf
  <2>2. /\ name = ".." => next.done = Front(walk.done) /\ next.rest = later
        /\ name # ".." /\ IsLinkAt(tree, here)
              => next.done = <<>> /\ next.rest = tree[here].target \o later
        /\ name # ".." /\ ~IsLinkAt(tree, here)
              => next.done = here /\ next.rest = later
    BY <1>3 DEF WalkStep, OneComponent
  <2>3. here \in Path /\ Len(here) = Len(walk.done) + 1
    BY <1>1, <2>1, AppendOf
  <2> HIDE DEF name, here, later, next
  <2>4. CASE name = ".." /\ walk.done = <<>>
    <3>1. Front(<<>>) = <<>>
      BY SubSeqEmpty, EmptyPath DEF Front
    <3>2. QED
      BY <1>1, <2>1, <2>2, <2>4, <3>1, EmptyPath DEF OnWay, next
  <2>5. CASE name = ".." /\ walk.done # <<>>
    <3>1. Front(walk.done) \in Path /\ Len(Front(walk.done)) <= n
      BY <1>1, <2>5, FrontOf DEF OnWay
    <3>2. Real(tree, Front(walk.done))
      BY <1>1, <2>5, RealFront DEF OnWay
    <3>3. QED
      BY <2>1, <2>2, <2>5, <3>1, <3>2, FrontOf DEF OnWay, next
  <2>6. CASE name # ".." /\ IsLinkAt(tree, here)
    <3>1. tree[here].target \o later \in Path
      BY <2>1, <2>6, ConcatProperties DEF IsLinkAt, LinksLead, Path
    <3>2. next.done = <<>> /\ next.rest \in Path
      BY <2>2, <2>6, <3>1
    <3>3. Len(next.done) <= n + 1 /\ Real(tree, next.done) /\ next.done \in Path
      BY <3>2, EmptyPath
    <3>4. QED
      BY <3>2, <3>3 DEF OnWay, next
  <2>7. CASE name # ".." /\ ~IsLinkAt(tree, here)
    <3>1. Real(tree, here)
      BY <1>1, <2>1, <2>7, RealAppend DEF OnWay, here
    <3>2. QED
      BY <1>1, <2>1, <2>2, <2>3, <2>7, <3>1 DEF OnWay, next
  <2>8. QED
    BY <2>4, <2>5, <2>6, <2>7
<1>4. QED
  BY <1>2, <1>3

LEMMA WalkIsReal ==
    ASSUME NEW tree, LinksLead(tree), NEW p \in Path
    PROVE  OnWay(tree, Walk(tree, p), MaxSteps)
<1> DEFINE w == WalkFrom(tree, p)
           S == {n \in 0 .. MaxSteps : OnWay(tree, w[n], n)}
<1>0. MaxSteps \in Nat
  BY RootsAssumption
<1>1. 0 \in S
  <2>1. OnWay(tree, Start(p), 0)
    BY EmptyPath DEF OnWay, Start
  <2>2. QED
    BY <1>0, <2>1, WalkSteps
<1>2. ASSUME NEW n \in 0 .. MaxSteps, n \in S, n # MaxSteps PROVE n + 1 \in S
  <2>1. w[n + 1] = WalkStep(tree, w[n])
    BY <1>2, WalkSteps
  <2>2. n \in Nat /\ n + 1 \in 0 .. MaxSteps /\ OnWay(tree, w[n], n)
    BY <1>0, <1>2
  <2> HIDE DEF w
  <2>3. QED
    BY <2>1, <2>2, StepOnWay
<1> HIDE DEF S
<1>3. MaxSteps \in S
  <2>1. 0 .. MaxSteps \subseteq S
    BY <1>0, <1>1, <1>2, StepByStep
  <2>2. QED
    BY <1>0, <2>1
<1>4. QED
  BY <1>3, WalkSteps DEF S

-----------------------------------------------------------------------------
(* A path that has no link and no ".." is walked to itself.                *)

\* The walk of such a path after n steps.
LEMMA RealWalk ==
    ASSUME NEW tree, NEW p \in Path, Real(tree, p), Len(p) <= MaxSteps
    PROVE  /\ Walk(tree, p).done = p /\ Walk(tree, p).rest = <<>>
           /\ Walk(tree, p).missing <=>
                 \E i \in 1 .. Len(p) : SubSeq(p, 1, i) \notin DOMAIN tree
<1> DEFINE w == WalkFrom(tree, p)
           Short(n) == IF n <= Len(p) THEN n ELSE Len(p)
           At(n) == [done |-> SubSeq(p, 1, n), rest |-> SubSeq(p, n + 1, Len(p)),
                     missing |-> \E i \in 1 .. n : SubSeq(p, 1, i) \notin DOMAIN tree]
           S == {n \in 0 .. MaxSteps : w[n] = At(Short(n))}
<1>0. MaxSteps \in Nat /\ Len(p) \in Nat
  BY RootsAssumption, LenProperties DEF Path
<1>1. 0 \in S
  <2>1. SubSeq(p, 1, 0) = <<>> /\ SubSeq(p, 0 + 1, Len(p)) = p
    BY <1>0, SubSeqEmpty, SubSeqFull DEF Path
  <2>2. At(0) = Start(p)
    <3>1. (\E i \in 1 .. 0 : SubSeq(p, 1, i) \notin DOMAIN tree) = FALSE
      OBVIOUS
    <3>2. QED
      BY <2>1, <3>1, Zenon DEF Start
  <2>3. Short(0) = 0 /\ w[0] = Start(p)
    BY <1>0, WalkSteps
  <2> HIDE DEF w, At, Short
  <2>4. QED
    BY <1>0, <2>2, <2>3
<1>2. ASSUME NEW n \in 0 .. MaxSteps, n \in S, n # MaxSteps PROVE n + 1 \in S
  <2>1. w[n + 1] = WalkStep(tree, w[n])
    BY <1>2, WalkSteps
  <2>2. w[n] = At(Short(n)) /\ n + 1 \in 0 .. MaxSteps /\ n \in Nat
    BY <1>0, <1>2
  <2>3. CASE n >= Len(p)
    <3>1. Short(n) = Len(p) /\ Short(n + 1) = Len(p)
      BY <1>0, <2>2, <2>3
    <3>2. At(Len(p)).rest = <<>>
      BY <1>0, SubSeqEmpty
    <3> HIDE DEF w, At, Short
    <3>3. WalkStep(tree, w[n]) = w[n]
      BY <2>2, <3>1, <3>2 DEF WalkStep
    <3>4. QED
      BY <2>1, <2>2, <3>1, <3>3
  <2>4. CASE n < Len(p)
    <3> DEFINE done == SubSeq(p, 1, n)
               rest == SubSeq(p, n + 1, Len(p))
               here == SubSeq(p, 1, n + 1)
    <3>1. Short(n) = n /\ Short(n + 1) = n + 1
      BY <1>0, <2>2, <2>4
    <3>2. n + 1 \in 1 .. Len(p)
      BY <1>0, <2>2, <2>4
    <3>3. /\ rest # <<>> /\ Head(rest) = p[n + 1]
          /\ Tail(rest) = SubSeq(p, n + 2, Len(p))
      <4>1. Head(rest) = p[n + 1] /\ Tail(rest) = SubSeq(p, (n + 1) + 1, Len(p))
        BY <1>0, <3>2, HeadTailOfSubSeq DEF Path
      <4>2. Len(rest) = Len(p) - n
        BY <1>0, <2>2, <3>2 DEF Path
      <4>3. Len(rest) # 0
        BY <1>0, <2>2, <2>4, <4>2
      <4>4. rest # <<>>
        BY <4>3, EmptyPath
      <4>5. (n + 1) + 1 = n + 2
        BY <2>2
      <4>6. QED
        BY <4>1, <4>4, <4>5
    <3>4. Append(done, p[n + 1]) = here
      <4>1. here \in Path /\ Len(here) = n + 1 /\ here[n + 1] = p[n + 1]
            /\ SubSeq(here, 1, n) = SubSeq(p, 1, n)
        <5>1. n + 1 \in 0 .. Len(p) /\ n + 1 \in 1 .. n + 1
          BY <3>2, <2>2
        <5>2. here \in Path /\ Len(here) = n + 1 /\ here[n + 1] = p[n + 1]
          BY <5>1, FirstOf
        <5>3. CASE n = 0
          BY <5>2, <5>3, SubSeqEmpty
        <5>4. CASE n \in 1 .. n + 1
          BY <5>1, <5>4, FirstOf
        <5>5. QED
          BY <2>2, <5>2, <5>3, <5>4
      <4>2. here # <<>> /\ Front(here) = done /\ Last(here) = p[n + 1]
        <5>1. Len(here) - 1 = n /\ Len(here) # 0
          BY <2>2, <4>1
        <5> HIDE DEF here
        <5>2. QED
          BY <4>1, <5>1, EmptyPath DEF Front, Last
      <4>3. QED
        BY <4>1, <4>2, FrontAndLast
    <3>5. p[n + 1] # ".." /\ ~IsLinkAt(tree, here)
      BY <3>2 DEF Real
    <3>6. WalkStep(tree, At(n)) =
            [done |-> here, rest |-> SubSeq(p, n + 2, Len(p)),
             missing |-> At(n).missing \/ here \notin DOMAIN tree]
      <4>1. At(n).done = done /\ At(n).rest = rest
        OBVIOUS
      <4> HIDE DEF At, done, rest, here
      <4>2. QED
        BY <3>3, <3>4, <3>5, <4>1 DEF WalkStep, OneComponent
    <3>7. (At(n).missing \/ here \notin DOMAIN tree) <=> At(n + 1).missing
      <4>1. \A i : i \in 1 .. n + 1 <=> i \in 1 .. n \/ i = n + 1
        BY <2>2
      <4>2. QED
        BY <4>1
    <3>8. WalkStep(tree, At(n)) = At(n + 1)
      <4>1. (n + 1) + 1 = n + 2
        BY <2>2
      <4>2. QED
        BY <3>6, <3>7, <4>1
    <3> HIDE DEF w, At, Short
    <3>9. QED
      BY <2>1, <2>2, <3>1, <3>8
  <2>5. QED
    BY <1>0, <2>2, <2>3, <2>4
<1>3. MaxSteps \in S
  <2> HIDE DEF S
  <2>1. 0 .. MaxSteps \subseteq S
    BY <1>0, <1>1, <1>2, StepByStep
  <2>2. QED
    BY <1>0, <2>1
<1>4. Walk(tree, p) = At(Len(p))
  <2>1. Short(MaxSteps) = Len(p)
    BY <1>0
  <2> HIDE DEF At, Short
  <2>2. QED
    BY <1>3, <2>1, WalkSteps
<1>5. SubSeq(p, 1, Len(p)) = p /\ SubSeq(p, Len(p) + 1, Len(p)) = <<>>
  BY <1>0, SubSeqFull, SubSeqEmpty DEF Path
<1>6. QED
  BY <1>4, <1>5

-----------------------------------------------------------------------------
(* Trees.                                                                  *)

\* Whatever exists, so do the directories on the way to it.
LEMMA PrefixesExist ==
    ASSUME NEW C, NEW tree, IsTree(tree, C), NEW p \in DOMAIN tree
    PROVE  \A i \in 0 .. Len(p) :
              /\ SubSeq(p, 1, i) \in DOMAIN tree
              /\ i < Len(p) => tree[SubSeq(p, 1, i)].kind = "dir"
<1>0. p \in Path /\ Len(p) \in Nat
  BY LenProperties DEF IsTree, Path
<1> DEFINE Holds(i) == /\ SubSeq(p, 1, i) \in DOMAIN tree
                       /\ i < Len(p) => tree[SubSeq(p, 1, i)].kind = "dir"
           S == {n \in 0 .. Len(p) : Holds(Len(p) - n)}
<1>1. 0 \in S
  <2>1. SubSeq(p, 1, Len(p)) = p
    BY <1>0, SubSeqFull DEF Path
  <2>2. Len(p) - 0 = Len(p) /\ ~(Len(p) < Len(p)) /\ 0 \in 0 .. Len(p)
    BY <1>0
  <2>3. Holds(Len(p))
    BY <2>1, <2>2
  <2> HIDE DEF Holds
  <2>4. QED
    BY <2>2, <2>3
<1>2. ASSUME NEW n \in 0 .. Len(p), n \in S, n # Len(p) PROVE n + 1 \in S
  <2> DEFINE i == Len(p) - n
             q == SubSeq(p, 1, i)
  <2>1. i \in 1 .. Len(p) /\ Len(p) - (n + 1) = i - 1 /\ n + 1 \in 0 .. Len(p)
    BY <1>0, <1>2
  <2>2. q \in DOMAIN tree
    BY <1>2
  <2> HIDE DEF i
  <2>3. i \in 0 .. Len(p) /\ (i - 1 = 0 \/ i - 1 \in 1 .. i)
    BY <1>0, <2>1
  <2>4. q \in Path /\ Len(q) = i /\ q # <<>>
    <3>1. q \in Path /\ Len(q) = i
      BY <1>0, <2>3, FirstOf
    <3>2. i # 0
      BY <1>0, <2>1
    <3>3. QED
      BY <3>1, <3>2, EmptyPath
  <2>5. Front(q) = SubSeq(p, 1, i - 1)
    <3>1. Front(q) = SubSeq(q, 1, i - 1)
      BY <2>4 DEF Front
    <3>2. CASE i - 1 = 0
      BY <3>1, <3>2, SubSeqEmpty
    <3>3. CASE i - 1 \in 1 .. i
      BY <1>0, <2>3, <3>1, <3>3, FirstOf
    <3>4. QED
      BY <2>3, <3>2, <3>3
  <2>6. Front(q) \in DOMAIN tree /\ tree[Front(q)].kind = "dir"
    BY <2>2, <2>4 DEF IsTree
  <2>7. QED
    BY <2>1, <2>5, <2>6
<1>3. 0 .. Len(p) \subseteq S
  <2> HIDE DEF S
  <2>1. QED
    BY <1>0, <1>1, <1>2, StepByStep
<1>4. ASSUME NEW i \in 0 .. Len(p) PROVE Holds(i)
  <2>1. Len(p) - i \in 0 .. Len(p) /\ Len(p) - (Len(p) - i) = i
    BY <1>0
  <2>2. Holds(Len(p) - (Len(p) - i))
    BY <1>3, <2>1
  <2> HIDE DEF Holds
  <2>3. QED
    BY <2>1, <2>2
<1>5. QED
  BY <1>4

\* A path that has no link and no ".." leads to itself, if to anything.
LEMMA ReachedReal ==
    ASSUME NEW C, NEW tree, IsTree(tree, C), NEW p \in Path, Real(tree, p),
           Len(p) <= MaxSteps
    PROVE  Reached(tree, p) = {q \in {p} : q \in DOMAIN tree}
<1>1. /\ Walk(tree, p).done = p /\ Walk(tree, p).rest = <<>>
      /\ Walk(tree, p).missing <=>
            \E i \in 1 .. Len(p) : SubSeq(p, 1, i) \notin DOMAIN tree
  BY RealWalk
<1>2. Len(p) \in Nat /\ SubSeq(p, 1, Len(p)) = p
  BY LenProperties, SubSeqFull DEF Path
<1>3. CASE p \in DOMAIN tree
  <2>1. \A i \in 1 .. Len(p) : i \in 0 .. Len(p) /\ SubSeq(p, 1, i) \in DOMAIN tree
    BY <1>2, <1>3, PrefixesExist
  <2>2. QED
    BY <1>1, <1>3, <2>1 DEF Reached, InCycle
<1>4. CASE p \notin DOMAIN tree
  <2>1. p # <<>>
    BY <1>4 DEF IsTree
  <2>2. Len(p) \in 1 .. Len(p)
    BY <1>2, <2>1, EmptySeq DEF Path
  <2>3. Walk(tree, p).missing
    BY <1>1, <1>2, <1>4, <2>2
  <2>4. QED
    BY <1>4, <2>3 DEF Reached
<1>5. QED
  BY <1>3, <1>4

LEMMA EntryReal ==
    ASSUME NEW C, NEW tree, IsTree(tree, C), NEW p \in Path, p # <<>>,
           Real(tree, Front(p)), Len(p) - 1 <= MaxSteps
    PROVE  \A q : q \in Entry(tree, p) <=> /\ q = p /\ Front(p) \in DOMAIN tree
                                           /\ tree[Front(p)].kind = "dir"
<1>1. Front(p) \in Path /\ Len(Front(p)) <= MaxSteps
  BY FrontOf
<1>2. Reached(tree, Front(p)) = {q \in {Front(p)} : q \in DOMAIN tree}
  BY <1>1, ReachedReal
<1>3. Append(Front(p), Last(p)) = p
  BY FrontAndLast
<1>4. QED
  BY <1>2, <1>3 DEF Entry

\* Whether its entry is a link is seen.
LEMMA SymlinkSeen ==
    ASSUME NEW C, NEW tree, IsTree(tree, C), NEW p \in Path, p # <<>>,
           Real(tree, Front(p)), Len(p) - 1 <= MaxSteps
    PROVE  IsLinkAt(tree, p) => IsSymlink(tree, p)
<1>1. SUFFICES ASSUME p \in DOMAIN tree, IsLinkAt(tree, p)
               PROVE  IsSymlink(tree, p)
  BY DEF IsLinkAt
<1>2. p \in Entry(tree, p)
  BY <1>1, EntryReal DEF IsTree
<1>3. QED
  BY <1>1, <1>2 DEF IsSymlink

LEMMA WritableReal ==
    ASSUME NEW tree, NEW p \in Path, Real(tree, p), Len(p) <= MaxSteps
    PROVE  Writable(tree, p) = {q \in {p} \ {<<>>} :
              /\ Front(q) \in DOMAIN tree /\ tree[Front(q)].kind = "dir"
              /\ q \in DOMAIN tree => tree[q].kind = "file"}
<1>1. Walk(tree, p).done = p /\ Walk(tree, p).rest = <<>>
  BY RealWalk
<1>2. QED
  BY <1>1 DEF Writable, InCycle

\* What a walk that missed nothing has come to exists.
LEMMA WalkFound ==
    ASSUME NEW C, NEW tree, IsTree(tree, C), NEW p \in Path
    PROVE  /\ OnWay(tree, Walk(tree, p), MaxSteps)
           /\ ~Walk(tree, p).missing => Walk(tree, p).done \in DOMAIN tree
<1> DEFINE w == WalkFrom(tree, p)
           Found(walk) == ~walk.missing => walk.done \in DOMAIN tree
           S == {n \in 0 .. MaxSteps : OnWay(tree, w[n], n) /\ Found(w[n])}
<1>0. MaxSteps \in Nat /\ LinksLead(tree)
  BY RootsAssumption DEF IsTree, IsNode, LinksLead
<1>1. 0 \in S
  <2>1. OnWay(tree, Start(p), 0) /\ Found(Start(p))
    BY EmptyPath DEF OnWay, Start, IsTree
  <2> HIDE DEF Found
  <2>2. QED
    BY <1>0, <2>1, WalkSteps
<1>2. ASSUME NEW n \in 0 .. MaxSteps, n \in S, n # MaxSteps PROVE n + 1 \in S
  <2>1. w[n + 1] = WalkStep(tree, w[n])
    BY <1>2, WalkSteps
  <2>2. /\ n \in Nat /\ n + 1 \in 0 .. MaxSteps
        /\ OnWay(tree, w[n], n) /\ Found(w[n])
    BY <1>0, <1>2
  <2> DEFINE walk == w[n]
  <2> HIDE DEF w, Found
  <2>3. OnWay(tree, WalkStep(tree, walk), n + 1)
    BY <1>0, <2>2, StepOnWay
  <2>4. Found(WalkStep(tree, walk))
    <3> DEFINE here == Append(walk.done, Head(walk.rest))
    <3>1. CASE walk.rest = <<>>
      BY <2>2, <3>1 DEF WalkStep
    <3>2. CASE walk.rest # <<>> /\ Head(walk.rest) = ".."
      <4>1. WalkStep(tree, walk).done = Front(walk.done)
            /\ WalkStep(tree, walk).missing = walk.missing
        BY <3>2 DEF WalkStep, OneComponent
      <4>2. walk.done \in DOMAIN tree => Front(walk.done) \in DOMAIN tree
        <5>1. CASE walk.done = <<>>
          BY <5>1, EmptyFront DEF IsTree
        <5>2. CASE walk.done # <<>>
          BY <5>2 DEF IsTree
        <5>3. QED
          BY <5>1, <5>2
      <4>3. QED
        BY <2>2, <4>1, <4>2 DEF Found
    <3>3. CASE /\ walk.rest # <<>> /\ Head(walk.rest) # ".."
               /\ IsLinkAt(tree, here)
      <4>1. WalkStep(tree, walk).done = <<>>
        BY <3>3 DEF WalkStep, OneComponent
      <4>2. QED
        BY <4>1 DEF Found, IsTree
    <3>4. CASE /\ walk.rest # <<>> /\ Head(walk.rest) # ".."
               /\ ~IsLinkAt(tree, here)
      <4>1. /\ WalkStep(tree, walk).done = here
            /\ here \notin DOMAIN tree => WalkStep(tree, walk).missing
        BY <3>4 DEF WalkStep, OneComponent
      <4>2. QED
        BY <4>1 DEF Found
    <3>5. QED
      BY <3>1, <3>2, <3>3, <3>4
  <2>5. QED
    BY <2>1, <2>2, <2>3, <2>4
<1>3. MaxSteps \in S
  <2> HIDE DEF S
  <2>1. 0 .. MaxSteps \subseteq S
    BY <1>0, <1>1, <1>2, StepByStep
  <2>2. QED
    BY <1>0, <2>1
<1>4. QED
  BY <1>3, WalkSteps

\* What a candidate is resolved to, or a root: a path without "..", and without
\* a link unless the walk was in a cycle.
LEMMA ArrivedAt ==
    ASSUME NEW C, NEW tree, IsTree(tree, C), NEW p \in Path
    PROVE  LET walk == Walk(tree, p)
               q    == Arrived(walk)
           IN  /\ q \in Path /\ Len(q) <= MaxSteps
               /\ \A i \in 1 .. Len(q) : q[i] # ".."
               /\ ~InCycle(walk) => Real(tree, q)
<1> DEFINE walk  == Walk(tree, p)
           empty == [q \in {} |-> Directory]
<1>1. OnWay(tree, walk, MaxSteps)
  BY WalkFound
<1>2. CASE ~InCycle(walk)
  BY <1>1, <1>2 DEF Arrived, OnWay, Real
<1>3. CASE InCycle(walk)
  <2>1. walk.done \o walk.rest \in Path
    BY <1>1, ConcatProperties DEF OnWay, Path
  <2>2. LinksLead(empty)
    BY DEF LinksLead
  <2> HIDE DEF walk, empty
  <2>3. OnWay(empty, Walk(empty, walk.done \o walk.rest), MaxSteps)
    BY <2>1, <2>2, WalkIsReal
  <2>4. Arrived(walk) = Walk(empty, walk.done \o walk.rest).done
    BY <1>3 DEF Arrived, Lexical, empty
  <2>5. QED
    BY <1>3, <2>3, <2>4 DEF OnWay, Real, walk
<1>4. QED
  BY <1>2, <1>3

LEMMA ReachedExists ==
    ASSUME NEW C, NEW tree, IsTree(tree, C), NEW p \in Path,
           NEW q \in Reached(tree, p)
    PROVE  q \in DOMAIN tree /\ q \in Path
  BY WalkFound DEF Reached, OnWay

LEMMA EntryPlace ==
    ASSUME NEW C, NEW tree, IsTree(tree, C), NEW p \in Path, p # <<>>,
           NEW q \in Entry(tree, p)
    PROVE  /\ q \in Path /\ q # <<>>
           /\ Front(q) \in DOMAIN tree /\ tree[Front(q)].kind = "dir"
<1>1. PICK d \in Reached(tree, Front(p)) :
        q = Append(d, Last(p)) /\ tree[d].kind = "dir"
  BY DEF Entry
<1>2. Front(p) \in Path /\ Last(p) \in STRING
  BY FrontOf
<1>3. d \in DOMAIN tree /\ d \in Path
  BY <1>2, ReachedExists
<1>4. q \in Path /\ q # <<>> /\ Front(q) = d
  BY <1>1, <1>2, <1>3, AppendOf
<1>5. QED
  BY <1>1, <1>3, <1>4

LEMMA WritablePlace ==
    ASSUME NEW C, NEW tree, IsTree(tree, C), NEW p \in Path,
           NEW q \in Writable(tree, p)
    PROVE  /\ q \in Path /\ q # <<>>
           /\ Front(q) \in DOMAIN tree /\ tree[Front(q)].kind = "dir"
           /\ q \in DOMAIN tree => tree[q].kind = "file"
<1>1. Walk(tree, p).done \in Path
  BY WalkFound DEF OnWay
<1>2. QED
  BY <1>1 DEF Writable

\* What a path being at or below another comes to.
LEMMA BelowIs ==
    ASSUME NEW p \in Path, NEW q \in Path
    PROVE  /\ IsPrefix(q, p) <=> Len(q) <= Len(p) /\ SubSeq(p, 1, Len(q)) = q
           /\ AtOrBelow(p, q) <=> IsPrefix(q, p)
<1>1. Len(p) \in Nat /\ Len(q) \in Nat /\ SubSeq(p, 1, Len(p)) = p
      /\ SubSeq(q, 1, Len(q)) = q
  BY LenProperties, SubSeqFull DEF Path
<1>2. IsPrefix(q, p) <=> Len(q) <= Len(p) /\ SubSeq(p, 1, Len(q)) = q
  BY <1>1 DEF IsPrefix
<1>3. QED
  BY <1>1, <1>2 DEF AtOrBelow, IsStrictPrefix

\* What is below something is so with what is below it.
LEMMA FrontBelow ==
    ASSUME NEW p \in Path, p # <<>>, NEW q \in Path
    PROVE  /\ AtOrBelow(Front(p), q) => AtOrBelow(p, q)
           /\ AtOrBelow(p, q) /\ p # q => AtOrBelow(Front(p), q)
           /\ ~AtOrBelow(Front(p), p)
<1>1. /\ Front(p) \in Path /\ Len(Front(p)) = Len(p) - 1 /\ Len(p) \in Nat \ {0}
      /\ \A i \in 1 .. Len(p) - 1 : SubSeq(Front(p), 1, i) = SubSeq(p, 1, i)
      /\ Len(q) \in Nat
  BY FrontOf, LenProperties DEF Path
<1>2. Len(q) <= Len(p) - 1 => SubSeq(Front(p), 1, Len(q)) = SubSeq(p, 1, Len(q))
  <2>1. CASE Len(q) = 0
    BY <2>1, SubSeqEmpty
  <2>2. CASE Len(q) # 0
    BY <1>1, <2>2
  <2>3. QED
    BY <2>1, <2>2
<1>3. ~AtOrBelow(Front(p), p)
  BY <1>1, BelowIs
<1>4. AtOrBelow(Front(p), q) => AtOrBelow(p, q)
  BY <1>1, <1>2, BelowIs
<1>5. ASSUME AtOrBelow(p, q), p # q PROVE AtOrBelow(Front(p), q)
  <2>1. Len(q) <= Len(p) /\ SubSeq(p, 1, Len(q)) = q /\ SubSeq(p, 1, Len(p)) = p
    BY <1>5, BelowIs, SubSeqFull DEF Path
  <2>2. Len(q) <= Len(p) - 1
    BY <1>1, <1>5, <2>1
  <2>3. QED
    BY <1>1, <1>2, <2>1, <2>2, BelowIs
<1>6. QED
  BY <1>3, <1>4, <1>5

\* What the first components of a path are at or below, the path is.
LEMMA FirstBelow ==
    ASSUME NEW p \in Path, NEW n \in 0 .. Len(p), NEW q \in Path,
           AtOrBelow(SubSeq(p, 1, n), q)
    PROVE  AtOrBelow(p, q)
<1> DEFINE r == SubSeq(p, 1, n)
<1>1. /\ r \in Path /\ Len(r) = n /\ Len(p) \in Nat
      /\ \A i \in 1 .. n : SubSeq(r, 1, i) = SubSeq(p, 1, i)
  BY FirstOf
<1> HIDE DEF r
<1>2. Len(q) <= n /\ SubSeq(r, 1, Len(q)) = q /\ Len(q) \in Nat
  BY <1>1, BelowIs, LenProperties DEF r, Path
<1>3. SubSeq(p, 1, Len(q)) = q
  <2>1. CASE Len(q) = 0
    BY <1>2, <2>1, SubSeqEmpty
  <2>2. CASE Len(q) # 0
    BY <1>1, <1>2, <2>2
  <2>3. QED
    BY <2>1, <2>2
<1>4. QED
  BY <1>1, <1>2, <1>3, BelowIs

\* A node is put where nothing is, or in place of a file.
LEMMA PutKeepsTree ==
    ASSUME NEW C, NEW tree, IsTree(tree, C), NEW q \in Path, q # <<>>,
           Front(q) \in DOMAIN tree, tree[Front(q)].kind = "dir",
           q \in DOMAIN tree => tree[q].kind # "dir",
           NEW node, IsNode(node, C)
    PROVE  IsTree(Put(tree, q, node), C)
<1> DEFINE new == Put(tree, q, node)
<1>1. /\ DOMAIN new = DOMAIN tree \cup {q} /\ new[q] = node
      /\ \A p \in DOMAIN tree : p # q => new[p] = tree[p]
  BY DEF Put
<1>2. Front(q) # q
  <2>1. Len(Front(q)) = Len(q) - 1 /\ Len(q) \in Nat
    BY FrontOf
  <2>2. QED
    BY <2>1
<1> HIDE DEF new
<1>3. ASSUME NEW p \in DOMAIN new
      PROVE  /\ p \in Path /\ IsNode(new[p], C)
             /\ p # <<>> => Front(p) \in DOMAIN new /\ new[Front(p)].kind = "dir"
  <2>1. CASE p = q
    BY <1>1, <1>2, <2>1
  <2>2. CASE p \in DOMAIN tree /\ p # q
    <3>1. /\ p \in Path /\ IsNode(tree[p], C)
          /\ p # <<>> => Front(p) \in DOMAIN tree /\ tree[Front(p)].kind = "dir"
      BY <2>2 DEF IsTree
    <3>2. p # <<>> => Front(p) # q
      BY <3>1
    <3>3. QED
      BY <1>1, <2>2, <3>1, <3>2
  <2>3. QED
    BY <1>1, <2>1, <2>2
<1>4. <<>> \in DOMAIN new
  BY <1>1 DEF IsTree
<1>5. QED
  BY <1>3, <1>4 DEF IsTree, new

\* What is removed is removed with everything below it.
LEMMA RemovedKeepsTree ==
    ASSUME NEW C, NEW tree, IsTree(tree, C), NEW q \in Path, q # <<>>
    PROVE  /\ IsTree(Removed(tree, q), C) /\ q \notin DOMAIN Removed(tree, q)
           /\ Front(q) \in DOMAIN tree =>
                 /\ Front(q) \in DOMAIN Removed(tree, q)
                 /\ Removed(tree, q)[Front(q)] = tree[Front(q)]
<1> DEFINE new == Removed(tree, q)
<1>1. /\ DOMAIN new = {p \in DOMAIN tree : ~AtOrBelow(p, q)}
      /\ \A p \in DOMAIN new : new[p] = tree[p]
  BY DEF Removed
<1> HIDE DEF new
<1>2. ASSUME NEW p \in DOMAIN new
      PROVE  /\ p \in Path /\ IsNode(new[p], C)
             /\ p # <<>> => Front(p) \in DOMAIN new /\ new[Front(p)].kind = "dir"
  <2>1. /\ p \in Path /\ IsNode(tree[p], C)
        /\ p # <<>> => Front(p) \in DOMAIN tree /\ tree[Front(p)].kind = "dir"
    BY <1>1 DEF IsTree
  <2>2. p # <<>> => ~AtOrBelow(Front(p), q)
    BY <1>1, <2>1, FrontBelow
  <2>3. QED
    BY <1>1, <2>1, <2>2
<1>3. <<>> \in DOMAIN new
  <2>1. Len(q) \in Nat \ {0}
    BY FrontOf
  <2>2. ~AtOrBelow(<<>>, q)
    BY <2>1, BelowIs, EmptyPath
  <2>3. QED
    BY <1>1, <2>2 DEF IsTree
<1>4. q \notin DOMAIN new
  BY <1>1 DEF AtOrBelow
<1>5. ~AtOrBelow(Front(q), q)
  BY FrontBelow
<1>6. QED
  BY <1>1, <1>2, <1>3, <1>4, <1>5 DEF IsTree, new

=============================================================================
