------------------------------ MODULE Induction ------------------------------
(***************************************************************************)
(* Facts about numbers, sequences and sums that the proofs of the modules  *)
(* share: induction over the natural numbers, stated of sets and functions *)
(* rather than of operators; that a function given by its value at the     *)
(* number before exists, is the only one, and keeps the type each step     *)
(* keeps; what is in a sequence with an element more, in two sequences put *)
(* together and in a sequence of sequences joined; and what the weights of *)
(* the elements of a sequence add up to.                                   *)
(***************************************************************************)
EXTENDS Integers, SequencesExt, FiniteSetTheorems, SequenceTheorems, TLAPS

\* A set of naturals has a least element.
LEMMA Least ==
    ASSUME NEW T, T \subseteq Nat, T # {}
    PROVE  \E m \in T : \A k \in T : m <= k
<1> DEFINE U == {0 .. n : n \in T}
<1>1. U \subseteq FiniteSubsetsOf(Nat) /\ U # {}
  <2>1. ASSUME NEW n \in T PROVE IsFiniteSet(0 .. n) /\ 0 .. n \subseteq Nat
    BY FS_Interval
  <2>2. QED
    BY <2>1 DEF FiniteSubsetsOf
<1> HIDE DEF U
<1>2. \E x \in U : \A y \in U : <<y, x>> \notin StrictSubsetOrdering(Nat)
  BY <1>1, FS_StrictSubsetOrderingWellFounded, WFMin, Zenon
<1>3. PICK m \in T : \A k \in T : <<0 .. k, 0 .. m>> \notin StrictSubsetOrdering(Nat)
  BY <1>2 DEF U
<1>4. ASSUME NEW k \in T, k < m PROVE FALSE
  <2>1. 0 .. k \in SUBSET Nat /\ 0 .. m \in SUBSET Nat /\ 0 .. k \subseteq 0 .. m
    BY <1>4
  <2>2. m \in 0 .. m /\ m \notin 0 .. k
    BY <1>4
  <2>3. QED
    BY <2>1, <2>2, <1>3 DEF StrictSubsetOrdering
<1>5. QED
  BY <1>4

\* Induction on a set S of the numbers of which something holds.
LEMMA StepByStep ==
    ASSUME NEW m \in Nat, NEW S, 0 \in S,
           \A n \in 0 .. m : n \in S /\ n # m => n + 1 \in S
    PROVE  0 .. m \subseteq S
<1> DEFINE T == {n \in 0 .. m : n \notin S}
<1> SUFFICES ASSUME T # {} PROVE FALSE
  OBVIOUS
<1>1. PICK n \in T : \A k \in T : n <= k
  <2>1. T \subseteq Nat
    OBVIOUS
  <2>2. QED
    BY <2>1, Least
<1>2. n \in 1 .. m /\ n - 1 \in 0 .. m /\ n - 1 \notin T
  BY <1>1
<1>3. n - 1 \in S /\ n - 1 # m /\ (n - 1) + 1 = n
  BY <1>2
<1>4. QED
  BY <1>1, <1>3

-----------------------------------------------------------------------------
(* Functions defined step by step.                                         *)

StepFrom(base, step, n, f) ==
    f = [k \in 0 .. n |-> IF k = 0 THEN base ELSE step[<<k, f[k - 1]>>]]

\* Up to any number there is a function.
LEMMA StepsExist ==
    ASSUME NEW S, NEW base \in S, NEW step \in [Nat \X S -> S], NEW m \in Nat
    PROVE  \E f : StepFrom(base, step, m, f)
<1> DEFINE T == {n \in 0 .. m : \E f : StepFrom(base, step, n, f)}
<1>1. 0 \in T
  <2>1. StepFrom(base, step, 0, [k \in 0 .. 0 |-> base])
    BY DEF StepFrom
  <2>2. QED
    BY <2>1
<1>2. ASSUME NEW n \in 0 .. m, n \in T, n # m PROVE n + 1 \in T
  <2>1. PICK f : StepFrom(base, step, n, f)
    BY <1>2
  <2> DEFINE last == step[<<n + 1, f[n]>>]
             g == [k \in 0 .. n + 1 |-> IF k = n + 1 THEN last ELSE f[k]]
             h == [k \in 0 .. n + 1 |->
                     IF k = 0 THEN base ELSE step[<<k, g[k - 1]>>]]
  <2>2. ASSUME NEW k \in 0 .. n + 1
        PROVE  g[k] = IF k = 0 THEN base ELSE step[<<k, g[k - 1]>>]
    <3>1. CASE k = n + 1
      <4>1. g[k] = last /\ k - 1 = n /\ k # 0 /\ n \in 0 .. n + 1 /\ n # n + 1
        BY <3>1
      <4>2. g[n] = f[n]
        BY <4>1
      <4>3. QED
        BY <3>1, <4>1, <4>2
    <3>2. CASE k = 0
      <4>1. g[k] = f[k] /\ 0 \in 0 .. n
        BY <3>2
      <4>2. QED
        BY <2>1, <3>2, <4>1 DEF StepFrom
    <3>3. CASE k \in 1 .. n
      <4>1. k \in 0 .. n /\ k - 1 \in 0 .. n /\ k # 0 /\ k # n + 1 /\ k - 1 # n + 1
            /\ k - 1 \in 0 .. n + 1
        BY <3>3
      <4>2. f[k] = step[<<k, f[k - 1]>>]
        BY <2>1, <4>1 DEF StepFrom
      <4>3. g[k] = f[k] /\ g[k - 1] = f[k - 1]
        BY <4>1
      <4>4. QED
        BY <4>1, <4>2, <4>3
    <3>4. QED
      BY <3>1, <3>2, <3>3
  <2>3. DOMAIN g = 0 .. n + 1 /\ g = [k \in 0 .. n + 1 |-> g[k]]
    OBVIOUS
  <2> HIDE DEF g
  <2>4. g = h
    BY <2>2, <2>3
  <2>5. n + 1 \in 0 .. m
    BY <1>2
  <2>6. QED
    BY <2>4, <2>5 DEF StepFrom
<1> HIDE DEF T
<1>3. 0 .. m \subseteq T
  BY <1>1, <1>2, StepByStep
<1>4. QED
  BY <1>3 DEF T

\* And they agree with each other.
LEMMA StepsAgree ==
    ASSUME NEW base, NEW step, NEW m \in Nat, NEW n \in 0 .. m,
           NEW f, StepFrom(base, step, m, f), NEW g, StepFrom(base, step, n, g)
    PROVE  \A k \in 0 .. n : f[k] = g[k]
<1> DEFINE T == {k \in 0 .. n : f[k] = g[k]}
<1>1. 0 \in T
  BY DEF StepFrom
<1>2. ASSUME NEW k \in 0 .. n, k \in T, k # n PROVE k + 1 \in T
  <2>1. /\ k + 1 \in 0 .. n /\ k + 1 \in 0 .. m /\ k + 1 # 0 /\ (k + 1) - 1 = k
        /\ f[k] = g[k]
    BY <1>2
  <2>2. /\ f[k + 1] = step[<<k + 1, f[(k + 1) - 1]>>]
        /\ g[k + 1] = step[<<k + 1, g[(k + 1) - 1]>>]
    BY <2>1 DEF StepFrom
  <2>3. f[k + 1] = g[k + 1]
    BY <2>1, <2>2
  <2>4. QED
    BY <2>1, <2>3
<1> HIDE DEF T
<1>3. 0 .. n \subseteq T
  BY <1>1, <1>2, StepByStep
<1>4. QED
  BY <1>3 DEF T

\* What holds at 0 and is kept from each number to the next holds at each.
LEMMA StepsStay ==
    ASSUME NEW m \in Nat, NEW S, NEW f, f[0] \in S,
           \A n \in 1 .. m : f[n - 1] \in S => f[n] \in S
    PROVE  \A n \in 0 .. m : f[n] \in S
<1> DEFINE T == {n \in 0 .. m : f[n] \in S}
<1>1. 0 \in T
  OBVIOUS
<1>2. ASSUME NEW n \in 0 .. m, n \in T, n # m PROVE n + 1 \in T
  <2>1. n + 1 \in 1 .. m /\ (n + 1) - 1 = n /\ n + 1 \in 0 .. m /\ f[n] \in S
    BY <1>2
  <2>2. f[n + 1] \in S
    BY <2>1
  <2>3. QED
    BY <2>1, <2>2
<1> HIDE DEF T
<1>3. 0 .. m \subseteq T
  BY <1>1, <1>2, StepByStep
<1>4. QED
  BY <1>3 DEF T

\* Two functions that go the same way from the same start are the same.
LEMMA SameSteps ==
    ASSUME NEW m \in Nat, NEW f, NEW g, f[0] = g[0],
           \A n \in 1 .. m : f[n - 1] = g[n - 1] => f[n] = g[n]
    PROVE  \A n \in 0 .. m : f[n] = g[n]
<1> DEFINE T == {n \in 0 .. m : f[n] = g[n]}
<1>1. 0 \in T
  OBVIOUS
<1>2. ASSUME NEW n \in 0 .. m, n \in T, n # m PROVE n + 1 \in T
  <2>1. n + 1 \in 1 .. m /\ (n + 1) - 1 = n /\ n + 1 \in 0 .. m /\ f[n] = g[n]
    BY <1>2
  <2>2. f[n + 1] = g[n + 1]
    BY <2>1
  <2>3. QED
    BY <2>1, <2>2
<1> HIDE DEF T
<1>3. 0 .. m \subseteq T
  BY <1>1, <1>2, StepByStep
<1>4. QED
  BY <1>3 DEF T

LEMMA StepsTyped ==
    ASSUME NEW S, NEW base \in S, NEW step \in [Nat \X S -> S], NEW m \in Nat,
           NEW f, StepFrom(base, step, m, f)
    PROVE  \A n \in 0 .. m : f[n] \in S
<1>1. f[0] = base
  BY DEF StepFrom
<1>2. ASSUME NEW n \in 1 .. m, f[n - 1] \in S PROVE f[n] \in S
  <2>1. n \in 0 .. m /\ n # 0 /\ n \in Nat
    OBVIOUS
  <2>2. f[n] = step[<<n, f[n - 1]>>]
    BY <2>1 DEF StepFrom
  <2>3. <<n, f[n - 1]>> \in Nat \X S
    BY <1>2, <2>1
  <2>4. QED
    BY <2>2, <2>3
<1>3. QED
  BY <1>1, <1>2, StepsStay

\* A function on a range of numbers.
LEMMA Recursion ==
    ASSUME NEW S, NEW base \in S, NEW step \in [Nat \X S -> S], NEW m \in Nat
    PROVE  \E f \in [0 .. m -> S] : StepFrom(base, step, m, f)
<1>1. PICK f : StepFrom(base, step, m, f)
  BY StepsExist
<1>2. \A n \in 0 .. m : f[n] \in S
  BY <1>1, StepsTyped
<1>3. f \in [0 .. m -> S]
  BY <1>1, <1>2 DEF StepFrom
<1>4. QED
  BY <1>1, <1>3

StepsOverNat(base, step, f) ==
    f = [n \in Nat |-> IF n = 0 THEN base ELSE step[<<n, f[n - 1]>>]]

\* A function on all numbers.
LEMMA RecursionOverNat ==
    ASSUME NEW S, NEW base \in S, NEW step \in [Nat \X S -> S]
    PROVE  \E f \in [Nat -> S] : StepsOverNat(base, step, f)
<1> DEFINE To(n) == CHOOSE f : StepFrom(base, step, n, f)
           g == [n \in Nat |-> To(n)[n]]
<1>1. ASSUME NEW n \in Nat PROVE StepFrom(base, step, n, To(n))
  BY StepsExist
<1> HIDE DEF To
<1>2. ASSUME NEW n \in Nat PROVE To(n)[n] \in S
  <2>1. n \in 0 .. n
    OBVIOUS
  <2>2. QED
    BY <1>1, <2>1, StepsTyped
<1>3. ASSUME NEW n \in Nat
      PROVE  g[n] = IF n = 0 THEN base ELSE step[<<n, g[n - 1]>>]
  <2>1. CASE n = 0
    <3>1. StepFrom(base, step, 0, To(0))
      BY <1>1
    <3>2. To(0)[0] = base
      BY <3>1 DEF StepFrom
    <3>3. QED
      BY <2>1, <3>2
  <2>2. CASE n # 0
    <3>1. n - 1 \in Nat /\ n \in 0 .. n /\ n - 1 \in 0 .. n /\ n - 1 \in 0 .. n - 1
      BY <2>2
    <3>2. To(n)[n] = step[<<n, To(n)[n - 1]>>]
      BY <1>1, <2>2, <3>1 DEF StepFrom
    <3>3. To(n)[n - 1] = To(n - 1)[n - 1]
      BY <1>1, <3>1, StepsAgree
    <3>4. g[n] = To(n)[n] /\ g[n - 1] = To(n - 1)[n - 1]
      BY <3>1
    <3>5. QED
      BY <2>2, <3>2, <3>3, <3>4
  <2>3. QED
    BY <2>1, <2>2
<1>4. g \in [Nat -> S]
  BY <1>2
<1> HIDE DEF g
<1>5. g = [n \in Nat |-> IF n = 0 THEN base ELSE step[<<n, g[n - 1]>>]]
  <2> DEFINE h == [n \in Nat |-> IF n = 0 THEN base ELSE step[<<n, g[n - 1]>>]]
  <2>1. \A n \in Nat : g[n] = h[n]
    BY <1>3
  <2>2. QED
    BY <1>4, <2>1
<1>6. StepsOverNat(base, step, g)
  BY <1>5 DEF StepsOverNat
<1>7. QED
  BY <1>4, <1>6
-----------------------------------------------------------------------------
\* What holds of the empty sequence, and with every sequence of those one longer,
\* holds of all sequences.
LEMMA SequenceByElement ==
    ASSUME NEW S, NEW T, <<>> \in T,
           \A s \in Seq(S), e \in S : s \in T => s \o <<e>> \in T
    PROVE  \A s \in Seq(S) : s \in T
<1> SUFFICES ASSUME NEW s \in Seq(S) PROVE s \in T
  OBVIOUS
<1>0. Len(s) \in Nat /\ \A i \in 1 .. Len(s) : s[i] \in S
  BY LenProperties, ElementOfSeq
<1> DEFINE U == {n \in 0 .. Len(s) : SubSeq(s, 1, n) \in T}
<1>1. 0 \in U
  <2>1. SubSeq(s, 1, 0) = <<>>
    BY SubSeqEmpty
  <2>2. SubSeq(s, 1, 0) \in T
    BY <2>1, Zenon
  <2>3. QED
    BY <1>0, <2>2
<1>2. ASSUME NEW n \in 0 .. Len(s), n \in U, n # Len(s) PROVE n + 1 \in U
  <2>1. n + 1 \in 1 .. Len(s) /\ (n + 1) - 1 = n /\ 1 \in 1 .. Len(s)
        /\ n + 1 \in 1 .. Len(s)
    BY <1>0, <1>2
  <2>2. SubSeq(s, 1, n + 1) = SubSeq(s, 1, (n + 1) - 1) \o <<s[n + 1]>>
    BY <2>1, SubSeqRecursiveSecond
  <2>3. SubSeq(s, 1, n) \in Seq(S)
    BY <1>0, SubSeqProperties
  <2>4. SubSeq(s, 1, n) \in T /\ s[n + 1] \in S
    BY <1>0, <1>2, <2>1
  <2>5. SubSeq(s, 1, n) \o <<s[n + 1]>> \in T
    BY <2>3, <2>4
  <2>6. SubSeq(s, 1, n + 1) \in T
    BY <2>1, <2>2, <2>5
  <2>7. QED
    BY <2>1, <2>6
<1> HIDE DEF U
<1>3. 0 .. Len(s) \subseteq U
  BY <1>0, <1>1, <1>2, StepByStep
<1>4. SubSeq(s, 1, Len(s)) \in T
  BY <1>0, <1>3 DEF U
<1>5. SubSeq(s, 1, Len(s)) = s
  BY SubSeqFull
<1>6. QED
  BY <1>4, <1>5 DEF StepsOverNat
-----------------------------------------------------------------------------
(* Sequences of one element more.                                          *)

LEMMA ElementsOfOneMore ==
    ASSUME NEW S, NEW s \in Seq(S), NEW e \in S
    PROVE  /\ s \o <<e>> \in Seq(S) /\ Len(s \o <<e>>) = Len(s) + 1
           /\ \A i \in 1 .. Len(s) : (s \o <<e>>)[i] = s[i]
           /\ (s \o <<e>>)[Len(s) + 1] = e
<1>1. <<e>> \in Seq(S) /\ Len(<<e>>) = 1 /\ <<e>>[1] = e
  OBVIOUS
<1>2. Len(s) \in Nat
  BY LenProperties
<1>3. /\ s \o <<e>> \in Seq(S) /\ Len(s \o <<e>>) = Len(s) + Len(<<e>>)
      /\ \A i \in 1 .. Len(s) + Len(<<e>>) :
            (s \o <<e>>)[i] = IF i <= Len(s) THEN s[i] ELSE <<e>>[i - Len(s)]
  BY <1>1, ConcatProperties
<1>4. (s \o <<e>>)[Len(s) + 1] = <<e>>[(Len(s) + 1) - Len(s)]
  BY <1>1, <1>2, <1>3
<1>5. (Len(s) + 1) - Len(s) = 1
  BY <1>2
<1>6. (s \o <<e>>)[Len(s) + 1] = e
  BY <1>1, <1>4, <1>5
<1>7. QED
  BY <1>1, <1>2, <1>3, <1>6

\* What is in two sequences is in the one after the other.
LEMMA ElementsOfBoth ==
    ASSUME NEW S, NEW s \in Seq(S), NEW t \in Seq(S), NEW e
    PROVE  e \in ToSet(s \o t) <=>
              e \in ToSet(s) \/ e \in ToSet(t)
<1>1. /\ Len(s) \in Nat /\ DOMAIN s = 1 .. Len(s)
      /\ Len(t) \in Nat /\ DOMAIN t = 1 .. Len(t)
  BY LenProperties
<1>2. /\ s \o t \in Seq(S) /\ Len(s \o t) = Len(s) + Len(t)
      /\ \A i \in 1 .. Len(s) + Len(t) : (s \o t)[i] =
            IF i <= Len(s) THEN s[i] ELSE t[i - Len(s)]
  BY ConcatProperties
<1>3. DOMAIN (s \o t) = 1 .. Len(s) + Len(t)
  BY <1>2, LenProperties
<1> DEFINE both == s \o t
<1>4. ASSUME NEW i \in 1 .. Len(s) PROVE i \in DOMAIN both /\ both[i] = s[i]
  BY <1>1, <1>2, <1>3
<1>5. ASSUME NEW i \in 1 .. Len(t)
      PROVE  Len(s) + i \in DOMAIN both /\ both[Len(s) + i] = t[i]
  BY <1>1, <1>2, <1>3
<1>6. ASSUME NEW i \in DOMAIN both
      PROVE  \/ i \in DOMAIN s /\ both[i] = s[i]
             \/ i - Len(s) \in DOMAIN t /\ both[i] = t[i - Len(s)]
  BY <1>1, <1>2, <1>3
<1> HIDE DEF both
<1>7. QED
  <2>1. ASSUME e \in ToSet(both) PROVE e \in ToSet(s) \/ e \in ToSet(t)
    BY <1>6, <2>1 DEF ToSet
  <2>2. ASSUME e \in ToSet(s) PROVE e \in ToSet(both)
    BY <1>1, <1>4, <2>2 DEF ToSet
  <2>3. ASSUME e \in ToSet(t) PROVE e \in ToSet(both)
    BY <1>1, <1>5, <2>3 DEF ToSet
  <2>4. QED
    BY <2>1, <2>2, <2>3 DEF both

LEMMA ElementOfOne == ASSUME NEW e PROVE ToSet(<<e>>) = {e}
  BY DEF ToSet

-----------------------------------------------------------------------------
(* Pieces joined to one sequence.                                          *)

Joined(pieces) ==
    CHOOSE f : f = [i \in 1 .. Len(pieces) |->
                      IF i = 1 THEN pieces[i] ELSE f[i - 1] \o pieces[i]]

LEMMA JoinedAre ==
    ASSUME NEW S, NEW pieces \in Seq(Seq(S)), pieces # <<>>
    PROVE  /\ FlattenSeq(pieces) = Joined(pieces)[Len(pieces)]
           /\ Joined(pieces)[1] = pieces[1]
           /\ \A i \in 2 .. Len(pieces) :
                 Joined(pieces)[i] = Joined(pieces)[i - 1] \o pieces[i]
           /\ \A i \in 1 .. Len(pieces) : Joined(pieces)[i] \in Seq(S)
<1> DEFINE m == Len(pieces)
           step == [x \in Nat \X Seq(S) |->
                      IF x[1] \in 1 .. m THEN x[2] \o pieces[x[1]] ELSE x[2]]
<1>0. /\ m \in Nat \ {0} /\ <<>> \in Seq(S)
      /\ \A i \in 1 .. m : pieces[i] \in Seq(S)
  BY EmptySeq, ElementOfSeq
<1>1. step \in [Nat \X Seq(S) -> Seq(S)]
  <2>1. ASSUME NEW x \in Nat \X Seq(S)
        PROVE  (IF x[1] \in 1 .. m THEN x[2] \o pieces[x[1]] ELSE x[2]) \in Seq(S)
    <3>1. x[2] \in Seq(S)
      OBVIOUS
    <3>2. x[1] \in 1 .. m => x[2] \o pieces[x[1]] \in Seq(S)
      BY <1>0, <3>1, ConcatProperties
    <3>3. QED
      BY <3>1, <3>2
  <2>2. QED
    BY <2>1
<1>2. ASSUME NEW n \in 1 .. m, NEW t \in Seq(S)
      PROVE  step[<<n, t>>] = t \o pieces[n]
  <2>1. <<n, t>> \in Nat \X Seq(S) /\ <<n, t>>[1] = n /\ <<n, t>>[2] = t
    BY <1>0
  <2>2. QED
    BY <2>1
<1> HIDE DEF step, m
<1>3. PICK f \in [0 .. m -> Seq(S)] : StepFrom(<<>>, step, m, f)
  BY <1>0, <1>1, Recursion
<1>4. ASSUME NEW n \in 1 .. m PROVE f[n] = f[n - 1] \o pieces[n]
  <2>1. n \in 0 .. m /\ n # 0 /\ n - 1 \in 0 .. m
    BY <1>0
  <2>2. f[n] = step[<<n, f[n - 1]>>] /\ f[n - 1] \in Seq(S)
    BY <1>3, <2>1 DEF StepFrom
  <2>3. QED
    BY <1>2, <2>2
<1>5. f[1] = pieces[1]
  <2>1. 1 \in 1 .. m /\ 1 - 1 = 0 /\ f[0] = <<>>
    BY <1>0, <1>3 DEF StepFrom
  <2>2. f[1] = f[0] \o pieces[1]
    BY <1>4, <2>1
  <2>3. <<>> \o pieces[1] = pieces[1]
    BY <1>0, <2>1, ConcatEmptySeq
  <2>4. QED
    BY <2>1, <2>2, <2>3, Zenon
<1> DEFINE g == [i \in 1 .. m |-> f[i]]
           h == [i \in 1 .. m |->
                   IF i = 1 THEN pieces[i] ELSE g[i - 1] \o pieces[i]]
<1>6. g = h
  <2>1. ASSUME NEW i \in 1 .. m PROVE g[i] = h[i]
    <3>1. CASE i = 1
      BY <1>5, <3>1
    <3>2. CASE i # 1
      <4>1. i - 1 \in 1 .. m
        BY <1>0, <3>2
      <4>2. g[i] = f[i] /\ g[i - 1] = f[i - 1]
        BY <4>1
      <4>3. h[i] = g[i - 1] \o pieces[i]
        BY <3>2
      <4>4. QED
        BY <1>4, <4>2, <4>3
    <3>3. QED
      BY <3>1, <3>2
  <2>2. DOMAIN g = 1 .. m /\ DOMAIN h = 1 .. m
    OBVIOUS
  <2>3. g = [i \in 1 .. m |-> g[i]] /\ h = [i \in 1 .. m |-> h[i]]
    OBVIOUS
  <2> HIDE DEF g, h
  <2>4. QED
    BY <2>1, <2>3
<1> DEFINE j == Joined(pieces)
<1>7. j = [i \in 1 .. m |-> IF i = 1 THEN pieces[i] ELSE j[i - 1] \o pieces[i]]
  <2> HIDE DEF g
  <2>1. \E e : e = [i \in 1 .. m |->
                      IF i = 1 THEN pieces[i] ELSE e[i - 1] \o pieces[i]]
    BY <1>6
  <2>2. QED
    BY <2>1 DEF Joined, m
<1> HIDE DEF j, g, h
<1>8. j[1] = pieces[1] /\ \A i \in 2 .. m : j[i] = j[i - 1] \o pieces[i]
  <2>1. 1 \in 1 .. m /\ \A i \in 2 .. m : i \in 1 .. m /\ i # 1
    BY <1>0
  <2>2. j[1] = pieces[1]
    BY <1>7, <2>1
  <2>3. ASSUME NEW i \in 2 .. m PROVE j[i] = j[i - 1] \o pieces[i]
    BY <1>7, <2>1
  <2>4. QED
    BY <2>2, <2>3
<1>9. \A i \in 1 .. m : j[i] \in Seq(S)
  <2> DEFINE T == {k \in 0 .. m - 1 : j[k + 1] \in Seq(S)}
  <2>1. 0 \in T
    BY <1>0, <1>8
  <2>2. ASSUME NEW k \in 0 .. m - 1, k \in T, k # m - 1 PROVE k + 1 \in T
    <3>1. /\ k + 1 \in 0 .. m - 1 /\ (k + 1) + 1 \in 2 .. m
          /\ ((k + 1) + 1) - 1 = k + 1 /\ (k + 1) + 1 \in 1 .. m
      BY <1>0, <2>2
    <3>2. j[(k + 1) + 1] = j[k + 1] \o pieces[(k + 1) + 1]
      BY <1>8, <3>1
    <3>3. j[k + 1] \in Seq(S) /\ pieces[(k + 1) + 1] \in Seq(S)
      BY <1>0, <2>2, <3>1
    <3>4. j[(k + 1) + 1] \in Seq(S)
      BY <3>2, <3>3, ConcatProperties
    <3>5. QED
      BY <3>1, <3>4
  <2> HIDE DEF T
  <2>3. m - 1 \in Nat
    BY <1>0
  <2>4. 0 .. m - 1 \subseteq T
    BY <2>1, <2>2, <2>3, StepByStep
  <2>5. ASSUME NEW i \in 1 .. m PROVE j[i] \in Seq(S)
    <3>1. i - 1 \in 0 .. m - 1 /\ (i - 1) + 1 = i
      BY <1>0
    <3>2. QED
      BY <2>4, <3>1 DEF T
  <2>6. QED
    BY <2>5
<1>10. FlattenSeq(pieces) = j[m]
  BY <1>0 DEF FlattenSeq, Joined, j, m
<1>11. QED
  BY <1>8, <1>9, <1>10 DEF j, m

LEMMA JoinNothing == FlattenSeq(<<>>) = <<>>
  BY DEF FlattenSeq

LEMMA JoinType ==
    ASSUME NEW S, NEW pieces \in Seq(Seq(S))
    PROVE  FlattenSeq(pieces) \in Seq(S)
<1>1. CASE pieces = <<>>
  BY <1>1, JoinNothing, EmptySeq
<1>2. CASE pieces # <<>>
  <2>1. Len(pieces) \in 1 .. Len(pieces)
    BY <1>2, EmptySeq
  <2>2. QED
    BY <1>2, <2>1, JoinedAre
<1>3. QED
  BY <1>1, <1>2

\* One piece more comes at the end.
LEMMA JoinOneMore ==
    ASSUME NEW S, NEW pieces \in Seq(Seq(S)), NEW piece \in Seq(S)
    PROVE  FlattenSeq(pieces \o <<piece>>) = FlattenSeq(pieces) \o piece
<1> DEFINE more == pieces \o <<piece>>
           m    == Len(pieces)
<1>1. /\ m \in Nat /\ more \in Seq(Seq(S)) /\ Len(more) = m + 1
      /\ more[m + 1] = piece /\ \A i \in 1 .. m : more[i] = pieces[i]
  BY ElementsOfOneMore, LenProperties
<1>2. more # <<>>
  BY <1>1, EmptySeq
<1> HIDE DEF more
<1>3. CASE pieces = <<>>
  <2>1. m = 0
    BY <1>3, EmptySeq
  <2>2. FlattenSeq(more) = Joined(more)[Len(more)] /\ Joined(more)[1] = more[1]
    BY <1>1, <1>2, JoinedAre
  <2>3. Len(more) = 1 /\ more[1] = piece
    BY <1>1, <2>1
  <2>4. FlattenSeq(more) = piece
    BY <2>2, <2>3
  <2>5. FlattenSeq(pieces) = <<>> /\ <<>> \o piece = piece
    BY <1>3, JoinNothing, ConcatEmptySeq
  <2>6. QED
    BY <2>4, <2>5, Zenon DEF more
<1>4. CASE pieces # <<>>
  <2> DEFINE a == Joined(more)
             b == Joined(pieces)
  <2>1. /\ FlattenSeq(more) = a[Len(more)] /\ a[1] = more[1]
        /\ \A i \in 2 .. Len(more) : a[i] = a[i - 1] \o more[i]
    BY <1>1, <1>2, JoinedAre
  <2>2. /\ FlattenSeq(pieces) = b[m] /\ b[1] = pieces[1]
        /\ \A i \in 2 .. m : b[i] = b[i - 1] \o pieces[i]
    BY <1>4, JoinedAre
  <2>3. m \in Nat \ {0}
    BY <1>4, EmptySeq
  <2> HIDE DEF a, b, m
  <2> DEFINE T == {k \in 0 .. m - 1 : a[k + 1] = b[k + 1]}
  <2>4. 0 \in T
    <3>1. 1 \in 1 .. m /\ 0 + 1 = 1 /\ 0 \in 0 .. m - 1
      BY <2>3
    <3>2. a[1] = b[1]
      BY <1>1, <2>1, <2>2, <3>1 DEF m
    <3>3. QED
      BY <3>1, <3>2
  <2>5. ASSUME NEW k \in 0 .. m - 1, k \in T, k # m - 1 PROVE k + 1 \in T
    <3> DEFINE i == (k + 1) + 1
    <3>1. /\ i \in 2 .. m /\ i \in 1 .. m /\ i \in 2 .. Len(more) /\ i - 1 = k + 1
          /\ k + 1 \in 0 .. m - 1
      BY <1>1, <2>3, <2>5 DEF m
    <3>2. a[k + 1] = b[k + 1]
      BY <2>5
    <3> HIDE DEF i
    <3>3. a[i] = a[k + 1] \o more[i] /\ b[i] = b[k + 1] \o pieces[i]
      BY <2>1, <2>2, <3>1
    <3>4. more[i] = pieces[i]
      BY <1>1, <3>1 DEF m
    <3>5. a[i] = b[i]
      BY <3>2, <3>3, <3>4
    <3>6. QED
      BY <3>1, <3>5 DEF i
  <2> HIDE DEF T
  <2>6. m - 1 \in Nat
    BY <2>3
  <2>7. 0 .. m - 1 \subseteq T
    BY <2>4, <2>5, <2>6, StepByStep
  <2>8. a[m] = b[m]
    <3>1. m - 1 \in 0 .. m - 1 /\ (m - 1) + 1 = m
      BY <2>3
    <3>2. QED
      BY <2>7, <3>1 DEF T
  <2>9. a[Len(more)] = a[m] \o piece
    <3>1. Len(more) = m + 1 /\ m + 1 \in 2 .. Len(more) /\ (m + 1) - 1 = m
      BY <1>1, <2>3 DEF m
    <3>2. a[m + 1] = a[(m + 1) - 1] \o more[m + 1]
      BY <2>1, <3>1
    <3>3. QED
      BY <1>1, <3>1, <3>2 DEF m
  <2>10. QED
    BY <2>1, <2>2, <2>8, <2>9 DEF more
<1>5. QED
  BY <1>3, <1>4

-----------------------------------------------------------------------------
(* Sums over a sequence of what a function gives its elements.             *)

\* Each of S counts for a number.
Counts(S, w) == w \in [S -> Nat]

Totals(w, s) ==
    LET sum[n \in 0 .. Len(s)] == IF n = 0 THEN 0 ELSE sum[n - 1] + w[s[n]]
    IN  sum

Total(w, s) == Totals(w, s)[Len(s)]

LEMMA SumsAre ==
    ASSUME NEW S, NEW w, Counts(S, w), NEW s \in Seq(S)
    PROVE  /\ Totals(w, s)[0] = 0
           /\ \A n \in 1 .. Len(s) : Totals(w, s)[n] = Totals(w, s)[n - 1] + w[s[n]]
           /\ \A n \in 0 .. Len(s) : Totals(w, s)[n] \in Nat
           /\ Len(s) \in Nat
<1> DEFINE m    == Len(s)
           step == [x \in Nat \X Nat |->
                      IF x[1] \in 1 .. m THEN x[2] + w[s[x[1]]] ELSE 0]
<1>0. m \in Nat /\ \A n \in 1 .. m : w[s[n]] \in Nat
  BY LenProperties, ElementOfSeq DEF Counts
<1>1. step \in [Nat \X Nat -> Nat]
  BY <1>0
<1>2. \A n \in 1 .. m, k \in Nat : step[<<n, k>>] = k + w[s[n]]
  BY <1>0
<1> HIDE DEF step
<1>3. PICK f \in [0 .. m -> Nat] : StepFrom(0, step, m, f)
  BY <1>0, <1>1, Recursion
<1> DEFINE g == [n \in 0 .. m |-> IF n = 0 THEN 0 ELSE f[n - 1] + w[s[n]]]
<1> HIDE DEF m
<1>4. f = g
  <2>1. ASSUME NEW n \in 0 .. m PROVE f[n] = g[n]
    <3>1. CASE n = 0
      BY <1>3, <3>1 DEF StepFrom
    <3>2. CASE n # 0
      <4>1. n - 1 \in 0 .. m /\ n \in 1 .. m /\ f[n - 1] \in Nat
        BY <1>0, <3>2
      <4>2. f[n] = step[<<n, f[n - 1]>>]
        BY <1>3, <3>2 DEF StepFrom
      <4>3. f[n] = f[n - 1] + w[s[n]]
        BY <1>2, <4>1, <4>2
      <4>4. QED
        BY <3>2, <4>3
    <3>3. QED
      BY <3>1, <3>2
  <2>2. QED
    BY <2>1
<1> DEFINE sums == Totals(w, s)
<1>5. sums = [n \in 0 .. m |-> IF n = 0 THEN 0 ELSE sums[n - 1] + w[s[n]]]
  BY <1>4 DEF Totals, m
<1> HIDE DEF sums, g
<1>6. sums[0] = 0 /\ \A n \in 1 .. m : sums[n] = sums[n - 1] + w[s[n]]
  <2>1. 0 \in 0 .. m /\ \A n \in 1 .. m : n \in 0 .. m /\ n # 0
    BY <1>0
  <2>2. QED
    BY <1>5, <2>1
<1>7. ASSUME NEW n \in 1 .. m, sums[n - 1] \in Nat PROVE sums[n] \in Nat
  <2>1. sums[n] = sums[n - 1] + w[s[n]] /\ w[s[n]] \in Nat
    BY <1>0, <1>6
  <2>2. QED
    BY <1>7, <2>1
<1>8. \A n \in 0 .. m : sums[n] \in Nat
  <2>1. sums[0] \in Nat
    BY <1>6
  <2>2. QED
    BY <1>0, <1>7, <2>1, StepsStay
<1>9. QED
  BY <1>0, <1>6, <1>8 DEF sums, m

LEMMA SumType ==
    ASSUME NEW S, NEW w, Counts(S, w), NEW s \in Seq(S)
    PROVE  Total(w, s) \in Nat
<1>1. Len(s) \in Nat
  BY LenProperties
<1>2. QED
  BY <1>1, SumsAre DEF Total

LEMMA SumOfNothing ==
    ASSUME NEW S, NEW w, Counts(S, w)
    PROVE  Total(w, <<>>) = 0
<1>1. <<>> \in Seq(S) /\ Len(<<>>) = 0
  BY EmptySeq
<1>2. QED
  BY <1>1, SumsAre DEF Total

SumsTo(w, s, m) ==
    /\ Totals(w, s)[0] = 0
    /\ \A n \in 1 .. m : Totals(w, s)[n] = Totals(w, s)[n - 1] + w[s[n]]

CountAlike(w, s, v, t, m) == \A n \in 1 .. m : w[s[n]] = v[t[n]]

LEMMA SameTotals ==
    ASSUME NEW m \in Nat, NEW w, NEW s, NEW v, NEW t,
           SumsTo(w, s, m), SumsTo(v, t, m), CountAlike(w, s, v, t, m)
    PROVE  Totals(w, s)[m] = Totals(v, t)[m]
<1> DEFINE a == Totals(w, s)
           b == Totals(v, t)
<1>1. \A n \in 1 .. m : a[n - 1] = b[n - 1] => a[n] = b[n]
  BY DEF SumsTo, CountAlike
<1>2. a[0] = b[0]
  BY DEF SumsTo
<1> HIDE DEF a, b
<1>3. \A n \in 0 .. m : a[n] = b[n]
  BY <1>1, <1>2, SameSteps
<1>4. QED
  BY <1>3 DEF a, b

\* A sequence whose elements count like those another begins with has the sum of
\* these.
LEMMA SameSum ==
    ASSUME NEW S, NEW w, Counts(S, w), NEW s \in Seq(S),
           NEW R, NEW v, Counts(R, v), NEW t \in Seq(R),
           Len(s) <= Len(t), \A i \in 1 .. Len(s) : w[s[i]] = v[t[i]]
    PROVE  Total(w, s) = Totals(v, t)[Len(s)]
<1>1. Len(s) \in Nat /\ Len(t) \in Nat
  BY LenProperties
<1>2. SumsTo(w, s, Len(s))
  BY SumsAre DEF SumsTo
<1>3. SumsTo(v, t, Len(s))
  <2>1. SumsTo(v, t, Len(t))
    BY SumsAre DEF SumsTo
  <2>2. \A n \in 1 .. Len(s) : n \in 1 .. Len(t)
    BY <1>1
  <2>3. QED
    BY <2>1, <2>2 DEF SumsTo
<1>4. CountAlike(w, s, v, t, Len(s))
  BY DEF CountAlike
<1>5. QED
  BY <1>1, <1>2, <1>3, <1>4, SameTotals DEF Total

LEMMA SumOneMore ==
    ASSUME NEW S, NEW w, Counts(S, w), NEW s \in Seq(S), NEW e \in S
    PROVE  Total(w, s \o <<e>>) = Total(w, s) + w[e]
<1> DEFINE more == s \o <<e>>
           m    == Len(s)
<1>1. /\ m \in Nat /\ more \in Seq(S) /\ Len(more) = m + 1 /\ more[m + 1] = e
      /\ \A i \in 1 .. m : more[i] = s[i]
  BY ElementsOfOneMore, LenProperties
<1> HIDE DEF more
<1>2. Total(w, s) = Totals(w, more)[m]
  <2>1. Len(s) <= Len(more) /\ \A i \in 1 .. Len(s) : w[s[i]] = w[more[i]]
    BY <1>1
  <2>2. more \in Seq(S)
    BY <1>1
  <2>3. Total(w, s) = Totals(w, more)[Len(s)]
    BY <2>1, <2>2, SameSum
  <2>4. QED
    BY <2>3
<1> DEFINE sums == Totals(w, more)
<1>3. sums[m + 1] = sums[(m + 1) - 1] + w[more[m + 1]]
  <2>1. m + 1 \in 1 .. Len(more)
    BY <1>1
  <2>2. \A n \in 1 .. Len(more) : sums[n] = sums[n - 1] + w[more[n]]
    BY <1>1, SumsAre
  <2> HIDE DEF sums, m
  <2>3. QED
    BY <2>1, <2>2
<1>4. (m + 1) - 1 = m
  BY <1>1
<1>5. Total(w, more) = Totals(w, more)[m + 1]
  BY <1>1 DEF Total
<1>6. QED
  BY <1>1, <1>2, <1>3, <1>4, <1>5 DEF more

LEMMA SumOfBoth ==
    ASSUME NEW S, NEW w, Counts(S, w), NEW s \in Seq(S), NEW t \in Seq(S)
    PROVE  Total(w, s \o t) = Total(w, s) + Total(w, t)
<1> DEFINE T == {u \in Seq(S) : Total(w, s \o u) = Total(w, s) + Total(w, u)}
<1>1. <<>> \in T
  <2>1. <<>> \in Seq(S) /\ s \o <<>> = s
    BY EmptySeq, ConcatEmptySeq
  <2>2. Total(w, s \o <<>>) = Total(w, s) + Total(w, <<>>)
    BY <2>1, SumOfNothing, SumType
  <2>3. QED
    BY <2>1, <2>2
<1>2. ASSUME NEW u \in Seq(S), NEW e \in S, u \in T PROVE u \o <<e>> \in T
  <2>1. <<e>> \in Seq(S) /\ u \o <<e>> \in Seq(S)
    BY ElementsOfOneMore
  <2>2. s \o u \in Seq(S)
    BY ConcatProperties
  <2>3. (s \o u) \o <<e>> = s \o (u \o <<e>>)
    BY <2>1, ConcatAssociative
  <2>4. /\ Total(w, (s \o u) \o <<e>>) = Total(w, s \o u) + w[e]
        /\ Total(w, u \o <<e>>) = Total(w, u) + w[e]
    BY <2>2, SumOneMore
  <2>5. Total(w, s \o u) = Total(w, s) + Total(w, u)
    BY <1>2
  <2>6. Total(w, s) \in Nat /\ Total(w, u) \in Nat /\ w[e] \in Nat
    BY SumType DEF Counts
  <2>7. Total(w, s \o (u \o <<e>>)) = Total(w, s) + Total(w, u \o <<e>>)
    <3> DEFINE a == Total(w, (s \o u) \o <<e>>)
               b == Total(w, u \o <<e>>)
    <3>1. Total(w, s \o (u \o <<e>>)) = a
      BY <2>3, Zenon
    <3>2. a = (Total(w, s) + Total(w, u)) + w[e] /\ b = Total(w, u) + w[e]
      BY <2>4, <2>5
    <3> HIDE DEF a, b
    <3>3. a = Total(w, s) + b
      BY <2>6, <3>2
    <3>4. QED
      BY <3>1, <3>3, Zenon DEF b
  <2>8. QED
    BY <2>1, <2>7
<1> HIDE DEF T
<1>3. t \in T
  BY <1>1, <1>2, SequenceByElement
<1>4. QED
  BY <1>3 DEF T

\* No element counts more than the sum.
LEMMA SumAtLeast ==
    ASSUME NEW S, NEW w, Counts(S, w), NEW s \in Seq(S)
    PROVE  \A i \in 1 .. Len(s) : w[s[i]] <= Total(w, s)
<1> DEFINE T == {u \in Seq(S) : \A i \in 1 .. Len(u) : w[u[i]] <= Total(w, u)}
<1>1. <<>> \in T
  <2>1. <<>> \in Seq(S) /\ 1 .. Len(<<>>) = {}
    BY EmptySeq
  <2>2. QED
    BY <2>1
<1>2. ASSUME NEW u \in Seq(S), NEW e \in S, u \in T PROVE u \o <<e>> \in T
  <2> DEFINE more == u \o <<e>>
  <2>1. /\ more \in Seq(S) /\ Len(more) = Len(u) + 1 /\ more[Len(u) + 1] = e
        /\ \A i \in 1 .. Len(u) : more[i] = u[i]
    BY ElementsOfOneMore
  <2>2. Total(w, more) = Total(w, u) + w[e]
    BY SumOneMore
  <2>3. Total(w, u) \in Nat /\ w[e] \in Nat /\ Len(u) \in Nat
    BY SumType, LenProperties DEF Counts
  <2> HIDE DEF more
  <2>4. ASSUME NEW i \in 1 .. Len(more) PROVE w[more[i]] <= Total(w, more)
    <3>1. CASE i = Len(u) + 1
      BY <2>1, <2>2, <2>3, <3>1
    <3>2. CASE i # Len(u) + 1
      <4>1. i \in 1 .. Len(u)
        BY <2>1, <2>3, <3>2
      <4>2. w[u[i]] <= Total(w, u) /\ more[i] = u[i] /\ u[i] \in S
        BY <1>2, <2>1, <4>1, ElementOfSeq
      <4>3. w[u[i]] \in Nat
        BY <4>2 DEF Counts
      <4>4. QED
        BY <2>2, <2>3, <4>2, <4>3
    <3>3. QED
      BY <3>1, <3>2
  <2>5. QED
    BY <2>1, <2>4 DEF more
<1> HIDE DEF T
<1>3. s \in T
  BY <1>1, <1>2, SequenceByElement
<1>4. QED
  BY <1>3 DEF T

LEMMA SumOfOne ==
    ASSUME NEW S, NEW w, Counts(S, w), NEW e \in S
    PROVE  Total(w, <<e>>) = w[e] /\ <<e>> \in Seq(S)
<1>1. <<>> \in Seq(S) /\ <<e>> \in Seq(S) /\ <<>> \o <<e>> = <<e>>
  <2>1. <<e>> \in Seq(S)
    OBVIOUS
  <2>2. <<>> \in Seq(S)
    BY EmptySeq
  <2>3. <<>> \o <<e>> = <<e>>
    BY <2>1, ConcatEmptySeq
  <2>4. QED
    BY <2>1, <2>2, <2>3
<1>2. Total(w, <<>> \o <<e>>) = Total(w, <<>>) + w[e] /\ w[e] \in Nat
  BY <1>1, SumOneMore DEF Counts
<1>3. Total(w, <<>>) = 0
  BY SumOfNothing
<1>4. Total(w, <<>> \o <<e>>) = w[e]
  BY <1>2, <1>3
<1>5. QED
  BY <1>1, <1>4, Zenon

\* The last element apart.
LEMMA SumOfFront ==
    ASSUME NEW S, NEW w, Counts(S, w), NEW s \in Seq(S), s # <<>>
    PROVE  /\ Front(s) \in Seq(S) /\ Last(s) \in S
           /\ Total(w, s) = Total(w, Front(s)) + w[Last(s)]
<1>1. Len(s) \in Nat \ {0} /\ \A i \in 1 .. Len(s) : s[i] \in S
  BY EmptySeq, LenProperties, ElementOfSeq
<1>2. Last(s) = s[Len(s)] /\ Last(s) \in S
  BY <1>1 DEF Last
<1>3. Front(s) \in Seq(S)
  <2>1. 1 \in Int /\ Len(s) - 1 \in Int /\ \A i \in 1 .. Len(s) - 1 : s[i] \in S
    BY <1>1
  <2>2. SubSeq(s, 1, Len(s) - 1) \in Seq(S)
    BY <2>1, SubSeqProperties
  <2>3. QED
    BY <2>2 DEF Front
<1>4. s = Front(s) \o <<Last(s)>>
  <2>1. 1 \in 1 .. Len(s) /\ Len(s) \in 1 .. Len(s)
    BY <1>1
  <2>2. SubSeq(s, 1, Len(s)) = SubSeq(s, 1, Len(s) - 1) \o <<s[Len(s)]>>
    BY <2>1, SubSeqRecursiveSecond
  <2>3. SubSeq(s, 1, Len(s)) = s
    BY SubSeqFull
  <2>4. QED
    BY <1>2, <2>2, <2>3, Zenon DEF Front
<1>5. Total(w, Front(s) \o <<Last(s)>>) = Total(w, Front(s)) + w[Last(s)]
  BY <1>2, <1>3, SumOneMore
<1>6. QED
  BY <1>2, <1>3, <1>4, <1>5, Zenon

\* The first element apart.
LEMMA SumOfTail ==
    ASSUME NEW S, NEW w, Counts(S, w), NEW s \in Seq(S), s # <<>>
    PROVE  /\ Tail(s) \in Seq(S) /\ Head(s) \in S
           /\ Total(w, s) = w[Head(s)] + Total(w, Tail(s))
<1>1. Tail(s) \in Seq(S) /\ Head(s) \in S
  BY HeadTailProperties
<1>2. s = <<Head(s)>> \o Tail(s)
  <2>1. Len(s) \in Nat \ {0}
    BY EmptySeq, LenProperties
  <2>2. 1 \in 1 .. Len(s) /\ Len(s) \in 1 .. Len(s)
    BY <2>1
  <2>3. SubSeq(s, 1, Len(s)) = <<s[1]>> \o SubSeq(s, 1 + 1, Len(s))
    BY <2>2, SubSeqRecursiveFirst
  <2>4. Tail(s) = SubSeq(s, 2, Len(s)) /\ SubSeq(s, 1, Len(s)) = s
    BY TailIsSubSeq, SubSeqFull
  <2>5. 1 + 1 = 2
    OBVIOUS
  <2>6. s[1] = Head(s)
    BY <2>1
  <2>7. QED
    BY <2>3, <2>4, <2>5, <2>6, Zenon
<1>3. <<Head(s)>> \in Seq(S) /\ Total(w, <<Head(s)>>) = w[Head(s)]
  BY <1>1, SumOfOne
<1>4. Total(w, <<Head(s)>> \o Tail(s)) = Total(w, <<Head(s)>>) + Total(w, Tail(s))
  BY <1>1, <1>3, SumOfBoth
<1>5. QED
  BY <1>1, <1>2, <1>3, <1>4, Zenon
=============================================================================
