--------------------------- MODULE CallDataProofs ---------------------------
(***************************************************************************)
(* What holds of the data of a call for any arguments, any streams and any *)
(* caps: texts fit and say when they were cut, a killed command is a       *)
(* timeout that shows nothing, and nothing is cut from arguments that were *)
(* accepted.                                                               *)
(***************************************************************************)
EXTENDS CallData, Induction

\* Whatever a token is made of.
Words == Bytes \cup {"surrogate", "wide", "replaced", "label", "sentence",
                    "args_invalid", "killed", "argv", "late", "raised", "own",
                    "exit code", "TRUNCATED", "stderr"}

Token == Seq(Words \cup Nat)

AnyText == Seq(Token)

LEMMA WordsAre ==
    /\ Bytes \subseteq Words /\ \A word \in Words : <<word>> \in Token
    /\ {"surrogate", "wide", "replaced", "label", "sentence", "args_invalid",
        "killed", "argv", "late", "raised", "own", "exit code", "TRUNCATED", "stderr"}
           \subseteq Words
<1>1. ASSUME NEW S, NEW e \in S PROVE <<e>> \in Seq(S)
  OBVIOUS
<1>2. ASSUME NEW word \in Words PROVE <<word>> \in Token
  <2>1. word \in Words \cup Nat
    BY Zenon
  <2>2. QED
    BY <1>1, <2>1, Zenon DEF Token
<1>3. QED
  BY <1>2, Zenon DEF Words

(***************************************************************************)
(* The size of a text.                                                     *)
(***************************************************************************)

LEMMA WidthType == ASSUME NEW token PROVE Width(token) \in 1 .. 3
  BY DEF Width

LEMMA SizesAre ==
    ASSUME NEW text, Len(text) \in Nat
    PROVE  /\ Sizes(text)[0] = 0
           /\ \A n \in 1 .. Len(text) :
                 Sizes(text)[n] = Sizes(text)[n - 1] + Width(text[n])
           /\ \A n \in 0 .. Len(text) : Sizes(text)[n] \in Nat
<1> DEFINE step == [x \in Nat \X Nat |-> x[2] + Width(text[x[1]])]
           m    == Len(text)
<1>1. step \in [Nat \X Nat -> Nat]
  <2>1. ASSUME NEW x \in Nat \X Nat PROVE x[2] + Width(text[x[1]]) \in Nat
    BY WidthType
  <2>2. QED
    BY <2>1
<1>2. \A n \in Nat, k \in Nat : step[<<n, k>>] = k + Width(text[n])
  OBVIOUS
<1> HIDE DEF step
<1>3. PICK f \in [0 .. m -> Nat] : StepFrom(0, step, m, f)
  BY <1>1, Recursion
<1> DEFINE g == [n \in 0 .. m |-> IF n = 0 THEN 0 ELSE f[n - 1] + Width(text[n])]
<1>4. f = g
  <2>1. ASSUME NEW n \in 0 .. m PROVE f[n] = g[n]
    <3>1. CASE n = 0
      BY <1>3, <3>1 DEF StepFrom
    <3>2. CASE n # 0
      <4>1. n - 1 \in 0 .. m /\ n \in Nat /\ f[n - 1] \in Nat
        BY <3>2
      <4>2. f[n] = step[<<n, f[n - 1]>>]
        BY <1>3, <3>2 DEF StepFrom
      <4>3. f[n] = f[n - 1] + Width(text[n])
        BY <1>2, <4>1, <4>2
      <4>4. QED
        BY <3>2, <4>3
    <3>3. QED
      BY <3>1, <3>2
  <2>2. QED
    BY <2>1
<1>5. Sizes(text) = [n \in 0 .. m |-> IF n = 0 THEN 0
                                      ELSE Sizes(text)[n - 1] + Width(text[n])]
  BY <1>4 DEF Sizes
<1>6. /\ Sizes(text)[0] = 0
      /\ \A n \in 1 .. m : Sizes(text)[n] = Sizes(text)[n - 1] + Width(text[n])
  <2> DEFINE s == Sizes(text)
  <2>1. s = [n \in 0 .. m |-> IF n = 0 THEN 0 ELSE s[n - 1] + Width(text[n])]
    BY <1>5
  <2> HIDE DEF s
  <2>2. s[0] = 0 /\ \A n \in 1 .. m : s[n] = s[n - 1] + Width(text[n])
    BY <2>1
  <2>3. QED
    BY <2>2 DEF s
<1>7. \A n \in 0 .. m : Sizes(text)[n] \in Nat
  <2>1. ASSUME NEW n \in 1 .. m, Sizes(text)[n - 1] \in Nat
        PROVE  Sizes(text)[n] \in Nat
    BY <1>6, <2>1, WidthType
  <2> DEFINE s == Sizes(text)
  <2>2. s[0] \in Nat /\ \A n \in 1 .. m : s[n - 1] \in Nat => s[n] \in Nat
    BY <1>6, <2>1
  <2> HIDE DEF s
  <2>3. \A n \in 0 .. m : s[n] \in Nat
    BY <2>2, StepsStay
  <2>4. QED
    BY <2>3 DEF s
<1>8. QED
  BY <1>6, <1>7

LEMMA SizeType ==
    ASSUME NEW text \in AnyText
    PROVE  Size(text) \in Nat /\ Len(text) \in Nat
<1>1. Len(text) \in Nat
  BY LenProperties DEF AnyText
<1>2. QED
  BY <1>1, SizesAre DEF Size

LEMMA SizeOfNothing == Size(<<>>) = 0
  BY SizesAre DEF Size

LEMMA SizeOneMore ==
    ASSUME NEW text \in AnyText, NEW token \in Token
    PROVE  Size(text \o <<token>>) = Size(text) + Width(token)
<1> DEFINE more == text \o <<token>>
           m    == Len(text)
<1>1. /\ m \in Nat /\ more \in AnyText /\ Len(more) = m + 1 /\ more[m + 1] = token
      /\ \A i \in 1 .. m : more[i] = text[i]
  BY ElementsOfOneMore, LenProperties DEF AnyText
<1> HIDE DEF more
<1>2. \A n \in 0 .. m : Sizes(more)[n] = Sizes(text)[n]
  <2>1. Sizes(more)[0] = Sizes(text)[0]
    BY <1>1, SizesAre
  <2>2. ASSUME NEW n \in 1 .. m, Sizes(more)[n - 1] = Sizes(text)[n - 1]
        PROVE  Sizes(more)[n] = Sizes(text)[n]
    <3>1. n \in 1 .. Len(more) /\ n \in 1 .. Len(text) /\ more[n] = text[n]
      BY <1>1
    <3>2. Sizes(more)[n] = Sizes(more)[n - 1] + Width(more[n])
      <4>1. Len(more) \in Nat
        BY <1>1
      <4>2. QED
        BY <3>1, <4>1, SizesAre
    <3>3. Sizes(text)[n] = Sizes(text)[n - 1] + Width(text[n])
      <4>1. Len(text) \in Nat
        BY <1>1
      <4>2. QED
        BY <3>1, <4>1, SizesAre
    <3>4. QED
      BY <2>2, <3>1, <3>2, <3>3
  <2>3. QED
    BY <1>1, <2>1, <2>2, SameSteps
<1>3. Sizes(more)[m + 1] = Sizes(more)[(m + 1) - 1] + Width(more[m + 1])
  BY <1>1, SizesAre
<1>4. (m + 1) - 1 = m /\ m \in 0 .. m
  BY <1>1
<1>5. QED
  BY <1>1, <1>2, <1>3, <1>4 DEF Size, more

LEMMA SizeOfBoth ==
    ASSUME NEW text \in AnyText, NEW other \in AnyText
    PROVE  Size(text \o other) = Size(text) + Size(other)
<1> DEFINE T == {u \in AnyText : Size(text \o u) = Size(text) + Size(u)}
<1>1. <<>> \in T
  <2>1. <<>> \in AnyText /\ text \o <<>> = text
    BY EmptySeq, ConcatEmptySeq DEF AnyText
  <2>2. Size(text \o <<>>) = Size(text) + Size(<<>>)
    BY <2>1, SizeOfNothing, SizeType
  <2>3. QED
    BY <2>1, <2>2
<1>2. ASSUME NEW u \in AnyText, NEW e \in Token, u \in T PROVE u \o <<e>> \in T
  <2>1. <<e>> \in AnyText /\ u \o <<e>> \in AnyText
    BY ElementsOfOneMore DEF AnyText
  <2>2. text \o u \in AnyText
    BY ConcatProperties DEF AnyText
  <2>3. (text \o u) \o <<e>> = text \o (u \o <<e>>)
    BY <2>1, ConcatAssociative DEF AnyText
  <2>4. /\ Size((text \o u) \o <<e>>) = Size(text \o u) + Width(e)
        /\ Size(u \o <<e>>) = Size(u) + Width(e)
    BY <2>2, SizeOneMore
  <2>5. Size(text \o u) = Size(text) + Size(u)
    BY <1>2
  <2>6. Size(text) \in Nat /\ Size(u) \in Nat /\ Width(e) \in Nat
    BY SizeType, WidthType
  <2>7. Size(text \o (u \o <<e>>)) = Size(text) + Size(u \o <<e>>)
    <3> DEFINE a == Size((text \o u) \o <<e>>)
               b == Size(u \o <<e>>)
    <3>1. Size(text \o (u \o <<e>>)) = a
      BY <2>3, Zenon
    <3>2. a = (Size(text) + Size(u)) + Width(e) /\ b = Size(u) + Width(e)
      BY <2>4, <2>5
    <3> HIDE DEF a, b
    <3>3. a = Size(text) + b
      BY <2>6, <3>2
    <3>4. QED
      BY <3>1, <3>3, Zenon DEF b
  <2>8. QED
    BY <2>1, <2>7
<1> HIDE DEF T
<1>3. other \in T
  BY <1>1, <1>2, SequenceByElement DEF AnyText
<1>4. QED
  BY <1>3 DEF T

LEMMA PrefixOf ==
    ASSUME NEW text \in AnyText, NEW k \in 0 .. Len(text)
    PROVE  /\ SubSeq(text, 1, k) \in AnyText
           /\ k # Len(text) => /\ text[k + 1] \in Token
                               /\ SubSeq(text, 1, k + 1)
                                     = SubSeq(text, 1, k) \o <<text[k + 1]>>
<1>1. Len(text) \in Nat /\ \A i \in 1 .. Len(text) : text[i] \in Token
  BY LenProperties, ElementOfSeq DEF AnyText
<1>2. SubSeq(text, 1, k) \in AnyText
  BY <1>1, SubSeqProperties DEF AnyText
<1>3. ASSUME k # Len(text)
      PROVE  /\ text[k + 1] \in Token
             /\ SubSeq(text, 1, k + 1) = SubSeq(text, 1, k) \o <<text[k + 1]>>
  <2>1. /\ k + 1 \in 1 .. Len(text) /\ 1 \in 1 .. Len(text)
        /\ k + 1 \in 1 .. Len(text) /\ (k + 1) - 1 = k
    BY <1>1, <1>3
  <2>2. SubSeq(text, 1, k + 1) = SubSeq(text, 1, (k + 1) - 1) \o <<text[k + 1]>>
    BY <2>1, SubSeqRecursiveSecond DEF AnyText
  <2>3. QED
    BY <1>1, <2>1, <2>2
<1>4. QED
  BY <1>2, <1>3

LEMMA SizeOfPrefix ==
    ASSUME NEW text \in AnyText
    PROVE  \A k \in 0 .. Len(text) : Size(SubSeq(text, 1, k)) = Sizes(text)[k]
<1> DEFINE T == {k \in 0 .. Len(text) : Size(SubSeq(text, 1, k)) = Sizes(text)[k]}
<1>0. Len(text) \in Nat
  BY SizeType
<1>1. 0 \in T
  <2>1. SubSeq(text, 1, 0) = <<>>
    BY SubSeqEmpty
  <2>2. Size(SubSeq(text, 1, 0)) = 0
    BY <2>1, SizeOfNothing
  <2>3. QED
    BY <1>0, <2>2, SizesAre
<1>2. ASSUME NEW k \in 0 .. Len(text), k \in T, k # Len(text) PROVE k + 1 \in T
  <2>1. k + 1 \in 1 .. Len(text) /\ (k + 1) - 1 = k /\ k + 1 \in 0 .. Len(text)
    BY <1>0, <1>2
  <2>2. Sizes(text)[k + 1] = Sizes(text)[(k + 1) - 1] + Width(text[k + 1])
    BY <1>0, <2>1, SizesAre
  <2>3. Size(SubSeq(text, 1, k + 1)) = Size(SubSeq(text, 1, k)) + Width(text[k + 1])
    BY <1>2, PrefixOf, SizeOneMore
  <2>4. Size(SubSeq(text, 1, k)) = Sizes(text)[k]
    BY <1>2
  <2>5. QED
    BY <2>1, <2>2, <2>3, <2>4
<1> HIDE DEF T
<1>3. 0 .. Len(text) \subseteq T
  BY <1>0, <1>1, <1>2, StepByStep
<1>4. QED
  BY <1>3 DEF T

\* What is cut off a text leaves no more than it should.
LEMMA CutFits ==
    ASSUME NEW text \in AnyText, NEW n \in Nat
    PROVE  Cut(text, n) \in AnyText /\ Size(Cut(text, n)) <= n
<1> DEFINE S == {k \in 0 .. Len(text) : Sizes(text)[k] <= n}
           T == {Len(text) - k : k \in S}
<1>0. Len(text) \in Nat
  BY SizeType
<1>1. 0 \in S
  BY <1>0, SizesAre
<1>2. PICK m \in T : \A k \in T : m <= k
  <2>1. T \subseteq Nat /\ T # {}
    BY <1>0, <1>1
  <2> HIDE DEF T
  <2>2. QED
    BY <2>1, Least
<1>3. PICK k \in S : m = Len(text) - k
  BY <1>2
<1>4. \A j \in S : k >= j
  <2>1. ASSUME NEW j \in S PROVE k >= j
    <3>1. Len(text) - j \in T
      BY <2>1
    <3>2. Len(text) - k <= Len(text) - j
      BY <1>2, <1>3, <3>1
    <3>3. QED
      BY <1>0, <3>2
  <2>2. QED
    BY <2>1
<1>5. Max(S) \in S
  <2> HIDE DEF S
  <2>1. \E x \in S : \A y \in S : x >= y
    BY <1>4
  <2>2. QED
    BY <2>1 DEF Max
<1>6. Max(S) \in 0 .. Len(text) /\ Sizes(text)[Max(S)] <= n
  BY <1>5
<1>7. Cut(text, n) = SubSeq(text, 1, Max(S))
  BY DEF Cut
<1> HIDE DEF S
<1>8. QED
  BY <1>6, <1>7, SizeOfPrefix, PrefixOf

(***************************************************************************)
(* Cleaning.                                                               *)
(***************************************************************************)

LEMMA KeptType ==
    ASSUME NEW token \in Token
    PROVE  /\ Kept(token) \in AnyText /\ <<token>> \in AnyText
           /\ Kept(token) = <<>> \/ Kept(token) = <<token>>
           /\ token[1] \notin {"nul", "surrogate"} => Kept(token) = <<token>>
           /\ Size(<<token>>) = Width(token) /\ Size(Kept(token)) <= Width(token)
<1>1. <<>> \in AnyText /\ <<token>> \in AnyText
  BY DEF AnyText
<1>2. Kept(token) = <<>> \/ Kept(token) = <<token>>
  BY Zenon DEF Kept
<1>3. Size(<<token>>) = Width(token)
  <2>1. <<>> \o <<token>> = <<token>>
    BY <1>1, ConcatEmptySeq DEF AnyText
  <2>2. Size(<<>> \o <<token>>) = Size(<<>>) + Width(token)
    BY <1>1, SizeOneMore
  <2>3. QED
    BY <2>1, <2>2, SizeOfNothing, WidthType
<1>4. Size(Kept(token)) <= Width(token)
  <2>1. CASE Kept(token) = <<>>
    <3>1. Size(Kept(token)) = 0
      BY <2>1, SizeOfNothing, Zenon
    <3>2. QED
      BY <3>1, WidthType
  <2>2. CASE Kept(token) = <<token>>
    <3>1. Size(Kept(token)) = Width(token)
      BY <1>3, <2>2, Zenon
    <3>2. QED
      BY <3>1, WidthType
  <2>3. QED
    BY <1>2, <2>1, <2>2
<1>5. token[1] \notin {"nul", "surrogate"} => Kept(token) = <<token>>
  BY Zenon DEF Kept
<1>6. Kept(token) \in AnyText
  BY <1>1, <1>2, Zenon
<1>7. QED
  BY <1>1, <1>2, <1>3, <1>4, <1>5, <1>6

Pieces(text) == [i \in DOMAIN text |-> Kept(text[i])]

LEMMA PiecesType ==
    ASSUME NEW text \in AnyText
    PROVE  /\ Pieces(text) \in Seq(AnyText) /\ Len(Pieces(text)) = Len(text)
           /\ Len(text) \in Nat
           /\ \A i \in 1 .. Len(text) : Pieces(text)[i] = Kept(text[i])
<1>1. /\ Len(text) \in Nat /\ DOMAIN text = 1 .. Len(text)
      /\ \A i \in 1 .. Len(text) : text[i] \in Token
  BY LenProperties, ElementOfSeq DEF AnyText
<1>2. \A i \in 1 .. Len(text) : Kept(text[i]) \in AnyText
  BY <1>1, KeptType
<1>3. Pieces(text) = [i \in 1 .. Len(text) |-> Kept(text[i])]
  BY <1>1 DEF Pieces
<1>4. Pieces(text) \in [1 .. Len(text) -> AnyText]
  BY <1>2, <1>3
<1>5. Pieces(text) \in Seq(AnyText) /\ Len(Pieces(text)) = Len(text)
  BY <1>1, <1>4
<1>6. QED
  BY <1>1, <1>3, <1>5

LEMMA CleanIs ==
    ASSUME NEW text
    PROVE  clean_text(text) = FlattenSeq(Pieces(text))
  BY DEF clean_text, Pieces

LEMMA CleanType ==
    ASSUME NEW text \in AnyText
    PROVE  clean_text(text) \in AnyText
<1>1. Pieces(text) \in Seq(Seq(Token))
  BY PiecesType DEF AnyText
<1>2. FlattenSeq(Pieces(text)) \in Seq(Token)
  BY <1>1, JoinType
<1>3. QED
  BY <1>2, CleanIs DEF AnyText

LEMMA CleanNothing == clean_text(<<>>) = <<>>
<1>1. <<>> \in AnyText
  BY DEF AnyText
<1>2. Pieces(<<>>) = <<>>
  BY <1>1, PiecesType, EmptySeq
<1>3. QED
  BY <1>2, CleanIs, JoinNothing

LEMMA CleanOneMore ==
    ASSUME NEW text \in AnyText, NEW token \in Token
    PROVE  clean_text(text \o <<token>>) = clean_text(text) \o Kept(token)
<1> DEFINE more == text \o <<token>>
           kept == Kept(token)
<1>1. /\ more \in AnyText /\ Len(more) = Len(text) + 1
      /\ \A i \in 1 .. Len(text) : more[i] = text[i]
      /\ more[Len(text) + 1] = token
  BY ElementsOfOneMore DEF AnyText
<1>2. kept \in AnyText /\ kept = Kept(token)
  BY KeptType
<1> HIDE DEF more, kept
<1>3. Pieces(text) \in Seq(AnyText) /\ Len(Pieces(text)) = Len(text)
      /\ Len(text) \in Nat
      /\ \A i \in 1 .. Len(text) : Pieces(text)[i] = Kept(text[i])
  BY PiecesType
<1>4. Pieces(more) \in Seq(AnyText) /\ Len(Pieces(more)) = Len(more)
      /\ \A i \in 1 .. Len(more) : Pieces(more)[i] = Kept(more[i])
  BY <1>1, PiecesType
<1> DEFINE all == Pieces(text) \o <<kept>>
<1>5. /\ all \in Seq(AnyText) /\ Len(all) = Len(Pieces(text)) + 1
      /\ \A i \in 1 .. Len(Pieces(text)) : all[i] = Pieces(text)[i]
      /\ all[Len(Pieces(text)) + 1] = kept
  BY <1>2, <1>3, ElementsOfOneMore
<1> HIDE DEF all
<1>6. Pieces(more) = all
  <2>1. ASSUME NEW i \in 1 .. Len(Pieces(more)) PROVE Pieces(more)[i] = all[i]
    <3>1. CASE i \in 1 .. Len(text)
      <4>1. i \in 1 .. Len(more)
        BY <1>4
      <4>2. Pieces(more)[i] = Kept(more[i]) /\ all[i] = Pieces(text)[i]
        BY <1>3, <1>4, <1>5, <3>1, <4>1
      <4>3. QED
        BY <1>1, <1>3, <3>1, <4>2
    <3>2. CASE i = Len(text) + 1
      <4>1. i \in 1 .. Len(more) /\ more[i] = token /\ all[i] = kept
        BY <1>1, <1>3, <1>4, <1>5, <3>2
      <4>2. QED
        BY <1>2, <1>4, <4>1
    <3>3. QED
      BY <1>1, <1>3, <1>4, <3>1, <3>2
  <2>2. Len(Pieces(more)) = Len(all)
    BY <1>1, <1>3, <1>4, <1>5
  <2>3. QED
    BY <1>4, <1>5, <2>1, <2>2, SeqEqual
<1>7. FlattenSeq(all) = FlattenSeq(Pieces(text)) \o kept
  BY <1>2, <1>3, JoinOneMore DEF all, AnyText
<1>8. QED
  BY <1>2, <1>6, <1>7, CleanIs DEF more

LEMMA CleanOne ==
    ASSUME NEW token \in Token
    PROVE  clean_text(<<token>>) = Kept(token)
<1>1. /\ <<>> \in AnyText /\ <<token>> \in AnyText /\ Kept(token) \in AnyText
      /\ <<>> \o <<token>> = <<token>> /\ <<>> \o Kept(token) = Kept(token)
  BY KeptType, EmptySeq, ConcatEmptySeq DEF AnyText
<1>2. clean_text(<<>> \o <<token>>) = clean_text(<<>>) \o Kept(token)
  BY <1>1, CleanOneMore
<1>3. QED
  BY <1>1, <1>2, CleanNothing, Zenon

LEMMA CleanBoth ==
    ASSUME NEW text \in AnyText, NEW other \in AnyText
    PROVE  clean_text(text \o other) = clean_text(text) \o clean_text(other)
<1> DEFINE T == {u \in AnyText :
                   clean_text(text \o u) = clean_text(text) \o clean_text(u)}
<1>1. <<>> \in T
  <2>1. /\ <<>> \in AnyText /\ text \o <<>> = text
        /\ clean_text(text) \o <<>> = clean_text(text)
    BY CleanType, EmptySeq, ConcatEmptySeq DEF AnyText
  <2>2. clean_text(text \o <<>>) = clean_text(text) \o clean_text(<<>>)
    BY <2>1, CleanNothing, Zenon
  <2>3. QED
    BY <2>1, <2>2
<1>2. ASSUME NEW u \in AnyText, NEW e \in Token, u \in T PROVE u \o <<e>> \in T
  <2>1. /\ <<e>> \in AnyText /\ u \o <<e>> \in AnyText /\ text \o u \in AnyText
        /\ Kept(e) \in AnyText /\ clean_text(text) \in AnyText
        /\ clean_text(u) \in AnyText
    BY ElementsOfOneMore, ConcatProperties, KeptType, CleanType DEF AnyText
  <2>2. (text \o u) \o <<e>> = text \o (u \o <<e>>)
    BY <2>1, ConcatAssociative DEF AnyText
  <2>3. clean_text((text \o u) \o <<e>>) = clean_text(text \o u) \o Kept(e)
    BY <2>1, CleanOneMore
  <2>4. clean_text(u \o <<e>>) = clean_text(u) \o Kept(e)
    BY CleanOneMore
  <2>5. clean_text(text \o u) = clean_text(text) \o clean_text(u)
    BY <1>2
  <2>6. (clean_text(text) \o clean_text(u)) \o Kept(e)
          = clean_text(text) \o (clean_text(u) \o Kept(e))
    BY <2>1, ConcatAssociative DEF AnyText
  <2>7. clean_text(text \o (u \o <<e>>)) = clean_text(text) \o clean_text(u \o <<e>>)
    BY <2>2, <2>3, <2>4, <2>5, <2>6, Zenon
  <2>8. QED
    BY <2>1, <2>7
<1> HIDE DEF T
<1>3. other \in T
  BY <1>1, <1>2, SequenceByElement DEF AnyText
<1>4. QED
  BY <1>3 DEF T

\* What was cleaned stays as it is.
LEMMA CleanTwice ==
    ASSUME NEW text \in AnyText
    PROVE  clean_text(clean_text(text)) = clean_text(text)
<1> DEFINE T == {u \in AnyText : clean_text(clean_text(u)) = clean_text(u)}
<1>1. <<>> \in T
  <2>1. <<>> \in AnyText
    BY DEF AnyText
  <2>2. clean_text(clean_text(<<>>)) = clean_text(<<>>)
    BY CleanNothing, Zenon
  <2>3. QED
    BY <2>1, <2>2
<1>2. ASSUME NEW u \in AnyText, NEW e \in Token, u \in T PROVE u \o <<e>> \in T
  <2>1. /\ u \o <<e>> \in AnyText /\ Kept(e) \in AnyText
        /\ clean_text(u) \in AnyText
    BY ElementsOfOneMore, KeptType, CleanType DEF AnyText
  <2>2. clean_text(Kept(e)) = Kept(e)
    <3>1. CASE Kept(e) = <<>>
      BY <3>1, CleanNothing, Zenon
    <3>2. CASE Kept(e) = <<e>>
      BY <3>2, CleanOne, Zenon
    <3>3. QED
      BY <3>1, <3>2, KeptType
  <2>3. clean_text(u \o <<e>>) = clean_text(u) \o Kept(e)
    BY CleanOneMore
  <2>4. clean_text(clean_text(u) \o Kept(e))
          = clean_text(clean_text(u)) \o clean_text(Kept(e))
    BY <2>1, CleanBoth
  <2>5. clean_text(clean_text(u)) = clean_text(u)
    BY <1>2
  <2>6. clean_text(clean_text(u \o <<e>>)) = clean_text(u \o <<e>>)
    BY <2>2, <2>3, <2>4, <2>5, Zenon
  <2>7. QED
    BY <2>1, <2>6
<1> HIDE DEF T
<1>3. text \in T
  BY <1>1, <1>2, SequenceByElement DEF AnyText
<1>4. QED
  BY <1>3 DEF T

LEMMA CleanSize ==
    ASSUME NEW text \in AnyText
    PROVE  Size(clean_text(text)) <= Size(text)
<1> DEFINE T == {u \in AnyText : Size(clean_text(u)) <= Size(u)}
<1>1. <<>> \in T
  <2>1. <<>> \in AnyText
    BY DEF AnyText
  <2>2. Size(clean_text(<<>>)) = Size(<<>>) /\ Size(<<>>) = 0
    BY CleanNothing, SizeOfNothing, Zenon
  <2>3. QED
    BY <2>1, <2>2
<1>2. ASSUME NEW u \in AnyText, NEW e \in Token, u \in T PROVE u \o <<e>> \in T
  <2>1. /\ u \o <<e>> \in AnyText /\ Kept(e) \in AnyText
        /\ clean_text(u) \in AnyText
    BY ElementsOfOneMore, KeptType, CleanType DEF AnyText
  <2>2. clean_text(u \o <<e>>) = clean_text(u) \o Kept(e)
    BY CleanOneMore
  <2>3. Size(clean_text(u) \o Kept(e)) = Size(clean_text(u)) + Size(Kept(e))
    BY <2>1, SizeOfBoth
  <2>4. Size(clean_text(u \o <<e>>)) = Size(clean_text(u)) + Size(Kept(e))
    BY <2>2, <2>3, Zenon
  <2>5. Size(u \o <<e>>) = Size(u) + Width(e) /\ Size(Kept(e)) <= Width(e)
    BY SizeOneMore, KeptType
  <2>6. Size(clean_text(u)) <= Size(u)
    BY <1>2
  <2>7. /\ Size(clean_text(u)) \in Nat /\ Size(u) \in Nat /\ Size(Kept(e)) \in Nat
        /\ Width(e) \in Nat
    BY <2>1, SizeType, WidthType
  <2>8. Size(clean_text(u \o <<e>>)) <= Size(u \o <<e>>)
    BY <2>4, <2>5, <2>6, <2>7
  <2>9. QED
    BY <2>1, <2>8
<1> HIDE DEF T
<1>3. text \in T
  BY <1>1, <1>2, SequenceByElement DEF AnyText
<1>4. QED
  BY <1>3 DEF T

LEMMA TokensOfBoth ==
    ASSUME NEW text \in AnyText, NEW other \in AnyText, NEW token
    PROVE  token \in ToSet(text \o other) <=>
              token \in ToSet(text) \/ token \in ToSet(other)
  BY ElementsOfBoth DEF AnyText

\* Cleaning takes out nothing else.
LEMMA CleanKeeps ==
    ASSUME NEW text \in AnyText, NEW token \in ToSet(text),
           token[1] \notin {"nul", "surrogate"}
    PROVE  token \in ToSet(clean_text(text))
<1> DEFINE T == {u \in AnyText :
                   token \in ToSet(u) => token \in ToSet(clean_text(u))}
<1>1. <<>> \in T
  <2>1. <<>> \in AnyText /\ token \notin ToSet(<<>>)
    BY DEF AnyText, ToSet
  <2>2. QED
    BY <2>1
<1>2. ASSUME NEW u \in AnyText, NEW e \in Token, u \in T PROVE u \o <<e>> \in T
  <2>1. /\ u \o <<e>> \in AnyText /\ Kept(e) \in AnyText /\ <<e>> \in AnyText
        /\ clean_text(u) \in AnyText
    BY ElementsOfOneMore, KeptType, CleanType DEF AnyText
  <2>2. clean_text(u \o <<e>>) = clean_text(u) \o Kept(e)
    BY CleanOneMore
  <2>3. ASSUME token \in ToSet(u \o <<e>>)
        PROVE  token \in ToSet(clean_text(u) \o Kept(e))
    <3>1. CASE token \in ToSet(u)
      <4>1. token \in ToSet(clean_text(u))
        BY <1>2, <3>1
      <4>2. QED
        BY <2>1, <4>1, TokensOfBoth
    <3>2. CASE token \in ToSet(<<e>>)
      <4>1. token = e
        BY <3>2, ElementOfOne
      <4>2. Kept(e) = <<e>>
        BY <4>1, KeptType
      <4>3. token \in ToSet(Kept(e))
        BY <3>2, <4>2, Zenon
      <4>4. QED
        BY <2>1, <4>3, TokensOfBoth
    <3>3. QED
      BY <2>1, <2>3, <3>1, <3>2, TokensOfBoth
  <2>4. token \in ToSet(u \o <<e>>) => token \in ToSet(clean_text(u \o <<e>>))
    BY <2>2, <2>3, Zenon
  <2>5. QED
    BY <2>1, <2>4
<1> HIDE DEF T
<1>3. text \in T
  BY <1>1, <1>2, SequenceByElement DEF AnyText
<1>4. QED
  BY <1>3 DEF T

(***************************************************************************)
(* Figures.                                                                *)
(***************************************************************************)

LEMMA PowerIs ==
    /\ Power \in [Nat -> Nat] /\ Power[0] = 1
    /\ \A n \in Nat : Power[n + 1] = Radix * Power[n]
<1> DEFINE step == [x \in Nat \X Nat |-> Radix * x[2]]
<1>0. Radix \in Nat
  BY TextAssumption
<1>1. step \in [Nat \X Nat -> Nat] /\ \A n, k \in Nat : step[<<n, k>>] = Radix * k
  BY <1>0
<1> HIDE DEF step
<1>2. PICK f \in [Nat -> Nat] : StepsOverNat(1, step, f)
  BY <1>1, RecursionOverNat
<1> DEFINE g == [n \in Nat |-> IF n = 0 THEN 1 ELSE Radix * f[n - 1]]
<1>3. f = g
  <2>1. ASSUME NEW n \in Nat PROVE f[n] = g[n]
    <3>1. CASE n = 0
      BY <1>2, <3>1 DEF StepsOverNat
    <3>2. CASE n # 0
      <4>1. n - 1 \in Nat /\ f[n - 1] \in Nat
        BY <3>2
      <4>2. f[n] = step[<<n, f[n - 1]>>]
        BY <1>2, <3>2 DEF StepsOverNat
      <4>3. f[n] = Radix * f[n - 1]
        BY <1>1, <4>1, <4>2
      <4>4. QED
        BY <3>2, <4>3
    <3>3. QED
      BY <3>1, <3>2
  <2>2. QED
    BY <2>1
<1>4. Power = [n \in Nat |-> IF n = 0 THEN 1 ELSE Radix * Power[n - 1]]
  BY <1>3 DEF Power
<1> DEFINE p == Power
<1>5. p = [n \in Nat |-> IF n = 0 THEN 1 ELSE Radix * p[n - 1]]
  BY <1>4
<1> HIDE DEF p
<1>6. p[0] = 1
  BY <1>5
<1>7. ASSUME NEW n \in Nat PROVE p[n + 1] = Radix * p[n]
  <2>1. n + 1 \in Nat /\ n + 1 # 0 /\ (n + 1) - 1 = n
    OBVIOUS
  <2>2. p[n + 1] = Radix * p[(n + 1) - 1]
    BY <1>5, <2>1
  <2>3. QED
    BY <2>1, <2>2
<1>8. ASSUME NEW m \in Nat PROVE p[m] \in Nat
  <2>1. ASSUME NEW n \in 1 .. m, p[n - 1] \in Nat PROVE p[n] \in Nat
    <3>1. n - 1 \in Nat /\ (n - 1) + 1 = n
      OBVIOUS
    <3>2. p[n] = Radix * p[n - 1]
      BY <1>7, <3>1
    <3>3. QED
      BY <1>0, <2>1, <3>2
  <2>2. \A n \in 0 .. m : p[n] \in Nat
    BY <1>6, <2>1, StepsStay
  <2>3. QED
    BY <2>2
<1>9. p \in [Nat -> Nat]
  BY <1>5, <1>8
<1>10. QED
  BY <1>6, <1>7, <1>9 DEF p

LEMMA TwiceAtLeast ==
    ASSUME NEW a \in Nat, NEW b \in Nat, a >= 2
    PROVE  a * b >= b + b
<1>1. PICK c \in Nat : a = c + 2
  <2>1. a - 2 \in Nat /\ a = (a - 2) + 2
    OBVIOUS
  <2>2. QED
    BY <2>1
<1>2. (c + 2) * b = c * b + (b + b) /\ c * b \in Nat
  OBVIOUS
<1>3. QED
  BY <1>1, <1>2

\* There are powers as large as any number.
LEMMA PowerGrows ==
    ASSUME NEW n \in Nat
    PROVE  n < Power[n]
<1> DEFINE T == {k \in 0 .. n : k < Power[k]}
<1>1. 0 \in T
  BY PowerIs
<1>2. ASSUME NEW k \in 0 .. n, k \in T, k # n PROVE k + 1 \in T
  <2>1. k \in Nat /\ Power[k] \in Nat /\ k < Power[k] /\ Radix \in Nat /\ Radix >= 2
    BY <1>2, PowerIs, TextAssumption
  <2>2. Power[k + 1] = Radix * Power[k]
    BY <2>1, PowerIs
  <2>3. Radix * Power[k] >= Power[k] + Power[k]
    BY <2>1, TwiceAtLeast
  <2> DEFINE p == Power[k]
             q == Power[k + 1]
  <2>4. q \in Nat /\ q >= p + p /\ p \in Nat /\ k < p
    BY <2>1, <2>2, <2>3, PowerIs
  <2> HIDE DEF p, q
  <2>5. k + 1 < q
    BY <2>1, <2>4
  <2>6. k + 1 \in 0 .. n
    BY <1>2
  <2>7. QED
    BY <2>5, <2>6 DEF q
<1> HIDE DEF T
<1>3. 0 .. n \subseteq T
  BY <1>1, <1>2, StepByStep
<1>4. n \in T
  BY <1>3
<1>5. QED
  BY <1>4 DEF T

LEMMA DigitsAre ==
    ASSUME NEW n \in Nat
    PROVE  /\ Digits(n) \in 1 .. n + 1 /\ n < Power[Digits(n)]
           /\ \A e \in 1 .. Digits(n) - 1 : Power[e] <= n
<1> DEFINE S == {d \in 1 .. n + 1 : n < Power[d]}
<1>1. n + 1 \in S
  <2>1. n + 1 < Power[n + 1] /\ Power[n + 1] \in Nat
    BY PowerGrows, PowerIs
  <2>2. QED
    BY <2>1
<1>2. PICK d \in S : \A e \in S : d <= e
  <2>1. S \subseteq Nat /\ S # {}
    BY <1>1
  <2> HIDE DEF S
  <2>2. QED
    BY <2>1, Least
<1>3. ASSUME NEW e \in 1 .. d - 1 PROVE Power[e] <= n
  <2>1. e \in 1 .. n + 1 /\ e \notin S /\ Power[e] \in Nat
    BY <1>2, PowerIs
  <2>2. QED
    BY <2>1
<1>4. \E x \in 1 .. n + 1 : n < Power[x] /\ \A e \in 1 .. x - 1 : Power[e] <= n
  BY <1>2, <1>3
<1>5. QED
  BY <1>4 DEF Digits

LEMMA DigitsAtMost ==
    ASSUME NEW n \in Nat, NEW d \in Nat \ {0}, n < Power[d]
    PROVE  Digits(n) <= d
<1> DEFINE digits == Digits(n)
<1>1. digits \in 1 .. n + 1 /\ \A e \in 1 .. digits - 1 : Power[e] <= n
  BY DigitsAre
<1>2. Power[d] \in Nat
  BY PowerIs
<1> HIDE DEF digits
<1>3. d \notin 1 .. digits - 1
  BY <1>1, <1>2
<1>4. digits <= d
  BY <1>1, <1>3
<1>5. QED
  BY <1>4 DEF digits

LEMMA DigitsGrow ==
    ASSUME NEW m \in Nat, NEW n \in Nat, m <= n
    PROVE  Digits(m) <= Digits(n)
<1>1. /\ Digits(n) \in Nat \ {0} /\ n < Power[Digits(n)]
      /\ Power[Digits(n)] \in Nat
  BY DigitsAre, PowerIs
<1>2. m < Power[Digits(n)]
  BY <1>1
<1>3. QED
  BY <1>1, <1>2, DigitsAtMost

(***************************************************************************)
(* Truncation.                                                             *)
(***************************************************************************)

LEMMA LabelWidthType ==
    ASSUME NEW kept \in Nat, NEW total \in Nat
    PROVE  LabelWidth(kept, total) \in Nat /\ LabelWidth(kept, total) >= 1
<1>1. Digits(kept) \in Nat /\ Digits(total) \in Nat
  BY DigitsAre
<1>2. QED
  BY <1>1, TextAssumption DEF LabelWidth

Narrow == {token \in Token : Width(token) = 1}

LEMMA SizeOfNarrow ==
    ASSUME NEW text \in Seq(Narrow)
    PROVE  Size(text) = Len(text)
<1> DEFINE T == {u \in Seq(Narrow) : Size(u) = Len(u)}
<1>1. <<>> \in T
  BY SizeOfNothing, EmptySeq
<1>2. ASSUME NEW u \in Seq(Narrow), NEW e \in Narrow, u \in T
      PROVE  u \o <<e>> \in T
  <2>1. u \in AnyText /\ e \in Token /\ Width(e) = 1
    <3>1. Narrow \subseteq Token
      BY DEF Narrow
    <3>2. u \in AnyText
      BY <3>1, SeqMonotonic DEF AnyText
    <3>3. QED
      BY <3>2 DEF Narrow
  <2>2. u \o <<e>> \in Seq(Narrow) /\ Len(u \o <<e>>) = Len(u) + 1
    BY ElementsOfOneMore
  <2>3. Size(u \o <<e>>) = Size(u) + Width(e)
    BY <2>1, SizeOneMore
  <2>4. Size(u) = Len(u)
    BY <1>2
  <2>5. Size(u \o <<e>>) = Len(u \o <<e>>)
    BY <2>1, <2>2, <2>3, <2>4
  <2>6. QED
    BY <2>2, <2>5
<1> HIDE DEF T
<1>3. text \in T
  BY <1>1, <1>2, SequenceByElement
<1>4. QED
  BY <1>3 DEF T

LEMMA LabelType ==
    ASSUME NEW kept \in Nat, NEW total \in Nat
    PROVE  /\ Label(kept, total) \in AnyText
           /\ Size(Label(kept, total)) = LabelWidth(kept, total)
           /\ <<"label", kept, total, 1>> \in ToSet(Label(kept, total))
           /\ \A token \in ToSet(Label(kept, total)) :
                 token[1] \notin {"nul", "surrogate"}
<1> DEFINE m == LabelWidth(kept, total)
           Of(i) == <<"label", kept, total, i>>
<1>1. m \in Nat /\ m >= 1
  BY LabelWidthType
<1>2. ASSUME NEW i \in Nat
      PROVE  /\ Of(i) \in Token /\ Of(i)[1] = "label" /\ Width(Of(i)) = 1
  <2>1. "label" \in Words
    BY WordsAre, Zenon
  <2>2. /\ "label" \in Words \cup Nat /\ kept \in Words \cup Nat
        /\ total \in Words \cup Nat /\ i \in Words \cup Nat
    BY <1>2, <2>1, Zenon
  <2>3. Of(i) \in Token
    <3>1. ASSUME NEW S, NEW a \in S, NEW b \in S, NEW c \in S, NEW d \in S
          PROVE  <<a, b, c, d>> \in Seq(S)
      OBVIOUS
    <3>2. QED
      BY <2>2, <3>1, Zenon DEF Token
  <2>4. Of(i)[1] = "label"
    OBVIOUS
  <2> HIDE DEF Of
  <2>5. Width(Of(i)) = 1
    BY <2>4 DEF Width
  <2>6. QED
    BY <2>3, <2>4, <2>5
<1>3. Label(kept, total) = [i \in 1 .. m |-> Of(i)]
  BY DEF Label
<1> HIDE DEF m, Of
<1>4. \A i \in 1 .. m : Of(i) \in Narrow
  BY <1>1, <1>2 DEF Narrow
<1>5. Label(kept, total) \in [1 .. m -> Narrow]
  BY <1>3, <1>4
<1>6. Label(kept, total) \in Seq(Narrow) /\ Len(Label(kept, total)) = m
  BY <1>1, <1>5
<1>7. Size(Label(kept, total)) = m
  BY <1>6, SizeOfNarrow
<1>8. Label(kept, total) \in AnyText
  <2>1. Narrow \subseteq Token
    BY DEF Narrow
  <2>2. QED
    BY <1>6, <2>1, SeqMonotonic DEF AnyText
<1>9. Of(1) \in ToSet(Label(kept, total))
  BY <1>1, <1>3 DEF ToSet
<1>10. ASSUME NEW token \in ToSet(Label(kept, total))
       PROVE  token[1] \notin {"nul", "surrogate"}
  <2>1. PICK i \in 1 .. m : token = Of(i)
    BY <1>3 DEF ToSet
  <2>2. token[1] = "label"
    BY <1>1, <1>2, <2>1
  <2>3. QED
    BY <2>2
<1>11. QED
  BY <1>7, <1>8, <1>9, <1>10 DEF m, Of

\* A text that has a label in it is labelled.
LEMMA LabelSays ==
    ASSUME NEW text, NEW kept \in Nat, NEW total \in Nat,
           \A token \in ToSet(Label(kept, total)) : token \in ToSet(text)
    PROVE  Labelled(text)
<1> DEFINE token == <<"label", kept, total, 1>>
<1>1. token \in ToSet(text)
  BY LabelType
<1>2. token[1] = "label" /\ token[2] = kept /\ token[3] = total
  OBVIOUS
<1> HIDE DEF token
<1>3. ToSet(Label(token[2], token[3])) \subseteq ToSet(text)
  BY <1>2
<1>4. QED
  BY <1>1, <1>2, <1>3 DEF Labelled

LEMMA BudgetIs ==
    ASSUME NEW total \in Nat, NEW cap \in Nat
    PROVE  /\ Budget(total, cap) \in Int /\ Digits(total) \in Nat
           /\ Budget(total, cap) <= Budget(0, cap)
           /\ Budget(total, cap)
                 = cap - (LabelBytes + 1 + Digits(total)) - Headroom
<1>1. Digits(0) = 1
  <2>1. Digits(0) \in 1 .. 0 + 1
    BY DigitsAre
  <2>2. QED
    BY <2>1
<1>2. Digits(total) \in Nat /\ Digits(total) >= 1
  BY DigitsAre
<1>3. QED
  BY <1>1, <1>2, TextAssumption DEF Budget, LabelWidth

\* What a cap leaves for the text is a number the headroom has figures for.
Roomy(cap) == Budget(0, cap) < Power[Headroom + 1]

\* A truncated text fits its cap, and if it is not what there was it has a label.
LEMMA Truncated ==
    ASSUME NEW text \in AnyText, NEW cap \in Nat, Roomy(cap)
    PROVE  /\ truncate_text(text, cap) \in AnyText
           /\ Size(truncate_text(text, cap)) <= cap
           /\ Budget(Size(text), cap) > 0 =>
                 \/ truncate_text(text, cap) = clean_text(text)
                 \/ \E kept, total \in Nat :
                       \A token \in ToSet(Label(kept, total)) :
                          token \in ToSet(truncate_text(text, cap))
<1> DEFINE cleaned == clean_text(text)
           total   == Size(cleaned)
           budget  == Budget(total, cap)
           kept    == Cut(cleaned, budget)
           cut     == truncate_text(text, cap)
<1>1. cleaned \in AnyText /\ total \in Nat /\ total <= Size(text) /\ Size(text) \in Nat
  BY CleanType, CleanSize, SizeType
<1>2. /\ total <= cap => cut = cleaned
      /\ ~(total <= cap) /\ budget <= 0 => cut = Cut(cleaned, cap)
      /\ ~(total <= cap) /\ ~(budget <= 0) =>
            cut = kept \o Label(Size(kept), total)
  BY Zenon DEF truncate_text
<1>3. /\ budget \in Int /\ Digits(total) \in Nat /\ budget <= Budget(0, cap)
      /\ budget = cap - (LabelBytes + 1 + Digits(total)) - Headroom
  BY <1>1, BudgetIs
<1>4. Budget(Size(text), cap) <= budget
  <2>1. Digits(total) <= Digits(Size(text))
    BY <1>1, DigitsGrow
  <2>2. /\ Digits(Size(text)) \in Nat
        /\ Budget(Size(text), cap)
              = cap - (LabelBytes + 1 + Digits(Size(text))) - Headroom
    BY <1>1, BudgetIs
  <2>3. QED
    BY <1>3, <2>1, <2>2, TextAssumption
<1> HIDE DEF cleaned, total, budget, kept, cut
<1>5. CASE total <= cap
  <2>1. cut = cleaned
    BY <1>2, <1>5
  <2>2. QED
    BY <1>1, <1>5, <2>1 DEF cut, cleaned, total
<1>6. CASE ~(total <= cap) /\ budget <= 0
  <2>1. cut = Cut(cleaned, cap)
    BY <1>2, <1>6
  <2>2. cut \in AnyText /\ Size(cut) <= cap
    BY <1>1, <2>1, CutFits
  <2>3. Budget(Size(text), cap) \in Int
    BY <1>1, BudgetIs
  <2>4. ~(Budget(Size(text), cap) > 0)
    BY <1>3, <1>4, <1>6, <2>3
  <2>5. QED
    BY <2>2, <2>4 DEF cut
<1>7. CASE ~(total <= cap) /\ ~(budget <= 0)
  <2>1. budget \in Nat \ {0}
    BY <1>3, <1>7
  <2>2. kept \in AnyText /\ Size(kept) <= budget /\ Size(kept) \in Nat
    BY <1>1, <2>1, CutFits, SizeType DEF kept
  <2> DEFINE label == Label(Size(kept), total)
  <2>3. cut = kept \o label
    BY <1>2, <1>7
  <2>4. label \in AnyText /\ Size(label) = LabelWidth(Size(kept), total)
    BY <1>1, <2>2, LabelType
  <2>5. Digits(Size(kept)) <= Headroom + 1 /\ Digits(Size(kept)) \in Nat
    <3>1. /\ Headroom + 1 \in Nat \ {0} /\ Power[Headroom + 1] \in Nat
          /\ Budget(0, cap) \in Int
      BY PowerIs, TextAssumption, BudgetIs
    <3>2. Size(kept) < Power[Headroom + 1]
      BY <1>3, <2>2, <3>1 DEF Roomy
    <3>3. Digits(Size(kept)) <= Headroom + 1
      BY <2>2, <3>1, <3>2, DigitsAtMost
    <3>4. Digits(Size(kept)) \in 1 .. Size(kept) + 1
      BY <2>2, DigitsAre
    <3>5. QED
      BY <2>2, <3>3, <3>4
  <2>6. Size(label) = LabelBytes + Digits(Size(kept)) + Digits(total)
    BY <2>4 DEF LabelWidth
  <2>7. cut \in AnyText /\ Size(cut) = Size(kept) + Size(label)
    <3>1. kept \o label \in AnyText
      BY <2>2, <2>4, ConcatProperties DEF AnyText
    <3>2. Size(kept \o label) = Size(kept) + Size(label)
      BY <2>2, <2>4, SizeOfBoth
    <3>3. QED
      BY <2>3, <3>1, <3>2, Zenon
  <2>8. Size(cut) <= cap
    <3> DEFINE a == Size(kept)
               b == Digits(Size(kept))
               c == Digits(total)
               d == Size(cut)
    <3>1. d = a + (LabelBytes + b + c)
      BY <2>6, <2>7
    <3>2. /\ a \in Nat /\ b \in Nat /\ c \in Nat /\ a <= budget
          /\ b <= Headroom + 1 /\ budget = cap - (LabelBytes + 1 + c) - Headroom
      BY <1>3, <2>2, <2>5
    <3> HIDE DEF a, b, c, d
    <3>3. d <= cap
      BY <1>3, <3>1, <3>2, TextAssumption
    <3>4. QED
      BY <3>3 DEF d
  <2>9. ASSUME NEW token \in ToSet(label) PROVE token \in ToSet(cut)
    <3>1. token \in ToSet(kept \o label)
      BY <2>2, <2>4, TokensOfBoth
    <3>2. QED
      BY <2>3, <3>1, Zenon
  <2>10. QED
    BY <1>1, <2>2, <2>7, <2>8, <2>9 DEF cut
<1>8. QED
  BY <1>5, <1>6, <1>7

(***************************************************************************)
(* Decoding.                                                               *)
(***************************************************************************)

\* What a byte can come to.
Small == {text \in AnyText : Size(text) <= 3}

LEMMA SmallOne ==
    ASSUME NEW token \in Token
    PROVE  <<token>> \in Small
<1>1. <<token>> \in AnyText /\ Size(<<token>>) = Width(token)
  BY KeptType
<1>2. Width(token) \in 1 .. 3
  BY WidthType
<1>3. QED
  BY <1>1, <1>2 DEF Small

LEMMA DecodedAtType ==
    ASSUME NEW raw \in Seq(Bytes), NEW i \in 1 .. Len(raw)
    PROVE  DecodedAt(raw, i) \in Small
<1>1. raw[i] \in Bytes
  BY ElementOfSeq
<1>2. <<>> \in Small
  <2>1. <<>> \in AnyText
    BY EmptySeq DEF AnyText
  <2>2. Size(<<>>) <= 3
    BY SizeOfNothing
  <2>3. QED
    BY <2>1, <2>2 DEF Small
<1>3. \A word \in Words : <<<<word>>>> \in Small
  BY WordsAre, SmallOne
<1>4. "wide" \in Words /\ "replaced" \in Words /\ raw[i] \in Words
  BY <1>1, WordsAre, Zenon
<1>5. <<<<"wide">>>> \in Small /\ <<<<"replaced">>>> \in Small
      /\ <<<<raw[i]>>>> \in Small
  BY <1>3, <1>4
<1>6. \/ DecodedAt(raw, i) = <<<<"wide">>>> \/ DecodedAt(raw, i) = <<>>
      \/ DecodedAt(raw, i) = <<<<"replaced">>>>
      \/ DecodedAt(raw, i) = <<<<raw[i]>>>>
  BY Zenon DEF DecodedAt
<1>7. QED
  BY <1>2, <1>5, <1>6, Zenon

LEMMA JoinSize ==
    ASSUME NEW pieces \in Seq(Small)
    PROVE  FlattenSeq(pieces) \in AnyText /\ Size(FlattenSeq(pieces)) <= 3 * Len(pieces)
<1> DEFINE T == {p \in Seq(Small) : /\ FlattenSeq(p) \in AnyText
                                    /\ Size(FlattenSeq(p)) <= 3 * Len(p)}
<1>1. <<>> \in T
  <2>1. FlattenSeq(<<>>) \in AnyText /\ Size(FlattenSeq(<<>>)) = 0
    <3>1. <<>> \in AnyText
      BY EmptySeq DEF AnyText
    <3>2. QED
      BY <3>1, SizeOfNothing, JoinNothing, Zenon
  <2>2. Len(<<>>) = 0 /\ <<>> \in Seq(Small)
    BY EmptySeq
  <2>3. Size(FlattenSeq(<<>>)) <= 3 * Len(<<>>)
    BY <2>1, <2>2
  <2>4. QED
    BY <2>1, <2>2, <2>3
<1>2. ASSUME NEW p \in Seq(Small), NEW e \in Small, p \in T
      PROVE  p \o <<e>> \in T
  <2>1. p \in Seq(AnyText) /\ e \in AnyText /\ Size(e) <= 3
    <3>1. Small \subseteq AnyText
      BY DEF Small
    <3>2. p \in Seq(AnyText)
      BY <3>1, SeqMonotonic
    <3>3. QED
      BY <3>2 DEF Small
  <2>2. FlattenSeq(p \o <<e>>) = FlattenSeq(p) \o e
    BY <2>1, JoinOneMore DEF AnyText
  <2>3. FlattenSeq(p) \in AnyText /\ Size(FlattenSeq(p)) <= 3 * Len(p)
    BY <1>2
  <2>4. /\ FlattenSeq(p) \o e \in AnyText
        /\ Size(FlattenSeq(p) \o e) = Size(FlattenSeq(p)) + Size(e)
    <3>1. FlattenSeq(p) \o e \in AnyText
      BY <2>1, <2>3, ConcatProperties DEF AnyText
    <3>2. QED
      BY <2>1, <2>3, <3>1, SizeOfBoth
  <2>5. /\ FlattenSeq(p \o <<e>>) \in AnyText
        /\ Size(FlattenSeq(p \o <<e>>)) = Size(FlattenSeq(p)) + Size(e)
    BY <2>2, <2>4, Zenon
  <2>6. /\ p \o <<e>> \in Seq(Small) /\ Len(p \o <<e>>) = Len(p) + 1
        /\ Len(p) \in Nat
    BY ElementsOfOneMore, LenProperties
  <2>7. Size(e) \in Nat /\ Size(FlattenSeq(p)) \in Nat
    BY <2>1, <2>3, SizeType
  <2> DEFINE a == Size(FlattenSeq(p))
             b == Size(e)
             c == Len(p)
             d == Size(FlattenSeq(p \o <<e>>))
             l == Len(p \o <<e>>)
  <2>8. /\ a \in Nat /\ b \in Nat /\ c \in Nat /\ d = a + b /\ l = c + 1
        /\ a <= 3 * c /\ b <= 3
    BY <2>1, <2>3, <2>5, <2>6, <2>7
  <2> HIDE DEF a, b, c, d, l
  <2>9. d <= 3 * l
    BY <2>8
  <2>10. QED
    BY <2>5, <2>6, <2>9 DEF d, l
<1> HIDE DEF T
<1>3. pieces \in T
  BY <1>1, <1>2, SequenceByElement
<1>4. QED
  BY <1>3 DEF T

\* A byte comes to at most three.
LEMMA DecodedType ==
    ASSUME NEW raw \in Seq(Bytes)
    PROVE  /\ Decoded(raw) \in AnyText /\ Size(Decoded(raw)) <= 3 * Len(raw)
           /\ Len(raw) \in Nat
<1> DEFINE pieces == [i \in DOMAIN raw |-> DecodedAt(raw, i)]
<1>1. Len(raw) \in Nat /\ DOMAIN raw = 1 .. Len(raw)
  BY LenProperties
<1>2. \A i \in 1 .. Len(raw) : DecodedAt(raw, i) \in Small
  BY DecodedAtType
<1>3. pieces \in [1 .. Len(raw) -> Small]
  BY <1>1, <1>2
<1>4. pieces \in Seq(Small) /\ Len(pieces) = Len(raw)
  BY <1>1, <1>3
<1>5. Decoded(raw) = FlattenSeq(pieces)
  BY DEF Decoded
<1> HIDE DEF pieces
<1>6. FlattenSeq(pieces) \in AnyText /\ Size(FlattenSeq(pieces)) <= 3 * Len(raw)
  BY <1>4, JoinSize
<1>7. QED
  BY <1>1, <1>5, <1>6, Zenon

(***************************************************************************)
(* What is captured, and what is made of it.                               *)
(***************************************************************************)

\* There is a whole label in the text.
HasLabel(text) ==
    \E kept, total \in Nat :
        \A token \in ToSet(Label(kept, total)) : token \in ToSet(text)

Tells(text) == <<"TRUNCATED">> \in ToSet(text) \/ HasLabel(text)

LEMMA TellsSaysSo ==
    ASSUME NEW text, Tells(text)
    PROVE  SaysSo(text)
<1>1. CASE <<"TRUNCATED">> \in ToSet(text)
  BY <1>1 DEF SaysSo
<1>2. CASE HasLabel(text)
  <2>1. PICK kept \in Nat, total \in Nat :
           \A token \in ToSet(Label(kept, total)) : token \in ToSet(text)
    BY <1>2 DEF HasLabel
  <2>2. Labelled(text)
    BY <2>1, LabelSays
  <2>3. QED
    BY <2>2 DEF SaysSo
<1>3. QED
  BY <1>1, <1>2 DEF Tells

LEMMA CleanTells ==
    ASSUME NEW text \in AnyText, Tells(text)
    PROVE  Tells(clean_text(text))
<1>1. CASE <<"TRUNCATED">> \in ToSet(text)
  <2>1. <<"TRUNCATED">>[1] \notin {"nul", "surrogate"}
    OBVIOUS
  <2>2. <<"TRUNCATED">> \in ToSet(clean_text(text))
    BY <1>1, <2>1, CleanKeeps
  <2>3. QED
    BY <2>2 DEF Tells
<1>2. CASE HasLabel(text)
  <2>1. PICK kept \in Nat, total \in Nat :
           \A token \in ToSet(Label(kept, total)) : token \in ToSet(text)
    BY <1>2 DEF HasLabel
  <2>2. ASSUME NEW token \in ToSet(Label(kept, total))
        PROVE  token \in ToSet(clean_text(text))
    <3>1. token \in ToSet(text) /\ token[1] \notin {"nul", "surrogate"}
      BY <2>1, LabelType
    <3>2. QED
      BY <3>1, CleanKeeps
  <2>3. HasLabel(clean_text(text))
    BY <2>2 DEF HasLabel
  <2>4. QED
    BY <2>3 DEF Tells
<1>3. QED
  BY <1>1, <1>2 DEF Tells

\* What is told in a part is told in the whole.
LEMMA TellsBoth ==
    ASSUME NEW text \in AnyText, NEW other \in AnyText, Tells(text) \/ Tells(other)
    PROVE  Tells(text \o other)
<1>1. \A token : token \in ToSet(text) \/ token \in ToSet(other)
                     => token \in ToSet(text \o other)
  BY TokensOfBoth
<1>2. CASE HasLabel(text) \/ HasLabel(other)
  <2>1. HasLabel(text \o other)
    BY <1>1, <1>2 DEF HasLabel
  <2>2. QED
    BY <2>1 DEF Tells
<1>3. CASE <<"TRUNCATED">> \in ToSet(text) \/ <<"TRUNCATED">> \in ToSet(other)
  BY <1>1, <1>3 DEF Tells
<1>4. QED
  BY <1>2, <1>3 DEF Tells

\* A longer text leaves no more of its cap.
LEMMA BudgetShrinks ==
    ASSUME NEW m \in Nat, NEW n \in Nat, m <= n, NEW cap \in Nat,
           Budget(n, cap) > 0
    PROVE  Budget(m, cap) > 0
<1>1. Digits(m) <= Digits(n)
  BY DigitsGrow
<1>2. /\ Digits(m) \in Nat
      /\ Budget(m, cap) = cap - (LabelBytes + 1 + Digits(m)) - Headroom
  BY BudgetIs
<1>3. /\ Digits(n) \in Nat
      /\ Budget(n, cap) = cap - (LabelBytes + 1 + Digits(n)) - Headroom
  BY BudgetIs
<1>4. QED
  BY <1>1, <1>2, <1>3, TextAssumption

Caps == {MaxOutput, MaxContent, MaxSummary}

LEMMA CapsAre ==
    ASSUME NEW cap \in Caps
    PROVE  /\ cap \in Nat /\ Roomy(cap)
           /\ \A n \in 0 .. 6 * (MaxOutput + 1) : Budget(n, cap) > 0
           /\ \A text \in Texts : text \in AnyText /\ Budget(Size(text), cap) > 0
<1>1. cap \in Nat /\ MaxOutput \in Nat
  BY CallDataAssumption DEF Caps
<1>2. Roomy(cap)
  BY CallDataAssumption DEF Caps, Roomy
<1>3. ASSUME NEW n \in 0 .. 6 * (MaxOutput + 1) PROVE Budget(n, cap) > 0
  <2>1. Budget(6 * (MaxOutput + 1), cap) > 0
    BY CallDataAssumption DEF Caps
  <2>2. 6 * (MaxOutput + 1) \in Nat /\ n \in Nat /\ n <= 6 * (MaxOutput + 1)
    BY <1>1
  <2> DEFINE most == 6 * (MaxOutput + 1)
  <2> HIDE DEF most
  <2>3. Budget(most, cap) > 0 /\ most \in Nat /\ n <= most
    BY <2>1, <2>2 DEF most
  <2>4. QED
    BY <1>1, <2>2, <2>3, BudgetShrinks
<1>4. ASSUME NEW text \in Texts
      PROVE  text \in AnyText /\ Budget(Size(text), cap) > 0
  <2>1. Budget(Size(text), cap) > 0 /\ text \in Seq(Characters)
    BY CallDataAssumption DEF Caps
  <2>2. Characters \subseteq Token
    <3>1. /\ "plain" \in Words /\ "nul" \in Words /\ "surrogate" \in Words
          /\ "wide" \in Words /\ "replaced" \in Words
      BY WordsAre, Zenon DEF Bytes
    <3>2. QED
      BY <3>1, WordsAre, Zenon DEF Characters
  <2>3. text \in AnyText
    BY <2>1, <2>2, SeqMonotonic DEF AnyText
  <2>4. QED
    BY <2>1, <2>3
<1>5. QED
  BY <1>1, <1>2, <1>3, <1>4

\* A cap that has room for the label keeps the text, or tells.
LEMMA CutTells ==
    ASSUME NEW text \in AnyText, NEW cap \in Caps, Budget(Size(text), cap) > 0
    PROVE  LET cut == truncate_text(text, cap)
           IN  /\ cut \in AnyText /\ Size(cut) <= cap
               /\ cut = clean_text(text) \/ HasLabel(cut)
<1>1. cap \in Nat /\ Roomy(cap)
  BY CapsAre
<1>2. QED
  BY <1>1, Truncated DEF HasLabel

LEMMA DecodeType ==
    ASSUME NEW raw \in Seq(Bytes), Len(raw) <= MaxOutput + 1
    PROVE  /\ decode(raw) \in AnyText /\ Size(decode(raw)) <= MaxOutput
           /\ decode(raw) = clean_text(Decoded(raw)) \/ HasLabel(decode(raw))
<1>1. /\ Decoded(raw) \in AnyText /\ Size(Decoded(raw)) <= 3 * Len(raw)
      /\ Len(raw) \in Nat /\ MaxOutput \in Nat
  BY DecodedType, CallDataAssumption
<1>2. Size(Decoded(raw)) \in Nat
  BY <1>1, SizeType
<1>3. Size(Decoded(raw)) \in 0 .. 6 * (MaxOutput + 1)
  <2> DEFINE a == Size(Decoded(raw))
             b == Len(raw)
  <2>1. a \in Nat /\ b \in Nat /\ a <= 3 * b /\ b <= MaxOutput + 1
    BY <1>1, <1>2
  <2> HIDE DEF a, b
  <2>2. a \in 0 .. 6 * (MaxOutput + 1)
    BY <1>1, <2>1
  <2>3. QED
    BY <2>2 DEF a
<1>4. MaxOutput \in Caps
  BY DEF Caps
<1>5. Budget(Size(Decoded(raw)), MaxOutput) > 0
  BY <1>3, <1>4, CapsAre
<1>6. QED
  BY <1>1, <1>4, <1>5, CutTells DEF decode

\* What is read of a stream is a piece of it.
LEMMA PieceOf ==
    ASSUME NEW raw \in Seq(Bytes)
    PROVE  /\ \A part \in Reads(raw) :
                 part \in Seq(Bytes) /\ Len(part) <= MaxOutput + 1
           /\ Len(raw) > MaxOutput =>
                 /\ SubSeq(raw, 1, MaxOutput + 1) \in Seq(Bytes)
                 /\ Len(SubSeq(raw, 1, MaxOutput + 1)) <= MaxOutput + 1
<1>1. Len(raw) \in Nat /\ MaxOutput \in Nat
  BY LenProperties, CallDataAssumption
<1>2. ASSUME NEW n \in 0 .. Len(raw)
      PROVE  SubSeq(raw, 1, n) \in Seq(Bytes) /\ Len(SubSeq(raw, 1, n)) = n
  <2>1. \A i \in 1 .. Len(raw) : raw[i] \in Bytes
    BY ElementOfSeq
  <2>2. QED
    BY <1>1, <2>1, SubSeqProperties
<1>3. ASSUME NEW part \in Reads(raw)
      PROVE  part \in Seq(Bytes) /\ Len(part) <= MaxOutput + 1
  <2> DEFINE least == Min({Len(raw), MaxOutput})
  <2>1. least \in {Len(raw), MaxOutput} /\ least <= Len(raw) /\ least <= MaxOutput
    <3>1. \E x \in {Len(raw), MaxOutput} : \A y \in {Len(raw), MaxOutput} : x <= y
      BY <1>1
    <3>2. QED
      BY <3>1 DEF Min
  <2> HIDE DEF least
  <2>2. PICK n \in 0 .. least : part = SubSeq(raw, 1, n)
    BY DEF Reads, least
  <2>3. n \in 0 .. Len(raw) /\ n <= MaxOutput
    BY <1>1, <2>1
  <2>4. SubSeq(raw, 1, n) \in Seq(Bytes) /\ Len(SubSeq(raw, 1, n)) = n
    BY <1>2, <2>3
  <2>5. part \in Seq(Bytes) /\ Len(part) = n
    BY <2>2, <2>4, Zenon
  <2>6. QED
    BY <1>1, <2>3, <2>5
<1>4. ASSUME Len(raw) > MaxOutput
      PROVE  /\ SubSeq(raw, 1, MaxOutput + 1) \in Seq(Bytes)
             /\ Len(SubSeq(raw, 1, MaxOutput + 1)) <= MaxOutput + 1
  <2>1. MaxOutput + 1 \in 0 .. Len(raw)
    BY <1>1, <1>4
  <2>2. QED
    BY <1>1, <1>2, <2>1
<1>5. QED
  BY <1>3, <1>4

(***************************************************************************)
(* What is known of a call at each of its stages.                          *)
(***************************************************************************)

\* A captured stream is all there was of it, or has a label.
WholeOrLabelled(stream, raw) ==
    stream = clean_text(Decoded(raw)) \/ HasLabel(stream)

\* The result of a command that was launched.
Launched ==
    /\ result.stdout \in AnyText /\ Size(result.stdout) <= MaxOutput
    /\ result.stderr \in AnyText /\ Size(result.stderr) <= MaxOutput
    /\ ~result.timed_out /\ ~result.truncated =>
          /\ WholeOrLabelled(result.stdout, wrote[1])
          /\ WholeOrLabelled(result.stderr, wrote[2])
          /\ Decoded(wrote[1]) \in AnyText /\ Decoded(wrote[2]) \in AnyText

\* Before the tool has looked at it.
Captures ==
    /\ request.tool = "run_command"
    /\ result.timed_out \in BOOLEAN /\ result.truncated \in BOOLEAN
    /\ \/ Launched
       \/ ~result.timed_out /\ Unlaunchable(result)

\* The handler's text fits a cap with its label, and is all there was to say, or
\* tells that it is not.
Handled ==
    /\ result.timed_out \in BOOLEAN
    /\ result.timed_out =>
          output.status = "timeout" /\ output.text = Sentence("killed")
    /\ request.tool = "run_command" /\ output.status = "timeout"
          => result.timed_out
    /\ output.text \in AnyText
    /\ \A cap \in {MaxContent, MaxSummary} : Budget(Size(output.text), cap) > 0
    /\ output.status = "ok" =>
          clean_text(output.text) = AllSaid \/ Tells(output.text)

\* The properties of a call that is over, and what they rest on before.
CallInv ==
    /\ request \in Requests /\ configured \in Nat /\ elapsed \in Nat
    /\ pc \in {"check", "handle", "render", "judge", "done"}
    /\ pc \in {"check", "handle"} => result = NoResult
    /\ pc = "render" => Captures
    /\ pc = "judge" => Handled
    /\ FitsOrSaysSo
    /\ KilledIsTimeout

LEMMA LimitIs ==
    ASSUME CallInv
    PROVE  CallLimit \in Nat /\ CommandLimit \in Nat
<1>1. request.timeout \in Nat \cup {None} /\ ToolDefault \in Nat
      /\ configured \in Nat
  BY CallDataAssumption DEF CallInv
<1>2. QED
  BY <1>1 DEF CallLimit, CommandLimit

LEMMA TakesTime ==
    ASSUME elapsed \in Nat, NEW n \in Nat, Takes(n)
    PROVE  elapsed' \in Nat
<1>1. MaxDelay \in Nat
  BY CallDataAssumption
<1>2. QED
  BY <1>1 DEF Takes

LEMMA SentenceIs ==
    ASSUME NEW reason \in {"args_invalid", "killed", "argv", "late", "raised",
                           "own"},
           NEW cap \in Caps
    PROVE  /\ Sentence(reason) \in AnyText
           /\ Size(Sentence(reason)) = 1
           /\ Budget(Size(Sentence(reason)), cap) > 0
<1> DEFINE token == <<"sentence", reason>>
<1>1. token \in Token /\ token[1] = "sentence"
  <2>1. "sentence" \in Words /\ reason \in Words
    BY WordsAre, Zenon
  <2>2. "sentence" \in Words \cup Nat /\ reason \in Words \cup Nat
    BY <2>1, Zenon
  <2>3. ASSUME NEW S, NEW a \in S, NEW b \in S PROVE <<a, b>> \in Seq(S)
    OBVIOUS
  <2>4. token \in Token
    BY <2>2, <2>3, Zenon DEF Token
  <2>5. QED
    BY <2>4
<1> HIDE DEF token
<1>2. Width(token) = 1
  BY <1>1 DEF Width
<1>3. <<token>> \in AnyText /\ Size(<<token>>) = Width(token)
  BY <1>1, KeptType
<1>4. Sentence(reason) = <<token>>
  BY DEF Sentence, token
<1>5. Sentence(reason) \in AnyText /\ Size(Sentence(reason)) = 1
  BY <1>2, <1>3, <1>4, Zenon
<1>6. 1 \in 0 .. 6 * (MaxOutput + 1)
  BY CallDataAssumption
<1>7. QED
  BY <1>5, <1>6, CapsAre

\* A sentence is short enough for any cap.
LEMMA SentenceStays ==
    ASSUME NEW reason \in {"killed", "late"}, NEW cap \in Caps
    PROVE  truncate_text(Sentence(reason), cap) = Sentence(reason)
<1> DEFINE token == <<"sentence", reason>>
           text  == Sentence(reason)
<1>1. token \in Token
  <2>1. "sentence" \in Words \cup Nat /\ reason \in Words \cup Nat
    BY WordsAre, Zenon
  <2>2. ASSUME NEW S, NEW a \in S, NEW b \in S PROVE <<a, b>> \in Seq(S)
    OBVIOUS
  <2>3. QED
    BY <2>1, <2>2, Zenon DEF Token
<1>2. Kept(token) = <<token>>
  BY DEF Kept
<1> HIDE DEF token
<1>3. clean_text(<<token>>) = <<token>>
  BY <1>1, <1>2, CleanOne
<1>4. text = <<token>>
  BY DEF Sentence, token
<1>5. Size(text) = 1
  BY SentenceIs
<1>6. clean_text(text) = text
  BY <1>3, <1>4, Zenon
<1>7. cap \in Nat /\ Size(truncate_text(text, cap)) <= cap
  BY SentenceIs, CapsAre, Truncated
<1>8. 1 <= cap
  <2>1. cap \in Caps /\ 1 \in 0 .. 6 * (MaxOutput + 1)
    BY CallDataAssumption
  <2>2. Budget(1, cap) > 0 /\ cap \in Nat
    BY <2>1, CapsAre
  <2>3. /\ Budget(1, cap) = cap - (LabelBytes + 1 + Digits(1)) - Headroom
        /\ Digits(1) \in Nat
    BY <2>2, BudgetIs
  <2>4. LabelBytes \in Nat /\ Headroom \in Nat
    BY TextAssumption
  <2>5. QED
    BY <2>2, <2>3, <2>4
<1>9. Size(clean_text(text)) <= cap
  BY <1>5, <1>6, <1>8
<1>10. truncate_text(text, cap) = clean_text(text)
  BY <1>9, Zenon DEF truncate_text
<1>11. QED
  BY <1>6, <1>10

\* The end of a call whose text is no success.
LEMMA FinishFits ==
    ASSUME NEW status, NEW reason, NEW text \in AnyText,
           Finish(status, reason, text), status # "ok"
    PROVE  FitsOrSaysSo'
<1>1. MaxContent \in Caps /\ MaxSummary \in Caps
  BY DEF Caps
<1>2. /\ Size(truncate_text(text, MaxContent)) <= MaxContent
      /\ Size(truncate_text(text, MaxSummary)) <= MaxSummary
  BY <1>1, CapsAre, Truncated
<1>3. /\ answer'.text = truncate_text(text, MaxContent)
      /\ record'.text = truncate_text(text, MaxSummary)
      /\ answer'.status = status
  BY DEF Finish
<1>4. QED
  BY <1>2, <1>3 DEF FitsOrSaysSo

\* The end of a call that succeeded.
LEMMA SuccessFits ==
    ASSUME Handled, output.status = "ok", NEW reason,
           Finish("ok", reason, output.text), UNCHANGED <<request, wrote>>
    PROVE  FitsOrSaysSo'
<1> DEFINE text == output.text
<1>1. MaxContent \in Caps /\ MaxSummary \in Caps
  BY DEF Caps
<1>2. /\ text \in AnyText
      /\ \A cap \in {MaxContent, MaxSummary} : Budget(Size(text), cap) > 0
      /\ clean_text(text) = AllSaid \/ Tells(text)
  BY DEF Handled
<1>3. /\ answer'.text = truncate_text(text, MaxContent)
      /\ record'.text = truncate_text(text, MaxSummary)
  BY DEF Finish
<1> HIDE DEF text
<1>4. AllSaid' = AllSaid
  BY DEF AllSaid
<1>5. ASSUME NEW cap \in {MaxContent, MaxSummary}
      PROVE  LET cut == truncate_text(text, cap)
             IN  Size(cut) <= cap /\ (cut = AllSaid \/ SaysSo(cut))
  <2> DEFINE cut == truncate_text(text, cap)
  <2>1. Size(cut) <= cap /\ (cut = clean_text(text) \/ HasLabel(cut))
    BY <1>1, <1>2, CutTells
  <2> HIDE DEF cut
  <2>2. CASE HasLabel(cut)
    <3>1. SaysSo(cut)
      BY <2>2, TellsSaysSo DEF Tells
    <3>2. QED
      BY <2>1, <3>1 DEF cut
  <2>3. CASE cut = clean_text(text)
    <3>1. CASE clean_text(text) = AllSaid
      BY <2>1, <2>3, <3>1 DEF cut
    <3>2. CASE Tells(text)
      <4>1. Tells(clean_text(text))
        BY <1>2, <3>2, CleanTells
      <4>2. SaysSo(clean_text(text))
        BY <4>1, TellsSaysSo
      <4>3. SaysSo(cut)
        BY <2>3, <4>2
      <4>4. QED
        BY <2>1, <4>3 DEF cut
    <3>3. QED
      BY <1>2, <3>1, <3>2
  <2>4. QED
    BY <2>1, <2>2, <2>3
<1>6. QED
  <2>1. Size(answer'.text) <= MaxContent /\ Size(record'.text) <= MaxSummary
    BY <1>3, <1>5
  <2>2. ASSUME NEW said \in {answer'.text, record'.text}
        PROVE  said = AllSaid' \/ SaysSo(said)
    BY <1>3, <1>4, <1>5
  <2>3. QED
    BY <2>1, <2>2 DEF FitsOrSaysSo

\* A line of the tool's own.
LEMMA LineIs ==
    ASSUME NEW line \in {"exit code", "TRUNCATED", "stderr"}
    PROVE  /\ <<<<line>>>> \in AnyText /\ Size(<<<<line>>>>) = 1
           /\ clean_text(<<<<line>>>>) = <<<<line>>>>
           /\ <<line>> \in ToSet(<<<<line>>>>)
<1>1. <<line>> \in Token /\ <<line>>[1] = line
  <2>1. line \in Words
    BY WordsAre, Zenon
  <2>2. <<line>> \in Token
    BY <2>1, WordsAre
  <2>3. QED
    BY <2>2
<1>2. line \notin {"nul", "surrogate", "wide", "replaced"}
  OBVIOUS
<1> DEFINE token == <<line>>
<1>3. token \in Token /\ token[1] = line
  BY <1>1
<1> HIDE DEF token
<1>4. Width(token) = 1
  BY <1>2, <1>3 DEF Width
<1>5. /\ <<token>> \in AnyText /\ Size(<<token>>) = Width(token)
      /\ Kept(token) = <<token>>
  <2>1. token[1] \notin {"nul", "surrogate"}
    BY <1>2, <1>3
  <2>2. QED
    BY <1>3, <2>1, KeptType
<1>6. clean_text(<<token>>) = Kept(token)
  BY <1>3, CleanOne
<1>7. token \in ToSet(<<token>>)
  BY ElementOfOne
<1>8. Size(<<token>>) = 1 /\ clean_text(<<token>>) = <<token>>
  BY <1>4, <1>5, <1>6, Zenon
<1>9. QED
  BY <1>5, <1>7, <1>8, Zenon DEF token

LEMMA HeaderIs ==
    ASSUME NEW truncated \in BOOLEAN
    PROVE  /\ Header(truncated) \in AnyText /\ Size(Header(truncated)) <= 2
           /\ clean_text(Header(truncated)) = Header(truncated)
           /\ truncated => Tells(Header(truncated))
<1> DEFINE code == <<<<"exit code">>>>
           told == <<<<"TRUNCATED">>>>
<1>1. /\ code \in AnyText /\ Size(code) = 1 /\ clean_text(code) = code
      /\ told \in AnyText /\ Size(told) = 1 /\ clean_text(told) = told
      /\ <<"TRUNCATED">> \in ToSet(told)
  BY LineIs
<1>2. Header(truncated) = code \o (IF truncated THEN told ELSE <<>>)
  BY DEF Header
<1> HIDE DEF code, told
<1>3. CASE truncated
  <2>1. Header(truncated) = code \o told
    BY <1>2, <1>3, Zenon
  <2>2. code \o told \in AnyText
    BY <1>1, ConcatProperties DEF AnyText
  <2>3. Size(code \o told) = Size(code) + Size(told)
    BY <1>1, SizeOfBoth
  <2>4. clean_text(code \o told) = clean_text(code) \o clean_text(told)
    BY <1>1, CleanBoth
  <2>5. clean_text(code \o told) = code \o told
    BY <1>1, <2>4, Zenon
  <2>6. Tells(told)
    BY <1>1 DEF Tells
  <2>7. Tells(code \o told)
    BY <1>1, <2>6, TellsBoth
  <2>8. Size(code \o told) <= 2
    BY <1>1, <2>3
  <2>9. QED
    BY <2>1, <2>2, <2>5, <2>7, <2>8, Zenon
<1>4. CASE ~truncated
  <2>1. code \o <<>> = code
    BY <1>1, ConcatEmptySeq DEF AnyText
  <2>2. Header(truncated) = code
    BY <1>2, <1>4, <2>1, Zenon
  <2>3. Size(code) <= 2
    BY <1>1
  <2>4. QED
    BY <1>1, <1>4, <2>2, <2>3, Zenon
<1>5. QED
  BY <1>3, <1>4

\* Three texts around the line between the streams.
LEMMA AroundType ==
    ASSUME NEW a \in AnyText, NEW b \in AnyText, NEW c \in AnyText, NEW d \in AnyText
    PROVE  /\ a \o b \o c \o d \in AnyText
           /\ Size(a \o b \o c \o d) = Size(a) + Size(b) + Size(c) + Size(d)
           /\ clean_text(a \o b \o c \o d)
                 = clean_text(a) \o clean_text(b) \o clean_text(c) \o clean_text(d)
           /\ Tells(a) \/ Tells(b) \/ Tells(d) => Tells(a \o b \o c \o d)
<1>1. ASSUME NEW x \in AnyText, NEW y \in AnyText PROVE x \o y \in AnyText
  BY ConcatProperties DEF AnyText
<1>2. a \o b \in AnyText /\ a \o b \o c \in AnyText /\ a \o b \o c \o d \in AnyText
  <2>1. a \o b \in AnyText
    BY <1>1
  <2>2. a \o b \o c \in AnyText
    BY <1>1, <2>1
  <2>3. QED
    BY <1>1, <2>1, <2>2
<1>3. Size(a \o b \o c \o d) = Size(a) + Size(b) + Size(c) + Size(d)
  <2>1. Size(a \o b) = Size(a) + Size(b)
    BY SizeOfBoth
  <2>2. Size(a \o b \o c) = Size(a \o b) + Size(c)
    BY <1>2, SizeOfBoth
  <2>3. Size(a \o b \o c \o d) = Size(a \o b \o c) + Size(d)
    BY <1>2, SizeOfBoth
  <2>4. QED
    BY <2>1, <2>2, <2>3
<1>4. clean_text(a \o b \o c \o d)
         = clean_text(a) \o clean_text(b) \o clean_text(c) \o clean_text(d)
  <2>1. clean_text(a \o b) = clean_text(a) \o clean_text(b)
    BY CleanBoth
  <2>2. clean_text(a \o b \o c) = clean_text(a \o b) \o clean_text(c)
    BY <1>2, CleanBoth
  <2>3. clean_text(a \o b \o c \o d) = clean_text(a \o b \o c) \o clean_text(d)
    BY <1>2, CleanBoth
  <2>4. QED
    BY <2>1, <2>2, <2>3, Zenon
<1>5. ASSUME Tells(a) \/ Tells(b) \/ Tells(d) PROVE Tells(a \o b \o c \o d)
  <2>1. CASE Tells(a) \/ Tells(b)
    <3>1. Tells(a \o b)
      BY <2>1, TellsBoth
    <3>2. Tells(a \o b \o c)
      BY <1>2, <3>1, TellsBoth
    <3>3. QED
      BY <1>2, <3>2, TellsBoth
  <2>2. CASE Tells(d)
    BY <1>2, <2>2, TellsBoth
  <2>3. QED
    BY <1>5, <2>1, <2>2
<1>6. QED
  BY <1>2, <1>3, <1>4, <1>5

\* What the tool makes of a command that ended by itself or was stopped.
LEMMA RenderedTells ==
    ASSUME Captures, ~result.timed_out, ~Unlaunchable(result)
    PROVE  /\ Rendered(result) \in AnyText
           /\ \A cap \in {MaxContent, MaxSummary} :
                 Budget(Size(Rendered(result)), cap) > 0
           /\ clean_text(Rendered(result)) = AllSaid \/ Tells(Rendered(result))
<1> DEFINE head == Header(result.truncated)
           line == <<<<"stderr">>>>
           out  == result.stdout
           err  == result.stderr
           text == head \o out \o line \o err
<1>1. Launched /\ request.tool = "run_command" /\ result.truncated \in BOOLEAN
  BY DEF Captures
<1>2. /\ head \in AnyText /\ Size(head) <= 2 /\ clean_text(head) = head
      /\ result.truncated => Tells(head)
  BY <1>1, HeaderIs
<1>3. line \in AnyText /\ Size(line) = 1 /\ clean_text(line) = line
  BY LineIs
<1>4. /\ out \in AnyText /\ Size(out) <= MaxOutput
      /\ err \in AnyText /\ Size(err) <= MaxOutput
  BY <1>1 DEF Launched
<1>5. Rendered(result) = text
  BY DEF Rendered
<1>6. ~result.truncated => head = Header(FALSE)
  BY <1>1
<1> HIDE DEF head, line, out, err
<1>7. /\ text \in AnyText
      /\ Size(text) = Size(head) + Size(out) + Size(line) + Size(err)
      /\ clean_text(text)
            = clean_text(head) \o clean_text(out) \o clean_text(line) \o clean_text(err)
      /\ Tells(head) \/ Tells(out) \/ Tells(err) => Tells(text)
  BY <1>2, <1>3, <1>4, AroundType
<1> HIDE DEF text
<1>8. Size(text) \in 0 .. 6 * (MaxOutput + 1)
  <2>1. Size(head) \in Nat /\ Size(out) \in Nat /\ Size(err) \in Nat
    BY <1>2, <1>4, SizeType
  <2>2. MaxOutput \in Nat
    BY CallDataAssumption
  <2> DEFINE a == Size(head)
             b == Size(out)
             c == Size(err)
             d == Size(text)
  <2>3. /\ a \in Nat /\ b \in Nat /\ c \in Nat /\ d = a + b + 1 + c
        /\ a <= 2 /\ b <= MaxOutput /\ c <= MaxOutput
    BY <1>2, <1>3, <1>4, <1>7, <2>1
  <2> HIDE DEF a, b, c, d
  <2>4. d \in 0 .. 6 * (MaxOutput + 1)
    BY <2>2, <2>3
  <2>5. QED
    BY <2>4 DEF d
<1>9. \A cap \in {MaxContent, MaxSummary} : Budget(Size(text), cap) > 0
  <2>1. {MaxContent, MaxSummary} \subseteq Caps
    BY DEF Caps
  <2>2. QED
    BY <1>8, <2>1, CapsAre
<1>10. clean_text(text) = AllSaid \/ Tells(text)
  <2>1. CASE result.truncated
    BY <1>2, <1>7, <2>1
  <2>2. CASE ~result.truncated
    <3>1. /\ WholeOrLabelled(out, wrote[1]) /\ WholeOrLabelled(err, wrote[2])
          /\ Decoded(wrote[1]) \in AnyText /\ Decoded(wrote[2]) \in AnyText
      BY <1>1, <2>2 DEF Launched, out, err
    <3>2. CASE HasLabel(out) \/ HasLabel(err)
      BY <1>7, <3>2 DEF Tells
    <3>3. CASE /\ out = clean_text(Decoded(wrote[1]))
               /\ err = clean_text(Decoded(wrote[2]))
      <4>1. clean_text(out) = out /\ clean_text(err) = err
        <5>1. \A said \in AnyText :
                 clean_text(clean_text(said)) = clean_text(said)
          BY CleanTwice
        <5>2. /\ clean_text(clean_text(Decoded(wrote[1])))
                     = clean_text(Decoded(wrote[1]))
              /\ clean_text(clean_text(Decoded(wrote[2])))
                     = clean_text(Decoded(wrote[2]))
          BY <3>1, <5>1
        <5>3. QED
          BY <3>3, <5>2, Zenon
      <4>2. clean_text(text) = head \o out \o line \o err
        BY <1>2, <1>3, <1>7, <4>1, Zenon
      <4>3. AllSaid = Header(FALSE) \o clean_text(Decoded(wrote[1])) \o line
                         \o clean_text(Decoded(wrote[2]))
        <5>1. request.tool # "other"
          BY <1>1
        <5>2. QED
          BY <5>1, Zenon DEF AllSaid, line
      <4>4. clean_text(text) = AllSaid
        BY <1>6, <2>2, <3>3, <4>2, <4>3, Zenon
      <4>5. QED
        BY <4>4
    <3>4. QED
      BY <3>1, <3>2, <3>3 DEF WholeOrLabelled
  <2>3. QED
    BY <2>1, <2>2
<1>11. QED
  BY <1>5, <1>7, <1>9, <1>10, Zenon

(***************************************************************************)
(* The steps.                                                              *)
(***************************************************************************)

LEMMA CallStarts == Init => CallInv
<1> SUFFICES ASSUME Init PROVE CallInv
  OBVIOUS
<1>1. configured \in Nat
  BY CallDataAssumption DEF Init
<1>2. QED
  BY <1>1 DEF Init, CallInv, FitsOrSaysSo, KilledIsTimeout

LEMMA CheckSteps == CallInv /\ CheckSchema => CallInv'
<1> SUFFICES ASSUME CallInv, CheckSchema PROVE CallInv'
  OBVIOUS
<1>1. /\ request' \in Requests /\ configured' \in Nat /\ result' = NoResult
      /\ pc = "check"
  BY DEF CallInv, CheckSchema
<1>2. elapsed' \in Nat
  BY TakesTime DEF CallInv, CheckSchema
<1>3. CASE Finish("refused", "args_invalid", Sentence("args_invalid"))
  <2>1. Sentence("args_invalid") \in AnyText
    <3>1. MaxContent \in Caps
      BY DEF Caps
    <3>2. QED
      BY <3>1, SentenceIs
  <2>2. FitsOrSaysSo'
    BY <1>3, <2>1, FinishFits
  <2>3. pc' = "done" /\ answer'.status = "refused"
    BY <1>3 DEF Finish
  <2>4. ~result'.timed_out
    BY <1>1 DEF NoResult
  <2>5. QED
    BY <1>1, <1>2, <2>2, <2>3, <2>4 DEF CallInv, KilledIsTimeout
<1>4. CASE pc' = "handle"
  BY <1>1, <1>2, <1>4 DEF CallInv, FitsOrSaysSo, KilledIsTimeout
<1>5. QED
  BY <1>3, <1>4 DEF CheckSchema

\* The end of a call whose handler raised.
LEMMA RaisedSteps == CallInv /\ pc = "handle" /\ Raised => CallInv'
<1> SUFFICES ASSUME CallInv, pc = "handle", Raised PROVE CallInv'
  OBVIOUS
<1>1. /\ request' \in Requests /\ configured' \in Nat /\ result' = NoResult
      /\ elapsed \in Nat
  BY DEF CallInv, Raised
<1>2. elapsed' \in Nat
  BY <1>1, TakesTime DEF Raised
<1>3. Finish("failed", "handler_error", Sentence("raised"))
  BY DEF Raised
<1>4. Sentence("raised") \in AnyText
  <2>1. MaxContent \in Caps
    BY DEF Caps
  <2>2. QED
    BY <2>1, SentenceIs
<1>5. FitsOrSaysSo'
  BY <1>3, <1>4, FinishFits
<1>6. pc' = "done" /\ answer'.status = "failed" /\ ~result'.timed_out
  BY <1>1, <1>3 DEF Finish, NoResult
<1>7. QED
  BY <1>1, <1>2, <1>5, <1>6 DEF CallInv, KilledIsTimeout

LEMMA OtherSteps == CallInv /\ OtherHandler => CallInv'
<1> SUFFICES ASSUME CallInv, OtherHandler PROVE CallInv'
  OBVIOUS
<1>1. pc = "handle" /\ request.tool = "other"
      /\ (OtherReturns \/ OtherRefuses \/ Raised)
  BY DEF OtherHandler
<1>2. {MaxContent, MaxSummary} \subseteq Caps
  BY DEF Caps
<1>3. ASSUME OtherReturns \/ OtherRefuses
      PROVE  /\ request' = request /\ request' \in Requests
             /\ configured' \in Nat /\ elapsed' \in Nat /\ pc' = "judge"
             /\ ~result'.timed_out /\ result'.timed_out \in BOOLEAN
  <2>1. /\ request' = request /\ request' \in Requests /\ configured' \in Nat
        /\ pc' = "judge" /\ result' = NoResult /\ Takes(0) /\ elapsed \in Nat
    BY <1>1, <1>3 DEF CallInv, OtherReturns, OtherRefuses
  <2>2. elapsed' \in Nat
    BY <2>1, TakesTime
  <2>3. QED
    BY <2>1, <2>2 DEF NoResult
<1>4. CASE OtherReturns
  <2>1. PICK text \in Texts :
           /\ output' = [status |-> "ok", reason |-> "none", text |-> text]
           /\ wrote' = text
    BY <1>4 DEF OtherReturns
  <2>2. output'.status = "ok" /\ output'.text = text
    BY <2>1
  <2>3. AllSaid' = clean_text(text)
    BY <1>1, <1>3, <1>4, <2>1 DEF AllSaid
  <2>4. /\ text \in AnyText
        /\ \A cap \in {MaxContent, MaxSummary} : Budget(Size(text), cap) > 0
    BY <1>2, CapsAre
  <2>5. Handled'
    BY <1>1, <1>3, <1>4, <2>2, <2>3, <2>4 DEF Handled
  <2>6. QED
    BY <1>3, <1>4, <2>5 DEF CallInv, FitsOrSaysSo, KilledIsTimeout
<1>5. CASE OtherRefuses
  <2>1. PICK status \in {"refused", "failed", "timeout"} :
           output' = [status |-> status, reason |-> "own",
                      text |-> Sentence("own")]
    BY <1>5 DEF OtherRefuses
  <2>2. output'.status # "ok" /\ output'.text = Sentence("own")
    BY <2>1
  <2>3. /\ Sentence("own") \in AnyText
        /\ \A cap \in {MaxContent, MaxSummary} :
              Budget(Size(Sentence("own")), cap) > 0
    BY <1>2, SentenceIs
  <2>4. request'.tool # "run_command"
    BY <1>1, <1>3, <1>5
  <2>5. Handled'
    BY <1>3, <1>5, <2>2, <2>3, <2>4 DEF Handled
  <2>6. QED
    BY <1>3, <1>5, <2>5 DEF CallInv, FitsOrSaysSo, KilledIsTimeout
<1>6. CASE Raised
  BY <1>1, <1>6, RaisedSteps
<1>7. QED
  BY <1>1, <1>4, <1>5, <1>6

LEMMA RefuseSteps == CallInv /\ RefuseArgv => CallInv'
<1> SUFFICES ASSUME CallInv, RefuseArgv PROVE CallInv'
  OBVIOUS
<1>1. /\ request' \in Requests /\ configured' \in Nat /\ pc' = "render"
      /\ request'.tool = "run_command"
  BY DEF CallInv, RefuseArgv
<1>2. elapsed' \in Nat
  BY TakesTime DEF CallInv, RefuseArgv
<1>3. /\ result'.code = 127 /\ result'.stderr = <<<<"refused">>>>
      /\ result'.timed_out = FALSE /\ result'.truncated = FALSE
  BY DEF RefuseArgv
<1>4. Unlaunchable(result')
  BY <1>3 DEF Unlaunchable
<1>5. Captures'
  BY <1>1, <1>3, <1>4 DEF Captures
<1>6. QED
  BY <1>1, <1>2, <1>5 DEF CallInv, FitsOrSaysSo, KilledIsTimeout

\* What the sandbox captured, for whatever was read of the streams.
LEMMA CapturedIs ==
    ASSUME NEW stdout \in Streams, NEW stderr \in Streams,
           Launching(stdout, stderr), NEW code,
           NEW out \in Seq(Bytes), Len(out) <= MaxOutput + 1,
           NEW err \in Seq(Bytes), Len(err) <= MaxOutput + 1,
           NEW timed_out \in BOOLEAN, NEW truncated \in BOOLEAN,
           Captured(code, out, err, timed_out, truncated),
           ~timed_out /\ ~truncated => out = stdout /\ err = stderr
    PROVE  Captures'
<1>1. /\ request'.tool = "run_command"
      /\ wrote'[1] = stdout /\ wrote'[2] = stderr
  BY DEF Launching
<1>2. /\ result'.stdout = decode(out) /\ result'.stderr = decode(err)
      /\ result'.timed_out = timed_out /\ result'.truncated = truncated
  BY DEF Captured
<1>3. /\ decode(out) \in AnyText /\ Size(decode(out)) <= MaxOutput
      /\ decode(out) = clean_text(Decoded(out)) \/ HasLabel(decode(out))
      /\ decode(err) \in AnyText /\ Size(decode(err)) <= MaxOutput
      /\ decode(err) = clean_text(Decoded(err)) \/ HasLabel(decode(err))
  BY DecodeType
<1>4. Decoded(out) \in AnyText /\ Decoded(err) \in AnyText
  BY DecodedType
<1>5. ASSUME ~timed_out, ~truncated
      PROVE  /\ WholeOrLabelled(result'.stdout, wrote'[1])
             /\ WholeOrLabelled(result'.stderr, wrote'[2])
             /\ Decoded(wrote'[1]) \in AnyText /\ Decoded(wrote'[2]) \in AnyText
  BY <1>1, <1>2, <1>3, <1>4, <1>5 DEF WholeOrLabelled
<1>6. Launched'
  BY <1>2, <1>3, <1>5 DEF Launched
<1>7. QED
  BY <1>1, <1>2, <1>6 DEF Captures

LEMMA CommandCaptures ==
    ASSUME NEW stdout \in Streams, NEW stderr \in Streams,
           \/ Finishes(stdout, stderr) \/ Floods(stdout, stderr)
           \/ Expires(stdout, stderr)
    PROVE  Captures'
<1>1. stdout \in Seq(Bytes) /\ stderr \in Seq(Bytes) /\ MaxOutput \in Nat
  BY CallDataAssumption
<1>2. Len(stdout) \in Nat /\ Len(stderr) \in Nat
  BY <1>1, LenProperties
<1>3. CASE Finishes(stdout, stderr)
  <2>1. PICK code \in Codes : Captured(code, stdout, stderr, FALSE, FALSE)
    BY <1>3 DEF Finishes
  <2>2. Len(stdout) <= MaxOutput + 1 /\ Len(stderr) <= MaxOutput + 1
    BY <1>1, <1>2, <1>3 DEF Finishes
  <2>3. Launching(stdout, stderr)
    BY <1>3 DEF Finishes
  <2>4. QED
    BY <1>1, <2>1, <2>2, <2>3, CapturedIs
<1>4. CASE Floods(stdout, stderr)
  <2>1. Launching(stdout, stderr)
    BY <1>4 DEF Floods
  <2>2. PICK code \in Codes :
           \/ /\ Len(stdout) > MaxOutput
              /\ \E part \in Reads(stderr) :
                    Captured(code, SubSeq(stdout, 1, MaxOutput + 1), part,
                             FALSE, TRUE)
           \/ /\ Len(stderr) > MaxOutput
              /\ \E part \in Reads(stdout) :
                    Captured(code, part, SubSeq(stderr, 1, MaxOutput + 1),
                             FALSE, TRUE)
    BY <1>4 DEF Floods
  <2>3. CASE /\ Len(stdout) > MaxOutput
             /\ \E part \in Reads(stderr) :
                   Captured(code, SubSeq(stdout, 1, MaxOutput + 1), part,
                            FALSE, TRUE)
    <3>1. PICK part \in Reads(stderr) :
             Captured(code, SubSeq(stdout, 1, MaxOutput + 1), part, FALSE, TRUE)
      BY <2>3
    <3>2. /\ SubSeq(stdout, 1, MaxOutput + 1) \in Seq(Bytes)
          /\ Len(SubSeq(stdout, 1, MaxOutput + 1)) <= MaxOutput + 1
          /\ part \in Seq(Bytes) /\ Len(part) <= MaxOutput + 1
      BY <1>1, <2>3, PieceOf
    <3>3. QED
      BY <2>1, <3>1, <3>2, CapturedIs
  <2>4. CASE /\ Len(stderr) > MaxOutput
             /\ \E part \in Reads(stdout) :
                   Captured(code, part, SubSeq(stderr, 1, MaxOutput + 1),
                            FALSE, TRUE)
    <3>1. PICK part \in Reads(stdout) :
             Captured(code, part, SubSeq(stderr, 1, MaxOutput + 1), FALSE, TRUE)
      BY <2>4
    <3>2. /\ SubSeq(stderr, 1, MaxOutput + 1) \in Seq(Bytes)
          /\ Len(SubSeq(stderr, 1, MaxOutput + 1)) <= MaxOutput + 1
          /\ part \in Seq(Bytes) /\ Len(part) <= MaxOutput + 1
      BY <1>1, <2>4, PieceOf
    <3>3. QED
      BY <2>1, <3>1, <3>2, CapturedIs
  <2>5. QED
    BY <2>2, <2>3, <2>4
<1>5. CASE Expires(stdout, stderr)
  <2>1. PICK code \in Codes, out \in Reads(stdout), err \in Reads(stderr) :
           Captured(code, out, err, TRUE, FALSE)
    BY <1>5 DEF Expires
  <2>2. /\ out \in Seq(Bytes) /\ Len(out) <= MaxOutput + 1
        /\ err \in Seq(Bytes) /\ Len(err) <= MaxOutput + 1
    BY <1>1, PieceOf
  <2>3. Launching(stdout, stderr)
    BY <1>5 DEF Expires
  <2>4. QED
    BY <2>1, <2>2, <2>3, CapturedIs
<1>6. QED
  BY <1>3, <1>4, <1>5

LEMMA CommandSteps ==
    ASSUME CallInv, NEW stdout \in Streams, NEW stderr \in Streams,
           \/ Finishes(stdout, stderr) \/ Floods(stdout, stderr)
           \/ Expires(stdout, stderr)
    PROVE  CallInv'
<1>1. Launching(stdout, stderr)
  BY DEF Finishes, Floods, Expires
<1>2. request' \in Requests /\ configured' \in Nat /\ pc' = "render"
  BY <1>1 DEF CallInv, Launching
<1>3. elapsed' \in Nat
  <2>1. elapsed \in Nat /\ CommandLimit \in Nat
    BY LimitIs DEF CallInv
  <2>2. \/ \E took \in 0 .. CommandLimit : Takes(took)
        \/ Takes(CommandLimit)
    BY DEF Finishes, Floods, Expires
  <2>3. QED
    BY <2>1, <2>2, TakesTime
<1>4. Captures'
  BY CommandCaptures
<1>5. QED
  BY <1>2, <1>3, <1>4 DEF CallInv, FitsOrSaysSo, KilledIsTimeout

LEMMA RenderSteps == CallInv /\ Render => CallInv'
<1> SUFFICES ASSUME CallInv, Render PROVE CallInv'
  OBVIOUS
<1>1. /\ request' \in Requests /\ configured' \in Nat /\ elapsed' \in Nat
      /\ pc' = "judge" /\ Captures /\ UNCHANGED <<request, result, wrote>>
  BY DEF CallInv, Render
<1>2. AllSaid' = AllSaid
  BY <1>1 DEF AllSaid
<1>3. {MaxContent, MaxSummary} \subseteq Caps
  BY DEF Caps
<1>4. /\ result.timed_out \in BOOLEAN /\ result'.timed_out = result.timed_out
      /\ request'.tool = "run_command"
  BY <1>1 DEF Captures
<1>5. CASE result.timed_out
  <2>1. output'.status = "timeout" /\ output'.text = Sentence("killed")
    BY <1>5 DEF Render, TimedOut
  <2>2. /\ Sentence("killed") \in AnyText
        /\ \A cap \in {MaxContent, MaxSummary} :
              Budget(Size(Sentence("killed")), cap) > 0
    BY <1>3, SentenceIs
  <2>3. Handled'
    BY <1>4, <1>5, <2>1, <2>2 DEF Handled
  <2>4. QED
    BY <1>1, <2>3 DEF CallInv, FitsOrSaysSo, KilledIsTimeout
<1>6. CASE ~result.timed_out /\ Unlaunchable(result)
  <2>1. output'.status = "refused" /\ output'.text = Sentence("argv")
    BY <1>6 DEF Render, TimedOut
  <2>2. /\ Sentence("argv") \in AnyText
        /\ \A cap \in {MaxContent, MaxSummary} :
              Budget(Size(Sentence("argv")), cap) > 0
    BY <1>3, SentenceIs
  <2>3. Handled'
    BY <1>4, <1>6, <2>1, <2>2 DEF Handled
  <2>4. QED
    BY <1>1, <2>3 DEF CallInv, FitsOrSaysSo, KilledIsTimeout
<1>7. CASE ~result.timed_out /\ ~Unlaunchable(result)
  <2>1. output'.status = "ok" /\ output'.text = Rendered(result)
    BY <1>7 DEF Render, TimedOut
  <2>2. /\ Rendered(result) \in AnyText
        /\ \A cap \in {MaxContent, MaxSummary} :
              Budget(Size(Rendered(result)), cap) > 0
        /\ clean_text(Rendered(result)) = AllSaid \/ Tells(Rendered(result))
    BY <1>1, <1>7, RenderedTells
  <2>3. Handled'
    BY <1>2, <1>4, <1>7, <2>1, <2>2 DEF Handled
  <2>4. QED
    BY <1>1, <2>3 DEF CallInv, FitsOrSaysSo, KilledIsTimeout
<1>8. QED
  BY <1>5, <1>6, <1>7

LEMMA JudgeSteps == CallInv /\ Judge => CallInv'
<1> SUFFICES ASSUME CallInv, Judge PROVE CallInv'
  OBVIOUS
<1>1. /\ request' \in Requests /\ configured' \in Nat /\ elapsed' \in Nat
      /\ Handled /\ UNCHANGED <<request, configured, elapsed, result, wrote>>
  BY DEF CallInv, Judge
<1>2. CallLimit \in Nat /\ CallLimit' = CallLimit /\ elapsed \in Nat
  BY <1>1, LimitIs DEF CallLimit, CallInv
<1>3. MaxContent \in Caps
  BY DEF Caps
<1>4. /\ output.text \in AnyText /\ result.timed_out \in BOOLEAN
      /\ result.timed_out =>
            output.status = "timeout" /\ output.text = Sentence("killed")
      /\ request.tool = "run_command" /\ output.status = "timeout"
            => result.timed_out
  BY <1>1 DEF Handled
<1>5. ASSUME NEW reason \in {"killed", "late"}, NEW why,
             Finish("timeout", why, Sentence(reason))
      PROVE  /\ pc' = "done" /\ answer'.status = "timeout"
             /\ record'.status = "timeout"
             /\ {answer'.text, record'.text}
                   \subseteq {Sentence("killed"), Sentence("late")}
  <2>1. /\ truncate_text(Sentence(reason), MaxContent) = Sentence(reason)
        /\ truncate_text(Sentence(reason), MaxSummary) = Sentence(reason)
    BY SentenceStays DEF Caps
  <2>2. /\ answer'.text = truncate_text(Sentence(reason), MaxContent)
        /\ record'.text = truncate_text(Sentence(reason), MaxSummary)
        /\ answer'.status = "timeout" /\ record'.status = "timeout"
        /\ pc' = "done"
    BY <1>5 DEF Finish
  <2>3. Sentence(reason) \in {Sentence("killed"), Sentence("late")}
    BY Zenon
  <2>4. QED
    BY <2>1, <2>2, <2>3
<1>6. CASE elapsed > CallLimit /\ Finish("timeout", "timeout", Sentence("late"))
  <2>1. FitsOrSaysSo'
    BY <1>3, <1>6, SentenceIs, FinishFits
  <2>2. /\ pc' = "done" /\ answer'.status = "timeout"
        /\ record'.status = "timeout"
        /\ {answer'.text, record'.text}
              \subseteq {Sentence("killed"), Sentence("late")}
    BY <1>5, <1>6
  <2>3. KilledIsTimeout'
    BY <1>1, <1>2, <1>6, <2>2 DEF KilledIsTimeout
  <2>4. QED
    BY <1>1, <2>1, <2>2, <2>3 DEF CallInv
<1>7. CASE /\ elapsed <= CallLimit
           /\ Finish(output.status, output.reason, output.text)
  <2>1. pc' = "done" /\ answer'.status = output.status
    BY <1>7 DEF Finish
  <2>2. FitsOrSaysSo'
    <3>1. CASE output.status = "ok"
      BY <1>1, <1>7, <3>1, SuccessFits
    <3>2. CASE output.status # "ok"
      BY <1>4, <1>7, <3>2, FinishFits
    <3>3. QED
      BY <3>1, <3>2
  <2>3. ASSUME result.timed_out
        PROVE  /\ answer'.status = "timeout" /\ record'.status = "timeout"
               /\ {answer'.text, record'.text}
                     \subseteq {Sentence("killed"), Sentence("late")}
    <3>1. Finish("timeout", output.reason, Sentence("killed"))
      BY <1>4, <1>7, <2>3, Zenon
    <3>2. QED
      BY <1>5, <3>1
  <2>4. KilledIsTimeout'
    BY <1>1, <1>4, <2>1, <2>3 DEF KilledIsTimeout
  <2>5. QED
    BY <1>1, <2>1, <2>2, <2>4 DEF CallInv
<1>8. QED
  BY <1>6, <1>7 DEF Judge

LEMMA CallStays == CallInv /\ [Next]_vars => CallInv'
<1> SUFFICES ASSUME CallInv, [Next]_vars PROVE CallInv'
  OBVIOUS
<1>1. CASE CheckSchema
  BY <1>1, CheckSteps
<1>2. CASE OtherHandler
  BY <1>2, OtherSteps
<1>3. CASE run_isolated
  <2>0. CASE CannotRun
    BY <2>0, RaisedSteps DEF CannotRun
  <2>1. CASE RefuseArgv
    BY <2>1, RefuseSteps
  <2>2. CASE \E stdout, stderr \in Streams :
                \/ Finishes(stdout, stderr) \/ Floods(stdout, stderr)
                \/ Expires(stdout, stderr)
    BY <2>2, CommandSteps
  <2>3. QED
    BY <1>3, <2>0, <2>1, <2>2 DEF run_isolated
<1>4. CASE Render
  BY <1>4, RenderSteps
<1>5. CASE Judge
  BY <1>5, JudgeSteps
<1>6. CASE UNCHANGED vars
  BY <1>6 DEF vars, CallInv, Captures, Launched, Handled, AllSaid, CallLimit,
              FitsOrSaysSo, KilledIsTimeout
<1>7. QED
  BY <1>1, <1>2, <1>3, <1>4, <1>5, <1>6 DEF Next

LEMMA CallKnown == Spec => []CallInv
<1>1. Init => CallInv
  BY CallStarts
<1>2. CallInv /\ [Next]_vars => CallInv'
  BY CallStays
<1>3. QED
  BY <1>1, <1>2, PTL DEF Spec

\* FitsOrSaysSo, for any streams, texts and caps of the sizes the components ask
\* for: what a call gives to the model and to the record fits, and what of the
\* handler's text is missing is told, however many of the cuts on the way fell.
THEOREM CutTextsSaySo == Spec => []FitsOrSaysSo
<1>1. CallInv => FitsOrSaysSo
  BY DEF CallInv
<1>2. QED
  BY <1>1, CallKnown, PTL

\* KilledIsTimeout, for any limits, delays and exit codes: what the launcher killed
\* for its time is told as a timeout, by the tool or by the executor before it, with
\* none of its output, and no other command is unless it was late.
THEOREM KilledCommandsTimeOut == Spec => []KilledIsTimeout
<1>1. CallInv => KilledIsTimeout
  BY DEF CallInv
<1>2. QED
  BY <1>1, CallKnown, PTL

(***************************************************************************)
(* What a value of the arguments comes to: the values in it, itself among  *)
(* them, down to a height, below which anything is too many.               *)
(***************************************************************************)

TooDeep(args) == [n \in DOMAIN args |-> MaxArgsNodes + 1]

WeighStep(args) ==
    [x \in Nat \X [DOMAIN args -> Nat] |->
        [n \in DOMAIN args |-> 1 + Total(x[2], args[n])]]

Weights(args) ==
    CHOOSE w \in [Nat -> [DOMAIN args -> Nat]] :
        StepsOverNat(TooDeep(args), WeighStep(args), w)

LEMMA ArgumentLimits ==
    /\ MaxArgsDepth \in Nat /\ MaxArgsNodes \in Nat
    /\ MaxSanitizeDepth \in Nat /\ MaxSanitizeNodes \in Nat
    /\ MaxArgsDepth <= MaxSanitizeDepth /\ MaxArgsNodes <= MaxSanitizeNodes
  BY ArgumentsAssumption

LEMMA WeightsAre ==
    ASSUME NEW args, IsArguments(args)
    PROVE  /\ \A h \in Nat : Counts(DOMAIN args, Weights(args)[h])
           /\ \A n \in DOMAIN args : Weights(args)[0][n] = MaxArgsNodes + 1
           /\ \A h \in Nat, n \in DOMAIN args :
                 /\ Weights(args)[h + 1][n] = 1 + Total(Weights(args)[h], args[n])
                 /\ Weights(args)[h][n] \in Nat \ {0}
<1> DEFINE N    == DOMAIN args
           S    == [N -> Nat]
           base == TooDeep(args)
           step == WeighStep(args)
           w    == Weights(args)
<1>1. base \in S
  BY ArgumentLimits DEF TooDeep
<1>2. \A n \in N : args[n] \in Seq(N)
  BY DEF IsArguments
<1>3. ASSUME NEW v \in S, NEW n \in N PROVE Total(v, args[n]) \in Nat
  <2>1. Counts(N, v)
    BY DEF Counts
  <2>2. QED
    BY <1>2, <2>1, SumType
<1>4. ASSUME NEW h \in Nat, NEW v \in S
      PROVE  /\ step[<<h, v>>] \in S
             /\ step[<<h, v>>] = [n \in N |-> 1 + Total(v, args[n])]
  <2>1. <<h, v>> \in Nat \X S /\ <<h, v>>[2] = v
    OBVIOUS
  <2>2. step[<<h, v>>] = [n \in N |-> 1 + Total(v, args[n])]
    BY <2>1 DEF WeighStep
  <2>3. \A n \in N : 1 + Total(v, args[n]) \in Nat
    BY <1>3
  <2>4. QED
    BY <2>2, <2>3
<1>5. step \in [Nat \X S -> S]
  <2>1. step = [x \in Nat \X S |-> [n \in N |-> 1 + Total(x[2], args[n])]]
    BY DEF WeighStep
  <2>2. ASSUME NEW x \in Nat \X S
        PROVE  [n \in N |-> 1 + Total(x[2], args[n])] \in S
    <3>1. x[2] \in S
      OBVIOUS
    <3>2. \A n \in N : 1 + Total(x[2], args[n]) \in Nat
      BY <1>3, <3>1
    <3>3. QED
      BY <3>2
  <2> HIDE DEF step, S
  <2>3. QED
    BY <2>1, <2>2
<1> HIDE DEF base, step
<1>6. \E f \in [Nat -> S] : StepsOverNat(base, step, f)
  BY <1>1, <1>5, RecursionOverNat
<1>7. w \in [Nat -> S] /\ StepsOverNat(base, step, w)
  BY <1>6, Zenon DEF Weights, base, step
<1> HIDE DEF w
<1>8. w[0] = base /\ \A h \in Nat : w[h + 1] = step[<<h + 1, w[h]>>]
  <2>1. 0 \in Nat /\ \A h \in Nat : h + 1 \in Nat /\ h + 1 # 0 /\ (h + 1) - 1 = h
    OBVIOUS
  <2>2. QED
    BY <1>7, <2>1 DEF StepsOverNat
<1>9. ASSUME NEW h \in Nat, NEW n \in N
      PROVE  /\ w[h + 1][n] = 1 + Total(w[h], args[n])
             /\ w[h + 1][n] \in Nat \ {0}
  <2>1. w[h] \in S /\ h + 1 \in Nat
    BY <1>7
  <2>2. w[h + 1] = [k \in N |-> 1 + Total(w[h], args[k])]
    BY <1>4, <1>8, <2>1
  <2>3. Total(w[h], args[n]) \in Nat
    BY <1>3, <2>1
  <2>4. QED
    BY <2>2, <2>3
<1>10. \A n \in N : w[0][n] = MaxArgsNodes + 1
  BY <1>8 DEF base, TooDeep
<1>11. ASSUME NEW h \in Nat, NEW n \in N PROVE w[h][n] \in Nat \ {0}
  <2>1. CASE h = 0
    BY <1>10, <2>1, ArgumentLimits
  <2>2. CASE h # 0
    <3>1. h - 1 \in Nat /\ (h - 1) + 1 = h
      BY <2>2
    <3>2. w[(h - 1) + 1][n] \in Nat \ {0}
      BY <1>9, <3>1
    <3>3. QED
      BY <3>1, <3>2
  <2>3. QED
    BY <2>1, <2>2
<1>12. \A h \in Nat : Counts(N, w[h])
  BY <1>7 DEF Counts
<1>13. QED
  BY <1>9, <1>10, <1>11, <1>12 DEF w

\* A value that is not too much for its height comes to the same for a greater one.
LEMMA WeightsSettle ==
    ASSUME NEW args, IsArguments(args), NEW m \in Nat
    PROVE  \A h \in 0 .. m, n \in DOMAIN args :
              Weights(args)[h][n] <= MaxArgsNodes
                 => Weights(args)[h + 1][n] = Weights(args)[h][n]
<1> DEFINE N == DOMAIN args
           w == Weights(args)
           U == {h \in 0 .. m : \A n \in N :
                    w[h][n] <= MaxArgsNodes => w[h + 1][n] = w[h][n]}
<1>1. /\ \A h \in Nat : Counts(N, w[h])
      /\ \A n \in N : w[0][n] = MaxArgsNodes + 1
      /\ \A h \in Nat, n \in N :
            w[h + 1][n] = 1 + Total(w[h], args[n]) /\ w[h][n] \in Nat \ {0}
  BY WeightsAre
<1>2. \A n \in N : args[n] \in Seq(N)
  BY DEF IsArguments
<1> HIDE DEF w
<1>3. 0 \in U
  BY <1>1, ArgumentLimits
<1>4. ASSUME NEW h \in 0 .. m, h \in U, h # m PROVE h + 1 \in U
  <2>1. h \in Nat /\ h + 1 \in Nat /\ h + 1 \in 0 .. m
    BY <1>4
  <2>2. ASSUME NEW n \in N, w[h + 1][n] <= MaxArgsNodes
        PROVE  w[(h + 1) + 1][n] = w[h + 1][n]
    <3>1. /\ w[h + 1][n] = 1 + Total(w[h], args[n])
          /\ w[(h + 1) + 1][n] = 1 + Total(w[h + 1], args[n])
      BY <1>1, <2>1
    <3>2. args[n] \in Seq(N) /\ Counts(N, w[h]) /\ Counts(N, w[h + 1])
      BY <1>1, <1>2, <2>1
    <3>3. \A i \in 1 .. Len(args[n]) : w[h + 1][args[n][i]] = w[h][args[n][i]]
      <4>1. ASSUME NEW i \in 1 .. Len(args[n])
            PROVE  w[h + 1][args[n][i]] = w[h][args[n][i]]
        <5>1. args[n][i] \in N
          BY <3>2, ElementOfSeq
        <5>2. w[h][args[n][i]] <= Total(w[h], args[n])
          BY <3>2, SumAtLeast
        <5>3. Total(w[h], args[n]) \in Nat
          BY <3>2, SumType
        <5>4. w[h][args[n][i]] \in Nat
          BY <1>1, <2>1, <5>1
        <5>5. w[h][args[n][i]] <= MaxArgsNodes
          BY <2>2, <3>1, <5>2, <5>3, <5>4, ArgumentLimits
        <5>6. QED
          BY <1>4, <5>1, <5>5
      <4>2. QED
        BY <4>1
    <3>4. Total(w[h + 1], args[n]) = Total(w[h], args[n])
      <4> DEFINE s == args[n]
                 u == w[h + 1]
                 v == w[h]
      <4>1. Total(u, s) = Totals(v, s)[Len(s)]
        <5>1. /\ s \in Seq(N) /\ Counts(N, u) /\ Counts(N, v)
              /\ \A i \in 1 .. Len(s) : u[s[i]] = v[s[i]]
          BY <3>2, <3>3
        <5>2. Len(s) <= Len(s)
          BY <3>2, LenProperties
        <5> HIDE DEF s, u, v, N
        <5>3. QED
          BY <5>1, <5>2, SameSum
      <4>2. QED
        BY <4>1 DEF Total
    <3>5. QED
      BY <3>1, <3>4
  <2>3. QED
    BY <2>1, <2>2
<1> HIDE DEF U
<1>5. 0 .. m \subseteq U
  BY <1>3, <1>4, StepByStep
<1>6. QED
  BY <1>5 DEF U, w

LEMMA WeightsStay ==
    ASSUME NEW args, IsArguments(args), NEW n \in DOMAIN args,
           NEW h \in Nat, NEW m \in Nat, Weights(args)[h][n] <= MaxArgsNodes
    PROVE  Weights(args)[h + m][n] = Weights(args)[h][n]
<1> DEFINE w == Weights(args)
           U == {k \in 0 .. m : w[h + k][n] = w[h][n]}
<1>1. \A k \in 0 .. h + m :
         w[k][n] <= MaxArgsNodes => w[k + 1][n] = w[k][n]
  <2>1. h + m \in Nat
    OBVIOUS
  <2>2. QED
    BY <2>1, WeightsSettle
<1> HIDE DEF w
<1>2. 0 \in U
  OBVIOUS
<1>3. ASSUME NEW k \in 0 .. m, k \in U, k # m PROVE k + 1 \in U
  <2>1. h + k \in 0 .. h + m /\ k + 1 \in 0 .. m /\ h + (k + 1) = (h + k) + 1
    BY <1>3
  <2>2. w[h + k][n] = w[h][n] /\ w[h][n] <= MaxArgsNodes
    BY <1>3 DEF w
  <2>3. w[(h + k) + 1][n] = w[h][n]
    BY <1>1, <2>1, <2>2
  <2>4. QED
    BY <2>1, <2>3
<1> HIDE DEF U
<1>4. 0 .. m \subseteq U
  BY <1>2, <1>3, StepByStep
<1>5. m \in U
  BY <1>4
<1>6. QED
  BY <1>5 DEF U, w

(***************************************************************************)
(* The measuring of the arguments.                                         *)
(***************************************************************************)

\* What may be on the stack, and what it comes to where it is.
Placed(args) == (DOMAIN args) \X (0 .. MaxArgsDepth + 1)

PlacedWeight(args) ==
    [e \in Placed(args) |-> Weights(args)[MaxArgsDepth + 1 - e[2]][e[1]]]

WeightAt(args, node, depth) == Weights(args)[MaxArgsDepth + 1 - depth][node]

\* What holds of a value at its depth.
LEMMA WeightAtIs ==
    ASSUME NEW args, IsArguments(args), NEW node \in DOMAIN args,
           NEW depth \in 0 .. MaxArgsDepth + 1
    PROVE  /\ WeightAt(args, node, depth) \in Nat \ {0}
           /\ depth = MaxArgsDepth + 1 =>
                 WeightAt(args, node, depth) = MaxArgsNodes + 1
           /\ depth <= MaxArgsDepth =>
                 /\ depth + 1 \in 0 .. MaxArgsDepth + 1
                 /\ MaxArgsDepth + 1 - (depth + 1) \in Nat
                 /\ WeightAt(args, node, depth)
                       = 1 + Total(Weights(args)[MaxArgsDepth + 1 - (depth + 1)],
                                   args[node])
<1> DEFINE h == MaxArgsDepth + 1 - depth
           w == Weights(args)
<1>1. /\ \A n \in DOMAIN args : w[0][n] = MaxArgsNodes + 1
      /\ \A k \in Nat, n \in DOMAIN args :
            w[k + 1][n] = 1 + Total(w[k], args[n]) /\ w[k][n] \in Nat \ {0}
  BY WeightsAre
<1> HIDE DEF w
<1>2. h \in Nat /\ (depth = MaxArgsDepth + 1 => h = 0)
  BY ArgumentLimits
<1>3. ASSUME depth <= MaxArgsDepth
      PROVE  /\ depth + 1 \in 0 .. MaxArgsDepth + 1
             /\ MaxArgsDepth + 1 - (depth + 1) \in Nat
             /\ (MaxArgsDepth + 1 - (depth + 1)) + 1 = h
  BY <1>3, ArgumentLimits
<1>4. ASSUME depth <= MaxArgsDepth
      PROVE  w[h][node] = 1 + Total(w[MaxArgsDepth + 1 - (depth + 1)], args[node])
  BY <1>1, <1>3, <1>4
<1> HIDE DEF h
<1>5. QED
  BY <1>1, <1>2, <1>3, <1>4 DEF WeightAt, w, h

LEMMA PlacedIs ==
    ASSUME NEW args, IsArguments(args)
    PROVE  /\ Counts(Placed(args), PlacedWeight(args))
           /\ \A e \in Placed(args) :
                 /\ e[1] \in DOMAIN args /\ e[2] \in 0 .. MaxArgsDepth + 1
                 /\ PlacedWeight(args)[e] = WeightAt(args, e[1], e[2])
<1>1. \A e \in Placed(args) :
         e[1] \in DOMAIN args /\ e[2] \in 0 .. MaxArgsDepth + 1
  BY DEF Placed
<1>2. \A e \in Placed(args) : WeightAt(args, e[1], e[2]) \in Nat
  BY <1>1, WeightAtIs
<1>3. PlacedWeight(args) = [e \in Placed(args) |-> WeightAt(args, e[1], e[2])]
  BY DEF PlacedWeight, WeightAt
<1>4. QED
  BY <1>1, <1>2, <1>3 DEF Counts

HeldAt(args, node, depth) ==
    [i \in DOMAIN args[node] |-> <<args[node][i], depth + 1>>]

\* A value comes to one more than what it holds.
LEMMA HeldIs ==
    ASSUME NEW args, IsArguments(args), NEW node \in DOMAIN args,
           NEW depth \in 0 .. MaxArgsDepth
    PROVE  /\ HeldAt(args, node, depth) \in Seq(Placed(args))
           /\ WeightAt(args, node, depth)
                 = 1 + Total(PlacedWeight(args), HeldAt(args, node, depth))
<1> DEFINE s == args[node]
           t == HeldAt(args, node, depth)
           v == Weights(args)[MaxArgsDepth + 1 - (depth + 1)]
           w == PlacedWeight(args)
<1>1. s \in Seq(DOMAIN args)
  BY DEF IsArguments
<1>2. /\ Len(s) \in Nat /\ DOMAIN s = 1 .. Len(s)
      /\ \A i \in 1 .. Len(s) : s[i] \in DOMAIN args
  BY <1>1, LenProperties, ElementOfSeq
<1>3. /\ depth + 1 \in 0 .. MaxArgsDepth + 1
      /\ MaxArgsDepth + 1 - (depth + 1) \in Nat
      /\ WeightAt(args, node, depth) = 1 + Total(v, s)
  BY WeightAtIs, ArgumentLimits
<1>4. t = [i \in 1 .. Len(s) |-> <<s[i], depth + 1>>]
  BY <1>2 DEF HeldAt
<1>5. /\ t \in Seq(Placed(args)) /\ Len(t) = Len(s)
      /\ \A i \in 1 .. Len(s) : t[i] = <<s[i], depth + 1>>
  <2>1. \A i \in 1 .. Len(s) : <<s[i], depth + 1>> \in Placed(args)
    BY <1>2, <1>3 DEF Placed
  <2> HIDE DEF s, t
  <2>2. t \in [1 .. Len(s) -> Placed(args)]
    BY <1>4, <2>1
  <2>3. t \in Seq(Placed(args)) /\ Len(t) = Len(s)
    BY <1>2, <2>2
  <2>4. QED
    BY <1>4, <2>3
<1>6. ASSUME NEW i \in 1 .. Len(s) PROVE v[s[i]] = w[t[i]]
  <2>1. t[i] \in Placed(args) /\ t[i] = <<s[i], depth + 1>>
    BY <1>5, ElementOfSeq
  <2>2. w[t[i]] = WeightAt(args, t[i][1], t[i][2])
    BY <2>1, PlacedIs
  <2>3. t[i][1] = s[i] /\ t[i][2] = depth + 1
    BY <2>1
  <2>4. w[t[i]] = WeightAt(args, s[i], depth + 1)
    BY <2>2, <2>3
  <2>5. QED
    BY <2>4 DEF WeightAt
<1>7. Counts(DOMAIN args, v) /\ Counts(Placed(args), w)
  BY <1>3, WeightsAre, PlacedIs
<1> HIDE DEF s, t, v, w
<1>8. Total(v, s) = Totals(w, t)[Len(s)]
  <2>1. Len(s) <= Len(t) /\ \A i \in 1 .. Len(s) : v[s[i]] = w[t[i]]
    BY <1>2, <1>5, <1>6
  <2>2. QED
    BY <1>1, <1>5, <1>7, <2>1, SameSum
<1>9. Total(v, s) = Total(w, t)
  BY <1>5, <1>8 DEF Total
<1>10. QED
  BY <1>3, <1>5, <1>9 DEF t, w

Shapes(args) ==
    [stack : Seq(Placed(args)), nodes : Nat, wrong : {"none", "too_many", "too_deep"}]

\* The turns of the loop.
LEMMA ShapeStepIs ==
    ASSUME NEW args, IsArguments(args), ~HoldsSet(args),
           NEW walk \in Shapes(args)
    PROVE  /\ ShapeStep(args, walk) \in Shapes(args)
           /\ walk.stack = <<>> \/ walk.wrong # "none" =>
                 ShapeStep(args, walk) = walk
           /\ walk.stack # <<>> /\ walk.wrong = "none" =>
                 \/ ShapeStep(args, walk).wrong # "none"
                 \/ /\ ShapeStep(args, walk).wrong = "none"
                    /\ ShapeStep(args, walk).nodes = walk.nodes + 1
                    /\ walk.nodes + 1 <= MaxArgsNodes
                    /\ Total(PlacedWeight(args), ShapeStep(args, walk).stack) + 1
                          = Total(PlacedWeight(args), walk.stack)
<1> DEFINE stack == walk.stack
           node  == Last(stack)[1]
           depth == Last(stack)[2]
           held  == HeldAt(args, node, depth)
           next  == ShapeStep(args, walk)
           w     == PlacedWeight(args)
<1>1. stack \in Seq(Placed(args)) /\ walk.nodes \in Nat
      /\ walk.wrong \in {"none", "too_many", "too_deep"}
  BY DEF Shapes
<1>2. walk.stack = <<>> \/ walk.wrong # "none" => next = walk
  BY Zenon DEF ShapeStep
<1>3. ASSUME stack # <<>>, walk.wrong = "none"
      PROVE  /\ next \in Shapes(args)
             /\ \/ next.wrong # "none"
                \/ /\ next.wrong = "none"
                   /\ next.nodes = walk.nodes + 1
                   /\ walk.nodes + 1 <= MaxArgsNodes
                   /\ Total(w, next.stack) + 1 = Total(w, stack)
  <2>0. Counts(Placed(args), w)
    BY PlacedIs
  <2>1. /\ Front(stack) \in Seq(Placed(args)) /\ Last(stack) \in Placed(args)
        /\ Total(w, stack) = Total(w, Front(stack)) + w[Last(stack)]
    BY <1>1, <1>3, <2>0, SumOfFront
  <2>2. /\ node \in DOMAIN args /\ depth \in 0 .. MaxArgsDepth + 1
        /\ w[Last(stack)] = WeightAt(args, node, depth)
    BY <2>1, PlacedIs
  <2>3. /\ TooMany(walk.nodes + 1) =>
              next = [stack |-> stack, nodes |-> walk.nodes + 1, wrong |-> "too_many"]
        /\ ~TooMany(walk.nodes + 1) /\ depth > MaxArgsDepth =>
              next = [stack |-> stack, nodes |-> walk.nodes + 1, wrong |-> "too_deep"]
        /\ ~TooMany(walk.nodes + 1) /\ ~(depth > MaxArgsDepth) =>
              next = [stack |-> Front(stack) \o held, nodes |-> walk.nodes + 1,
                      wrong |-> "none"]
    <3> DEFINE pushed == IF KindOf(node) = "set" THEN <<>> ELSE held
    <3>1. ~(walk.stack = <<>> \/ walk.wrong # "none")
      BY <1>3
    <3>2. /\ TooMany(walk.nodes + 1) =>
                next = [stack |-> stack, nodes |-> walk.nodes + 1,
                        wrong |-> "too_many"]
          /\ ~TooMany(walk.nodes + 1) /\ depth > MaxArgsDepth =>
                next = [stack |-> stack, nodes |-> walk.nodes + 1,
                        wrong |-> "too_deep"]
          /\ ~TooMany(walk.nodes + 1) /\ ~(depth > MaxArgsDepth) =>
                next = [stack |-> Front(stack) \o pushed,
                        nodes |-> walk.nodes + 1, wrong |-> "none"]
      BY <3>1, Zenon DEF ShapeStep, HeldAt
    <3>3. KindOf(node) # "set"
      BY <2>2 DEF HoldsSet
    <3>4. pushed = held
      BY <3>3, Zenon
    <3> HIDE DEF pushed, held, next, node, depth, stack
    <3>5. QED
      BY <3>2, <3>4, Zenon
  <2> HIDE DEF next, held, node, depth, stack
  <2>4. CASE TooMany(walk.nodes + 1)
    <3>1. next = [stack |-> stack, nodes |-> walk.nodes + 1, wrong |-> "too_many"]
      BY <2>3, <2>4
    <3>2. next.wrong = "too_many"
      BY <3>1
    <3>3. next \in Shapes(args)
      BY <1>1, <3>1 DEF Shapes
    <3>4. QED
      BY <3>2, <3>3
  <2>5. CASE ~TooMany(walk.nodes + 1) /\ depth > MaxArgsDepth
    <3>1. next = [stack |-> stack, nodes |-> walk.nodes + 1, wrong |-> "too_deep"]
      BY <2>3, <2>5
    <3>2. next.wrong = "too_deep"
      BY <3>1
    <3>3. next \in Shapes(args)
      BY <1>1, <3>1 DEF Shapes
    <3>4. QED
      BY <3>2, <3>3
  <2>6. CASE ~TooMany(walk.nodes + 1) /\ ~(depth > MaxArgsDepth)
    <3>1. next = [stack |-> Front(stack) \o held, nodes |-> walk.nodes + 1,
                  wrong |-> "none"]
      BY <2>3, <2>6
    <3>2. depth \in 0 .. MaxArgsDepth
      BY <2>2, <2>6, ArgumentLimits
    <3>3. /\ held \in Seq(Placed(args))
          /\ WeightAt(args, node, depth) = 1 + Total(w, held)
      BY <2>2, <3>2, HeldIs DEF held
    <3> HIDE DEF w
    <3>4. Front(stack) \o held \in Seq(Placed(args))
      BY <2>1, <3>3, ConcatProperties
    <3>5. Total(w, Front(stack) \o held) = Total(w, Front(stack)) + Total(w, held)
      BY <2>0, <2>1, <3>3, SumOfBoth
    <3>6. /\ next.wrong = "none" /\ next.nodes = walk.nodes + 1
          /\ next.stack = Front(stack) \o held
      BY <3>1
    <3>7. next \in Shapes(args)
      BY <1>1, <3>1, <3>4 DEF Shapes
    <3>8. walk.nodes + 1 <= MaxArgsNodes
      BY <1>1, <2>6, ArgumentLimits DEF TooMany
    <3>9. Total(w, Front(stack)) \in Nat /\ Total(w, held) \in Nat
      BY <2>0, <2>1, <3>3, SumType
    <3>10. Total(w, next.stack) + 1 = Total(w, stack)
      <4> DEFINE a == Total(w, Front(stack))
                 b == Total(w, held)
                 c == Total(w, next.stack)
                 d == Total(w, stack)
      <4>1. a \in Nat /\ b \in Nat
        BY <3>9
      <4>2. d = a + (1 + b)
        BY <2>1, <2>2, <3>3
      <4>3. c = a + b
        BY <3>5, <3>6
      <4> HIDE DEF a, b, c, d
      <4>4. c + 1 = d
        BY <4>1, <4>2, <4>3
      <4>5. QED
        BY <4>4 DEF c, d
    <3>11. QED
      BY <3>6, <3>7, <3>8, <3>10
  <2>7. QED
    BY <2>4, <2>5, <2>6 DEF stack
<1>4. CASE stack = <<>> \/ walk.wrong # "none"
  BY <1>2, <1>4
<1>5. CASE ~(stack = <<>> \/ walk.wrong # "none")
  BY <1>3, <1>5
<1>6. QED
  BY <1>4, <1>5

LEMMA ShapeWalkIs ==
    ASSUME NEW args, IsArguments(args), ~HoldsSet(args)
    PROVE  /\ ShapeWalk(args)[0]
                 = [stack |-> <<<<"args", 0>>>>, nodes |-> 0, wrong |-> "none"]
           /\ ShapeWalk(args)[0] \in Shapes(args)
           /\ \A n \in 1 .. MaxArgsNodes + 1 :
                 ShapeWalk(args)[n] = ShapeStep(args, ShapeWalk(args)[n - 1])
           /\ \A n \in 0 .. MaxArgsNodes + 1 : ShapeWalk(args)[n] \in Shapes(args)
<1> DEFINE m    == MaxArgsNodes + 1
           base == [stack |-> <<<<"args", 0>>>>, nodes |-> 0, wrong |-> "none"]
           S    == Shapes(args)
           step == [x \in Nat \X S |-> ShapeStep(args, x[2])]
           walk == ShapeWalk(args)
<1>1. m \in Nat
  BY ArgumentLimits
<1>2. base \in S
  <2>1. <<"args", 0>> \in Placed(args)
    <3>1. "args" \in DOMAIN args /\ 0 \in 0 .. MaxArgsDepth + 1
      BY ArgumentLimits DEF IsArguments
    <3>2. QED
      BY <3>1 DEF Placed
  <2>2. <<<<"args", 0>>>> \in Seq(Placed(args))
    BY <2>1
  <2>3. QED
    BY <2>2 DEF Shapes
<1>3. \A t \in S : ShapeStep(args, t) \in S
  BY ShapeStepIs
<1> HIDE DEF S
<1>4. step \in [Nat \X S -> S]
  <2>1. ASSUME NEW x \in Nat \X S PROVE ShapeStep(args, x[2]) \in S
    BY <1>3
  <2>2. QED
    BY <2>1
<1>5. \A n \in Nat, t \in S : step[<<n, t>>] = ShapeStep(args, t)
  OBVIOUS
<1> HIDE DEF step, base, m
<1>6. PICK f \in [0 .. m -> S] : StepFrom(base, step, m, f)
  BY <1>1, <1>2, <1>4, Recursion
<1> DEFINE g == [n \in 0 .. m |->
                   IF n = 0 THEN base ELSE ShapeStep(args, f[n - 1])]
<1>7. f = g
  <2>1. ASSUME NEW n \in 0 .. m PROVE f[n] = g[n]
    <3>1. CASE n = 0
      BY <1>6, <3>1 DEF StepFrom
    <3>2. CASE n # 0
      <4>1. n - 1 \in 0 .. m /\ n \in Nat
        BY <1>1, <3>2
      <4>2. f[n] = step[<<n, f[n - 1]>>]
        BY <1>6, <3>2 DEF StepFrom
      <4>3. f[n - 1] \in S
        BY <1>6, <4>1
      <4>4. f[n] = ShapeStep(args, f[n - 1])
        BY <1>5, <4>1, <4>2, <4>3
      <4>5. QED
        BY <3>2, <4>4
    <3>3. QED
      BY <3>1, <3>2
  <2>2. QED
    BY <2>1
<1>8. walk = [n \in 0 .. m |->
                IF n = 0 THEN base ELSE ShapeStep(args, walk[n - 1])]
  BY <1>7 DEF ShapeWalk, m, base
<1> HIDE DEF walk, g
<1>9. walk[0] = base
  <2>1. 0 \in 0 .. m
    BY <1>1
  <2>2. QED
    BY <1>8, <2>1
<1>10. ASSUME NEW n \in 1 .. m PROVE walk[n] = ShapeStep(args, walk[n - 1])
  <2>1. n \in 0 .. m /\ n # 0
    BY <1>1
  <2>2. QED
    BY <1>8, <2>1
<1>11. \A n \in 0 .. m : walk[n] \in S
  <2>1. walk[0] \in S
    BY <1>2, <1>9
  <2>2. ASSUME NEW n \in 1 .. m, walk[n - 1] \in S PROVE walk[n] \in S
    BY <1>3, <1>10, <2>2
  <2>3. QED
    BY <1>1, <2>1, <2>2, StepsStay
<1>12. QED
  <2>1. 0 \in 0 .. m
    BY <1>1
  <2>2. QED
    BY <1>9, <1>10, <1>11, <2>1 DEF walk, base, m, S

\* What the walk has counted and what is on its stack come to the whole.
Counted(args, walk, turns) ==
    walk.wrong = "none" =>
        /\ walk.nodes + Total(PlacedWeight(args), walk.stack)
              = WeightAt(args, "args", 0)
        /\ walk.nodes <= MaxArgsNodes
        /\ walk.stack = <<>> \/ walk.nodes = turns

\* Arguments that are well shaped come to no more than they may.
LEMMA ShapedIsLight ==
    ASSUME NEW args, IsArguments(args), ~HoldsSet(args),
           describe_shape(args) = "none"
    PROVE  WeightAt(args, "args", 0) <= MaxArgsNodes
<1> DEFINE m    == MaxArgsNodes + 1
           walk == ShapeWalk(args)
           w    == PlacedWeight(args)
           U    == {k \in 0 .. m : Counted(args, walk[k], k)}
<1>1. m \in Nat /\ MaxArgsNodes \in Nat
  BY ArgumentLimits
<1>2. /\ walk[0] = [stack |-> <<<<"args", 0>>>>, nodes |-> 0, wrong |-> "none"]
      /\ \A n \in 1 .. m : walk[n] = ShapeStep(args, walk[n - 1])
      /\ \A n \in 0 .. m : walk[n] \in Shapes(args)
  BY ShapeWalkIs
<1>3. Counts(Placed(args), w)
  BY PlacedIs
<1> HIDE DEF walk, m
<1>4. 0 \in U
  <2>1. <<"args", 0>> \in Placed(args)
    <3>1. "args" \in DOMAIN args /\ 0 \in 0 .. MaxArgsDepth + 1
      BY ArgumentLimits DEF IsArguments
    <3>2. QED
      BY <3>1 DEF Placed
  <2> DEFINE root == <<"args", 0>>
  <2>2. root \in Placed(args) /\ root[1] = "args" /\ root[2] = 0
    BY <2>1
  <2> HIDE DEF root
  <2>3. w[root] = WeightAt(args, root[1], root[2])
    BY <2>2, PlacedIs
  <2>4. w[root] = WeightAt(args, "args", 0)
    BY <2>2, <2>3, Zenon
  <2>5. Total(w, <<root>>) = w[root]
    BY <1>3, <2>2, SumOfOne
  <2>6. Total(w, <<root>>) \in Nat
    <3>1. <<root>> \in Seq(Placed(args))
      BY <2>2
    <3>2. QED
      BY <1>3, <3>1, SumType
  <2>7. walk[0].stack = <<root>> /\ walk[0].nodes = 0
    BY <1>2 DEF root
  <2>8. Total(w, walk[0].stack) = WeightAt(args, "args", 0)
        /\ WeightAt(args, "args", 0) \in Nat
    BY <2>4, <2>5, <2>6, <2>7, Zenon
  <2> HIDE DEF w
  <2>9. Counted(args, walk[0], 0)
    BY <1>1, <2>7, <2>8 DEF Counted, w
  <2>10. QED
    BY <1>1, <2>9
<1>5. ASSUME NEW k \in 0 .. m, k \in U, k # m PROVE k + 1 \in U
  <2>1. k + 1 \in 1 .. m /\ (k + 1) - 1 = k /\ k + 1 \in 0 .. m
    BY <1>1, <1>5
  <2> DEFINE old  == walk[k]
             next == walk[k + 1]
  <2>2. old \in Shapes(args) /\ next = ShapeStep(args, old)
        /\ next \in Shapes(args) /\ Counted(args, old, k)
    BY <1>2, <1>5, <2>1
  <2> HIDE DEF old, next
  <2>3. CASE old.stack = <<>> \/ old.wrong # "none"
    <3>1. next = old
      BY <2>2, <2>3, ShapeStepIs
    <3>2. Counted(args, old, k + 1)
      BY <2>2, <2>3 DEF Counted
    <3>3. QED
      BY <2>1, <3>1, <3>2 DEF next
  <2>4. CASE old.stack # <<>> /\ old.wrong = "none"
    <3>1. \/ next.wrong # "none"
          \/ /\ next.wrong = "none"
             /\ next.nodes = old.nodes + 1 /\ old.nodes + 1 <= MaxArgsNodes
             /\ Total(w, next.stack) + 1 = Total(w, old.stack)
      BY <2>2, <2>4, ShapeStepIs
    <3>2. CASE next.wrong # "none"
      <4>1. Counted(args, next, k + 1)
        BY <3>2 DEF Counted
      <4>2. QED
        BY <2>1, <4>1 DEF next
    <3>3. CASE /\ next.wrong = "none"
               /\ next.nodes = old.nodes + 1 /\ old.nodes + 1 <= MaxArgsNodes
               /\ Total(w, next.stack) + 1 = Total(w, old.stack)
      <4>1. /\ old.nodes + Total(w, old.stack) = WeightAt(args, "args", 0)
            /\ old.nodes = k
        BY <2>2, <2>4 DEF Counted
      <4>2. /\ Total(w, next.stack) \in Nat /\ Total(w, old.stack) \in Nat
            /\ old.nodes \in Nat
        <5>1. old.stack \in Seq(Placed(args)) /\ next.stack \in Seq(Placed(args))
              /\ old.nodes \in Nat
          BY <2>2 DEF Shapes
        <5>2. QED
          BY <1>3, <5>1, SumType
      <4>3. next.nodes + Total(w, next.stack) = WeightAt(args, "args", 0)
        <5> DEFINE a == Total(w, next.stack)
                   b == Total(w, old.stack)
                   c == WeightAt(args, "args", 0)
        <5>1. /\ a \in Nat /\ b \in Nat /\ a + 1 = b /\ old.nodes + b = c
              /\ next.nodes = old.nodes + 1 /\ old.nodes \in Nat
          BY <3>3, <4>1, <4>2
        <5> HIDE DEF a, b, c
        <5>2. next.nodes + a = c
          BY <5>1
        <5>3. QED
          BY <5>2 DEF a, c
      <4>4. Counted(args, next, k + 1)
        BY <3>3, <4>1, <4>3 DEF Counted
      <4>5. QED
        BY <2>1, <4>4 DEF next
    <3>4. QED
      BY <3>1, <3>2, <3>3
  <2>5. QED
    BY <2>3, <2>4
<1> HIDE DEF U
<1>6. 0 .. m \subseteq U
  BY <1>1, <1>4, <1>5, StepByStep
<1>7. m \in 0 .. m
  BY <1>1
<1>8. Counted(args, walk[m], m)
  BY <1>6, <1>7 DEF U
<1>9. walk[m].wrong = "none"
  BY DEF describe_shape, walk, m
<1>10. walk[m].stack = <<>> /\ walk[m].nodes <= MaxArgsNodes
       /\ walk[m].nodes + Total(w, walk[m].stack) = WeightAt(args, "args", 0)
  BY <1>1, <1>8, <1>9 DEF Counted, m
<1>11. Total(w, walk[m].stack) = 0
  <2>1. Total(w, <<>>) = 0
    BY <1>3, SumOfNothing
  <2>2. QED
    BY <1>10, <2>1, Zenon
<1>12. walk[m].nodes \in Nat
  BY <1>2, <1>7 DEF Shapes
<1>13. QED
  BY <1>10, <1>11, <1>12

(***************************************************************************)
(* The projection of arguments that are light enough.                      *)
(***************************************************************************)

\* Calls that do without a tag: what each is about is light where it is, and lighter
\* than all it lies in.
Light(args) ==
    {c \in (DOMAIN args) \X (0 .. MaxArgsDepth + 1) \X SUBSET (DOMAIN args) :
        /\ WeightAt(args, c[1], c[2]) <= MaxArgsNodes
        /\ \A s \in c[3] : \E e \in 0 .. MaxArgsDepth + 1 :
              /\ e < c[2]
              /\ WeightAt(args, s, e) > WeightAt(args, c[1], c[2])}

LightWeight(args) == [c \in Light(args) |-> WeightAt(args, c[1], c[2])]

\* What is light does not lie in itself.
LEMMA LightIs ==
    ASSUME NEW args, IsArguments(args)
    PROVE  /\ Counts(Light(args), LightWeight(args))
           /\ \A c \in Light(args) :
                 /\ c[1] \in DOMAIN args /\ c[2] \in 0 .. MaxArgsDepth
                 /\ c[3] \subseteq DOMAIN args /\ c[1] \notin c[3]
                 /\ LightWeight(args)[c] = WeightAt(args, c[1], c[2])
                 /\ LightWeight(args)[c] \in Nat \ {0}
<1>1. \A c \in Light(args) :
         /\ c[1] \in DOMAIN args /\ c[2] \in 0 .. MaxArgsDepth + 1
         /\ c[3] \subseteq DOMAIN args
         /\ WeightAt(args, c[1], c[2]) <= MaxArgsNodes
         /\ \A s \in c[3] : \E e \in 0 .. MaxArgsDepth + 1 :
               /\ e < c[2]
               /\ WeightAt(args, s, e) > WeightAt(args, c[1], c[2])
  BY DEF Light
<1>2. \A c \in Light(args) : WeightAt(args, c[1], c[2]) \in Nat \ {0}
  BY <1>1, WeightAtIs
<1>3. \A c \in Light(args) : LightWeight(args)[c] = WeightAt(args, c[1], c[2])
  BY DEF LightWeight
<1>4. Counts(Light(args), LightWeight(args))
  BY <1>2 DEF Counts, LightWeight
<1>5. ASSUME NEW c \in Light(args)
      PROVE  c[2] \in 0 .. MaxArgsDepth /\ c[1] \notin c[3]
  <2> DEFINE node  == c[1]
             depth == c[2]
  <2>1. /\ node \in DOMAIN args /\ depth \in 0 .. MaxArgsDepth + 1
        /\ WeightAt(args, node, depth) <= MaxArgsNodes
        /\ \A s \in c[3] : \E e \in 0 .. MaxArgsDepth + 1 :
              e < depth /\ WeightAt(args, s, e) > WeightAt(args, node, depth)
    BY <1>1
  <2> HIDE DEF node, depth
  <2>2. depth \in 0 .. MaxArgsDepth
    <3>1. depth # MaxArgsDepth + 1
      BY <2>1, WeightAtIs, ArgumentLimits
    <3>2. QED
      BY <2>1, <3>1, ArgumentLimits
  <2>3. ASSUME NEW e \in 0 .. MaxArgsDepth + 1, e < depth
        PROVE  WeightAt(args, node, e) = WeightAt(args, node, depth)
    <3> DEFINE h == MaxArgsDepth + 1 - depth
               k == depth - e
    <3>1. h \in Nat /\ k \in Nat /\ h + k = MaxArgsDepth + 1 - e
      BY <2>2, <2>3, ArgumentLimits
    <3>2. Weights(args)[h][node] <= MaxArgsNodes
      BY <2>1 DEF WeightAt
    <3> HIDE DEF h, k
    <3>3. Weights(args)[h + k][node] = Weights(args)[h][node]
      BY <2>1, <3>1, <3>2, WeightsStay
    <3>4. QED
      BY <3>1, <3>3 DEF WeightAt, h
  <2>4. ASSUME node \in c[3] PROVE FALSE
    <3>1. PICK e \in 0 .. MaxArgsDepth + 1 :
             e < depth /\ WeightAt(args, node, e) > WeightAt(args, node, depth)
      BY <2>1, <2>4
    <3>2. WeightAt(args, node, e) = WeightAt(args, node, depth)
      BY <2>3, <3>1
    <3>3. WeightAt(args, node, depth) \in Nat
      BY <2>1, WeightAtIs
    <3>4. QED
      BY <3>1, <3>2, <3>3
  <2>5. QED
    BY <2>2, <2>4 DEF node, depth
<1>6. QED
  BY <1>1, <1>2, <1>3, <1>4, <1>5

CallsHeld(args, node, depth, seen) ==
    [i \in DOMAIN args[node] |-> <<args[node][i], depth + 1, seen \cup {node}>>]

\* What lies in something light is light.
LEMMA CallsHeldAre ==
    ASSUME NEW args, IsArguments(args), NEW c \in Light(args)
    PROVE  /\ CallsHeld(args, c[1], c[2], c[3]) \in Seq(Light(args))
           /\ LightWeight(args)[c]
                 = 1 + Total(LightWeight(args), CallsHeld(args, c[1], c[2], c[3]))
<1> DEFINE node  == c[1]
           depth == c[2]
           seen  == c[3]
           s == args[node]
           t == CallsHeld(args, node, depth, seen)
           v == Weights(args)[MaxArgsDepth + 1 - (depth + 1)]
           w == LightWeight(args)
           Of(i) == <<s[i], depth + 1, seen \cup {node}>>
<1>1. /\ node \in DOMAIN args /\ depth \in 0 .. MaxArgsDepth
      /\ seen \subseteq DOMAIN args /\ w[c] = WeightAt(args, node, depth)
  BY LightIs
<1>2. /\ WeightAt(args, node, depth) <= MaxArgsNodes
      /\ \A b \in seen : \E e \in 0 .. MaxArgsDepth + 1 :
            e < depth /\ WeightAt(args, b, e) > WeightAt(args, node, depth)
  BY DEF Light
<1> HIDE DEF node, depth, seen, w
<1>3. s \in Seq(DOMAIN args)
  BY <1>1 DEF IsArguments
<1>4. /\ Len(s) \in Nat /\ DOMAIN s = 1 .. Len(s)
      /\ \A i \in 1 .. Len(s) : s[i] \in DOMAIN args
  BY <1>3, LenProperties, ElementOfSeq
<1>5. /\ depth + 1 \in 0 .. MaxArgsDepth + 1
      /\ MaxArgsDepth + 1 - (depth + 1) \in Nat
      /\ WeightAt(args, node, depth) = 1 + Total(v, s)
      /\ WeightAt(args, node, depth) \in Nat
  BY <1>1, WeightAtIs, ArgumentLimits
<1>6. Counts(DOMAIN args, v) /\ Counts(Light(args), w)
  BY <1>5, WeightsAre, LightIs DEF w
<1>7. t = [i \in 1 .. Len(s) |-> Of(i)]
  BY <1>4 DEF CallsHeld
<1>8. \A i \in 1 .. Len(s) : v[s[i]] = WeightAt(args, s[i], depth + 1)
  BY DEF WeightAt
<1>9. Total(v, s) \in Nat /\ \A i \in 1 .. Len(s) : v[s[i]] <= Total(v, s)
  BY <1>3, <1>6, SumType, SumAtLeast
<1> HIDE DEF s, t, v
<1>10. ASSUME NEW i \in 1 .. Len(s) PROVE Of(i) \in Light(args)
  <2> DEFINE kid    == s[i]
             weight == WeightAt(args, kid, depth + 1)
             all    == WeightAt(args, node, depth)
  <2>1. kid \in DOMAIN args /\ weight \in Nat
    BY <1>4, <1>5, WeightAtIs
  <2>2. weight < all /\ all <= MaxArgsNodes /\ all \in Nat
    <3>1. weight <= Total(v, s)
      BY <1>8, <1>9
    <3> HIDE DEF weight, all
    <3>2. all = 1 + Total(v, s) /\ all \in Nat /\ all <= MaxArgsNodes
      BY <1>2, <1>5 DEF all
    <3>3. weight \in Nat
      BY <2>1
    <3>4. QED
      BY <1>9, <3>1, <3>2, <3>3
  <2>3. /\ Of(i)[1] = kid /\ Of(i)[2] = depth + 1 /\ Of(i)[3] = seen \cup {node}
        /\ Of(i) \in (DOMAIN args) \X (0 .. MaxArgsDepth + 1) \X SUBSET (DOMAIN args)
    BY <1>1, <1>5, <2>1
  <2>4. ASSUME NEW b \in seen \cup {node}
        PROVE  \E e \in 0 .. MaxArgsDepth + 1 :
                  e < depth + 1 /\ WeightAt(args, b, e) > weight
    <3>1. CASE b = node
      <4>1. depth \in 0 .. MaxArgsDepth + 1 /\ depth < depth + 1
        BY <1>1, ArgumentLimits
      <4>2. WeightAt(args, b, depth) > weight
        BY <2>1, <2>2, <3>1
      <4>3. QED
        BY <4>1, <4>2
    <3>2. CASE b \in seen
      <4>1. PICK e \in 0 .. MaxArgsDepth + 1 :
               e < depth /\ WeightAt(args, b, e) > all
        BY <1>2, <3>2
      <4>2. WeightAt(args, b, e) \in Nat
        <5>1. b \in DOMAIN args
          BY <1>1, <3>2
        <5>2. QED
          BY <5>1, WeightAtIs
      <4> DEFINE bs == WeightAt(args, b, e)
      <4> HIDE DEF weight, all, bs
      <4>3. bs \in Nat /\ bs > all
        BY <4>1, <4>2 DEF bs
      <4>4. bs > weight /\ e < depth + 1
        BY <1>1, <2>1, <2>2, <4>1, <4>3
      <4>5. QED
        BY <4>4 DEF bs
    <3>3. QED
      BY <3>1, <3>2
  <2>5. weight <= MaxArgsNodes
    <3> HIDE DEF weight, all
    <3>1. QED
      BY <2>1, <2>2, ArgumentLimits
  <2> HIDE DEF Of
  <2>6. QED
    BY <2>3, <2>4, <2>5 DEF Light
<1>11. t \in Seq(Light(args)) /\ Len(t) = Len(s)
       /\ \A i \in 1 .. Len(s) : t[i] = Of(i)
  <2> HIDE DEF Of
  <2>1. t \in [1 .. Len(s) -> Light(args)]
    BY <1>7, <1>10
  <2>2. t \in Seq(Light(args)) /\ Len(t) = Len(s)
    BY <1>4, <2>1
  <2>3. QED
    BY <1>7, <2>2
<1>12. ASSUME NEW i \in 1 .. Len(s) PROVE v[s[i]] = w[t[i]]
  <2>1. Of(i)[1] = s[i] /\ Of(i)[2] = depth + 1
    OBVIOUS
  <2> HIDE DEF Of
  <2>2. w[Of(i)] = WeightAt(args, Of(i)[1], Of(i)[2])
    BY <1>10, LightIs DEF w
  <2>3. w[Of(i)] = WeightAt(args, s[i], depth + 1)
    BY <2>1, <2>2, Zenon
  <2>4. QED
    BY <1>8, <1>11, <2>3
<1> HIDE DEF Of
<1>13. Total(v, s) = Totals(w, t)[Len(s)]
  <2>1. Len(s) <= Len(t) /\ \A i \in 1 .. Len(s) : v[s[i]] = w[t[i]]
    BY <1>4, <1>11, <1>12
  <2>2. t \in Seq(Light(args))
    BY <1>11
  <2>3. QED
    BY <1>3, <1>6, <2>1, <2>2, SameSum
<1>14. Total(v, s) = Total(w, t)
  BY <1>11, <1>13 DEF Total
<1>15. w[c] = 1 + Total(w, t)
  BY <1>1, <1>5, <1>14
<1>16. QED
  BY <1>11, <1>15 DEF w, t, node, depth, seen

OwnKinds(args) == {KindOf(node) : node \in DOMAIN args}

\* A projection that has had no tag yet but for the kinds of leaves, and has the
\* budget for all that is left.
Projections(args) ==
    [calls : Seq(Light(args)), budget : Nat, tags : SUBSET OwnKinds(args)]

Whole(args) ==
    {walk \in Projections(args) :
        Total(LightWeight(args), walk.calls) <= walk.budget}

LEMMA SanitizeStaysWhole ==
    ASSUME NEW args, IsArguments(args), NEW walk \in Whole(args)
    PROVE  SanitizeStep(args, walk) \in Whole(args)
<1> DEFINE calls == walk.calls
           c     == Head(calls)
           held  == CallsHeld(args, c[1], c[2], c[3])
           next  == SanitizeStep(args, walk)
           w     == LightWeight(args)
<1>1. /\ calls \in Seq(Light(args)) /\ walk.budget \in Nat
      /\ walk.tags \subseteq OwnKinds(args)
      /\ Total(w, calls) <= walk.budget
  BY DEF Whole, Projections
<1>2. Counts(Light(args), w)
  BY LightIs
<1>3. CASE calls = <<>>
  <2>1. next = walk
    BY <1>3, Zenon DEF SanitizeStep
  <2>2. QED
    BY <2>1
<1>4. CASE calls # <<>>
  <2>1. /\ Tail(calls) \in Seq(Light(args)) /\ c \in Light(args)
        /\ Total(w, calls) = w[c] + Total(w, Tail(calls))
    BY <1>1, <1>2, <1>4, SumOfTail
  <2>2. /\ c[2] \in 0 .. MaxArgsDepth /\ c[1] \notin c[3]
        /\ w[c] \in Nat \ {0}
    BY <2>1, LightIs
  <2>3. held \in Seq(Light(args)) /\ w[c] = 1 + Total(w, held)
    BY <2>1, CallsHeldAre
  <2>4. Total(w, Tail(calls)) \in Nat /\ Total(w, held) \in Nat
    BY <1>2, <2>1, <2>3, SumType
  <2>5. walk.budget # 0
    <3> DEFINE a == Total(w, calls)
               b == Total(w, Tail(calls))
               d == w[c]
    <3>1. /\ a = d + b /\ b \in Nat /\ d \in Nat \ {0} /\ a <= walk.budget
          /\ walk.budget \in Nat
      BY <1>1, <2>1, <2>2, <2>4
    <3> HIDE DEF a, b, d
    <3>2. QED
      BY <3>1
  <2>6. ~(c[2] > MaxSanitizeDepth)
    BY <2>2, ArgumentLimits
  <2> DEFINE kind == KindOf(c[1])
  <2>7. /\ kind \in {"nonfinite", "bytes"} \/ kind = "other" =>
              next = [calls |-> Tail(calls), budget |-> walk.budget - 1,
                      tags |-> walk.tags \cup {kind}]
        /\ ~(kind \in {"nonfinite", "bytes"}) /\ kind # "other" =>
              next = [calls |-> held \o Tail(calls), budget |-> walk.budget - 1,
                      tags |-> walk.tags]
    <3>1. CASE kind \in {"nonfinite", "bytes"}
      BY <1>4, <2>5, <2>6, <3>1, Zenon DEF SanitizeStep
    <3>2. CASE ~(kind \in {"nonfinite", "bytes"}) /\ kind = "other"
      BY <1>4, <2>2, <2>5, <2>6, <3>2, Zenon DEF SanitizeStep
    <3>3. CASE ~(kind \in {"nonfinite", "bytes"}) /\ kind # "other"
      BY <1>4, <2>2, <2>5, <2>6, <3>3, Zenon DEF SanitizeStep, CallsHeld
    <3>4. QED
      BY <3>1, <3>2, <3>3, Zenon
  <2>71. kind \in OwnKinds(args)
    BY <2>1, LightIs DEF OwnKinds
  <2> HIDE DEF held, w, next, c, kind
  <2>8. held \o Tail(calls) \in Seq(Light(args))
    BY <2>1, <2>3, ConcatProperties
  <2>9. Total(w, held \o Tail(calls)) = Total(w, held) + Total(w, Tail(calls))
    BY <1>2, <2>1, <2>3, SumOfBoth
  <2>10. Total(w, held \o Tail(calls)) <= walk.budget - 1
    <3> DEFINE a == Total(w, held \o Tail(calls))
               b == Total(w, held)
               d == Total(w, Tail(calls))
               e == Total(w, calls)
               f == w[c]
    <3>1. /\ a = b + d /\ b \in Nat /\ d \in Nat /\ f = 1 + b /\ e = f + d
          /\ e <= walk.budget /\ walk.budget \in Nat
      BY <1>1, <2>1, <2>3, <2>4, <2>9
    <3> HIDE DEF a, b, d, e, f
    <3>2. a <= walk.budget - 1
      BY <3>1
    <3>3. QED
      BY <3>2 DEF a
  <2>11. walk.budget - 1 \in Nat
    BY <1>1, <2>5
  <2> HIDE DEF calls
  <2>12. CASE ~(kind \in {"nonfinite", "bytes"}) /\ kind # "other"
    <3>1. /\ next.calls = held \o Tail(calls) /\ next.budget = walk.budget - 1
          /\ next \in Projections(args)
      <4> DEFINE tags == walk.tags
                 rest == held \o Tail(calls)
      <4>1. next = [calls |-> rest, budget |-> walk.budget - 1, tags |-> tags]
        BY <2>7, <2>12
      <4>2. tags \in SUBSET OwnKinds(args) /\ rest \in Seq(Light(args))
        BY <1>1, <2>8
      <4> HIDE DEF tags, rest
      <4>3. /\ next.calls = rest /\ next.budget = walk.budget - 1
            /\ next \in Projections(args)
        BY <2>11, <4>1, <4>2 DEF Projections
      <4>4. QED
        BY <4>3 DEF rest
    <3>2. QED
      BY <2>10, <3>1 DEF Whole, w, next
  <2>13. CASE kind \in {"nonfinite", "bytes"} \/ kind = "other"
    <3>1. /\ next.calls = Tail(calls) /\ next.budget = walk.budget - 1
          /\ next \in Projections(args)
      <4>1. walk.tags \cup {kind} \in SUBSET OwnKinds(args)
        BY <1>1, <2>71
      <4> DEFINE tags == walk.tags \cup {kind}
      <4>2. next = [calls |-> Tail(calls), budget |-> walk.budget - 1,
                    tags |-> tags]
        BY <2>7, <2>13
      <4> HIDE DEF tags
      <4>3. QED
        BY <2>1, <2>11, <4>1, <4>2 DEF Projections, tags
    <3>2. Total(w, Tail(calls)) <= walk.budget - 1
      <4> DEFINE b == Total(w, Tail(calls))
                 e == Total(w, calls)
                 f == w[c]
      <4>1. /\ e = f + b /\ b \in Nat /\ f \in Nat \ {0} /\ e <= walk.budget
            /\ walk.budget \in Nat
        BY <1>1, <2>1, <2>2, <2>4
      <4> HIDE DEF b, e, f
      <4>2. b <= walk.budget - 1
        BY <4>1
      <4>3. QED
        BY <4>2 DEF b
    <3>3. QED
      BY <3>1, <3>2 DEF Whole, w, next
  <2>14. QED
    BY <2>12, <2>13
<1>5. QED
  BY <1>3, <1>4

\* Arguments that are light have no tag in their projection but for their leaves.
LEMMA LightIsWhole ==
    ASSUME NEW args, IsArguments(args),
           WeightAt(args, "args", 0) <= MaxArgsNodes
    PROVE  json_sanitize(args) \subseteq OwnKinds(args)
<1> DEFINE m    == MaxSanitizeNodes + 1
           base == [calls |-> <<<<"args", 0, {}>>>>, budget |-> MaxSanitizeNodes,
                    tags |-> {}]
           S    == Whole(args)
           step == [x \in Nat \X S |-> SanitizeStep(args, x[2])]
           walk == SanitizeWalk(args)
<1>1. m \in Nat
  BY ArgumentLimits
<1>2. base \in S
  <2> DEFINE root == <<"args", 0, {}>>
             w    == LightWeight(args)
  <2>1. "args" \in DOMAIN args /\ 0 \in 0 .. MaxArgsDepth + 1
    BY ArgumentLimits DEF IsArguments
  <2>2. /\ root[1] = "args" /\ root[2] = 0 /\ root[3] = {}
        /\ root \in (DOMAIN args) \X (0 .. MaxArgsDepth + 1) \X SUBSET (DOMAIN args)
    BY <2>1
  <2> HIDE DEF root
  <2>3. root \in Light(args)
    BY <2>2 DEF Light
  <2>4. w[root] = WeightAt(args, root[1], root[2]) /\ Counts(Light(args), w)
    BY <2>3, LightIs
  <2>5. w[root] = WeightAt(args, "args", 0)
    BY <2>2, <2>4, Zenon
  <2>6. Total(w, <<root>>) = w[root] /\ <<root>> \in Seq(Light(args))
    BY <2>3, <2>4, SumOfOne
  <2>7. WeightAt(args, "args", 0) \in Nat
    BY <2>1, WeightAtIs
  <2>8. Total(w, <<root>>) <= MaxSanitizeNodes
    <3> DEFINE a == Total(w, <<root>>)
               b == WeightAt(args, "args", 0)
    <3>1. a = b /\ b \in Nat /\ b <= MaxArgsNodes
      BY <2>5, <2>6, <2>7, Zenon
    <3> HIDE DEF a, b
    <3>2. a <= MaxSanitizeNodes
      BY <3>1, ArgumentLimits
    <3>3. QED
      BY <3>2 DEF a
  <2>9. base = [calls |-> <<root>>, budget |-> MaxSanitizeNodes, tags |-> {}]
    BY DEF root
  <2> HIDE DEF base, w
  <2>10. base.calls = <<root>> /\ base.budget = MaxSanitizeNodes
         /\ base \in Projections(args)
    BY <2>6, <2>9, ArgumentLimits DEF Projections
  <2>11. QED
    BY <2>8, <2>10 DEF Whole, w
<1>3. \A t \in S : SanitizeStep(args, t) \in S
  BY SanitizeStaysWhole
<1> HIDE DEF S
<1>4. step \in [Nat \X S -> S]
  <2>1. ASSUME NEW x \in Nat \X S PROVE SanitizeStep(args, x[2]) \in S
    BY <1>3
  <2>2. QED
    BY <2>1
<1>5. \A n \in Nat, t \in S : step[<<n, t>>] = SanitizeStep(args, t)
  OBVIOUS
<1> HIDE DEF step, base, m
<1>6. PICK f \in [0 .. m -> S] : StepFrom(base, step, m, f)
  BY <1>1, <1>2, <1>4, Recursion
<1> DEFINE g == [n \in 0 .. m |->
                   IF n = 0 THEN base ELSE SanitizeStep(args, f[n - 1])]
<1>7. f = g
  <2>1. ASSUME NEW n \in 0 .. m PROVE f[n] = g[n]
    <3>1. CASE n = 0
      BY <1>6, <3>1 DEF StepFrom
    <3>2. CASE n # 0
      <4>1. n - 1 \in 0 .. m /\ n \in Nat
        BY <1>1, <3>2
      <4>2. f[n] = step[<<n, f[n - 1]>>]
        BY <1>6, <3>2 DEF StepFrom
      <4>3. f[n - 1] \in S
        BY <1>6, <4>1
      <4>4. f[n] = SanitizeStep(args, f[n - 1])
        BY <1>5, <4>1, <4>2, <4>3
      <4>5. QED
        BY <3>2, <4>4
    <3>3. QED
      BY <3>1, <3>2
  <2>2. QED
    BY <2>1
<1>8. walk = [n \in 0 .. m |->
                IF n = 0 THEN base ELSE SanitizeStep(args, walk[n - 1])]
  BY <1>7 DEF SanitizeWalk, m, base
<1> HIDE DEF walk, g
<1>9. walk[0] \in S
  <2>1. 0 \in 0 .. m
    BY <1>1
  <2>2. QED
    BY <1>2, <1>8, <2>1
<1>10. ASSUME NEW n \in 1 .. m, walk[n - 1] \in S PROVE walk[n] \in S
  <2>1. n \in 0 .. m /\ n # 0
    BY <1>1
  <2>2. walk[n] = SanitizeStep(args, walk[n - 1])
    BY <1>8, <2>1
  <2>3. QED
    BY <1>3, <1>10, <2>2
<1>11. \A n \in 0 .. m : walk[n] \in S
  BY <1>1, <1>9, <1>10, StepsStay
<1>12. walk[m] \in Whole(args)
  <2>1. m \in 0 .. m
    BY <1>1
  <2>2. QED
    BY <1>11, <2>1 DEF S
<1>13. walk[m].tags \subseteq OwnKinds(args)
  BY <1>12 DEF Whole, Projections
<1>14. QED
  BY <1>13 DEF json_sanitize, walk, m

\* Whatever the end of a call, what it records of accepted arguments is not cut.
RecordInv == request \in Requests /\ AcceptedNotCut

LEMMA ShapedIsWhole ==
    ASSUME request \in Requests, validates(request), ~HoldsSet(request.args)
    PROVE  json_sanitize(request.args) \subseteq OwnKinds(request.args)
<1>1. IsArguments(request.args) /\ describe_shape(request.args) = "none"
  BY CallDataAssumption DEF validates
<1>2. QED
  BY <1>1, ShapedIsLight, LightIsWhole

LEMMA FinishRecords ==
    ASSUME request \in Requests, request' = request,
           NEW status, NEW reason, NEW text, Finish(status, reason, text)
    PROVE  RecordInv'
<1>1. /\ record'.args_sha256 = json_sanitize(request.args)
      /\ record'.args_json = ArgsJson(request)
  BY DEF Finish
<1>2. ASSUME validates(request), ~HoldsSet(request.args)
      PROVE  /\ record'.args_sha256 \subseteq OwnKinds(request.args)
             /\ request.redact \/ request.oversize
                   \/ record'.args_json \subseteq OwnKinds(request.args)
  <2>1. json_sanitize(request.args) \subseteq OwnKinds(request.args)
    BY <1>2, ShapedIsWhole
  <2>2. request.redact \/ request.oversize
           \/ ArgsJson(request) = json_sanitize(request.args)
    BY DEF ArgsJson
  <2>3. QED
    BY <1>1, <2>1, <2>2
<1>3. AcceptedNotCut'
  <2>1. SUFFICES ASSUME validates(request)', ~HoldsSet(request.args)'
                 PROVE  /\ record'.args_sha256 \subseteq OwnKinds(request.args)
                        /\ request.redact \/ request.oversize
                              \/ record'.args_json \subseteq OwnKinds(request.args)
    BY DEF AcceptedNotCut, OwnKinds
  <2>2. validates(request) /\ ~HoldsSet(request.args)
    BY <2>1
  <2>3. QED
    BY <1>2, <2>2
<1>4. QED
  BY <1>3 DEF RecordInv

LEMMA RecordStays == RecordInv /\ [Next]_vars => RecordInv'
<1> SUFFICES ASSUME RecordInv, [Next]_vars PROVE RecordInv'
  OBVIOUS
<1>1. request \in Requests
  BY DEF RecordInv
<1>2. CASE UNCHANGED vars
  BY <1>2 DEF vars, RecordInv, AcceptedNotCut, validates, SchemaAdmits, HoldsSet
<1>3. CASE Next
  <2>1. request' = request
    BY <1>3 DEF Next, CheckSchema, OtherHandler, OtherReturns, OtherRefuses,
                Raised, run_isolated, CannotRun, RefuseArgv, Finishes, Floods,
                Expires, Launching, Render, Judge
  <2>2. \/ pc' # "done"
        \/ \E status, reason, text : Finish(status, reason, text)
    BY <1>3 DEF Next, CheckSchema, OtherHandler, OtherReturns, OtherRefuses,
                Raised, run_isolated, CannotRun, RefuseArgv, Finishes, Floods,
                Expires, Launching, Render, Judge
  <2>3. CASE pc' # "done"
    BY <1>1, <2>1, <2>3 DEF RecordInv, AcceptedNotCut
  <2>4. CASE \E status, reason, text : Finish(status, reason, text)
    BY <1>1, <2>1, <2>4, FinishRecords
  <2>5. QED
    BY <2>2, <2>3, <2>4
<1>4. QED
  BY <1>2, <1>3

\* AcceptedNotCut, for any arguments, with containers that hold one another twice or
\* in a circle and leaves of every kind, and any limits of which the record's are
\* not the lower: what the validation counted is all the projection has to go
\* through, as long as there is no set, into which only the projection looks.
THEOREM AcceptedIsNotCut == Spec => []AcceptedNotCut
<1>1. Init => RecordInv
  BY DEF Init, RecordInv, AcceptedNotCut
<1>2. RecordInv /\ [Next]_vars => RecordInv'
  BY RecordStays
<1>3. RecordInv => AcceptedNotCut
  BY DEF RecordInv
<1>4. QED
  BY <1>1, <1>2, <1>3, PTL DEF Spec
=============================================================================
