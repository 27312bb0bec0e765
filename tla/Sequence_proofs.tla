-------------------------- MODULE Sequence_proofs --------------------------
(* Facts about sequences that the proofs of several modules rest on.       *)
EXTENDS Integers, SequencesExt, SequenceTheorems, TLAPS

(* A sequence is cut in two by SubSeq.                                     *)
LEMMA CutSeq ==
  ASSUME NEW S, NEW q \in Seq(S), NEW n \in 0 .. Len(q)
  PROVE  /\ SubSeq(q, 1, n) \in Seq(S) /\ Len(SubSeq(q, 1, n)) = n
         /\ \A i \in 1 .. n : SubSeq(q, 1, n)[i] = q[i]
         /\ SubSeq(q, n + 1, Len(q)) \in Seq(S)
         /\ Len(SubSeq(q, n + 1, Len(q))) = Len(q) - n
         /\ \A i \in 1 .. Len(q) - n : SubSeq(q, n + 1, Len(q))[i] = q[n + i]
         /\ SubSeq(q, 1, n) \o SubSeq(q, n + 1, Len(q)) = q
<1>1. SubSeq(q, 1, n) \o SubSeq(q, n + 1, Len(q)) = SubSeq(q, 1, Len(q))
  <2>1. 1 \in 1 .. Len(q) + 1 /\ n \in 1 - 1 .. Len(q) /\ Len(q) \in n .. Len(q)
    OBVIOUS
  <2> QED
    BY <2>1, ConcatAdjacentSubSeq
<1>2. SubSeq(q, 1, Len(q)) = q
  BY SubSeqFull
<1>3. /\ SubSeq(q, 1, n) \in Seq(S) /\ Len(SubSeq(q, 1, n)) = n
      /\ \A i \in 1 .. n : SubSeq(q, 1, n)[i] = q[i]
  OBVIOUS
<1>4. /\ SubSeq(q, n + 1, Len(q)) \in Seq(S)
      /\ Len(SubSeq(q, n + 1, Len(q))) = Len(q) - n
      /\ \A i \in 1 .. Len(q) - n : SubSeq(q, n + 1, Len(q))[i] = q[n + i]
  OBVIOUS
<1> QED
  BY <1>1, <1>2, <1>3, <1>4

(* The other way round: the two parts of a concatenation.                  *)
LEMMA CutConcat ==
  ASSUME NEW S, NEW p \in Seq(S), NEW q \in Seq(S)
  PROVE  /\ SubSeq(p \o q, 1, Len(p)) = p
         /\ SubSeq(p \o q, Len(p) + 1, Len(p \o q)) = q
<1> DEFINE l == SubSeq(p \o q, 1, Len(p))
           r == SubSeq(p \o q, Len(p) + 1, Len(p \o q))
<1>1. /\ p \o q \in Seq(S) /\ Len(p \o q) = Len(p) + Len(q)
      /\ \A i \in 1 .. Len(p) : (p \o q)[i] = p[i]
      /\ \A i \in 1 .. Len(q) : (p \o q)[Len(p) + i] = q[i]
  BY ConcatProperties
<1>2. Len(p) \in 0 .. Len(p \o q)
  BY <1>1
<1>3. /\ l \in Seq(S) /\ Len(l) = Len(p)
      /\ \A i \in 1 .. Len(p) : l[i] = (p \o q)[i]
      /\ r \in Seq(S) /\ Len(r) = Len(q)
      /\ \A i \in 1 .. Len(q) : r[i] = (p \o q)[Len(p) + i]
  BY <1>1, <1>2, CutSeq
<1> HIDE DEF l, r
<1>4. l = p
  BY <1>1, <1>3, SeqEqual
<1>5. r = q
  BY <1>1, <1>3, SeqEqual
<1> QED
  BY <1>4, <1>5 DEF l, r

(* The elements of a concatenation.                                        *)
LEMMA ConcatSet ==
  ASSUME NEW S, NEW p \in Seq(S), NEW q \in Seq(S)
  PROVE  ToSet(p \o q) = ToSet(p) \cup ToSet(q)
<1>1. /\ DOMAIN p = 1 .. Len(p) /\ DOMAIN q = 1 .. Len(q)
      /\ DOMAIN (p \o q) = 1 .. Len(p) + Len(q)
      /\ \A i \in 1 .. Len(p) : (p \o q)[i] = p[i]
      /\ \A i \in 1 .. Len(q) : (p \o q)[Len(p) + i] = q[i]
      /\ Len(p) \in Nat /\ Len(q) \in Nat
  BY ConcatProperties
<1>2. ASSUME NEW i \in 1 .. Len(p) + Len(q)
      PROVE  (p \o q)[i] \in ToSet(p) \cup ToSet(q)
  <2>1. CASE i <= Len(p)
    BY <1>1, <2>1 DEF ToSet
  <2>2. CASE i > Len(p)
    <3>1. i - Len(p) \in 1 .. Len(q) /\ i = Len(p) + (i - Len(p))
      BY <1>1, <2>2
    <3> QED
      BY <1>1, <3>1 DEF ToSet
  <2> QED
    BY <1>1, <2>1, <2>2
<1>3. ASSUME NEW i \in 1 .. Len(p)
      PROVE  p[i] \in ToSet(p \o q)
  BY <1>1 DEF ToSet
<1>4. ASSUME NEW i \in 1 .. Len(q)
      PROVE  q[i] \in ToSet(p \o q)
  <2>1. Len(p) + i \in 1 .. Len(p) + Len(q)
    BY <1>1
  <2> QED
    BY <1>1, <2>1 DEF ToSet
<1> HIDE DEF ToSet
<1>5. \A x : x \in ToSet(p \o q) => x \in ToSet(p) \cup ToSet(q)
  BY <1>1, <1>2 DEF ToSet
<1>6. \A x : x \in ToSet(p) \/ x \in ToSet(q) => x \in ToSet(p \o q)
  <2>1. /\ \A x \in ToSet(p) : \E i \in 1 .. Len(p) : x = p[i]
        /\ \A x \in ToSet(q) : \E i \in 1 .. Len(q) : x = q[i]
    BY <1>1 DEF ToSet
  <2> QED
    BY <1>3, <1>4, <2>1, Zenon
<1> QED
  BY ONLY <1>5, <1>6

LEMMA AppendSet ==
  ASSUME NEW S, NEW q \in Seq(S), NEW e \in S
  PROVE  ToSet(Append(q, e)) = ToSet(q) \cup {e}
<1>1. /\ DOMAIN q = 1 .. Len(q) /\ DOMAIN Append(q, e) = 1 .. Len(q) + 1
      /\ \A i \in 1 .. Len(q) : Append(q, e)[i] = q[i]
      /\ Append(q, e)[Len(q) + 1] = e
      /\ 1 .. Len(q) + 1 = 1 .. Len(q) \cup {Len(q) + 1}
      /\ Len(q) \in Nat
  BY AppendProperties
<1> QED
  BY <1>1 DEF ToSet

(* Parentheses between concatenations do not matter.                       *)
LEMMA Regroup ==
  ASSUME NEW S
  PROVE  \A a, b, c \in Seq(S) :
           (a \o b) \o c = a \o (b \o c) /\ a \o b \in Seq(S)
BY ConcatAssociative, ConcatProperties

(* The first element of a middle part moves to the part before it.         *)
LEMMA MoveFirst ==
  ASSUME NEW S, NEW p \in Seq(S), NEW q \in Seq(S), NEW r \in Seq(S), q # <<>>
  PROVE  p \o (q \o r) = Append(p, Head(q)) \o (Tail(q) \o r)
<1> DEFINE x == <<Head(q)>>
<1>1. Head(q) \in S /\ Tail(q) \in Seq(S)
  BY HeadTailProperties
<1>2. x \in Seq(S)
  BY <1>1
<1>3. q = x \o Tail(q)
  <2>1. 1 \in 1 .. Len(q) /\ Len(q) \in 1 .. Len(q) /\ q[1] = Head(q)
    BY LenProperties, EmptySeq
  <2>2. SubSeq(q, 1, Len(q)) = <<q[1]>> \o SubSeq(q, 1 + 1, Len(q))
    BY <2>1, SubSeqRecursiveFirst
  <2> QED
    BY <2>1, <2>2, SubSeqFull, TailIsSubSeq
<1>4. Append(p, Head(q)) = p \o x
  BY <1>1, AppendIsConcat
<1> HIDE DEF x
<1>5. \A a, b, c \in Seq(S) : (a \o b) \o c = a \o (b \o c)
  BY Regroup, SMTT(30)
<1>6. q \o r = x \o (Tail(q) \o r)
  <2>1. (x \o Tail(q)) \o r = x \o (Tail(q) \o r)
    BY <1>1, <1>2, <1>5
  <2>2. q \o r = (x \o Tail(q)) \o r
    BY <1>3, Zenon
  <2> QED
    BY <2>1, <2>2, Zenon
<1>7. Tail(q) \o r \in Seq(S)
  BY <1>1, ConcatProperties
<1>8. p \o (x \o (Tail(q) \o r)) = (p \o x) \o (Tail(q) \o r)
  BY <1>2, <1>5, <1>7
<1> QED
  BY <1>4, <1>6, <1>8

(* A prefix is what a sequence starts with.                                *)
LEMMA StartIsPrefix ==
  ASSUME NEW S, NEW p \in Seq(S), NEW q \in Seq(S)
  PROVE  IsPrefix(p, p \o q)
<1>1. SubSeq(p \o q, 1, Len(p)) = p /\ SubSeq(p, 1, Len(p)) = p
  BY CutConcat, SubSeqFull
<1>2. Len(p) <= Len(p \o q)
  BY ConcatProperties, LenProperties
<1> QED
  BY <1>1, <1>2 DEF IsPrefix

(* What is removed in front and appended behind leaves the whole alone.    *)
LEMMA TakeFirst ==
  ASSUME NEW S, NEW p \in Seq(S), NEW q \in Seq(S), q # <<>>
  PROVE  /\ q[1] \in S /\ q[1] = Head(q)
         /\ RemoveAt(q, 1) = Tail(q) /\ Tail(q) \in Seq(S)
         /\ Append(p, q[1]) \o RemoveAt(q, 1) = p \o q
<1>1. q[1] = Head(q) /\ Head(q) \in S /\ Tail(q) \in Seq(S)
  BY HeadTailProperties
<1>2. RemoveAt(q, 1) = Tail(q)
  <2>1. SubSeq(q, 1, 1 - 1) = <<>> /\ SubSeq(q, 1 + 1, Len(q)) = Tail(q)
    BY SubSeqEmpty, TailIsSubSeq
  <2> QED
    BY <1>1, <2>1, ConcatEmptySeq DEF RemoveAt
<1>3. p \o (q \o <<>>) = Append(p, Head(q)) \o (Tail(q) \o <<>>)
  BY MoveFirst, EmptySeq
<1> QED
  BY <1>1, <1>2, <1>3, ConcatEmptySeq
=============================================================================
