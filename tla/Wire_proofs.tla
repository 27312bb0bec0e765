---------------------------- MODULE Wire_proofs ----------------------------
(***************************************************************************)
(* What a reader finds in a stream of units that is made of whole frames.  *)
(***************************************************************************)
EXTENDS Wire, Sequence_proofs, TLAPS

Frame == [type : {"req", "rsp", "note", "garbage"}, of : Request \cup Note,
          msgs : Seq(Message)]
Unit == Frame \X Nat
Size(f) == HeadLen + BodyLen(f)

LEMMA UnitsType ==
  ASSUME NEW f \in Frame
  PROVE  /\ Size(f) \in Nat /\ Size(f) > HeadLen
         /\ Units(f) \in Seq(Unit) /\ Len(Units(f)) = Size(f)
         /\ \A j \in 1 .. Size(f) : Units(f)[j] = <<f, j>>
<1>1. f.msgs \in Seq(Message)
  BY DEF Frame
<1>2. Len(f.msgs) \in Nat
  BY <1>1, LenProperties
<1>3. Size(f) \in Nat /\ Size(f) > HeadLen
  BY <1>2, WireAssumption DEF Size, BodyLen
<1>4. Units(f) = [i \in 1 .. Size(f) |-> <<f, i>>]
  BY DEF Units, Size
<1>5. \A i \in 1 .. Size(f) : <<f, i>> \in Unit
  BY <1>3 DEF Unit
<1>6. Units(f) \in Seq(Unit) /\ Len(Units(f)) = Size(f)
  BY <1>3, <1>4, <1>5, IsASeq, LenProperties
<1> QED
  BY <1>3, <1>4, <1>6

-----------------------------------------------------------------------------
(* The stream s is made of the frames fs; o says after how many units each *)
(* frame begins.                                                           *)
Cut(s, fs, o) ==
  /\ o[1] = 0 /\ o[Len(fs) + 1] = Len(s)
  /\ \A k, l \in 1 .. Len(fs) + 1 : k <= l => o[k] <= o[l]
  /\ \A k \in 1 .. Len(fs) :
       /\ o[k + 1] = o[k] + Size(fs[k])
       /\ \A j \in 1 .. Size(fs[k]) : s[o[k] + j] = <<fs[k], j>>

Framed(s, fs) == \E o \in [1 .. Len(fs) + 1 -> Nat] : Cut(s, fs, o)

LEMMA FramedNone == Framed(<<>>, <<>>)
<1> DEFINE o == [k \in 1 .. Len(<<>>) + 1 |-> 0]
<1>1. Len(<<>>) = 0
  OBVIOUS
<1>2. Cut(<<>>, <<>>, o)
  BY <1>1 DEF Cut
<1> QED
  BY <1>2 DEF Framed

(* A writer appends whole frames.                                          *)
LEMMA FramedMore ==
  ASSUME NEW s \in Seq(Unit), NEW fs \in Seq(Frame), NEW f \in Frame,
         Framed(s, fs)
  PROVE  Framed(s \o Units(f), Append(fs, f))
<1>1. PICK o \in [1 .. Len(fs) + 1 -> Nat] : Cut(s, fs, o)
  BY DEF Framed
<1> DEFINE t == s \o Units(f)
           gs == Append(fs, f)
           p == [k \in 1 .. Len(gs) + 1 |->
                   IF k <= Len(fs) + 1 THEN o[k] ELSE Len(s) + Size(f)]
<1>2. /\ Len(fs) \in Nat /\ Len(s) \in Nat /\ Len(gs) = Len(fs) + 1
      /\ gs[Len(fs) + 1] = f /\ \A k \in 1 .. Len(fs) : gs[k] = fs[k]
  BY AppendProperties, LenProperties
<1>3. /\ Units(f) \in Seq(Unit) /\ Len(Units(f)) = Size(f) /\ Size(f) \in Nat
      /\ \A j \in 1 .. Size(f) : Units(f)[j] = <<f, j>>
  BY UnitsType
<1>4. /\ Len(t) = Len(s) + Size(f)
      /\ \A i \in 1 .. Len(s) : t[i] = s[i]
      /\ \A j \in 1 .. Size(f) : t[Len(s) + j] = <<f, j>>
  <2>1. /\ Len(t) = Len(s) + Len(Units(f))
        /\ \A i \in 1 .. Len(s) + Len(Units(f)) :
             t[i] = IF i <= Len(s) THEN s[i] ELSE Units(f)[i - Len(s)]
    BY <1>3, ConcatProperties
  <2>2. ASSUME NEW j \in 1 .. Size(f)
        PROVE  t[Len(s) + j] = <<f, j>>
    <3>1. /\ Len(s) + j \in 1 .. Len(s) + Len(Units(f))
          /\ ~(Len(s) + j <= Len(s)) /\ (Len(s) + j) - Len(s) = j
      BY <1>2, <1>3
    <3> QED
      BY <1>3, <2>1, <3>1
  <2>3. \A i \in 1 .. Len(s) : t[i] = s[i]
    BY <1>2, <1>3, <2>1
  <2> QED
    BY <1>3, <2>1, <2>2, <2>3
<1>5. \A k \in 1 .. Len(fs) + 1 : o[k] \in Nat /\ o[k] <= Len(s)
  BY <1>1, <1>2 DEF Cut
<1>6. p \in [1 .. Len(gs) + 1 -> Nat]
  BY <1>2, <1>3, <1>5
<1>7. p[1] = 0 /\ p[Len(gs) + 1] = Len(t)
  BY <1>1, <1>2, <1>4 DEF Cut
<1>8. \A k, l \in 1 .. Len(gs) + 1 : k <= l => p[k] <= p[l]
  BY <1>1, <1>2, <1>3, <1>5 DEF Cut
<1>9. ASSUME NEW k \in 1 .. Len(gs)
      PROVE  /\ p[k + 1] = p[k] + Size(gs[k])
             /\ \A j \in 1 .. Size(gs[k]) : t[p[k] + j] = <<gs[k], j>>
  <2>1. CASE k = Len(fs) + 1
    BY <1>1, <1>2, <1>3, <1>4, <2>1 DEF Cut
  <2>2. CASE k \in 1 .. Len(fs)
    <3>1. /\ gs[k] = fs[k] /\ p[k] = o[k] /\ p[k + 1] = o[k + 1]
          /\ k + 1 \in 1 .. Len(fs) + 1
      BY <1>2, <2>2
    <3>2. /\ o[k + 1] = o[k] + Size(fs[k]) /\ o[k + 1] <= Len(s)
          /\ o[k] \in Nat /\ Size(fs[k]) \in Nat
      <4>1. fs[k] \in Frame
        BY <2>2, ElementOfSeq
      <4> QED
        BY <1>1, <1>2, <1>5, <2>2, <3>1, <4>1, UnitsType DEF Cut
    <3>3. ASSUME NEW j \in 1 .. Size(fs[k])
          PROVE  t[o[k] + j] = <<fs[k], j>>
      <4>1. o[k] + j \in 1 .. Len(s)
        BY <1>2, <3>2
      <4> QED
        BY <1>1, <1>4, <2>2, <4>1 DEF Cut
    <3> QED
      BY <3>1, <3>2, <3>3
  <2>3. k = Len(fs) + 1 \/ k \in 1 .. Len(fs)
    BY <1>2
  <2> QED
    BY <2>1, <2>2, <2>3
<1>10. Cut(t, gs, p)
  BY <1>7, <1>8, <1>9 DEF Cut
<1> QED
  BY <1>6, <1>10 DEF Framed

(* A reader finds the first frame in front, and whole frames behind it.    *)
LEMMA FramedFirst ==
  ASSUME NEW s \in Seq(Unit), NEW fs \in Seq(Frame), s # <<>>, Framed(s, fs)
  PROVE  /\ fs # <<>> /\ Head(s)[1] = Head(fs)
         /\ Len(s) >= Size(Head(fs))
         /\ \A j \in 1 .. Size(Head(fs)) : s[j] = Units(Head(fs))[j]
         /\ Framed(SubSeq(s, Size(Head(fs)) + 1, Len(s)), Tail(fs))
<1>1. PICK o \in [1 .. Len(fs) + 1 -> Nat] : Cut(s, fs, o)
  BY DEF Framed
<1>2. Len(fs) \in Nat /\ Len(s) \in Nat /\ Len(s) > 0 /\ Head(s) = s[1]
  BY LenProperties, EmptySeq
<1>3. Len(fs) > 0
  BY <1>1, <1>2 DEF Cut
<1> DEFINE f == Head(fs)
           n == Size(f)
           t == SubSeq(s, n + 1, Len(s))
           gs == Tail(fs)
           p == [k \in 1 .. Len(gs) + 1 |-> o[k + 1] - n]
<1>4. /\ fs # <<>> /\ f = fs[1] /\ f \in Frame
      /\ gs \in Seq(Frame) /\ Len(gs) = Len(fs) - 1
      /\ \A k \in 1 .. Len(gs) : gs[k] = fs[k + 1]
  BY <1>2, <1>3, HeadTailProperties, ElementOfSeq, EmptySeq
<1>5. /\ n \in Nat /\ n > 0
      /\ \A j \in 1 .. n : Units(f)[j] = <<f, j>>
  BY <1>4, UnitsType, WireAssumption
<1>6. o[2] = n /\ \A k \in 2 .. Len(fs) + 1 : o[k] \in Nat /\ n <= o[k]
  <2>1. 1 \in 1 .. Len(fs) /\ 1 + 1 = 2 /\ 2 \in 1 .. Len(fs) + 1
    BY <1>2, <1>3
  <2>2. o[2] = o[1] + Size(fs[1]) /\ o[1] = 0
    BY <1>1, <2>1 DEF Cut
  <2>3. o[2] = n
    BY <1>4, <1>5, <2>2
  <2>4. ASSUME NEW k \in 2 .. Len(fs) + 1
        PROVE  o[k] \in Nat /\ o[2] <= o[k]
    <3>1. k \in 1 .. Len(fs) + 1 /\ 2 <= k
      BY <1>2
    <3> QED
      BY <1>1, <2>1, <3>1 DEF Cut
  <2> QED
    BY <2>3, <2>4
<1>7. n <= Len(s)
  BY <1>1, <1>2, <1>3, <1>6 DEF Cut
<1>8. \A j \in 1 .. n : s[j] = <<f, j>>
  BY <1>1, <1>2, <1>3, <1>4, <1>5 DEF Cut
<1>9. Head(s)[1] = f
  BY <1>2, <1>5, <1>8
<1>10. Len(t) = Len(s) - n /\ \A i \in 1 .. Len(s) - n : t[i] = s[n + i]
  BY <1>2, <1>5, <1>7
<1>11. p \in [1 .. Len(gs) + 1 -> Nat]
  BY <1>2, <1>3, <1>4, <1>5, <1>6
<1>12. p[1] = 0 /\ p[Len(gs) + 1] = Len(t)
  BY <1>1, <1>2, <1>3, <1>4, <1>5, <1>6, <1>10 DEF Cut
<1>13. ASSUME NEW k \in 1 .. Len(gs) + 1, NEW l \in 1 .. Len(gs) + 1, k <= l
       PROVE  p[k] <= p[l]
  <2>1. /\ k + 1 \in 2 .. Len(fs) + 1 /\ l + 1 \in 2 .. Len(fs) + 1
        /\ k + 1 \in 1 .. Len(fs) + 1 /\ l + 1 \in 1 .. Len(fs) + 1
        /\ k + 1 <= l + 1
    BY <1>2, <1>3, <1>4, <1>13
  <2>2. o[k + 1] <= o[l + 1] /\ o[k + 1] \in Nat /\ o[l + 1] \in Nat
    BY <1>1, <1>6, <1>13, <2>1 DEF Cut
  <2> QED
    BY <1>5, <2>2
<1>14. ASSUME NEW k \in 1 .. Len(gs)
       PROVE  /\ p[k + 1] = p[k] + Size(gs[k])
              /\ \A j \in 1 .. Size(gs[k]) : t[p[k] + j] = <<gs[k], j>>
  <2>1. /\ k + 1 \in 1 .. Len(fs) /\ gs[k] = fs[k + 1] /\ k + 2 \in 2 .. Len(fs) + 1
        /\ p[k] = o[k + 1] - n /\ p[k + 1] = o[k + 2] - n
        /\ k + 1 \in 2 .. Len(fs) + 1
    BY <1>2, <1>3, <1>4
  <2>2. /\ o[k + 2] = o[k + 1] + Size(gs[k]) /\ Size(gs[k]) \in Nat
        /\ \A j \in 1 .. Size(gs[k]) : s[o[k + 1] + j] = <<gs[k], j>>
        /\ o[k + 2] <= Len(s)
    <3>1. gs[k] \in Frame
      BY <1>4, ElementOfSeq
    <3>2. (k + 1) + 1 = k + 2
      BY <1>2, <1>4
    <3>3. /\ o[(k + 1) + 1] = o[k + 1] + Size(fs[k + 1])
          /\ \A j \in 1 .. Size(fs[k + 1]) : s[o[k + 1] + j] = <<fs[k + 1], j>>
      BY <1>1, <2>1 DEF Cut
    <3>4. o[k + 2] <= o[Len(fs) + 1] /\ o[Len(fs) + 1] = Len(s)
      BY <1>1, <1>2, <1>3, <2>1 DEF Cut
    <3> QED
      BY <2>1, <3>1, <3>2, <3>3, <3>4, UnitsType
  <2>3. ASSUME NEW j \in 1 .. Size(gs[k])
        PROVE  t[p[k] + j] = <<gs[k], j>>
    <3> HIDE DEF n, gs, p
    <3>1. /\ p[k] = o[k + 1] - n /\ o[k + 1] \in Nat /\ n <= o[k + 1]
          /\ n \in Nat /\ j \in Nat /\ j >= 1 /\ Len(s) \in Nat
          /\ o[k + 1] + j <= Len(s)
      BY <1>2, <1>5, <1>6, <2>1, <2>2, SMTT(30)
    <3>2. p[k] + j \in 1 .. Len(s) - n /\ n + (p[k] + j) = o[k + 1] + j
      BY <3>1, SMTT(30)
    <3> QED
      BY <1>10, <2>2, <3>2
  <2> QED
    <3>1. o[k + 1] \in Nat /\ n \in Nat
      BY <1>5, <1>6, <2>1
    <3>2. p[k + 1] = p[k] + Size(gs[k])
      BY <2>1, <2>2, <3>1
    <3> QED
      BY <2>3, <3>2
<1>15. Cut(t, gs, p)
  BY <1>12, <1>13, <1>14 DEF Cut
<1> QED
  BY <1>4, <1>5, <1>7, <1>8, <1>9, <1>11, <1>15 DEF Framed

(* A piece that has the length of its frame is this frame.                 *)
LEMMA ReadFrame ==
  ASSUME NEW x \in Seq(Unit), NEW t \in Seq(Unit), NEW fs \in Seq(Frame),
         x # <<>>, Len(x) = HeadLen + LengthIn(x), Framed(x \o t, fs)
  PROVE  fs # <<>> /\ Decode(x) = Head(fs) /\ Framed(t, Tail(fs))
<1> DEFINE s == x \o t
           f == Head(fs)
<1>1. /\ s \in Seq(Unit) /\ Len(s) = Len(x) + Len(t)
      /\ \A i \in 1 .. Len(x) : s[i] = x[i]
      /\ Len(x) \in Nat /\ Len(x) > 0 /\ Head(x) = x[1] /\ Head(s) = s[1]
      /\ Len(t) \in Nat
  BY ConcatProperties, LenProperties, EmptySeq
<1>2. s # <<>> /\ Framed(s, fs)
  BY <1>1, EmptySeq
<1> HIDE DEF s
<1>3. /\ fs # <<>> /\ Head(s)[1] = f /\ Len(s) >= Size(f)
      /\ \A j \in 1 .. Size(f) : s[j] = Units(f)[j]
      /\ Framed(SubSeq(s, Size(f) + 1, Len(s)), Tail(fs))
  BY <1>1, <1>2, FramedFirst
<1>4. f \in Frame
  BY <1>3, HeadTailProperties
<1>5. /\ Size(f) \in Nat /\ Units(f) \in Seq(Unit) /\ Len(Units(f)) = Size(f)
      /\ Units(f)[1] = <<f, 1>> /\ Size(f) > 0
  BY <1>4, UnitsType, WireAssumption
<1>6. Len(x) = Size(f)
  <2>1. Head(x) = Head(s)
    BY <1>1
  <2> QED
    BY <1>3, <2>1 DEF LengthIn, Size
<1>7. x = Units(f)
  <2>1. \A i \in 1 .. Len(x) : x[i] = Units(f)[i]
    BY <1>1, <1>3, <1>6
  <2> QED
    BY <1>5, <1>6, <2>1, SeqEqual
<1>8. Decode(x) = f
  BY <1>1, <1>5, <1>7 DEF Decode
<1>9. SubSeq(s, Size(f) + 1, Len(s)) = t
  BY <1>6, CutConcat DEF s
<1> QED
  BY <1>3, <1>8, <1>9
=============================================================================
