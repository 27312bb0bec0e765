--------------------------- MODULE DbPool_proofs ---------------------------
(* Theorems about DbPool, for any callers, connections, pool size and      *)
(* bounds.                                                                 *)
EXTENDS DbPool, SequenceTheorems, FiniteSetTheorems, TLAPS

(* Elements of a sequence to which one is appended.                        *)
LEMMA AppendSet ==
  ASSUME NEW S, NEW q \in Seq(S), NEW x \in S
  PROVE  /\ Append(q, x) \in Seq(S)
         /\ ToSet(Append(q, x)) = ToSet(q) \cup {x}
         /\ IsInjective(q) /\ x \notin ToSet(q) => IsInjective(Append(q, x))
<1>1. /\ Append(q, x) \in Seq(S) /\ Len(Append(q, x)) = Len(q) + 1
      /\ \A i \in 1 .. Len(q) : Append(q, x)[i] = q[i]
      /\ Append(q, x)[Len(q) + 1] = x
      /\ DOMAIN Append(q, x) = 1 .. Len(q) + 1 /\ DOMAIN q = 1 .. Len(q)
      /\ Len(q) \in Nat
  BY AppendProperties, LenProperties
<1> DEFINE r == Append(q, x)
<1> HIDE DEF r
<1>2. /\ \A i \in 1 .. Len(q) : r[i] = q[i]
      /\ r[Len(q) + 1] = x /\ DOMAIN r = 1 .. Len(q) + 1
      /\ DOMAIN q = 1 .. Len(q) /\ Len(q) \in Nat
  BY <1>1 DEF r
<1>3. ToSet(r) = ToSet(q) \cup {x}
  BY <1>2 DEF ToSet
<1>4. ASSUME IsInjective(q), x \notin ToSet(q)
      PROVE  IsInjective(r)
  BY <1>2, <1>4 DEF IsInjective, ToSet
<1> QED
  BY <1>1, <1>3, <1>4 DEF r

(* A sequence without its first element.                                   *)
LEMMA TailSet ==
  ASSUME NEW S, NEW q \in Seq(S), q # <<>>
  PROVE  /\ Tail(q) \in Seq(S) /\ Head(q) \in S /\ Head(q) \in ToSet(q)
         /\ ToSet(q) = ToSet(Tail(q)) \cup {Head(q)}
         /\ IsInjective(q) => IsInjective(Tail(q)) /\ Head(q) \notin ToSet(Tail(q))
<1>1. /\ Tail(q) \in Seq(S) /\ Len(Tail(q)) = Len(q) - 1
      /\ \A i \in 1 .. Len(q) - 1 : Tail(q)[i] = q[i + 1]
      /\ Head(q) = q[1] /\ Head(q) \in S
      /\ Len(q) \in Nat /\ Len(q) > 0 /\ DOMAIN q = 1 .. Len(q)
      /\ DOMAIN Tail(q) = 1 .. Len(q) - 1
  BY HeadTailProperties, LenProperties, EmptySeq
<1> DEFINE t == Tail(q)  h == Head(q)
<1> HIDE DEF t, h
<1>2. /\ \A i \in 1 .. Len(q) - 1 : t[i] = q[i + 1]
      /\ h = q[1] /\ Len(q) \in Nat /\ Len(q) > 0
      /\ DOMAIN q = 1 .. Len(q) /\ DOMAIN t = 1 .. Len(q) - 1
  BY <1>1 DEF t, h
<1>3. h \in ToSet(q)
  BY <1>2 DEF ToSet
<1>4. ASSUME NEW i \in 1 .. Len(q)
      PROVE  q[i] = h \/ q[i] \in ToSet(t)
  <2>1. CASE i = 1
    BY <1>2, <2>1
  <2>2. CASE i # 1
    <3>1. i - 1 \in 1 .. Len(q) - 1 /\ (i - 1) + 1 = i
      BY <1>2, <2>2
    <3>2. t[i - 1] = q[i]
      BY <1>2, <3>1
    <3> QED
      BY <1>2, <3>1, <3>2 DEF ToSet
  <2> QED
    BY <2>1, <2>2
<1>5. ASSUME NEW i \in 1 .. Len(q) - 1
      PROVE  t[i] \in ToSet(q) /\ i + 1 \in 1 .. Len(q) /\ t[i] = q[i + 1]
  BY <1>2 DEF ToSet
<1>6. ToSet(q) = ToSet(t) \cup {h}
  BY <1>2, <1>3, <1>4, <1>5, SMTT(30) DEF ToSet
<1>7. ASSUME IsInjective(q)
      PROVE  IsInjective(t) /\ h \notin ToSet(t)
  <2>1. \A i, j \in 1 .. Len(q) : q[i] = q[j] => i = j
    BY <1>2, <1>7 DEF IsInjective
  <2>2. ASSUME NEW i \in 1 .. Len(q) - 1, NEW j \in 1 .. Len(q) - 1, t[i] = t[j]
        PROVE  i = j
    BY <1>5, <2>1, <2>2
  <2>3. ASSUME NEW i \in 1 .. Len(q) - 1, t[i] = h
        PROVE  FALSE
    <3>1. 1 \in 1 .. Len(q) /\ i + 1 # 1
      BY <1>2
    <3> QED
      BY <1>2, <1>5, <2>1, <2>3, <3>1
  <2> QED
    BY <1>2, <2>2, <2>3 DEF IsInjective, ToSet
<1> QED
  BY <1>1, <1>3, <1>6, <1>7 DEF t, h

LEMMA NoneIdle ==
  ASSUME NEW q \in Seq(Conn)
  PROVE  None \notin ToSet(q)
BY PoolAssumption, LenProperties, ElementOfSeq DEF ToSet

(* The pool that the constructor leaves.                                   *)
LEMMA FirstPool ==
  /\ SetToSeq(First) \in Seq(Conn) /\ ToSet(SetToSeq(First)) = First
  /\ IsInjective(SetToSeq(First))
<1>1. First \subseteq Conn /\ IsFiniteSet(First)
  BY PoolAssumption, FS_Subset
<1>2. Cardinality(First) \in Nat /\ ExistsBijection(1 .. Cardinality(First), First)
  BY <1>1, FS_CardinalityType
<1> DEFINE n == Cardinality(First)
           q == SetToSeq(First)
<1>3. \E f \in [1 .. n -> First] : IsInjective(f)
  BY <1>2 DEF ExistsBijection, Bijection, Injection
<1>4. q \in [1 .. n -> First] /\ IsInjective(q)
  BY <1>3 DEF SetToSeq
<1> HIDE DEF q
<1>5. q \in Seq(Conn)
  BY <1>1, <1>2, <1>4, IsASeq, SeqMonotonic
<1>6. IsFiniteSet(1 .. n) /\ Cardinality(1 .. n) = n
  BY <1>2, FS_Interval
<1>7. q \in Injection(1 .. n, First)
  BY <1>4 DEF Injection
<1>8. q \in Surjection(1 .. n, First)
  BY <1>1, <1>6, <1>7, FS_Injection
<1>9. ToSet(q) = First
  BY <1>4, <1>8 DEF Surjection, ToSet
<1> QED
  BY <1>4, <1>5, <1>9 DEF q

-----------------------------------------------------------------------------
(* A connection is in one place only.                                      *)
Apart ==
  /\ IsInjective(pool)
  /\ hand \notin ToSet(pool)
  /\ \A c \in Caller : outer[c] \notin ToSet(pool) /\ inner[c] \notin ToSet(pool)
  /\ \A c \in Caller : outer[c] # None =>
       /\ outer[c] # hand
       /\ \A d \in Caller : outer[c] # inner[d] /\ (outer[c] = outer[d] => c = d)
  /\ \A c \in Caller : inner[c] # None =>
       /\ inner[c] # hand
       /\ \A d \in Caller : inner[c] = inner[d] => c = d

(* What a caller holds where it is; only a friend list nests.              *)
PhaseInv ==
  /\ \A c \in Caller :
       /\ pc[c] = "using" => outer[c] # None
       /\ pc[c] # "using" => inner[c] = None
       /\ pc[c] # "using" /\ outer[c] # None =>
            program = "chat" /\ c \in Nests /\ pc[c] \in {"lock", "asleep"}
       /\ friends[c] > 0 \/ inner[c] # None => program = "chat" /\ c \in Nests
       /\ outer[c] = None => friends[c] = 0
       /\ pc[c] \in {"late", "relock"} => program = "gate"
  /\ hand # None => checker = "probe" /\ todo > 0

TInv == TypeOK /\ Apart /\ PhaseInv

LEMMA InitTInv == Init => TInv
<1> SUFFICES ASSUME Init PROVE TInv
  OBVIOUS
<1> USE PoolAssumption
<1>1. /\ pool \in Seq(Conn) /\ IsInjective(pool) /\ ToSet(pool) \subseteq Conn
  BY FirstPool DEF Init
<1>2. TypeOK
  BY <1>1 DEF Init, TypeOK, PcSet
<1>3. Apart
  BY <1>1 DEF Init, Apart
<1>4. PhaseInv
  BY DEF Init, PhaseInv
<1> QED
  BY <1>2, <1>3, <1>4 DEF TInv

-----------------------------------------------------------------------------
LEMMA NotifyPc ==
  ASSUME NEW at \in [Caller -> PcSet], NotifyOne(at)
  PROVE  /\ pc' \in [Caller -> PcSet]
         /\ \A c \in Caller : pc'[c] = at[c] \/ (at[c] = "asleep" /\ pc'[c] = "lock")
<1>1. CASE \E d \in Caller : at[d] = "asleep"
  <2>1. PICK d \in Caller : at[d] = "asleep" /\ pc' = [at EXCEPT ![d] = "lock"]
    BY <1>1 DEF NotifyOne
  <2> QED
    BY <2>1 DEF PcSet
<1>2. CASE ~ \E d \in Caller : at[d] = "asleep"
  BY <1>2 DEF NotifyOne
<1> QED
  BY <1>1, <1>2

(* Steps that move no connection: what is left to show is about pc.        *)
LEMMA StillStep ==
  ASSUME TInv,
         UNCHANGED <<program, pool, outer, inner, hand>>
  PROVE  Live' = Live /\ Apart'
BY DEF TInv, Apart, Live, Held

LEMMA CallerStill ==
  ASSUME TInv, NEW c \in Caller,
         Call(c) \/ Wait(c) \/ SpuriousWakeup(c) \/ Timeout(c) \/ GiveUp(c) \/ GetUser(c)
  PROVE  TInv' /\ Live' = Live /\ failCount' = failCount /\ program' = program
<1>1. /\ UNCHANGED <<program, pool, outer, inner, hand>>
      /\ UNCHANGED <<failCount, checker, todo, fresh, broken, up, faults>>
  BY DEF Call, Wait, SpuriousWakeup, Timeout, GiveUp, GetUser, checkVars, mysqlVars
<1>2. Live' = Live /\ Apart'
  BY <1>1, StillStep
<1>3. TypeOK'
  <2>1. /\ pc' \in [Caller -> PcSet]
        /\ calls' \in [Caller -> Nat] /\ friends' \in [Caller -> Nat]
    <3> USE DEF TInv, TypeOK
    <3>1. CASE Call(c)
      BY <3>1 DEF Call, PcSet
    <3>2. CASE GetUser(c)
      BY <3>2 DEF GetUser, PcSet
    <3>3. CASE Wait(c) \/ SpuriousWakeup(c) \/ Timeout(c) \/ GiveUp(c)
      BY <3>3 DEF Wait, SpuriousWakeup, Timeout, GiveUp, PcSet
    <3> QED
      BY <3>1, <3>2, <3>3
  <2> QED
    BY <1>1, <1>2, <2>1 DEF TInv, TypeOK
<1>4. PhaseInv'
  BY <1>1 DEF TInv, TypeOK, PhaseInv, Call, Wait, SpuriousWakeup, Timeout, GiveUp, GetUser
<1> QED
  BY <1>1, <1>2, <1>3, <1>4 DEF TInv

LEMMA OtherStill ==
  ASSUME TInv,
         StartPass \/ ProbesDone \/ EndPass \/ Outage \/ Recover
           \/ \E k \in Conn : Break(k)
  PROVE  TInv' /\ Live' = Live /\ failCount' = failCount /\ program' = program
<1>1. UNCHANGED <<program, pool, failCount, pc, outer, inner, calls, friends, hand>>
  BY DEF StartPass, ProbesDone, EndPass, Outage, Recover, Break, callerVars, checkVars
<1>2. Live' = Live /\ Apart'
  BY <1>1, StillStep
<1>3. TypeOK'
  <2>1. Len(pool) \in Nat
    BY LenProperties DEF TInv, TypeOK
  <2>2. /\ checker' \in {"sleep", "probe", "reopen"} /\ todo' \in Nat
        /\ fresh' \subseteq Conn
        /\ broken' \subseteq Live /\ up' \in BOOLEAN /\ faults' \in Nat
    <3> USE DEF TInv, TypeOK, checkVars, mysqlVars
    <3>1. CASE StartPass
      BY <2>1, <3>1 DEF StartPass
    <3>2. CASE ProbesDone
      BY <3>2 DEF ProbesDone
    <3>3. CASE EndPass
      BY <3>3 DEF EndPass
    <3>4. CASE Outage
      <4>1. /\ broken' = Live /\ up' = FALSE /\ faults' = faults + 1
            /\ UNCHANGED <<checker, todo, fresh>>
        BY <3>4 DEF Outage
      <4>2. up' \in BOOLEAN
        BY <4>1, Zenon
      <4>3. broken' \subseteq Live
        BY <4>1
      <4> QED
        BY <4>1, <4>2, <4>3
    <3>5. CASE Recover
      BY <3>5 DEF Recover
    <3>6. CASE \E k \in Conn : Break(k)
      BY <3>6 DEF Break
    <3> QED
      BY <3>1, <3>2, <3>3, <3>4, <3>5, <3>6
  <2> QED
    BY <1>1, <1>2, <2>2 DEF TInv, TypeOK
<1>4. PhaseInv'
  BY <1>1 DEF TInv, TypeOK, PhaseInv, StartPass, ProbesDone, EndPass, Outage, Recover,
              Break, checkVars
<1> QED
  BY <1>1, <1>2, <1>3, <1>4 DEF TInv

-----------------------------------------------------------------------------
(* Steps that move a connection from one place to another.                 *)

LEMMA TakeStep ==
  ASSUME TInv, NEW c \in Caller, Take(c)
  PROVE  TInv' /\ Live' = Live /\ failCount' = failCount /\ program' = program
<1> DEFINE k == Head(pool)
<1>1. /\ pool' \in Seq(Conn) /\ k \in Conn /\ k # None
      /\ ToSet(pool) = ToSet(pool') \cup {k}
      /\ IsInjective(pool') /\ k \notin ToSet(pool')
      /\ k \in ToSet(pool)
  BY TailSet, PoolAssumption DEF TInv, TypeOK, Apart, Take
<1>2. inner[c] = None
  BY DEF TInv, PhaseInv, Take, MayTake
<1>3. /\ UNCHANGED <<program, failCount, calls, checker, hand, todo, fresh, broken, up, faults>>
      /\ pc' = [pc EXCEPT ![c] = "using"]
      /\ MayTake(c)
  BY DEF Take, checkVars, mysqlVars
<1> HIDE DEF k
<1>4. CASE outer[c] = None
  <2>1. /\ outer' = [outer EXCEPT ![c] = k] /\ inner' = inner
        /\ \E n \in Rows(c) : friends' = [friends EXCEPT ![c] = n]
    BY <1>4 DEF Take, k
  <2>2. \A n \in Rows(c) : n \in Nat /\ (n > 0 => program = "chat" /\ c \in Nests)
    BY PoolAssumption DEF Rows
  <2>3. /\ outer' \in [Caller -> Conn \cup {None}]
        /\ outer'[c] = k /\ \A d \in Caller \ {c} : outer'[d] = outer[d]
    BY <1>1, <2>1 DEF TInv, TypeOK
  <2>4. Live' = Live
    BY <1>1, <1>3, <1>4, <2>1, <2>3 DEF Live, Held, TInv, TypeOK
  <2>5. TypeOK'
    <3>1. /\ friends' \in [Caller -> Nat]
          /\ pc' \in [Caller -> PcSet]
      BY <1>3, <2>1, <2>2 DEF TInv, TypeOK, PcSet
    <3> QED
      BY <1>1, <1>3, <2>1, <2>3, <2>4, <3>1 DEF TInv, TypeOK
  <2>6. Apart'
    BY <1>1, <1>3, <1>4, <2>1, <2>3 DEF TInv, TypeOK, Apart
  <2>7. PhaseInv'
    BY <1>1, <1>2, <1>3, <1>4, <2>1, <2>2, <2>3 DEF TInv, TypeOK, PhaseInv
  <2> QED
    BY <1>3, <2>4, <2>5, <2>6, <2>7 DEF TInv
<1>5. CASE outer[c] # None
  <2>1. /\ inner' = [inner EXCEPT ![c] = k] /\ outer' = outer /\ friends' = friends
    BY <1>5 DEF Take, k
  <2>2. /\ inner' \in [Caller -> Conn \cup {None}]
        /\ inner'[c] = k /\ \A d \in Caller \ {c} : inner'[d] = inner[d]
    BY <1>1, <2>1 DEF TInv, TypeOK
  <2>3. Live' = Live
    BY <1>1, <1>2, <1>3, <2>1, <2>2 DEF Live, Held, TInv, TypeOK
  <2>4. TypeOK'
    <3>1. pc' \in [Caller -> PcSet]
      BY <1>3 DEF TInv, TypeOK, PcSet
    <3> QED
      BY <1>1, <1>3, <2>1, <2>2, <2>3, <3>1 DEF TInv, TypeOK
  <2>5. Apart'
    BY <1>1, <1>3, <2>1, <2>2 DEF TInv, TypeOK, Apart
  <2>6. PhaseInv'
    <3>1. program = "chat" /\ c \in Nests
      BY <1>3, <1>5 DEF TInv, PhaseInv, MayTake
    <3> QED
      BY <1>1, <1>3, <1>5, <2>1, <2>2, <3>1 DEF TInv, TypeOK, PhaseInv
  <2> QED
    BY <1>3, <2>3, <2>4, <2>5, <2>6 DEF TInv
<1> QED
  BY <1>4, <1>5

LEMMA ReturnInnerStep ==
  ASSUME TInv, NEW c \in Caller, ReturnInner(c)
  PROVE  TInv' /\ Live' = Live /\ failCount' = failCount /\ program' = program
<1>1. /\ UNCHANGED <<program, failCount, outer, calls, friends, checker, hand, todo,
                     fresh, broken, up, faults>>
      /\ inner' = [inner EXCEPT ![c] = None]
      /\ pc[c] = "using" /\ inner[c] # None /\ inner[c] \in Conn
  BY DEF ReturnInner, checkVars, mysqlVars, TInv, TypeOK
<1>2. /\ pool' \in Seq(Conn) /\ None \notin ToSet(pool')
      /\ ToSet(pool') = ToSet(pool) \cup {inner[c]}
      /\ IsInjective(pool')
  BY <1>1, AppendSet, NoneIdle DEF ReturnInner, Pushed, TInv, TypeOK, Apart
<1>3. /\ inner' \in [Caller -> Conn \cup {None}]
      /\ inner'[c] = None /\ \A d \in Caller \ {c} : inner'[d] = inner[d]
  BY <1>1 DEF TInv, TypeOK
<1>4. /\ pc' \in [Caller -> PcSet]
      /\ \A d \in Caller : pc'[d] = pc[d] \/ (pc[d] = "asleep" /\ pc'[d] = "lock")
  <2>1. pc \in [Caller -> PcSet] /\ NotifyOne(pc)
    BY DEF ReturnInner, TInv, TypeOK
  <2> QED
    BY <2>1, NotifyPc
<1>5. Live' = Live
  BY <1>1, <1>2, <1>3 DEF Live, Held, TInv, TypeOK
<1>6. TypeOK'
  BY <1>1, <1>2, <1>3, <1>4, <1>5 DEF TInv, TypeOK
<1>7. Apart'
  BY <1>1, <1>2, <1>3 DEF TInv, TypeOK, Apart
<1>8. PhaseInv'
  BY <1>1, <1>3, <1>4 DEF TInv, TypeOK, PhaseInv
<1> QED
  BY <1>1, <1>5, <1>6, <1>7, <1>8 DEF TInv

LEMMA ReturnStep ==
  ASSUME TInv, NEW c \in Caller, Return(c)
  PROVE  TInv' /\ Live' = Live /\ failCount' = failCount /\ program' = program
<1>1. /\ UNCHANGED <<program, failCount, inner, calls, friends, checker, hand, todo,
                     fresh, broken, up, faults>>
      /\ outer' = [outer EXCEPT ![c] = None]
      /\ pc[c] = "using" /\ inner[c] = None /\ friends[c] = 0
      /\ outer[c] # None /\ outer[c] \in Conn
  BY DEF Return, checkVars, mysqlVars, TInv, TypeOK, PhaseInv
<1>2. /\ pool' \in Seq(Conn) /\ None \notin ToSet(pool')
      /\ ToSet(pool') = ToSet(pool) \cup {outer[c]}
      /\ IsInjective(pool')
  BY <1>1, AppendSet, NoneIdle DEF Return, Pushed, TInv, TypeOK, Apart
<1>3. /\ outer' \in [Caller -> Conn \cup {None}]
      /\ outer'[c] = None /\ \A d \in Caller \ {c} : outer'[d] = outer[d]
  BY <1>1 DEF TInv, TypeOK
<1> DEFINE at == [pc EXCEPT ![c] = "out"]
<1>4. at \in [Caller -> PcSet] /\ NotifyOne(at)
  BY DEF Return, TInv, TypeOK, PcSet
<1>5. at[c] = "out" /\ \A d \in Caller \ {c} : at[d] = pc[d]
  BY DEF TInv, TypeOK
<1> HIDE DEF at
<1>6. /\ pc' \in [Caller -> PcSet]
      /\ \A d \in Caller : pc'[d] = at[d] \/ (at[d] = "asleep" /\ pc'[d] = "lock")
  BY <1>4, NotifyPc
<1>7. /\ pc'[c] = "out"
      /\ \A d \in Caller \ {c} : pc'[d] = pc[d] \/ (pc[d] = "asleep" /\ pc'[d] = "lock")
  BY <1>5, <1>6
<1>8. Live' = Live
  BY <1>1, <1>2, <1>3 DEF Live, Held, TInv, TypeOK
<1>9. TypeOK'
  BY <1>1, <1>2, <1>3, <1>6, <1>8 DEF TInv, TypeOK
<1>10. Apart'
  BY <1>1, <1>2, <1>3 DEF TInv, TypeOK, Apart
<1>11. PhaseInv'
  BY <1>1, <1>3, <1>7 DEF TInv, TypeOK, PhaseInv
<1> QED
  BY <1>1, <1>8, <1>9, <1>10, <1>11 DEF TInv

LEMMA PopStep ==
  ASSUME TInv, Pop
  PROVE  TInv' /\ Live' = Live /\ failCount' = failCount /\ program' = program
<1>1. /\ pool' \in Seq(Conn) /\ hand' \in Conn /\ hand' # None
      /\ ToSet(pool) = ToSet(pool') \cup {hand'}
      /\ IsInjective(pool') /\ hand' \notin ToSet(pool')
  BY TailSet, PoolAssumption DEF TInv, TypeOK, Apart, Pop
<1>2. /\ UNCHANGED <<program, failCount, pc, outer, inner, calls, friends, checker,
                     todo, fresh, broken, up, faults>>
      /\ hand = None /\ checker = "probe" /\ todo > 0
  BY DEF Pop, callerVars, mysqlVars
<1>3. Live' = Live
  BY <1>1, <1>2 DEF Live, Held
<1>4. TypeOK'
  BY <1>1, <1>2, <1>3 DEF TInv, TypeOK
<1>5. Apart'
  BY <1>1, <1>2 DEF TInv, TypeOK, Apart
<1>6. PhaseInv'
  BY <1>2 DEF TInv, PhaseInv
<1> QED
  BY <1>2, <1>3, <1>4, <1>5, <1>6 DEF TInv

LEMMA ProbeSucceedsStep ==
  ASSUME TInv, ProbeSucceeds
  PROVE  TInv' /\ Live' = Live /\ failCount' = failCount /\ program' = program
<1>1. /\ UNCHANGED <<program, failCount, outer, inner, calls, friends, checker,
                     broken, up, faults>>
      /\ hand # None /\ hand \in Conn /\ hand' = None
      /\ fresh' = fresh \cup {hand} /\ todo' = todo - 1
  BY DEF ProbeSucceeds, mysqlVars, TInv, TypeOK
<1>2. /\ pool' \in Seq(Conn) /\ None \notin ToSet(pool')
      /\ ToSet(pool') = ToSet(pool) \cup {hand}
      /\ IsInjective(pool')
  BY <1>1, AppendSet, NoneIdle DEF ProbeSucceeds, Pushed, TInv, TypeOK, Apart
<1>3. todo' \in Nat
  BY <1>1 DEF TInv, TypeOK, PhaseInv
<1>4. /\ pc' \in [Caller -> PcSet]
      /\ \A d \in Caller : pc'[d] = pc[d] \/ (pc[d] = "asleep" /\ pc'[d] = "lock")
  <2>1. pc \in [Caller -> PcSet] /\ NotifyOne(pc)
    BY DEF ProbeSucceeds, TInv, TypeOK
  <2> QED
    BY <2>1, NotifyPc
<1>5. Live' = Live
  BY <1>1, <1>2 DEF Live, Held
<1>6. TypeOK'
  BY <1>1, <1>2, <1>3, <1>4, <1>5 DEF TInv, TypeOK
<1>7. Apart'
  BY <1>1, <1>2 DEF TInv, TypeOK, Apart
<1>8. PhaseInv'
  BY <1>1, <1>4 DEF TInv, TypeOK, PhaseInv
<1> QED
  BY <1>1, <1>5, <1>6, <1>7, <1>8 DEF TInv

-----------------------------------------------------------------------------
(* Steps that lose a connection.                                           *)

LEMMA ProbeFailsStep ==
  ASSUME TInv, ProbeFails
  PROVE  /\ TInv' /\ program' = program
         /\ hand \in Live /\ Live' = Live \ {hand}
         /\ failCount' = failCount + 1
<1>1. /\ UNCHANGED <<program, pool, pc, outer, inner, calls, friends, checker,
                     fresh, up, faults>>
      /\ hand # None /\ hand \in Conn /\ hand' = None
      /\ failCount' = failCount + 1 /\ todo' = todo - 1
      /\ broken' = broken \ {hand}
  BY DEF ProbeFails, FailCounted, callerVars, TInv, TypeOK
<1>2. todo' \in Nat
  BY <1>1 DEF TInv, TypeOK, PhaseInv
<1>3. hand \in Live /\ Live' = Live \ {hand}
  <2>1. hand \in Live
    BY <1>1 DEF Live
  <2>2. hand \notin ToSet(pool) /\ hand \notin Held
    BY <1>1 DEF Held, TInv, Apart
  <2>3. Live = ToSet(pool) \cup (Held \ {None}) \cup {hand}
    BY <1>1 DEF Live
  <2>4. Live' = ToSet(pool) \cup (Held \ {None})
    BY <1>1 DEF Live, Held
  <2> QED
    BY <2>1, <2>2, <2>3, <2>4
<1>4. TypeOK'
  BY <1>1, <1>2, <1>3 DEF TInv, TypeOK
<1>5. Apart'
  <2>1. None \notin ToSet(pool)
    BY NoneIdle DEF TInv, TypeOK
  <2> QED
    BY <1>1, <2>1 DEF TInv, Apart
<1>6. PhaseInv'
  BY <1>1 DEF TInv, PhaseInv
<1> QED
  BY <1>1, <1>3, <1>4, <1>5, <1>6 DEF TInv

LEMMA LeakStep ==
  ASSUME TInv, NEW c \in Caller, Leak(c)
  PROVE  TInv' /\ program' = program /\ program = "gate"
<1>1. /\ UNCHANGED <<program, pool, failCount, inner, calls, friends, checker, hand,
                     todo, up, faults>>
      /\ outer[c] # None /\ outer[c] \in Conn /\ program = "gate" /\ pc[c] = "using"
      /\ outer' = [outer EXCEPT ![c] = None] /\ pc' = [pc EXCEPT ![c] = "out"]
      /\ broken' = broken \ {outer[c]} /\ fresh' = fresh \ {outer[c]}
  BY DEF Leak, checkVars, TInv, TypeOK, PhaseInv
<1>2. /\ outer' \in [Caller -> Conn \cup {None}]
      /\ outer'[c] = None /\ \A d \in Caller \ {c} : outer'[d] = outer[d]
      /\ pc' \in [Caller -> PcSet]
      /\ pc'[c] = "out" /\ \A d \in Caller \ {c} : pc'[d] = pc[d]
  BY <1>1 DEF TInv, TypeOK, PcSet
<1>3. Live \ {outer[c]} \subseteq Live'
  BY <1>1, <1>2 DEF Live, Held, TInv, TypeOK
<1>4. TypeOK'
  <2>1. broken' \subseteq Live'
    BY <1>1, <1>3 DEF TInv, TypeOK
  <2> QED
    BY <1>1, <1>2, <2>1 DEF TInv, TypeOK
<1>5. Apart'
  <2>1. None \notin ToSet(pool)
    BY NoneIdle DEF TInv, TypeOK
  <2> QED
    BY <1>1, <1>2, <2>1 DEF TInv, TypeOK, Apart
<1>6. PhaseInv'
  BY <1>1, <1>2 DEF TInv, TypeOK, PhaseInv
<1> QED
  BY <1>1, <1>4, <1>5, <1>6 DEF TInv

-----------------------------------------------------------------------------
(* Steps that open a connection.                                           *)

LEMMA OpenedLive ==
  ASSUME TInv, Connects, Opened,
         UNCHANGED <<outer, inner, hand>>
  PROVE  /\ NewConn \in Conn /\ NewConn \notin Live
         /\ Live' = Live \cup {NewConn}
         /\ pool' \in Seq(Conn) /\ Apart'
<1>1. Live \subseteq Conn
  <2>1. ToSet(pool) \subseteq Conn
    BY LenProperties, ElementOfSeq DEF ToSet, TInv, TypeOK
  <2> QED
    BY <2>1 DEF Live, Held, TInv, TypeOK
<1>2. NewConn \in Conn /\ NewConn \notin Live
  BY <1>1 DEF Connects, NewConn
<1>3. NewConn # None
  BY <1>2, PoolAssumption
<1>4. NewConn \notin ToSet(pool) /\ NewConn \notin Held /\ NewConn # hand
  BY <1>2, <1>3 DEF Live
<1> DEFINE k == NewConn
<1> HIDE DEF k
<1>5. /\ k \in Conn /\ k \notin ToSet(pool)
      /\ \A c \in Caller : k # outer[c] /\ k # inner[c]
      /\ k # hand /\ k # None /\ pool' = Append(pool, k)
  BY <1>2, <1>3, <1>4 DEF k, Held, Opened
<1>6. /\ pool' \in Seq(Conn) /\ None \notin ToSet(pool')
      /\ ToSet(pool') = ToSet(pool) \cup {k}
      /\ IsInjective(pool')
  BY <1>5, AppendSet, NoneIdle DEF TInv, TypeOK, Apart
<1>7. Live' = Live \cup {k}
  BY <1>5, <1>6 DEF Live, Held
<1>8. Apart'
  BY <1>5, <1>6 DEF TInv, TypeOK, Apart
<1> QED
  BY <1>2, <1>6, <1>7, <1>8 DEF k

LEMMA LateOpenStep ==
  ASSUME TInv, NEW c \in Caller, LateOpen(c)
  PROVE  TInv' /\ program' = program /\ program = "gate"
<1>1. /\ UNCHANGED <<program, failCount, outer, inner, calls, friends, checker, hand,
                     todo, broken, up, faults>>
      /\ program = "gate"
      /\ pc' = [pc EXCEPT ![c] = "relock"] /\ pc[c] = "late"
  BY DEF LateOpen, checkVars, mysqlVars, TInv, PhaseInv
<1>2. /\ pc' \in [Caller -> PcSet]
      /\ pc'[c] = "relock" /\ \A d \in Caller \ {c} : pc'[d] = pc[d]
  BY <1>1 DEF TInv, TypeOK, PcSet
<1>3. pool' \in Seq(Conn) /\ fresh' \subseteq Conn /\ Live \subseteq Live' /\ Apart'
  <2>1. CASE Connects
    <3>1. Opened /\ fresh' = fresh \cup {NewConn}
      BY <2>1 DEF LateOpen
    <3>2. /\ NewConn \in Conn /\ Live' = Live \cup {NewConn}
          /\ pool' \in Seq(Conn) /\ Apart'
      BY <1>1, <2>1, <3>1, OpenedLive
    <3> QED
      BY <3>1, <3>2 DEF TInv, TypeOK
  <2>2. CASE ~Connects
    <3>1. pool' = pool /\ fresh' = fresh
      BY <2>2 DEF LateOpen
    <3>2. Live' = Live /\ Apart'
      BY <1>1, <3>1, StillStep
    <3> QED
      BY <3>1, <3>2 DEF TInv, TypeOK
  <2> QED
    BY <2>1, <2>2
<1>4. TypeOK'
  <2>1. broken' \subseteq Live'
    BY <1>1, <1>3 DEF TInv, TypeOK
  <2> QED
    BY <1>1, <1>2, <1>3, <2>1 DEF TInv, TypeOK
<1>5. PhaseInv'
  BY <1>1, <1>2 DEF TInv, TypeOK, PhaseInv
<1> QED
  BY <1>1, <1>3, <1>4, <1>5 DEF TInv

LEMMA ReopenStep ==
  ASSUME TInv, Reopen
  PROVE  /\ TInv' /\ program' = program
         /\ \E k \in Conn \ Live : Live' = Live \cup {k}
         /\ failCount > 0 /\ failCount' = failCount - 1
<1>1. /\ UNCHANGED <<program, pc, outer, inner, calls, friends, checker, hand, todo,
                     fresh, broken, up, faults>>
      /\ Connects /\ Opened /\ failCount > 0 /\ failCount' = failCount - 1
  BY DEF Reopen, ReopenCounted, callerVars, checkVars, mysqlVars
<1>2. /\ NewConn \in Conn \ Live /\ Live' = Live \cup {NewConn}
      /\ pool' \in Seq(Conn) /\ Apart'
  BY <1>1, OpenedLive
<1>3. failCount' \in Nat
  BY <1>1 DEF TInv, TypeOK
<1>4. TypeOK'
  <2>1. broken' \subseteq Live'
    BY <1>1, <1>2 DEF TInv, TypeOK
  <2> QED
    BY <1>1, <1>2, <1>3, <2>1 DEF TInv, TypeOK
<1>5. PhaseInv'
  BY <1>1 DEF TInv, PhaseInv
<1> QED
  BY <1>1, <1>2, <1>4, <1>5 DEF TInv

-----------------------------------------------------------------------------
(* What a step does to the connections of a ChatServer.                    *)
Moves ==
  \/ Live' = Live /\ failCount' = failCount
  \/ \E k \in Live : Live' = Live \ {k} /\ failCount' = failCount + 1
  \/ \E k \in Conn \ Live :
       Live' = Live \cup {k} /\ failCount > 0 /\ failCount' = failCount - 1

LEMMA Step ==
  ASSUME TInv, Next
  PROVE  TInv' /\ program' = program /\ (program = "chat" => Moves)
<1>1. ASSUME NEW c \in Caller, Call(c) \/ GoOn(c) \/ SpuriousWakeup(c)
      PROVE  TInv' /\ program' = program /\ (program = "chat" => Moves)
  <2>1. CASE Call(c) \/ Wait(c) \/ SpuriousWakeup(c) \/ Timeout(c) \/ GiveUp(c)
               \/ GetUser(c)
    BY <2>1, CallerStill DEF Moves
  <2>2. CASE Take(c)
    BY <2>2, TakeStep DEF Moves
  <2>3. CASE ReturnInner(c)
    BY <2>3, ReturnInnerStep DEF Moves
  <2>4. CASE Return(c)
    BY <2>4, ReturnStep DEF Moves
  <2>5. CASE Leak(c)
    BY <2>5, LeakStep
  <2>6. CASE LateOpen(c)
    BY <2>6, LateOpenStep
  <2> QED
    BY <1>1, <2>1, <2>2, <2>3, <2>4, <2>5, <2>6 DEF GoOn
<1>2. ASSUME StartPass \/ ProbesDone \/ EndPass \/ Outage \/ Recover
               \/ \E k \in Conn : Break(k)
      PROVE  TInv' /\ program' = program /\ Moves
  BY <1>2, OtherStill DEF Moves
<1>3. ASSUME Pop
      PROVE  TInv' /\ program' = program /\ Moves
  BY <1>3, PopStep DEF Moves
<1>4. ASSUME ProbeSucceeds
      PROVE  TInv' /\ program' = program /\ Moves
  BY <1>4, ProbeSucceedsStep DEF Moves
<1>5. ASSUME ProbeFails
      PROVE  TInv' /\ program' = program /\ Moves
  BY <1>5, ProbeFailsStep DEF Moves
<1>6. ASSUME Reopen
      PROVE  TInv' /\ program' = program /\ Moves
  BY <1>6, ReopenStep DEF Moves
<1> QED
  BY <1>1, <1>2, <1>3, <1>4, <1>5, <1>6 DEF Next, CheckerStep

LEMMA Stutter ==
  ASSUME TInv, UNCHANGED vars
  PROVE  TInv' /\ program' = program /\ Moves
<1>1. /\ UNCHANGED <<program, pool, failCount, pc, outer, inner, calls, friends>>
      /\ UNCHANGED <<checker, hand, todo, fresh, broken, up, faults>>
  BY DEF vars, callerVars, checkVars, mysqlVars
<1>2. Live' = Live /\ Apart'
  BY <1>1, StillStep
<1>3. TypeOK'
  BY <1>1, <1>2 DEF TInv, TypeOK
<1>4. PhaseInv'
  BY <1>1 DEF TInv, PhaseInv
<1> QED
  BY <1>1, <1>2, <1>3, <1>4 DEF TInv, Moves

(* Every variable of the pool keeps its type; in particular no null        *)
(* connection is ever returned to pool_, and the checking thread's         *)
(* counters do not become negative.                                        *)
THEOREM TypeCorrect == Spec => []TypeOK
<1>1. Init => TInv
  BY InitTInv
<1>2. TInv /\ [Next]_vars => TInv'
  BY Step, Stutter
<1>3. TInv => TypeOK
  BY DEF TInv
<1> QED
  BY <1>1, <1>2, <1>3, PTL DEF Spec

-----------------------------------------------------------------------------
LEMMA LiveFinite ==
  ASSUME TypeOK
  PROVE  Live \subseteq Conn /\ IsFiniteSet(Live) /\ Cardinality(Live) \in Nat
<1>1. ToSet(pool) \subseteq Conn
  BY LenProperties, ElementOfSeq DEF ToSet, TypeOK
<1>2. Live \subseteq Conn
  BY <1>1 DEF Live, Held, TypeOK
<1> QED
  BY <1>2, FS_Subset, FS_CardinalityType, PoolAssumption

LEMMA InitConserved ==
  ASSUME Init
  PROVE  Conserved
<1>1. ToSet(pool) = First /\ None \notin First
  BY FirstPool, PoolAssumption DEF Init
<1>2. Held \subseteq {None} /\ hand = None
  BY DEF Init, Held
<1>3. Live = First
  BY <1>1, <1>2 DEF Live
<1>4. Cardinality(First) \in Nat
  BY FS_Subset, FS_CardinalityType, PoolAssumption
<1> QED
  BY <1>3, <1>4 DEF Init, Conserved, Size

LEMMA ConservedStep ==
  ASSUME TInv, Conserved, program' = program, program = "chat" => Moves
  PROVE  Conserved'
<1> SUFFICES ASSUME program = "chat"
             PROVE  Cardinality(Live') + failCount' = Size
  BY DEF Conserved
<1>1. /\ IsFiniteSet(Live) /\ Cardinality(Live) \in Nat /\ failCount \in Nat
      /\ Cardinality(Live) + failCount = Size
  BY LiveFinite DEF TInv, TypeOK, Conserved
<1> DEFINE n == Cardinality(Live)
<1>2. CASE Live' = Live /\ failCount' = failCount
  BY <1>1, <1>2
<1>3. CASE \E k \in Live : Live' = Live \ {k} /\ failCount' = failCount + 1
  <2>1. PICK k \in Live : Live' = Live \ {k} /\ failCount' = failCount + 1
    BY <1>3
  <2>2. Cardinality(Live \ {k}) = Cardinality(Live) - 1
    BY <1>1, FS_RemoveElement
  <2> QED
    BY <1>1, <2>1, <2>2
<1>4. CASE \E k \in Conn \ Live :
             Live' = Live \cup {k} /\ failCount > 0 /\ failCount' = failCount - 1
  <2>1. PICK k \in Conn \ Live : Live' = Live \cup {k} /\ failCount' = failCount - 1
    BY <1>4
  <2>2. Cardinality(Live \cup {k}) = Cardinality(Live) + 1
    BY <1>1, FS_AddElement
  <2> QED
    BY <1>1, <2>1, <2>2
<1> QED
  BY <1>2, <1>3, <1>4 DEF Moves

LEMMA ConservedNext == TInv /\ Conserved /\ [Next]_vars => (TInv /\ Conserved)'
<1> SUFFICES ASSUME TInv, Conserved, [Next]_vars
             PROVE  TInv' /\ Conserved'
  OBVIOUS
<1>1. TInv' /\ program' = program /\ (program = "chat" => Moves)
  BY Step, Stutter
<1> QED
  BY <1>1, ConservedStep

(* A ChatServer's pool loses no connection: those that are open and those  *)
(* that wait to be reopened are always poolSize (getConnection,            *)
(* returnConnection, checkConnectionPro).                                  *)
THEOREM NoConnectionLost == Spec => []Conserved
<1>1. Init => TInv /\ Conserved
  BY InitTInv, InitConserved
<1>2. TInv /\ Conserved /\ [Next]_vars => (TInv /\ Conserved)'
  BY ConservedNext
<1> QED
  BY <1>1, <1>2, PTL DEF Spec

-----------------------------------------------------------------------------
(* If every connection is held by a caller that waits for another, the     *)
(* holders are as many as the connections, and all of them nest.           *)
LEMMA ConservedNoStandstill ==
  ASSUME TInv, Conserved
  PROVE  NoStandstill
<1> SUFFICES ASSUME program = "chat", Cardinality(Nests) < Size, ~(failCount > 0),
                    \A k \in Live : \E c \in Caller : HoldsAndWaits(c) /\ outer[c] = k
             PROVE  FALSE
  BY DEF NoStandstill
<1>1. /\ IsFiniteSet(Live) /\ Cardinality(Live) = Size
      /\ IsFiniteSet(Nests)
  <2>1. failCount = 0
    BY DEF TInv, TypeOK
  <2> QED
    BY <2>1, LiveFinite, FS_Subset, PoolAssumption DEF TInv, TypeOK, Conserved
<1>2. \A c \in Caller : HoldsAndWaits(c) => c \in Nests
  BY DEF HoldsAndWaits, TInv, PhaseInv
<1> DEFINE holder == [k \in Live |-> CHOOSE c \in Nests : outer[c] = k]
<1>3. \A k \in Live : holder[k] \in Nests /\ outer[holder[k]] = k
  BY <1>2
<1>4. holder \in [Live -> Nests]
  BY <1>3
<1> HIDE DEF holder
<1>5. PICK k, l \in Live : k # l /\ holder[k] = holder[l]
  BY <1>1, <1>4, FS_PigeonHole
<1> QED
  BY <1>3, <1>5

(* GetFriendList and GetUser cannot stop the pool by themselves while      *)
(* fewer callers nest than the pool has connections.                       *)
THEOREM NestingIsSafe == Spec => []NoStandstill
<1>1. Init => TInv /\ Conserved
  BY InitTInv, InitConserved
<1>2. TInv /\ Conserved /\ [Next]_vars => (TInv /\ Conserved)'
  BY ConservedNext
<1>3. TInv /\ Conserved => NoStandstill
  BY ConservedNoStandstill
<1> QED
  BY <1>1, <1>2, <1>3, PTL DEF Spec

-----------------------------------------------------------------------------
(* GrowthBounded.                                                          *)

(* Callers that are about to open a connection.                            *)
Late == {c \in Caller : pc[c] = "late"}

(* Each of them counts as a connection already; and the connections that   *)
(* are lost, or will be found so, stay within what the faults can explain. *)
GrowInv ==
  program = "gate" =>
    /\ Cardinality(Live) + Cardinality(Late) + failCount <= Demand * (faults + 1)
    /\ Cardinality(broken) + failCount <= Demand * faults

LEMMA DemandFacts ==
  /\ Demand \in Nat /\ Size \in Nat /\ Cardinality(Caller) \in Nat
  /\ Cardinality(Caller) + 1 <= Demand /\ Size <= Demand /\ 1 <= Demand
  /\ \A n \in Nat : Demand * n \in Nat /\ Demand * (n + 1) = Demand * n + Demand
<1>1. Cardinality(Caller) \in Nat /\ Size \in Nat
  BY PoolAssumption, FS_Subset, FS_CardinalityType DEF Size
<1>2. /\ Demand \in Nat
      /\ Cardinality(Caller) + 1 <= Demand /\ Size <= Demand /\ 1 <= Demand
  BY <1>1 DEF Demand
<1>3. \A n \in Nat : Demand * n \in Nat /\ Demand * (n + 1) = Demand * n + Demand
  BY <1>2
<1> QED
  BY <1>1, <1>2, <1>3

LEMMA GrowTypes ==
  ASSUME TypeOK
  PROVE  /\ IsFiniteSet(Live) /\ IsFiniteSet(Late) /\ IsFiniteSet(broken)
         /\ Cardinality(Live) \in Nat /\ Cardinality(Late) \in Nat
         /\ Cardinality(broken) \in Nat /\ Cardinality(broken) <= Cardinality(Live)
         /\ failCount \in Nat /\ faults \in Nat
<1>1. IsFiniteSet(Live) /\ Cardinality(Live) \in Nat
  BY LiveFinite
<1>2. broken \subseteq Live /\ failCount \in Nat /\ faults \in Nat
  BY DEF TypeOK
<1>3. Late \subseteq Caller
  BY DEF Late
<1> QED
  BY <1>1, <1>2, <1>3, FS_Subset, FS_CardinalityType, PoolAssumption

LEMMA InitGrow ==
  ASSUME Init
  PROVE  GrowInv
<1>1. Live = First
  <2>1. ToSet(pool) = First /\ None \notin First
    BY FirstPool, PoolAssumption DEF Init
  <2>2. Held \subseteq {None} /\ hand = None
    BY DEF Init, Held
  <2> QED
    BY <2>1, <2>2 DEF Live
<1>2. Late = {} /\ broken = {} /\ failCount = 0 /\ faults = 0
  BY DEF Init, Late
<1>3. Cardinality(Live) = Size /\ Cardinality(Late) = 0 /\ Cardinality(broken) = 0
  BY <1>1, <1>2, FS_EmptySet DEF Size
<1>4. Demand * 0 = 0 /\ Demand * (0 + 1) = Demand
  BY DemandFacts
<1> QED
  BY <1>2, <1>3, <1>4, DemandFacts DEF GrowInv

(* Steps that add nothing.                                                 *)
LEMMA GrowKept ==
  ASSUME TypeOK, TypeOK', GrowInv, UNCHANGED <<program, failCount, faults>>,
         Live' \subseteq Live, Late' \subseteq Late, broken' \subseteq broken
  PROVE  GrowInv'
<1> DEFINE l == Cardinality(Live)  t == Cardinality(Late)  b == Cardinality(broken)
           m == Demand * (faults + 1)  n == Demand * faults
<1>1. /\ Cardinality(Live') <= l /\ Cardinality(Late') <= t
      /\ Cardinality(broken') <= b
  BY GrowTypes, FS_Subset
<1>2. /\ l \in Nat /\ t \in Nat /\ b \in Nat /\ failCount \in Nat /\ m \in Nat /\ n \in Nat
      /\ Cardinality(Live') \in Nat /\ Cardinality(Late') \in Nat
      /\ Cardinality(broken') \in Nat
  <2>1. IsFiniteSet(Live') /\ IsFiniteSet(Late') /\ IsFiniteSet(broken')
    BY GrowTypes, FS_Subset
  <2>2. faults \in Nat /\ faults + 1 \in Nat
    BY GrowTypes
  <2> QED
    BY <2>1, <2>2, GrowTypes, FS_CardinalityType, DemandFacts
<1>3. program = "gate" => l + t + failCount <= m /\ b + failCount <= n
  BY DEF GrowInv
<1>4. m' = m /\ n' = n
  BY DEF Demand, Size
<1> HIDE DEF l, t, b, m, n
<1>5. program = "gate" =>
        /\ Cardinality(Live') + Cardinality(Late') + failCount <= m
        /\ Cardinality(broken') + failCount <= n
  BY <1>1, <1>2, <1>3
<1> QED
  BY <1>5 DEF GrowInv, m, n, Demand, Size

(* A caller times out: no connection is idle, and the others hold one each *)
(* at most.                                                                *)
LEMMA GrowTimeout ==
  ASSUME TInv, TypeOK', GrowInv, NEW c \in Caller, Timeout(c)
  PROVE  GrowInv'
<1> DEFINE Users == {d \in Caller : pc[d] = "using"}
<1>1. /\ program = "gate" /\ pool = <<>> /\ pc[c] = "asleep"
      /\ UNCHANGED <<program, failCount, broken, faults>> /\ Live' = Live
  BY CallerStill DEF Timeout, mysqlVars
<1>2. \A d \in Caller : inner[d] = None /\ (outer[d] # None => d \in Users)
  BY <1>1 DEF TInv, PhaseInv
<1>3. \A k \in Live \ {hand} : \E d \in Users : outer[d] = k
  <2>1. ToSet(pool) = {}
    BY <1>1 DEF ToSet
  <2> QED
    BY <1>2, <2>1 DEF Live, Held
<1>4. /\ Late' \subseteq Caller /\ Users \subseteq Caller /\ Users \cap Late' = {}
      /\ IsFiniteSet(Users) /\ IsFiniteSet(Late')
  <2>1. Late' = Late \cup {c}
    BY DEF Timeout, Late, TInv, TypeOK
  <2>2. Late' \subseteq Caller /\ Users \subseteq Caller /\ Users \cap Late' = {}
    BY <1>1, <2>1 DEF Late
  <2> HIDE DEF Users
  <2> QED
    BY <2>2, FS_Subset, PoolAssumption
<1>5. /\ Cardinality(Users) \in Nat /\ Cardinality(Late') \in Nat
      /\ Cardinality(Users) + Cardinality(Late') <= Cardinality(Caller)
  <2> HIDE DEF Users
  <2>1. /\ Cardinality(Users) \in Nat /\ Cardinality(Late') \in Nat
        /\ Cardinality(Users \cap Late') = 0
    BY <1>4, FS_CardinalityType, FS_EmptySet
  <2>2. Cardinality(Users \cup Late')
          = Cardinality(Users) + Cardinality(Late') - Cardinality(Users \cap Late')
    BY <1>4, FS_Union
  <2>3. Cardinality(Users \cup Late') <= Cardinality(Caller)
    BY <1>4, FS_Subset, PoolAssumption
  <2> QED
    BY <2>1, <2>2, <2>3
<1>6. Cardinality(Live \ {hand}) <= Cardinality(Users)
  <2> DEFINE f == [k \in Live \ {hand} |-> CHOOSE d \in Users : outer[d] = k]
  <2>1. \A k \in Live \ {hand} : f[k] \in Users /\ outer[f[k]] = k
    BY <1>3
  <2>2. f \in [Live \ {hand} -> Users]
    BY <2>1
  <2> HIDE DEF f, Users
  <2>3. f \in Injection(Live \ {hand}, Users)
    BY <2>1, <2>2 DEF Injection, IsInjective
  <2> QED
    BY <1>4, <2>3, FS_Injection
<1> HIDE DEF Users
<1>7. Cardinality(Live) \in Nat /\ Cardinality(Live) <= Cardinality(Users) + 1
  <2>1. IsFiniteSet(Live) /\ Cardinality(Live) \in Nat
    BY GrowTypes DEF TInv
  <2>2. Cardinality(Live \ {hand})
          = IF hand \in Live THEN Cardinality(Live) - 1 ELSE Cardinality(Live)
    BY <2>1, FS_RemoveElement
  <2> QED
    BY <1>5, <1>6, <2>1, <2>2
<1>8. /\ Cardinality(broken) + failCount <= Demand * faults
      /\ Cardinality(broken) \in Nat /\ failCount \in Nat /\ Demand * faults \in Nat
      /\ Demand * (faults + 1) = Demand * faults + Demand
  BY <1>1, GrowTypes, DemandFacts DEF TInv, GrowInv
<1> DEFINE n == Demand * faults  m == Demand * (faults + 1)
<1>9. Cardinality(Live) + Cardinality(Late') + failCount <= m
  <2> HIDE DEF n, m
  <2>1. /\ Cardinality(broken) + failCount <= n /\ n \in Nat /\ m = n + Demand
        /\ Cardinality(broken) \in Nat /\ failCount \in Nat
    BY <1>8 DEF n, m
  <2> QED
    BY <1>5, <1>7, <2>1, DemandFacts
<1> QED
  BY <1>1, <1>8, <1>9 DEF GrowInv, Demand, Size

(* A late caller opens its connection, or cannot.                          *)
LEMMA GrowLateOpen ==
  ASSUME TInv, TypeOK', GrowInv, NEW c \in Caller, LateOpen(c)
  PROVE  GrowInv'
<1>1. /\ c \in Late /\ Late' = Late \ {c}
      /\ UNCHANGED <<program, failCount, broken, faults, outer, inner, hand>>
  BY DEF LateOpen, Late, TInv, TypeOK, checkVars, mysqlVars
<1>2. CASE ~Connects
  <2>1. Live' = Live
    BY <1>1, <1>2 DEF LateOpen, Live, Held
  <2> QED
    BY <1>1, <2>1, GrowKept DEF TInv
<1>3. CASE Connects
  <2>1. NewConn \notin Live /\ Live' = Live \cup {NewConn}
    BY <1>1, <1>3, OpenedLive DEF LateOpen
  <2>2. /\ Cardinality(Live') = Cardinality(Live) + 1
        /\ Cardinality(Late') = Cardinality(Late) - 1
        /\ Cardinality(Live) \in Nat /\ Cardinality(Late) \in Nat /\ failCount \in Nat
    BY <1>1, <2>1, GrowTypes, FS_AddElement, FS_RemoveElement DEF TInv
  <2>3. Cardinality(Live') + Cardinality(Late') + failCount
          = Cardinality(Live) + Cardinality(Late) + failCount
    BY <2>2
  <2> QED
    BY <1>1, <2>3 DEF GrowInv, Demand, Size
<1> QED
  BY <1>2, <1>3

(* A connection that fails its probe, or is reopened, is counted as before.*)
LEMMA GrowChecker ==
  ASSUME TInv, TypeOK', GrowInv, ProbeFails \/ Reopen
  PROVE  GrowInv'
<1>1. UNCHANGED <<program, faults, pc>> /\ Late' = Late
  BY DEF ProbeFails, Reopen, Late, callerVars, mysqlVars
<1>2. /\ IsFiniteSet(Live) /\ IsFiniteSet(broken)
      /\ Cardinality(Live) \in Nat /\ Cardinality(Late) \in Nat
      /\ Cardinality(broken) \in Nat /\ failCount \in Nat
  BY GrowTypes DEF TInv
<1>3. /\ Cardinality(Live') + failCount' = Cardinality(Live) + failCount
      /\ Cardinality(Live') \in Nat /\ Cardinality(broken') \in Nat /\ failCount' \in Nat
      /\ Cardinality(broken') + failCount' <= Cardinality(broken) + failCount
  <2>1. CASE ProbeFails
    <3>1. /\ hand \in Live /\ Live' = Live \ {hand} /\ failCount' = failCount + 1
          /\ hand \in broken /\ broken' = broken \ {hand}
      BY <2>1, ProbeFailsStep DEF ProbeFails, Healthy
    <3>2. /\ Cardinality(Live') = Cardinality(Live) - 1
          /\ Cardinality(broken') = Cardinality(broken) - 1
          /\ Cardinality(Live') \in Nat /\ Cardinality(broken') \in Nat
      BY <1>2, <3>1, FS_RemoveElement, FS_CardinalityType
    <3> QED
      BY <1>2, <3>1, <3>2
  <2>2. CASE Reopen
    <3>1. /\ \E k \in Conn \ Live : Live' = Live \cup {k}
          /\ failCount > 0 /\ failCount' = failCount - 1 /\ broken' = broken
      BY <2>2, ReopenStep DEF Reopen, mysqlVars
    <3>2. Cardinality(Live') = Cardinality(Live) + 1
      BY <1>2, <3>1, FS_AddElement
    <3> QED
      BY <1>2, <3>1, <3>2
  <2> QED
    BY <2>1, <2>2
<1> DEFINE m == Demand * (faults + 1)  n == Demand * faults
<1>4. m \in Nat /\ n \in Nat
  <2>1. faults \in Nat /\ faults + 1 \in Nat
    BY GrowTypes DEF TInv
  <2> QED
    BY <2>1, DemandFacts
<1>5. program = "gate" =>
        /\ Cardinality(Live) + Cardinality(Late) + failCount <= m
        /\ Cardinality(broken) + failCount <= n
  BY DEF GrowInv
<1> HIDE DEF m, n
<1>6. program = "gate" =>
        /\ Cardinality(Live') + Cardinality(Late) + failCount' <= m
        /\ Cardinality(broken') + failCount' <= n
  BY <1>2, <1>3, <1>4, <1>5
<1> QED
  BY <1>1, <1>6 DEF GrowInv, m, n, Demand, Size

(* A fault breaks one connection or all; there are not too many to break.  *)
LEMMA GrowFault ==
  ASSUME TInv, TypeOK', GrowInv, Outage \/ \E k \in Conn : Break(k)
  PROVE  GrowInv'
<1>1. /\ UNCHANGED <<program, failCount, pc>> /\ faults' = faults + 1
      /\ Late' = Late /\ Live' = Live
  BY OtherStill DEF Outage, Break, Late, callerVars
<1>2. /\ IsFiniteSet(Live) /\ IsFiniteSet(broken) /\ faults \in Nat
      /\ Cardinality(Live) \in Nat /\ Cardinality(Late) \in Nat
      /\ Cardinality(broken) \in Nat /\ failCount \in Nat
  BY GrowTypes DEF TInv
<1> DEFINE n == Demand * faults
           m == Demand * (faults + 1)
           o == Demand * (faults + 1 + 1)
<1>3. /\ n \in Nat /\ m \in Nat /\ o \in Nat
      /\ m = n + Demand /\ o = m + Demand
  <2>1. faults + 1 \in Nat
    BY <1>2
  <2> QED
    BY <1>2, <2>1, DemandFacts
<1>4. program = "gate" =>
        /\ Cardinality(Live) + Cardinality(Late) + failCount <= m
        /\ Cardinality(broken) + failCount <= n
  BY DEF GrowInv
<1>5. /\ Cardinality(broken') \in Nat
      /\ \/ broken' = Live
         \/ Cardinality(broken') = Cardinality(broken) + 1
  <2>1. CASE Outage
    BY <1>2, <2>1 DEF Outage
  <2>2. CASE \E k \in Conn : Break(k)
    <3>1. PICK k \in Conn : k \notin broken /\ broken' = broken \cup {k}
      BY <2>2 DEF Break
    <3>2. Cardinality(broken \cup {k}) = Cardinality(broken) + 1
      BY <1>2, <3>1, FS_AddElement
    <3>3. Cardinality(broken') = Cardinality(broken) + 1
      BY <3>1, <3>2
    <3> QED
      BY <1>2, <3>3
  <2> QED
    BY <2>1, <2>2
<1> HIDE DEF n, m, o
<1>6. program = "gate" =>
        /\ Cardinality(Live) + Cardinality(Late) + failCount <= o
        /\ Cardinality(broken') + failCount <= m
  <2>1. Demand \in Nat /\ 1 <= Demand
    BY DemandFacts
  <2>2. CASE broken' = Live
    BY <1>2, <1>3, <1>4, <2>1, <2>2
  <2>3. CASE Cardinality(broken') = Cardinality(broken) + 1
    BY <1>2, <1>3, <1>4, <2>1, <2>3
  <2> QED
    BY <1>5, <2>2, <2>3
<1>7. GrowInv' = (program' = "gate" =>
        /\ Cardinality(Live') + Cardinality(Late') + failCount' <= Demand * (faults' + 1)
        /\ Cardinality(broken') + failCount' <= Demand * faults')
  BY DEF GrowInv, Demand, Size
<1> QED
  BY <1>1, <1>6, <1>7 DEF m, o

(* Every step keeps GrowInv. *)
LEMMA GrowNext == TInv /\ GrowInv /\ [Next]_vars => (TInv /\ GrowInv)'
<1> SUFFICES ASSUME TInv, GrowInv, [Next]_vars
             PROVE  TInv' /\ GrowInv'
  OBVIOUS
<1>1. TInv' /\ TypeOK /\ TypeOK'
  BY Step, Stutter DEF TInv
<1>2. ASSUME NEW c \in Caller, Call(c) \/ GoOn(c) \/ SpuriousWakeup(c)
      PROVE  GrowInv'
  <2>1. CASE Call(c) \/ Wait(c) \/ SpuriousWakeup(c) \/ GiveUp(c) \/ GetUser(c) \/ Take(c)
    <3>1. Live' = Live
      BY <2>1, CallerStill, TakeStep
    <3>2. UNCHANGED <<program, failCount, faults, broken>> /\ Late' \subseteq Late
      BY <1>1, <2>1 DEF Call, Wait, SpuriousWakeup, GiveUp, GetUser, Take, Late, mysqlVars,
                        TypeOK
    <3> QED
      BY <1>1, <3>1, <3>2, GrowKept
  <2>2. CASE ReturnInner(c)
    <3>1. pc \in [Caller -> PcSet] /\ NotifyOne(pc)
      BY <1>1, <2>2 DEF ReturnInner, TypeOK
    <3>2. Late' \subseteq Late
      BY <3>1, NotifyPc DEF Late
    <3>3. UNCHANGED <<program, failCount, faults, broken>> /\ Live' = Live
      BY <2>2, ReturnInnerStep DEF ReturnInner, mysqlVars
    <3> QED
      BY <1>1, <3>2, <3>3, GrowKept
  <2>3. CASE Return(c)
    <3> DEFINE at == [pc EXCEPT ![c] = "out"]
    <3>1. at \in [Caller -> PcSet] /\ NotifyOne(at)
      BY <1>1, <2>3 DEF Return, TypeOK, PcSet
    <3>2. \A d \in Caller : at[d] = pc[d] \/ at[d] = "out"
      BY <1>1 DEF TypeOK
    <3> HIDE DEF at
    <3>3. \A d \in Caller : pc'[d] = at[d] \/ (at[d] = "asleep" /\ pc'[d] = "lock")
      BY <3>1, NotifyPc
    <3>4. Late' \subseteq Late
      BY <3>2, <3>3 DEF Late
    <3>5. UNCHANGED <<program, failCount, faults, broken>> /\ Live' = Live
      BY <2>3, ReturnStep DEF Return, mysqlVars
    <3> QED
      BY <1>1, <3>4, <3>5, GrowKept
  <2>4. CASE Leak(c)
    <3>1. UNCHANGED <<program, failCount, faults, pool, inner, hand>>
          /\ broken' \subseteq broken /\ Late' \subseteq Late
          /\ \A d \in Caller : outer'[d] = outer[d] \/ outer'[d] = None
      BY <1>1, <2>4 DEF Leak, Late, TypeOK, checkVars
    <3>2. Live' \subseteq Live
      BY <3>1 DEF Live, Held
    <3> QED
      BY <1>1, <3>1, <3>2, GrowKept
  <2>5. CASE Timeout(c)
    BY <1>1, <2>5, GrowTimeout
  <2>6. CASE LateOpen(c)
    BY <1>1, <2>6, GrowLateOpen
  <2> QED
    BY <1>2, <2>1, <2>2, <2>3, <2>4, <2>5, <2>6 DEF GoOn
<1>3. ASSUME StartPass \/ ProbesDone \/ EndPass \/ Recover \/ Pop
      PROVE  GrowInv'
  <2>1. Live' = Live
    BY <1>3, OtherStill, PopStep
  <2>2. UNCHANGED <<program, failCount, faults, broken, pc>>
    BY <1>3 DEF StartPass, ProbesDone, EndPass, Recover, Pop, callerVars, mysqlVars
  <2>3. Late' = Late
    BY <2>2 DEF Late
  <2> QED
    BY <1>1, <2>1, <2>2, <2>3, GrowKept
<1>4. ASSUME ProbeSucceeds
      PROVE  GrowInv'
  <2>1. pc \in [Caller -> PcSet] /\ NotifyOne(pc)
    BY <1>1, <1>4 DEF ProbeSucceeds, TypeOK
  <2>2. Late' \subseteq Late
    BY <2>1, NotifyPc DEF Late
  <2>3. UNCHANGED <<program, failCount, faults, broken>> /\ Live' = Live
    BY <1>4, ProbeSucceedsStep DEF ProbeSucceeds, mysqlVars
  <2> QED
    BY <1>1, <2>2, <2>3, GrowKept
<1>5. ASSUME ProbeFails \/ Reopen
      PROVE  GrowInv'
  BY <1>1, <1>5, GrowChecker
<1>6. ASSUME Outage \/ \E k \in Conn : Break(k)
      PROVE  GrowInv'
  BY <1>1, <1>6, GrowFault
<1>7. CASE UNCHANGED vars
  <2>1. /\ UNCHANGED <<program, pool, failCount, pc, outer, inner>>
        /\ UNCHANGED <<hand, broken, faults>>
    BY <1>7 DEF vars, callerVars, checkVars, mysqlVars
  <2>2. Live' = Live /\ Late' = Late
    BY <2>1 DEF Live, Held, Late
  <2> QED
    BY <1>1, <2>1, <2>2, GrowKept
<1> QED
  BY <1>1, <1>2, <1>3, <1>4, <1>5, <1>6, <1>7 DEF Next, CheckerStep

(* GateServer's pool, whose callers open connections when they time out,   *)
(* does not grow without bound (getConnection, CheckConnectionPro).        *)
THEOREM PoolBounded == Spec => []GrowthBounded
<1>1. Init => TInv /\ GrowInv
  BY InitTInv, InitGrow
<1>2. TInv /\ GrowInv /\ [Next]_vars => (TInv /\ GrowInv)'
  BY GrowNext
<1>3. TInv /\ GrowInv => GrowthBounded
  <2> SUFFICES ASSUME TInv, GrowInv, program = "gate"
               PROVE  Cardinality(Live) + failCount <= Demand * (faults + 1)
    BY DEF GrowthBounded
  <2> DEFINE m == Demand * (faults + 1)
  <2>1. /\ Cardinality(Live) \in Nat /\ Cardinality(Late) \in Nat /\ failCount \in Nat
        /\ faults + 1 \in Nat
    BY GrowTypes DEF TInv
  <2>2. m \in Nat /\ Cardinality(Live) + Cardinality(Late) + failCount <= m
    BY <2>1, DemandFacts DEF GrowInv
  <2> HIDE DEF m
  <2>3. Cardinality(Live) + failCount <= m
    BY <2>1, <2>2
  <2> QED
    BY <2>3 DEF m
<1> QED
  BY <1>1, <1>2, <1>3, PTL DEF Spec

-----------------------------------------------------------------------------
(* DbPool implements Lending.                                              *)
Lent == [c \in Caller |-> {outer[c], inner[c]} \ {None}]

LEMMA LendingInit == ASSUME Init PROVE Loans!Init
<1>1. ToSet(pool) \subseteq Conn
  BY FirstPool, PoolAssumption DEF Init
<1>2. {hand} \ {None} = {} /\ \A c \in Caller : {outer[c], inner[c]} \ {None} = {}
  BY DEF Init
<1> QED
  BY <1>1, <1>2 DEF Loans!Init

(* A caller's connections after one of his has changed.                    *)
LEMMA LentChanges ==
  ASSUME NEW c \in Caller, \A d \in Caller \ {c} : outer'[d] = outer[d] /\ inner'[d] = inner[d],
         NEW S, {outer'[c], inner'[c]} \ {None} = S
  PROVE  Lent' = [Lent EXCEPT ![c] = S]
BY DEF Lent

LEMMA TakeLends ==
  ASSUME TInv, NEW c \in Caller, Take(c)
  PROVE  Loans!Next
<1>1. PICK k \in Conn : k = Head(pool)
  BY TailSet DEF TInv, TypeOK, Take
<1>2. k \in ToSet(pool) /\ ToSet(pool') = ToSet(pool) \ {k}
  BY <1>1, TailSet DEF TInv, TypeOK, Apart, Take
<1>3. inner[c] = None /\ k # None /\ hand' = hand
  BY PoolAssumption DEF TInv, PhaseInv, Take, MayTake, checkVars
<1>4. /\ Lent' = [Lent EXCEPT ![c] = Lent[c] \cup {k}]
      /\ Lent[c] = {} \/ (c \in Nests /\ \E j \in Conn : Lent[c] = {j})
  <2>1. CASE outer[c] = None
    <3>1. /\ outer' = [outer EXCEPT ![c] = k] /\ inner' = inner
      BY <1>1, <2>1 DEF Take
    <3>2. {outer'[c], inner'[c]} \ {None} = {k} /\ Lent[c] = {}
      BY <1>3, <2>1, <3>1 DEF Lent, TInv, TypeOK
    <3>3. \A d \in Caller \ {c} : outer'[d] = outer[d] /\ inner'[d] = inner[d]
      BY <3>1 DEF TInv, TypeOK
    <3> QED
      BY <3>2, <3>3, LentChanges
  <2>2. CASE outer[c] # None
    <3>1. inner' = [inner EXCEPT ![c] = k] /\ outer' = outer
      BY <1>1, <2>2 DEF Take
    <3>2. /\ {outer'[c], inner'[c]} \ {None} = Lent[c] \cup {k}
          /\ Lent[c] = {outer[c]} /\ outer[c] \in Conn
      BY <1>3, <2>2, <3>1 DEF Lent, TInv, TypeOK
    <3>3. \A d \in Caller \ {c} : outer'[d] = outer[d] /\ inner'[d] = inner[d]
      BY <3>1 DEF TInv, TypeOK
    <3>4. c \in Nests
      BY <2>2 DEF TInv, PhaseInv, Take, MayTake
    <3> QED
      BY <3>2, <3>3, <3>4, LentChanges
  <2> QED
    BY <2>1, <2>2
<1>5. Loans!Lend(k, c)
  BY <1>2, <1>3, <1>4 DEF Loans!Lend, Lent
<1> QED
  BY <1>5 DEF Loans!Next

LEMMA ReturnGivesBack ==
  ASSUME TInv, NEW c \in Caller, Return(c) \/ ReturnInner(c)
  PROVE  Loans!Next
<1>1. hand' = hand /\ pool \in Seq(Conn)
  BY DEF Return, ReturnInner, checkVars, TInv, TypeOK
<1>2. PICK k \in Conn :
        /\ pool' = Append(pool, k) /\ k \in Lent[c]
        /\ Lent' = [Lent EXCEPT ![c] = Lent[c] \ {k}]
  <2>1. CASE Return(c)
    <3>1. /\ outer[c] \in Conn /\ outer[c] # None /\ inner[c] = None
          /\ pool' = Append(pool, outer[c])
          /\ outer' = [outer EXCEPT ![c] = None] /\ inner' = inner
      BY <2>1, PoolAssumption DEF Return, Pushed, TInv, TypeOK, PhaseInv
    <3>2. /\ outer[c] \in Lent[c]
          /\ {outer'[c], inner'[c]} \ {None} = Lent[c] \ {outer[c]}
      BY <3>1 DEF Lent, TInv, TypeOK
    <3>3. \A d \in Caller \ {c} : outer'[d] = outer[d] /\ inner'[d] = inner[d]
      BY <3>1 DEF TInv, TypeOK
    <3> QED
      BY <3>1, <3>2, <3>3, LentChanges
  <2>2. CASE ReturnInner(c)
    <3>1. /\ inner[c] \in Conn /\ inner[c] # None
          /\ pool' = Append(pool, inner[c])
          /\ inner' = [inner EXCEPT ![c] = None] /\ outer' = outer
          /\ outer[c] # inner[c]
      BY <2>2 DEF ReturnInner, Pushed, TInv, TypeOK, Apart
    <3>2. /\ inner[c] \in Lent[c]
          /\ {outer'[c], inner'[c]} \ {None} = Lent[c] \ {inner[c]}
      BY <3>1 DEF Lent, TInv, TypeOK
    <3>3. \A d \in Caller \ {c} : outer'[d] = outer[d] /\ inner'[d] = inner[d]
      BY <3>1 DEF TInv, TypeOK
    <3> QED
      BY <3>1, <3>2, <3>3, LentChanges
  <2> QED
    BY <2>1, <2>2
<1>3. ToSet(pool') = ToSet(pool) \cup {k}
  BY <1>1, <1>2, AppendSet
<1>4. Loans!GiveBack(k, c)
  BY <1>1, <1>2, <1>3 DEF Loans!GiveBack, Lent
<1> QED
  BY <1>4 DEF Loans!Next

LEMMA LeakDestroys ==
  ASSUME TInv, NEW c \in Caller, Leak(c)
  PROVE  Loans!Next
<1>1. PICK k \in Conn : k = outer[c] /\ k # None
  BY PoolAssumption DEF Leak, TInv, TypeOK, PhaseInv
<1>2. /\ UNCHANGED <<pool, inner, hand>> /\ c \in Leaks
      /\ outer' = [outer EXCEPT ![c] = None]
      /\ inner[c] # k
  BY <1>1 DEF Leak, checkVars, TInv, TypeOK, Apart
<1>3. k \in Lent[c] /\ {outer'[c], inner'[c]} \ {None} = Lent[c] \ {k}
  BY <1>1, <1>2 DEF Lent, TInv, TypeOK
<1>4. \A d \in Caller \ {c} : outer'[d] = outer[d] /\ inner'[d] = inner[d]
  BY <1>2 DEF TInv, TypeOK
<1>5. Lent' = [Lent EXCEPT ![c] = Lent[c] \ {k}]
  BY <1>3, <1>4, LentChanges
<1>6. Loans!Destroy(k, c)
  BY <1>2, <1>3, <1>5 DEF Loans!Destroy, Lent
<1> QED
  BY <1>6 DEF Loans!Next

LEMMA ProbesPass ==
  ASSUME TInv, Pop \/ ProbeSucceeds \/ ProbeFails
  PROVE  Loans!Next
<1>1. outer' = outer /\ inner' = inner /\ pool \in Seq(Conn)
  BY DEF Pop, ProbeSucceeds, ProbeFails, callerVars, TInv, TypeOK
<1>2. CASE Pop
  <2>1. PICK k \in Conn : k = Head(pool)
    BY <1>2, TailSet DEF TInv, TypeOK, Pop
  <2>2. k \in ToSet(pool) /\ ToSet(pool') = ToSet(pool) \ {k}
    BY <1>2, <2>1, TailSet DEF TInv, TypeOK, Apart, Pop
  <2>3. hand = None /\ hand' = k /\ k # None
    BY <1>2, <2>1, PoolAssumption DEF Pop
  <2>4. Loans!Probe(k)
    BY <1>1, <2>2, <2>3 DEF Loans!Probe
  <2> QED
    BY <2>4 DEF Loans!Next
<1>3. CASE ProbeSucceeds
  <2>1. hand # None /\ hand \in Conn /\ hand' = None /\ pool' = Append(pool, hand)
    BY <1>3 DEF ProbeSucceeds, Pushed, TInv, TypeOK
  <2>2. ToSet(pool') = ToSet(pool) \cup {hand}
    BY <1>1, <2>1, AppendSet
  <2>3. Loans!EndProbe
    BY <1>1, <2>1, <2>2 DEF Loans!EndProbe
  <2> QED
    BY <2>3 DEF Loans!Next
<1>4. CASE ProbeFails
  <2>1. hand # None /\ hand' = None /\ pool' = pool
    BY <1>4 DEF ProbeFails
  <2>2. Loans!EndProbe
    BY <1>1, <2>1 DEF Loans!EndProbe
  <2> QED
    BY <2>2 DEF Loans!Next
<1> QED
  BY <1>2, <1>3, <1>4

LEMMA OpenedIdle ==
  ASSUME TInv, Connects, Opened, UNCHANGED <<outer, inner, hand>>
  PROVE  Loans!Next
<1>1. NewConn \in Conn /\ NewConn \notin Live
  BY OpenedLive
<1>2. PICK k \in Conn : k = NewConn /\ k \notin Live /\ k # None
  BY <1>1, PoolAssumption
<1>3. ToSet(pool') = ToSet(pool) \cup {k}
  BY <1>2, AppendSet DEF Opened, TInv, TypeOK
<1>4. /\ k \notin ToSet(pool) /\ k # hand
      /\ \A c \in Caller : k # outer[c] /\ k # inner[c]
  BY <1>2 DEF Live, Held
<1>5. Loans!Open(k)
  BY <1>3, <1>4 DEF Loans!Open
<1> QED
  BY <1>5 DEF Loans!Next

LEMMA LendingStep ==
  ASSUME TInv, [Next]_vars
  PROVE  [Loans!Next]_(Loans!vars)
<1>1. ASSUME UNCHANGED <<pool, outer, inner, hand>>
      PROVE  UNCHANGED Loans!vars
  BY <1>1 DEF Loans!vars
<1>2. ASSUME NEW c \in Caller, Call(c) \/ GoOn(c) \/ SpuriousWakeup(c)
      PROVE  [Loans!Next]_(Loans!vars)
  <2>1. CASE Call(c) \/ Wait(c) \/ SpuriousWakeup(c) \/ Timeout(c) \/ GiveUp(c)
               \/ GetUser(c)
    BY <1>1, <2>1 DEF Call, Wait, SpuriousWakeup, Timeout, GiveUp, GetUser, checkVars
  <2>2. CASE LateOpen(c)
    <3>1. UNCHANGED <<outer, inner, hand>>
      BY <2>2 DEF LateOpen, checkVars
    <3> QED
      BY <1>1, <2>2, <3>1, OpenedIdle DEF LateOpen
  <2> QED
    BY <1>2, <2>1, <2>2, TakeLends, ReturnGivesBack, LeakDestroys DEF GoOn
<1>3. CASE Reopen
  BY <1>3, OpenedIdle DEF Reopen, callerVars, checkVars
<1>4. CASE Pop \/ ProbeSucceeds \/ ProbeFails
  BY <1>4, ProbesPass
<1>5. CASE \/ StartPass \/ ProbesDone \/ EndPass \/ Outage \/ Recover
           \/ UNCHANGED vars \/ \E k \in Conn : Break(k)
  BY <1>1, <1>5 DEF StartPass, ProbesDone, EndPass, Outage, Recover, Break, callerVars,
       checkVars, vars
<1> QED
  BY <1>2, <1>3, <1>4, <1>5 DEF Next, CheckerStep

(* Every step of a caller or of the checking thread moves at most one      *)
(* connection, and as Lending allows (getConnection, returnConnection,     *)
(* checkConnectionPro).                                                    *)
THEOREM LendingImplemented == Spec => LendingSpec
<1>1. Init => TInv /\ Loans!Init
  BY InitTInv, LendingInit
<1>2. TInv /\ [Next]_vars => TInv' /\ [Loans!Next]_(Loans!vars)
  BY Step, Stutter, LendingStep
<1> QED
  BY <1>1, <1>2, PTL DEF Spec, LendingSpec, Loans!Spec

(* No connection is with two threads, or idle while one uses or probes it. *)
THEOREM LentToOne == Spec => []Loans!Exclusive
<1>1. Init => TInv
  BY InitTInv
<1>2. TInv /\ [Next]_vars => TInv'
  BY Step, Stutter
<1>3. TInv => Loans!Exclusive
  BY DEF TInv, Apart, Loans!Exclusive
<1> QED
  BY <1>1, <1>2, <1>3, PTL DEF Spec
=============================================================================
