------------------------- MODULE Connection_proofs -------------------------
(***************************************************************************)
(* Theorems about Connection: frames arrive whole and in order both ways,  *)
(* replies fit and come in turn, the two ends implement Conversation, and  *)
(* what remains of a closed session.                                       *)
(***************************************************************************)
EXTENDS Connection, Wire_proofs

(* The session is in _sessions from its insertion to its erasure.          *)
ListInv ==
  /\ accept # "done" => ~listed
  /\ accept = "done" /\ ~Closed => listed

(* ClearSession runs for closed sessions only; and of one that was closed  *)
(* after its insertion, it runs until it has erased it.                    *)
ClearInv ==
  /\ clear # "no" => Closed
  /\ accept = "done" /\ Closed /\ listed => overtaken \/ clear # "no"

(* ClearSession has still to look up, or has found, the owner of a session *)
(* that was registered in time.                                            *)
OwnerInv ==
  /\ worker = "register" \/ registered => bound
  /\ accept = "done" /\ Closed /\ registered =>
       overtaken \/ late \/ (clear = "lookup" /\ listed) \/ clear = "user"

FlagsOK ==
  /\ listed \in BOOLEAN /\ overtaken \in BOOLEAN
  /\ bound \in BOOLEAN /\ registered \in BOOLEAN /\ late \in BOOLEAN

CInv == FlagsOK /\ ListInv /\ ClearInv /\ OwnerInv

LEMMA InitCInv == Init => CInv
BY DEF Init, SessionInit, CInv, FlagsOK, ListInv, ClearInv, OwnerInv, Closed

-----------------------------------------------------------------------------
(* What a step of another actor leaves alone: what has been closed stays   *)
(* closed, and who closes a session starts to clear it.                    *)
LEMMA Accepting == CInv /\ (Start \/ Insert) => CInv'
<1> SUFFICES ASSUME CInv, Start \/ Insert PROVE CInv'
  OBVIOUS
<1> USE DEF CInv, FlagsOK, ListInv, ClearInv, OwnerInv, Closed, wireVars,
            logicVars
<1>1. CASE Start
  BY <1>1 DEF Start
<1>2. CASE Insert
  <2>1. CASE Closed
    BY <1>2, <2>1 DEF Insert
  <2>2. CASE ~Closed
    BY <1>2, <2>2 DEF Insert
  <2> QED
    BY <2>1, <2>2
<1> QED
  BY <1>1, <1>2

LEMMA Reading == CInv /\ (ReadStep \/ ReadFails) => CInv'
<1> SUFFICES ASSUME CInv, ReadStep \/ ReadFails PROVE CInv'
  OBVIOUS
<1> USE DEF CInv, FlagsOK, ListInv, ClearInv, OwnerInv, Closed, logicVars
<1>1. CASE ReadStep
  BY <1>1 DEF ReadStep, ReadPart, ReadHead, ReadBody, ReadSome
<1>2. CASE ReadFails
  BY <1>2 DEF ReadFails
<1> QED
  BY <1>1, <1>2

LEMMA Writing ==
  CInv /\ (WriteTaken \/ WriteFails \/ WriteDone \/ WriteError) => CInv'
<1> SUFFICES ASSUME CInv, WriteTaken \/ WriteFails \/ WriteDone \/ WriteError
             PROVE  CInv'
  OBVIOUS
<1> USE DEF CInv, FlagsOK, ListInv, ClearInv, OwnerInv, Closed, wireVars,
            ioVars, logicVars
<1>1. CASE WriteTaken
  BY <1>1 DEF WriteTaken
<1>2. CASE WriteFails
  BY <1>2 DEF WriteFails
<1>3. CASE WriteDone
  BY <1>3 DEF WriteDone
<1>4. CASE WriteError
  BY <1>4 DEF WriteError
<1> QED
  BY <1>1, <1>2, <1>3, <1>4

LEMMA Clearing == CInv /\ (ClearLookup \/ ClearUser \/ ClearErase) => CInv'
<1> SUFFICES ASSUME CInv, ClearLookup \/ ClearUser \/ ClearErase PROVE CInv'
  OBVIOUS
<1> USE DEF CInv, FlagsOK, ListInv, ClearInv, OwnerInv, Closed, wireVars,
            logicVars
<1>1. CASE ClearLookup
  BY <1>1 DEF ClearLookup, OwnerFound
<1>2. CASE ClearUser
  BY <1>2 DEF ClearUser
<1>3. CASE ClearErase
  BY <1>3 DEF ClearErase
<1> QED
  BY <1>1, <1>2, <1>3

LEMMA Working == CInv /\ (WorkerStep \/ \E n \in Note : Notify(n)) => CInv'
<1> SUFFICES ASSUME CInv, WorkerStep \/ \E n \in Note : Notify(n) PROVE CInv'
  OBVIOUS
<1> USE DEF CInv, FlagsOK, ListInv, ClearInv, OwnerInv, Closed, wireVars,
            ioVars
<1>1. CASE HandleRequest \/ LoginDrain \/ LoginRespond
  BY <1>1 DEF HandleRequest, LoginDrain, LoginRespond
<1>2. CASE LoginBind
  BY <1>2 DEF LoginBind
<1>3. CASE LoginRegister
  BY <1>3 DEF LoginRegister
<1>4. CASE \E n \in Note : Notify(n)
  BY <1>4 DEF Notify
<1> QED
  BY <1>1, <1>2, <1>3, <1>4 DEF WorkerStep

(* The bridge and the network end the connection without the server.       *)
LEMMA Outside ==
  ASSUME CInv, UNCHANGED sessionVars, Closed' <=> Closed
  PROVE  CInv'
BY DEF CInv, FlagsOK, ListInv, ClearInv, OwnerInv, sessionVars, ioVars,
       logicVars

LEMMA BridgeNeverCloses == BridgeStep => (Closed' <=> Closed)
<1> SUFFICES ASSUME BridgeStep PROVE Closed' <=> Closed
  OBVIOUS
<1> USE DEF Closed, wireVars, sockVars
<1>1. CASE Connect \/ Connected \/ ConnectFails
  BY <1>1 DEF Connect, Connected, ConnectFails
<1>2. CASE \E q \in Request : SendRequest(q) \/ Timeout(q)
  BY <1>2 DEF SendRequest, Timeout
<1>3. CASE \E n \in 1 .. Len(down) : Data(n)
  BY <1>3 DEF Data
<1>4. CASE Packet \/ Refuse
  BY <1>4 DEF Packet, Refuse
<1>5. CASE Disconnect \/ CloseEvent \/ SocketEnds
  BY <1>5 DEF Disconnect, CloseEvent, SocketEnds
<1> QED
  BY <1>1, <1>2, <1>3, <1>4, <1>5 DEF BridgeStep

-----------------------------------------------------------------------------
LEMMA NextCInv == CInv /\ [Next]_vars => CInv'
<1> SUFFICES ASSUME CInv, [Next]_vars PROVE CInv'
  OBVIOUS
<1>1. CASE SessionStep
  BY <1>1, Accepting, Reading, Writing, Clearing, Working
     DEF SessionStep, IOStep
<1>2. CASE BridgeStep /\ UNCHANGED sessionVars
  BY <1>2, BridgeNeverCloses, Outside
<1>3. CASE NetBreaks
  BY <1>3, Outside DEF NetBreaks, Closed
<1>4. CASE UNCHANGED vars
  BY <1>4, Outside DEF vars, wireVars, Closed
<1> QED
  BY <1>1, <1>2, <1>3, <1>4 DEF Next

(* A closed session stays in _sessions only if it was closed before it was *)
(* inserted, and in UserMgr only then or if its login was handled after it *)
(* had been closed (HandleAccept, ClearSession, LoginHandler).             *)
THEOREM SessionForgotten == Spec => []NothingLeft
<1>1. CInv => NothingLeft
  BY DEF CInv, ClearInv, OwnerInv, NothingLeft, Finished
<1> QED
  BY <1>1, InitCInv, NextCInv, PTL DEF Spec

-----------------------------------------------------------------------------
(* The requests that the bridge has written, as frames.                    *)
Reqs == [i \in DOMAIN written |-> Req(written[i])]

UpTypes ==
  /\ up \in Seq(Unit) /\ data \in Seq(Unit) /\ head \in Seq(Unit)
  /\ posted \in Seq(Frame) /\ handled \in Seq(Frame)
  /\ written \in Seq(Request)
  /\ reading \in {"no", "head", "body"}
  /\ reading = "body" => Len(head) = HeadLen
  /\ accept = "none" => reading = "no"

(* What the server has read of a frame.                                    *)
Partial == IF reading = "body" THEN head \o data ELSE data

(* What has been written is what the worker has taken, what is queued for  *)
(* him, and frames of which the server may have read a part.               *)
UpInv ==
  /\ UpTypes
  /\ \E fs \in Seq(Frame) :
       /\ Reqs = (handled \o posted) \o fs
       /\ reading # "no" \/ accept = "none" => Framed(Partial \o up, fs)

upVars == <<up, data, head, posted, handled, written, reading, accept>>

LEMMA UpKept == UpInv /\ UNCHANGED upVars => UpInv'
BY DEF UpInv, UpTypes, Reqs, Partial, upVars

LEMMA InitUp == Init => UpInv
<1> SUFFICES ASSUME Init PROVE UpInv
  OBVIOUS
<1>1. /\ up = <<>> /\ data = <<>> /\ head = <<>> /\ posted = <<>>
      /\ handled = <<>> /\ written = <<>> /\ reading = "no"
  BY DEF Init, SessionInit, BridgeInit
<1>2. UpTypes
  BY <1>1, EmptySeq DEF UpTypes
<1>3. /\ <<>> \in Seq(Frame) /\ <<>> \in Seq(Unit)
      /\ <<>> \o <<>> = <<>> /\ (<<>> \o <<>>) \o <<>> = <<>>
  OBVIOUS
<1>4. Reqs = <<>>
  BY <1>1 DEF Reqs
<1>5. Reqs = (handled \o posted) \o <<>> /\ Partial \o up = <<>>
  BY <1>1, <1>3, <1>4 DEF Partial
<1> QED
  BY <1>2, <1>3, <1>5, FramedNone DEF UpInv

LEMMA ReqType == \A q \in Request : Req(q) \in Frame
BY EmptySeq DEF Req, Frame

LEMMA WriteUp ==
  ASSUME UpInv, NEW q \in Request, Write(q),
         UNCHANGED <<data, head, posted, handled, reading, accept>>
  PROVE  UpInv'
<1>1. PICK fs \in Seq(Frame) :
        /\ Reqs = (handled \o posted) \o fs
        /\ reading # "no" \/ accept = "none" => Framed(Partial \o up, fs)
  BY DEF UpInv
<1> DEFINE f == Req(q)
<1>2. f \in Frame /\ Units(f) \in Seq(Unit)
  BY ReqType, UnitsType
<1>3. /\ up' = up \o Units(f) /\ written' = Append(written, q)
      /\ UpTypes /\ handled \o posted \in Seq(Frame)
  BY ConcatProperties DEF Write, UpInv, UpTypes
<1>4. Reqs' = Append(Reqs, f)
  <2>1. /\ DOMAIN written = 1 .. Len(written) /\ Len(written) \in Nat
        /\ DOMAIN Append(written, q) = 1 .. Len(written) + 1
        /\ \A i \in 1 .. Len(written) : Append(written, q)[i] = written[i]
        /\ Append(written, q)[Len(written) + 1] = q
    BY <1>3 DEF UpTypes
  <2>2. \A i \in 1 .. Len(written) : Req(written[i]) \in Frame
    BY <1>3, <2>1, ReqType, ElementOfSeq DEF UpTypes
  <2>3. Reqs \in Seq(Frame) /\ Len(Reqs) = Len(written)
    BY <2>1, <2>2 DEF Reqs
  <2>4. /\ Append(Reqs, f) \in Seq(Frame)
        /\ Len(Append(Reqs, f)) = Len(written) + 1
        /\ \A i \in 1 .. Len(written) : Append(Reqs, f)[i] = Req(written[i])
        /\ Append(Reqs, f)[Len(written) + 1] = f
    <3>1. \A i \in 1 .. Len(written) : Reqs[i] = Req(written[i])
      BY <2>1 DEF Reqs
    <3> QED
      BY <1>2, <2>3, <3>1, AppendProperties
  <2>5. Reqs' = [i \in 1 .. Len(written) + 1 |-> Req(Append(written, q)[i])]
    BY <1>3, <2>1 DEF Reqs
  <2>6. \A i \in 1 .. Len(written) + 1 :
          Append(Reqs, f)[i] = Req(Append(written, q)[i])
    BY <2>1, <2>4
  <2>7. DOMAIN Append(Reqs, f) = 1 .. Len(written) + 1
    BY <2>4, LenProperties
  <2>8. Append(Reqs, f) = [i \in 1 .. Len(written) + 1 |-> Append(Reqs, f)[i]]
    BY <2>4, <2>7, LenProperties
  <2> QED
    BY <2>5, <2>6, <2>8
<1>5. Append(fs, f) \in Seq(Frame)
  BY <1>2, AppendProperties
<1>6. Reqs' = (handled' \o posted') \o Append(fs, f)
  <2>1. Append(fs, f) = fs \o <<f>> /\ <<f>> \in Seq(Frame)
    BY <1>2, AppendIsConcat
  <2>2. Reqs \in Seq(Frame)
    BY <1>1, <1>3, ConcatProperties
  <2>3. Append(Reqs, f) = Reqs \o <<f>>
    BY <1>2, <2>2, AppendIsConcat
  <2>4. ((handled \o posted) \o fs) \o <<f>> = (handled \o posted) \o (fs \o <<f>>)
    BY <1>3, <2>1, ConcatAssociative, SMTT(30)
  <2> QED
    BY <1>1, <1>4, <2>1, <2>3, <2>4
<1>7. Partial \in Seq(Unit) /\ Partial' = Partial
  BY <1>3, ConcatProperties DEF Partial, UpTypes
<1>8. reading' # "no" \/ accept' = "none" => Framed(Partial' \o up', Append(fs, f))
  <2>1. Partial \o up \in Seq(Unit) /\ up \in Seq(Unit)
    BY <1>3, <1>7, ConcatProperties DEF UpTypes
  <2>2. (Partial \o up) \o Units(f) = Partial \o (up \o Units(f))
    BY <1>2, <1>7, <2>1, ConcatAssociative
  <2> QED
    BY <1>1, <1>2, <1>3, <1>7, <2>1, <2>2, FramedMore
<1>9. UpTypes'
  BY <1>2, <1>3, ConcatProperties, AppendProperties DEF UpTypes
<1> QED
  BY <1>5, <1>6, <1>8, <1>9 DEF UpInv

(* The pieces of a read.                                                   *)
LEMMA ReadCuts ==
  ASSUME UpInv, NEW n \in 1 .. HeadLen + MaxPacket, ReadSome(n),
         UNCHANGED written
  PROVE  /\ reading # "no" /\ UpTypes
         /\ ReadOn(n) \in Seq(Unit) /\ Len(ReadOn(n)) = Len(data) + n
         /\ up' \in Seq(Unit) /\ ReadOn(n) \o up' = data \o up
         /\ handled' = handled /\ accept' = accept /\ written' = written
<1>1. /\ UpTypes /\ n \in Nat /\ n <= Len(up)
      /\ up' = SubSeq(up, n + 1, Len(up)) /\ reading # "no"
  BY WireAssumption DEF UpInv, ReadSome
<1> DEFINE x == SubSeq(up, 1, n)
<1>2. /\ x \in Seq(Unit) /\ Len(x) = n /\ up' \in Seq(Unit) /\ x \o up' = up
      /\ data \in Seq(Unit)
  <2>1. n \in 0 .. Len(up) /\ up \in Seq(Unit)
    BY <1>1 DEF UpTypes
  <2> QED
    BY <1>1, <2>1, CutSeq DEF UpTypes
<1> HIDE DEF x
<1>3. ReadOn(n) = data \o x
  BY DEF ReadOn, x
<1>4. ReadOn(n) \in Seq(Unit) /\ Len(ReadOn(n)) = Len(data) + n
  BY <1>2, <1>3, ConcatProperties
<1>5. (data \o x) \o up' = data \o (x \o up')
  <2>1. \A a, b, c \in Seq(Unit) : (a \o b) \o c = a \o (b \o c)
    BY Regroup
  <2> QED
    BY <1>2, <2>1
<1>6. ReadOn(n) \o up' = data \o up
  BY <1>2, <1>3, <1>5, Zenon
<1>7. handled' = handled /\ accept' = accept
  BY DEF ReadSome, logicVars
<1> QED
  BY <1>1, <1>2, <1>4, <1>6, <1>7

LEMMA ReadUp == UpInv /\ ReadStep /\ UNCHANGED written => UpInv'
<1> SUFFICES ASSUME UpInv, UNCHANGED written, NEW n \in 1 .. HeadLen + MaxPacket,
                    ReadPart(n) \/ ReadHead(n) \/ ReadBody(n)
             PROVE  UpInv'
  BY DEF ReadStep
<1>1. ReadSome(n)
  BY DEF ReadPart, ReadHead, ReadBody
<1>2. /\ reading # "no" /\ UpTypes
      /\ ReadOn(n) \in Seq(Unit) /\ Len(ReadOn(n)) = Len(data) + n
      /\ up' \in Seq(Unit) /\ ReadOn(n) \o up' = data \o up
      /\ handled' = handled /\ accept' = accept /\ written' = written
  BY <1>1, ReadCuts
<1>3. PICK fs \in Seq(Frame) :
        Reqs = (handled \o posted) \o fs /\ Framed(Partial \o up, fs)
  BY <1>2 DEF UpInv
<1>4. Reqs' = Reqs
  BY <1>2 DEF Reqs
<1>5. reading = "body" =>
        /\ head \in Seq(Unit) /\ (head \o ReadOn(n)) \o up' = Partial \o up
        /\ head \o ReadOn(n) \in Seq(Unit)
        /\ Len(head \o ReadOn(n)) = HeadLen + Len(ReadOn(n))
  <2>1. /\ head \in Seq(Unit) /\ data \in Seq(Unit) /\ up \in Seq(Unit)
        /\ reading = "body" => Len(head) = HeadLen
    BY <1>2 DEF UpTypes
  <2>2. \A a, b, c \in Seq(Unit) : (a \o b) \o c = a \o (b \o c)
    BY Regroup, SMTT(30)
  <2>3. /\ (head \o ReadOn(n)) \o up' = head \o (ReadOn(n) \o up')
        /\ (head \o data) \o up = head \o (data \o up)
    BY <1>2, <2>1, <2>2, ZenonT(30)
  <2>4. (head \o ReadOn(n)) \o up' = (head \o data) \o up
    BY <1>2, <2>3, Zenon
  <2>5. /\ head \o ReadOn(n) \in Seq(Unit)
        /\ Len(head \o ReadOn(n)) = Len(head) + Len(ReadOn(n))
    BY <1>2, <2>1, ConcatProperties
  <2> QED
    BY <2>1, <2>4, <2>5 DEF Partial
<1>6. CASE ReadPart(n)
  <2>1. /\ data' = ReadOn(n) /\ reading' = reading /\ head' = head
        /\ posted' = posted
    BY <1>6 DEF ReadPart
  <2>2. Partial' \o up' = Partial \o up
    BY <1>2, <1>5, <2>1 DEF Partial
  <2>3. UpTypes'
    BY <1>2, <2>1 DEF UpTypes
  <2> QED
    BY <1>2, <1>3, <1>4, <2>1, <2>2, <2>3 DEF UpInv
<1>7. CASE ReadHead(n)
  <2>1. /\ head' = ReadOn(n) /\ data' = <<>> /\ reading' = "body"
        /\ reading = "head" /\ posted' = posted /\ Len(head') = HeadLen
    BY <1>2, <1>7 DEF ReadHead, Wanted
  <2>2. head' \o <<>> = head' /\ <<>> \in Seq(Unit)
    BY <1>2, <2>1, ConcatEmptySeq
  <2>3. Partial' \o up' = Partial \o up
    BY <1>2, <2>1, <2>2 DEF Partial
  <2>4. UpTypes'
    BY <1>2, <2>1, <2>2 DEF UpTypes
  <2> QED
    BY <1>2, <1>3, <1>4, <2>1, <2>3, <2>4 DEF UpInv
<1>8. CASE ReadBody(n)
  <2> DEFINE x == head \o ReadOn(n)
  <2>1. /\ reading = "body" /\ data' = <<>> /\ reading' = "head"
        /\ posted' = Append(posted, Decode(x)) /\ head' = head
        /\ Len(ReadOn(n)) = LengthIn(head)
    BY <1>2, <1>8 DEF ReadBody, Wanted
  <2>2. /\ x \in Seq(Unit) /\ x \o up' = Partial \o up
        /\ Len(x) = HeadLen + LengthIn(head) /\ Len(head) = HeadLen
        /\ head \in Seq(Unit)
    BY <1>2, <1>5, <2>1 DEF UpTypes
  <2>3. x # <<>> /\ LengthIn(x) = LengthIn(head)
    <3>1. 1 \in 1 .. Len(head) /\ x[1] = head[1]
      BY <1>2, <2>2, WireAssumption, ConcatProperties
    <3>2. Len(x) >= 1
      <4>1. Len(x) = HeadLen + Len(ReadOn(n)) /\ Len(ReadOn(n)) \in Nat
        BY <1>2, <1>5, <2>1, LenProperties
      <4> QED
        BY <4>1, WireAssumption
    <3>3. Head(x) = x[1] /\ Head(head) = head[1] /\ x # <<>>
      BY <2>2, <3>2, EmptySeq
    <3> QED
      BY <3>1, <3>3 DEF LengthIn
  <2> HIDE DEF x
  <2>4. /\ fs # <<>> /\ Decode(x) = Head(fs) /\ Framed(up', Tail(fs))
    <3>1. Framed(x \o up', fs)
      BY <1>3, <2>2
    <3> QED
      BY <1>2, <2>2, <2>3, <3>1, ReadFrame
  <2>5. Tail(fs) \in Seq(Frame) /\ Head(fs) \in Frame
    BY <2>4, HeadTailProperties
  <2>6. Reqs' = (handled' \o posted') \o Tail(fs)
    <3>1. handled \in Seq(Frame) /\ posted \in Seq(Frame) /\ <<>> \in Seq(Frame)
      BY <1>2 DEF UpTypes
    <3>2. /\ handled \o posted \in Seq(Frame) /\ fs \o <<>> = fs
          /\ Tail(fs) \o <<>> = Tail(fs)
      BY <2>5, <3>1, ConcatProperties, ConcatEmptySeq
    <3>3. (handled \o posted) \o (fs \o <<>>)
            = Append(handled \o posted, Head(fs)) \o (Tail(fs) \o <<>>)
      <4> DEFINE hp == handled \o posted
      <4>1. hp \in Seq(Frame) /\ fs # <<>> /\ <<>> \in Seq(Frame)
        BY <2>4, <3>1, <3>2
      <4> HIDE DEF hp
      <4>2. hp \o (fs \o <<>>) = Append(hp, Head(fs)) \o (Tail(fs) \o <<>>)
        BY <4>1, MoveFirst
      <4> QED
        BY <4>2 DEF hp
    <3>4. Append(handled \o posted, Head(fs)) = handled \o Append(posted, Head(fs))
      <4>1. /\ <<Head(fs)>> \in Seq(Frame)
            /\ Append(handled \o posted, Head(fs)) = (handled \o posted) \o <<Head(fs)>>
            /\ Append(posted, Head(fs)) = posted \o <<Head(fs)>>
        BY <2>5, <3>1, <3>2, AppendIsConcat
      <4>2. (handled \o posted) \o <<Head(fs)>> = handled \o (posted \o <<Head(fs)>>)
        BY <3>1, <4>1, Regroup, SMTT(30)
      <4> QED
        BY <4>1, <4>2
    <3> QED
      BY <1>2, <1>3, <1>4, <2>1, <2>4, <3>2, <3>3, <3>4
  <2>7. Partial' \o up' = up'
    BY <1>2, <2>1, ConcatEmptySeq DEF Partial
  <2>8. UpTypes'
    BY <1>2, <2>1, <2>2, <2>4, <2>5, AppendProperties, EmptySeq DEF UpTypes
  <2> QED
    BY <1>2, <2>4, <2>5, <2>6, <2>7, <2>8 DEF UpInv
<1> QED
  BY <1>6, <1>7, <1>8

(* The worker takes the first frame that is posted.                        *)
LEMMA TakeUp ==
  ASSUME UpInv, NEW i \in NextPosted, Take(i),
         UNCHANGED <<up, data, head, written, reading, accept>>
  PROVE  UpInv' /\ posted[i] \in Frame
<1>1. posted \in Seq(Frame) /\ handled \in Seq(Frame)
  BY DEF UpInv, UpTypes
<1>2. i = 1 /\ posted # <<>>
  BY <1>1, EmptySeq DEF NextPosted
<1>3. /\ posted[1] \in Frame /\ posted' = Tail(posted)
      /\ handled' = Append(handled, posted[1])
      /\ posted' \in Seq(Frame) /\ handled' \o posted' = handled \o posted
  BY <1>1, <1>2, TakeFirst DEF Take
<1>4. handled' \in Seq(Frame)
  BY <1>1, <1>3, AppendProperties
<1>5. UpTypes' /\ Reqs' = Reqs /\ Partial' = Partial
  BY <1>3, <1>4 DEF UpInv, UpTypes, Reqs, Partial
<1> QED
  BY <1>2, <1>3, <1>5 DEF UpInv

LEMMA SessionUp == UpInv /\ SessionStep /\ UNCHANGED written => UpInv'
<1> SUFFICES ASSUME UpInv, SessionStep, UNCHANGED written PROVE UpInv'
  OBVIOUS
<1>1. CASE Start
  <2>1. /\ accept = "none" /\ accept' = "started" /\ reading' = "head"
        /\ UNCHANGED <<up, data, head, posted, handled, written>>
    BY <1>1 DEF Start, wireVars, logicVars
  <2>2. UpTypes' /\ Reqs' = Reqs /\ Partial' = Partial
    BY <2>1 DEF UpInv, UpTypes, Reqs, Partial
  <2> QED
    BY <2>1, <2>2 DEF UpInv
<1>2. CASE Insert
  <2>1. /\ accept = "started" /\ accept' = "done"
        /\ UNCHANGED <<up, data, head, posted, handled, written, reading>>
    BY <1>2 DEF Insert, wireVars, logicVars
  <2>2. UpTypes' /\ Reqs' = Reqs /\ Partial' = Partial
    BY <2>1 DEF UpInv, UpTypes, Reqs, Partial
  <2> QED
    BY <2>1, <2>2 DEF UpInv
<1>3. CASE ReadStep
  BY <1>3, ReadUp
<1>4. CASE ReadFails
  <2>1. /\ reading # "no" /\ reading' = "no"
        /\ UNCHANGED <<up, data, head, posted, handled, written, accept>>
    BY <1>4 DEF ReadFails, logicVars
  <2>2. UpTypes' /\ Reqs' = Reqs /\ accept' # "none"
    BY <2>1 DEF UpInv, UpTypes, Reqs
  <2> QED
    BY <2>1, <2>2 DEF UpInv
<1>5. CASE WriteTaken \/ WriteFails \/ WriteDone \/ WriteError
  BY <1>5, UpKept DEF WriteTaken, WriteFails, WriteDone, WriteError, upVars,
                      wireVars, ioVars, logicVars
<1>6. CASE ClearLookup \/ ClearUser \/ ClearErase
  BY <1>6, UpKept DEF ClearLookup, ClearUser, ClearErase, upVars, wireVars,
                      logicVars
<1>7. CASE HandleRequest
  <2>1. PICK i \in NextPosted : Take(i)
    BY <1>7 DEF HandleRequest
  <2> QED
    BY <1>7, <2>1, TakeUp DEF HandleRequest, wireVars, ioVars
<1>8. CASE LoginDrain
  <2>1. PICK i \in NextPosted : Take(i)
    BY <1>8 DEF LoginDrain
  <2> QED
    BY <1>8, <2>1, TakeUp DEF LoginDrain, wireVars, ioVars
<1>9. CASE LoginBind \/ LoginRegister \/ LoginRespond
  BY <1>9, UpKept DEF LoginBind, LoginRegister, LoginRespond, upVars, wireVars,
                      ioVars
<1>10. CASE \E n \in Note : Notify(n)
  BY <1>10, UpKept DEF Notify, upVars, wireVars, ioVars
<1> QED
  BY <1>1, <1>2, <1>3, <1>4, <1>5, <1>6, <1>7, <1>8, <1>9, <1>10
     DEF SessionStep, IOStep, WorkerStep

LEMMA BridgeUp == UpInv /\ BridgeStep /\ UNCHANGED sessionVars => UpInv'
<1> SUFFICES ASSUME UpInv, BridgeStep, UNCHANGED sessionVars PROVE UpInv'
  OBVIOUS
<1>1. UNCHANGED <<data, head, posted, handled, reading, accept>>
  BY DEF sessionVars, ioVars, logicVars
<1>2. CASE Connected
  BY <1>1, <1>2, WriteUp, WireAssumption DEF Connected
<1>3. CASE \E q \in Request : SendRequest(q) \/ Timeout(q)
  <2>1. PICK q \in Request : SendRequest(q) \/ Timeout(q)
    BY <1>3
  <2>2. CASE Write(q)
    BY <1>1, <2>2, WriteUp
  <2>3. CASE UNCHANGED <<up, written>>
    BY <1>1, <2>3, UpKept DEF upVars
  <2> QED
    BY <2>1, <2>2, <2>3 DEF SendRequest, Timeout, wireVars
<1>4. CASE Connect \/ ConnectFails \/ CloseEvent \/ SocketEnds
  BY <1>1, <1>4, UpKept DEF Connect, ConnectFails, CloseEvent, SocketEnds,
                            wireVars, waitVars, upVars
<1>5. CASE \E n \in 1 .. Len(down) : Data(n)
  BY <1>1, <1>5, UpKept DEF Data, waitVars, upVars
<1>6. CASE Packet \/ Refuse \/ Disconnect
  BY <1>1, <1>6, UpKept DEF Packet, Refuse, Disconnect, wireVars, waitVars,
                            upVars
<1> QED
  BY <1>2, <1>3, <1>4, <1>5, <1>6 DEF BridgeStep

LEMMA NextUp == UpInv /\ [Next]_vars => UpInv'
<1> SUFFICES ASSUME UpInv, [Next]_vars PROVE UpInv'
  OBVIOUS
<1>1. CASE SessionStep /\ UNCHANGED bridgeVars
  BY <1>1, SessionUp DEF bridgeVars, waitVars
<1>2. CASE BridgeStep /\ UNCHANGED sessionVars
  BY <1>2, BridgeUp
<1>3. CASE NetBreaks \/ UNCHANGED vars
  BY <1>3, UpKept DEF NetBreaks, vars, wireVars, sessionVars, ioVars,
                      logicVars, bridgeVars, waitVars, upVars
<1> QED
  BY <1>1, <1>2, <1>3 DEF Next

LEMMA UpPrefix == UpInv => PostedInOrder
<1> SUFFICES ASSUME UpInv PROVE PostedInOrder
  OBVIOUS
<1>1. PICK fs \in Seq(Frame) : Reqs = (handled \o posted) \o fs
  BY DEF UpInv
<1>2. handled \o posted \in Seq(Frame)
  BY ConcatProperties DEF UpInv, UpTypes
<1>3. IsPrefix(handled \o posted, Reqs)
  BY <1>1, <1>2, StartIsPrefix
<1> QED
  BY <1>3 DEF PostedInOrder, Reqs

(* The worker gets the frames the bridge has written, whole and in order,  *)
(* however TCP cuts them (AsyncReadHead, AsyncReadBody, asyncReadLen).     *)
THEOREM RequestsInOrder == Spec => []PostedInOrder
BY InitUp, NextUp, UpPrefix, PTL DEF Spec

-----------------------------------------------------------------------------
(* The way back.  What Send has queued and the kernel has not taken:       *)
Unsent == IF writing = "taken" THEN Tail(sendQue) ELSE sendQue

DownTypes ==
  /\ down \in Seq(Unit) /\ buffer \in Seq(Unit)
  /\ packets \in Seq(Frame) /\ accepted \in Seq(Frame) /\ sendQue \in Seq(Frame)
  /\ writing \in {"no", "begun", "taken", "failed"}
  /\ writing # "no" => sendQue # <<>>
  /\ cur \in Seq(Message) /\ offline \in Seq(Message)

(* What Send has queued is what the bridge has emitted, frames that are in *)
(* flight or in its buffer, and what the kernel has not taken.             *)
DownInv ==
  /\ DownTypes
  /\ \E fs \in Seq(Frame) :
       /\ accepted = packets \o (fs \o Unsent)
       /\ Framed(buffer \o down, fs)

downVars == <<down, buffer, packets, accepted, sendQue, writing>>

LEMMA DownKept ==
  DownInv /\ UNCHANGED <<downVars, cur, offline>> => DownInv'
BY DEF DownInv, DownTypes, Unsent, downVars

LEMMA InitDown == Init => DownInv
<1> SUFFICES ASSUME Init PROVE DownInv
  OBVIOUS
<1>1. PICK load \in Loads : SessionInit(load) /\ BridgeInit(load)
  BY DEF Init
<1>2. /\ down = <<>> /\ buffer = <<>> /\ packets = <<>> /\ accepted = <<>>
      /\ sendQue = <<>> /\ writing = "no" /\ cur = <<>> /\ offline = load.list
  BY <1>1 DEF Init, SessionInit, BridgeInit
<1>3. load.list \in Seq(Message)
  BY WireAssumption
<1>4. DownTypes
  BY <1>2, <1>3 DEF DownTypes
<1>5. /\ <<>> \in Seq(Frame)
      /\ <<>> \o <<>> = <<>> /\ <<>> \o (<<>> \o <<>>) = <<>>
  OBVIOUS
<1>6. accepted = packets \o (<<>> \o Unsent) /\ buffer \o down = <<>>
  BY <1>2, <1>5 DEF Unsent
<1> QED
  BY <1>4, <1>5, <1>6, FramedNone DEF DownInv

LEMMA UnsentType == DownTypes => Unsent \in Seq(Frame)
BY HeadTailProperties DEF DownTypes, Unsent

LEMMA SendDown ==
  ASSUME DownInv, NEW f \in Frame, Send(f), UNCHANGED <<down, buffer, packets>>,
         cur' \in Seq(Message), offline' \in Seq(Message)
  PROVE  DownInv'
<1>1. DownTypes /\ Unsent \in Seq(Frame)
  BY UnsentType DEF DownInv
<1>2. PICK fs \in Seq(Frame) :
        accepted = packets \o (fs \o Unsent) /\ Framed(buffer \o down, fs)
  BY DEF DownInv
<1>3. CASE Full
  <2>1. UNCHANGED downVars
    BY <1>3 DEF Send, downVars
  <2>2. DownTypes' /\ Unsent' = Unsent
    BY <1>1, <2>1 DEF DownTypes, Unsent, downVars
  <2> QED
    BY <1>2, <2>1, <2>2 DEF DownInv, downVars
<1>4. CASE ~Full
  <2>1. /\ sendQue' = Append(sendQue, f) /\ accepted' = Append(accepted, f)
        /\ writing' = IF sendQue = <<>> THEN "begun" ELSE writing
    BY <1>4 DEF Send, WriteIfFirst
  <2>2. /\ sendQue' \in Seq(Frame) /\ accepted' \in Seq(Frame)
        /\ sendQue' # <<>>
    <3>1. sendQue \in Seq(Frame) /\ accepted \in Seq(Frame)
      BY <1>1 DEF DownTypes
    <3> QED
      BY <2>1, <3>1, AppendProperties, SMTT(30)
  <2>3. DownTypes'
    BY <1>1, <2>1, <2>2 DEF DownTypes
  <2>4. Unsent' = Append(Unsent, f)
    <3>1. CASE sendQue = <<>>
      BY <1>1, <2>1, <3>1 DEF DownTypes, Unsent
    <3>2. CASE sendQue # <<>>
      <4>1. Tail(Append(sendQue, f)) = Append(Tail(sendQue), f)
        BY <1>1, <3>2, HeadTailAppend DEF DownTypes
      <4> QED
        BY <1>1, <2>1, <3>2, <4>1 DEF Unsent
    <3> QED
      BY <3>1, <3>2
  <2>5. accepted' = packets \o (fs \o Append(Unsent, f))
    <3>1. \A a, b, c \in Seq(Frame) :
            (a \o b) \o c = a \o (b \o c) /\ a \o b \in Seq(Frame)
      BY Regroup
    <3>2. /\ <<f>> \in Seq(Frame) /\ packets \in Seq(Frame)
          /\ fs \o Unsent \in Seq(Frame)
      BY <1>1, <3>1 DEF DownTypes
    <3>3. /\ Append(accepted, f) = accepted \o <<f>>
          /\ Append(Unsent, f) = Unsent \o <<f>>
      BY <1>1, AppendIsConcat DEF DownTypes
    <3>4. (packets \o (fs \o Unsent)) \o <<f>> = packets \o ((fs \o Unsent) \o <<f>>)
      BY <3>1, <3>2, SMTT(30)
    <3>5. (fs \o Unsent) \o <<f>> = fs \o (Unsent \o <<f>>)
      BY <1>1, <3>1, <3>2
    <3> QED
      BY <1>2, <2>1, <3>3, <3>4, <3>5
  <2> QED
    BY <1>2, <2>3, <2>4, <2>5 DEF DownInv
<1> QED
  BY <1>3, <1>4

LEMMA WriteDown ==
  DownInv /\ (WriteTaken \/ WriteFails \/ WriteDone \/ WriteError)
          /\ UNCHANGED <<buffer, packets>> => DownInv'
<1> SUFFICES ASSUME DownInv, UNCHANGED <<buffer, packets>>,
                    WriteTaken \/ WriteFails \/ WriteDone \/ WriteError
             PROVE  DownInv'
  OBVIOUS
<1>1. DownTypes /\ Unsent \in Seq(Frame)
  BY UnsentType DEF DownInv
<1>2. PICK fs \in Seq(Frame) :
        accepted = packets \o (fs \o Unsent) /\ Framed(buffer \o down, fs)
  BY DEF DownInv
<1>3. UNCHANGED <<accepted, cur, offline>>
  BY DEF WriteTaken, WriteFails, WriteDone, WriteError, logicVars
<1>4. CASE WriteTaken
  <2> DEFINE f == Head(sendQue)
  <2>1. /\ writing = "begun" /\ writing' = "taken" /\ sendQue' = sendQue
        /\ down' = down \o Units(f) /\ sendQue # <<>>
    BY <1>1, <1>4 DEF WriteTaken, DownTypes
  <2>2. /\ f \in Frame /\ Units(f) \in Seq(Unit) /\ Tail(sendQue) \in Seq(Frame)
    BY <1>1, <2>1, HeadTailProperties, UnitsType DEF DownTypes
  <2>3. Append(fs, f) \in Seq(Frame)
    BY <2>2, AppendProperties
  <2>4. accepted' = packets \o (Append(fs, f) \o Tail(sendQue))
    <3>1. fs \o (sendQue \o <<>>) = Append(fs, f) \o (Tail(sendQue) \o <<>>)
      <4>1. <<>> \in Seq(Frame) /\ sendQue \in Seq(Frame)
        BY <1>1, EmptySeq DEF DownTypes
      <4> QED
        BY <2>1, <4>1, MoveFirst
    <3>2. sendQue \o <<>> = sendQue /\ Tail(sendQue) \o <<>> = Tail(sendQue)
      BY <1>1, <2>2, ConcatEmptySeq DEF DownTypes
    <3> QED
      BY <1>2, <1>3, <2>1, <3>1, <3>2 DEF Unsent
  <2>5. Framed(buffer \o (down \o Units(f)), Append(fs, f))
    <3>1. \A a, b, c \in Seq(Unit) :
            (a \o b) \o c = a \o (b \o c) /\ a \o b \in Seq(Unit)
      BY Regroup
    <3>2. /\ (buffer \o down) \o Units(f) = buffer \o (down \o Units(f))
          /\ buffer \o down \in Seq(Unit)
      BY <1>1, <2>2, <3>1 DEF DownTypes
    <3> QED
      BY <1>2, <2>2, <3>2, FramedMore
  <2>6. DownTypes'
    BY <1>1, <1>3, <2>1, <2>2, ConcatProperties DEF DownTypes
  <2>7. Unsent' = Tail(sendQue)
    BY <2>1 DEF Unsent
  <2> QED
    BY <2>1, <2>3, <2>4, <2>5, <2>6, <2>7 DEF DownInv
<1>5. CASE WriteFails \/ WriteError
  <2>1. /\ writing # "taken" /\ writing' # "taken" /\ sendQue' = sendQue
        /\ down' = down /\ writing' \in {"no", "failed"} /\ writing # "no"
    BY <1>5 DEF WriteFails, WriteError, wireVars
  <2>2. Unsent' = Unsent /\ DownTypes'
    BY <1>1, <1>3, <2>1 DEF Unsent, DownTypes
  <2> QED
    BY <1>2, <1>3, <2>1, <2>2 DEF DownInv
<1>6. CASE WriteDone
  <2>1. /\ writing = "taken" /\ sendQue' = Tail(sendQue) /\ down' = down
        /\ writing' = IF Len(sendQue) > 1 THEN "begun" ELSE "no"
        /\ sendQue # <<>>
    BY <1>1, <1>6 DEF WriteDone, wireVars, DownTypes
  <2>2. Tail(sendQue) \in Seq(Frame) /\ Len(Tail(sendQue)) = Len(sendQue) - 1
    BY <1>1, <2>1, HeadTailProperties DEF DownTypes
  <2>3. Unsent' = Unsent
    BY <2>1 DEF Unsent
  <2>4. DownTypes'
    <3>1. Len(sendQue) \in Nat /\ Len(<<>>) = 0
      BY <1>1, LenProperties DEF DownTypes
    <3>2. Len(sendQue) > 1 => Tail(sendQue) # <<>>
      BY <2>2, <3>1
    <3> QED
      BY <1>1, <1>3, <2>1, <2>2, <3>2 DEF DownTypes
  <2> QED
    BY <1>2, <1>3, <2>1, <2>3, <2>4 DEF DownInv
<1> QED
  BY <1>4, <1>5, <1>6

LEMMA DataDown ==
  ASSUME DownInv, UNCHANGED sessionVars, NEW n \in 1 .. Len(down), Data(n)
  PROVE  DownInv'
<1> DEFINE x == SubSeq(down, 1, n)
<1>1. /\ DownTypes /\ buffer' = buffer \o x
      /\ down' = SubSeq(down, n + 1, Len(down))
      /\ UNCHANGED <<packets, accepted, sendQue, writing, cur, offline>>
  BY DEF DownInv, Data, sessionVars, sendVars, logicVars
<1>2. /\ x \in Seq(Unit) /\ down' \in Seq(Unit) /\ x \o down' = down
      /\ buffer \in Seq(Unit)
  <2>1. n \in 0 .. Len(down) /\ down \in Seq(Unit)
    BY <1>1, LenProperties DEF DownTypes
  <2> QED
    BY <1>1, <2>1, CutSeq DEF DownTypes
<1> HIDE DEF x
<1>3. \A a, b, c \in Seq(Unit) :
        (a \o b) \o c = a \o (b \o c) /\ a \o b \in Seq(Unit)
  BY Regroup
<1>4. /\ (buffer \o x) \o down' = buffer \o (x \o down')
      /\ buffer \o x \in Seq(Unit)
  BY <1>2, <1>3
<1>5. buffer' \o down' = buffer \o down
  BY <1>1, <1>2, <1>4, Zenon
<1>6. DownTypes' /\ Unsent' = Unsent
  BY <1>1, <1>2, <1>4 DEF DownTypes, Unsent
<1> QED
  BY <1>1, <1>5, <1>6 DEF DownInv

(* The bridge emits the frame in front of its buffer.                      *)
LEMMA PacketDown ==
  ASSUME DownInv, UNCHANGED sessionVars, Packet
  PROVE  DownInv'
<1>1. DownTypes /\ Unsent \in Seq(Frame)
  BY UnsentType DEF DownInv
<1>2. PICK fs \in Seq(Frame) :
        accepted = packets \o (fs \o Unsent) /\ Framed(buffer \o down, fs)
  BY DEF DownInv
<1>3. UNCHANGED <<down, accepted, sendQue, writing, cur, offline>>
  BY DEF Packet, wireVars, sessionVars, sendVars, logicVars
<1> DEFINE n == HeadLen + LengthIn(buffer)
           x == SubSeq(buffer, 1, n)
           y == SubSeq(buffer, n + 1, Len(buffer))
<1>4. /\ Len(buffer) >= HeadLen /\ Len(buffer) >= n
      /\ packets' = Append(packets, Decode(x)) /\ buffer' = y
  <2>1. Complete
    BY DEF Packet, Parsing
  <2> QED
    BY <2>1 DEF Packet, Rest, Complete
<1>5. n \in 0 .. Len(buffer) /\ n >= 1 /\ buffer \in Seq(Unit)
  <2>1. buffer \in Seq(Unit) /\ Len(buffer) \in Nat /\ Len(buffer) > 0
    BY <1>1, <1>4, LenProperties, WireAssumption DEF DownTypes
  <2>2. Head(buffer) \in Unit
    BY <2>1, HeadTailProperties, EmptySeq
  <2>3. Head(buffer)[1] \in Frame
    BY <2>2 DEF Unit
  <2>4. Size(Head(buffer)[1]) \in Nat /\ Size(Head(buffer)[1]) > HeadLen
    BY <2>3, UnitsType
  <2>5. n = Size(Head(buffer)[1])
    BY DEF LengthIn, Size
  <2> HIDE DEF n
  <2> QED
    BY <1>4, <2>1, <2>4, <2>5, WireAssumption
<1> HIDE DEF n
<1>6. /\ x \in Seq(Unit) /\ Len(x) = n /\ y \in Seq(Unit) /\ x \o y = buffer
      /\ x[1] = buffer[1]
  BY <1>5, CutSeq
<1>7. x # <<>> /\ LengthIn(x) = LengthIn(buffer)
  <2> HIDE DEF x
  <2>1. Len(x) \in Nat /\ Len(x) >= 1 /\ Len(buffer) \in Nat /\ Len(buffer) >= 1
    BY <1>5, <1>6, LenProperties
  <2>2. Head(x) = x[1] /\ Head(buffer) = buffer[1]
    OBVIOUS
  <2>3. x # <<>>
    BY <2>1, EmptySeq
  <2> QED
    BY <1>6, <2>2, <2>3 DEF LengthIn
<1> HIDE DEF x, y
<1>8. y \o down \in Seq(Unit) /\ x \o (y \o down) = buffer \o down
  <2>1. \A a, b, c \in Seq(Unit) :
          (a \o b) \o c = a \o (b \o c) /\ a \o b \in Seq(Unit)
    BY Regroup
  <2>2. (x \o y) \o down = x \o (y \o down) /\ y \o down \in Seq(Unit)
    <3>1. x \in Seq(Unit) /\ y \in Seq(Unit) /\ down \in Seq(Unit)
      BY <1>1, <1>6 DEF DownTypes
    <3> QED
      BY <2>1, <3>1
  <2> QED
    BY <1>6, <2>2, Zenon
<1>9. fs # <<>> /\ Decode(x) = Head(fs) /\ Framed(y \o down, Tail(fs))
  <2>1. Len(x) = HeadLen + LengthIn(x)
    BY <1>6, <1>7 DEF n
  <2>2. Framed(x \o (y \o down), fs)
    BY <1>2, <1>8
  <2> QED
    BY <1>6, <1>7, <1>8, <2>1, <2>2, ReadFrame
<1>10. Tail(fs) \in Seq(Frame) /\ Head(fs) \in Frame
  BY <1>9, HeadTailProperties
<1>11. accepted = Append(packets, Head(fs)) \o (Tail(fs) \o Unsent)
  <2>1. packets \in Seq(Frame)
    BY <1>1 DEF DownTypes
  <2> QED
    BY <1>1, <1>2, <1>9, <2>1, MoveFirst, SMTT(30)
<1>12. DownTypes' /\ Unsent' = Unsent
  BY <1>1, <1>3, <1>4, <1>6, <1>9, <1>10, AppendProperties DEF DownTypes, Unsent
<1> QED
  BY <1>3, <1>4, <1>9, <1>10, <1>11, <1>12 DEF DownInv

LEMMA SessionDown ==
  DownInv /\ UpInv /\ SessionStep /\ UNCHANGED bridgeVars => DownInv'
<1> SUFFICES ASSUME DownInv, UpInv, SessionStep, UNCHANGED bridgeVars
             PROVE  DownInv'
  OBVIOUS
<1>1. UNCHANGED <<buffer, packets>>
  BY DEF bridgeVars
<1>2. cur \in Seq(Message) /\ offline \in Seq(Message)
  BY DEF DownInv, DownTypes
<1>3. CASE Start \/ Insert
  BY <1>1, <1>3, DownKept DEF Start, Insert, wireVars, sendVars, logicVars,
                              downVars
<1>4. CASE ReadStep \/ ReadFails
  BY <1>1, <1>4, DownKept
     DEF ReadStep, ReadPart, ReadHead, ReadBody, ReadSome, ReadFails, sendVars,
         logicVars, downVars
<1>5. CASE WriteTaken \/ WriteFails \/ WriteDone \/ WriteError
  BY <1>1, <1>5, WriteDown
<1>6. CASE ClearLookup \/ ClearUser \/ ClearErase
  BY <1>1, <1>6, DownKept DEF ClearLookup, ClearUser, ClearErase, wireVars,
                              sendVars, logicVars, downVars
<1>7. CASE HandleRequest
  <2>1. PICK i \in NextPosted : Send(Rsp(posted[i].of, <<>>))
    BY <1>7 DEF HandleRequest
  <2>2. UNCHANGED <<down, cur, offline>>
    BY <1>7 DEF HandleRequest, wireVars
  <2>3. Rsp(posted[i].of, <<>>) \in Frame
    <3>1. posted \in Seq(Frame) /\ i \in 1 .. Len(posted)
      BY DEF UpInv, UpTypes, NextPosted
    <3>2. posted[i] \in Frame
      BY <3>1, ElementOfSeq
    <3> QED
      BY <3>2, EmptySeq DEF Rsp, Frame
  <2> QED
    BY <1>1, <1>2, <2>1, <2>2, <2>3, SendDown
<1>8. CASE LoginDrain
  <2> DEFINE n == IF Len(offline) < DrainLimit THEN Len(offline) ELSE DrainLimit
  <2>1. /\ cur' = SubSeq(offline, 1, n)
        /\ offline' = SubSeq(offline, n + 1, Len(offline))
        /\ UNCHANGED downVars
    BY <1>1, <1>8 DEF LoginDrain, wireVars, sendVars, downVars
  <2>2. n \in 0 .. Len(offline)
    BY <1>2, SessionAssumption, LenProperties
  <2> HIDE DEF n
  <2>3. cur' \in Seq(Message) /\ offline' \in Seq(Message)
    BY <1>2, <2>1, <2>2, CutSeq
  <2> QED
    BY <2>1, <2>3 DEF DownInv, DownTypes, Unsent, downVars
<1>9. CASE LoginBind \/ LoginRegister
  BY <1>1, <1>9, DownKept DEF LoginBind, LoginRegister, wireVars, sendVars,
                              downVars
<1>10. CASE LoginRespond
  <2>1. Rsp(Login, cur) \in Frame
    BY <1>2, WireAssumption DEF Rsp, Frame
  <2>2. Send(Rsp(Login, cur)) /\ cur' = <<>> /\ UNCHANGED <<down, offline>>
    BY <1>10 DEF LoginRespond, wireVars
  <2>3. cur' \in Seq(Message) /\ offline' \in Seq(Message)
    BY <1>2, <2>2, EmptySeq
  <2> QED
    BY <1>1, <2>1, <2>2, <2>3, SendDown
<1>11. CASE \E n \in Note : Notify(n)
  <2>1. PICK n \in Note : Notify(n)
    BY <1>11
  <2>2. Notice(n) \in Frame
    BY EmptySeq DEF Notice, Frame
  <2>3. Send(Notice(n)) /\ UNCHANGED <<down, cur, offline>>
    BY <2>1 DEF Notify, wireVars
  <2> QED
    BY <1>1, <1>2, <2>2, <2>3, SendDown
<1> QED
  BY <1>3, <1>4, <1>5, <1>6, <1>7, <1>8, <1>9, <1>10, <1>11
     DEF SessionStep, IOStep, WorkerStep

LEMMA BridgeDown == DownInv /\ BridgeStep /\ UNCHANGED sessionVars => DownInv'
<1> SUFFICES ASSUME DownInv, BridgeStep, UNCHANGED sessionVars PROVE DownInv'
  OBVIOUS
<1>1. UNCHANGED <<accepted, sendQue, writing, cur, offline>>
  BY DEF sessionVars, sendVars, logicVars
<1>2. CASE Connect \/ Connected \/ ConnectFails
  BY <1>1, <1>2, DownKept DEF Connect, Connected, ConnectFails, wireVars,
                              downVars
<1>3. CASE \E q \in Request : SendRequest(q) \/ Timeout(q)
  BY <1>1, <1>3, DownKept DEF SendRequest, Timeout, wireVars, downVars
<1>4. CASE \E n \in 1 .. Len(down) : Data(n)
  BY <1>4, DataDown
<1>5. CASE Packet
  BY <1>5, PacketDown
<1>6. CASE Refuse \/ Disconnect \/ CloseEvent \/ SocketEnds
  BY <1>1, <1>6, DownKept DEF Refuse, Disconnect, CloseEvent, SocketEnds,
                              wireVars, downVars
<1> QED
  BY <1>2, <1>3, <1>4, <1>5, <1>6 DEF BridgeStep

LEMMA NextDown == DownInv /\ UpInv /\ [Next]_vars => DownInv'
<1> SUFFICES ASSUME DownInv, UpInv, [Next]_vars PROVE DownInv'
  OBVIOUS
<1>1. CASE SessionStep /\ UNCHANGED bridgeVars
  BY <1>1, SessionDown
<1>2. CASE BridgeStep /\ UNCHANGED sessionVars
  BY <1>2, BridgeDown
<1>3. CASE NetBreaks \/ UNCHANGED vars
  BY <1>3, DownKept DEF NetBreaks, vars, wireVars, sessionVars, sendVars,
                        logicVars, bridgeVars, downVars
<1> QED
  BY <1>1, <1>2, <1>3 DEF Next

LEMMA DownPrefix == DownInv => PacketsInOrder
<1> SUFFICES ASSUME DownInv PROVE PacketsInOrder
  OBVIOUS
<1>1. PICK fs \in Seq(Frame) : accepted = packets \o (fs \o Unsent)
  BY DEF DownInv
<1>2. packets \in Seq(Frame) /\ fs \o Unsent \in Seq(Frame)
  BY UnsentType, ConcatProperties DEF DownInv, DownTypes
<1> QED
  BY <1>1, <1>2, StartIsPrefix DEF PacketsInOrder

(* The bridge emits the frames that Send has queued, whole and in order    *)
(* (Send, HandleWrite, handleData).                                        *)
THEOREM RepliesInOrder == Spec => []PacketsInOrder
BY InitUp, InitDown, NextUp, NextDown, DownPrefix, PTL DEF Spec

-----------------------------------------------------------------------------
(* The worker gets requests only, and they have the shortest body.         *)
LEMMA TakesRequests ==
  ASSUME UpInv, NEW i \in 1 .. Len(handled) + Len(posted)
  PROVE  /\ i \in 1 .. Len(written) /\ written[i] \in Request
         /\ (handled \o posted)[i] = Req(written[i])
<1>1. PICK fs \in Seq(Frame) : Reqs = (handled \o posted) \o fs
  BY DEF UpInv
<1>2. /\ handled \in Seq(Frame) /\ posted \in Seq(Frame)
      /\ written \in Seq(Request)
  BY DEF UpInv, UpTypes
<1>3. /\ handled \o posted \in Seq(Frame)
      /\ Len(handled \o posted) = Len(handled) + Len(posted)
      /\ Len(handled) \in Nat /\ Len(posted) \in Nat
  BY <1>2, ConcatProperties, LenProperties
<1> DEFINE hp == handled \o posted
<1> HIDE DEF hp
<1>4. hp \in Seq(Frame) /\ Len(hp) \in Nat /\ i \in 1 .. Len(hp)
  BY <1>3 DEF hp
<1>5. /\ Len(hp \o fs) = Len(hp) + Len(fs) /\ (hp \o fs)[i] = hp[i]
      /\ hp \o fs \in Seq(Frame)
  BY <1>4, ConcatProperties, LenProperties
<1>6. Reqs = hp \o fs
  BY <1>1 DEF hp
<1>7. /\ DOMAIN written = 1 .. Len(written) /\ DOMAIN Reqs = DOMAIN written
      /\ Len(written) \in Nat
  BY <1>2, LenProperties DEF Reqs
<1>8. DOMAIN (hp \o fs) = 1 .. Len(hp) + Len(fs) /\ Len(fs) \in Nat
  BY <1>5, LenProperties
<1>9. i \in 1 .. Len(written)
  <2>1. i \in DOMAIN (hp \o fs)
    BY <1>4, <1>8
  <2> QED
    BY <1>6, <1>7, <2>1
<1>10. Reqs[i] = Req(written[i])
  BY <1>7, <1>9 DEF Reqs
<1> QED
  BY <1>2, <1>5, <1>6, <1>9, <1>10, ElementOfSeq DEF hp

(* The frame at the head of his queue is the next that was written.        *)
LEMMA PostedRequest ==
  ASSUME UpInv, NEW i \in NextPosted
  PROVE  /\ i = 1 /\ Len(handled) + 1 \in 1 .. Len(written)
         /\ posted[i] = Req(written[Len(handled) + 1])
<1>1. /\ posted \in Seq(Frame) /\ handled \in Seq(Frame) /\ i = 1
      /\ Len(posted) >= 1 /\ Len(posted) \in Nat /\ Len(handled) \in Nat
  BY LenProperties DEF UpInv, UpTypes, NextPosted
<1>2. Len(handled) + 1 \in 1 .. Len(handled) + Len(posted)
  BY <1>1
<1>3. (handled \o posted)[Len(handled) + 1] = posted[1]
  BY <1>1, <1>2, ConcatProperties
<1> QED
  BY <1>1, <1>2, <1>3, TakesRequests

IsAnswer(f) ==
  \/ f.type = "rsp" /\ f.of \in Request
  \/ f.type = "note" /\ f.of \in Note

SessionTypes ==
  /\ accept \in {"none", "started", "done"} /\ listed \in BOOLEAN
  /\ Len(data) < HeadLen + MaxPacket
  /\ Len(sendQue) <= MaxSendQue + 1
  /\ clear \in {"no", "lookup", "user", "erase"}
  /\ worker \in {"idle", "bind", "register", "respond"}
  /\ \A i \in 1 .. Len(accepted) : IsAnswer(accepted[i])

BridgeTypes ==
  /\ gone \subseteq {"bridge", "server", "net"}
  /\ status \in {"connecting", "connected", "closed"}
  /\ sock \in {"none", "dialing", "open", "destroyed", "ended"}
  /\ waiter \in [Request -> {"idle", "waiting", "answered", "failed"}]

sessionTypeVars ==
  <<accept, listed, data, sendQue, clear, worker, accepted>>

LEMMA TypesKept == SessionTypes /\ UNCHANGED sessionTypeVars => SessionTypes'
BY DEF SessionTypes, sessionTypeVars

LEMMA SendTypes ==
  ASSUME SessionTypes, DownInv, NEW f, IsAnswer(f), Send(f),
         UNCHANGED <<accept, listed, data, clear>>,
         worker' \in {"idle", "bind", "register", "respond"}
  PROVE  SessionTypes'
<1>1. /\ sendQue \in Seq(Frame) /\ accepted \in Seq(Frame)
      /\ Len(sendQue) \in Nat /\ Len(accepted) \in Nat
  BY LenProperties DEF DownInv, DownTypes
<1>2. CASE Full
  BY <1>2 DEF Send, SessionTypes
<1>3. CASE ~Full
  <2>1. sendQue' = Append(sendQue, f) /\ accepted' = Append(accepted, f)
    BY <1>3 DEF Send
  <2>2. /\ Len(sendQue') = Len(sendQue) + 1
        /\ Len(accepted') = Len(accepted) + 1
        /\ \A i \in 1 .. Len(accepted) : accepted'[i] = accepted[i]
        /\ accepted'[Len(accepted) + 1] = f
    BY <1>1, <2>1
  <2>3. Len(sendQue') <= MaxSendQue + 1
    BY <1>1, <1>3, <2>2, SessionAssumption DEF Full
  <2>4. \A i \in 1 .. Len(accepted') : IsAnswer(accepted'[i])
    <3>1. \A i \in 1 .. Len(accepted') : i = Len(accepted) + 1 \/ i \in 1 .. Len(accepted)
      BY <1>1, <2>2
    <3> QED
      BY <2>2, <3>1 DEF SessionTypes
  <2> QED
    BY <2>3, <2>4 DEF SessionTypes, IsAnswer
<1> QED
  BY <1>2, <1>3

LEMMA ReadTypes ==
  ASSUME SessionTypes, UpInv, ReadStep, UNCHANGED written
  PROVE  SessionTypes'
<1>1. PICK n \in 1 .. HeadLen + MaxPacket : ReadPart(n) \/ ReadHead(n) \/ ReadBody(n)
  BY DEF ReadStep
<1>2. ReadSome(n)
  BY <1>1 DEF ReadPart, ReadHead, ReadBody
<1>3. /\ reading # "no" /\ UpTypes /\ ReadOn(n) \in Seq(Unit)
      /\ Len(ReadOn(n)) = Len(data) + n /\ ReadOn(n) \o up' = data \o up
      /\ up' \in Seq(Unit)
  BY <1>2, ReadCuts
<1>4. UNCHANGED <<accept, listed, sendQue, clear, worker, accepted>>
  BY <1>2 DEF ReadSome, sendVars, logicVars
<1>5. ASSUME ReadPart(n)
      PROVE  Len(data') < HeadLen + MaxPacket
  <2>1. data' = ReadOn(n) /\ Len(data) + n < Wanted
    BY <1>5 DEF ReadPart
  <2>2. CASE reading = "head"
    BY <1>3, <2>1, <2>2, WireAssumption, LenProperties DEF Wanted
  <2>3. CASE reading = "body"
    <3>1. PICK fs \in Seq(Frame) :
            Reqs = (handled \o posted) \o fs /\ Framed(Partial \o up, fs)
      BY <1>3 DEF UpInv
    <3>2. /\ head \in Seq(Unit) /\ Len(head) = HeadLen /\ data \in Seq(Unit)
          /\ up \in Seq(Unit) /\ Partial = head \o data
      BY <1>3, <2>3 DEF UpTypes, Partial
    <3>3. /\ Partial \o up \in Seq(Unit) /\ Partial \o up # <<>>
          /\ Head(Partial \o up) = Head(head)
      <4> DEFINE t == data \o up
      <4>1. Partial \o up = head \o t /\ t \in Seq(Unit)
        BY <3>2, Regroup, SMTT(30)
      <4> HIDE DEF t
      <4>2. /\ head \o t \in Seq(Unit) /\ Len(head \o t) = Len(head) + Len(t)
            /\ (head \o t)[1] = head[1] /\ Len(t) \in Nat
        <5>1. /\ head \o t \in Seq(Unit) /\ Len(head \o t) = Len(head) + Len(t)
              /\ \A i \in 1 .. Len(head) + Len(t) :
                   (head \o t)[i] = IF i <= Len(head) THEN head[i]
                                                     ELSE t[i - Len(head)]
          BY <3>2, <4>1, ConcatProperties
        <5>2. Len(t) \in Nat
          BY <4>1, LenProperties
        <5>3. 1 \in 1 .. Len(head) + Len(t) /\ 1 <= Len(head)
          BY <3>2, <5>2, WireAssumption
        <5> QED
          BY <5>1, <5>2, <5>3
      <4>3. Len(head \o t) >= 1
        BY <3>2, <4>2, WireAssumption
      <4> QED
        BY <3>2, <4>1, <4>2, <4>3, EmptySeq, WireAssumption
    <3>4. fs # <<>> /\ Head(head)[1] = Head(fs)
      BY <3>1, <3>3, FramedFirst
    <3>5. /\ handled \o posted \in Seq(Frame) /\ fs[1] = Head(fs)
          /\ Len(fs) \in Nat /\ Len(fs) >= 1
      BY <1>3, <3>4, ConcatProperties, EmptySeq, LenProperties DEF UpTypes
    <3>6. \E i \in DOMAIN written : Head(fs) = Req(written[i])
      <4> DEFINE hp == handled \o posted
      <4> HIDE DEF hp
      <4>1. hp \in Seq(Frame) /\ Len(hp) \in Nat
        BY <3>5, LenProperties DEF hp
      <4>2. /\ (hp \o fs)[Len(hp) + 1] = fs[1]
            /\ Len(hp) + 1 \in DOMAIN (hp \o fs)
        <5>1. Len(hp) + 1 \in 1 .. Len(hp) + Len(fs)
          BY <3>5, <4>1
        <5> QED
          BY <3>5, <4>1, <5>1, ConcatProperties, LenProperties
      <4>3. Reqs = hp \o fs /\ DOMAIN Reqs = DOMAIN written
        BY <3>1 DEF hp, Reqs
      <4>4. Reqs[Len(hp) + 1] = Req(written[Len(hp) + 1])
        BY <4>2, <4>3 DEF Reqs
      <4> QED
        BY <3>5, <4>2, <4>3, <4>4
    <3>7. LengthIn(head) = 1
      BY <3>4, <3>6 DEF LengthIn, BodyLen, Req
    <3> QED
      BY <1>3, <2>1, <2>3, <3>7, WireAssumption, LenProperties DEF Wanted
  <2> QED
    BY <1>3, <2>2, <2>3 DEF UpTypes
<1>6. ASSUME ReadHead(n) \/ ReadBody(n)
      PROVE  Len(data') < HeadLen + MaxPacket
  BY <1>6, WireAssumption DEF ReadHead, ReadBody
<1> QED
  BY <1>1, <1>4, <1>5, <1>6 DEF SessionTypes

LEMMA NextSessionTypes ==
  ASSUME SessionTypes, UpInv, DownInv, SessionStep, UNCHANGED written
  PROVE  SessionTypes'
<1>1. CASE Start
  BY <1>1 DEF Start, SessionTypes, wireVars, sendVars, logicVars
<1>2. CASE Insert
  BY <1>2 DEF Insert, SessionTypes, wireVars, sendVars, logicVars
<1>3. CASE ReadStep
  BY <1>3, ReadTypes
<1>4. CASE ReadFails
  BY <1>4 DEF ReadFails, SessionTypes, sendVars, logicVars
<1>5. CASE WriteTaken \/ WriteFails
  BY <1>5, TypesKept DEF WriteTaken, WriteFails, sessionTypeVars, wireVars,
                         ioVars, logicVars
<1>6. CASE WriteDone
  <2>1. sendQue \in Seq(Frame) /\ sendQue # <<>>
    BY <1>6 DEF WriteDone, DownInv, DownTypes
  <2>2. Len(sendQue') = Len(sendQue) - 1 /\ Len(sendQue) \in Nat
    BY <1>6, <2>1, HeadTailProperties, LenProperties DEF WriteDone
  <2> QED
    BY <1>6, <2>2, SessionAssumption DEF WriteDone, SessionTypes, ioVars, logicVars
<1>7. CASE WriteError
  BY <1>7 DEF WriteError, SessionTypes, logicVars
<1>8. CASE ClearLookup \/ ClearUser \/ ClearErase
  BY <1>8 DEF ClearLookup, ClearUser, ClearErase, SessionTypes, sendVars,
              logicVars
<1>9. CASE HandleRequest
  <2>1. PICK i \in NextPosted : Send(Rsp(posted[i].of, <<>>))
    BY <1>9 DEF HandleRequest
  <2>2. posted[i].of \in Request
    <3> DEFINE k == Len(handled) + 1
    <3>1. k \in 1 .. Len(written) /\ posted[i] = Req(written[k])
      BY PostedRequest
    <3> HIDE DEF k
    <3>2. written[k] \in Request
      BY <3>1, ElementOfSeq DEF UpInv, UpTypes
    <3> QED
      BY <3>1, <3>2 DEF Req
  <2>3. IsAnswer(Rsp(posted[i].of, <<>>))
    BY <2>2 DEF IsAnswer, Rsp
  <2>4. UNCHANGED <<accept, listed, data, clear, worker>>
    BY <1>9 DEF HandleRequest, ioVars
  <2> QED
    BY <2>1, <2>3, <2>4, SendTypes DEF SessionTypes
<1>10. CASE LoginDrain \/ LoginBind \/ LoginRegister
  BY <1>10 DEF LoginDrain, LoginBind, LoginRegister, SessionTypes, ioVars,
               sendVars
<1>11. CASE LoginRespond
  <2>1. IsAnswer(Rsp(Login, cur))
    BY WireAssumption DEF IsAnswer, Rsp
  <2> QED
    BY <1>11, <2>1, SendTypes DEF LoginRespond, ioVars
<1>12. CASE \E n \in Note : Notify(n)
  <2>1. PICK n \in Note : Notify(n)
    BY <1>12
  <2>2. IsAnswer(Notice(n))
    BY DEF IsAnswer, Notice
  <2>3. Send(Notice(n)) /\ UNCHANGED <<accept, listed, data, clear, worker>>
    BY <2>1 DEF Notify, ioVars
  <2> QED
    BY <2>2, <2>3, SendTypes DEF SessionTypes
<1> QED
  BY <1>1, <1>2, <1>3, <1>4, <1>5, <1>6, <1>7, <1>8, <1>9, <1>10, <1>11, <1>12
     DEF SessionStep, IOStep, WorkerStep

LEMMA NextBridgeTypes == BridgeTypes /\ [Next]_vars => BridgeTypes'
<1> SUFFICES ASSUME BridgeTypes, [Next]_vars PROVE BridgeTypes'
  OBVIOUS
<1>1. CASE SessionStep /\ UNCHANGED bridgeVars
  <2>1. gone' \subseteq gone \cup {"server"}
    <3>1. CASE Start \/ Insert
      BY <3>1 DEF Start, Insert, wireVars
    <3>2. CASE ReadStep
      BY <3>2 DEF ReadStep, ReadPart, ReadHead, ReadBody, ReadSome
    <3>3. CASE ReadFails \/ WriteError
      BY <3>3 DEF ReadFails, WriteError
    <3>4. CASE WriteTaken \/ WriteFails \/ WriteDone
      BY <3>4 DEF WriteTaken, WriteFails, WriteDone, wireVars
    <3>5. CASE ClearLookup \/ ClearUser \/ ClearErase
      BY <3>5 DEF ClearLookup, ClearUser, ClearErase, wireVars
    <3>6. CASE WorkerStep \/ \E n \in Note : Notify(n)
      BY <3>6 DEF WorkerStep, HandleRequest, LoginDrain, LoginBind,
                  LoginRegister, LoginRespond, Notify, wireVars
    <3> QED
      BY <1>1, <3>1, <3>2, <3>3, <3>4, <3>5, <3>6 DEF SessionStep, IOStep
  <2> QED
    BY <1>1, <2>1 DEF BridgeTypes, bridgeVars, sockVars, waitVars
<1>2. CASE BridgeStep /\ UNCHANGED sessionVars
  <2> USE DEF BridgeTypes, wireVars, sockVars, waitVars
  <2>1. CASE Connect \/ Connected \/ ConnectFails
    BY <2>1, WireAssumption DEF Connect, Connected, ConnectFails, Write
  <2>2. CASE \E q \in Request : SendRequest(q) \/ Timeout(q)
    BY <2>2 DEF SendRequest, Timeout, Write
  <2>3. CASE \E n \in 1 .. Len(down) : Data(n)
    BY <2>3 DEF Data
  <2>4. CASE Packet
    BY <2>4 DEF Packet
  <2>5. CASE Refuse \/ Disconnect
    BY <2>5 DEF Refuse, Disconnect, WaitersFail
  <2>6. CASE CloseEvent \/ SocketEnds
    BY <2>6 DEF CloseEvent, SocketEnds, WaitersFail
  <2> QED
    BY <1>2, <2>1, <2>2, <2>3, <2>4, <2>5, <2>6 DEF BridgeStep
<1>3. CASE NetBreaks \/ UNCHANGED vars
  BY <1>3 DEF NetBreaks, vars, wireVars, bridgeVars, sockVars, waitVars,
              BridgeTypes
<1> QED
  BY <1>1, <1>2, <1>3 DEF Next

TInv == UpInv /\ DownInv /\ SessionTypes /\ BridgeTypes

LEMMA InitTInv == Init => TInv
<1>1. ASSUME Init PROVE SessionTypes
  <2>1. PICK load \in Loads : SessionInit(load)
    BY <1>1 DEF Init
  <2>2. Len(<<>>) = 0
    OBVIOUS
  <2>3. /\ data = <<>> /\ sendQue = <<>> /\ accepted = <<>>
        /\ accept = "none" /\ listed = FALSE /\ clear = "no" /\ worker = "idle"
    BY <2>1 DEF SessionInit
  <2>4. 0 < HeadLen + MaxPacket /\ 0 <= MaxSendQue + 1 /\ 1 .. 0 = {}
    BY WireAssumption, SessionAssumption
  <2>5. \A i \in 1 .. Len(accepted) : IsAnswer(accepted[i])
    BY <2>2, <2>3, <2>4
  <2> QED
    BY <2>2, <2>3, <2>4, <2>5 DEF SessionTypes
<1>2. Init => BridgeTypes
  BY DEF Init, BridgeInit, BridgeTypes
<1> QED
  BY <1>1, <1>2, InitUp, InitDown DEF TInv

LEMMA NextTInv == TInv /\ [Next]_vars => TInv'
<1> SUFFICES ASSUME TInv, [Next]_vars PROVE TInv'
  OBVIOUS
<1>1. SessionTypes'
  <2>1. CASE SessionStep /\ UNCHANGED bridgeVars
    BY <2>1, NextSessionTypes DEF TInv, bridgeVars, waitVars
  <2>2. CASE UNCHANGED sessionVars
    BY <2>2, TypesKept DEF TInv, sessionVars, ioVars, sendVars, logicVars,
                           sessionTypeVars
  <2> QED
    BY <2>1, <2>2 DEF Next, NetBreaks, vars
<1> QED
  BY <1>1, NextUp, NextDown, NextBridgeTypes DEF TInv

LEMMA TInvTypeOK == TInv => TypeOK
<1> SUFFICES ASSUME TInv PROVE TypeOK
  OBVIOUS
<1>1. /\ handled \in Seq(Frame) /\ posted \in Seq(Frame)
      /\ accepted \in Seq(Frame) /\ packets \in Seq(Frame)
      /\ reading \in {"no", "head", "body"}
      /\ writing \in {"no", "begun", "taken", "failed"}
  BY DEF TInv, UpInv, UpTypes, DownInv, DownTypes
<1>2. ASSUME NEW f \in ToSet(posted) \cup ToSet(handled)
      PROVE  f.type = "req" /\ f.of \in Request
  <2>1. ToSet(handled \o posted) = ToSet(handled) \cup ToSet(posted)
    BY <1>1, ConcatSet
  <2>2. f \in ToSet(handled \o posted)
    BY <2>1
  <2>3. DOMAIN (handled \o posted) = 1 .. Len(handled) + Len(posted)
    BY <1>1, ConcatProperties, LenProperties
  <2>4. PICK i \in 1 .. Len(handled) + Len(posted) : f = (handled \o posted)[i]
    BY <2>2, <2>3 DEF ToSet
  <2>5. f = Req(written[i]) /\ written[i] \in Request
    BY <2>4, TakesRequests DEF TInv
  <2> QED
    BY <2>5 DEF Req
<1>3. ASSUME NEW f \in ToSet(accepted) \cup ToSet(packets)
      PROVE  IsAnswer(f)
  <2>1. PICK fs \in Seq(Frame) : accepted = packets \o (fs \o Unsent)
    BY DEF TInv, DownInv
  <2> DEFINE rest == fs \o Unsent
  <2>2. rest \in Seq(Frame) /\ accepted = packets \o rest
    BY <2>1, UnsentType, ConcatProperties DEF TInv, DownInv
  <2> HIDE DEF rest
  <2>3. ToSet(packets) \subseteq ToSet(accepted)
    <3>1. ToSet(packets \o rest) = ToSet(packets) \cup ToSet(rest)
      BY <1>1, <2>2, ConcatSet
    <3> HIDE DEF ToSet
    <3> QED
      BY <2>2, <3>1
  <2>4. DOMAIN accepted = 1 .. Len(accepted)
    BY <1>1
  <2>5. PICK i \in 1 .. Len(accepted) : f = accepted[i]
    BY <2>3, <2>4 DEF ToSet
  <2> QED
    BY <2>5 DEF TInv, SessionTypes
<1> QED
  BY <1>1, <1>2, <1>3 DEF TypeOK, TInv, SessionTypes, BridgeTypes, IsAnswer

(* Every variable keeps its type: the worker gets requests only, the       *)
(* browser replies and notifications only, and the send queue is bounded   *)
(* (Decode in AsyncReadBody and handleData, MAX_SENDQUE in Send).          *)
THEOREM TypeCorrect == Spec => []TypeOK
BY InitTInv, NextTInv, TInvTypeOK, PTL DEF Spec

-----------------------------------------------------------------------------
Reply(f, q) == f.type = "rsp" /\ f.of = q
Answered(q) == \E j \in 1 .. Len(accepted) : Reply(accepted[j], q)
Emits(q) == \E p \in 1 .. Len(packets) : Reply(packets[p], q)

(* A request is written at most once, the login first.                     *)
OnceInv ==
  /\ \A i, j \in 1 .. Len(written) : written[i] = written[j] => i = j
  /\ asks \subseteq Request \ {Login}
  /\ \A i \in 1 .. Len(written) : written[i] \notin asks
  /\ sock \in {"none", "dialing"} => written = <<>> /\ waiter[Login] = "idle"
  /\ \A q \in Request :
       waiter[q] = "waiting" \/ answer[q] # None =>
         \E i \in 1 .. Len(written) : written[i] = q

(* Replies are queued at most once, for requests that have been handled,   *)
(* and in the order of the requests, except for those that Send drops.     *)
OrderInv ==
  /\ \A j \in 1 .. Len(accepted) :
       accepted[j].type = "rsp" =>
         \E i \in 1 .. Len(handled) : accepted[j].of = written[i]
  /\ \A j, k \in 1 .. Len(accepted) :
       /\ accepted[j].type = "rsp" /\ accepted[k].type = "rsp"
       /\ accepted[j].of = accepted[k].of
       => j = k
  /\ \A j \in 1 .. Len(accepted), a, b \in 1 .. Len(written) :
       a < b /\ Reply(accepted[j], written[b]) =>
         \/ ReplyDropped(written[a])
         \/ \E k \in 1 .. Len(accepted) : k < j /\ Reply(accepted[k], written[a])

(* What has been handled is replied to, but for the login in progress.     *)
ServedInv ==
  /\ \A i \in 1 .. Len(handled) :
       \/ ReplyDropped(written[i]) \/ Answered(written[i])
       \/ worker # "idle" /\ i = Len(handled)
  /\ worker # "idle" =>
       /\ Len(handled) >= 1 /\ written[Len(handled)] = Login
       /\ ~Answered(Login)

(* A request that has got its reply does not wait; and what is not open    *)
(* when a request is written has been replied to.                          *)
OpenInv ==
  /\ DOMAIN open = Request
  /\ \A q \in Request : Emits(q) => waiter[q] # "waiting"
  /\ \A a, b \in 1 .. Len(written) :
       a < b /\ Kind[written[a]] = Kind[written[b]] =>
         written[a] \in open[written[b]] \/ Emits(written[a])

WInv == OnceInv /\ OrderInv /\ ServedInv /\ OpenInv /\ ReplyInWindow

LEMMA InitWInv == Init => WInv
<1> SUFFICES ASSUME Init PROVE WInv
  OBVIOUS
<1>1. PICK load \in Loads : SessionInit(load) /\ BridgeInit(load)
  BY DEF Init
<1>2. /\ accepted = <<>> /\ handled = <<>> /\ written = <<>> /\ packets = <<>>
      /\ worker = "idle" /\ answer = [q \in Request |-> None]
      /\ waiter = [q \in Request |-> "idle"] /\ asks = load.asks
  BY <1>1 DEF SessionInit, BridgeInit
<1>3. load.asks \subseteq Request \ {Login} /\ Login \in Request
  BY WireAssumption
<1>4. Len(<<>>) = 0 /\ 1 .. 0 = {}
  OBVIOUS
<1>5. OnceInv
  BY <1>2, <1>3, <1>4 DEF OnceInv
<1>6. OrderInv /\ ServedInv
  BY <1>2, <1>4 DEF OrderInv, ServedInv
<1>7. OpenInv /\ ReplyInWindow
  BY <1>1, <1>2, <1>4 DEF OpenInv, Emits, ReplyInWindow, BridgeInit
<1> QED
  BY <1>5, <1>6, <1>7 DEF WInv

(* The types that the following steps need.                                *)
LEMMA Lengths ==
  ASSUME TInv
  PROVE  /\ Len(handled) \in Nat /\ Len(written) \in Nat
         /\ Len(accepted) \in Nat /\ Len(packets) \in Nat
         /\ Len(handled) <= Len(written) /\ Len(packets) <= Len(accepted)
         /\ \A i \in 1 .. Len(packets) : packets[i] = accepted[i]
         /\ \A i \in 1 .. Len(written) : written[i] \in Request
<1>1. /\ handled \in Seq(Frame) /\ posted \in Seq(Frame)
      /\ written \in Seq(Request) /\ accepted \in Seq(Frame)
      /\ packets \in Seq(Frame)
  BY DEF TInv, UpInv, UpTypes, DownInv, DownTypes
<1>2. /\ Len(handled) \in Nat /\ Len(written) \in Nat /\ Len(posted) \in Nat
      /\ Len(accepted) \in Nat /\ Len(packets) \in Nat
  BY <1>1, LenProperties
<1>3. Len(handled) <= Len(written)
  <2>1. CASE Len(handled) = 0
    BY <1>2, <2>1
  <2>2. CASE Len(handled) > 0
    <3>1. Len(handled) \in 1 .. Len(handled) + Len(posted)
      BY <1>2, <2>2
    <3>2. Len(handled) \in 1 .. Len(written)
      BY <3>1, TakesRequests DEF TInv
    <3> QED
      BY <1>2, <3>2
  <2> QED
    BY <1>2, <2>1, <2>2
<1>4. PICK fs \in Seq(Frame) : accepted = packets \o (fs \o Unsent)
  BY DEF TInv, DownInv
<1> DEFINE rest == fs \o Unsent
<1>5. rest \in Seq(Frame) /\ accepted = packets \o rest
  BY <1>4, UnsentType, ConcatProperties DEF TInv, DownInv
<1> HIDE DEF rest
<1>6. /\ Len(packets \o rest) = Len(packets) + Len(rest) /\ Len(rest) \in Nat
      /\ \A i \in 1 .. Len(packets) : (packets \o rest)[i] = packets[i]
  BY <1>1, <1>5, ConcatProperties, LenProperties
<1>7. Len(packets) <= Len(accepted) /\ \A i \in 1 .. Len(packets) : packets[i] = accepted[i]
  BY <1>2, <1>5, <1>6
<1>8. \A i \in 1 .. Len(written) : written[i] \in Request
  BY <1>1, ElementOfSeq
<1> QED
  BY <1>2, <1>3, <1>7, <1>8

(* After a step as before it, what is emitted has been queued.             *)
LEMMA EmittedNext ==
  ASSUME TInv'
  PROVE  /\ Len(packets') <= Len(accepted') /\ Len(accepted') \in Nat
         /\ \A i \in 1 .. Len(packets') : packets'[i] = accepted'[i]
<1>1. PICK gs \in Seq(Frame) : accepted' = packets' \o (gs \o Unsent')
  BY DEF TInv, DownInv
<1>2. packets' \in Seq(Frame) /\ Unsent' \in Seq(Frame)
  BY HeadTailProperties DEF TInv, DownInv, DownTypes, Unsent
<1>3. gs \o Unsent' \in Seq(Frame)
  BY <1>2, ConcatProperties
<1> DEFINE ps == packets'
           rs == gs \o Unsent'
<1> HIDE DEF ps, rs
<1>4. ps \in Seq(Frame) /\ rs \in Seq(Frame)
  BY <1>2, <1>3 DEF ps, rs
<1>5. /\ Len(ps \o rs) = Len(ps) + Len(rs)
      /\ Len(rs) \in Nat /\ Len(ps) \in Nat
      /\ \A i \in 1 .. Len(ps) : (ps \o rs)[i] = ps[i]
  BY <1>4, ConcatProperties, LenProperties
<1>6. /\ Len(ps) <= Len(ps \o rs) /\ Len(ps \o rs) \in Nat
      /\ \A i \in 1 .. Len(ps) : ps[i] = (ps \o rs)[i]
  BY <1>5
<1> QED
  BY <1>1, <1>6 DEF ps, rs

-----------------------------------------------------------------------------
windowVars ==
  <<accepted, dropped, handled, worker, asks, sock, waiter, answer, written,
    open, packets>>

LEMMA WindowKept == WInv /\ UNCHANGED windowVars => WInv'
BY DEF WInv, OnceInv, OrderInv, ServedInv, OpenInv, ReplyInWindow, Answered,
       Emits, ReplyDropped, windowVars

(* Send drops a frame or appends it.                                       *)
LEMMA SendGives ==
  ASSUME TInv, NEW f, Send(f)
  PROVE  /\ dropped \subseteq dropped'
         /\ \/ f \in dropped' /\ accepted' = accepted
            \/ /\ Len(accepted') = Len(accepted) + 1
               /\ accepted'[Len(accepted) + 1] = f
         /\ \A j \in 1 .. Len(accepted) : accepted'[j] = accepted[j]
         /\ Len(accepted') \in Nat /\ Len(accepted) <= Len(accepted')
<1>1. accepted \in Seq(Frame) /\ Len(accepted) \in Nat
  BY LenProperties DEF TInv, DownInv, DownTypes
<1>2. CASE Full
  BY <1>1, <1>2 DEF Send
<1>3. CASE ~Full
  BY <1>1, <1>3 DEF Send
<1> QED
  BY <1>2, <1>3

(* A reply to the k-th request keeps the order if those before it have     *)
(* been replied to and it has not.                                         *)
LEMMA SendKeepsOrder ==
  ASSUME TInv, OnceInv, OrderInv, NEW f, Send(f), UNCHANGED written,
         Len(handled') \in Nat, Len(handled) <= Len(handled'),
         f.type = "rsp" =>
           \E k \in 1 .. Len(written) :
             /\ k <= Len(handled') /\ f.of = written[k] /\ ~Answered(written[k])
             /\ \A a \in 1 .. k - 1 :
                  ReplyDropped(written[a]) \/ Answered(written[a])
  PROVE  OrderInv'
<1> DEFINE n == Len(accepted)
           m == Len(accepted')
<1>1. /\ dropped \subseteq dropped'
      /\ \/ accepted' = accepted
         \/ m = n + 1 /\ accepted'[n + 1] = f
      /\ \A j \in 1 .. n : accepted'[j] = accepted[j]
      /\ m \in Nat /\ n <= m
  BY SendGives
<1>2. /\ n \in Nat /\ Len(handled) \in Nat /\ Len(written) \in Nat
      /\ Len(handled) <= Len(written)
  BY Lengths
<1> HIDE DEF n, m
<1>3. CASE accepted' = accepted
  <2>1. \A a \in 1 .. Len(written) :
          ReplyDropped(written[a]) => ReplyDropped(written[a])'
    BY <1>1 DEF ReplyDropped
  <2>2. 1 .. Len(handled) \subseteq 1 .. Len(handled')
    BY <1>2
  <2>3. \A j \in 1 .. Len(accepted) :
          accepted[j].type = "rsp" =>
            \E i \in 1 .. Len(handled') : accepted[j].of = written[i]
    BY <2>2 DEF OrderInv
  <2>4. \A j \in 1 .. Len(accepted), a, b \in 1 .. Len(written) :
          a < b /\ Reply(accepted[j], written[b]) =>
            \/ ReplyDropped(written[a])'
            \/ \E k \in 1 .. Len(accepted) : k < j /\ Reply(accepted[k], written[a])
    <3> HIDE DEF ReplyDropped, Reply
    <3> QED
      BY <2>1 DEF OrderInv
  <2> QED
    BY <1>3, <2>3, <2>4 DEF OrderInv
<1>4. CASE m = n + 1 /\ accepted'[n + 1] = f
  <2>1. ASSUME NEW j \in 1 .. m PROVE j = n + 1 \/ j \in 1 .. n
    BY <1>1, <1>2, <1>4
  <2>2. ASSUME f.type = "rsp"
        PROVE  \E k \in 1 .. Len(written) :
                 /\ k \in 1 .. Len(handled') /\ f.of = written[k]
                 /\ ~Answered(written[k])
                 /\ \A a \in 1 .. k - 1 :
                      ReplyDropped(written[a]) \/ Answered(written[a])
    BY <1>2, <2>2
  <2>3. ASSUME NEW j \in 1 .. m, accepted'[j].type = "rsp"
        PROVE  \E i \in 1 .. Len(handled') : accepted'[j].of = written[i]
    <3>1. CASE j = n + 1
      BY <1>4, <2>2, <2>3, <3>1
    <3>2. CASE j \in 1 .. n
      <4>1. \E i \in 1 .. Len(handled) : accepted[j].of = written[i]
        BY <1>1, <2>3, <3>2 DEF OrderInv, n
      <4> QED
        BY <1>1, <1>2, <3>2, <4>1
    <3> QED
      BY <2>1, <3>1, <3>2
  <2>4. ASSUME NEW j \in 1 .. n, f.type = "rsp", accepted[j].type = "rsp"
        PROVE  accepted[j].of # f.of
    BY <2>2, <2>4 DEF Answered, Reply, n
  <2>5. ASSUME NEW j \in 1 .. m, NEW k \in 1 .. m,
               accepted'[j].type = "rsp", accepted'[k].type = "rsp",
               accepted'[j].of = accepted'[k].of
        PROVE  j = k
    <3>1. CASE j \in 1 .. n /\ k \in 1 .. n
      BY <1>1, <2>5, <3>1 DEF OrderInv, n
    <3>2. CASE j \in 1 .. n /\ k = n + 1
      BY <1>1, <1>4, <2>4, <2>5, <3>2
    <3>3. CASE j = n + 1 /\ k \in 1 .. n
      BY <1>1, <1>4, <2>4, <2>5, <3>3
    <3> QED
      BY <2>1, <3>1, <3>2, <3>3
  <2>6. ASSUME NEW j \in 1 .. m, NEW a \in 1 .. Len(written),
               NEW b \in 1 .. Len(written),
               a < b, Reply(accepted'[j], written[b])
        PROVE  \/ ReplyDropped(written[a])'
               \/ \E k \in 1 .. m : k < j /\ Reply(accepted'[k], written[a])
    <3>1. ReplyDropped(written[a]) => ReplyDropped(written[a])'
      BY <1>1 DEF ReplyDropped
    <3>2. CASE j \in 1 .. n
      <4>1. Reply(accepted[j], written[b])
        BY <1>1, <2>6, <3>2
      <4>2. \/ ReplyDropped(written[a])
            \/ \E k \in 1 .. n : k < j /\ Reply(accepted[k], written[a])
        BY <2>6, <3>2, <4>1 DEF OrderInv, n
      <4>3. 1 .. n \subseteq 1 .. m
        BY <1>1, <1>2
      <4> QED
        BY <1>1, <3>1, <4>2, <4>3
    <3>3. CASE j = n + 1
      <4>1. f.type = "rsp" /\ f.of = written[b]
        BY <1>4, <2>6, <3>3 DEF Reply
      <4>2. PICK k \in 1 .. Len(written) :
              /\ f.of = written[k]
              /\ \A c \in 1 .. k - 1 :
                   ReplyDropped(written[c]) \/ Answered(written[c])
        BY <2>2, <4>1
      <4>3. k = b
        <5>1. written[k] = written[b]
          BY <4>1, <4>2
        <5> QED
          BY <5>1 DEF OnceInv
      <4>4. a \in 1 .. k - 1
        BY <1>2, <2>6, <4>3
      <4>5. ReplyDropped(written[a]) \/ Answered(written[a])
        BY <4>2, <4>4
      <4>6. ASSUME Answered(written[a])
            PROVE  \E l \in 1 .. m : l < j /\ Reply(accepted'[l], written[a])
        <5>1. PICK l \in 1 .. n : Reply(accepted[l], written[a])
          BY <4>6 DEF Answered, n
        <5>2. l \in 1 .. m /\ l < j
          BY <1>1, <1>2, <3>3
        <5> QED
          BY <1>1, <5>1, <5>2
      <4> QED
        BY <3>1, <4>5, <4>6
    <3> QED
      BY <2>1, <3>2, <3>3
  <2> QED
    BY <2>3, <2>5, <2>6 DEF OrderInv, m
<1> QED
  BY <1>1, <1>3, <1>4

(* What has been replied to stays so.                                      *)
LEMMA AnsweredStays ==
  ASSUME TInv, NEW f, Send(f)
  PROVE  /\ \A q : ReplyDropped(q) \/ Answered(q) =>
                     ReplyDropped(q)' \/ Answered(q)'
         /\ f.type = "rsp" => ReplyDropped(f.of)' \/ Answered(f.of)'
         /\ \A q : Answered(q)' => Answered(q) \/ Reply(f, q)
<1> DEFINE n == Len(accepted)
           m == Len(accepted')
<1>1. /\ dropped \subseteq dropped'
      /\ \/ f \in dropped' /\ accepted' = accepted
         \/ m = n + 1 /\ accepted'[n + 1] = f
      /\ \A j \in 1 .. n : accepted'[j] = accepted[j]
      /\ m \in Nat /\ n <= m /\ n \in Nat
  BY SendGives, Lengths
<1> HIDE DEF n, m
<1>2. ASSUME NEW q, ReplyDropped(q) PROVE ReplyDropped(q)'
  BY <1>1, <1>2 DEF ReplyDropped
<1>3. ASSUME NEW q, Answered(q) PROVE Answered(q)'
  <2>1. PICK j \in 1 .. n : Reply(accepted[j], q)
    BY <1>3 DEF Answered, n
  <2>2. j \in 1 .. m /\ accepted'[j] = accepted[j]
    BY <1>1
  <2> QED
    BY <2>1, <2>2 DEF Answered, m
<1>4. ASSUME f.type = "rsp" PROVE ReplyDropped(f.of)' \/ Answered(f.of)'
  <2>1. CASE f \in dropped'
    BY <1>4, <2>1 DEF ReplyDropped
  <2>2. CASE m = n + 1 /\ accepted'[n + 1] = f
    <3>1. n + 1 \in 1 .. m /\ Reply(accepted'[n + 1], f.of)
      BY <1>1, <1>4, <2>2 DEF Reply
    <3> QED
      BY <3>1 DEF Answered, m
  <2> QED
    BY <1>1, <2>1, <2>2
<1>5. ASSUME NEW q, Answered(q)' PROVE Answered(q) \/ Reply(f, q)
  <2>1. PICK j \in 1 .. m : Reply(accepted'[j], q)
    BY <1>5 DEF Answered, m
  <2>2. CASE j \in 1 .. n
    BY <1>1, <2>1, <2>2 DEF Answered, n
  <2>3. CASE j \notin 1 .. n
    <3>1. CASE m = n + 1 /\ accepted'[n + 1] = f
      <4>1. j = n + 1
        BY <1>1, <2>3, <3>1
      <4> QED
        BY <2>1, <3>1, <4>1
    <3>2. CASE accepted' = accepted
      BY <2>1, <2>3, <3>2 DEF n, m
    <3> QED
      BY <1>1, <3>1, <3>2
  <2> QED
    BY <2>2, <2>3
<1> QED
  BY <1>2, <1>3, <1>4, <1>5

(* The bridge's part of the invariant is not the server's to change.       *)
LEMMA ServerLeaves ==
  ASSUME WInv, UNCHANGED bridgeVars, dropped \subseteq dropped'
  PROVE  OnceInv' /\ OpenInv' /\ ReplyInWindow'
<1>1. UNCHANGED <<asks, sock, waiter, answer, written, open, packets>>
  BY DEF bridgeVars, sockVars, waitVars
<1>2. OnceInv'
  BY <1>1 DEF WInv, OnceInv
<1>3. OpenInv'
  BY <1>1 DEF WInv, OpenInv, Emits
<1>4. \A q : ReplyDropped(q) => ReplyDropped(q)'
  BY DEF ReplyDropped
<1>5. ReplyInWindow'
  <2> HIDE DEF ReplyDropped
  <2> QED
    BY <1>1, <1>4 DEF WInv, ReplyInWindow
<1> QED
  BY <1>2, <1>3, <1>5

(* A worker handles the next request that was written.                     *)
LEMMA TakeNext ==
  ASSUME TInv, NEW i \in NextPosted, Take(i)
  PROVE  /\ Len(handled') = Len(handled) + 1
         /\ Len(handled) + 1 \in 1 .. Len(written)
         /\ posted[i] = Req(written[Len(handled) + 1])
<1>1. handled \in Seq(Frame)
  BY DEF TInv, UpInv, UpTypes
<1>2. Len(handled') = Len(handled) + 1
  BY <1>1 DEF Take
<1> QED
  BY <1>2, PostedRequest DEF TInv

(* A request that has not been handled has not been replied to.            *)
LEMMA NotYet ==
  ASSUME TInv, OnceInv, OrderInv,
         NEW k \in 1 .. Len(written), k > Len(handled)
  PROVE  ~Answered(written[k])
<1> SUFFICES ASSUME NEW j \in 1 .. Len(accepted), Reply(accepted[j], written[k])
             PROVE  FALSE
  BY DEF Answered
<1>1. PICK i \in 1 .. Len(handled) : written[k] = written[i]
  BY DEF Reply, OrderInv
<1>2. i \in 1 .. Len(written) /\ i # k
  BY Lengths
<1> QED
  BY <1>1, <1>2 DEF OnceInv

LEMMA HandleWindow ==
  ASSUME TInv, WInv, HandleRequest, UNCHANGED bridgeVars
  PROVE  WInv'
<1>1. PICK i \in NextPosted : Take(i) /\ Send(Rsp(posted[i].of, <<>>))
  BY DEF HandleRequest
<1> DEFINE k == Len(handled) + 1
           q == written[k]
           f == Rsp(q, <<>>)
<1>2. /\ Len(handled') = k /\ k \in 1 .. Len(written) /\ posted[i] = Req(q)
  BY <1>1, TakeNext
<1>3. /\ Len(handled) \in Nat /\ Len(written) \in Nat
      /\ Len(handled) <= Len(written)
  BY Lengths
<1>4. Send(f) /\ worker = "idle" /\ worker' = "idle" /\ written' = written
  BY <1>1, <1>2 DEF Req, HandleRequest, bridgeVars, waitVars
<1>5. f.type = "rsp" /\ f.of = q
  BY DEF Rsp
<1>6. OnceInv /\ OrderInv /\ ServedInv
  BY DEF WInv
<1>7. ~Answered(q)
  <2>1. k > Len(handled)
    BY <1>3
  <2> QED
    BY <1>2, <1>6, <2>1, NotYet
<1>8. \A a \in 1 .. Len(handled) : ReplyDropped(written[a]) \/ Answered(written[a])
  BY <1>4, <1>6 DEF ServedInv
<1> HIDE DEF f, q
<1>9. OrderInv'
  <2>1. k - 1 = Len(handled) /\ k <= Len(handled') /\ Len(handled') \in Nat
    BY <1>2, <1>3
  <2>2. Len(handled) <= Len(handled')
    BY <1>2, <1>3
  <2>3. \E l \in 1 .. Len(written) :
          /\ l <= Len(handled') /\ f.of = written[l] /\ ~Answered(written[l])
          /\ \A a \in 1 .. l - 1 : ReplyDropped(written[a]) \/ Answered(written[a])
    BY <1>2, <1>5, <1>7, <1>8, <2>1 DEF q
  <2> HIDE DEF k
  <2> QED
    BY <1>4, <1>6, <2>1, <2>2, <2>3, SendKeepsOrder
<1>10. ServedInv'
  <2>1. \A a \in 1 .. Len(handled) :
          ReplyDropped(written[a])' \/ Answered(written[a])'
    BY <1>4, <1>8, AnsweredStays
  <2>2. \A x : x = q => ReplyDropped(x)' \/ Answered(x)'
    BY <1>4, <1>5, AnsweredStays
  <2>3. \A a \in 1 .. Len(handled') : a \in 1 .. Len(handled) \/ a = k
    BY <1>2, <1>3
  <2>4. \A a \in 1 .. Len(handled') :
          ReplyDropped(written[a])' \/ Answered(written[a])'
    <3> SUFFICES ASSUME NEW a \in 1 .. Len(handled')
                 PROVE  ReplyDropped(written[a])' \/ Answered(written[a])'
      OBVIOUS
    <3>1. CASE a \in 1 .. Len(handled)
      BY <2>1, <3>1
    <3>2. CASE a = k
      <4> HIDE DEF ReplyDropped, Answered
      <4> QED
        BY <1>4, <2>2, <3>2 DEF q
    <3> QED
      BY <2>3, <3>1, <3>2
  <2> QED
    BY <1>4, <2>4 DEF ServedInv
<1>11. dropped \subseteq dropped'
  BY <1>4, SendGives
<1> QED
  BY <1>9, <1>10, <1>11, ServerLeaves DEF WInv

LEMMA DrainWindow ==
  ASSUME TInv, WInv, LoginDrain, UNCHANGED bridgeVars
  PROVE  WInv'
<1>1. PICK i \in NextPosted : posted[i] = Req(Login) /\ Take(i)
  BY DEF LoginDrain
<1> DEFINE k == Len(handled) + 1
<1>2. /\ Len(handled') = k /\ k \in 1 .. Len(written)
      /\ Req(Login) = Req(written[k])
  BY <1>1, TakeNext
<1>3. written[k] = Login
  BY <1>2 DEF Req
<1>4. /\ Len(handled) \in Nat /\ Len(written) \in Nat
      /\ Len(handled) <= Len(written)
  BY Lengths
<1>5. /\ accepted' = accepted /\ dropped' = dropped /\ worker = "idle"
      /\ worker' = "bind" /\ written' = written
  BY DEF LoginDrain, sendVars, bridgeVars, waitVars
<1>6. OnceInv /\ OrderInv /\ ServedInv
  BY DEF WInv
<1>7. ~Answered(Login)
  <2>1. k > Len(handled)
    BY <1>4
  <2> QED
    BY <1>2, <1>3, <1>6, <2>1, NotYet
<1>8. OrderInv'
  <2>1. 1 .. Len(handled) \subseteq 1 .. Len(handled')
    BY <1>2, <1>4
  <2>2. \A j \in 1 .. Len(accepted) :
          accepted[j].type = "rsp" =>
            \E l \in 1 .. Len(handled') : accepted[j].of = written[l]
    BY <1>6, <2>1 DEF OrderInv
  <2> QED
    BY <1>5, <1>6, <2>2 DEF OrderInv, ReplyDropped
<1>9. ServedInv'
  <2>1. \A a \in 1 .. Len(handled') : a \in 1 .. Len(handled) \/ a = Len(handled')
    BY <1>2, <1>4
  <2>2. \A a \in 1 .. Len(handled) : ReplyDropped(written[a]) \/ Answered(written[a])
    BY <1>5, <1>6 DEF ServedInv
  <2>3. Len(handled') >= 1 /\ written[Len(handled')] = Login
    BY <1>2, <1>3, <1>4
  <2> QED
    BY <1>5, <1>7, <2>1, <2>2, <2>3 DEF ServedInv, Answered, ReplyDropped
<1> QED
  BY <1>5, <1>8, <1>9, ServerLeaves DEF WInv

LEMMA RespondWindow ==
  ASSUME TInv, WInv, LoginRespond, UNCHANGED bridgeVars
  PROVE  WInv'
<1> DEFINE k == Len(handled)
           f == Rsp(Login, cur)
<1>1. /\ Send(f) /\ worker = "respond" /\ worker' = "idle"
      /\ handled' = handled /\ written' = written
  BY DEF LoginRespond, bridgeVars, waitVars
<1>2. f.type = "rsp" /\ f.of = Login
  BY DEF Rsp
<1>3. OnceInv /\ OrderInv /\ ServedInv
  BY DEF WInv
<1>4. /\ k \in 1 .. Len(written) /\ k \in Nat
      /\ written[k] = Login /\ ~Answered(Login)
  BY <1>1, <1>3, Lengths DEF ServedInv
<1>5. \A a \in 1 .. k - 1 : ReplyDropped(written[a]) \/ Answered(written[a])
  BY <1>3, <1>4 DEF ServedInv
<1> HIDE DEF f
<1>6. OrderInv'
  <2>1. \E l \in 1 .. Len(written) :
          /\ l <= Len(handled') /\ f.of = written[l] /\ ~Answered(written[l])
          /\ \A a \in 1 .. l - 1 : ReplyDropped(written[a]) \/ Answered(written[a])
    BY <1>1, <1>2, <1>4, <1>5
  <2> QED
    BY <1>1, <1>3, <1>4, <2>1, SendKeepsOrder
<1>7. ServedInv'
  <2>1. \A a \in 1 .. k - 1 : ReplyDropped(written[a])' \/ Answered(written[a])'
    BY <1>1, <1>5, AnsweredStays
  <2>2. ReplyDropped(Login)' \/ Answered(Login)'
    BY <1>1, <1>2, AnsweredStays
  <2>3. \A a \in 1 .. k : a \in 1 .. k - 1 \/ a = k
    BY <1>4
  <2>4. \A a \in 1 .. k : ReplyDropped(written[a])' \/ Answered(written[a])'
    BY <1>1, <1>4, <2>1, <2>2, <2>3
  <2> QED
    BY <1>1, <2>4 DEF ServedInv
<1>8. dropped \subseteq dropped'
  BY <1>1, SendGives
<1> QED
  BY <1>6, <1>7, <1>8, ServerLeaves DEF WInv

LEMMA NoticeWindow ==
  ASSUME TInv, WInv, NEW n \in Note, Notify(n), UNCHANGED bridgeVars
  PROVE  WInv'
<1> DEFINE f == Notice(n)
<1>1. /\ Send(f) /\ worker' = worker /\ handled' = handled
      /\ written' = written /\ f.type = "note"
  BY DEF Notify, bridgeVars, waitVars, Notice
<1> HIDE DEF f
<1>2. OnceInv /\ OrderInv /\ ServedInv
  BY DEF WInv
<1>3. OrderInv'
  BY <1>1, <1>2, Lengths, SendKeepsOrder
<1>4. ServedInv'
  <2>1. \A q : ReplyDropped(q) \/ Answered(q) => ReplyDropped(q)' \/ Answered(q)'
    BY <1>1, AnsweredStays
  <2>2. Answered(Login)' => Answered(Login)
    BY <1>1, AnsweredStays DEF Reply
  <2> HIDE DEF ReplyDropped, Answered
  <2>3. \A i \in 1 .. Len(handled) :
          \/ ReplyDropped(written[i])' \/ Answered(written[i])'
          \/ worker # "idle" /\ i = Len(handled)
    BY <1>1, <1>2, <2>1 DEF ServedInv
  <2> QED
    BY <1>1, <1>2, <2>2, <2>3 DEF ServedInv
<1>5. dropped \subseteq dropped'
  BY <1>1, SendGives
<1> QED
  BY <1>3, <1>4, <1>5, ServerLeaves DEF WInv

LEMMA SessionWindow ==
  ASSUME TInv, WInv, SessionStep, UNCHANGED bridgeVars
  PROVE  WInv'
<1>1. UNCHANGED <<asks, sock, waiter, answer, written, open, packets>>
  BY DEF bridgeVars, sockVars, waitVars
<1>2. CASE Start \/ Insert
  BY <1>1, <1>2, WindowKept DEF Start, Insert, sendVars, logicVars, windowVars
<1>3. CASE ReadStep \/ ReadFails
  BY <1>1, <1>3, WindowKept
     DEF ReadStep, ReadPart, ReadHead, ReadBody, ReadSome, ReadFails, sendVars,
         logicVars, windowVars
<1>4. CASE WriteTaken \/ WriteFails \/ WriteDone \/ WriteError
  BY <1>1, <1>4, WindowKept DEF WriteTaken, WriteFails, WriteDone, WriteError,
                                logicVars, windowVars
<1>5. CASE ClearLookup \/ ClearUser \/ ClearErase
  BY <1>1, <1>5, WindowKept DEF ClearLookup, ClearUser, ClearErase, sendVars,
                                logicVars, windowVars
<1>6. CASE LoginBind \/ LoginRegister
  <2>1. /\ worker # "idle" /\ worker' # "idle"
        /\ UNCHANGED <<accepted, dropped, handled, written>>
    BY <1>1, <1>6 DEF LoginBind, LoginRegister, sendVars
  <2>2. OrderInv' /\ ServedInv'
    BY <2>1 DEF WInv, OrderInv, ServedInv, Answered, ReplyDropped
  <2> QED
    BY <2>1, <2>2, ServerLeaves DEF WInv
<1>7. CASE \E n \in Note : Notify(n)
  BY <1>7, NoticeWindow
<1> QED
  BY <1>2, <1>3, <1>4, <1>5, <1>6, <1>7, HandleWindow, DrainWindow,
     RespondWindow DEF SessionStep, IOStep, WorkerStep

-----------------------------------------------------------------------------
(* The server's part is not the bridge's to change, unless it writes.      *)
LEMMA BridgeLeaves ==
  ASSUME WInv, UNCHANGED sessionVars, UNCHANGED written
  PROVE  OrderInv' /\ ServedInv'
<1>1. UNCHANGED <<accepted, dropped, handled, worker, written>>
  BY DEF sessionVars, sendVars, logicVars
<1> QED
  BY <1>1 DEF WInv, OrderInv, ServedInv, Answered, ReplyDropped

(* Waits that end, and the socket that does, disturb nothing.              *)
LEMMA WaitsEnd ==
  ASSUME WInv, UNCHANGED sessionVars, UNCHANGED <<answer, written, open, packets>>,
         asks' \subseteq asks,
         sock' \in {"none", "dialing"} =>
           sock \in {"none", "dialing"} /\ waiter' = waiter,
         \A q \in Request : waiter'[q] = "waiting" => waiter[q] = "waiting"
  PROVE  WInv'
<1>1. OrderInv' /\ ServedInv'
  BY BridgeLeaves
<1>2. OnceInv'
  BY DEF WInv, OnceInv
<1>3. OpenInv'
  BY DEF WInv, OpenInv, Emits
<1>4. ReplyInWindow'
  BY DEF WInv, ReplyInWindow, ReplyDropped, sessionVars, sendVars
<1> QED
  BY <1>1, <1>2, <1>3, <1>4 DEF WInv

(* A request is written that has not been written before.                  *)
LEMMA WriteWindow ==
  ASSUME TInv, WInv, UNCHANGED sessionVars, UNCHANGED <<answer, packets>>,
         NEW q \in Request, Write(q),
         \A i \in 1 .. Len(written) : written[i] # q,
         asks' \subseteq asks \ {q}, sock' = "open" \/ sock' = sock,
         sock' \notin {"none", "dialing"}
  PROVE  WInv'
<1> DEFINE n == Len(written)
<1>1. /\ Len(written') = n + 1 /\ written'[n + 1] = q
      /\ \A i \in 1 .. n : written'[i] = written[i]
      /\ n \in Nat /\ Len(handled) \in Nat /\ Len(handled) <= n
      /\ \A i \in 1 .. n : written[i] \in Request
  <2>1. written \in Seq(Request) /\ written' = Append(written, q)
    BY DEF TInv, UpInv, UpTypes, Write
  <2> QED
    BY <2>1, Lengths
<1>2. /\ waiter' = [waiter EXCEPT ![q] = "waiting"]
      /\ open' = [open EXCEPT ![q] = Unanswered(q)]
  BY DEF Write
<1>3. UNCHANGED <<accepted, dropped, handled, worker>>
  BY DEF sessionVars, sendVars, logicVars
<1>4. OnceInv /\ OrderInv /\ ServedInv /\ OpenInv /\ ReplyInWindow
  BY DEF WInv
<1> HIDE DEF n
<1>5. \A i \in 1 .. n + 1 : i = n + 1 \/ i \in 1 .. n
  BY <1>1
<1>6. ~Answered(q)
  <2> SUFFICES ASSUME NEW j \in 1 .. Len(accepted), Reply(accepted[j], q)
               PROVE  FALSE
    BY DEF Answered
  <2>1. PICK i \in 1 .. Len(handled) : written[i] = q
    BY <1>4 DEF OrderInv, Reply
  <2>2. i \in 1 .. n
    BY <1>1
  <2> QED
    BY <2>1, <2>2 DEF n
<1>7. ~Emits(q)
  BY <1>6, Lengths DEF Emits, Answered
<1>8. OnceInv'
  <2>1. \A i, j \in 1 .. n + 1 : written'[i] = written'[j] => i = j
    BY <1>1, <1>4, <1>5 DEF OnceInv, n
  <2>2. \A i \in 1 .. n + 1 : written'[i] \notin asks'
    BY <1>1, <1>4, <1>5 DEF OnceInv, n
  <2>3. ASSUME NEW r \in Request, waiter'[r] = "waiting" \/ answer[r] # None
        PROVE  \E i \in 1 .. n + 1 : written'[i] = r
    <3>1. CASE r = q
      BY <1>1, <3>1
    <3>2. CASE r # q
      <4>1. waiter'[r] = waiter[r]
        BY <1>2, <3>2 DEF TInv, BridgeTypes
      <4>2. PICK i \in 1 .. n : written[i] = r
        BY <1>4, <2>3, <4>1 DEF OnceInv, n
      <4> QED
        BY <1>1, <4>2
    <3> QED
      BY <3>1, <3>2
  <2> QED
    BY <1>1, <1>4, <2>1, <2>2, <2>3 DEF OnceInv
<1>9. OrderInv'
  <2>1. \A j \in 1 .. Len(accepted) :
          accepted[j].type = "rsp" =>
            \E i \in 1 .. Len(handled) : accepted[j].of = written'[i]
    <3>1. 1 .. Len(handled) \subseteq 1 .. n
      BY <1>1
    <3> QED
      BY <1>1, <1>4, <3>1 DEF OrderInv
  <2>2. ASSUME NEW j \in 1 .. Len(accepted), NEW a \in 1 .. n + 1,
               NEW b \in 1 .. n + 1, a < b, Reply(accepted[j], written'[b])
        PROVE  \/ ReplyDropped(written[a])
               \/ \E k \in 1 .. Len(accepted) : k < j /\ Reply(accepted[k], written[a])
    <3>1. b # n + 1
      BY <1>1, <1>6, <2>2 DEF Answered
    <3>2. a \in 1 .. n /\ b \in 1 .. n
      BY <1>1, <1>5, <2>2, <3>1
    <3> QED
      BY <1>1, <1>4, <2>2, <3>2 DEF OrderInv, n
  <2>3. \A j \in 1 .. Len(accepted), a, b \in 1 .. n + 1 :
          a < b /\ Reply(accepted[j], written'[b]) =>
            \/ ReplyDropped(written'[a])
            \/ \E k \in 1 .. Len(accepted) : k < j /\ Reply(accepted[k], written'[a])
    <3>1. \A a, b \in 1 .. n + 1 : a < b => written'[a] = written[a]
      BY <1>1
    <3> HIDE DEF ReplyDropped, Reply
    <3> QED
      BY <2>2, <3>1
  <2> QED
    BY <1>1, <1>3, <1>4, <2>1, <2>3 DEF OrderInv, ReplyDropped
<1>10. ServedInv'
  <2>1. \A i \in 1 .. Len(handled) : written'[i] = written[i]
    BY <1>1
  <2>2. Len(handled) >= 1 => written'[Len(handled)] = written[Len(handled)]
    BY <1>1
  <2> QED
    BY <1>3, <1>4, <2>1, <2>2 DEF ServedInv, Answered, ReplyDropped
<1>11. OpenInv'
  <2>1. \A r \in Request : Emits(r) => waiter'[r] # "waiting"
    <3>1. ASSUME NEW r \in Request, Emits(r) PROVE waiter'[r] # "waiting"
      <4>1. r # q
        BY <1>7, <3>1
      <4>2. waiter'[r] = waiter[r]
        BY <1>2, <4>1 DEF TInv, BridgeTypes
      <4> QED
        BY <1>4, <3>1, <4>2 DEF OpenInv
    <3> QED
      BY <3>1
  <2>2. ASSUME NEW a \in 1 .. n + 1, NEW b \in 1 .. n + 1,
               a < b, Kind[written'[a]] = Kind[written'[b]]
        PROVE  written'[a] \in open'[written'[b]] \/ Emits(written'[a])
    <3>1. a \in 1 .. n /\ written'[a] = written[a]
      BY <1>1, <2>2
    <3>2. CASE b \in 1 .. n
      <4>1. written'[b] = written[b] /\ written[b] # q
        BY <1>1, <3>2 DEF n
      <4>2. open'[written[b]] = open[written[b]]
        BY <1>2, <4>1
      <4> QED
        BY <1>4, <2>2, <3>1, <3>2, <4>1, <4>2 DEF OpenInv, n
    <3>3. CASE b = n + 1
      <4>1. written'[b] = q /\ Kind[written[a]] = Kind[q]
        BY <1>1, <2>2, <3>1, <3>3
      <4>2. open'[q] = Unanswered(q)
        BY <1>2, <1>4 DEF OpenInv
      <4>3. written[a] \in ToSet(written)
        BY <3>1 DEF ToSet, n
      <4>4. CASE written[a] \in Unanswered(q)
        BY <3>1, <4>1, <4>2, <4>4
      <4>5. CASE written[a] \notin Unanswered(q)
        <5>1. PICK p \in ToSet(packets) : p.type = "rsp" /\ p.of = written[a]
          BY <4>1, <4>3, <4>5 DEF Unanswered
        <5>2. packets \in Seq(Frame)
          BY DEF TInv, DownInv, DownTypes
        <5>3. DOMAIN packets = 1 .. Len(packets)
          BY <5>2, LenProperties
        <5>4. PICK i \in 1 .. Len(packets) : packets[i] = p
          BY <5>1, <5>3 DEF ToSet
        <5> QED
          BY <3>1, <5>1, <5>4 DEF Emits, Reply
      <4> QED
        BY <4>4, <4>5
    <3> QED
      BY <1>5, <3>2, <3>3
  <2>3. DOMAIN open' = Request
    BY <1>2, <1>4 DEF OpenInv
  <2> QED
    BY <1>1, <2>1, <2>2, <2>3 DEF OpenInv, Emits
<1>12. ReplyInWindow'
  <2> SUFFICES ASSUME NEW r \in Request, answer[r] # None
               PROVE  answer[r].of \in {r} \cup open'[r] \/ ReplyDropped(r)
    BY <1>3 DEF ReplyInWindow, ReplyDropped
  <2>1. r # q
    BY <1>4 DEF OnceInv
  <2>2. open'[r] = open[r]
    BY <1>2, <2>1
  <2> QED
    BY <1>4, <2>2 DEF ReplyInWindow
<1> QED
  BY <1>8, <1>9, <1>10, <1>11, <1>12 DEF WInv

(* A packet ends the waits for its message id.                             *)
LEMMA PacketWindow ==
  ASSUME TInv, TInv', WInv, UNCHANGED sessionVars, Packet
  PROVE  WInv'
<1> DEFINE n == Len(packets)
<1>1. PICK f :
        /\ packets' = Append(packets, f)
        /\ waiter' = [q \in Request |->
                        IF Answers(f, q) THEN "answered" ELSE waiter[q]]
        /\ answer' = [q \in Request |->
                        IF Answers(f, q) THEN f ELSE answer[q]]
        /\ UNCHANGED <<asks, sock, written, open>>
  BY DEF Packet, sockVars
<1>2. UNCHANGED <<accepted, dropped, handled, worker>>
  BY DEF sessionVars, sendVars, logicVars
<1>3. OnceInv /\ OrderInv /\ ServedInv /\ OpenInv /\ ReplyInWindow
  BY DEF WInv
<1>4. /\ n \in Nat /\ Len(packets') = n + 1 /\ packets'[n + 1] = f
      /\ \A i \in 1 .. n : packets'[i] = packets[i] /\ packets[i] = accepted[i]
      /\ \A i \in 1 .. n : i \in 1 .. Len(accepted)
  <2>1. packets \in Seq(Frame)
    BY DEF TInv, DownInv, DownTypes
  <2>2. /\ n \in Nat /\ n <= Len(accepted) /\ Len(accepted) \in Nat
        /\ \A i \in 1 .. n : packets[i] = accepted[i]
    BY Lengths
  <2> QED
    BY <1>1, <2>1, <2>2
<1>5. n + 1 \in 1 .. Len(accepted) /\ accepted[n + 1] = f
  <2>1. /\ Len(packets') <= Len(accepted') /\ Len(accepted') \in Nat
        /\ \A i \in 1 .. Len(packets') : packets'[i] = accepted'[i]
    BY EmittedNext
  <2>2. n + 1 \in 1 .. Len(packets')
    BY <1>4
  <2>3. accepted[n + 1] = f
    BY <1>2, <1>4, <2>1, <2>2
  <2> QED
    BY <1>2, <1>4, <2>1, <2>3
<1>6. \A i \in 1 .. n + 1 : i = n + 1 \/ i \in 1 .. n
  BY <1>4
<1> HIDE DEF n
<1>7. \A q \in Request : Answers(f, q) => waiter[q] = "waiting" /\ f.type = "rsp"
  BY DEF Answers
<1>8. OnceInv'
  <2>1. sock \in {"none", "dialing"} => waiter'[Login] = "idle"
    BY <1>1, <1>3, <1>7, WireAssumption DEF OnceInv
  <2>2. \A q \in Request :
          waiter'[q] = "waiting" \/ answer'[q] # None =>
            waiter[q] = "waiting" \/ answer[q] # None
    BY <1>1, <1>7
  <2> QED
    BY <1>1, <1>3, <2>1, <2>2 DEF OnceInv
<1>9. OrderInv' /\ ServedInv'
  BY <1>1, BridgeLeaves
<1>10. OpenInv'
  <2>1. ASSUME NEW q \in Request,
               NEW p \in 1 .. n + 1, Reply(packets'[p], q)
        PROVE  waiter'[q] # "waiting"
    <3>1. CASE p = n + 1
      <4>1. f.type = "rsp" /\ f.of = q
        BY <1>4, <2>1, <3>1 DEF Reply
      <4>2. waiter[q] = "waiting" => Answers(f, q)
        BY <4>1 DEF Answers
      <4> QED
        BY <1>1, <4>2
    <3>2. CASE p \in 1 .. n
      <4>1. Emits(q)
        BY <1>4, <2>1, <3>2 DEF Emits, n
      <4>2. waiter[q] # "waiting"
        BY <1>3, <4>1 DEF OpenInv
      <4> QED
        BY <1>1, <4>2
    <3> QED
      BY <1>6, <3>1, <3>2
  <2>2. \A q : Emits(q) => \E p \in 1 .. n + 1 : Reply(packets'[p], q)
    <3>1. \A i \in 1 .. n : i \in 1 .. n + 1
      BY <1>4
    <3> QED
      BY <1>4, <3>1 DEF Emits, n
  <2> QED
    BY <1>1, <1>3, <1>4, <2>1, <2>2 DEF OpenInv, Emits
<1>11. ReplyInWindow'
  <2> SUFFICES ASSUME NEW q \in Request, answer'[q] # None
               PROVE  answer'[q].of \in {q} \cup open[q] \/ ReplyDropped(q)
    BY <1>1, <1>2 DEF ReplyInWindow, ReplyDropped
  <2>1. CASE ~Answers(f, q)
    BY <1>1, <1>3, <2>1 DEF ReplyInWindow
  <2>2. CASE Answers(f, q)
    <3> DEFINE r == f.of
    <3>1. /\ answer'[q] = f /\ waiter[q] = "waiting" /\ f.type = "rsp"
          /\ Kind[r] = Kind[q]
      BY <1>1, <2>2 DEF Answers
    <3> SUFFICES ASSUME r # q, r \notin open[q] PROVE ReplyDropped(q)
      BY <3>1
    <3>2. PICK iq \in 1 .. Len(written) : written[iq] = q
      BY <1>3, <3>1 DEF OnceInv
    <3>3. PICK ir \in 1 .. Len(written) : written[ir] = r
      <4>1. PICK i \in 1 .. Len(handled) : written[i] = r
        BY <1>3, <1>5, <3>1 DEF OrderInv
      <4>2. i \in 1 .. Len(written)
        BY Lengths
      <4> QED
        BY <4>1, <4>2
    <3>4. iq \in Nat /\ ir \in Nat /\ iq # ir
      BY <3>2, <3>3
    <3>5. Reply(accepted[n + 1], r)
      BY <1>5, <3>1 DEF Reply
    <3>6. ~(ir < iq)
      <4> SUFFICES ASSUME ir < iq PROVE FALSE
        OBVIOUS
      <4>1. Emits(r)
        BY <1>3, <3>1, <3>2, <3>3 DEF OpenInv
      <4>2. PICK p \in 1 .. n : Reply(packets[p], r)
        BY <4>1 DEF Emits, n
      <4>3. /\ p \in 1 .. Len(accepted) /\ Reply(accepted[p], r)
            /\ p # n + 1
        BY <1>4, <4>2
      <4> QED
        BY <1>3, <1>5, <3>5, <4>3 DEF OrderInv, Reply
    <3>7. iq < ir
      BY <3>4, <3>6
    <3>8. \/ ReplyDropped(q)
          \/ \E k \in 1 .. Len(accepted) : k < n + 1 /\ Reply(accepted[k], q)
      BY <1>3, <1>5, <3>2, <3>3, <3>5, <3>7 DEF OrderInv
    <3>9. ASSUME NEW k \in 1 .. Len(accepted), k < n + 1, Reply(accepted[k], q)
          PROVE  FALSE
      <4>1. k \in 1 .. n
        BY <1>4, <3>9
      <4>2. Emits(q)
        BY <1>4, <3>9, <4>1 DEF Emits, n
      <4> QED
        BY <1>3, <3>1, <4>2 DEF OpenInv
    <3> QED
      BY <3>8, <3>9
  <2> QED
    BY <2>1, <2>2
<1> QED
  BY <1>8, <1>9, <1>10, <1>11 DEF WInv

LEMMA BridgeWindow ==
  ASSUME TInv, TInv', WInv, BridgeStep, UNCHANGED sessionVars
  PROVE  WInv'
<1>1. OnceInv
  BY DEF WInv
<1>2. CASE Connect \/ ConnectFails
  BY <1>1, <1>2, WaitsEnd, WireAssumption
     DEF Connect, ConnectFails, waitVars, OnceInv, TInv, BridgeTypes
<1>3. CASE Connected
  <2>1. /\ Write(Login) /\ asks' = asks /\ sock' = "open"
        /\ UNCHANGED <<answer, packets>> /\ written = <<>>
    BY <1>1, <1>3 DEF Connected, OnceInv
  <2>2. \A i \in 1 .. Len(written) : written[i] # Login
    BY <2>1
  <2>3. asks' \subseteq asks \ {Login} /\ Login \in Request
    BY <1>1, <2>1, WireAssumption DEF OnceInv
  <2> QED
    BY <2>1, <2>2, <2>3, WriteWindow
<1>4. ASSUME NEW q \in Request, SendRequest(q) PROVE WInv'
  <2>1. /\ q \in asks /\ asks' = asks \ {q} /\ sock' = sock
        /\ UNCHANGED <<answer, packets>> /\ waiter[Login] = "answered"
    BY <1>4 DEF SendRequest, sockVars
  <2>2. sock \notin {"none", "dialing"}
    BY <1>1, <2>1 DEF OnceInv
  <2>3. CASE Write(q)
    <3>1. \A i \in 1 .. Len(written) : written[i] # q
      BY <1>1, <2>1 DEF OnceInv
    <3> QED
      BY <2>1, <2>2, <2>3, <3>1, WriteWindow
  <2>4. CASE ~Write(q)
    <3>1. /\ waiter' = [waiter EXCEPT ![q] = "failed"]
          /\ UNCHANGED <<written, open>>
      BY <1>4, <2>4 DEF SendRequest
    <3>2. \A r \in Request : waiter'[r] = "waiting" => waiter[r] = "waiting"
      BY <3>1 DEF TInv, BridgeTypes
    <3> QED
      BY <2>1, <2>2, <3>1, <3>2, WaitsEnd
  <2> QED
    BY <2>3, <2>4
<1>5. ASSUME NEW q \in Request, Timeout(q) PROVE WInv'
  <2>1. /\ UNCHANGED <<answer, written, open, packets, asks, sock>>
        /\ waiter[q] = "waiting" /\ waiter' = [waiter EXCEPT ![q] = "failed"]
    BY <1>5 DEF Timeout, sockVars
  <2>2. \A r \in Request : waiter'[r] = "waiting" => waiter[r] = "waiting"
    BY <2>1 DEF TInv, BridgeTypes
  <2>3. sock \notin {"none", "dialing"}
    <3>1. PICK i \in 1 .. Len(written) : written[i] = q
      BY <1>1, <2>1 DEF OnceInv
    <3>2. written # <<>>
      BY <3>1
    <3> QED
      BY <1>1, <3>2 DEF OnceInv
  <2> QED
    BY <2>1, <2>2, <2>3, WaitsEnd
<1>6. CASE \E n \in 1 .. Len(down) : Data(n)
  BY <1>6, WaitsEnd DEF Data, waitVars, sockVars
<1>7. CASE Packet
  BY <1>7, PacketWindow
<1>8. CASE Refuse \/ CloseEvent \/ SocketEnds
  <2>1. /\ UNCHANGED <<answer, written, open, packets, asks>> /\ WaitersFail
        /\ sock' \in {"destroyed", "ended"}
    BY <1>8 DEF Refuse, CloseEvent, SocketEnds
  <2>2. \A r \in Request : waiter'[r] = "waiting" => waiter[r] = "waiting"
    BY <2>1 DEF WaitersFail
  <2> QED
    BY <2>1, <2>2, WaitsEnd
<1>9. CASE Disconnect
  BY <1>9, WaitsEnd DEF Disconnect, waitVars
<1> QED
  BY <1>2, <1>3, <1>4, <1>5, <1>6, <1>7, <1>8, <1>9 DEF BridgeStep

LEMMA NextWInv == TInv /\ TInv' /\ WInv /\ [Next]_vars => WInv'
<1> SUFFICES ASSUME TInv, TInv', WInv, [Next]_vars PROVE WInv'
  OBVIOUS
<1>1. CASE SessionStep /\ UNCHANGED bridgeVars
  BY <1>1, SessionWindow
<1>2. CASE BridgeStep /\ UNCHANGED sessionVars
  BY <1>2, BridgeWindow
<1>3. CASE NetBreaks \/ UNCHANGED vars
  BY <1>3, WindowKept DEF NetBreaks, vars, wireVars, sessionVars, sendVars,
                          logicVars, bridgeVars, sockVars, waitVars, windowVars
<1> QED
  BY <1>1, <1>2, <1>3 DEF Next

(* A request is answered by its own reply, or by one that was open under   *)
(* the same message id when it was sent, unless Send has dropped its own   *)
(* (waitForPacket, and the order of one session's requests in LogicSystem).*)
THEOREM RepliesFit == Spec => []ReplyInWindow
<1>1. WInv => ReplyInWindow
  BY DEF WInv
<1> QED
  BY <1>1, InitTInv, InitWInv, NextTInv, NextWInv, PTL DEF Spec

-----------------------------------------------------------------------------
(* The conversation of which the steps of the two ends are steps.          *)
talkVars == <<written, handled, worker, accepted, packets>>

LEMMA TalkStays == UNCHANGED talkVars => UNCHANGED Talk!vars
BY DEF talkVars, Talk!vars

(* What Send does not drop is said next.                                   *)
LEMMA SendSays ==
  ASSUME TInv, NEW f, Send(f)
  PROVE  accepted' = accepted \/ Talk!Says(f.type, f.of)
<1>1. accepted \in Seq(Frame) /\ Len(accepted) \in Nat
  BY LenProperties DEF TInv, DownInv, DownTypes
<1>2. CASE Full
  BY <1>2 DEF Send
<1>3. CASE ~Full
  <2>1. accepted' = Append(accepted, f)
    BY <1>3 DEF Send
  <2>2. /\ Len(accepted') = Len(accepted) + 1
        /\ accepted'[Len(accepted) + 1] = f
    BY <1>1, <2>1
  <2> QED
    BY <2>1, <2>2 DEF Talk!Says
<1> QED
  BY <1>2, <1>3

LEMMA RequestTalk ==
  ASSUME TInv, HandleRequest, UNCHANGED bridgeVars
  PROVE  Talk!TakeNext
<1>1. PICK i \in NextPosted : Take(i) /\ Send(Rsp(posted[i].of, <<>>))
  BY DEF HandleRequest
<1> DEFINE q == written[Len(handled) + 1]
<1>2. /\ Len(handled') = Len(handled) + 1
      /\ Len(handled) + 1 \in 1 .. Len(written) /\ posted[i] = Req(q)
  BY <1>1, TakeNext
<1>3. Len(handled) < Len(written)
  BY <1>2, Lengths
<1> HIDE DEF q
<1>4. Send(Rsp(q, <<>>)) /\ Rsp(q, <<>>).type = "rsp" /\ Rsp(q, <<>>).of = q
  BY <1>1, <1>2 DEF Req, Rsp
<1>5. Talk!Replies(q)
  BY <1>4, SendSays DEF Talk!Replies
<1>6. worker = "idle" /\ worker' = "idle" /\ UNCHANGED <<written, packets>>
  BY DEF HandleRequest, bridgeVars, waitVars
<1> QED
  BY <1>2, <1>3, <1>5, <1>6 DEF Talk!TakeNext, q

LEMMA DrainTalk ==
  ASSUME TInv, LoginDrain, UNCHANGED bridgeVars
  PROVE  Talk!TakeNext
<1>1. PICK i \in NextPosted : Take(i)
  BY DEF LoginDrain
<1>2. /\ Len(handled') = Len(handled) + 1
      /\ Len(handled) + 1 \in 1 .. Len(written)
  BY <1>1, TakeNext
<1>3. Len(handled) < Len(written)
  BY <1>2, Lengths
<1>4. /\ worker = "idle" /\ worker' = "bind"
      /\ UNCHANGED <<written, packets, accepted>>
  BY DEF LoginDrain, sendVars, bridgeVars, waitVars
<1> QED
  BY <1>2, <1>3, <1>4 DEF Talk!TakeNext

LEMMA RespondTalk ==
  ASSUME TInv, WInv, LoginRespond, UNCHANGED bridgeVars
  PROVE  Talk!Reply
<1> DEFINE f == Rsp(Login, cur)
<1>1. /\ Send(f) /\ worker = "respond" /\ worker' = "idle"
      /\ UNCHANGED <<handled, written, packets>>
  BY DEF LoginRespond, bridgeVars, waitVars
<1>2. f.type = "rsp" /\ f.of = Login
  BY DEF Rsp
<1> HIDE DEF f
<1>3. written[Len(handled)] = Login
  BY <1>1 DEF WInv, ServedInv
<1>4. Talk!Replies(written[Len(handled)])
  BY <1>1, <1>2, <1>3, SendSays DEF Talk!Replies
<1> QED
  BY <1>1, <1>4 DEF Talk!Reply

LEMMA NotifyTalk ==
  ASSUME TInv, NEW n \in Note, Notify(n), UNCHANGED bridgeVars
  PROVE  Talk!Next \/ UNCHANGED Talk!vars
<1> DEFINE f == Notice(n)
<1>1. /\ Send(f) /\ UNCHANGED <<worker, handled, written, packets>>
      /\ f.type = "note" /\ f.of = n
  BY DEF Notify, bridgeVars, waitVars, Notice
<1> HIDE DEF f
<1>2. CASE accepted' = accepted
  BY <1>1, <1>2, TalkStays DEF talkVars
<1>3. CASE Talk!Says("note", n)
  BY <1>1, <1>3 DEF Talk!Next, Talk!Tell
<1> QED
  BY <1>1, <1>2, <1>3, SendSays

LEMMA SessionTalk ==
  ASSUME TInv, WInv, SessionStep, UNCHANGED bridgeVars
  PROVE  Talk!Next \/ UNCHANGED Talk!vars
<1>1. UNCHANGED <<written, packets>>
  BY DEF bridgeVars, waitVars
<1>2. CASE Start \/ Insert
  BY <1>1, <1>2, TalkStays DEF Start, Insert, sendVars, logicVars, talkVars
<1>3. CASE ReadStep \/ ReadFails
  BY <1>1, <1>3, TalkStays
     DEF ReadStep, ReadPart, ReadHead, ReadBody, ReadSome, ReadFails, sendVars,
         logicVars, talkVars
<1>4. CASE WriteTaken \/ WriteFails \/ WriteDone \/ WriteError
  BY <1>1, <1>4, TalkStays DEF WriteTaken, WriteFails, WriteDone, WriteError,
                               logicVars, talkVars
<1>5. CASE ClearLookup \/ ClearUser \/ ClearErase
  BY <1>1, <1>5, TalkStays DEF ClearLookup, ClearUser, ClearErase, sendVars,
                               logicVars, talkVars
<1>6. CASE HandleRequest \/ LoginDrain
  BY <1>6, RequestTalk, DrainTalk DEF Talk!Next
<1>7. CASE LoginBind \/ LoginRegister
  BY <1>1, <1>7 DEF LoginBind, LoginRegister, sendVars, Talk!vars
<1>8. CASE LoginRespond
  BY <1>8, RespondTalk DEF Talk!Next
<1>9. CASE \E n \in Note : Notify(n)
  BY <1>9, NotifyTalk
<1> QED
  BY <1>2, <1>3, <1>4, <1>5, <1>6, <1>7, <1>8, <1>9
     DEF SessionStep, IOStep, WorkerStep

(* A request is asked that has not been asked before.                      *)
LEMMA WriteTalk ==
  ASSUME TInv, UNCHANGED sessionVars, UNCHANGED packets,
         NEW q \in Request, Write(q),
         \A i \in 1 .. Len(written) : written[i] # q
  PROVE  Talk!Next
<1>1. UNCHANGED <<handled, worker, accepted>> /\ written' = Append(written, q)
  BY DEF sessionVars, sendVars, logicVars, Write
<1>2. DOMAIN written = 1 .. Len(written)
  BY LenProperties DEF TInv, UpInv, UpTypes
<1> QED
  BY <1>1, <1>2 DEF Talk!Next, Talk!Ask

(* The next frame that was said is heard.                                  *)
LEMMA PacketTalk ==
  ASSUME TInv, TInv', UNCHANGED sessionVars, Packet
  PROVE  Talk!Hear
<1> DEFINE n == Len(packets)
<1>1. PICK f : packets' = Append(packets, f)
  BY DEF Packet
<1>2. UNCHANGED <<accepted, handled, worker, written>>
  BY DEF sessionVars, sendVars, logicVars, Packet
<1>3. packets \in Seq(Frame) /\ n \in Nat
  BY LenProperties DEF TInv, DownInv, DownTypes
<1>4. Len(packets') = n + 1 /\ packets'[n + 1] = f
  BY <1>1, <1>3
<1>5. n < Len(accepted) /\ f = accepted[n + 1]
  <2>1. /\ Len(packets') <= Len(accepted') /\ Len(accepted') \in Nat
        /\ \A i \in 1 .. Len(packets') : packets'[i] = accepted'[i]
    BY EmittedNext
  <2>2. n + 1 \in 1 .. Len(packets')
    BY <1>3, <1>4
  <2> QED
    BY <1>2, <1>3, <1>4, <2>1, <2>2
<1> QED
  BY <1>1, <1>2, <1>5 DEF Talk!Hear

LEMMA BridgeTalk ==
  ASSUME TInv, TInv', WInv, BridgeStep, UNCHANGED sessionVars
  PROVE  Talk!Next \/ UNCHANGED Talk!vars
<1>1. OnceInv /\ UNCHANGED <<handled, worker, accepted>>
  BY DEF WInv, sessionVars, sendVars, logicVars
<1>2. CASE Connected
  <2>1. Write(Login) /\ UNCHANGED packets /\ written = <<>>
    BY <1>1, <1>2 DEF Connected, OnceInv
  <2>2. \A i \in 1 .. Len(written) : written[i] # Login
    BY <2>1
  <2> QED
    BY <2>1, <2>2, WriteTalk, WireAssumption
<1>3. ASSUME NEW q \in Request, SendRequest(q)
      PROVE  Talk!Next \/ UNCHANGED Talk!vars
  <2>1. UNCHANGED packets /\ \A i \in 1 .. Len(written) : written[i] # q
    BY <1>1, <1>3 DEF SendRequest, OnceInv
  <2>2. CASE Write(q)
    BY <2>1, <2>2, WriteTalk
  <2>3. CASE ~Write(q)
    BY <1>1, <1>3, <2>1, <2>3, TalkStays DEF SendRequest, talkVars
  <2> QED
    BY <2>2, <2>3
<1>4. CASE Packet
  BY <1>4, PacketTalk DEF Talk!Next
<1>5. CASE Connect \/ ConnectFails \/ \E q \in Request : Timeout(q)
  BY <1>1, <1>5, TalkStays DEF Connect, ConnectFails, Timeout, waitVars, talkVars
<1>6. CASE \E n \in 1 .. Len(down) : Data(n)
  BY <1>1, <1>6, TalkStays DEF Data, waitVars, talkVars
<1>7. CASE Refuse \/ Disconnect \/ CloseEvent \/ SocketEnds
  BY <1>1, <1>7, TalkStays DEF Refuse, Disconnect, CloseEvent, SocketEnds,
                               waitVars, talkVars
<1> QED
  BY <1>2, <1>3, <1>4, <1>5, <1>6, <1>7 DEF BridgeStep

LEMMA NextTalk ==
  TInv /\ TInv' /\ WInv /\ [Next]_vars => [Talk!Next]_Talk!vars
<1> SUFFICES ASSUME TInv, TInv', WInv, [Next]_vars
             PROVE  Talk!Next \/ UNCHANGED Talk!vars
  OBVIOUS
<1>1. CASE SessionStep /\ UNCHANGED bridgeVars
  BY <1>1, SessionTalk
<1>2. CASE BridgeStep /\ UNCHANGED sessionVars
  BY <1>2, BridgeTalk
<1>3. CASE NetBreaks \/ UNCHANGED vars
  BY <1>3, TalkStays DEF NetBreaks, vars, sessionVars, sendVars, logicVars,
                         bridgeVars, waitVars, talkVars
<1> QED
  BY <1>1, <1>2, <1>3 DEF Next

LEMMA InitTalk == Init => Talk!Init
<1> SUFFICES ASSUME Init PROVE Talk!Init
  OBVIOUS
<1>1. /\ written = <<>> /\ handled = <<>> /\ worker = "idle"
      /\ accepted = <<>> /\ packets = <<>>
  BY DEF Init, SessionInit, BridgeInit
<1>2. Len(<<>>) = 0
  OBVIOUS
<1> QED
  BY <1>1, <1>2 DEF Talk!Init

(* Every step of the two ends is one of the conversation or none: requests *)
(* are taken one by one in the order of the browser, a reply is to the     *)
(* last one taken, and the bridge hears the next frame said, although      *)
(* frames are cut, queued and dropped, notices come between, and either    *)
(* end may close (CSession, LogicSystem, server.js).                       *)
THEOREM ConversationImplemented == Spec => ConversationSpec
BY InitTInv, InitWInv, InitTalk, NextTInv, NextWInv, NextTalk, PTL
   DEF Spec, ConversationSpec, Talk!Spec

-----------------------------------------------------------------------------
(* The requests that can have been replied to.                             *)
Done == IF worker = "idle" THEN Len(handled) ELSE Len(handled) - 1

(* What a conversation keeps: a reply is to a request that is done, and    *)
(* a later reply is to a later one.                                        *)
TurnInv ==
  /\ \A i \in 1 .. Len(accepted) :
       accepted[i].type = "rsp" =>
         \E k \in 1 .. Done : written[k] = accepted[i].of
  /\ \A i, j \in 1 .. Len(accepted) :
       i < j /\ accepted[i].type = "rsp" /\ accepted[j].type = "rsp" =>
         \E k, l \in 1 .. Done :
           k < l /\ written[k] = accepted[i].of /\ written[l] = accepted[j].of

LEMMA DoneBound ==
  ASSUME TInv, WInv
  PROVE  Done \in Nat /\ Done <= Len(handled) /\ Done <= Len(written)
BY Lengths DEF WInv, ServedInv, Done

(* A reply that is said is to the next request.                            *)
LEMMA TurnKept ==
  ASSUME TInv, WInv, TurnInv, Done' \in Nat, Done <= Done',
         \A k \in 1 .. Done : written'[k] = written[k],
         \/ accepted' = accepted
         \/ \E of : /\ Talk!Says("rsp", of)
                    /\ Done' = Done + 1 /\ written'[Done + 1] = of
         \/ \E n : Talk!Says("note", n)
  PROVE  TurnInv'
<1> DEFINE m == Len(accepted)
           s == Done
<1>1. s \in Nat /\ 1 .. s \subseteq 1 .. Done'
  BY DoneBound
<1>2. accepted \in Seq(Frame) /\ m \in Nat
  BY Lengths DEF TInv, DownInv, DownTypes
<1>3. /\ \A i \in 1 .. m :
            accepted[i].type = "rsp" =>
              \E k \in 1 .. Done' : k <= s /\ written'[k] = accepted[i].of
      /\ \A i, j \in 1 .. m :
           i < j /\ accepted[i].type = "rsp" /\ accepted[j].type = "rsp" =>
             \E k, l \in 1 .. Done' :
               k < l /\ written'[k] = accepted[i].of /\ written'[l] = accepted[j].of
  BY <1>1 DEF TurnInv
<1>4. CASE accepted' = accepted
  BY <1>3, <1>4 DEF TurnInv
<1>5. ASSUME NEW type, NEW of, Talk!Says(type, of),
             type = "rsp" => Done' = s + 1 /\ written'[s + 1] = of
      PROVE  TurnInv'
  <2>1. PICK f : accepted' = Append(accepted, f) /\ f.type = type /\ f.of = of
    BY <1>5 DEF Talk!Says
  <2>2. /\ Len(accepted') = m + 1 /\ accepted'[m + 1] = f
        /\ \A i \in 1 .. m : accepted'[i] = accepted[i]
    BY <1>2, <2>1
  <2>3. \A i \in 1 .. m + 1 : i \in 1 .. m \/ i = m + 1
    BY <1>2
  <2>4. type = "rsp" => s + 1 \in 1 .. Done'
    BY <1>1, <1>5
  <2> HIDE DEF m, s
  <2>5. ASSUME NEW i \in 1 .. m + 1, accepted'[i].type = "rsp"
        PROVE  \E k \in 1 .. Done' : written'[k] = accepted'[i].of
    <3>1. CASE i = m + 1
      BY <1>5, <2>1, <2>2, <2>4, <2>5, <3>1
    <3>2. CASE i \in 1 .. m
      BY <1>3, <2>2, <2>5, <3>2
    <3> QED
      BY <2>3, <3>1, <3>2
  <2>6. ASSUME NEW i \in 1 .. m + 1, NEW j \in 1 .. m + 1, i < j,
               accepted'[i].type = "rsp", accepted'[j].type = "rsp"
        PROVE  \E k, l \in 1 .. Done' :
                 /\ k < l
                 /\ written'[k] = accepted'[i].of /\ written'[l] = accepted'[j].of
    <3>1. i \in 1 .. m
      BY <1>2, <2>6
    <3>2. CASE j = m + 1
      <4>1. PICK k \in 1 .. Done' : k <= s /\ written'[k] = accepted[i].of
        BY <1>3, <2>2, <2>6, <3>1
      <4>2. k < s + 1
        BY <1>1, <4>1
      <4> QED
        BY <1>5, <2>1, <2>2, <2>4, <2>6, <3>1, <3>2, <4>1, <4>2
    <3>3. CASE j \in 1 .. m
      BY <1>3, <2>2, <2>6, <3>1, <3>3
    <3> QED
      BY <2>3, <3>2, <3>3
  <2> QED
    BY <2>2, <2>5, <2>6 DEF TurnInv
<1> QED
  BY <1>4, <1>5

LEMMA NextTurn ==
  TInv /\ TInv' /\ WInv /\ WInv' /\ TurnInv /\ [Talk!Next]_Talk!vars => TurnInv'
<1> SUFFICES ASSUME TInv, TInv', WInv, WInv', TurnInv,
                    Talk!Next \/ UNCHANGED Talk!vars
             PROVE  TurnInv'
  OBVIOUS
<1>1. Done \in Nat /\ Done <= Len(written) /\ Len(handled) \in Nat
  BY DoneBound, Lengths
<1>2. CASE UNCHANGED <<Len(handled), worker # "idle">>
  <2>1. Done' = Done
    BY <1>2 DEF Done
  <2>2. ASSUME NEW q \in Request, Talk!Ask(q) PROVE TurnInv'
    <3>1. accepted' = accepted /\ written' = Append(written, q)
      BY <2>2 DEF Talk!Ask
    <3>2. written \in Seq(Request) /\ Len(written) \in Nat
      BY LenProperties DEF TInv, UpInv, UpTypes
    <3>3. \A k \in 1 .. Done : written'[k] = written[k]
      BY <1>1, <3>1, <3>2
    <3> QED
      BY <1>1, <2>1, <3>1, <3>3, TurnKept
  <2>3. ASSUME NEW n \in Note, Talk!Tell(n) PROVE TurnInv'
    BY <1>1, <2>1, <2>3, TurnKept DEF Talk!Tell
  <2>4. CASE Talk!Hear \/ UNCHANGED Talk!vars
    BY <1>1, <2>1, <2>4, TurnKept DEF Talk!Hear, Talk!vars
  <2>5. ~Talk!TakeNext /\ ~Talk!Reply
    BY <1>1, <1>2 DEF Talk!TakeNext, Talk!Reply
  <2> QED
    BY <2>2, <2>3, <2>4, <2>5 DEF Talk!Next
<1>3. CASE Talk!TakeNext
  <2>1. /\ worker = "idle" /\ Len(handled') = Len(handled) + 1
        /\ written' = written
    BY <1>3 DEF Talk!TakeNext
  <2>2. CASE worker' = "idle" /\ Talk!Replies(written[Len(handled) + 1])
    <3>1. Done' = Done + 1 /\ Done = Len(handled)
      BY <2>1, <2>2 DEF Done
    <3> QED
      BY <1>1, <2>1, <2>2, <3>1, TurnKept DEF Talk!Replies
  <2>3. CASE worker' # "idle" /\ accepted' = accepted
    <3>1. Done' = Done
      BY <1>1, <2>1, <2>3 DEF Done
    <3> QED
      BY <1>1, <2>1, <2>3, <3>1, TurnKept
  <2> QED
    BY <1>3, <2>2, <2>3 DEF Talk!TakeNext
<1>4. CASE Talk!Reply
  <2>1. /\ worker # "idle" /\ worker' = "idle" /\ Len(handled') = Len(handled)
        /\ written' = written /\ Talk!Replies(written[Len(handled)])
    BY <1>4 DEF Talk!Reply
  <2>2. Done' = Done + 1 /\ Done + 1 = Len(handled)
    BY <1>1, <2>1 DEF Done
  <2> QED
    BY <1>1, <2>1, <2>2, TurnKept DEF Talk!Replies
<1> QED
  BY <1>2, <1>3, <1>4 DEF Talk!Next, Talk!Ask, Talk!Tell, Talk!Hear, Talk!vars

LEMMA InitTurn == Init => TurnInv
<1> SUFFICES ASSUME Init PROVE TurnInv
  OBVIOUS
<1>1. accepted = <<>>
  BY DEF Init, SessionInit
<1>2. 1 .. Len(accepted) = {}
  BY <1>1
<1> QED
  BY <1>2 DEF TurnInv

(* Replies are said in the order of the requests they are to, to each at   *)
(* most one, and none before the worker has taken the request and done     *)
(* with it (LogicSystem, LoginHandler, Send).                              *)
THEOREM AnsweredInTurn == Spec => []Talk!RepliesInTurn
<1>1. TInv /\ WInv /\ TurnInv => Talk!RepliesInTurn
  <2> SUFFICES ASSUME TInv, WInv, TurnInv PROVE Talk!RepliesInTurn
    OBVIOUS
  <2>1. DOMAIN accepted = 1 .. Len(accepted)
    BY LenProperties DEF TInv, DownInv, DownTypes
  <2>2. 1 .. Done \subseteq 1 .. Len(handled)
    BY DoneBound, Lengths
  <2> QED
    BY <2>1, <2>2, SMTT(30) DEF TurnInv, Talk!RepliesInTurn
<1> QED
  BY <1>1, InitTInv, InitWInv, InitTurn, NextTInv, NextWInv, NextTalk, NextTurn,
     PTL DEF Spec
=============================================================================
