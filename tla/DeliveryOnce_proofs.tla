------------------------ MODULE DeliveryOnce_proofs -------------------------
(***************************************************************************)
(* More theorems about ChatDelivery: how often a recipient gets a message, *)
(* and in which order.                                                     *)
(***************************************************************************)
EXTENDS ChatDelivery_proofs, FiniteSetTheorems

-----------------------------------------------------------------------------
(* What becomes of the requests of a session.                              *)

(* A worker has taken the message from its queue.                          *)
Begun(m) == fate[m] \notin {"unsent", "queued"}

(* A session sends its messages in order.                                  *)
SentInOrder ==
  \A k, m \in Msg :
    From[k] = From[m] /\ k < m /\ fate[k] = "unsent" => fate[m] = "unsent"

(* Queued messages of one session are in order, behind those begun.        *)
Queued(w) ==
  \A i \in 1 .. Len(queue[w]) : queue[w][i].m # None =>
    /\ fate[queue[w][i].m] = "queued"
    /\ \A j \in 1 .. Len(queue[w]) :
         i < j /\ queue[w][j].m # None /\ queue[w][j].s = queue[w][i].s
           => queue[w][i].m < queue[w][j].m
    /\ \A k \in Msg : Begun(k) /\ From[k] = queue[w][i].s => k < queue[w][i].m

(* The message in a worker's hands is the last that its session has begun. *)
Handled(w) ==
  pc[w] \in MsgPC =>
    /\ fate[cur[w].m] = "handling"
    /\ \A k \in Msg : Begun(k) /\ From[k] = cur[w].s => k <= cur[w].m

RequestInv == SentInOrder /\ \A w \in Worker : Queued(w) /\ Handled(w)

LEMMA InitRequest == Init => RequestInv
BY DEF Init, RequestInv, SentInOrder, Queued, Handled, MsgPC

(* Steps that begin no message and send none.                              *)
LEMMA RequestKept ==
  ASSUME RequestInv, UNCHANGED <<fate, queue>>,
         \A w \in Worker : pc'[w] \in MsgPC => pc[w] \in MsgPC /\ cur'[w] = cur[w]
  PROVE  RequestInv'
<1>1. \A w \in Worker : Queued(w)' /\ Handled(w)'
  BY DEF RequestInv, Queued, Handled, Begun
<1> QED
  BY <1>1 DEF RequestInv, SentInOrder

LEMMA QueuedRequests ==
  ASSUME TInv, NEW w \in Worker
  PROVE  /\ queue[w] \in Seq(Request) /\ Len(queue[w]) \in Nat
         /\ \A i \in 1 .. Len(queue[w]) :
              /\ queue[w][i] \in Request /\ queue[w][i].s \in Session
              /\ WorkerOf[queue[w][i].s] = w
              /\ queue[w][i].m # None =>
                   /\ queue[w][i].m \in Msg
                   /\ From[queue[w][i].m] = queue[w][i].s
<1>1. queue[w] \in Seq(Request)
  BY DEF TInv, TypeOK, WorkerTypes
<1>2. Len(queue[w]) \in Nat /\ \A i \in 1 .. Len(queue[w]) : queue[w][i] \in Request
  BY <1>1
<1>3. \A r \in Request : r.s \in Session /\ (r.m # None => r.m \in Msg)
  BY DEF Request
<1> QED
  BY <1>1, <1>2, <1>3 DEF TInv, QueueOK

(* The first request of a queue, and those behind it.                      *)
LEMMA Taken ==
  ASSUME TInv, NEW w \in Worker, queue[w] # <<>>,
         queue' = [queue EXCEPT ![w] = Tail(@)]
  PROVE  /\ Head(queue[w]) = queue[w][1] /\ 1 \in 1 .. Len(queue[w])
         /\ Len(queue'[w]) \in Nat
         /\ \A v \in Worker \ {w} : queue'[v] = queue[v]
         /\ \A i \in 1 .. Len(queue'[w]) :
              /\ i + 1 \in 1 .. Len(queue[w]) /\ 1 < i + 1
              /\ queue'[w][i] = queue[w][i + 1]
<1>1. queue \in [Worker -> Seq(Request)]
  BY DEF TInv, TypeOK, WorkerTypes
<1>2. /\ Head(queue[w]) \in Request /\ Head(queue[w]) = queue[w][1]
      /\ 1 \in 1 .. Len(queue[w]) /\ Tail(queue[w]) \in Seq(Request)
      /\ \A i \in 1 .. Len(Tail(queue[w])) :
           i + 1 \in 1 .. Len(queue[w]) /\ Tail(queue[w])[i] = queue[w][i + 1]
  BY <1>1, TailElements
<1>3. queue'[w] = Tail(queue[w]) /\ \A v \in Worker \ {w} : queue'[v] = queue[v]
  BY <1>1
<1>4. Len(Tail(queue[w])) \in Nat /\ \A i \in 1 .. Len(Tail(queue[w])) : 1 < i + 1
  BY <1>2
<1> QED
  BY <1>2, <1>3, <1>4

(* What is behind the first request of a queue moves up.                   *)
LEMMA MovesUp ==
  ASSUME TInv, RequestInv, NEW w \in Worker, queue[w] # <<>>,
         queue' = [queue EXCEPT ![w] = Tail(@)],
         NEW h, h = Head(queue[w]).m,
         \/ h = None /\ fate' = fate
         \/ /\ h \in Msg
            /\ \A k \in Msg \ {h} : fate'[k] = fate[k]
            /\ fate'[h] \notin {"unsent", "queued"}
  PROVE  /\ SentInOrder'
         /\ \A v \in Worker : Queued(v)'
         /\ \A v \in Worker \ {w} : UNCHANGED <<pc[v], cur[v]>> => Handled(v)'
         /\ h # None => \A k \in Msg :
              Begun(k)' /\ From[k] = Head(queue[w]).s => k <= h
<1>1. /\ Head(queue[w]) = queue[w][1] /\ 1 \in 1 .. Len(queue[w])
      /\ Len(queue'[w]) \in Nat
      /\ \A v \in Worker \ {w} : queue'[v] = queue[v]
      /\ \A i \in 1 .. Len(queue'[w]) :
           /\ i + 1 \in 1 .. Len(queue[w]) /\ 1 < i + 1
           /\ queue'[w][i] = queue[w][i + 1]
  BY Taken
<1>q. ASSUME NEW v \in Worker
      PROVE  /\ Len(queue[v]) \in Nat
             /\ \A i \in 1 .. Len(queue[v]) :
                  /\ queue[v][i].s \in Session /\ WorkerOf[queue[v][i].s] = v
                  /\ queue[v][i].m # None =>
                       /\ queue[v][i].m \in Msg
                       /\ From[queue[v][i].m] = queue[v][i].s
  BY QueuedRequests
<1>f. \A k \in Msg : k \in Nat /\ k # None /\ From[k] \in Session
  BY DeliveryAssumption
<1>2. h # None => /\ fate[h] = "queued" /\ From[h] = queue[w][1].s /\ h \in Msg
                  /\ \A k \in Msg : Begun(k) /\ From[k] = queue[w][1].s => k < h
  BY <1>1, <1>q DEF RequestInv, Queued
<1>3. \A k \in Msg : Begun(k)' => Begun(k) \/ (k = h /\ h # None)
  BY <1>f DEF Begun
<1>4. SentInOrder'
  <2>1. \A k \in Msg : /\ fate'[k] = "unsent" => fate[k] = "unsent"
                      /\ fate[k] = "unsent" => fate'[k] = "unsent"
    BY <1>2, <1>f
  <2> QED
    BY <2>1 DEF RequestInv, SentInOrder
<1>5. ASSUME NEW v \in Worker, v # w
      PROVE  Queued(v)'
  <2>1. ASSUME NEW i \in 1 .. Len(queue'[v]), queue'[v][i].m # None
        PROVE  /\ fate'[queue'[v][i].m] = "queued"
               /\ \A k \in Msg : Begun(k)' /\ From[k] = queue'[v][i].s => k < queue'[v][i].m
    <3>1. /\ queue'[v] = queue[v] /\ WorkerOf[queue[v][i].s] = v
          /\ From[queue[v][i].m] = queue[v][i].s
      BY <1>1, <1>5, <1>q, <2>1
    <3>2. queue[v][i].m \in Msg
      BY <1>1, <1>5, <1>q, <2>1
    <3>3. queue[v][i].m # h /\ (h # None => From[h] # queue[v][i].s)
      BY <1>1, <1>2, <1>5, <1>q, <1>f, <3>1, <3>2, SMTT(30)
    <3>4. fate[queue[v][i].m] = "queued"
      BY <2>1, <3>1 DEF RequestInv, Queued
    <3>5. fate'[queue[v][i].m] = "queued"
      BY <3>2, <3>3, <3>4
    <3> QED
      BY <1>3, <2>1, <3>1, <3>3, <3>5 DEF RequestInv, Queued
  <2>2. \A i, j \in 1 .. Len(queue'[v]) :
          /\ i < j /\ queue'[v][i].m # None /\ queue'[v][j].m # None
          /\ queue'[v][j].s = queue'[v][i].s
          => queue'[v][i].m < queue'[v][j].m
    BY <1>1, <1>5 DEF RequestInv, Queued
  <2> QED
    BY <2>1, <2>2 DEF Queued
<1>6. Queued(w)'
  <2>1. ASSUME NEW i \in 1 .. Len(queue'[w]), queue'[w][i].m # None
        PROVE  /\ fate'[queue'[w][i].m] = "queued"
               /\ \A k \in Msg : Begun(k)' /\ From[k] = queue'[w][i].s => k < queue'[w][i].m
    <3> DEFINE j == i + 1
    <3>1. /\ j \in 1 .. Len(queue[w]) /\ 1 < j /\ queue'[w][i] = queue[w][j]
          /\ From[queue[w][j].m] = queue[w][j].s /\ queue[w][j].m # None
      BY <1>1, <1>q, <2>1
    <3>2. queue[w][j].m \in Msg
      BY <1>1, <1>q, <2>1, SMTT(30)
    <3> HIDE DEF j
    <3>3. /\ fate[queue[w][j].m] = "queued"
          /\ \A k \in Msg : Begun(k) /\ From[k] = queue[w][j].s => k < queue[w][j].m
      BY <3>1 DEF RequestInv, Queued
    <3>4. h # None /\ From[h] = queue[w][j].s => h < queue[w][j].m
      BY <1>1, <1>2, <3>1 DEF RequestInv, Queued
    <3>5. queue[w][j].m # h
      BY <1>2, <1>f, <3>1, <3>2, <3>4
    <3> QED
      BY <1>3, <3>1, <3>2, <3>3, <3>4, <3>5
  <2>2. ASSUME NEW i \in 1 .. Len(queue'[w]), NEW j \in 1 .. Len(queue'[w]), i < j,
               queue'[w][i].m # None, queue'[w][j].m # None,
               queue'[w][j].s = queue'[w][i].s
        PROVE  queue'[w][i].m < queue'[w][j].m
    <3>1. /\ i + 1 \in 1 .. Len(queue[w]) /\ j + 1 \in 1 .. Len(queue[w])
          /\ queue'[w][i] = queue[w][i + 1] /\ queue'[w][j] = queue[w][j + 1]
      BY <1>1
    <3>2. i + 1 < j + 1
      BY <1>1, <2>2
    <3> QED
      BY <2>2, <3>1, <3>2 DEF RequestInv, Queued
  <2> QED
    BY <2>1, <2>2 DEF Queued
<1>7. ASSUME NEW v \in Worker, v # w, UNCHANGED <<pc[v], cur[v]>>, pc[v] \in MsgPC
      PROVE  Handled(v)'
  <2>1. /\ cur[v].m \in Msg /\ From[cur[v].m] = cur[v].s /\ WorkerOf[cur[v].s] = v
        /\ fate[cur[v].m] = "handling"
    BY <1>7 DEF TInv, CurOK, RequestInv, Handled, MsgPC
  <2>2. cur[v].m # h /\ (h # None => From[h] # cur[v].s)
    BY <1>1, <1>2, <1>q, <1>7, <1>f, <2>1, SMTT(30)
  <2>3. fate'[cur[v].m] = "handling"
    BY <2>1, <2>2
  <2> QED
    BY <1>3, <1>7, <2>2, <2>3 DEF RequestInv, Handled
<1>8. \A v \in Worker \ {w} : UNCHANGED <<pc[v], cur[v]>> => Handled(v)'
  BY <1>7 DEF Handled
<1>9. h # None => \A k \in Msg : Begun(k)' /\ From[k] = Head(queue[w]).s => k <= h
  BY <1>1, <1>2, <1>3, <1>f
<1> QED
  BY <1>4, <1>5, <1>6, <1>8, <1>9

(* Every step keeps RequestInv. *)
LEMMA RequestStep == TInv /\ RequestInv /\ [Next]_vars => RequestInv'
<1> SUFFICES ASSUME TInv, RequestInv, [Next]_vars PROVE RequestInv'
  OBVIOUS
<1> USE DEF sessVars, redisVars, hostVars, workVars, histVars
<1>t. SessionTypes /\ WorkerTypes /\ SharedTypes /\ HistoryTypes /\ CurOK
  BY DEF TInv, TypeOK
<1>q. ASSUME NEW v \in Worker
      PROVE  /\ queue[v] \in Seq(Request) /\ Len(queue[v]) \in Nat
             /\ \A i \in 1 .. Len(queue[v]) :
                  /\ queue[v][i].s \in Session /\ WorkerOf[queue[v][i].s] = v
                  /\ queue[v][i].m # None =>
                       /\ queue[v][i].m \in Msg
                       /\ From[queue[v][i].m] = queue[v][i].s
  BY QueuedRequests
<1>f. \A k \in Msg : k \in Nat /\ k # None /\ From[k] \in Session
  BY DeliveryAssumption
(* Steps of sessions and of workers in the middle of a request.            *)
<1>1. CASE \/ \E s \in Session :
                Connect(s) \/ Disconnect(s) \/ BadFrame(s) \/ ClearStep(s)
           \/ \E srv \in Server : Restart(srv)
           \/ UNCHANGED vars
  <2>1. UNCHANGED <<fate, queue, pc, cur>>
    BY <1>1 DEF Connect, Disconnect, BadFrame, EndSession, ClearStep, ClearLookup,
                RmvUserSession, ClearCheck, ClearUnlist, Restart, vars
  <2> QED
    BY <2>1, RequestKept
<1>2. ASSUME NEW w \in Worker,
             \/ LoginDrain(w) \/ LoginBind(w) \/ AddOnlineServer(w)
             \/ SetUserSession(w) \/ LoginRespond(w)
      PROVE  RequestInv'
  <2>1. /\ UNCHANGED <<fate, queue>> /\ pc'[w] \notin MsgPC
        /\ \A v \in Worker \ {w} : pc'[v] = pc[v] /\ cur'[v] = cur[v]
    BY <1>2, <1>t DEF LoginDrain, LoginBind, AddOnlineServer, SetUserSession,
                      LoginRespond, Goto, Return, WorkerTypes, MsgPC
  <2> QED
    BY <2>1, RequestKept
<1>3. ASSUME NEW w \in Worker,
             \/ \E u \in User : GetOnlineServers(w, u)
             \/ NotifyLocal(w) \/ FindNoneLocal(w) \/ UnlistLocal(w)
             \/ \E srv \in Server : NotifyRemote(w, srv)
             \/ FanoutDone(w) \/ SaveOfflineTextMsg(w)
      PROVE  RequestInv'
  <2>1. /\ UNCHANGED <<fate, queue, cur>> /\ pc[w] \in MsgPC
        /\ \A v \in Worker \ {w} : pc'[v] = pc[v]
    BY <1>3, <1>t DEF GetOnlineServers, NotifyLocal, FindNoneLocal, UnlistLocal,
                      NotifyRemote, FanoutDone, SaveOfflineTextMsg, Goto,
                      WorkerTypes, MsgPC
  <2> QED
    BY <2>1, RequestKept
<1>4. ASSUME NEW s \in Session, SendLogin(s)
      PROVE  RequestInv'
  <2> DEFINE w == WorkerOf[s]
             r == [s |-> s, m |-> None]
  <2>1. w \in Worker /\ r \in Request /\ r.m = None
    BY DeliveryAssumption DEF Request
  <2>2. /\ UNCHANGED <<fate, pc, cur>>
        /\ queue'[w] = Append(queue[w], r)
        /\ \A v \in Worker \ {w} : queue'[v] = queue[v]
    BY <1>4, <1>t, <2>1 DEF SendLogin, PostMsgToQue, WorkerTypes
  <2> HIDE DEF r, w
  <2>3. /\ Len(queue'[w]) = Len(queue[w]) + 1
        /\ \A i \in 1 .. Len(queue[w]) : queue'[w][i] = queue[w][i]
        /\ queue'[w][Len(queue[w]) + 1] = r
    BY <1>q, <2>1, <2>2, AppendElements
  <2>4. \A i \in 1 .. Len(queue'[w]) : queue'[w][i].m # None =>
          i \in 1 .. Len(queue[w])
    BY <1>q, <2>1, <2>3
  <2>5. Queued(w)'
    BY <1>q, <2>1, <2>2, <2>3, <2>4, SMTT(30) DEF RequestInv, Queued, Begun
  <2>6. \A v \in Worker : Handled(v)' /\ (v # w => Queued(v)')
    BY <2>2 DEF RequestInv, Queued, Handled, Begun
  <2> QED
    BY <2>2, <2>5, <2>6 DEF RequestInv, SentInOrder
<1>5. ASSUME NEW m \in Msg, SendMsg(m)
      PROVE  RequestInv'
  <2> DEFINE w == WorkerOf[From[m]]
             r == [s |-> From[m], m |-> m]
  <2>1. w \in Worker /\ r \in Request /\ r.m = m /\ r.s = From[m] /\ From[m] \in Session
    BY DeliveryAssumption DEF Request
  <2>2. /\ UNCHANGED <<pc, cur>> /\ fate[m] = "unsent" /\ fate'[m] = "queued"
        /\ \A k \in Msg \ {m} : fate'[k] = fate[k]
        /\ \A k \in Msg : From[k] = From[m] /\ k < m => fate[k] # "unsent"
        /\ queue'[w] = Append(queue[w], r)
        /\ \A v \in Worker \ {w} : queue'[v] = queue[v]
    BY <1>5, <1>t, <2>1 DEF SendMsg, PostMsgToQue, WorkerTypes, HistoryTypes
  <2> HIDE DEF r, w
  <2>3. /\ Len(queue'[w]) = Len(queue[w]) + 1
        /\ \A i \in 1 .. Len(queue[w]) : queue'[w][i] = queue[w][i]
        /\ queue'[w][Len(queue[w]) + 1] = r
    BY <1>q, <2>1, <2>2, AppendElements
  (* What the session has sent before comes before.                        *)
  <2>4. \A k \in Msg : From[k] = From[m] /\ fate[k] # "unsent" => k < m
    <3>1. \A k \in Msg : From[k] = From[m] /\ m < k => fate[k] = "unsent"
      BY <2>2 DEF RequestInv, SentInOrder
    <3> QED
      BY <1>f, <2>2, <3>1
  <2>5. \A k \in Msg : Begun(k)' <=> Begun(k)
    BY <2>2 DEF Begun
  <2>6. SentInOrder'
    BY <1>f, <2>2, <2>4 DEF RequestInv, SentInOrder
  <2>7. ASSUME NEW v \in Worker, NEW i \in 1 .. Len(queue[v]), queue[v][i].m # None
        PROVE  /\ fate'[queue[v][i].m] = "queued"
               /\ \A k \in Msg : Begun(k)' /\ From[k] = queue[v][i].s
                                => k < queue[v][i].m
    <3>1. queue[v][i].m \in Msg /\ fate[queue[v][i].m] = "queued"
      BY <1>q, <2>7 DEF RequestInv, Queued
    <3> QED
      BY <2>2, <2>5, <2>7, <3>1 DEF RequestInv, Queued
  <2>8. ASSUME NEW v \in Worker, v # w
        PROVE  Queued(v)'
    <3>1. queue'[v] = queue[v] /\ Queued(v)
      BY <2>2, <2>8 DEF RequestInv
    <3> QED
      BY <2>7, <3>1 DEF Queued
  <2>9. Queued(w)'
    <3>1. ASSUME NEW i \in 1 .. Len(queue'[w]), queue'[w][i].m # None
          PROVE  /\ fate'[queue'[w][i].m] = "queued"
                 /\ \A k \in Msg : Begun(k)' /\ From[k] = queue'[w][i].s
                                  => k < queue'[w][i].m
      <4>1. CASE i \in 1 .. Len(queue[w])
        BY <2>1, <2>3, <2>7, <3>1, <4>1
      <4>2. CASE i = Len(queue[w]) + 1
        BY <2>1, <2>2, <2>3, <2>4, <2>5, <4>2 DEF Begun
      <4> QED
        BY <1>q, <2>1, <2>3, <4>1, <4>2
    <3>2. ASSUME NEW i \in 1 .. Len(queue'[w]), NEW j \in 1 .. Len(queue'[w]), i < j,
                 queue'[w][i].m # None, queue'[w][j].m # None,
                 queue'[w][j].s = queue'[w][i].s
          PROVE  queue'[w][i].m < queue'[w][j].m
      <4>1. i \in 1 .. Len(queue[w]) /\ queue'[w][i] = queue[w][i]
        BY <1>q, <2>1, <2>3, <3>2
      <4>2. CASE j \in 1 .. Len(queue[w])
        BY <2>1, <2>3, <3>2, <4>1, <4>2 DEF RequestInv, Queued
      <4>3. CASE j = Len(queue[w]) + 1
        <5>1. queue[w][i].m \in Msg /\ From[queue[w][i].m] = From[m]
          BY <1>q, <2>1, <2>3, <3>2, <4>1, <4>3
        <5>2. fate[queue[w][i].m] = "queued"
          BY <2>1, <3>2, <4>1 DEF RequestInv, Queued
        <5> QED
          BY <2>1, <2>3, <2>4, <4>1, <4>3, <5>1, <5>2
      <4> QED
        BY <1>q, <2>1, <2>3, <4>2, <4>3
    <3> QED
      BY <3>1, <3>2 DEF Queued
  <2>10. ASSUME NEW v \in Worker
         PROVE  Handled(v)'
    <3>1. pc[v] \in MsgPC => cur[v].m \in Msg /\ fate[cur[v].m] = "handling"
      BY <1>t DEF CurOK, RequestInv, Handled
    <3> QED
      BY <2>2, <2>5, <3>1 DEF RequestInv, Handled
  <2> QED
    BY <2>6, <2>8, <2>9, <2>10 DEF RequestInv
<1>6. ASSUME NEW w \in Worker, LoginBegin(w) \/ LoginReject(w)
      PROVE  RequestInv'
  <2>1. /\ queue[w] # <<>> /\ queue' = [queue EXCEPT ![w] = Tail(@)]
        /\ Head(queue[w]).m = None /\ fate' = fate
    BY <1>6 DEF LoginBegin, LoginReject, DealMsg
  <2>2. /\ pc'[w] \notin MsgPC
        /\ \A v \in Worker \ {w} : UNCHANGED <<pc[v], cur[v]>>
    BY <1>6, <1>t DEF LoginBegin, LoginReject, DealMsg, WorkerTypes, MsgPC
  <2>3. /\ SentInOrder' /\ \A v \in Worker : Queued(v)'
        /\ \A v \in Worker \ {w} : Handled(v)'
    BY <2>1, <2>2, MovesUp
  <2> QED
    BY <2>2, <2>3 DEF RequestInv, Handled
<1>7. ASSUME NEW w \in Worker, MsgBegin(w) \/ MsgRefuse(w)
      PROVE  RequestInv'
  <2> DEFINE h == Head(queue[w]).m
  <2>1. /\ queue[w] # <<>> /\ queue' = [queue EXCEPT ![w] = Tail(@)]
        /\ h # None
    BY <1>7 DEF MsgBegin, MsgRefuse, DealMsg
  <2>2. h \in Msg
    <3>1. Head(queue[w]) = queue[w][1] /\ 1 \in 1 .. Len(queue[w])
      BY <2>1, Taken
    <3> QED
      BY <1>q, <2>1, <3>1
  <2>3. /\ \A k \in Msg \ {h} : fate'[k] = fate[k]
        /\ fate'[h] = IF pc'[w] = "lookup" THEN "handling" ELSE "refused"
        /\ \/ pc'[w] = "lookup" /\ cur'[w] = Head(queue[w])
           \/ pc'[w] = "idle"
        /\ \A v \in Worker \ {w} : UNCHANGED <<pc[v], cur[v]>>
    BY <1>7, <1>t, <2>2 DEF MsgBegin, MsgRefuse, DealMsg, WorkerTypes, HistoryTypes
  <2>4. /\ SentInOrder' /\ \A v \in Worker : Queued(v)'
        /\ \A v \in Worker \ {w} : Handled(v)'
        /\ \A k \in Msg : Begun(k)' /\ From[k] = Head(queue[w]).s => k <= h
    <3> HIDE DEF h
    <3>1. h = Head(queue[w]).m
      BY DEF h
    <3>2. fate'[h] \notin {"unsent", "queued"}
      BY <2>3
    <3> QED
      BY <2>1, <2>2, <2>3, <3>1, <3>2, MovesUp
  <2>5. Handled(w)'
    BY <2>3, <2>4 DEF Handled, MsgPC
  <2> QED
    BY <2>4, <2>5 DEF RequestInv
<1>8. ASSUME NEW w \in Worker, MsgEnd(w)
      PROVE  RequestInv'
  <2>1. cur[w].m \in Msg /\ fate[cur[w].m] = "handling"
    BY <1>8, <1>t DEF MsgEnd, CurOK, MsgPC, RequestInv, Handled
  <2>2. /\ queue' = queue /\ pc'[w] = "idle" /\ fate'[cur[w].m] = "done"
        /\ \A k \in Msg \ {cur[w].m} : fate'[k] = fate[k]
        /\ \A v \in Worker \ {w} : pc'[v] = pc[v] /\ cur'[v] = cur[v]
    BY <1>8, <1>t, <2>1 DEF MsgEnd, Return, Goto, WorkerTypes, HistoryTypes
  <2>3. \A k \in Msg : Begun(k)' <=> Begun(k)
    BY <2>1, <2>2 DEF Begun
  <2>4. SentInOrder'
    BY <2>1, <2>2 DEF RequestInv, SentInOrder
  <2>5. ASSUME NEW v \in Worker
        PROVE  Queued(v)'
    <3>1. \A i \in 1 .. Len(queue[v]) : queue[v][i].m # None =>
            fate'[queue[v][i].m] = "queued"
      BY <1>q, <2>1, <2>2 DEF RequestInv, Queued
    <3> QED
      BY <2>2, <2>3, <3>1 DEF RequestInv, Queued
  <2>6. ASSUME NEW v \in Worker, v # w, pc[v] \in MsgPC
        PROVE  Handled(v)'
    <3>1. /\ cur[v].m \in Msg /\ From[cur[v].m] = cur[v].s /\ WorkerOf[cur[v].s] = v
          /\ fate[cur[v].m] = "handling"
      BY <2>6, <1>t DEF CurOK, RequestInv, Handled, MsgPC
    <3>2. WorkerOf[From[cur[w].m]] = w
      BY <1>8, <1>t DEF CurOK, MsgEnd, MsgPC
    <3>3. fate'[cur[v].m] = "handling"
      BY <2>2, <2>6, <3>1, <3>2
    <3> QED
      BY <2>2, <2>3, <2>6, <3>3 DEF RequestInv, Handled
  <2> QED
    BY <2>2, <2>4, <2>5, <2>6 DEF RequestInv, Handled, MsgPC
<1>9. ASSUME NEW srv \in Server, Crash(srv)
      PROVE  RequestInv'
  <2>1. /\ \A v \in Worker : ServerOf[v] = srv => queue'[v] = <<>> /\ pc'[v] = "idle"
        /\ \A v \in Worker : ServerOf[v] # srv =>
             queue'[v] = queue[v] /\ pc'[v] = pc[v] /\ cur'[v] = cur[v]
    BY <1>9, <1>t DEF Crash, WorkerTypes
  <2>2. /\ \A k \in Msg : Home(From[k]) # srv => fate'[k] = fate[k]
        /\ \A k \in Msg : fate'[k] = "unsent" <=> fate[k] = "unsent"
        /\ \A k \in Msg : Home(From[k]) # srv => (Begun(k)' <=> Begun(k))
    BY <1>9, <1>t DEF Crash, HistoryTypes, Begun
  <2>3. SentInOrder'
    BY <2>2 DEF RequestInv, SentInOrder
  <2>4. ASSUME NEW v \in Worker
        PROVE  Queued(v)'
    <3>1. CASE ServerOf[v] = srv
      BY <2>1, <3>1 DEF Queued
    <3>2. CASE ServerOf[v] # srv
      <4>1. \A i \in 1 .. Len(queue[v]) :
              /\ Home(queue[v][i].s) # srv
              /\ queue[v][i].m # None =>
                   /\ fate'[queue[v][i].m] = "queued"
                   /\ \A k \in Msg : From[k] = queue[v][i].s => (Begun(k)' <=> Begun(k))
        BY <1>q, <2>2, <3>2 DEF Home, RequestInv, Queued
      <4> QED
        BY <2>1, <3>2, <4>1 DEF RequestInv, Queued
    <3> QED
      BY <3>1, <3>2
  <2>5. ASSUME NEW v \in Worker
        PROVE  Handled(v)'
    <3>1. CASE ServerOf[v] = srv \/ pc[v] \notin MsgPC
      BY <2>1, <3>1 DEF Handled, MsgPC
    <3>2. CASE ServerOf[v] # srv /\ pc[v] \in MsgPC
      <4>1. /\ cur[v].m \in Msg /\ From[cur[v].m] = cur[v].s /\ Home(cur[v].s) # srv
            /\ fate[cur[v].m] = "handling"
        BY <1>t, <3>2 DEF CurOK, RequestInv, Handled, MsgPC, Home
      <4> QED
        BY <2>1, <2>2, <3>2, <4>1 DEF RequestInv, Handled
    <3> QED
      BY <3>1, <3>2
  <2> QED
    BY <2>3, <2>4, <2>5 DEF RequestInv
<1> QED
  BY <1>1, <1>2, <1>3, <1>4, <1>5, <1>6, <1>7, <1>8, <1>9
  DEF Next, ClientStep, WorkerStep

-----------------------------------------------------------------------------
(* DuplicateOnlyIfDoubtful.                                                *)

(* Only a message that was begun has reached anyone.                       *)
ReachedInv ==
  /\ \A s \in Session, m \in Msg : Got(s, m) => Begun(m)
  /\ \A m \in Msg, u \in User : <<m, u>> \in stored => Begun(m)

(* Whom the message in a worker's hands has reached.                       *)
Reach(w) ==
  pc[w] \in MsgPC =>
    /\ \A s \in Session : Got(s, cur[w].m) =>
         /\ UserOf[s] \notin rest[w]
         /\ pc[w] \in PeerPC /\ UserOf[s] = peer[w] =>
              /\ Home(s) \notin todo[w]
              /\ delivered[w] \/ <<cur[w].m, peer[w]>> \in doubtful
    /\ \A u \in User : <<cur[w].m, u>> \in stored =>
         u \notin rest[w] /\ (pc[w] \in PeerPC => u # peer[w])
    /\ pc[w] \in PeerPC => peer[w] \notin rest[w]
    /\ pc[w] = "store" => ~delivered[w]

ReachInv == ReachedInv /\ DuplicateOnlyIfDoubtful /\ \A w \in Worker : Reach(w)

LEMMA InitReach == Init => ReachInv
<1> SUFFICES ASSUME Init PROVE ReachInv
  OBVIOUS
<1>1. \A s \in Session, m \in Msg : ~Got(s, m)
  BY DEF Init, Got
<1> QED
  BY <1>1 DEF Init, ReachInv, ReachedInv, DuplicateOnlyIfDoubtful, Reach, MsgPC

(* Notify gives m to the sessions of u on srv, and nothing to others.      *)
LEMMA NotifyReaches ==
  ASSUME TInv, NEW m \in Msg, NEW u, NEW srv, Notify(m, u, srv)
  PROVE  \A s \in Session, k \in Msg :
           Got(s, k)' <=> Got(s, k) \/ (k = m /\ s \in SessionsOf(u, srv))
<1> SUFFICES ASSUME NEW s \in Session, NEW k \in Msg
             PROVE  Got(s, k)' <=> Got(s, k) \/ (k = m /\ s \in SessionsOf(u, srv))
  OBVIOUS
<1>1. handed[s] \in Seq(Msg)
  BY DEF TInv, TypeOK, HistoryTypes
<1>2. handed'[s] = IF s \in SessionsOf(u, srv) THEN Append(handed[s], m) ELSE handed[s]
  BY DEF Notify
<1>3. /\ Len(handed[s]) \in Nat /\ DOMAIN handed[s] = 1 .. Len(handed[s])
      /\ DOMAIN Append(handed[s], m) = 1 .. Len(handed[s]) + 1
      /\ \A i \in 1 .. Len(handed[s]) : Append(handed[s], m)[i] = handed[s][i]
      /\ Append(handed[s], m)[Len(handed[s]) + 1] = m
  BY <1>1
<1>4. CASE s \in SessionsOf(u, srv)
  <2>1. handed'[s] = Append(handed[s], m)
    BY <1>2, <1>4
  <2>2. Len(handed[s]) + 1 \in DOMAIN handed'[s] /\ handed'[s][Len(handed[s]) + 1] = m
    BY <1>3, <2>1
  <2>3. ASSUME Got(s, k) PROVE Got(s, k)'
    <3>1. PICK i \in 1 .. Len(handed[s]) : handed[s][i] = k
      BY <1>3, <2>3 DEF Got
    <3>2. i \in DOMAIN handed'[s] /\ handed'[s][i] = k
      BY <1>3, <2>1, <3>1
    <3> QED
      BY <3>2 DEF Got
  <2>4. ASSUME Got(s, k)', k # m PROVE Got(s, k)
    <3>1. PICK i \in DOMAIN handed'[s] : handed'[s][i] = k
      BY <2>4 DEF Got
    <3>2. i \in 1 .. Len(handed[s]) /\ handed[s][i] = k
      BY <1>3, <2>1, <2>4, <3>1
    <3> QED
      BY <1>3, <3>2 DEF Got
  <2>5. Got(s, m)'
    BY <2>2 DEF Got
  <2> QED
    BY <1>4, <2>3, <2>4, <2>5
<1>5. CASE s \notin SessionsOf(u, srv)
  BY <1>2, <1>5 DEF Got
<1> QED
  BY <1>4, <1>5

(* The part of a worker's state that Reach is about. *)
Still(w) == /\ UNCHANGED <<pc[w], cur[w], rest[w], peer[w], delivered[w]>>
            /\ todo'[w] \subseteq todo[w]

(* Steps that reach nobody.                                                *)
LEMMA ReachKept ==
  ASSUME ReachInv, UNCHANGED <<handed, stored, doubtful>>,
         \A k \in Msg : Begun(k) => Begun(k)',
         \A w \in Worker : Still(w) \/ Reach(w)'
  PROVE  ReachInv'
<1>1. ASSUME NEW w \in Worker, Still(w)
      PROVE  Reach(w)'
  BY <1>1 DEF ReachInv, Reach, Still, Got
<1>2. ReachedInv' /\ DuplicateOnlyIfDoubtful'
  BY DEF ReachInv, ReachedInv, DuplicateOnlyIfDoubtful, Got
<1> QED
  BY <1>1, <1>2 DEF ReachInv

(* Workers have different messages in their hands.                         *)
LEMMA OwnMessage ==
  ASSUME TInv, NEW w \in Worker, pc[w] \in MsgPC
  PROVE  /\ cur[w].m \in Msg
         /\ \A v \in Worker \ {w} : pc[v] \in MsgPC =>
              cur[v].m \in Msg /\ cur[v].m # cur[w].m
BY DEF TInv, CurOK, MsgPC

(* A notification, if its call is carried out.                             *)
LEMMA NotifyStep ==
  ASSUME TInv, RequestInv, ReachInv, NEW w \in Worker, NEW srv \in Server,
         pc[w] = "fanout", srv \in todo[w], Notify(cur[w].m, peer[w], srv),
         UNCHANGED <<fate, stored, pc, cur, rest, peer>>,
         todo' = [todo EXCEPT ![w] = @ \ {srv}],
         \A v \in Worker \ {w} : delivered'[v] = delivered[v],
         delivered[w] => delivered'[w], doubtful \subseteq doubtful',
         SessionsOf(peer[w], srv) # {} =>
           delivered'[w] \/ <<cur[w].m, peer[w]>> \in doubtful'
  PROVE  ReachInv'
<1> DEFINE m == cur[w].m
           u == peer[w]
<1>1. m \in Msg /\ u \in User /\ pc[w] \in MsgPC /\ pc[w] \in PeerPC
  BY DEF TInv, CurOK, MsgPC, PeerPC
<1>2. \A s \in Session, k \in Msg :
        Got(s, k)' <=> Got(s, k) \/ (k = m /\ s \in SessionsOf(u, srv))
  BY <1>1, NotifyReaches
<1>3. \A s \in SessionsOf(u, srv) : s \in Session /\ UserOf[s] = u /\ Home(s) = srv
  BY DEF SessionsOf, TInv, TypeOK, SessionTypes
<1>4. fate[m] = "handling" /\ <<m, u>> \notin stored /\ u \notin rest[w]
  BY <1>1 DEF RequestInv, Handled, ReachInv, Reach
<1>5. todo'[w] = todo[w] \ {srv} /\ \A v \in Worker \ {w} : todo'[v] = todo[v]
  BY DEF TInv, TypeOK, WorkerTypes
<1>6. ReachedInv'
  BY <1>2, <1>4 DEF ReachInv, ReachedInv, Begun
<1>7. DuplicateOnlyIfDoubtful'
  BY <1>2, <1>3, <1>4 DEF ReachInv, DuplicateOnlyIfDoubtful
<1>8. ASSUME NEW v \in Worker, v # w, pc[v] \in MsgPC
      PROVE  Reach(v)'
  <2>1. cur[v].m \in Msg /\ cur[v].m # m
    BY <1>1, <1>8, OwnMessage
  <2>2. \A s \in Session : Got(s, cur[v].m)' => Got(s, cur[v].m)
    BY <1>2, <2>1
  <2>3. Reach(v) /\ cur'[v] = cur[v]
    BY DEF ReachInv
  <2> QED
    BY <1>5, <1>8, <2>2, <2>3 DEF Reach, Got
<1>9. Reach(w)'
  <2>1. ASSUME NEW s \in Session, Got(s, m)'
        PROVE  /\ UserOf[s] \notin rest[w]
               /\ UserOf[s] = u =>
                    /\ Home(s) \notin todo'[w]
                    /\ delivered'[w] \/ <<m, u>> \in doubtful'
    <3>1. CASE Got(s, m)
      BY <1>1, <1>5, <3>1 DEF ReachInv, Reach
    <3>2. CASE s \in SessionsOf(u, srv)
      BY <1>3, <1>4, <1>5, <3>2
    <3> QED
      BY <1>1, <1>2, <2>1, <3>1, <3>2
  <2>2. \A s \in Session : Got(s, cur[w].m)' =>
               /\ UserOf[s] \notin rest'[w]
               /\ UserOf[s] = peer'[w] =>
                    /\ Home(s) \notin todo'[w]
                    /\ delivered'[w] \/ <<cur'[w].m, peer'[w]>> \in doubtful'
    BY <2>1
  <2> QED
    BY <1>1, <2>2 DEF ReachInv, Reach, Got
<1>10. \A v \in Worker : Reach(v)'
  BY <1>8, <1>9 DEF Reach
<1> QED
  BY <1>6, <1>7, <1>10 DEF ReachInv

(* Every step keeps ReachInv. *)
LEMMA ReachStep == TInv /\ RequestInv /\ ReachInv /\ [Next]_vars => ReachInv'
<1> SUFFICES ASSUME TInv, RequestInv, ReachInv, [Next]_vars PROVE ReachInv'
  OBVIOUS
<1> USE DEF sessVars, redisVars, hostVars, workVars, histVars
<1>t. SessionTypes /\ WorkerTypes /\ SharedTypes /\ HistoryTypes /\ CurOK
  BY DEF TInv, TypeOK
<1>1. CASE \/ \E s \in Session : ClientStep(s) \/ ClearStep(s)
           \/ \E m \in Msg : SendMsg(m)
           \/ \E srv \in Server : Restart(srv)
           \/ UNCHANGED vars
  <2>1. /\ UNCHANGED <<workVars, handed, stored, doubtful>>
        /\ \A k \in Msg : fate'[k] = fate[k] \/ fate[k] = "unsent"
    BY <1>1, <1>t DEF ClientStep, Connect, SendLogin, Disconnect, BadFrame, EndSession,
                ClearStep, ClearLookup, RmvUserSession, ClearCheck, ClearUnlist,
                SendMsg, Restart, vars, HistoryTypes
  <2> QED
    BY <2>1, ReachKept DEF Still, Begun
<1>2. ASSUME NEW w \in Worker,
             \/ LoginBegin(w) \/ LoginReject(w) \/ LoginDrain(w) \/ LoginBind(w)
             \/ AddOnlineServer(w) \/ SetUserSession(w) \/ LoginRespond(w)
      PROVE  ReachInv'
  <2>1. /\ UNCHANGED <<fate, handed, stored, doubtful, rest, peer, todo, delivered>>
        /\ pc'[w] \notin MsgPC
        /\ \A v \in Worker \ {w} : UNCHANGED <<pc[v], cur[v]>>
    BY <1>2, <1>t DEF LoginBegin, LoginReject, LoginDrain, LoginBind, AddOnlineServer,
                      SetUserSession, LoginRespond, DealMsg, Goto, Return, WorkerTypes,
                      MsgPC
  <2>2. Reach(w)'
    BY <2>1 DEF Reach
  <2> QED
    BY <2>1, <2>2, ReachKept DEF Still, Begun
<1>3. ASSUME NEW w \in Worker, MsgBegin(w) \/ MsgRefuse(w)
      PROVE  ReachInv'
  <2> DEFINE h == Head(queue[w]).m
  <2>1. queue[w] # <<>> /\ h # None /\ queue' = [queue EXCEPT ![w] = Tail(@)]
    BY <1>3 DEF MsgBegin, MsgRefuse, DealMsg
  <2>2. h \in Msg /\ fate[h] = "queued"
    <3>1. Head(queue[w]) = queue[w][1] /\ 1 \in 1 .. Len(queue[w])
      BY <2>1, Taken
    <3>2. h \in Msg
      BY <2>1, <3>1, QueuedRequests
    <3> QED
      BY <2>1, <3>1, <3>2 DEF RequestInv, Queued
  <2>3. /\ UNCHANGED <<handed, stored, doubtful, peer, todo, delivered>>
        /\ \A k \in Msg \ {h} : fate'[k] = fate[k]
        /\ fate'[h] \in {"handling", "refused"}
        /\ \/ pc'[w] = "lookup" /\ cur'[w] = Head(queue[w])
           \/ pc'[w] = "idle"
        /\ \A v \in Worker \ {w} : UNCHANGED <<pc[v], cur[v], rest[v]>>
    BY <1>3, <1>t, <2>2 DEF MsgBegin, MsgRefuse, DealMsg, WorkerTypes, HistoryTypes
  <2>4. /\ \A s \in Session : ~Got(s, h)
        /\ \A u \in User : <<h, u>> \notin stored
    BY <2>2 DEF ReachInv, ReachedInv, Begun
  <2>5. Reach(w)'
    BY <2>3, <2>4 DEF Reach, Got, MsgPC, PeerPC
  <2>6. \A k \in Msg : Begun(k) => Begun(k)'
    BY <2>3 DEF Begun
  <2> QED
    BY <2>3, <2>5, <2>6, ReachKept DEF Still
<1>4. ASSUME NEW w \in Worker, NEW u \in User, GetOnlineServers(w, u)
      PROVE  ReachInv'
  <2>1. /\ UNCHANGED <<fate, handed, stored, doubtful, cur>>
        /\ pc[w] = "lookup" /\ pc'[w] = "fanout" /\ peer'[w] = u
        /\ u \in rest[w] /\ rest'[w] = rest[w] \ {u}
        /\ \A v \in Worker \ {w} :
             UNCHANGED <<pc[v], rest[v], peer[v], todo[v], delivered[v]>>
    BY <1>4, <1>t DEF GetOnlineServers, Goto, WorkerTypes
  <2>2. Reach(w)'
    BY <2>1 DEF ReachInv, Reach, Got, MsgPC, PeerPC
  <2> QED
    BY <2>1, <2>2, ReachKept DEF Still, Begun
<1>5. ASSUME NEW w \in Worker, NotifyLocal(w)
      PROVE  ReachInv'
  <2>1. /\ pc[w] = "fanout" /\ ServerOf[w] \in todo[w] /\ ServerOf[w] \in Server
        /\ Notify(cur[w].m, peer[w], ServerOf[w])
        /\ UNCHANGED <<fate, stored, doubtful, pc, cur, rest, peer>>
        /\ todo' = [todo EXCEPT ![w] = @ \ {ServerOf[w]}]
        /\ delivered'[w] /\ \A v \in Worker \ {w} : delivered'[v] = delivered[v]
    BY <1>5, <1>t, DeliveryAssumption DEF NotifyLocal, Tried, WorkerTypes
  <2> QED
    BY <2>1, NotifyStep
<1>6. ASSUME NEW w \in Worker, NEW srv \in Server, NotifyRemote(w, srv)
      PROVE  ReachInv'
  <2>1. /\ pc[w] = "fanout" /\ srv \in todo[w]
        /\ UNCHANGED <<fate, stored, pc, cur, rest, peer>>
        /\ todo' = [todo EXCEPT ![w] = @ \ {srv}]
    BY <1>6 DEF NotifyRemote, Tried
  <2>2. CASE UNCHANGED <<handed, doubtful, delivered>>
    <3>1. \A v \in Worker : todo'[v] \subseteq todo[v]
      BY <1>t, <2>1 DEF WorkerTypes
    <3> QED
      BY <2>1, <2>2, <3>1, ReachKept DEF Still, Begun
  <2>3. CASE /\ Notify(cur[w].m, peer[w], srv)
             /\ delivered' = [delivered EXCEPT ![w] = @ \/ RepliesSuccess(peer[w], srv)]
             /\ UNCHANGED doubtful
    <3>1. /\ delivered[w] => delivered'[w]
          /\ SessionsOf(peer[w], srv) # {} => delivered'[w]
          /\ \A v \in Worker \ {w} : delivered'[v] = delivered[v]
      BY <1>t, <2>3 DEF WorkerTypes, RepliesSuccess
    <3> QED
      BY <2>1, <2>3, <3>1, NotifyStep
  <2>4. CASE /\ Notify(cur[w].m, peer[w], srv)
             /\ doubtful' = doubtful \cup {<<cur[w].m, peer[w]>>}
             /\ UNCHANGED delivered
    <3>1. doubtful \subseteq doubtful' /\ <<cur[w].m, peer[w]>> \in doubtful'
      BY <2>4
    <3> QED
      BY <2>1, <2>4, <3>1, NotifyStep
  <2> QED
    BY <1>6, <2>2, <2>3, <2>4 DEF NotifyRemote
<1>7. ASSUME NEW w \in Worker, FindNoneLocal(w) \/ UnlistLocal(w) \/ FanoutDone(w)
      PROVE  ReachInv'
  <2>1. /\ UNCHANGED <<fate, handed, stored, doubtful, cur, rest, peer, delivered>>
        /\ pc[w] \in PeerPC
        /\ \/ pc'[w] = "store" /\ ~delivered[w]
           \/ pc'[w] \in {"lookup", "fanout", "unlist"}
        /\ \A v \in Worker : todo'[v] \subseteq todo[v]
        /\ \A v \in Worker \ {w} : pc'[v] = pc[v]
    BY <1>7, <1>t DEF FindNoneLocal, UnlistLocal, FanoutDone, NeedsOffline, Tried, Goto,
                      WorkerTypes, PeerPC
  <2>2. Reach(w)'
    <3>1. pc[w] \in MsgPC
      BY <2>1 DEF MsgPC, PeerPC
    <3> QED
      BY <2>1, <3>1 DEF ReachInv, Reach, Got
  <2> QED
    BY <2>1, <2>2, ReachKept DEF Still, Begun
<1>8. ASSUME NEW w \in Worker, SaveOfflineTextMsg(w)
      PROVE  ReachInv'
  <2> DEFINE m == cur[w].m
             u == peer[w]
  <2>1. /\ UNCHANGED <<fate, handed, doubtful, cur, rest, peer, todo, delivered>>
        /\ stored' = stored \cup {<<m, u>>}
        /\ pc[w] = "store" /\ pc'[w] = "lookup"
        /\ \A v \in Worker \ {w} : pc'[v] = pc[v]
    BY <1>8, <1>t DEF SaveOfflineTextMsg, Goto, WorkerTypes
  <2>2. /\ m \in Msg /\ u \in User /\ pc[w] \in MsgPC /\ pc[w] \in PeerPC
        /\ fate[m] = "handling" /\ u \notin rest[w] /\ ~delivered[w]
    BY <1>t, <2>1 DEF CurOK, MsgPC, PeerPC, RequestInv, Handled, ReachInv, Reach
  <2>3. ReachedInv'
    BY <2>1, <2>2 DEF ReachInv, ReachedInv, Begun, Got
  <2>4. DuplicateOnlyIfDoubtful'
    <3>1. \A s \in Session : UserOf[s] = u /\ Got(s, m) => <<m, u>> \in doubtful
      BY <2>2 DEF ReachInv, Reach
    <3> HIDE DEF m, u
    <3> QED
      BY <2>1, <3>1 DEF ReachInv, DuplicateOnlyIfDoubtful, Got
  <2>5. ASSUME NEW v \in Worker, v # w, pc[v] \in MsgPC
        PROVE  Reach(v)'
    <3>1. cur[v].m \in Msg /\ cur[v].m # m
      BY <2>2, <2>5, OwnMessage
    <3>2. \A x \in User : <<cur[v].m, x>> \in stored' => <<cur[v].m, x>> \in stored
      BY <2>1, <3>1
    <3>3. Reach(v)
      BY DEF ReachInv
    <3> QED
      BY <2>1, <2>5, <3>2, <3>3 DEF Reach, Got
  <2>6. Reach(w)'
    BY <2>1, <2>2 DEF ReachInv, Reach, Got, MsgPC, PeerPC
  <2> QED
    BY <2>1, <2>3, <2>4, <2>5, <2>6 DEF ReachInv, Reach
<1>9. ASSUME NEW w \in Worker, MsgEnd(w)
      PROVE  ReachInv'
  <2>1. cur[w].m \in Msg
    BY <1>9, <1>t DEF MsgEnd, CurOK, MsgPC
  <2>2. /\ UNCHANGED <<handed, stored, doubtful, rest, todo>> /\ pc'[w] = "idle"
        /\ \A k \in Msg : fate'[k] = fate[k] \/ fate'[k] = "done"
        /\ \A v \in Worker \ {w} :
             UNCHANGED <<pc[v], cur[v], peer[v], delivered[v]>>
    BY <1>9, <1>t, <2>1 DEF MsgEnd, Return, Goto, WorkerTypes, HistoryTypes
  <2>3. Reach(w)'
    BY <2>2 DEF Reach, MsgPC
  <2>4. \A k \in Msg : Begun(k) => Begun(k)'
    BY <2>2 DEF Begun
  <2> QED
    BY <2>2, <2>3, <2>4, ReachKept DEF Still
<1>10. ASSUME NEW srv \in Server, Crash(srv)
       PROVE  ReachInv'
  <2>1. /\ UNCHANGED <<handed, stored, doubtful>>
        /\ \A k \in Msg : fate'[k] = fate[k] \/ fate'[k] = "lost"
        /\ \A v \in Worker :
             \/ pc'[v] = "idle"
             \/ UNCHANGED <<pc[v], cur[v], rest[v], peer[v], todo[v], delivered[v]>>
    BY <1>10, <1>t DEF Crash, WorkerTypes, HistoryTypes
  <2>2. \A k \in Msg : Begun(k) => Begun(k)'
    BY <2>1 DEF Begun
  <2>3. \A v \in Worker : Still(v) \/ Reach(v)'
    BY <2>1 DEF Still, Reach, MsgPC
  <2> QED
    BY <2>1, <2>2, <2>3, ReachKept
<1> QED
  BY <1>1, <1>2, <1>3, <1>4, <1>5, <1>6, <1>7, <1>8, <1>9, <1>10
  DEF Next, WorkerStep

(* However a handler's snapshot of the servers, failing calls and other    *)
(* handlers interleave, nobody gets a message live and again through his   *)
(* offline list unless a call took effect and its answer was lost          *)
(* (DealChatTextMsg, DeliverWrappedToMember).                              *)
THEOREM NoNeedlessDuplicate == Spec => []DuplicateOnlyIfDoubtful
<1> DEFINE Inv == TInv /\ RequestInv /\ ReachInv
<1>1. Init => Inv
  BY TInvInit, InitRequest, InitReach
<1>2. Inv /\ [Next]_vars => Inv'
  BY TInvStep, RequestStep, ReachStep
<1>3. Inv => DuplicateOnlyIfDoubtful
  BY DEF ReachInv
<1> QED
  BY <1>1, <1>2, <1>3, PTL DEF Spec

-----------------------------------------------------------------------------
(* A session logs in once.                                                 *)

(* A session whose login is queued or in progress has no response yet.     *)
LoggingIn(w) ==
  /\ \A i \in 1 .. Len(queue[w]) : queue[w][i].m = None =>
       /\ queue[w][i].s \in asked /\ fetched[queue[w][i].s] = <<>>
       /\ \A j \in 1 .. Len(queue[w]) :
            queue[w][j].m = None /\ queue[w][j].s = queue[w][i].s => j = i
  /\ pc[w] \in LoginPC =>
       /\ cur[w].s \in asked /\ fetched[cur[w].s] = <<>>
       /\ \A i \in 1 .. Len(queue[w]) :
            queue[w][i].m = None => queue[w][i].s # cur[w].s

LoginInv ==
  /\ \A s \in Session \ asked : fetched[s] = <<>>
  /\ \A w \in Worker : LoggingIn(w)

LEMMA InitLogin == Init => LoginInv
BY DEF Init, LoginInv, LoggingIn, LoginPC

(* Steps of other requests.                                                *)
LEMMA LoginKept ==
  ASSUME LoginInv, UNCHANGED <<asked, fetched, queue>>,
         \A w \in Worker : pc'[w] \in LoginPC => pc[w] \in LoginPC /\ cur'[w] = cur[w]
  PROVE  LoginInv'
BY DEF LoginInv, LoggingIn

(* The first request leaves a queue.                                       *)
LEMMA LoginTaken ==
  ASSUME TInv, LoginInv, NEW w \in Worker, queue[w] # <<>>,
         queue' = [queue EXCEPT ![w] = Tail(@)], UNCHANGED <<asked, fetched>>,
         \A v \in Worker \ {w} : UNCHANGED <<pc[v], cur[v]>>,
         pc[w] \notin LoginPC,
         pc'[w] \in LoginPC => cur'[w] = Head(queue[w]) /\ Head(queue[w]).m = None
  PROVE  LoginInv'
<1>1. /\ Head(queue[w]) = queue[w][1] /\ 1 \in 1 .. Len(queue[w])
      /\ Len(queue'[w]) \in Nat
      /\ \A v \in Worker \ {w} : queue'[v] = queue[v]
      /\ \A i \in 1 .. Len(queue'[w]) :
           /\ i + 1 \in 1 .. Len(queue[w]) /\ 1 < i + 1
           /\ queue'[w][i] = queue[w][i + 1]
  BY Taken
<1>2. \A v \in Worker \ {w} : LoggingIn(v)'
  BY <1>1 DEF LoginInv, LoggingIn
<1>3. ASSUME NEW i \in 1 .. Len(queue'[w]), queue'[w][i].m = None
      PROVE  /\ queue'[w][i].s \in asked /\ fetched[queue'[w][i].s] = <<>>
             /\ \A j \in 1 .. Len(queue'[w]) :
                  queue'[w][j].m = None /\ queue'[w][j].s = queue'[w][i].s => j = i
             /\ queue[w][1].m = None => queue'[w][i].s # queue[w][1].s
  <2>0. i \in Nat /\ i + 1 # 1
    BY <1>1
  <2>1. /\ i + 1 \in 1 .. Len(queue[w]) /\ queue[w][i + 1].m = None
        /\ queue'[w][i] = queue[w][i + 1]
    BY <1>1, <1>3
  <2>2. /\ queue[w][i + 1].s \in asked /\ fetched[queue[w][i + 1].s] = <<>>
        /\ \A j \in 1 .. Len(queue[w]) :
             queue[w][j].m = None /\ queue[w][j].s = queue[w][i + 1].s => j = i + 1
    BY <2>1 DEF LoginInv, LoggingIn
  <2>3. ASSUME NEW j \in 1 .. Len(queue'[w]), queue'[w][j].m = None,
               queue'[w][j].s = queue'[w][i].s
        PROVE  j = i
    <3>1. j + 1 \in 1 .. Len(queue[w]) /\ queue'[w][j] = queue[w][j + 1]
      BY <1>1
    <3>2. j + 1 = i + 1
      BY <2>1, <2>2, <2>3, <3>1
    <3> QED
      BY <1>1, <3>2
  <2> QED
    BY <1>1, <2>0, <2>1, <2>2, <2>3
<1>4. queue[w][1].m = None =>
        queue[w][1].s \in asked /\ fetched[queue[w][1].s] = <<>>
  BY <1>1 DEF LoginInv, LoggingIn
<1>5. LoggingIn(w)'
  <2>1. ASSUME pc'[w] \in LoginPC
        PROVE  /\ cur'[w].s \in asked /\ fetched[cur'[w].s] = <<>>
               /\ \A i \in 1 .. Len(queue'[w]) :
                    queue'[w][i].m = None => queue'[w][i].s # cur'[w].s
    <3>1. cur'[w] = queue[w][1] /\ queue[w][1].m = None
      BY <1>1, <2>1
    <3> QED
      BY <1>3, <1>4, <3>1, ZenonT(30)
  <2> QED
    BY <1>3, <2>1 DEF LoggingIn
<1> QED
  BY <1>2, <1>5 DEF LoginInv

(* Every step keeps LoginInv. *)
LEMMA LoginStep == TInv /\ LoginInv /\ [Next]_vars => LoginInv'
<1> SUFFICES ASSUME TInv, LoginInv, [Next]_vars PROVE LoginInv'
  OBVIOUS
<1> USE DEF sessVars, redisVars, hostVars, workVars, histVars
<1>t. SessionTypes /\ WorkerTypes /\ SharedTypes /\ HistoryTypes /\ CurOK
  BY DEF TInv, TypeOK
<1>q. ASSUME NEW v \in Worker
      PROVE  /\ queue[v] \in Seq(Request) /\ Len(queue[v]) \in Nat
             /\ \A i \in 1 .. Len(queue[v]) :
                  queue[v][i].s \in Session /\ WorkerOf[queue[v][i].s] = v
  BY QueuedRequests
<1>1. CASE \/ \E s \in Session :
                Connect(s) \/ Disconnect(s) \/ BadFrame(s) \/ ClearStep(s)
           \/ \E srv \in Server : Restart(srv)
           \/ UNCHANGED vars
  <2>1. UNCHANGED <<asked, fetched, queue, pc, cur>>
    BY <1>1 DEF Connect, Disconnect, BadFrame, EndSession, ClearStep, ClearLookup,
                RmvUserSession, ClearCheck, ClearUnlist, Restart, vars
  <2> QED
    BY <2>1, LoginKept
<1>2. ASSUME NEW w \in Worker,
             \/ LoginDrain(w) \/ LoginBind(w) \/ AddOnlineServer(w) \/ SetUserSession(w)
      PROVE  LoginInv'
  <2>1. /\ UNCHANGED <<asked, fetched, queue, cur>> /\ pc[w] \in LoginPC
        /\ \A v \in Worker \ {w} : pc'[v] = pc[v]
    BY <1>2, <1>t DEF LoginDrain, LoginBind, AddOnlineServer, SetUserSession, Goto,
                      WorkerTypes, LoginPC
  <2> QED
    BY <2>1, LoginKept
<1>3. ASSUME NEW w \in Worker,
             \/ \E u \in User : GetOnlineServers(w, u)
             \/ NotifyLocal(w) \/ FindNoneLocal(w) \/ UnlistLocal(w)
             \/ \E srv \in Server : NotifyRemote(w, srv)
             \/ FanoutDone(w) \/ SaveOfflineTextMsg(w) \/ MsgEnd(w)
      PROVE  LoginInv'
  <2>1. /\ UNCHANGED <<asked, fetched, queue>> /\ pc'[w] \notin LoginPC
        /\ \A v \in Worker \ {w} : pc'[v] = pc[v] /\ cur'[v] = cur[v]
    BY <1>3, <1>t DEF GetOnlineServers, NotifyLocal, FindNoneLocal, UnlistLocal,
                      NotifyRemote, FanoutDone, SaveOfflineTextMsg, MsgEnd, Goto, Return,
                      WorkerTypes, LoginPC
  <2> QED
    BY <2>1, LoginKept
<1>4. ASSUME NEW s \in Session, SendLogin(s)
      PROVE  LoginInv'
  <2> DEFINE w == WorkerOf[s]
             r == [s |-> s, m |-> None]
  <2>1. w \in Worker /\ r \in Request /\ r.m = None /\ r.s = s
    BY DeliveryAssumption DEF Request
  <2>2. /\ UNCHANGED <<fetched, pc, cur>> /\ s \notin asked /\ asked' = asked \cup {s}
        /\ queue'[w] = Append(queue[w], r)
        /\ \A v \in Worker \ {w} : queue'[v] = queue[v]
    BY <1>4, <1>t, <2>1 DEF SendLogin, PostMsgToQue, WorkerTypes
  <2> HIDE DEF r, w
  <2>3. /\ Len(queue'[w]) = Len(queue[w]) + 1
        /\ \A i \in 1 .. Len(queue[w]) : queue'[w][i] = queue[w][i]
        /\ queue'[w][Len(queue[w]) + 1] = r
    BY <1>q, <2>1, <2>2, AppendElements
  <2>4. \A i \in 1 .. Len(queue[w]) : queue[w][i].m = None => queue[w][i].s # s
    BY <2>1, <2>2 DEF LoginInv, LoggingIn
  <2>5. pc[w] \in LoginPC => cur[w].s # s
    BY <2>1, <2>2 DEF LoginInv, LoggingIn
  <2>6. ASSUME NEW v \in Worker, v # w
        PROVE  LoggingIn(v)'
    <3>1. LoggingIn(v) /\ queue'[v] = queue[v] /\ asked \subseteq asked'
      BY <2>2, <2>6 DEF LoginInv
    <3> QED
      BY <2>2, <3>1 DEF LoggingIn
  <2>7. \A i \in 1 .. Len(queue'[w]) :
          \/ i \in 1 .. Len(queue[w]) /\ i # Len(queue[w]) + 1 /\ queue'[w][i] = queue[w][i]
          \/ i = Len(queue[w]) + 1 /\ queue'[w][i] = r
    BY <1>q, <2>1, <2>3
  <2>8. fetched[s] = <<>>
    BY <2>2 DEF LoginInv
  <2>9. LoggingIn(w)
    BY <2>1 DEF LoginInv
  <2>10. ASSUME NEW i \in 1 .. Len(queue'[w]), queue'[w][i].m = None
         PROVE  /\ queue'[w][i].s \in asked' /\ fetched[queue'[w][i].s] = <<>>
                /\ \A j \in 1 .. Len(queue'[w]) :
                     queue'[w][j].m = None /\ queue'[w][j].s = queue'[w][i].s => j = i
                /\ pc[w] \in LoginPC => queue'[w][i].s # cur[w].s
    <3>1. CASE queue'[w][i] = r /\ i = Len(queue[w]) + 1
      BY <2>1, <2>2, <2>4, <2>5, <2>7, <2>8, <3>1
    <3>2. CASE queue'[w][i] = queue[w][i] /\ i \in 1 .. Len(queue[w])
      BY <2>1, <2>2, <2>4, <2>7, <2>9, <2>10, <3>2 DEF LoggingIn
    <3> QED
      BY <2>7, <3>1, <3>2
  <2>11. LoggingIn(w)'
    BY <2>2, <2>9, <2>10 DEF LoggingIn
  <2> QED
    BY <2>2, <2>6, <2>11 DEF LoginInv
<1>5. ASSUME NEW m \in Msg, SendMsg(m)
      PROVE  LoginInv'
  <2> DEFINE w == WorkerOf[From[m]]
             r == [s |-> From[m], m |-> m]
  <2>1. w \in Worker /\ r \in Request /\ r.m # None
    BY DeliveryAssumption DEF Request
  <2>2. /\ UNCHANGED <<asked, fetched, pc, cur>>
        /\ queue'[w] = Append(queue[w], r)
        /\ \A v \in Worker \ {w} : queue'[v] = queue[v]
    BY <1>5, <1>t, <2>1 DEF SendMsg, PostMsgToQue, WorkerTypes
  <2> HIDE DEF r, w
  <2>3. /\ Len(queue'[w]) = Len(queue[w]) + 1
        /\ \A i \in 1 .. Len(queue[w]) : queue'[w][i] = queue[w][i]
        /\ queue'[w][Len(queue[w]) + 1] = r
    BY <1>q, <2>1, <2>2, AppendElements
  <2>4. \A i \in 1 .. Len(queue'[w]) : queue'[w][i].m = None =>
          i \in 1 .. Len(queue[w]) /\ queue'[w][i] = queue[w][i]
    BY <1>q, <2>1, <2>3
  <2>5. \A v \in Worker \ {w} : LoggingIn(v)'
    BY <2>2 DEF LoginInv, LoggingIn
  <2>6. LoggingIn(w)'
    BY <2>1, <2>2, <2>4 DEF LoginInv, LoggingIn
  <2> QED
    BY <2>2, <2>5, <2>6 DEF LoginInv
<1>6. ASSUME NEW w \in Worker, LoginBegin(w) \/ LoginReject(w) \/ MsgBegin(w) \/ MsgRefuse(w)
      PROVE  LoginInv'
  <2>1. /\ queue[w] # <<>> /\ queue' = [queue EXCEPT ![w] = Tail(@)]
        /\ UNCHANGED <<asked, fetched>> /\ pc[w] = "idle"
    BY <1>6 DEF LoginBegin, LoginReject, MsgBegin, MsgRefuse, DealMsg
  <2>2. /\ \A v \in Worker \ {w} : UNCHANGED <<pc[v], cur[v]>>
        /\ pc'[w] \in LoginPC => cur'[w] = Head(queue[w]) /\ Head(queue[w]).m = None
    BY <1>6, <1>t DEF LoginBegin, LoginReject, MsgBegin, MsgRefuse, DealMsg, WorkerTypes,
                      LoginPC
  <2>3. pc[w] \notin LoginPC
    BY <2>1 DEF LoginPC
  <2> QED
    BY <2>1, <2>2, <2>3, LoginTaken
<1>7. ASSUME NEW w \in Worker, LoginRespond(w)
      PROVE  LoginInv'
  <2>1. /\ pc[w] \in LoginPC /\ cur[w].s \in Session /\ WorkerOf[cur[w].s] = w
        /\ cur[w].s \in asked
    BY <1>7, <1>t DEF LoginRespond, CurOK, Request, LoginPC, LoginInv, LoggingIn
  <2>2. /\ UNCHANGED <<asked, queue>> /\ pc'[w] \notin LoginPC
        /\ \A v \in Worker \ {w} : pc'[v] = pc[v] /\ cur'[v] = cur[v]
        /\ \A s \in Session \ {cur[w].s} : fetched'[s] = fetched[s]
    BY <1>7, <1>t DEF LoginRespond, Return, Goto, WorkerTypes, HistoryTypes, LoginPC
  <2>3. ASSUME NEW v \in Worker
        PROVE  LoggingIn(v)'
    <3>1. \A i \in 1 .. Len(queue[v]) : queue[v][i].m = None =>
            fetched'[queue[v][i].s] = fetched[queue[v][i].s]
      BY <1>q, <2>1, <2>2 DEF LoginInv, LoggingIn
    <3>2. v # w /\ pc[v] \in LoginPC => fetched'[cur[v].s] = fetched[cur[v].s]
      <4>1. v # w /\ pc[v] \in LoginPC => cur[v].s \in Session /\ WorkerOf[cur[v].s] = v
        BY <1>t DEF CurOK, Request, LoginPC
      <4> QED
        BY <2>1, <2>2, <4>1
    <3> QED
      BY <2>2, <3>1, <3>2 DEF LoginInv, LoggingIn
  <2> QED
    BY <2>1, <2>2, <2>3 DEF LoginInv
<1>8. ASSUME NEW srv \in Server, Crash(srv)
      PROVE  LoginInv'
  <2>1. /\ UNCHANGED <<asked, fetched>>
        /\ \A v \in Worker :
             \/ queue'[v] = <<>> /\ pc'[v] = "idle"
             \/ UNCHANGED <<queue[v], pc[v], cur[v]>>
    BY <1>8, <1>t DEF Crash, WorkerTypes
  <2>2. \A v \in Worker : LoggingIn(v)'
    BY <2>1 DEF LoginInv, LoggingIn, LoginPC
  <2> QED
    BY <2>1, <2>2 DEF LoginInv
<1> QED
  BY <1>1, <1>2, <1>3, <1>4, <1>5, <1>6, <1>7, <1>8
  DEF Next, ClientStep, WorkerStep

-----------------------------------------------------------------------------
(* OfflineExactlyOnce.                                                     *)

Holds(q, m) == \E i \in DOMAIN q : q[i] = m
NoDup(q) == \A i, j \in DOMAIN q : q[i] = q[j] => i = j

LEMMA AppendHolds ==
  ASSUME NEW q \in Seq(Msg), NEW e \in Msg
  PROVE  /\ \A m \in Msg : Holds(Append(q, e), m) <=> Holds(q, m) \/ m = e
         /\ NoDup(q) /\ ~Holds(q, e) => NoDup(Append(q, e))
<1>1. /\ Len(q) \in Nat /\ DOMAIN q = 1 .. Len(q)
      /\ DOMAIN Append(q, e) = 1 .. Len(q) + 1
      /\ \A i \in 1 .. Len(q) : Append(q, e)[i] = q[i]
      /\ Append(q, e)[Len(q) + 1] = e
  OBVIOUS
<1>2. \A i \in 1 .. Len(q) + 1 : i \in 1 .. Len(q) \/ i = Len(q) + 1
  BY <1>1
<1>3. \A i \in 1 .. Len(q) : i \in 1 .. Len(q) + 1
  BY <1>1
<1>4. Len(q) + 1 \in 1 .. Len(q) + 1
  BY <1>1
<1> QED
  BY <1>1, <1>2, <1>3, <1>4 DEF Holds, NoDup

LEMMA TailHolds ==
  ASSUME NEW q \in Seq(Msg), q # <<>>
  PROVE  /\ Head(q) \in Msg /\ Holds(q, Head(q))
         /\ \A m \in Msg : Holds(q, m) <=> Holds(Tail(q), m) \/ m = Head(q)
         /\ NoDup(q) => NoDup(Tail(q)) /\ ~Holds(Tail(q), Head(q))
<1>1. /\ Head(q) \in Msg /\ Head(q) = q[1] /\ 1 \in 1 .. Len(q)
      /\ Tail(q) \in Seq(Msg) /\ Len(Tail(q)) = Len(q) - 1 /\ Len(q) \in Nat
      /\ DOMAIN q = 1 .. Len(q) /\ DOMAIN Tail(q) = 1 .. Len(q) - 1
      /\ \A i \in 1 .. Len(q) - 1 : i + 1 \in 1 .. Len(q) /\ Tail(q)[i] = q[i + 1]
  OBVIOUS
<1>2. Holds(q, Head(q))
  BY <1>1 DEF Holds
<1>3. ASSUME NEW m \in Msg
      PROVE  Holds(q, m) <=> Holds(Tail(q), m) \/ m = Head(q)
  <2>1. ASSUME Holds(q, m), m # Head(q) PROVE Holds(Tail(q), m)
    <3>1. PICK i \in 1 .. Len(q) : q[i] = m
      BY <1>1, <2>1 DEF Holds
    <3>2. i - 1 \in 1 .. Len(q) - 1 /\ (i - 1) + 1 = i
      BY <1>1, <2>1, <3>1
    <3>3. Tail(q)[i - 1] = m
      BY <1>1, <3>1, <3>2
    <3> QED
      BY <1>1, <3>2, <3>3 DEF Holds
  <2>2. ASSUME Holds(Tail(q), m) PROVE Holds(q, m)
    BY <1>1, <2>2 DEF Holds
  <2> QED
    BY <1>2, <2>1, <2>2
<1>4. ASSUME NoDup(q) PROVE NoDup(Tail(q)) /\ ~Holds(Tail(q), Head(q))
  <2>1. \A i, j \in 1 .. Len(q) : q[i] = q[j] => i = j
    BY <1>1, <1>4 DEF NoDup
  <2>2. ASSUME NEW i \in 1 .. Len(q) - 1, NEW j \in 1 .. Len(q) - 1,
               Tail(q)[i] = Tail(q)[j]
        PROVE  i = j
    <3>1. i + 1 = j + 1
      BY <1>1, <2>1, <2>2
    <3> QED
      BY <1>1, <3>1
  <2>3. ASSUME NEW i \in 1 .. Len(q) - 1 PROVE Tail(q)[i] # Head(q)
    <3>1. i + 1 # 1
      BY <1>1
    <3> QED
      BY <1>1, <2>1, <3>1
  <2> QED
    BY <1>1, <2>2, <2>3 DEF NoDup, Holds
<1> QED
  BY <1>1, <1>2, <1>3, <1>4

(* Where a message saved for u may be.                                     *)
OnList(m, u) == Holds(offline[u], m)
OnBatch(m, u, w) == pc[w] \in LoginPC /\ Me(w) = u /\ Holds(batch[w], m)
OnReply(m, u, s) == UserOf[s] = u /\ Holds(fetched[s], m)
Lost(m, u) == <<m, u>> \in dropped

NoDups ==
  /\ \A u \in User : NoDup(offline[u])
  /\ \A w \in Worker : NoDup(batch[w])
  /\ \A s \in Session : NoDup(fetched[s])

(* It is somewhere, and nowhere else.                                      *)
OnePlace(m, u) ==
  /\ <<m, u>> \in stored <=>
       \/ OnList(m, u) \/ Lost(m, u)
       \/ \E w \in Worker : OnBatch(m, u, w)
       \/ \E s \in Session : OnReply(m, u, s)
  /\ OnList(m, u) => ~Lost(m, u)
  /\ \A w \in Worker : OnBatch(m, u, w) =>
       /\ ~OnList(m, u) /\ ~Lost(m, u)
       /\ \A v \in Worker : OnBatch(m, u, v) => v = w
       /\ \A s \in Session : ~OnReply(m, u, s)
  /\ \A s \in Session : OnReply(m, u, s) =>
       /\ ~OnList(m, u) /\ ~Lost(m, u)
       /\ \A t \in Session : OnReply(m, u, t) => t = s

PlaceInv == NoDups /\ \A m \in Msg, u \in User : OnePlace(m, u)

LEMMA InitPlace == Init => PlaceInv
<1> SUFFICES ASSUME Init PROVE PlaceInv
  OBVIOUS
<1>1. \A m : ~Holds(<<>>, m)
  BY DEF Holds
<1>2. NoDup(<<>>)
  BY DEF NoDup
<1> QED
  BY <1>1, <1>2 DEF Init, PlaceInv, NoDups, OnePlace, OnList, OnBatch, OnReply, Lost

(* Steps that move no saved message.                                       *)
LEMMA PlaceKept ==
  ASSUME PlaceInv, UNCHANGED <<offline, batch, fetched, dropped, stored>>,
         \A w \in Worker :
           \/ pc'[w] \in LoginPC /\ pc[w] \in LoginPC /\ cur'[w] = cur[w]
           \/ pc'[w] \notin LoginPC /\ pc[w] \notin LoginPC
           \/ batch[w] = <<>>
  PROVE  PlaceInv'
<1>1. \A m : ~Holds(<<>>, m)
  BY DEF Holds
<1>2. ASSUME NEW m \in Msg, NEW u \in User
      PROVE  /\ OnList(m, u)' <=> OnList(m, u)
             /\ Lost(m, u)' <=> Lost(m, u)
             /\ \A w \in Worker : OnBatch(m, u, w)' <=> OnBatch(m, u, w)
             /\ \A s \in Session : OnReply(m, u, s)' <=> OnReply(m, u, s)
  BY <1>1 DEF OnList, Lost, OnBatch, OnReply, Me
<1>3. \A m \in Msg, u \in User : OnePlace(m, u)'
  BY <1>2, ZenonT(30) DEF PlaceInv, OnePlace
<1> QED
  BY <1>3 DEF PlaceInv, NoDups

(* What holds of a worker in a login.                                      *)
LEMMA InLogin ==
  ASSUME TInv, NEW w \in Worker, pc[w] \in LoginPC
  PROVE  /\ cur[w].s \in Session /\ Me(w) \in User /\ batch[w] \in Seq(Msg)
         /\ UserOf[cur[w].s] = Me(w)
<1>1. cur[w] \in Request
  BY DEF TInv, CurOK, LoginPC
<1> QED
  BY <1>1, DeliveryAssumption DEF Request, Me, TInv, TypeOK, WorkerTypes

(* From the list into a batch.                                             *)
LEMMA DrainMoves ==
  ASSUME TInv, PlaceInv, NEW w \in Worker, LoginDrain(w)
  PROVE  PlaceInv'
<1> USE DEF redisVars, histVars
<1> DEFINE u0 == Me(w)
           h == Head(offline[u0])
<1>1. /\ pc[w] \in LoginPC /\ u0 \in User /\ batch[w] \in Seq(Msg)
      /\ offline[u0] \in Seq(Msg) /\ offline[u0] # <<>>
  <2>1. pc[w] \in LoginPC /\ offline[u0] # <<>>
    BY DEF LoginDrain, LoginPC
  <2>2. u0 \in User /\ batch[w] \in Seq(Msg)
    BY <2>1, InLogin
  <2> QED
    BY <2>1, <2>2 DEF TInv, TypeOK, SharedTypes
<1>2. /\ UNCHANGED <<pc, cur, fetched, dropped, stored>>
      /\ offline'[u0] = Tail(offline[u0]) /\ batch'[w] = Append(batch[w], h)
      /\ \A u \in User \ {u0} : offline'[u] = offline[u]
      /\ \A v \in Worker \ {w} : batch'[v] = batch[v]
  BY <1>1 DEF LoginDrain, Popped, TInv, TypeOK, WorkerTypes, SharedTypes
<1>3. /\ h \in Msg /\ Holds(offline[u0], h)
      /\ \A m \in Msg : Holds(offline[u0], m) <=> Holds(Tail(offline[u0]), m) \/ m = h
      /\ NoDup(offline[u0]) => NoDup(Tail(offline[u0])) /\ ~Holds(Tail(offline[u0]), h)
  BY <1>1, TailHolds
<1>4. /\ \A m \in Msg : Holds(Append(batch[w], h), m) <=> Holds(batch[w], m) \/ m = h
      /\ NoDup(batch[w]) /\ ~Holds(batch[w], h) => NoDup(Append(batch[w], h))
  BY <1>1, <1>3, AppendHolds
<1> HIDE DEF h
<1>5. NoDup(offline[u0]) /\ NoDup(batch[w])
  BY <1>1 DEF PlaceInv, NoDups
<1>6. OnePlace(h, u0) /\ OnList(h, u0) /\ ~OnBatch(h, u0, w)
  BY <1>1, <1>3 DEF PlaceInv, OnePlace, OnList
<1>7. NoDups'
  <2>1. ~Holds(batch[w], h)
    BY <1>1, <1>6 DEF OnBatch
  <2> QED
    BY <1>2, <1>3, <1>4, <1>5, <2>1 DEF PlaceInv, NoDups
<1>8. Me(w)' = u0 /\ \A v \in Worker : Me(v)' = Me(v)
  BY <1>2 DEF Me
<1>9. ASSUME NEW m \in Msg, NEW u \in User
      PROVE  /\ OnList(m, u)' <=> OnList(m, u) /\ ~(m = h /\ u = u0)
             /\ Lost(m, u)' <=> Lost(m, u)
             /\ \A v \in Worker :
                  OnBatch(m, u, v)' <=> OnBatch(m, u, v) \/ (v = w /\ m = h /\ u = u0)
             /\ \A s \in Session : OnReply(m, u, s)' <=> OnReply(m, u, s)
  <2>1. OnList(m, u)' <=> OnList(m, u) /\ ~(m = h /\ u = u0)
    BY <1>2, <1>3, <1>5 DEF OnList
  <2>2. ASSUME NEW v \in Worker
        PROVE  OnBatch(m, u, v)' <=> OnBatch(m, u, v) \/ (v = w /\ m = h /\ u = u0)
    BY <1>1, <1>2, <1>4, <1>8 DEF OnBatch
  <2> QED
    BY <1>2, <2>1, <2>2 DEF Lost, OnReply
<1>10. ASSUME NEW m \in Msg, NEW u \in User
       PROVE  OnePlace(m, u)'
  <2>1. OnePlace(m, u)
    BY DEF PlaceInv
  <2>2. (<<m, u>> \in stored)' <=> <<m, u>> \in stored
    BY <1>2
  <2>3. CASE m = h /\ u = u0
    BY <1>6, <1>9, <2>1, <2>2, <2>3 DEF OnePlace
  <2>4. CASE ~(m = h /\ u = u0)
    BY <1>9, <2>1, <2>2, <2>4 DEF OnePlace
  <2> QED
    BY <2>3, <2>4
<1> QED
  BY <1>7, <1>10 DEF PlaceInv

(* From the batch into the response.                                       *)
LEMMA RespondMoves ==
  ASSUME TInv, LoginInv, PlaceInv, NEW w \in Worker, LoginRespond(w)
  PROVE  PlaceInv'
<1> USE DEF redisVars
<1> DEFINE t0 == cur[w].s
<1>1. /\ pc[w] \in LoginPC /\ t0 \in Session /\ UserOf[t0] = Me(w)
      /\ batch[w] \in Seq(Msg) /\ fetched[t0] = <<>>
  <2>1. pc[w] \in LoginPC
    BY DEF LoginRespond, LoginPC
  <2> QED
    BY <2>1, InLogin DEF LoginInv, LoggingIn
<1>2. /\ UNCHANGED <<offline, dropped, stored>>
      /\ pc'[w] = "idle" /\ batch'[w] = <<>> /\ fetched'[t0] = batch[w]
      /\ \A v \in Worker \ {w} : UNCHANGED <<pc[v], cur[v], batch[v]>>
      /\ \A s \in Session \ {t0} : fetched'[s] = fetched[s]
  BY <1>1 DEF LoginRespond, Return, Goto, TInv, TypeOK, WorkerTypes, HistoryTypes
<1>3. NoDup(<<>>) /\ \A m : ~Holds(<<>>, m)
  BY DEF NoDup, Holds
<1>4. NoDups'
  BY <1>2, <1>3 DEF PlaceInv, NoDups
<1>5. ASSUME NEW m \in Msg, NEW u \in User
      PROVE  /\ OnList(m, u)' <=> OnList(m, u)
             /\ Lost(m, u)' <=> Lost(m, u)
             /\ \A v \in Worker : OnBatch(m, u, v)' <=> OnBatch(m, u, v) /\ v # w
             /\ \A s \in Session :
                  OnReply(m, u, s)' <=> OnReply(m, u, s) \/ (s = t0 /\ OnBatch(m, u, w))
             /\ ~OnReply(m, u, t0)
  <2>1. \A v \in Worker : OnBatch(m, u, v)' <=> OnBatch(m, u, v) /\ v # w
    BY <1>2 DEF OnBatch, LoginPC, Me
  <2>2. ~OnReply(m, u, t0)
    BY <1>1, <1>3 DEF OnReply
  <2>3. \A s \in Session : s = t0 => (OnReply(m, u, s)' <=> OnBatch(m, u, w))
    <3>1. OnBatch(m, u, w) <=> UserOf[t0] = u /\ Holds(batch[w], m)
      BY <1>1 DEF OnBatch
    <3>2. \A s \in Session : OnReply(m, u, s)' <=> UserOf[s] = u /\ Holds(fetched'[s], m)
      BY DEF OnReply
    <3> HIDE DEF t0
    <3>3. (UserOf[t0] = u /\ Holds(fetched'[t0], m)) <=> OnBatch(m, u, w)
      BY <1>2, <3>1
    <3> QED
      BY <3>2, <3>3
  <2>4. \A s \in Session : s # t0 => (OnReply(m, u, s)' <=> OnReply(m, u, s))
    BY <1>2 DEF OnReply
  <2>5. (OnList(m, u)' <=> OnList(m, u)) /\ (Lost(m, u)' <=> Lost(m, u))
    BY <1>2 DEF OnList, Lost
  <2> QED
    BY <2>1, <2>2, <2>3, <2>4, <2>5
<1> HIDE DEF t0
<1>6. ASSUME NEW m \in Msg, NEW u \in User
      PROVE  OnePlace(m, u)'
  <2>1. OnePlace(m, u)
    BY DEF PlaceInv
  <2>2. (<<m, u>> \in stored)' <=> <<m, u>> \in stored
    BY <1>2
  <2>3. CASE OnBatch(m, u, w)
    BY <1>1, <1>5, <2>1, <2>2, <2>3 DEF OnePlace
  <2>4. CASE ~OnBatch(m, u, w)
    BY <1>5, <2>1, <2>2, <2>4 DEF OnePlace
  <2> QED
    BY <2>3, <2>4
<1> QED
  BY <1>4, <1>6 DEF PlaceInv

(* A message is saved that has not been saved before.                      *)
LEMMA SaveAdds ==
  ASSUME TInv, ReachInv, PlaceInv, NEW w \in Worker, SaveOfflineTextMsg(w)
  PROVE  PlaceInv'
<1> USE DEF redisVars
<1> DEFINE e == cur[w].m
           r == peer[w]
<1>1. /\ e \in Msg /\ r \in User /\ pc[w] = "store" /\ <<e, r>> \notin stored
      /\ offline[r] \in Seq(Msg)
  <2>1. pc[w] = "store" /\ pc[w] \in MsgPC /\ pc[w] \in PeerPC
    BY DEF SaveOfflineTextMsg, MsgPC, PeerPC
  <2>2. e \in Msg /\ r \in User
    BY <2>1 DEF TInv, CurOK
  <2>3. <<e, r>> \notin stored
    BY <2>1, <2>2 DEF ReachInv, Reach
  <2> QED
    BY <2>1, <2>2, <2>3 DEF TInv, TypeOK, SharedTypes
<1>2. /\ UNCHANGED <<cur, batch, fetched, dropped>> /\ stored' = stored \cup {<<e, r>>}
      /\ offline'[r] = Append(offline[r], e)
      /\ \A u \in User \ {r} : offline'[u] = offline[u]
      /\ \A v \in Worker : pc'[v] \in LoginPC <=> pc[v] \in LoginPC
  BY <1>1 DEF SaveOfflineTextMsg, Pushed, Goto, TInv, TypeOK, WorkerTypes, SharedTypes,
              LoginPC
<1>3. /\ \A m \in Msg : Holds(Append(offline[r], e), m) <=> Holds(offline[r], m) \/ m = e
      /\ NoDup(offline[r]) /\ ~Holds(offline[r], e) => NoDup(Append(offline[r], e))
  BY <1>1, AppendHolds
<1> HIDE DEF e, r
<1>4. OnePlace(e, r) /\ ~OnList(e, r) /\ ~Lost(e, r)
      /\ (\A v \in Worker : ~OnBatch(e, r, v)) /\ (\A s \in Session : ~OnReply(e, r, s))
  BY <1>1 DEF PlaceInv, OnePlace
<1>5. NoDups'
  BY <1>1, <1>2, <1>3, <1>4 DEF PlaceInv, NoDups, OnList
<1>6. ASSUME NEW m \in Msg, NEW u \in User
      PROVE  /\ OnList(m, u)' <=> OnList(m, u) \/ (m = e /\ u = r)
             /\ Lost(m, u)' <=> Lost(m, u)
             /\ \A v \in Worker : OnBatch(m, u, v)' <=> OnBatch(m, u, v)
             /\ \A s \in Session : OnReply(m, u, s)' <=> OnReply(m, u, s)
             /\ (<<m, u>> \in stored)' <=> <<m, u>> \in stored \/ (m = e /\ u = r)
  <2>1. OnList(m, u)' <=> OnList(m, u) \/ (m = e /\ u = r)
    BY <1>1, <1>2, <1>3 DEF OnList
  <2>2. \A v \in Worker : OnBatch(m, u, v)' <=> OnBatch(m, u, v)
    BY <1>2 DEF OnBatch, Me
  <2>3. (<<m, u>> \in stored)' <=> <<m, u>> \in stored \/ (m = e /\ u = r)
    BY <1>2
  <2> QED
    BY <1>2, <2>1, <2>2, <2>3 DEF Lost, OnReply
<1>7. ASSUME NEW m \in Msg, NEW u \in User
      PROVE  OnePlace(m, u)'
  <2>1. OnePlace(m, u)
    BY DEF PlaceInv
  <2>2. CASE m = e /\ u = r
    BY <1>4, <1>6, <2>1, <2>2 DEF OnePlace
  <2>3. CASE ~(m = e /\ u = r)
    BY <1>6, <2>1, <2>3 DEF OnePlace
  <2> QED
    BY <2>2, <2>3
<1> QED
  BY <1>5, <1>7 DEF PlaceInv

(* What logins have popped is lost with their server.                      *)
LEMMA CrashMoves ==
  ASSUME TInv, PlaceInv, NEW srv \in Server, Crash(srv)
  PROVE  PlaceInv'
<1> USE DEF redisVars
<1> DEFINE Gone(v) == ServerOf[v] = srv
<1>1. /\ UNCHANGED <<offline, fetched, stored>>
      /\ \A v \in Worker : Gone(v) => pc'[v] = "idle" /\ batch'[v] = <<>>
      /\ \A v \in Worker : ~Gone(v) => UNCHANGED <<pc[v], cur[v], batch[v]>>
  BY DEF Crash, TInv, TypeOK, WorkerTypes
<1>2. NoDup(<<>>) /\ \A m : ~Holds(<<>>, m)
  BY DEF NoDup, Holds
<1>3. NoDups'
  BY <1>1, <1>2 DEF PlaceInv, NoDups
<1>4. ASSUME NEW m \in Msg, NEW u \in User
      PROVE  Lost(m, u)' <=> \/ Lost(m, u)
                             \/ \E v \in Worker : Gone(v) /\ OnBatch(m, u, v)
  <2>1. dropped' = dropped \cup UNION {PoppedBy(v) \X {Me(v)} :
                     v \in {x \in Worker : ServerOf[x] = srv /\ batch[x] # <<>>}}
    BY DEF Crash
  <2>2. Lost(m, u)' <=> \/ Lost(m, u)
                        \/ \E v \in Worker : /\ Gone(v) /\ batch[v] # <<>>
                                             /\ m \in PoppedBy(v) /\ Me(v) = u
    BY <2>1 DEF Lost
  <2>3. ASSUME NEW v \in Worker
        PROVE  /\ batch[v] # <<>> => pc[v] \in LoginPC
               /\ m \in PoppedBy(v) <=> Holds(batch[v], m)
    BY DEF TInv, CurOK, PoppedBy, Holds
  <2> QED
    BY <1>2, <2>2, <2>3 DEF OnBatch
<1>5. ASSUME NEW m \in Msg, NEW u \in User
      PROVE  /\ OnList(m, u)' <=> OnList(m, u)
             /\ \A v \in Worker : OnBatch(m, u, v)' <=> OnBatch(m, u, v) /\ ~Gone(v)
             /\ \A s \in Session : OnReply(m, u, s)' <=> OnReply(m, u, s)
             /\ (<<m, u>> \in stored)' <=> <<m, u>> \in stored
  BY <1>1 DEF OnList, OnBatch, OnReply, Me, LoginPC
<1> HIDE DEF Gone
<1>6. ASSUME NEW m \in Msg, NEW u \in User
      PROVE  OnePlace(m, u)'
  <2>1. OnePlace(m, u)
    BY DEF PlaceInv
  <2>2. CASE \E v \in Worker : Gone(v) /\ OnBatch(m, u, v)
    <3>1. PICK v \in Worker : Gone(v) /\ OnBatch(m, u, v)
      BY <2>2
    <3> QED
      BY <1>4, <1>5, <2>1, <3>1 DEF OnePlace
  <2>3. CASE ~\E v \in Worker : Gone(v) /\ OnBatch(m, u, v)
    BY <1>4, <1>5, <2>1, <2>3 DEF OnePlace
  <2> QED
    BY <2>2, <2>3
<1> QED
  BY <1>3, <1>6 DEF PlaceInv

(* Every step keeps PlaceInv. *)
LEMMA PlaceStep ==
  TInv /\ LoginInv /\ ReachInv /\ PlaceInv /\ [Next]_vars => PlaceInv'
<1> SUFFICES ASSUME TInv, LoginInv, ReachInv, PlaceInv, [Next]_vars PROVE PlaceInv'
  OBVIOUS
<1> USE DEF sessVars, redisVars, hostVars, workVars, histVars
<1>t. WorkerTypes /\ CurOK
  BY DEF TInv, TypeOK
<1>1. CASE \/ \E s \in Session : ClientStep(s) \/ ClearStep(s)
           \/ \E m \in Msg : SendMsg(m)
           \/ \E srv \in Server : Restart(srv)
           \/ UNCHANGED vars
  <2>1. UNCHANGED <<offline, batch, fetched, dropped, stored, pc, cur>>
    BY <1>1 DEF ClientStep, Connect, SendLogin, Disconnect, BadFrame, EndSession,
                ClearStep, ClearLookup, RmvUserSession, ClearCheck, ClearUnlist,
                SendMsg, Restart, vars
  <2> QED
    BY <2>1, PlaceKept
<1>2. ASSUME NEW w \in Worker,
             \/ LoginBegin(w) \/ LoginReject(w) \/ LoginBind(w)
             \/ AddOnlineServer(w) \/ SetUserSession(w)
             \/ MsgBegin(w) \/ MsgRefuse(w)
             \/ \E u \in User : GetOnlineServers(w, u)
             \/ NotifyLocal(w) \/ FindNoneLocal(w) \/ UnlistLocal(w)
             \/ \E srv \in Server : NotifyRemote(w, srv)
             \/ FanoutDone(w) \/ MsgEnd(w)
      PROVE  PlaceInv'
  <2>1. UNCHANGED <<offline, batch, fetched, dropped, stored>>
    BY <1>2 DEF LoginBegin, LoginReject, LoginBind, AddOnlineServer, SetUserSession,
                MsgBegin, MsgRefuse, GetOnlineServers, NotifyLocal, FindNoneLocal,
                UnlistLocal, NotifyRemote, FanoutDone, MsgEnd
  <2>2. \A v \in Worker \ {w} : UNCHANGED <<pc[v], cur[v]>>
    BY <1>2, <1>t DEF LoginBegin, LoginReject, LoginBind, AddOnlineServer, SetUserSession,
                MsgBegin, MsgRefuse, GetOnlineServers, NotifyLocal, FindNoneLocal,
                UnlistLocal, NotifyRemote, FanoutDone, MsgEnd, DealMsg, Goto, Return,
                WorkerTypes
  <2>3. CASE LoginBind(w) \/ AddOnlineServer(w) \/ SetUserSession(w)
    <3>1. pc[w] \in LoginPC /\ pc'[w] \in LoginPC /\ cur' = cur
      BY <2>3, <1>t DEF LoginBind, AddOnlineServer, SetUserSession, Goto, WorkerTypes,
                        LoginPC
    <3> QED
      BY <2>1, <2>2, <3>1, PlaceKept
  <2>4. CASE ~(LoginBind(w) \/ AddOnlineServer(w) \/ SetUserSession(w))
    <3>1. pc[w] \notin LoginPC
      BY <1>2, <2>4 DEF LoginBegin, LoginReject, MsgBegin, MsgRefuse, GetOnlineServers,
                  NotifyLocal, FindNoneLocal, UnlistLocal, NotifyRemote, FanoutDone,
                  MsgEnd, DealMsg, LoginPC
    <3>2. batch[w] = <<>>
      BY <1>t, <3>1 DEF CurOK
    <3> QED
      BY <2>1, <2>2, <3>2, PlaceKept
  <2> QED
    BY <2>3, <2>4
<1>3. ASSUME NEW w \in Worker, LoginDrain(w) \/ LoginRespond(w) \/ SaveOfflineTextMsg(w)
      PROVE  PlaceInv'
  BY <1>3, DrainMoves, RespondMoves, SaveAdds
<1>4. ASSUME NEW srv \in Server, Crash(srv)
      PROVE  PlaceInv'
  BY <1>4, CrashMoves
<1> QED
  BY <1>1, <1>2, <1>3, <1>4 DEF Next, WorkerStep

(* How often a sequence without duplicates holds a message.                *)
LEMMA TimesHeld ==
  ASSUME NEW q \in Seq(Msg), NoDup(q), NEW m
  PROVE  Times(m, q) = IF Holds(q, m) THEN 1 ELSE 0
<1> DEFINE at == {i \in DOMAIN q : q[i] = m}
<1>1. CASE Holds(q, m)
  <2>1. PICK i \in DOMAIN q : q[i] = m
    BY <1>1 DEF Holds
  <2>2. at = {i}
    BY <2>1 DEF NoDup
  <2> QED
    BY <1>1, <2>2, FS_Singleton DEF Times
<1>2. CASE ~Holds(q, m)
  <2>1. at = {}
    BY <1>2 DEF Holds
  <2> QED
    BY <1>2, <2>1, FS_EmptySet DEF Times
<1> QED
  BY <1>1, <1>2

(* A set whose members are all equal has one member or none.               *)
LEMMA AtMostOne ==
  ASSUME NEW S, \A x, y \in S : x = y
  PROVE  Cardinality(S) = IF S = {} THEN 0 ELSE 1
<1>1. CASE S = {}
  BY <1>1, FS_EmptySet
<1>2. CASE S # {}
  <2>1. PICK x \in S : TRUE
    BY <1>2
  <2>2. S = {x}
    BY <2>1
  <2> QED
    BY <2>2, FS_Singleton
<1> QED
  BY <1>1, <1>2

LEMMA CountPlaces == TInv /\ PlaceInv => OfflineExactlyOnce
<1> SUFFICES ASSUME TInv, PlaceInv, NEW m \in Msg, NEW u \in User
             PROVE  LET logins == {w \in Worker :
                                     /\ pc[w] \in {"drain", "list", "register", "respond"}
                                     /\ Me(w) = u}
                        inBatch == {w \in logins : Times(m, batch[w]) = 1}
                        inReply == {s \in Session : UserOf[s] = u /\ Times(m, fetched[s]) = 1}
                        places == Times(m, offline[u]) + Cardinality(inBatch)
                                    + Cardinality(inReply)
                                    + (IF <<m, u>> \in dropped THEN 1 ELSE 0)
                    IN  places = IF <<m, u>> \in stored THEN 1 ELSE 0
  BY DEF OfflineExactlyOnce
<1> DEFINE logins == {w \in Worker : /\ pc[w] \in {"drain", "list", "register", "respond"}
                                     /\ Me(w) = u}
           inBatch == {w \in logins : Times(m, batch[w]) = 1}
           inReply == {s \in Session : UserOf[s] = u /\ Times(m, fetched[s]) = 1}
           batches == {w \in Worker : OnBatch(m, u, w)}
           replies == {s \in Session : OnReply(m, u, s)}
<1>1. Times(m, offline[u]) = IF OnList(m, u) THEN 1 ELSE 0
  <2>1. offline[u] \in Seq(Msg) /\ NoDup(offline[u])
    BY DEF TInv, TypeOK, SharedTypes, PlaceInv, NoDups
  <2> QED
    BY <2>1, TimesHeld DEF OnList
<1>2. inBatch = batches
  <2>1. \A w \in Worker : batch[w] \in Seq(Msg) /\ NoDup(batch[w])
    BY DEF TInv, TypeOK, WorkerTypes, PlaceInv, NoDups
  <2>2. \A w \in Worker : Times(m, batch[w]) = 1 <=> Holds(batch[w], m)
    BY <2>1, TimesHeld
  <2> QED
    BY <2>2 DEF OnBatch, LoginPC
<1>3. inReply = replies
  <2>1. \A s \in Session : fetched[s] \in Seq(Msg) /\ NoDup(fetched[s])
    BY DEF TInv, TypeOK, HistoryTypes, PlaceInv, NoDups
  <2>2. \A s \in Session : Times(m, fetched[s]) = 1 <=> Holds(fetched[s], m)
    BY <2>1, TimesHeld
  <2> QED
    BY <2>2 DEF OnReply
<1>4. OnePlace(m, u)
  BY DEF PlaceInv
<1>5. Cardinality(batches) = IF \E w \in Worker : OnBatch(m, u, w) THEN 1 ELSE 0
  <2>1. \A v, w \in batches : v = w
    BY <1>4 DEF OnePlace
  <2>2. batches = {} <=> ~\E w \in Worker : OnBatch(m, u, w)
    OBVIOUS
  <2> HIDE DEF batches
  <2> QED
    BY <2>1, <2>2, AtMostOne
<1>6. Cardinality(replies) = IF \E s \in Session : OnReply(m, u, s) THEN 1 ELSE 0
  <2>1. \A s, t \in replies : s = t
    BY <1>4 DEF OnePlace
  <2>2. replies = {} <=> ~\E s \in Session : OnReply(m, u, s)
    OBVIOUS
  <2> HIDE DEF replies
  <2> QED
    BY <2>1, <2>2, AtMostOne
<1> HIDE DEF inBatch, inReply, batches, replies
<1>7. Times(m, offline[u]) + Cardinality(inBatch) + Cardinality(inReply)
        + (IF <<m, u>> \in dropped THEN 1 ELSE 0)
      = IF <<m, u>> \in stored THEN 1 ELSE 0
  <2> DEFINE a == Times(m, offline[u])
             b == Cardinality(inBatch)
             c == Cardinality(inReply)
             d == IF <<m, u>> \in dropped THEN 1 ELSE 0
  <2>1. /\ a = IF OnList(m, u) THEN 1 ELSE 0
        /\ b = IF \E w \in Worker : OnBatch(m, u, w) THEN 1 ELSE 0
        /\ c = IF \E s \in Session : OnReply(m, u, s) THEN 1 ELSE 0
        /\ d = IF Lost(m, u) THEN 1 ELSE 0
    BY <1>1, <1>2, <1>3, <1>5, <1>6 DEF Lost
  <2> HIDE DEF a, b, c, d
  <2>2. CASE <<m, u>> \in stored
    <3>1. CASE OnList(m, u)
      <4>1. a = 1 /\ b = 0 /\ c = 0 /\ d = 0
        BY <1>4, <2>1, <3>1 DEF OnePlace
      <4> QED
        BY <2>2, <4>1 DEF a, b, c, d
    <3>2. CASE Lost(m, u)
      <4>1. a = 0 /\ b = 0 /\ c = 0 /\ d = 1
        BY <1>4, <2>1, <3>2 DEF OnePlace
      <4> QED
        BY <2>2, <4>1 DEF a, b, c, d
    <3>3. CASE \E w \in Worker : OnBatch(m, u, w)
      <4>1. a = 0 /\ b = 1 /\ c = 0 /\ d = 0
        BY <1>4, <2>1, <3>3 DEF OnePlace
      <4> QED
        BY <2>2, <4>1 DEF a, b, c, d
    <3>4. CASE \E s \in Session : OnReply(m, u, s)
      <4>1. a = 0 /\ b = 0 /\ c = 1 /\ d = 0
        BY <1>4, <2>1, <3>4 DEF OnePlace
      <4> QED
        BY <2>2, <4>1 DEF a, b, c, d
    <3> QED
      BY <1>4, <2>2, <3>1, <3>2, <3>3, <3>4 DEF OnePlace
  <2>3. CASE <<m, u>> \notin stored
    <3>1. a = 0 /\ b = 0 /\ c = 0 /\ d = 0
      BY <1>4, <2>1, <2>3 DEF OnePlace
    <3> QED
      BY <2>3, <3>1 DEF a, b, c, d
  <2> QED
    BY <2>2, <2>3
<1> QED
  BY <1>7 DEF logins, inBatch, inReply

(* A message saved for an offline user is in one place at any time: in his *)
(* list, in one login, in one response, or lost with a server that has     *)
(* crashed (LoginHandler's loop over LPOP, SaveOfflineTextMsg).            *)
THEOREM SavedInOnePlace == Spec => []OfflineExactlyOnce
<1> DEFINE Inv == TInv /\ RequestInv /\ ReachInv /\ LoginInv /\ PlaceInv
<1>1. Init => Inv
  BY TInvInit, InitRequest, InitReach, InitLogin, InitPlace
<1>2. Inv /\ [Next]_vars => Inv'
  BY TInvStep, RequestStep, ReachStep, LoginStep, PlaceStep
<1>3. Inv => OfflineExactlyOnce
  BY CountPlaces
<1> QED
  BY <1>1, <1>2, <1>3, PTL DEF Spec

-----------------------------------------------------------------------------
(* SenderOrderKept.                                                        *)

(* A message after all of its session keeps the order.                     *)
LEMMA AppendAscends ==
  ASSUME NEW q \in Seq(Msg), NEW e \in Msg, Ascending(q),
         \A k \in Msg : Holds(q, k) /\ From[k] = From[e] => k < e
  PROVE  Ascending(Append(q, e))
<1>1. /\ Len(q) \in Nat /\ DOMAIN q = 1 .. Len(q)
      /\ DOMAIN Append(q, e) = 1 .. Len(q) + 1
      /\ \A i \in 1 .. Len(q) : q[i] \in Msg /\ Append(q, e)[i] = q[i]
      /\ Append(q, e)[Len(q) + 1] = e
  OBVIOUS
<1> DEFINE p == Append(q, e)
<1> HIDE DEF p
<1>2. ASSUME NEW i \in 1 .. Len(q) + 1, NEW j \in 1 .. Len(q) + 1, i < j,
             From[p[i]] = From[p[j]]
      PROVE  p[i] < p[j]
  <2>1. i \in 1 .. Len(q) /\ p[i] = q[i] /\ q[i] \in Msg
    BY <1>1, <1>2 DEF p
  <2>2. CASE j \in 1 .. Len(q)
    <3>1. p[j] = q[j]
      BY <1>1, <2>2 DEF p
    <3> QED
      BY <1>1, <1>2, <2>1, <2>2, <3>1 DEF Ascending
  <2>3. CASE j = Len(q) + 1
    <3>1. p[j] = e
      BY <1>1, <2>3 DEF p
    <3>2. Holds(q, q[i])
      BY <1>1, <2>1 DEF Holds
    <3> QED
      BY <1>2, <2>1, <3>1, <3>2
  <2> QED
    BY <1>1, <2>2, <2>3
<1>3. DOMAIN p = 1 .. Len(q) + 1
  BY <1>1 DEF p
<1>4. Ascending(p)
  BY <1>2, <1>3 DEF Ascending
<1> QED
  BY <1>4 DEF p

LEMMA TailAscends ==
  ASSUME NEW q \in Seq(Msg), q # <<>>, Ascending(q)
  PROVE  Ascending(Tail(q))
<1>1. /\ Len(q) \in Nat /\ DOMAIN q = 1 .. Len(q) /\ DOMAIN Tail(q) = 1 .. Len(q) - 1
      /\ \A i \in 1 .. Len(q) - 1 : i + 1 \in 1 .. Len(q) /\ Tail(q)[i] = q[i + 1]
  OBVIOUS
<1>2. ASSUME NEW i \in 1 .. Len(q) - 1, NEW j \in 1 .. Len(q) - 1, i < j,
             From[Tail(q)[i]] = From[Tail(q)[j]]
      PROVE  Tail(q)[i] < Tail(q)[j]
  <2>1. i + 1 < j + 1
    BY <1>1, <1>2
  <2>2. /\ i + 1 \in DOMAIN q /\ j + 1 \in DOMAIN q
        /\ Tail(q)[i] = q[i + 1] /\ Tail(q)[j] = q[j + 1]
    BY <1>1
  <2> QED
    BY <1>2, <2>1, <2>2 DEF Ascending
<1> QED
  BY <1>1, <1>2 DEF Ascending

(* The head of an ascending sequence is its session's first.                *)
LEMMA HeadFirst ==
  ASSUME NEW q \in Seq(Msg), q # <<>>, Ascending(q),
         NEW m \in Msg, Holds(Tail(q), m), From[m] = From[Head(q)]
  PROVE  Head(q) < m
<1>1. /\ Head(q) = q[1] /\ 1 \in DOMAIN q /\ DOMAIN Tail(q) = 1 .. Len(q) - 1
      /\ DOMAIN q = 1 .. Len(q) /\ Len(q) \in Nat
      /\ \A i \in 1 .. Len(q) - 1 : i + 1 \in 1 .. Len(q) /\ 1 < i + 1 /\ Tail(q)[i] = q[i + 1]
  OBVIOUS
<1>2. PICK i \in 1 .. Len(q) - 1 : Tail(q)[i] = m
  BY <1>1 DEF Holds
<1>3. i + 1 \in DOMAIN q /\ 1 < i + 1 /\ q[i + 1] = m
  BY <1>1, <1>2
<1> QED
  BY <1>1, <1>3 DEF Ascending

(* The message in a worker's hands comes after all that its session has    *)
(* brought to the sessions, or into the list, where it is to go next.      *)
LEMMA LastOfItsSession ==
  ASSUME TInv, RequestInv, ReachInv, NEW w \in Worker, pc[w] \in MsgPC, pc[w] \in PeerPC
  PROVE  /\ \A s \in Session, k \in Msg :
              /\ UserOf[s] = peer[w] /\ Home(s) \in todo[w]
              /\ Got(s, k) /\ From[k] = From[cur[w].m]
              => k < cur[w].m
         /\ \A k \in Msg :
              <<k, peer[w]>> \in stored /\ From[k] = From[cur[w].m] => k < cur[w].m
<1> DEFINE m == cur[w].m
<1>1. m \in Msg /\ From[m] = cur[w].s /\ peer[w] \in User
  BY DEF TInv, CurOK
<1>2. \A k \in Msg : Begun(k) /\ From[k] = From[m] => k <= m
  BY <1>1 DEF RequestInv, Handled
<1>3. \A k \in Msg : k \in Nat
  BY DeliveryAssumption
<1>4. \A s \in Session : UserOf[s] = peer[w] /\ Home(s) \in todo[w] => ~Got(s, m)
  BY DEF ReachInv, Reach
<1>5. <<m, peer[w]>> \notin stored
  BY <1>1 DEF ReachInv, Reach
<1>6. \A s \in Session, k \in Msg : Got(s, k) => Begun(k)
  BY DEF ReachInv, ReachedInv
<1>7. \A k \in Msg : <<k, peer[w]>> \in stored => Begun(k)
  BY <1>1 DEF ReachInv, ReachedInv
<1> HIDE DEF m
<1>8. \A s \in Session, k \in Msg :
        UserOf[s] = peer[w] /\ Home(s) \in todo[w] /\ Got(s, k) /\ From[k] = From[m]
          => k < m
  BY <1>1, <1>2, <1>3, <1>4, <1>6
<1>9. \A k \in Msg : <<k, peer[w]>> \in stored /\ From[k] = From[m] => k < m
  BY <1>1, <1>2, <1>3, <1>5, <1>7
<1> QED
  BY <1>8, <1>9 DEF m

LEMMA NotifyInOrder ==
  ASSUME TInv, RequestInv, ReachInv, SenderOrderKept, NEW w \in Worker, NEW srv,
         pc[w] = "fanout", srv \in todo[w], Notify(cur[w].m, peer[w], srv),
         UNCHANGED offline
  PROVE  SenderOrderKept'
<1> DEFINE m == cur[w].m
<1>1. pc[w] \in MsgPC /\ pc[w] \in PeerPC /\ m \in Msg
  BY DEF MsgPC, PeerPC, TInv, CurOK
<1>2. ASSUME NEW s \in Session
      PROVE  Ascending(handed'[s])
  <2>1. handed[s] \in Seq(Msg) /\ Ascending(handed[s])
    BY DEF TInv, TypeOK, HistoryTypes, SenderOrderKept
  <2>2. CASE s \in SessionsOf(peer[w], srv)
    <3>1. handed'[s] = Append(handed[s], m) /\ UserOf[s] = peer[w] /\ Home(s) = srv
      BY <2>2 DEF Notify, SessionsOf
    <3>2. \A k \in Msg : Holds(handed[s], k) /\ From[k] = From[m] => k < m
      BY <1>1, <3>1, LastOfItsSession DEF Holds, Got
    <3> HIDE DEF m
    <3> QED
      BY <1>1, <2>1, <3>1, <3>2, AppendAscends
  <2>3. CASE s \notin SessionsOf(peer[w], srv)
    BY <2>1, <2>3 DEF Notify
  <2> QED
    BY <2>2, <2>3
<1> QED
  BY <1>2 DEF SenderOrderKept, Ascending

(* Every step keeps SenderOrderKept. *)
LEMMA OrderStep ==
  TInv /\ RequestInv /\ ReachInv /\ PlaceInv /\ SenderOrderKept /\ [Next]_vars
    => SenderOrderKept'
<1> SUFFICES ASSUME TInv, RequestInv, ReachInv, PlaceInv, SenderOrderKept, [Next]_vars
             PROVE  SenderOrderKept'
  OBVIOUS
<1> USE DEF sessVars, redisVars, hostVars, workVars, histVars
<1>t. WorkerTypes /\ SharedTypes /\ CurOK
  BY DEF TInv, TypeOK
<1>1. CASE \/ \E s \in Session : ClientStep(s) \/ ClearStep(s)
           \/ \E m \in Msg : SendMsg(m)
           \/ \E srv \in Server : Restart(srv) \/ Crash(srv)
           \/ UNCHANGED vars
  <2>1. UNCHANGED <<handed, offline>>
    BY <1>1 DEF ClientStep, Connect, SendLogin, Disconnect, BadFrame, EndSession,
                ClearStep, ClearLookup, RmvUserSession, ClearCheck, ClearUnlist,
                SendMsg, Restart, Crash, vars
  <2> QED
    BY <2>1 DEF SenderOrderKept, Ascending
<1>2. ASSUME NEW w \in Worker,
             \/ LoginBegin(w) \/ LoginReject(w) \/ LoginBind(w)
             \/ AddOnlineServer(w) \/ SetUserSession(w) \/ LoginRespond(w)
             \/ MsgBegin(w) \/ MsgRefuse(w)
             \/ \E u \in User : GetOnlineServers(w, u)
             \/ FindNoneLocal(w) \/ UnlistLocal(w) \/ FanoutDone(w) \/ MsgEnd(w)
      PROVE  SenderOrderKept'
  <2>1. UNCHANGED <<handed, offline>>
    BY <1>2 DEF LoginBegin, LoginReject, LoginBind, AddOnlineServer, SetUserSession,
                LoginRespond, MsgBegin, MsgRefuse, GetOnlineServers, FindNoneLocal,
                UnlistLocal, FanoutDone, MsgEnd
  <2> QED
    BY <2>1 DEF SenderOrderKept, Ascending
<1>3. ASSUME NEW w \in Worker, NotifyLocal(w)
      PROVE  SenderOrderKept'
  <2>1. /\ pc[w] = "fanout" /\ ServerOf[w] \in todo[w]
        /\ Notify(cur[w].m, peer[w], ServerOf[w]) /\ UNCHANGED offline
    BY <1>3 DEF NotifyLocal
  <2> QED
    BY <2>1, NotifyInOrder
<1>4. ASSUME NEW w \in Worker, NEW srv \in Server, NotifyRemote(w, srv)
      PROVE  SenderOrderKept'
  <2>1. pc[w] = "fanout" /\ srv \in todo[w] /\ UNCHANGED offline
    BY <1>4 DEF NotifyRemote
  <2>2. CASE UNCHANGED handed
    BY <2>1, <2>2 DEF SenderOrderKept, Ascending
  <2>3. CASE Notify(cur[w].m, peer[w], srv)
    BY <2>1, <2>3, NotifyInOrder
  <2> QED
    BY <1>4, <2>2, <2>3 DEF NotifyRemote
(* The front of a list leaves it.                                          *)
<1>5. ASSUME NEW w \in Worker, LoginDrain(w)
      PROVE  SenderOrderKept'
  <2> DEFINE u0 == Me(w)
  <2>1. pc[w] \in LoginPC /\ offline[u0] # <<>> /\ UNCHANGED handed
        /\ offline' = [offline EXCEPT ![u0] = Tail(@)]
    BY <1>5 DEF LoginDrain, LoginPC, Popped
  <2>2. u0 \in User /\ offline[u0] \in Seq(Msg) /\ Ascending(offline[u0])
    <3>1. u0 \in User
      BY <2>1, InLogin
    <3> QED
      BY <1>t, <3>1 DEF SharedTypes, SenderOrderKept
  <2>3. offline'[u0] = Tail(offline[u0]) /\ \A u \in User \ {u0} : offline'[u] = offline[u]
    BY <1>t, <2>1, <2>2 DEF SharedTypes
  <2> HIDE DEF u0
  <2>4. \A u \in User : Ascending(offline'[u])
    BY <2>1, <2>2, <2>3, TailAscends DEF SenderOrderKept
  <2> QED
    BY <2>1, <2>4 DEF SenderOrderKept, Ascending
(* What is in the list has been stored, so it comes before.                *)
<1>6. ASSUME NEW w \in Worker, SaveOfflineTextMsg(w)
      PROVE  SenderOrderKept'
  <2> DEFINE m == cur[w].m
             r == peer[w]
  <2>1. pc[w] \in MsgPC /\ pc[w] \in PeerPC /\ UNCHANGED handed
        /\ offline' = [offline EXCEPT ![r] = Append(@, m)]
    BY <1>6 DEF SaveOfflineTextMsg, MsgPC, PeerPC, Pushed
  <2>2. m \in Msg /\ r \in User
    BY <1>t, <2>1 DEF CurOK
  <2>3. offline[r] \in Seq(Msg) /\ Ascending(offline[r])
    BY <1>t, <2>2 DEF SharedTypes, SenderOrderKept
  <2>4. offline'[r] = Append(offline[r], m) /\ \A u \in User \ {r} : offline'[u] = offline[u]
    BY <1>t, <2>1, <2>2 DEF SharedTypes
  <2>5. \A k \in Msg : Holds(offline[r], k) => <<k, r>> \in stored
    BY <2>2 DEF PlaceInv, OnePlace, OnList
  <2>6. \A k \in Msg : <<k, r>> \in stored /\ From[k] = From[m] => k < m
    BY <2>1, LastOfItsSession
  <2> HIDE DEF m, r
  <2>7. Ascending(offline'[r])
    BY <2>2, <2>3, <2>4, <2>5, <2>6, AppendAscends
  <2>8. \A u \in User : Ascending(offline'[u])
    BY <2>4, <2>7 DEF SenderOrderKept
  <2> QED
    BY <2>1, <2>8 DEF SenderOrderKept, Ascending
<1> QED
  BY <1>1, <1>2, <1>3, <1>4, <1>5, <1>6 DEF Next, WorkerStep

(* What one session sends is handed to each receiving session, and lies in *)
(* each offline list, in the order it was sent: one worker serves all the  *)
(* requests of a session, one after the other (SelectQueue, DealMsg).      *)
THEOREM OrderKept == Spec => []SenderOrderKept
<1> DEFINE Inv == TInv /\ RequestInv /\ ReachInv /\ LoginInv /\ PlaceInv /\ SenderOrderKept
<1>1. Init => SenderOrderKept
  BY DEF Init, SenderOrderKept, Ascending
<1>2. Init => Inv
  BY <1>1, TInvInit, InitRequest, InitReach, InitLogin, InitPlace
<1>3. Inv /\ [Next]_vars => Inv'
  BY TInvStep, RequestStep, ReachStep, LoginStep, PlaceStep, OrderStep
<1>4. Inv => SenderOrderKept
  OBVIOUS
<1> QED
  BY <1>2, <1>3, <1>4, PTL DEF Spec

-----------------------------------------------------------------------------
(* ChatDelivery implements Delivery.                                       *)

(* Whom a worker serves, and what it saves.                                *)
Recipients(w) ==
  /\ pc[w] \in MsgPC => rest[w] \subseteq To[cur[w].m]
  /\ pc[w] \in PeerPC => peer[w] \in To[cur[w].m]
  /\ pc[w] = "store" => OfflineAllowed(cur[w].m)

(* A message that is not dealt with is in its worker's queue or hands.     *)
Kept(m) ==
  LET w == WorkerOf[From[m]] IN
  /\ fate[m] = "queued" => \E i \in 1 .. Len(queue[w]) : queue[w][i].m = m
  /\ fate[m] = "handling" => pc[w] \in MsgPC /\ cur[w].m = m

(* What a login has popped is in order, and before all that is still in    *)
(* the list.                                                               *)
PoppedFirst(w) ==
  pc[w] \in LoginPC =>
    /\ Ascending(batch[w])
    /\ \A k, m \in Msg :
         Holds(batch[w], k) /\ Holds(offline[Me(w)], m) /\ From[k] = From[m] => k < m

RecipientInv == \A w \in Worker : Recipients(w)
KeptInv == \A m \in Msg : Kept(m)
PoppedInv == \A w \in Worker : PoppedFirst(w)

LEMMA InitPromise == Init => RecipientInv /\ KeptInv /\ PoppedInv
BY DEF Init, RecipientInv, Recipients, KeptInv, Kept, PoppedInv, PoppedFirst,
       MsgPC, PeerPC, LoginPC

LEMMA RecipientStep == TInv /\ RecipientInv /\ [Next]_vars => RecipientInv'
<1> SUFFICES ASSUME TInv, RecipientInv, [Next]_vars PROVE RecipientInv'
  OBVIOUS
<1> USE DEF sessVars, redisVars, hostVars, workVars, histVars
<1>t. WorkerTypes /\ CurOK
  BY DEF TInv, TypeOK
<1>u. \A k \in Msg : To[k] \in SUBSET User
  BY DeliveryAssumption
<1>1. CASE \/ \E s \in Session : ClientStep(s) \/ ClearStep(s)
           \/ \E m \in Msg : SendMsg(m)
           \/ \E srv \in Server : Restart(srv)
           \/ UNCHANGED vars
  <2>1. UNCHANGED <<pc, cur, rest, peer>>
    BY <1>1 DEF ClientStep, Connect, SendLogin, Disconnect, BadFrame, EndSession,
                ClearStep, ClearLookup, RmvUserSession, ClearCheck, ClearUnlist,
                SendMsg, Restart, vars
  <2> QED
    BY <2>1 DEF RecipientInv, Recipients, OfflineAllowed
<1>2. ASSUME NEW w \in Worker,
             \/ LoginBegin(w) \/ LoginReject(w) \/ LoginDrain(w) \/ LoginBind(w)
             \/ AddOnlineServer(w) \/ SetUserSession(w) \/ LoginRespond(w)
             \/ MsgRefuse(w) \/ MsgEnd(w)
      PROVE  RecipientInv'
  <2>1. /\ pc'[w] \notin MsgPC /\ pc'[w] \notin PeerPC /\ pc'[w] # "store"
        /\ \A v \in Worker \ {w} : UNCHANGED <<pc[v], cur[v], rest[v], peer[v]>>
    BY <1>2, <1>t DEF LoginBegin, LoginReject, LoginDrain, LoginBind, AddOnlineServer,
                      SetUserSession, LoginRespond, MsgRefuse, MsgEnd, DealMsg, Goto,
                      Return, WorkerTypes, MsgPC, PeerPC
  <2> QED
    BY <2>1 DEF RecipientInv, Recipients, OfflineAllowed
<1>3. ASSUME NEW w \in Worker, MsgBegin(w)
      PROVE  RecipientInv'
  <2>1. /\ pc'[w] = "lookup" /\ cur'[w] = Head(queue[w])
        /\ rest'[w] = To[Head(queue[w]).m]
        /\ \A v \in Worker \ {w} : UNCHANGED <<pc[v], cur[v], rest[v], peer[v]>>
    BY <1>3, <1>t DEF MsgBegin, DealMsg, WorkerTypes
  <2> QED
    BY <2>1 DEF RecipientInv, Recipients, OfflineAllowed, PeerPC
<1>4. ASSUME NEW w \in Worker, NEW u \in User, GetOnlineServers(w, u)
      PROVE  RecipientInv'
  <2>1. /\ pc[w] = "lookup" /\ u \in rest[w] /\ pc'[w] = "fanout" /\ cur' = cur
        /\ rest'[w] = rest[w] \ {u} /\ peer'[w] = u
        /\ \A v \in Worker \ {w} : UNCHANGED <<pc[v], rest[v], peer[v]>>
    BY <1>4, <1>t DEF GetOnlineServers, Goto, WorkerTypes
  <2> QED
    BY <2>1 DEF RecipientInv, Recipients, OfflineAllowed, MsgPC
<1>5. ASSUME NEW w \in Worker,
             \/ NotifyLocal(w) \/ FindNoneLocal(w) \/ UnlistLocal(w)
             \/ \E srv \in Server : NotifyRemote(w, srv)
             \/ FanoutDone(w) \/ SaveOfflineTextMsg(w)
      PROVE  RecipientInv'
  <2>1. /\ pc[w] \in MsgPC /\ pc[w] \in PeerPC /\ UNCHANGED <<cur, rest, peer>>
        /\ pc'[w] = "store" => OfflineAllowed(cur[w].m)
        /\ \A v \in Worker \ {w} : pc'[v] = pc[v]
    BY <1>5, <1>t DEF NotifyLocal, FindNoneLocal, UnlistLocal, NotifyRemote, FanoutDone,
                      NeedsOffline, SaveOfflineTextMsg, Goto, WorkerTypes, MsgPC, PeerPC
  <2> QED
    BY <2>1 DEF RecipientInv, Recipients, OfflineAllowed
<1>6. ASSUME NEW srv \in Server, Crash(srv)
      PROVE  RecipientInv'
  <2>1. \A v \in Worker : \/ pc'[v] = "idle"
                          \/ UNCHANGED <<pc[v], cur[v], rest[v], peer[v]>>
    BY <1>6 DEF Crash
  <2> QED
    BY <2>1 DEF RecipientInv, Recipients, OfflineAllowed, MsgPC, PeerPC
<1> QED
  BY <1>1, <1>2, <1>3, <1>4, <1>5, <1>6 DEF Next, WorkerStep

(* Requests are added at the end of a queue, if at all.                    *)
LEMMA KeptGrows ==
  ASSUME TInv, KeptInv, UNCHANGED <<pc, cur>>, NEW w \in Worker, NEW r \in Request,
         queue' = [queue EXCEPT ![w] = Append(@, r)],
         \A k \in Msg : fate'[k] = fate[k] \/ (fate'[k] = "queued" /\ r.m = k /\ w = WorkerOf[From[k]])
  PROVE  KeptInv'
<1>1. /\ queue'[w] = Append(queue[w], r) /\ queue[w] \in Seq(Request)
      /\ \A v \in Worker \ {w} : queue'[v] = queue[v]
  BY DEF TInv, TypeOK, WorkerTypes
<1>2. /\ Len(queue'[w]) = Len(queue[w]) + 1 /\ Len(queue[w]) \in Nat
      /\ \A i \in 1 .. Len(queue[w]) : queue'[w][i] = queue[w][i]
      /\ queue'[w][Len(queue[w]) + 1] = r
  BY <1>1, AppendElements
<1>3. /\ \A i \in 1 .. Len(queue[w]) : i \in 1 .. Len(queue'[w])
      /\ Len(queue[w]) + 1 \in 1 .. Len(queue'[w])
  BY <1>2
<1>4. \A v \in Worker : \A i \in 1 .. Len(queue[v]) :
        i \in 1 .. Len(queue'[v]) /\ queue'[v][i] = queue[v][i]
  BY <1>1, <1>2, <1>3
<1>5. ASSUME NEW k \in Msg PROVE Kept(k)'
  <2>1. WorkerOf[From[k]] \in Worker /\ Kept(k)
    BY DeliveryAssumption DEF KeptInv
  <2>2. CASE fate'[k] = fate[k]
    BY <1>4, <2>1, <2>2 DEF Kept
  <2>3. CASE fate'[k] = "queued" /\ r.m = k /\ w = WorkerOf[From[k]]
    BY <1>2, <1>3, <2>3 DEF Kept
  <2> QED
    BY <2>2, <2>3
<1> QED
  BY <1>5 DEF KeptInv

(* The first request of a queue is taken.                                  *)
LEMMA KeptTaken ==
  ASSUME TInv, KeptInv, NEW w \in Worker, queue[w] # <<>>, pc[w] = "idle",
         queue' = [queue EXCEPT ![w] = Tail(@)],
         \A v \in Worker \ {w} : UNCHANGED <<pc[v], cur[v]>>,
         \A k \in Msg : k # Head(queue[w]).m => fate'[k] = fate[k],
         \A k \in Msg : k = Head(queue[w]).m =>
           \/ fate'[k] \notin {"queued", "handling"}
           \/ fate'[k] = "handling" /\ pc'[w] \in MsgPC /\ cur'[w].m = k
  PROVE  KeptInv'
<1>1. /\ Head(queue[w]) = queue[w][1] /\ 1 \in 1 .. Len(queue[w])
      /\ queue[w] \in Seq(Request) /\ queue'[w] = Tail(queue[w])
      /\ \A v \in Worker \ {w} : queue'[v] = queue[v]
  BY Taken DEF TInv, TypeOK, WorkerTypes
<1>2. \A i \in 1 .. Len(queue[w]) : i # 1 =>
        i - 1 \in 1 .. Len(queue'[w]) /\ queue'[w][i - 1] = queue[w][i]
  <2>1. Len(Tail(queue[w])) = Len(queue[w]) - 1 /\ Len(queue[w]) \in Nat
    BY <1>1
  <2>2. \A j \in 1 .. Len(Tail(queue[w])) : Tail(queue[w])[j] = queue[w][j + 1]
    BY <1>1, TailElements
  <2>3. ASSUME NEW i \in 1 .. Len(queue[w]), i # 1
        PROVE  i - 1 \in 1 .. Len(queue'[w]) /\ queue'[w][i - 1] = queue[w][i]
    <3>1. i - 1 \in 1 .. Len(Tail(queue[w])) /\ (i - 1) + 1 = i
      BY <2>1, <2>3
    <3>2. Tail(queue[w])[i - 1] = queue[w][(i - 1) + 1]
      BY <2>2, <3>1
    <3> QED
      BY <1>1, <3>1, <3>2
  <2> QED
    BY <2>3
<1>3. ASSUME NEW k \in Msg PROVE Kept(k)'
  <2> DEFINE v == WorkerOf[From[k]]
  <2>1. v \in Worker /\ Kept(k)
    BY DeliveryAssumption DEF KeptInv
  <2>2. CASE k = Head(queue[w]).m
    <3>1. v = w
      BY <1>1, <2>2, QueuedRequests, DeliveryAssumption, SMTT(30)
    <3> QED
      BY <2>2, <3>1 DEF Kept
  <2>3. CASE k # Head(queue[w]).m /\ v # w
    <3>1. fate'[k] = fate[k] /\ queue'[v] = queue[v] /\ UNCHANGED <<pc[v], cur[v]>>
      BY <1>1, <2>1, <2>3
    <3> QED
      BY <2>1, <3>1 DEF Kept
  <2>4. CASE k # Head(queue[w]).m /\ v = w
    <3>1. fate'[k] = fate[k] /\ fate[k] # "handling"
      BY <2>1, <2>4 DEF Kept, MsgPC
    <3>2. CASE fate[k] = "queued"
      <4>1. PICK i \in 1 .. Len(queue[w]) : queue[w][i].m = k
        BY <2>1, <2>4, <3>2 DEF Kept
      <4>2. i # 1
        BY <1>1, <2>4, <4>1
      <4>3. i - 1 \in 1 .. Len(queue'[w]) /\ queue'[w][i - 1].m = k
        BY <1>2, <4>1, <4>2
      <4> QED
        BY <2>4, <3>1, <3>2, <4>3 DEF Kept
    <3> QED
      BY <3>1, <3>2 DEF Kept
  <2> QED
    BY <2>2, <2>3, <2>4
<1> QED
  BY <1>3 DEF KeptInv

LEMMA KeptAside ==
  ASSUME KeptInv, UNCHANGED <<fate, queue>>,
         \A w \in Worker : pc[w] \in MsgPC => pc'[w] \in MsgPC /\ cur'[w] = cur[w]
  PROVE  KeptInv'
<1>1. ASSUME NEW k \in Msg PROVE Kept(k)'
  <2>1. WorkerOf[From[k]] \in Worker /\ Kept(k)
    BY DeliveryAssumption DEF KeptInv
  <2> QED
    BY <2>1 DEF Kept
<1> QED
  BY <1>1 DEF KeptInv

LEMMA KeptStep == TInv /\ RequestInv /\ KeptInv /\ [Next]_vars => KeptInv'
<1> SUFFICES ASSUME TInv, RequestInv, KeptInv, [Next]_vars PROVE KeptInv'
  OBVIOUS
<1> USE DEF sessVars, redisVars, hostVars, workVars, histVars
<1>t. WorkerTypes /\ HistoryTypes /\ CurOK
  BY DEF TInv, TypeOK
<1>f. \A k \in Msg : /\ k # None /\ From[k] \in Session
                     /\ WorkerOf[From[k]] \in Worker
  BY DeliveryAssumption
<1>1. CASE \/ \E s \in Session :
                Connect(s) \/ Disconnect(s) \/ BadFrame(s) \/ ClearStep(s)
           \/ \E srv \in Server : Restart(srv)
           \/ UNCHANGED vars
  <2>1. UNCHANGED <<fate, queue, pc, cur>>
    BY <1>1 DEF Connect, Disconnect, BadFrame, EndSession, ClearStep, ClearLookup,
                RmvUserSession, ClearCheck, ClearUnlist, Restart, vars
  <2> QED
    BY <2>1, KeptAside
<1>2. ASSUME NEW w \in Worker,
             \/ LoginDrain(w) \/ LoginBind(w) \/ AddOnlineServer(w)
             \/ SetUserSession(w) \/ LoginRespond(w)
      PROVE  KeptInv'
  <2>1. /\ UNCHANGED <<fate, queue>> /\ pc[w] \notin MsgPC
        /\ \A v \in Worker \ {w} : pc'[v] = pc[v] /\ cur'[v] = cur[v]
    BY <1>2, <1>t DEF LoginDrain, LoginBind, AddOnlineServer, SetUserSession,
                      LoginRespond, Goto, Return, WorkerTypes, MsgPC
  <2> QED
    BY <2>1, KeptAside
<1>3. ASSUME NEW w \in Worker,
             \/ \E u \in User : GetOnlineServers(w, u)
             \/ NotifyLocal(w) \/ FindNoneLocal(w) \/ UnlistLocal(w)
             \/ \E srv \in Server : NotifyRemote(w, srv)
             \/ FanoutDone(w) \/ SaveOfflineTextMsg(w)
      PROVE  KeptInv'
  <2>1. /\ UNCHANGED <<fate, queue, cur>> /\ pc'[w] \in MsgPC
        /\ \A v \in Worker \ {w} : pc'[v] = pc[v]
    BY <1>3, <1>t DEF GetOnlineServers, NotifyLocal, FindNoneLocal, UnlistLocal,
                      NotifyRemote, FanoutDone, SaveOfflineTextMsg, Goto,
                      WorkerTypes, MsgPC
  <2> QED
    BY <2>1, KeptAside
<1>4. ASSUME NEW s \in Session, SendLogin(s)
      PROVE  KeptInv'
  <2>1. /\ WorkerOf[s] \in Worker /\ [s |-> s, m |-> None] \in Request
        /\ queue' = [queue EXCEPT ![WorkerOf[s]] = Append(@, [s |-> s, m |-> None])]
        /\ UNCHANGED <<fate, pc, cur>>
    BY <1>4, DeliveryAssumption DEF SendLogin, PostMsgToQue, Request
  <2> QED
    BY <2>1, KeptGrows
<1>5. ASSUME NEW m \in Msg, SendMsg(m)
      PROVE  KeptInv'
  <2> DEFINE r == [s |-> From[m], m |-> m]
  <2>1. /\ WorkerOf[From[m]] \in Worker /\ r \in Request /\ r.m = m
        /\ queue' = [queue EXCEPT ![WorkerOf[From[m]]] = Append(@, r)]
        /\ UNCHANGED <<pc, cur>>
    BY <1>5, <1>f DEF SendMsg, PostMsgToQue, Request
  <2>2. \A k \in Msg : fate'[k] = fate[k] \/ (fate'[k] = "queued" /\ k = m)
    BY <1>5, <1>t DEF SendMsg, HistoryTypes
  <2> HIDE DEF r
  <2> QED
    BY <2>1, <2>2, KeptGrows
<1>6. ASSUME NEW w \in Worker, LoginBegin(w) \/ LoginReject(w)
      PROVE  KeptInv'
  <2>1. /\ queue[w] # <<>> /\ pc[w] = "idle" /\ Head(queue[w]).m = None
        /\ queue' = [queue EXCEPT ![w] = Tail(@)] /\ fate' = fate
        /\ \A v \in Worker \ {w} : UNCHANGED <<pc[v], cur[v]>>
    BY <1>6, <1>t DEF LoginBegin, LoginReject, DealMsg, WorkerTypes
  <2>2. \A k \in Msg : k # Head(queue[w]).m
    BY <1>f, <2>1
  <2> QED
    BY <2>1, <2>2, KeptTaken
<1>7. ASSUME NEW w \in Worker, MsgBegin(w) \/ MsgRefuse(w)
      PROVE  KeptInv'
  <2>1. /\ queue[w] # <<>> /\ pc[w] = "idle" /\ queue' = [queue EXCEPT ![w] = Tail(@)]
        /\ \A v \in Worker \ {w} : UNCHANGED <<pc[v], cur[v]>>
    BY <1>7, <1>t DEF MsgBegin, MsgRefuse, DealMsg, WorkerTypes
  <2>2. \A k \in Msg : k # Head(queue[w]).m => fate'[k] = fate[k]
    BY <1>7, <1>t DEF MsgBegin, MsgRefuse, HistoryTypes
  <2>3. ASSUME NEW k \in Msg, k = Head(queue[w]).m
        PROVE  \/ fate'[k] \notin {"queued", "handling"}
               \/ fate'[k] = "handling" /\ pc'[w] \in MsgPC /\ cur'[w].m = k
    BY <1>7, <1>t, <2>3 DEF MsgBegin, MsgRefuse, DealMsg, HistoryTypes, WorkerTypes, MsgPC
  <2> QED
    BY <2>1, <2>2, <2>3, KeptTaken
<1>8. ASSUME NEW w \in Worker, MsgEnd(w)
      PROVE  KeptInv'
  <2>1. /\ pc[w] \in MsgPC /\ queue' = queue
        /\ \A v \in Worker \ {w} : UNCHANGED <<pc[v], cur[v]>>
        /\ \A k \in Msg : k # cur[w].m => fate'[k] = fate[k]
        /\ \A k \in Msg : k = cur[w].m => fate'[k] = "done"
    BY <1>8, <1>t DEF MsgEnd, Goto, Return, HistoryTypes, WorkerTypes, MsgPC
  <2>2. ASSUME NEW k \in Msg PROVE Kept(k)'
    <3>1. Kept(k) /\ WorkerOf[From[k]] \in Worker
      BY <1>f DEF KeptInv
    <3> QED
      BY <2>1, <3>1 DEF Kept
  <2> QED
    BY <2>2 DEF KeptInv
<1>9. ASSUME NEW srv \in Server, Crash(srv)
      PROVE  KeptInv'
  <2>1. ASSUME NEW k \in Msg PROVE Kept(k)'
    <3> DEFINE v == WorkerOf[From[k]]
    <3>1. Kept(k) /\ v \in Worker
      BY <1>f DEF KeptInv
    <3>2. CASE ServerOf[v] = srv
      <4>1. fate'[k] \notin {"queued", "handling"}
        BY <1>9, <3>2 DEF Crash, Home
      <4> QED
        BY <4>1 DEF Kept
    <3>3. CASE ServerOf[v] # srv
      <4>1. /\ fate'[k] = fate[k] /\ queue'[v] = queue[v]
            /\ pc'[v] = pc[v] /\ cur'[v] = cur[v]
        BY <1>9, <3>1, <3>3 DEF Crash, Home
      <4> QED
        BY <3>1, <4>1 DEF Kept
    <3> QED
      BY <3>2, <3>3
  <2> QED
    BY <2>1 DEF KeptInv
<1> QED
  BY <1>1, <1>2, <1>3, <1>4, <1>5, <1>6, <1>7, <1>8, <1>9
  DEF Next, ClientStep, WorkerStep

LEMMA NothingPopped == Ascending(<<>>) /\ \A m : ~Holds(<<>>, m)
BY DEF Ascending, Holds

LEMMA PoppedAside ==
  ASSUME PoppedInv, UNCHANGED <<batch, offline>>,
         \A w \in Worker : \/ pc'[w] \notin LoginPC
                           \/ pc[w] \in LoginPC /\ cur'[w] = cur[w]
                           \/ batch[w] = <<>>
  PROVE  PoppedInv'
<1>1. ASSUME NEW w \in Worker, pc'[w] \in LoginPC PROVE PoppedFirst(w)'
  <2>1. CASE batch[w] = <<>>
    BY <2>1, NothingPopped DEF PoppedFirst, Ascending, Holds
  <2>2. CASE pc[w] \in LoginPC /\ cur'[w] = cur[w]
    BY <2>2 DEF PoppedInv, PoppedFirst, Me, Ascending, Holds
  <2> QED
    BY <1>1, <2>1, <2>2
<1> QED
  BY <1>1 DEF PoppedInv, PoppedFirst

LEMMA PoppedStep ==
  /\ TInv /\ RequestInv /\ ReachInv /\ PlaceInv /\ SenderOrderKept /\ PoppedInv
  /\ [Next]_vars
  => PoppedInv'
<1> SUFFICES ASSUME TInv, RequestInv, ReachInv, PlaceInv, SenderOrderKept, PoppedInv,
                    [Next]_vars
             PROVE  PoppedInv'
  OBVIOUS
<1> USE DEF sessVars, redisVars, hostVars, workVars, histVars
<1>t. WorkerTypes /\ SharedTypes /\ CurOK
  BY DEF TInv, TypeOK
<1>1. CASE \/ \E s \in Session : ClientStep(s) \/ ClearStep(s)
           \/ \E m \in Msg : SendMsg(m)
           \/ \E srv \in Server : Restart(srv)
           \/ UNCHANGED vars
  <2>1. UNCHANGED <<pc, cur, batch, offline>>
    BY <1>1 DEF ClientStep, Connect, SendLogin, Disconnect, BadFrame, EndSession,
                ClearStep, ClearLookup, RmvUserSession, ClearCheck, ClearUnlist,
                SendMsg, Restart, vars
  <2> QED
    BY <2>1, PoppedAside
<1>2. ASSUME NEW w \in Worker,
             \/ LoginBegin(w) \/ LoginReject(w) \/ MsgBegin(w) \/ MsgRefuse(w)
             \/ \E u \in User : GetOnlineServers(w, u)
             \/ NotifyLocal(w) \/ FindNoneLocal(w) \/ UnlistLocal(w)
             \/ \E srv \in Server : NotifyRemote(w, srv)
             \/ FanoutDone(w) \/ MsgEnd(w)
      PROVE  PoppedInv'
  <2>1. /\ UNCHANGED <<batch, offline>>
        /\ pc'[w] \notin LoginPC \/ pc[w] = "idle"
        /\ \A v \in Worker \ {w} : pc'[v] = pc[v] /\ cur'[v] = cur[v]
    BY <1>2, <1>t DEF LoginBegin, LoginReject, MsgBegin, MsgRefuse, GetOnlineServers,
         NotifyLocal, FindNoneLocal, UnlistLocal, NotifyRemote, FanoutDone, MsgEnd,
         DealMsg, Goto, Return, WorkerTypes, LoginPC
  <2>2. pc[w] = "idle" => batch[w] = <<>>
    BY <1>t DEF CurOK, LoginPC
  <2> QED
    BY <2>1, <2>2, PoppedAside
<1>3. ASSUME NEW w \in Worker, LoginBind(w) \/ AddOnlineServer(w) \/ SetUserSession(w)
      PROVE  PoppedInv'
  <2>1. /\ UNCHANGED <<batch, offline, cur>> /\ pc[w] \in LoginPC
        /\ \A v \in Worker \ {w} : pc'[v] = pc[v]
    BY <1>3, <1>t DEF LoginBind, AddOnlineServer, SetUserSession, Goto, WorkerTypes,
                      LoginPC
  <2> QED
    BY <2>1, PoppedAside
<1>4. ASSUME NEW w \in Worker, LoginRespond(w)
      PROVE  PoppedInv'
  <2>1. /\ offline' = offline /\ pc'[w] \notin LoginPC
        /\ \A v \in Worker \ {w} : UNCHANGED <<pc[v], cur[v], batch[v]>>
    BY <1>4, <1>t DEF LoginRespond, Goto, Return, WorkerTypes, LoginPC
  <2> QED
    BY <2>1, SMTT(30) DEF PoppedInv, PoppedFirst, Me, Ascending, Holds
<1>5. ASSUME NEW srv \in Server, Crash(srv)
      PROVE  PoppedInv'
  <2>1. /\ offline' = offline
        /\ \A v \in Worker : \/ pc'[v] \notin LoginPC
                             \/ UNCHANGED <<pc[v], cur[v], batch[v]>>
    BY <1>5 DEF Crash, LoginPC
  <2> QED
    BY <2>1, SMTT(30) DEF PoppedInv, PoppedFirst, Me, Ascending, Holds
(* The front of the list goes to the end of the batch.                     *)
<1>6. ASSUME NEW w \in Worker, LoginDrain(w)
      PROVE  PoppedInv'
  <2> DEFINE u0 == Me(w)
             q == offline[u0]
             h == Head(q)
  <2>1. /\ pc[w] \in LoginPC /\ u0 \in User /\ batch[w] \in Seq(Msg)
        /\ q \in Seq(Msg) /\ q # <<>> /\ Ascending(q)
    <3>1. pc[w] \in LoginPC /\ offline[u0] # <<>>
      BY <1>6 DEF LoginDrain, LoginPC
    <3>2. u0 \in User /\ batch[w] \in Seq(Msg)
      BY <3>1, InLogin
    <3> QED
      BY <1>t, <3>1, <3>2 DEF SharedTypes, SenderOrderKept
  <2>2. /\ UNCHANGED <<pc, cur>>
        /\ offline'[u0] = Tail(q) /\ batch'[w] = Append(batch[w], h)
        /\ \A u \in User \ {u0} : offline'[u] = offline[u]
        /\ \A v \in Worker \ {w} : batch'[v] = batch[v]
    BY <1>6, <1>t, <2>1 DEF LoginDrain, Popped, WorkerTypes, SharedTypes
  <2>3. /\ h \in Msg /\ Holds(q, h)
        /\ \A m \in Msg : Holds(q, m) <=> Holds(Tail(q), m) \/ m = h
    BY <2>1, TailHolds
  <2>4. \A m \in Msg : Holds(batch'[w], m) <=> Holds(batch[w], m) \/ m = h
    BY <2>1, <2>2, <2>3, AppendHolds
  <2>5. ASSUME NEW m \in Msg, Holds(Tail(q), m), From[m] = From[h]
        PROVE  h < m
    BY <2>1, <2>5, HeadFirst
  <2> HIDE DEF q, h
  <2>6. PoppedFirst(w)
    BY DEF PoppedInv
  <2>7. /\ Ascending(batch[w])
        /\ \A k, m \in Msg : Holds(batch[w], k) /\ Holds(q, m) /\ From[k] = From[m] => k < m
    BY <2>1, <2>6 DEF PoppedFirst, q
  <2>8. Ascending(batch'[w])
    <3>1. \A k \in Msg : Holds(batch[w], k) /\ From[k] = From[h] => k < h
      BY <2>3, <2>7
    <3> QED
      BY <2>1, <2>2, <2>3, <2>7, <3>1, AppendAscends
  <2>9. \A k, m \in Msg :
          Holds(batch'[w], k) /\ Holds(offline'[u0], m) /\ From[k] = From[m] => k < m
    BY <2>2, <2>3, <2>4, <2>5, <2>7
  <2>10. PoppedFirst(w)'
    BY <2>2, <2>8, <2>9 DEF PoppedFirst, Me, Ascending, Holds
  <2>11. ASSUME NEW v \in Worker, v # w, pc[v] \in LoginPC
         PROVE  PoppedFirst(v)'
    <3>1. Me(v) \in User
      BY <2>11, InLogin
    <3>2. \A m \in Msg : Holds(offline'[Me(v)], m) => Holds(offline[Me(v)], m)
      BY <2>2, <2>3, <3>1 DEF q
    <3>3. /\ Ascending(batch[v])
          /\ \A k, m \in Msg : Holds(batch[v], k) /\ Holds(offline[Me(v)], m)
                               /\ From[k] = From[m] => k < m
      BY <2>11 DEF PoppedInv, PoppedFirst
    <3>4. batch'[v] = batch[v] /\ Me(v)' = Me(v)
      BY <2>2, <2>11 DEF Me
    <3>5. Ascending(batch'[v])
      BY <3>3, <3>4
    <3>6. \A k, m \in Msg : Holds(batch'[v], k) /\ Holds(offline'[Me(v)], m)
                               /\ From[k] = From[m] => k < m
      BY <3>2, <3>3, <3>4
    <3> QED
      BY <3>4, <3>5, <3>6 DEF PoppedFirst, Ascending, Holds
  <2> QED
    BY <2>2, <2>10, <2>11 DEF PoppedInv, PoppedFirst
(* What a login has popped was saved before.                               *)
<1>7. ASSUME NEW w \in Worker, SaveOfflineTextMsg(w)
      PROVE  PoppedInv'
  <2> DEFINE e == cur[w].m
             r == peer[w]
  <2>1. /\ pc[w] \in MsgPC /\ pc[w] \in PeerPC /\ UNCHANGED <<batch, cur>>
        /\ offline' = [offline EXCEPT ![r] = Append(@, e)]
        /\ pc'[w] \notin LoginPC /\ \A v \in Worker \ {w} : pc'[v] = pc[v]
    BY <1>7, <1>t DEF SaveOfflineTextMsg, MsgPC, PeerPC, LoginPC, Pushed, Goto, WorkerTypes
  <2>2. e \in Msg /\ r \in User
    BY <1>t, <2>1 DEF CurOK
  <2>3. offline'[r] = Append(offline[r], e) /\ \A u \in User \ {r} : offline'[u] = offline[u]
    BY <1>t, <2>1, <2>2 DEF SharedTypes
  <2>4. \A m \in Msg : Holds(offline'[r], m) <=> Holds(offline[r], m) \/ m = e
    <3>1. offline[r] \in Seq(Msg)
      BY <1>t, <2>2 DEF SharedTypes
    <3> QED
      BY <2>2, <2>3, <3>1, AppendHolds
  <2>5. \A k \in Msg : <<k, r>> \in stored /\ From[k] = From[e] => k < e
    BY <2>1, LastOfItsSession
  <2> HIDE DEF e, r
  <2>6. ASSUME NEW v \in Worker, v # w, pc[v] \in LoginPC
        PROVE  PoppedFirst(v)'
    <3>1. Me(v) \in User /\ Me(v)' = Me(v) /\ batch'[v] = batch[v]
      BY <2>1, <2>6, InLogin DEF Me
    <3>2. /\ Ascending(batch[v])
          /\ \A k, m \in Msg : Holds(batch[v], k) /\ Holds(offline[Me(v)], m)
                               /\ From[k] = From[m] => k < m
      BY <2>6 DEF PoppedInv, PoppedFirst
    <3>3. \A k \in Msg : Holds(batch[v], k) => <<k, Me(v)>> \in stored
      BY <2>6, <3>1 DEF PlaceInv, OnePlace, OnBatch
    <3>4. ASSUME NEW k \in Msg, NEW m \in Msg, Holds(batch[v], k),
                 Holds(offline'[Me(v)], m), From[k] = From[m]
          PROVE  k < m
      <4>1. CASE Holds(offline[Me(v)], m)
        BY <3>2, <3>4, <4>1
      <4>2. CASE Me(v) = r /\ m = e
        BY <2>5, <3>3, <3>4, <4>2
      <4> QED
        BY <2>3, <2>4, <3>1, <3>4, <4>1, <4>2
    <3> QED
      BY <3>1, <3>2, <3>4 DEF PoppedFirst, Ascending, Holds
  <2> QED
    BY <2>1, <2>6 DEF PoppedInv, PoppedFirst
<1> QED
  BY <1>1, <1>2, <1>3, <1>4, <1>5, <1>6, <1>7 DEF Next, WorkerStep

(* All that is known of a state of ChatDelivery.                           *)
PromiseInv ==
  /\ TInv /\ RequestInv /\ ReachInv /\ LoginInv /\ PlaceInv /\ SenderOrderKept
  /\ SettledInv /\ RecipientInv /\ KeptInv /\ PoppedInv

LEMMA PromiseInvInit == Init => PromiseInv
<1>1. Init => SenderOrderKept
  BY DEF Init, SenderOrderKept, Ascending
<1> QED
  BY <1>1, TInvInit, InitRequest, InitReach, InitLogin, InitPlace, SettledInit, InitPromise
  DEF PromiseInv

LEMMA PromiseInvStep == PromiseInv /\ [Next]_vars => PromiseInv'
BY TInvStep, RequestStep, ReachStep, LoginStep, PlaceStep, OrderStep, SettledStep,
   RecipientStep, KeptStep, PoppedStep
DEF PromiseInv

LEMMA SentBefore == ASSUME NEW m \in Msg, SendMsg(m) PROVE Promise!Send(m)
BY DEF SendMsg, Promise!Send, Promise!Before, Promise!SetFate

(* A worker takes the requests of a session one after the other.           *)
LEMMA TakenInTurn ==
  ASSUME TInv, RequestInv, KeptInv, NEW w \in Worker, MsgBegin(w) \/ MsgRefuse(w)
  PROVE  \E m \in Msg : Promise!Take(m)
<1> USE DEF histVars
<1> DEFINE m == Head(queue[w]).m
<1>1. /\ pc[w] = "idle" /\ queue[w] # <<>> /\ m # None
      /\ queue' = [queue EXCEPT ![w] = Tail(@)]
      /\ \/ fate' = [fate EXCEPT ![m] = "handling"]
         \/ fate' = [fate EXCEPT ![m] = "refused"]
      /\ UNCHANGED <<handed, stored, doubtful, fetched, dropped>>
  BY DEF MsgBegin, MsgRefuse, DealMsg
<1>2. /\ Head(queue[w]) = queue[w][1] /\ 1 \in 1 .. Len(queue[w])
      /\ Len(queue[w]) \in Nat
  BY <1>1, Taken, QueuedRequests
<1>3. /\ m \in Msg /\ m = queue[w][1].m /\ From[m] = queue[w][1].s
      /\ WorkerOf[From[m]] = w
  BY <1>1, <1>2, QueuedRequests
<1>4. fate[m] = "queued" /\ Queued(w)
  BY <1>1, <1>2, <1>3 DEF RequestInv, Queued
<1> HIDE DEF m
<1>5. ASSUME NEW k \in Msg, From[k] = From[m], k < m
      PROVE  fate[k] \in {"done", "refused", "lost"}
  <2>1. Kept(k) /\ WorkerOf[From[k]] = w
    BY <1>3, <1>5 DEF KeptInv
  <2>2. fate[k] # "unsent"
    BY <1>3, <1>4, <1>5 DEF RequestInv, SentInOrder
  <2>3. fate[k] # "handling"
    BY <1>1, <2>1 DEF Kept, MsgPC
  <2>4. fate[k] # "queued"
    <3> SUFFICES ASSUME fate[k] = "queued" PROVE FALSE
      OBVIOUS
    <3>1. PICK i \in 1 .. Len(queue[w]) : queue[w][i].m = k
      BY <2>1 DEF Kept
    <3>2. k \in Nat /\ m \in Nat /\ k # None
      BY <1>3, DeliveryAssumption
    <3>3. queue[w][i].m # None /\ queue[w][i].s = queue[w][1].s
      BY <1>3, <1>5, <3>1, <3>2, QueuedRequests
    <3>4. 1 < i
      BY <1>2, <1>3, <1>5, <3>1, <3>2
    <3>5. queue[w][1].m < queue[w][i].m
      BY <1>1, <1>2, <1>3, <1>4, <3>3, <3>4 DEF Queued
    <3> QED
      BY <1>3, <1>5, <3>1, <3>2, <3>5
  <2>5. fate[k] \in {"unsent", "queued", "handling", "done", "refused", "lost"}
    BY DEF TInv, TypeOK, HistoryTypes
  <2> QED
    BY <2>2, <2>3, <2>4, <2>5
<1>6. Promise!Take(m)
  BY <1>1, <1>4, <1>5 DEF Promise!Take, Promise!Before, Promise!SetFate
<1> QED
  BY <1>3, <1>6

(* A notification goes to sessions of a recipient that lack the message.   *)
LEMMA NotifyHands ==
  ASSUME TInv, RequestInv, ReachInv, RecipientInv, NEW w \in Worker, NEW srv,
         pc[w] = "fanout", srv \in todo[w], Notify(cur[w].m, peer[w], srv),
         UNCHANGED <<fate, stored, fetched, dropped>>,
         \/ doubtful' = doubtful
         \/ doubtful' = doubtful \cup {<<cur[w].m, peer[w]>>}
  PROVE  \E m \in Msg, u \in User : Promise!Hand(m, u)
<1> DEFINE m == cur[w].m
           u == peer[w]
           S == SessionsOf(u, srv)
<1>1. pc[w] \in MsgPC /\ pc[w] \in PeerPC /\ m \in Msg /\ u \in User
  BY DEF MsgPC, PeerPC, TInv, CurOK
<1>2. fate[m] = "handling" /\ <<m, u>> \notin stored /\ u \in To[m]
  BY <1>1 DEF RequestInv, Handled, ReachInv, Reach, RecipientInv, Recipients
<1>3. \A s \in S : s \in Session /\ UserOf[s] = u /\ Home(s) = srv
  BY DEF SessionsOf, TInv, TypeOK, SessionTypes
<1>4. \A s \in S : ~Got(s, m)
  BY <1>1, <1>3 DEF ReachInv, Reach
<1>5. S \in SUBSET {s \in Session : UserOf[s] = u /\ ~Promise!In(m, handed[s])}
  BY <1>3, <1>4 DEF Got, Promise!In
<1>6. handed' = [s \in Session |-> IF s \in S THEN Append(handed[s], m) ELSE handed[s]]
  BY DEF Notify
<1> HIDE DEF m, u, S
<1>7. Promise!Hand(m, u)
  BY <1>2, <1>5, <1>6 DEF Promise!Hand, m, u
<1> QED
  BY <1>1, <1>7

(* What is saved has not been handed over for certain.                     *)
LEMMA SavedInDoubt ==
  ASSUME TInv, RequestInv, ReachInv, RecipientInv, NEW w \in Worker, SaveOfflineTextMsg(w)
  PROVE  \E m \in Msg, u \in User : Promise!Save(m, u)
<1> DEFINE m == cur[w].m
           u == peer[w]
<1>1. /\ pc[w] = "store" /\ stored' = stored \cup {<<m, u>>}
      /\ UNCHANGED <<fate, handed, doubtful, fetched, dropped>>
  BY DEF SaveOfflineTextMsg
<1>2. pc[w] \in MsgPC /\ pc[w] \in PeerPC /\ m \in Msg /\ u \in User
  BY <1>1 DEF MsgPC, PeerPC, TInv, CurOK
<1>3. /\ fate[m] = "handling" /\ <<m, u>> \notin stored /\ u \in To[m]
      /\ OfflineAllowed(m)
  BY <1>1, <1>2 DEF RequestInv, Handled, ReachInv, Reach, RecipientInv, Recipients
<1>4. \A s \in Session : UserOf[s] = u /\ Got(s, m) => <<m, u>> \in doubtful
  BY <1>1, <1>2 DEF ReachInv, Reach
<1> HIDE DEF m, u
<1>5. Promise!Save(m, u)
  BY <1>1, <1>2, <1>3, <1>4 DEF Promise!Save, Promise!Reached, Promise!In, Got
<1> QED
  BY <1>2, <1>5

(* A handler ends when it has accounted for all recipients.                *)
LEMMA EndedSettled ==
  ASSUME TInv, RequestInv, SettledInv, NEW w \in Worker, MsgEnd(w)
  PROVE  \E m \in Msg : Promise!Finish(m)
<1> USE DEF redisVars
<1> DEFINE m == cur[w].m
<1>1. /\ pc[w] = "lookup" /\ rest[w] = {} /\ fate' = [fate EXCEPT ![m] = "done"]
      /\ UNCHANGED <<handed, stored, doubtful, fetched, dropped>>
  BY DEF MsgEnd
<1>2. pc[w] \in MsgPC /\ pc[w] \notin PeerPC /\ m \in Msg
  BY <1>1 DEF MsgPC, PeerPC, TInv, CurOK
<1>3. fate[m] = "handling"
  BY <1>2 DEF RequestInv, Handled
<1>4. \A u \in To[m] : Accounted(m, u)
  BY <1>1, <1>2 DEF SettledInv, Progress
<1> HIDE DEF m
<1>5. Promise!Finish(m)
  BY <1>1, <1>2, <1>3, <1>4
  DEF Promise!Finish, Promise!SetFate, Promise!Reached, Promise!In, Got, Accounted, Has
<1> QED
  BY <1>2, <1>5

(* A login response carries what waited for the user, in order.            *)
LEMMA RespondFetches ==
  ASSUME TInv, LoginInv, PlaceInv, PoppedInv, NEW w \in Worker, LoginRespond(w)
  PROVE  \E s \in Session : Promise!Fetch(s)
<1> DEFINE s == cur[w].s
           q == batch[w]
<1>1. /\ pc[w] = "respond" /\ fetched' = [fetched EXCEPT ![s] = q]
      /\ UNCHANGED <<fate, handed, stored, doubtful, dropped>>
  BY DEF LoginRespond
<1>2. pc[w] \in LoginPC /\ s \in Session /\ UserOf[s] = Me(w) /\ Me(w) \in User
      /\ q \in Seq(Msg)
  BY <1>1, InLogin DEF LoginPC
<1>3. fetched[s] = <<>> /\ fetched'[s] = q
  BY <1>1, <1>2 DEF LoginInv, LoggingIn, TInv, TypeOK, HistoryTypes
<1>4. ASSUME NEW i \in DOMAIN q
      PROVE  Promise!Waiting(q[i], UserOf[s])
  <2>1. q[i] \in Msg /\ OnBatch(q[i], Me(w), w)
    BY <1>2 DEF OnBatch, Holds
  <2>2. /\ <<q[i], Me(w)>> \in stored /\ ~Lost(q[i], Me(w))
        /\ \A t \in Session : ~OnReply(q[i], Me(w), t)
    BY <1>2, <2>1 DEF PlaceInv, OnePlace
  <2> QED
    BY <1>2, <2>2 DEF Promise!Waiting, Promise!In, Lost, OnReply, Holds
<1>5. Ascending(q)
  BY <1>2 DEF PoppedInv, PoppedFirst
<1> HIDE DEF s, q
<1>6. fetched' = [fetched EXCEPT ![s] = fetched'[s]]
  BY <1>1, <1>3
<1>7. Promise!Fetch(s)
  BY <1>1, <1>2, <1>3, <1>4, <1>5, <1>6 DEF Promise!Fetch, Promise!Ascending, Ascending
<1> QED
  BY <1>2, <1>7

(* A crash loses what its server holds.                                    *)
LEMMA CrashLoses ==
  ASSUME TInv, PlaceInv, NEW srv \in Server, Crash(srv)
  PROVE  \E S \in SUBSET Session : Promise!Lose(S)
<1> DEFINE S == {s \in Session : Home(s) = srv}
<1>1. fate' = [m \in Msg |-> IF From[m] \in S /\ fate[m] \in {"queued", "handling"}
                             THEN "lost" ELSE fate[m]]
  BY DeliveryAssumption DEF Crash
<1>2. dropped' = dropped \cup UNION {PoppedBy(v) \X {Me(v)} :
                   v \in {x \in Worker : ServerOf[x] = srv /\ batch[x] # <<>>}}
  BY DEF Crash
<1>3. UNCHANGED <<handed, stored, doubtful, fetched>>
  BY DEF Crash
<1>4. ASSUME NEW m \in Msg, NEW u \in User, <<m, u>> \in dropped' \ dropped
      PROVE  Promise!Waiting(m, u) /\ \E s \in S : UserOf[s] = u
  <2>1. PICK v \in Worker : /\ ServerOf[v] = srv /\ batch[v] # <<>>
                            /\ m \in PoppedBy(v) /\ Me(v) = u
    BY <1>2, <1>4
  <2>2. pc[v] \in LoginPC /\ Holds(batch[v], m)
    BY <2>1 DEF TInv, CurOK, PoppedBy, Holds
  <2>3. OnBatch(m, u, v)
    BY <2>1, <2>2 DEF OnBatch
  <2>4. /\ <<m, u>> \in stored /\ ~Lost(m, u)
        /\ \A t \in Session : ~OnReply(m, u, t)
    BY <2>3 DEF PlaceInv, OnePlace
  <2>5. Promise!Waiting(m, u)
    BY <2>4 DEF Promise!Waiting, Promise!In, Lost, OnReply, Holds
  <2>6. cur[v].s \in Session /\ UserOf[cur[v].s] = u /\ WorkerOf[cur[v].s] = v
    BY <2>1, <2>2, InLogin DEF TInv, CurOK, LoginPC
  <2> QED
    BY <2>1, <2>5, <2>6 DEF Home
<1>5. dropped' \subseteq Msg \X User
  BY TInvStep DEF Next, TInv, TypeOK, HistoryTypes
<1>6. dropped \subseteq dropped'
  BY <1>2
<1> HIDE DEF S
<1>7. Promise!Lose(S)
  BY <1>1, <1>3, <1>4, <1>5, <1>6 DEF Promise!Lose
<1> QED
  BY <1>7 DEF S

(* Every step of the servers is a step of the promise, or changes nothing  *)
(* that it speaks of.                                                      *)
LEMMA DeliveryStep == PromiseInv /\ [Next]_vars => [Promise!Next]_(Promise!vars)
<1> SUFFICES ASSUME PromiseInv, [Next]_vars
             PROVE  Promise!Next \/ UNCHANGED Promise!vars
  OBVIOUS
<1> USE DEF PromiseInv, sessVars, redisVars, hostVars, workVars, histVars
<1>1. CASE \/ \E s \in Session : ClientStep(s) \/ ClearStep(s)
           \/ \E srv \in Server : Restart(srv)
           \/ UNCHANGED vars
  BY <1>1 DEF ClientStep, Connect, SendLogin, Disconnect, BadFrame, EndSession, ClearStep,
              ClearLookup, RmvUserSession, ClearCheck, ClearUnlist, Restart, vars,
              Promise!vars
<1>2. ASSUME NEW w \in Worker,
             \/ LoginBegin(w) \/ LoginReject(w) \/ LoginDrain(w) \/ LoginBind(w)
             \/ AddOnlineServer(w) \/ SetUserSession(w)
             \/ \E u \in User : GetOnlineServers(w, u)
             \/ FindNoneLocal(w) \/ UnlistLocal(w) \/ FanoutDone(w)
      PROVE  UNCHANGED Promise!vars
  BY <1>2 DEF LoginBegin, LoginReject, LoginDrain, LoginBind, AddOnlineServer,
              SetUserSession, GetOnlineServers, FindNoneLocal, UnlistLocal, FanoutDone,
              Promise!vars
<1>3. ASSUME NEW m \in Msg, SendMsg(m) PROVE Promise!Next
  BY <1>3, SentBefore DEF Promise!Next
<1>4. ASSUME NEW w \in Worker, LoginRespond(w) PROVE Promise!Next
  BY <1>4, RespondFetches DEF Promise!Next
<1>5. ASSUME NEW w \in Worker, MsgBegin(w) \/ MsgRefuse(w) PROVE Promise!Next
  BY <1>5, TakenInTurn DEF Promise!Next
<1>6. ASSUME NEW w \in Worker, NotifyLocal(w) PROVE Promise!Next
  <2>1. /\ pc[w] = "fanout" /\ ServerOf[w] \in todo[w]
        /\ Notify(cur[w].m, peer[w], ServerOf[w])
        /\ UNCHANGED <<fate, stored, doubtful, fetched, dropped>>
    BY <1>6 DEF NotifyLocal
  <2> QED
    BY <2>1, NotifyHands DEF Promise!Next
<1>7. ASSUME NEW w \in Worker, NEW srv \in Server, NotifyRemote(w, srv)
      PROVE  Promise!Next \/ UNCHANGED Promise!vars
  <2>1. /\ pc[w] = "fanout" /\ srv \in todo[w]
        /\ UNCHANGED <<fate, stored, fetched, dropped>>
    BY <1>7 DEF NotifyRemote
  <2>2. \/ UNCHANGED <<handed, doubtful>>
        \/ /\ Notify(cur[w].m, peer[w], srv)
           /\ \/ doubtful' = doubtful
              \/ doubtful' = doubtful \cup {<<cur[w].m, peer[w]>>}
    BY <1>7 DEF NotifyRemote
  <2>3. CASE UNCHANGED <<handed, doubtful>>
    BY <2>1, <2>3 DEF Promise!vars
  <2>4. CASE /\ Notify(cur[w].m, peer[w], srv)
             /\ \/ doubtful' = doubtful
                \/ doubtful' = doubtful \cup {<<cur[w].m, peer[w]>>}
    BY <2>1, <2>4, NotifyHands DEF Promise!Next
  <2> QED
    BY <2>2, <2>3, <2>4
<1>8. ASSUME NEW w \in Worker, SaveOfflineTextMsg(w) PROVE Promise!Next
  BY <1>8, SavedInDoubt DEF Promise!Next
<1>9. ASSUME NEW w \in Worker, MsgEnd(w) PROVE Promise!Next
  BY <1>9, EndedSettled DEF Promise!Next
<1>10. ASSUME NEW srv \in Server, Crash(srv) PROVE Promise!Next
  BY <1>10, CrashLoses DEF Promise!Next
<1> QED
  BY <1>1, <1>2, <1>3, <1>4, <1>5, <1>6, <1>7, <1>8, <1>9, <1>10 DEF Next, WorkerStep

(* Workers, presence entries, remote calls, logins and crashes together    *)
(* keep the promise of Delivery: the messages of a session one after the   *)
(* other, each handed to a session of a recipient at most once or saved,   *)
(* both only in doubt, and what is saved fetched once and in order, or     *)
(* lost with a server (LogicSystem, ChatServiceImpl).                      *)
THEOREM DeliveryImplemented == Spec => DeliverySpec
<1>1. Init => Promise!Init
  BY DEF Init, Promise!Init
<1> QED
  BY <1>1, PromiseInvInit, PromiseInvStep, DeliveryStep,
     PTL DEF Spec, DeliverySpec, Promise!Spec

-----------------------------------------------------------------------------
(* What the promise of Delivery is worth to the clients, whoever keeps it. *)

Dealt == {"done", "refused", "lost"}

PromiseTypes ==
  /\ fate \in [Msg -> {"unsent", "queued", "handling"} \cup Dealt]
  /\ handed \in [Session -> Seq(Msg)] /\ fetched \in [Session -> Seq(Msg)]

(* Messages of one session are sent, and dealt with, in order.             *)
InTurn ==
  \A k, m \in Msg : From[k] = From[m] /\ k < m =>
    /\ fate[k] = "unsent" => fate[m] = "unsent"
    /\ fate[m] \notin {"unsent", "queued"} => fate[k] \in Dealt

(* What a session has been handed was taken before.                        *)
HandedLater ==
  \A s \in Session, m \in Msg :
    Promise!In(m, handed[s]) => fate[m] \notin {"unsent", "queued"}

ClientInv ==
  PromiseTypes /\ InTurn /\ HandedLater /\ Promise!HandedOnce /\ Promise!FetchedOnce

LEMMA InitClient == Promise!Init => ClientInv
BY DEF Promise!Init, ClientInv, PromiseTypes, Dealt, InTurn, HandedLater,
       Promise!In, Promise!HandedOnce, Promise!FetchedOnce, Promise!Ascending

(* The fate of messages moves on.                                          *)
LEMMA FateMoves ==
  ASSUME ClientInv,
         \/ \E m \in Msg : Promise!Send(m) \/ Promise!Take(m) \/ Promise!Finish(m)
         \/ \E S \in SUBSET Session : Promise!Lose(S)
  PROVE  /\ PromiseTypes' /\ InTurn' /\ HandedLater' /\ Promise!HandedOnce'
         /\ UNCHANGED <<handed, fetched>>
<1> USE DEF ClientInv, PromiseTypes, Dealt
<1>f. \A k \in Msg : k \in Nat /\ From[k] \in Session
  BY DeliveryAssumption
<1>1. UNCHANGED <<handed, fetched>>
  BY DEF Promise!Send, Promise!Take, Promise!Finish, Promise!Lose
<1>2. Promise!HandedOnce'
  BY <1>1 DEF Promise!HandedOnce, Promise!Ascending
<1>3. ASSUME NEW m \in Msg, Promise!Send(m)
      PROVE  PromiseTypes' /\ InTurn' /\ HandedLater'
  <2>1. /\ fate' = [fate EXCEPT ![m] = "queued"] /\ fate[m] = "unsent"
        /\ \A k \in Msg : From[k] = From[m] /\ k < m => fate[k] # "unsent"
    BY <1>3 DEF Promise!Send, Promise!Before, Promise!SetFate
  <2>2. PromiseTypes' /\ InTurn'
    BY <1>1, <1>f, <2>1 DEF InTurn
  <2> QED
    BY <1>1, <2>1, <2>2 DEF HandedLater, Promise!In
<1>4. ASSUME NEW m \in Msg, Promise!Take(m)
      PROVE  PromiseTypes' /\ InTurn' /\ HandedLater'
  <2>1. /\ \/ fate' = [fate EXCEPT ![m] = "handling"]
           \/ fate' = [fate EXCEPT ![m] = "refused"]
        /\ fate[m] = "queued"
        /\ \A k \in Msg : From[k] = From[m] /\ k < m => fate[k] \in Dealt
    BY <1>4 DEF Promise!Take, Promise!Before, Promise!SetFate
  <2>2. PromiseTypes'
    BY <1>1, <2>1
  <2>3. ASSUME NEW k \in Msg, NEW l \in Msg, From[k] = From[l], k < l
        PROVE  /\ fate'[k] = "unsent" => fate'[l] = "unsent"
               /\ fate'[l] \notin {"unsent", "queued"} => fate'[k] \in Dealt
    <3>1. /\ fate[k] = "unsent" => fate[l] = "unsent"
          /\ fate[l] \notin {"unsent", "queued"} => fate[k] \in Dealt
      BY <2>3 DEF InTurn
    <3>2. CASE l = m
      <4>1. k # m /\ fate'[k] = fate[k] /\ fate[k] \in Dealt
        BY <1>f, <2>1, <2>3, <3>2
      <4> QED
        BY <4>1
    <3>3. CASE k = m
      <4>1. l # m /\ fate'[l] = fate[l] /\ fate'[k] # "unsent"
        BY <1>f, <2>1, <2>3, <3>3
      <4> QED
        BY <2>1, <3>1, <3>3, <4>1
    <3> QED
      BY <2>1, <3>1, <3>2, <3>3
  <2>4. InTurn'
    BY <2>3 DEF InTurn
  <2> QED
    BY <1>1, <2>1, <2>2, <2>4 DEF HandedLater, Promise!In
<1>5. ASSUME NEW m \in Msg, Promise!Finish(m)
      PROVE  PromiseTypes' /\ InTurn' /\ HandedLater'
  <2>1. fate' = [fate EXCEPT ![m] = "done"] /\ fate[m] = "handling"
    BY <1>5 DEF Promise!Finish, Promise!SetFate
  <2>2. PromiseTypes' /\ InTurn'
    BY <1>1, <1>f, <2>1 DEF InTurn
  <2> QED
    BY <1>1, <2>1, <2>2 DEF HandedLater, Promise!In
<1>6. ASSUME NEW S \in SUBSET Session, Promise!Lose(S)
      PROVE  PromiseTypes' /\ InTurn' /\ HandedLater'
  <2>1. fate' = [m \in Msg |-> IF From[m] \in S /\ fate[m] \in {"queued", "handling"}
                               THEN "lost" ELSE fate[m]]
    BY <1>6 DEF Promise!Lose
  <2>2. PromiseTypes'
    BY <1>1, <2>1
  <2>3. ASSUME NEW k \in Msg, NEW m \in Msg, From[k] = From[m], k < m
        PROVE  /\ fate'[k] = "unsent" => fate'[m] = "unsent"
               /\ fate'[m] \notin {"unsent", "queued"} => fate'[k] \in Dealt
    <3>1. /\ fate[k] = "unsent" => fate[m] = "unsent"
          /\ fate[m] \notin {"unsent", "queued"} => fate[k] \in Dealt
      BY <2>3 DEF InTurn
    <3>2. fate[k] \in {"unsent", "queued", "handling"} \cup Dealt
      OBVIOUS
    <3> QED
      BY <2>1, <2>3, <3>1, <3>2
  <2>4. InTurn'
    BY <2>3 DEF InTurn
  <2> QED
    BY <1>1, <2>1, <2>2, <2>4 DEF HandedLater, Promise!In
<1> QED
  BY <1>1, <1>2, <1>3, <1>4, <1>5, <1>6

(* A session is handed a message it lacks, after all of its sender.        *)
LEMMA HandKeeps ==
  ASSUME ClientInv, NEW m \in Msg, NEW u \in User, Promise!Hand(m, u)
  PROVE  PromiseTypes' /\ InTurn' /\ HandedLater' /\ Promise!HandedOnce'
<1> USE DEF ClientInv, PromiseTypes
<1>f. \A k \in Msg : k \in Nat
  BY DeliveryAssumption
<1>1. fate[m] = "handling" /\ u \in To[m] /\ UNCHANGED <<fate, fetched>>
  BY DEF Promise!Hand
<1>2. PICK S \in SUBSET {s \in Session : UserOf[s] = u /\ ~Promise!In(m, handed[s])} :
        handed' = [s \in Session |-> IF s \in S THEN Append(handed[s], m) ELSE handed[s]]
  BY DEF Promise!Hand
<1>3. \A q \in Seq(Msg) : Append(q, m) \in Seq(Msg)
  OBVIOUS
<1>4. PromiseTypes' /\ InTurn'
  BY <1>1, <1>2, <1>3 DEF InTurn
<1>5. \A q \in Seq(Msg), k \in Msg : Holds(Append(q, m), k) <=> Holds(q, k) \/ k = m
  BY AppendHolds
<1>6. HandedLater'
  BY <1>1, <1>2, <1>5 DEF HandedLater, Promise!In, Holds
<1>7. ASSUME NEW s \in Session
      PROVE  /\ Promise!Ascending(handed'[s])
             /\ NoDup(handed'[s])
             /\ \A i \in DOMAIN handed'[s] : UserOf[s] \in To[handed'[s][i]]
  <2>1. /\ handed[s] \in Seq(Msg) /\ Ascending(handed[s]) /\ NoDup(handed[s])
        /\ \A i \in DOMAIN handed[s] : UserOf[s] \in To[handed[s][i]]
    BY DEF Promise!HandedOnce, Promise!Ascending, Ascending, NoDup
  <2>2. CASE s \notin S
    BY <1>2, <2>1, <2>2 DEF Ascending, Promise!Ascending
  <2>3. CASE s \in S
    <3>1. handed'[s] = Append(handed[s], m) /\ UserOf[s] = u /\ ~Holds(handed[s], m)
      BY <1>2, <2>3 DEF Promise!In, Holds
    <3>2. ASSUME NEW k \in Msg, Holds(handed[s], k), From[k] = From[m]
          PROVE  k < m
      <4>1. fate[k] \notin {"unsent", "queued"} /\ k # m
        BY <3>1, <3>2 DEF HandedLater, Promise!In, Holds
      <4>2. ~(m < k)
        BY <1>1, <3>2, <4>1 DEF InTurn, Dealt
      <4> QED
        BY <1>f, <4>1, <4>2
    <3>3. Ascending(handed'[s])
      BY <2>1, <3>1, <3>2, AppendAscends
    <3>4. NoDup(handed'[s])
      BY <2>1, <3>1, AppendHolds
    <3>5. ASSUME NEW i \in DOMAIN handed'[s] PROVE UserOf[s] \in To[handed'[s][i]]
      <4>1. \/ i \in DOMAIN handed[s] /\ handed'[s][i] = handed[s][i]
            \/ handed'[s][i] = m
        BY <2>1, <3>1
      <4> QED
        BY <1>1, <2>1, <3>1, <4>1
    <3> QED
      BY <3>3, <3>4, <3>5 DEF Ascending, Promise!Ascending
  <2> QED
    BY <2>2, <2>3
<1>8. Promise!HandedOnce'
  BY <1>7 DEF Promise!HandedOnce, NoDup, Promise!Ascending
<1> QED
  BY <1>4, <1>6, <1>8

(* What was fetched stays saved, and is neither lost nor fetched again.    *)
LEMMA FetchedKept ==
  ASSUME ClientInv, Promise!Next, UNCHANGED fetched
  PROVE  Promise!FetchedOnce'
<1>1. stored \subseteq stored'
  BY DEF Promise!Next, Promise!Send, Promise!Take, Promise!Finish, Promise!Hand,
         Promise!Save, Promise!Fetch, Promise!Lose
<1>2. ASSUME NEW s \in Session, NEW i \in DOMAIN fetched[s]
      PROVE  <<fetched[s][i], UserOf[s]>> \notin dropped'
  <2> DEFINE m == fetched[s][i]
             u == UserOf[s]
  <2>1. m \in Msg /\ u \in User /\ <<m, u>> \notin dropped
    BY DeliveryAssumption DEF ClientInv, PromiseTypes, Promise!FetchedOnce
  <2>2. Promise!In(m, fetched[s])
    BY DEF Promise!In
  <2> HIDE DEF m, u
  <2>3. ~Promise!Waiting(m, u)
    BY <2>2 DEF Promise!Waiting, u
  <2>4. <<m, u>> \notin dropped'
    BY <2>1, <2>3
    DEF Promise!Next, Promise!Send, Promise!Take, Promise!Finish, Promise!Hand,
        Promise!Save, Promise!Fetch, Promise!Lose
  <2> QED
    BY <2>4 DEF m, u
<1> QED
  BY <1>1, <1>2 DEF ClientInv, Promise!FetchedOnce, Promise!In

LEMMA FetchKeeps ==
  ASSUME ClientInv, NEW s \in Session, Promise!Fetch(s)
  PROVE  ClientInv'
<1> USE DEF ClientInv, PromiseTypes
<1> DEFINE q == fetched'[s]
<1>1. /\ q \in Seq(Msg) /\ fetched[s] = <<>> /\ Promise!Ascending(q)
      /\ \A i \in DOMAIN q : Promise!Waiting(q[i], UserOf[s])
      /\ fetched' = [fetched EXCEPT ![s] = q]
      /\ UNCHANGED <<fate, handed, stored, dropped>>
  BY DEF Promise!Fetch
<1> HIDE DEF q
<1>2. fetched'[s] = q /\ \A t \in Session \ {s} : fetched'[t] = fetched[t]
  BY <1>1
<1>3. PromiseTypes' /\ InTurn' /\ HandedLater' /\ Promise!HandedOnce'
  BY <1>1 DEF InTurn, HandedLater, Promise!In, Promise!HandedOnce, Promise!Ascending
<1>4. NoDup(q)
  <2>a. Msg \subseteq Nat
    BY DeliveryAssumption
  <2>b. \A i \in DOMAIN q : i \in Nat /\ q[i] \in Msg
    BY <1>1
  <2>1. \A i \in DOMAIN q : i \in Nat /\ q[i] \in Nat
    BY <2>a, <2>b
  <2>2. ASSUME NEW i \in DOMAIN q, NEW j \in DOMAIN q, q[i] = q[j], i < j
        PROVE  FALSE
    <3>1. From[q[i]] = From[q[j]]
      BY <2>2
    <3>2. q[i] < q[j]
      BY <1>1, <2>2, <3>1 DEF Promise!Ascending
    <3> QED
      BY <2>1, <2>2, <3>2
  <2> QED
    BY <2>1, <2>2 DEF NoDup
<1>5. ASSUME NEW t \in Session, NEW i \in DOMAIN fetched'[t]
      PROVE  LET m == fetched'[t][i] IN
             /\ <<m, UserOf[t]>> \in stored' \ dropped'
             /\ \A j \in DOMAIN fetched'[t] : fetched'[t][j] = m => j = i
             /\ \A r \in Session : UserOf[r] = UserOf[t] /\ Promise!In(m, fetched'[r])
                                     => r = t
  <2> DEFINE m == fetched'[t][i]
  <2>1. CASE t = s
    <3>1. Promise!Waiting(m, UserOf[s]) /\ i \in DOMAIN q
      BY <1>1, <1>2, <2>1
    <3>2. /\ <<m, UserOf[s]>> \in stored \ dropped
          /\ \A r \in Session : UserOf[r] = UserOf[s] => ~Promise!In(m, fetched[r])
      BY <3>1 DEF Promise!Waiting
    <3> HIDE DEF m
    <3>3. \A r \in Session : UserOf[r] = UserOf[s] /\ Promise!In(m, fetched'[r]) => r = s
      BY <1>2, <3>2 DEF Promise!In
    <3>4. \A j \in DOMAIN q : q[j] = m => j = i
      BY <1>2, <1>4, <2>1, <3>1 DEF NoDup, m
    <3> QED
      BY <1>1, <1>2, <2>1, <3>2, <3>3, <3>4 DEF m
  <2>2. CASE t # s
    <3>1. i \in DOMAIN fetched[t] /\ m = fetched[t][i]
      BY <1>2, <2>2
    <3>2. /\ <<m, UserOf[t]>> \in stored \ dropped
          /\ \A j \in DOMAIN fetched[t] : fetched[t][j] = m => j = i
          /\ \A r \in Session : UserOf[r] = UserOf[t] /\ Promise!In(m, fetched[r]) => r = t
      BY <3>1 DEF Promise!FetchedOnce
    <3>3. Promise!In(m, fetched[t])
      BY <3>1 DEF Promise!In
    <3> HIDE DEF m
    <3>4. ~(UserOf[s] = UserOf[t] /\ Promise!In(m, q))
      <4>1. UserOf[s] = UserOf[t] /\ Promise!In(m, q) => Promise!Waiting(m, UserOf[t])
        BY <1>1 DEF Promise!In
      <4> QED
        BY <3>3, <4>1 DEF Promise!Waiting
    <3>5. \A r \in Session : UserOf[r] = UserOf[t] /\ Promise!In(m, fetched'[r]) => r = t
      BY <1>2, <3>2, <3>4 DEF Promise!In
    <3> QED
      BY <1>1, <1>2, <2>2, <3>2, <3>5 DEF m
  <2> QED
    BY <2>1, <2>2
<1>6. Promise!FetchedOnce'
  BY <1>5 DEF Promise!FetchedOnce, Promise!In
<1> QED
  BY <1>3, <1>6

LEMMA ClientInvStep == ClientInv /\ [Promise!Next]_(Promise!vars) => ClientInv'
<1> SUFFICES ASSUME ClientInv, [Promise!Next]_(Promise!vars) PROVE ClientInv'
  OBVIOUS
<1>1. CASE UNCHANGED Promise!vars
  BY <1>1 DEF ClientInv, PromiseTypes, InTurn, HandedLater, Promise!vars, Promise!In,
              Promise!HandedOnce, Promise!FetchedOnce, Promise!Ascending
<1>2. CASE \/ \E m \in Msg : Promise!Send(m) \/ Promise!Take(m) \/ Promise!Finish(m)
           \/ \E S \in SUBSET Session : Promise!Lose(S)
  <2>1. Promise!Next
    BY <1>2 DEF Promise!Next
  <2> QED
    BY <1>2, <2>1, FateMoves, FetchedKept DEF ClientInv
<1>3. ASSUME NEW m \in Msg, NEW u \in User, Promise!Hand(m, u)
      PROVE  ClientInv'
  <2>1. Promise!Next /\ UNCHANGED fetched
    BY <1>3 DEF Promise!Next, Promise!Hand
  <2> QED
    BY <1>3, <2>1, HandKeeps, FetchedKept DEF ClientInv
<1>4. ASSUME NEW m \in Msg, NEW u \in User, Promise!Save(m, u)
      PROVE  ClientInv'
  <2>1. Promise!Next /\ UNCHANGED <<fate, handed, fetched>>
    BY <1>4 DEF Promise!Next, Promise!Save
  <2> QED
    BY <2>1, FetchedKept
    DEF ClientInv, PromiseTypes, InTurn, HandedLater, Promise!In, Promise!HandedOnce,
        Promise!Ascending
<1>5. ASSUME NEW s \in Session, Promise!Fetch(s) PROVE ClientInv'
  BY <1>5, FetchKeeps
<1> QED
  BY <1>1, <1>2, <1>3, <1>4, <1>5 DEF Promise!Next

(* For the clients of the servers: a session is notified of a message at   *)
(* most once, if its user is a recipient, and in each sender's order; a    *)
(* message saved for a user is fetched by one of his logins at most, and   *)
(* not lost as well.  This follows from Delivery alone, whatever handlers  *)
(* and Redis do to implement it (DealChatTextMsg, LoginHandler).           *)
THEOREM ClientsServedOnce == Spec => [](Promise!HandedOnce /\ Promise!FetchedOnce)
<1>1. DeliverySpec => []ClientInv
  BY InitClient, ClientInvStep, PTL DEF DeliverySpec, Promise!Spec
<1>2. ClientInv => Promise!HandedOnce /\ Promise!FetchedOnce
  BY DEF ClientInv
<1> QED
  BY <1>1, <1>2, DeliveryImplemented, PTL
=============================================================================
