------------------------- MODULE ChatDelivery_proofs -------------------------
(* Theorems about ChatDelivery, for any cluster, users and messages.        *)
EXTENDS ChatDelivery, TLAPS

LoginPC == {"drain", "list", "register", "respond"}
MsgPC == {"lookup", "fanout", "unlist", "store"}
PeerPC == {"fanout", "unlist", "store"}

(* A busy worker has a request, and it is one of its own sessions'; a      *)
(* message is queued and handled as a request of the session it is from.   *)
CurOK ==
  \A w \in Worker :
    /\ pc[w] # "idle" => cur[w] \in Request /\ WorkerOf[cur[w].s] = w
    /\ pc[w] \in MsgPC => cur[w].m \in Msg /\ From[cur[w].m] = cur[w].s
    /\ pc[w] \in PeerPC => peer[w] \in User
    /\ batch[w] # <<>> => pc[w] \in LoginPC

QueueOK ==
  \A w \in Worker : \A i \in 1 .. Len(queue[w]) :
    /\ WorkerOf[queue[w][i].s] = w
    /\ queue[w][i].m # None => From[queue[w][i].m] = queue[w][i].s

TInv == TypeOK /\ CurOK /\ QueueOK

(* The tail of a nonempty sequence holds the elements that follow its head.*)
LEMMA TailElements ==
  ASSUME NEW S, NEW q \in Seq(S), q # <<>>
  PROVE  /\ Head(q) \in S /\ Head(q) = q[1] /\ 1 \in 1 .. Len(q)
         /\ Tail(q) \in Seq(S)
         /\ \A i \in 1 .. Len(Tail(q)) : /\ i + 1 \in 1 .. Len(q)
                                         /\ Tail(q)[i] = q[i + 1]
OBVIOUS

(* Appending leaves the elements of a sequence where they are.             *)
LEMMA AppendElements ==
  ASSUME NEW S, NEW q \in Seq(S), NEW e \in S
  PROVE  /\ Append(q, e) \in Seq(S)
         /\ Len(Append(q, e)) = Len(q) + 1
         /\ \A i \in 1 .. Len(q) : Append(q, e)[i] = q[i]
         /\ Append(q, e)[Len(q) + 1] = e
OBVIOUS

(* What Notify records has its type.                                       *)
LEMMA NotifyTypes ==
  ASSUME SessionTypes, HistoryTypes, NEW m \in Msg, NEW u, NEW srv, Notify(m, u, srv)
  PROVE  handed' \in [Session -> Seq(Msg)] /\ swallowed' \in SUBSET (Msg \X Session)
<1>1. ASSUME NEW s \in Session
      PROVE  handed[s] \in Seq(Msg) /\ Append(handed[s], m) \in Seq(Msg)
  BY DEF HistoryTypes
<1>2. handed' \in [Session -> Seq(Msg)]
  BY <1>1 DEF Notify
<1>3. swallowed' \in SUBSET (Msg \X Session)
  <2>1. SessionsOf(u, srv) \in SUBSET Session
    BY DEF SessionsOf, SessionTypes
  <2> QED
    BY <2>1 DEF Notify, HistoryTypes
<1> QED
  BY <1>2, <1>3

(* The sessions of a login in progress are sessions.                       *)
LEMMA RegisteringTypes ==
  ASSUME CurOK, NEW u, NEW srv PROVE Registering(u, srv) \in SUBSET Session
BY DEF CurOK, Registering, Request

LEMMA TInvInit == Init => TInv
BY DeliveryAssumption
  DEF Init, TInv, TypeOK, SessionTypes, WorkerTypes, SharedTypes, HistoryTypes,
      CurOK, QueueOK, PC, LoginPC, MsgPC, PeerPC

(* Every step keeps TInv: one case per action of Next. *)
LEMMA TInvStep == TInv /\ [Next]_vars => TInv'
<1> SUFFICES ASSUME TInv, [Next]_vars PROVE TInv'
  OBVIOUS
<1> USE DeliveryAssumption DEF TInv, TypeOK, sessVars, workVars, redisVars, hostVars,
      histVars, PC, LoginPC, MsgPC, PeerPC
<1>1. ASSUME NEW s \in Session, Connect(s)
      PROVE  TInv'
  <2> USE <1>1 DEF Connect
  <2>1. SessionTypes'
    BY DEF SessionTypes, SharedTypes, WorkerTypes, CurOK, Request
  <2>2. WorkerTypes' /\ SharedTypes' /\ HistoryTypes' /\ CurOK' /\ QueueOK'
    BY DEF WorkerTypes, SharedTypes, HistoryTypes, CurOK, QueueOK
  <2> QED
    BY <2>1, <2>2
<1>2. ASSUME NEW s \in Session, SendLogin(s)
      PROVE  TInv'
  <2> USE <1>2 DEF SendLogin, PostMsgToQue
  <2> DEFINE v == WorkerOf[s]  r == [s |-> s, m |-> None]
  <2>1. v \in Worker /\ r \in Request /\ queue[v] \in Seq(Request)
    BY DEF WorkerTypes, Request
  <2>2. /\ Append(queue[v], r) \in Seq(Request)
        /\ Len(Append(queue[v], r)) = Len(queue[v]) + 1
        /\ \A i \in 1 .. Len(queue[v]) : Append(queue[v], r)[i] = queue[v][i]
        /\ Append(queue[v], r)[Len(queue[v]) + 1] = r
    BY <2>1, AppendElements
  <2>3. SessionTypes'
    BY DEF SessionTypes, SharedTypes, WorkerTypes, CurOK, Request
  <2>4. WorkerTypes'
    BY <2>1, <2>2 DEF WorkerTypes, SharedTypes, Request, CurOK
  <2>5. QueueOK'
    BY <2>1, <2>2 DEF WorkerTypes, QueueOK
  <2>6. SharedTypes' /\ HistoryTypes' /\ CurOK'
    BY DEF SharedTypes, HistoryTypes, WorkerTypes, CurOK
  <2> QED
    BY <2>3, <2>4, <2>5, <2>6
<1>3. ASSUME NEW s \in Session, NEW how \in {"closed", "stalled"}, EndSession(s, how)
      PROVE  TInv'
  <2> USE <1>3 DEF EndSession
  <2>1. SessionTypes'
    BY DEF SessionTypes, SharedTypes, WorkerTypes, CurOK, Request
  <2>2. WorkerTypes' /\ SharedTypes' /\ HistoryTypes' /\ CurOK' /\ QueueOK'
    BY DEF WorkerTypes, SharedTypes, HistoryTypes, CurOK, QueueOK
  <2> QED
    BY <2>1, <2>2
<1>4. ASSUME NEW s \in Session, ClearLookup(s)
      PROVE  TInv'
  <2> USE <1>4 DEF ClearLookup
  <2>1. SessionTypes'
    BY DEF SessionTypes, SharedTypes, WorkerTypes, CurOK, Request
  <2>2. WorkerTypes' /\ SharedTypes' /\ HistoryTypes' /\ CurOK' /\ QueueOK'
    BY DEF WorkerTypes, SharedTypes, HistoryTypes, CurOK, QueueOK
  <2> QED
    BY <2>1, <2>2
<1>5. ASSUME NEW s \in Session, RmvUserSession(s)
      PROVE  TInv'
  <2> USE <1>5 DEF RmvUserSession
  <2>1. SessionTypes'
    BY DEF SessionTypes, SharedTypes, WorkerTypes, CurOK, Request
  <2>2. WorkerTypes' /\ SharedTypes' /\ HistoryTypes' /\ CurOK' /\ QueueOK'
    BY DEF WorkerTypes, SharedTypes, HistoryTypes, CurOK, QueueOK
  <2> QED
    BY <2>1, <2>2
<1>6. ASSUME NEW s \in Session, ClearCheck(s)
      PROVE  TInv'
  <2> USE <1>6 DEF ClearCheck
  <2>1. SessionTypes'
    BY DEF SessionTypes, SharedTypes, WorkerTypes, CurOK, Request
  <2>2. WorkerTypes' /\ SharedTypes' /\ HistoryTypes' /\ CurOK' /\ QueueOK'
    BY DEF WorkerTypes, SharedTypes, HistoryTypes, CurOK, QueueOK
  <2> QED
    BY <2>1, <2>2
<1>7. ASSUME NEW s \in Session, ClearUnlist(s)
      PROVE  TInv'
  <2> USE <1>7 DEF ClearUnlist, RemoveOnlineServer
  <2>1. SessionTypes'
    BY DEF SessionTypes, SharedTypes, WorkerTypes, CurOK, Request
  <2>2. SharedTypes'
    BY RegisteringTypes DEF SharedTypes
  <2>3. WorkerTypes' /\ HistoryTypes' /\ CurOK' /\ QueueOK'
    BY DEF WorkerTypes, HistoryTypes, CurOK, QueueOK
  <2> QED
    BY <2>1, <2>2, <2>3
<1>8. ASSUME NEW m \in Msg, SendMsg(m)
      PROVE  TInv'
  <2> USE <1>8 DEF SendMsg, PostMsgToQue
  <2> DEFINE v == WorkerOf[From[m]]  r == [s |-> From[m], m |-> m]
  <2>1. v \in Worker /\ r \in Request /\ queue[v] \in Seq(Request)
    BY DEF WorkerTypes, Request
  <2>2. /\ Append(queue[v], r) \in Seq(Request)
        /\ Len(Append(queue[v], r)) = Len(queue[v]) + 1
        /\ \A i \in 1 .. Len(queue[v]) : Append(queue[v], r)[i] = queue[v][i]
        /\ Append(queue[v], r)[Len(queue[v]) + 1] = r
    BY <2>1, AppendElements
  <2>3. WorkerTypes'
    BY <2>1, <2>2 DEF WorkerTypes, SharedTypes, Request, CurOK
  <2>4. HistoryTypes'
    BY DEF HistoryTypes, CurOK, Request, WorkerTypes, SharedTypes
  <2>5. QueueOK'
    BY <2>1, <2>2 DEF WorkerTypes, QueueOK
  <2>6. SessionTypes' /\ SharedTypes' /\ CurOK'
    BY DEF SessionTypes, SharedTypes, WorkerTypes, CurOK
  <2> QED
    BY <2>3, <2>4, <2>5, <2>6
<1>9. ASSUME NEW w \in Worker, LoginBegin(w)
      PROVE  TInv'
  <2> USE <1>9 DEF LoginBegin, DealMsg
  <2>1. queue[w] \in Seq(Request) /\ queue[w] # <<>>
    BY DEF WorkerTypes
  <2>2. /\ Head(queue[w]) \in Request /\ Head(queue[w]) = queue[w][1]
        /\ 1 \in 1 .. Len(queue[w]) /\ Tail(queue[w]) \in Seq(Request)
        /\ \A i \in 1 .. Len(Tail(queue[w])) :
             i + 1 \in 1 .. Len(queue[w]) /\ Tail(queue[w])[i] = queue[w][i + 1]
    BY <2>1, TailElements
  <2>3. WorkerTypes'
    BY <2>2 DEF WorkerTypes, SharedTypes, Request, CurOK
  <2>4. CurOK'
    <3>1. SUFFICES ASSUME NEW v \in Worker
                   PROVE  /\ pc'[v] # "idle" => cur'[v] \in Request /\ WorkerOf[cur'[v].s] = v
                          /\ pc'[v] \in MsgPC => cur'[v].m \in Msg /\ From[cur'[v].m] = cur'[v].s
                          /\ pc'[v] \in PeerPC => peer'[v] \in User
                          /\ batch'[v] # <<>> => pc'[v] \in LoginPC
      BY DEF CurOK
    <3>2. CASE v = w
      BY <2>2, <3>2 DEF WorkerTypes, CurOK, QueueOK, Request
    <3>3. CASE v # w
      BY <2>2, <3>3 DEF WorkerTypes, CurOK
    <3> QED
      BY <3>2, <3>3
  <2>5. QueueOK'
    BY <2>2 DEF WorkerTypes, QueueOK
  <2>6. SessionTypes' /\ SharedTypes' /\ HistoryTypes'
    BY DEF SessionTypes, SharedTypes, HistoryTypes
  <2> QED
    BY <2>3, <2>4, <2>5, <2>6
<1>10. ASSUME NEW w \in Worker, LoginReject(w)
      PROVE  TInv'
  <2> USE <1>10 DEF LoginReject
  <2>1. queue[w] \in Seq(Request) /\ queue[w] # <<>>
    BY DEF WorkerTypes
  <2>2. /\ Head(queue[w]) \in Request /\ Head(queue[w]) = queue[w][1]
        /\ 1 \in 1 .. Len(queue[w]) /\ Tail(queue[w]) \in Seq(Request)
        /\ \A i \in 1 .. Len(Tail(queue[w])) :
             i + 1 \in 1 .. Len(queue[w]) /\ Tail(queue[w])[i] = queue[w][i + 1]
    BY <2>1, TailElements
  <2>3. WorkerTypes'
    BY <2>2 DEF WorkerTypes, SharedTypes, Request, CurOK
  <2>4. QueueOK'
    <3>1. SUFFICES ASSUME NEW v \in Worker, NEW i \in 1 .. Len(queue'[v])
                   PROVE  /\ WorkerOf[queue'[v][i].s] = v
                          /\ queue'[v][i].m # None => From[queue'[v][i].m] = queue'[v][i].s
      BY DEF QueueOK
    <3>2. CASE v = w
      BY <2>2, <3>2 DEF WorkerTypes, QueueOK
    <3>3. CASE v # w
      BY <2>2, <3>3 DEF WorkerTypes, QueueOK
    <3> QED
      BY <3>2, <3>3
  <2>5. SessionTypes' /\ SharedTypes' /\ HistoryTypes' /\ CurOK'
    BY DEF SessionTypes, SharedTypes, HistoryTypes, WorkerTypes, CurOK
  <2> QED
    BY <2>3, <2>4, <2>5
<1>11. ASSUME NEW w \in Worker, LoginDrain(w)
      PROVE  TInv'
  <2> USE <1>11 DEF LoginDrain, Popped, Me
  <2>0. /\ Me(w) \in User /\ offline[Me(w)] \in Seq(Msg) /\ offline[Me(w)] # <<>>
        /\ batch[w] \in Seq(Msg)
    BY DEF WorkerTypes, SharedTypes, CurOK, Request
  <2>1. WorkerTypes'
    <3>1. Head(offline[Me(w)]) \in Msg
      BY <2>0, TailElements
    <3>2. Append(batch[w], Head(offline[Me(w)])) \in Seq(Msg)
      BY <2>0, <3>1
    <3> QED
      BY <3>2 DEF WorkerTypes
  <2>2. SharedTypes'
    BY DEF SharedTypes, CurOK, Request, WorkerTypes
  <2>3. SessionTypes' /\ HistoryTypes' /\ CurOK' /\ QueueOK'
    BY DEF SessionTypes, HistoryTypes, WorkerTypes, CurOK, QueueOK
  <2> QED
    BY <2>1, <2>2, <2>3
<1>12. ASSUME NEW w \in Worker, LoginBind(w)
      PROVE  TInv'
  <2> USE <1>12 DEF LoginBind, Goto
  <2>1. SessionTypes'
    BY DEF SessionTypes, SharedTypes, WorkerTypes, CurOK, Request
  <2>2. WorkerTypes'
    BY DEF WorkerTypes, SharedTypes, Request, CurOK
  <2>3. CurOK'
    BY DEF WorkerTypes, CurOK, Request
  <2>4. SharedTypes' /\ HistoryTypes' /\ QueueOK'
    BY DEF SharedTypes, HistoryTypes, WorkerTypes, QueueOK
  <2> QED
    BY <2>1, <2>2, <2>3, <2>4
<1>13. ASSUME NEW w \in Worker, AddOnlineServer(w)
      PROVE  TInv'
  <2> USE <1>13 DEF AddOnlineServer, Me, Goto
  <2>1. WorkerTypes'
    BY DEF WorkerTypes, CurOK, Request, SharedTypes
  <2>2. SharedTypes'
    BY DEF SharedTypes, CurOK, Request, WorkerTypes
  <2>3. CurOK'
    BY DEF WorkerTypes, CurOK, Request
  <2>4. SessionTypes' /\ HistoryTypes' /\ QueueOK'
    BY DEF SessionTypes, HistoryTypes, WorkerTypes, QueueOK
  <2> QED
    BY <2>1, <2>2, <2>3, <2>4
<1>14. ASSUME NEW w \in Worker, SetUserSession(w)
      PROVE  TInv'
  <2> USE <1>14 DEF SetUserSession, Goto
  <2>1. SessionTypes'
    BY DEF SessionTypes, SharedTypes, WorkerTypes, CurOK, Request
  <2>2. WorkerTypes'
    BY DEF WorkerTypes, SharedTypes, Request, CurOK
  <2>3. CurOK'
    BY DEF WorkerTypes, CurOK, Request
  <2>4. SharedTypes'
    BY DEF SharedTypes, CurOK, Request
  <2>5. HistoryTypes' /\ QueueOK'
    BY DEF HistoryTypes, WorkerTypes, QueueOK
  <2> QED
    BY <2>1, <2>2, <2>3, <2>4, <2>5
<1>15. ASSUME NEW w \in Worker, LoginRespond(w)
      PROVE  TInv'
  <2> USE <1>15 DEF LoginRespond, Return, Goto
  <2>1. WorkerTypes'
    BY DEF WorkerTypes
  <2>2. HistoryTypes'
    BY DEF HistoryTypes, CurOK, Request, WorkerTypes, SharedTypes
  <2>3. CurOK'
    BY DEF WorkerTypes, CurOK, Request
  <2>4. SessionTypes' /\ SharedTypes' /\ QueueOK'
    BY DEF SessionTypes, SharedTypes, WorkerTypes, QueueOK
  <2> QED
    BY <2>1, <2>2, <2>3, <2>4
<1>16. ASSUME NEW w \in Worker, MsgBegin(w)
      PROVE  TInv'
  <2> USE <1>16 DEF MsgBegin, DealMsg
  <2>1. queue[w] \in Seq(Request) /\ queue[w] # <<>>
    BY DEF WorkerTypes
  <2>2. /\ Head(queue[w]) \in Request /\ Head(queue[w]) = queue[w][1]
        /\ 1 \in 1 .. Len(queue[w]) /\ Tail(queue[w]) \in Seq(Request)
        /\ \A i \in 1 .. Len(Tail(queue[w])) :
             i + 1 \in 1 .. Len(queue[w]) /\ Tail(queue[w])[i] = queue[w][i + 1]
    BY <2>1, TailElements
  <2>3. WorkerTypes'
    BY <2>2 DEF WorkerTypes, SharedTypes, Request, CurOK
  <2>4. HistoryTypes'
    BY DEF HistoryTypes, CurOK, Request, WorkerTypes, SharedTypes
  <2>5. CurOK'
    <3>1. SUFFICES ASSUME NEW v \in Worker
                   PROVE  /\ pc'[v] # "idle" => cur'[v] \in Request /\ WorkerOf[cur'[v].s] = v
                          /\ pc'[v] \in MsgPC => cur'[v].m \in Msg /\ From[cur'[v].m] = cur'[v].s
                          /\ pc'[v] \in PeerPC => peer'[v] \in User
                          /\ batch'[v] # <<>> => pc'[v] \in LoginPC
      BY DEF CurOK
    <3>2. CASE v = w
      <4>1. cur'[w] = Head(queue[w]) /\ pc'[w] = "lookup" /\ batch'[w] = batch[w]
        BY DEF WorkerTypes
      <4>2. /\ WorkerOf[Head(queue[w]).s] = w
            /\ From[Head(queue[w]).m] = Head(queue[w]).s /\ Head(queue[w]).m \in Msg
        BY <2>2 DEF QueueOK, Request
      <4>3. batch[w] = <<>>
        BY DEF CurOK
      <4> QED
        BY <2>2, <3>2, <4>1, <4>2, <4>3
    <3>3. CASE v # w
      BY <2>2, <3>3 DEF WorkerTypes, CurOK
    <3> QED
      BY <3>2, <3>3
  <2>6. QueueOK'
    BY <2>2 DEF WorkerTypes, QueueOK
  <2>7. SessionTypes' /\ SharedTypes'
    BY DEF SessionTypes, SharedTypes
  <2> QED
    BY <2>3, <2>4, <2>5, <2>6, <2>7
<1>17. ASSUME NEW w \in Worker, MsgRefuse(w)
      PROVE  TInv'
  <2> USE <1>17 DEF MsgRefuse
  <2>1. queue[w] \in Seq(Request) /\ queue[w] # <<>>
    BY DEF WorkerTypes
  <2>2. /\ Head(queue[w]) \in Request /\ Head(queue[w]) = queue[w][1]
        /\ 1 \in 1 .. Len(queue[w]) /\ Tail(queue[w]) \in Seq(Request)
        /\ \A i \in 1 .. Len(Tail(queue[w])) :
             i + 1 \in 1 .. Len(queue[w]) /\ Tail(queue[w])[i] = queue[w][i + 1]
    BY <2>1, TailElements
  <2>3. WorkerTypes'
    BY <2>2 DEF WorkerTypes, SharedTypes, Request, CurOK
  <2>4. HistoryTypes'
    BY DEF HistoryTypes, CurOK, Request, WorkerTypes, SharedTypes
  <2>5. QueueOK'
    BY <2>2 DEF WorkerTypes, QueueOK
  <2>6. SessionTypes' /\ SharedTypes' /\ CurOK'
    BY DEF SessionTypes, SharedTypes, WorkerTypes, CurOK
  <2> QED
    BY <2>3, <2>4, <2>5, <2>6
<1>18. ASSUME NEW w \in Worker, NEW u \in User, GetOnlineServers(w, u)
      PROVE  TInv'
  <2> USE <1>18 DEF GetOnlineServers, Goto
  <2>1. WorkerTypes'
    BY DEF WorkerTypes, SharedTypes, Request, CurOK
  <2>2. CurOK'
    BY DEF WorkerTypes, CurOK, Request
  <2>3. SessionTypes' /\ SharedTypes' /\ HistoryTypes' /\ QueueOK'
    BY DEF SessionTypes, SharedTypes, HistoryTypes, WorkerTypes, QueueOK
  <2> QED
    BY <2>1, <2>2, <2>3
<1>19. ASSUME NEW w \in Worker, NotifyLocal(w)
      PROVE  TInv'
  <2> USE <1>19 DEF NotifyLocal, Tried
  <2>1. WorkerTypes'
    BY DEF WorkerTypes, SharedTypes, Request, CurOK
  <2>2. HistoryTypes'
    <3>1. /\ peer[w] \in User /\ cur[w].m \in Msg
      BY DEF CurOK
    <3>2. handed' \in [Session -> Seq(Msg)] /\ swallowed' \in SUBSET (Msg \X Session)
      BY <3>1, NotifyTypes
    <3>3. doubtful' \in SUBSET (Msg \X User)
      BY <3>1 DEF HistoryTypes
    <3> QED
      BY <3>2, <3>3 DEF HistoryTypes
  <2>3. SessionTypes' /\ SharedTypes' /\ CurOK' /\ QueueOK'
    BY DEF SessionTypes, SharedTypes, WorkerTypes, CurOK, QueueOK
  <2> QED
    BY <2>1, <2>2, <2>3
<1>20. ASSUME NEW w \in Worker, FindNoneLocal(w)
      PROVE  TInv'
  <2> USE <1>20 DEF FindNoneLocal, Goto
  <2>1. WorkerTypes'
    BY DEF WorkerTypes, SharedTypes, Request, CurOK
  <2>2. CurOK'
    BY DEF WorkerTypes, CurOK, Request
  <2>3. SessionTypes' /\ SharedTypes' /\ HistoryTypes' /\ QueueOK'
    BY DEF SessionTypes, SharedTypes, HistoryTypes, WorkerTypes, QueueOK
  <2> QED
    BY <2>1, <2>2, <2>3
<1>21. ASSUME NEW w \in Worker, UnlistLocal(w)
      PROVE  TInv'
  <2> USE <1>21 DEF UnlistLocal, RemoveOnlineServer, Tried, Goto
  <2>1. WorkerTypes'
    BY DEF WorkerTypes, SharedTypes, Request, CurOK
  <2>2. SharedTypes'
    BY RegisteringTypes DEF SharedTypes
  <2>3. CurOK'
    BY DEF WorkerTypes, CurOK, Request
  <2>4. SessionTypes' /\ HistoryTypes' /\ QueueOK'
    BY DEF SessionTypes, HistoryTypes, WorkerTypes, QueueOK
  <2> QED
    BY <2>1, <2>2, <2>3, <2>4
<1>22. ASSUME NEW w \in Worker, NEW srv \in Server, NotifyRemote(w, srv)
      PROVE  TInv'
  <2> USE <1>22 DEF NotifyRemote, Tried
  <2>1. WorkerTypes'
    BY DEF WorkerTypes, RepliesSuccess
  <2>2. HistoryTypes'
    <3>1. /\ peer[w] \in User /\ cur[w].m \in Msg
      BY DEF CurOK
    <3>2. handed' \in [Session -> Seq(Msg)] /\ swallowed' \in SUBSET (Msg \X Session)
      <4>1. CASE UNCHANGED <<handed, swallowed>>
        BY <4>1 DEF HistoryTypes
      <4>2. CASE Notify(cur[w].m, peer[w], srv)
        BY <3>1, <4>2, NotifyTypes
      <4> QED
        BY <4>1, <4>2
    <3>3. doubtful' \in SUBSET (Msg \X User)
      BY <3>1 DEF HistoryTypes
    <3> QED
      BY <3>2, <3>3 DEF HistoryTypes
  <2>3. SessionTypes' /\ SharedTypes' /\ CurOK' /\ QueueOK'
    BY DEF SessionTypes, SharedTypes, WorkerTypes, CurOK, QueueOK
  <2> QED
    BY <2>1, <2>2, <2>3
<1>23. ASSUME NEW w \in Worker, FanoutDone(w)
      PROVE  TInv'
  <2> USE <1>23 DEF FanoutDone, Goto
  <2>1. WorkerTypes'
    BY DEF WorkerTypes, SharedTypes, Request, CurOK
  <2>2. CurOK'
    BY DEF WorkerTypes, CurOK, Request
  <2>3. SessionTypes' /\ SharedTypes' /\ HistoryTypes' /\ QueueOK'
    BY DEF SessionTypes, SharedTypes, HistoryTypes, WorkerTypes, QueueOK
  <2> QED
    BY <2>1, <2>2, <2>3
<1>24. ASSUME NEW w \in Worker, SaveOfflineTextMsg(w)
      PROVE  TInv'
  <2> USE <1>24 DEF SaveOfflineTextMsg, Pushed, Goto
  <2>1. WorkerTypes'
    BY DEF WorkerTypes, SharedTypes, Request, CurOK
  <2>2. SharedTypes'
    BY DEF SharedTypes, CurOK, Request, WorkerTypes
  <2>3. HistoryTypes'
    BY DEF HistoryTypes, CurOK, Request, WorkerTypes, SharedTypes
  <2>4. CurOK'
    BY DEF WorkerTypes, CurOK, Request
  <2>5. SessionTypes' /\ QueueOK'
    BY DEF SessionTypes, WorkerTypes, QueueOK
  <2> QED
    BY <2>1, <2>2, <2>3, <2>4, <2>5
<1>25. ASSUME NEW w \in Worker, MsgEnd(w)
      PROVE  TInv'
  <2> USE <1>25 DEF MsgEnd, Return, Goto
  <2>1. WorkerTypes'
    BY DEF WorkerTypes, SharedTypes, Request, CurOK
  <2>2. HistoryTypes'
    BY DEF HistoryTypes, CurOK, Request, WorkerTypes, SharedTypes
  <2>3. CurOK'
    BY DEF WorkerTypes, CurOK, Request
  <2>4. SessionTypes' /\ SharedTypes' /\ QueueOK'
    BY DEF SessionTypes, SharedTypes, WorkerTypes, QueueOK
  <2> QED
    BY <2>1, <2>2, <2>3, <2>4
<1>26. ASSUME NEW srv \in Server, Crash(srv)
      PROVE  TInv'
  <2> USE <1>26 DEF Crash, PoppedBy, Me
  <2>1. SessionTypes'
    BY DEF SessionTypes, CurOK, Request, WorkerTypes, SharedTypes
  <2>2. WorkerTypes'
    <3>1. queue' \in [Worker -> Seq(Request)] /\ batch' \in [Worker -> Seq(Msg)]
      <4>1. <<>> \in Seq(Request) /\ <<>> \in Seq(Msg)
        OBVIOUS
      <4> QED
        BY <4>1 DEF WorkerTypes
    <3>2. pc' \in [Worker -> PC] /\ cur' \in [Worker -> Request \cup {None}]
      BY DEF WorkerTypes
    <3>3. rest' \in [Worker -> SUBSET User] /\ peer' \in [Worker -> User \cup {None}]
      BY DEF WorkerTypes
    <3>4. todo' \in [Worker -> SUBSET Server] /\ delivered' \in [Worker -> BOOLEAN]
      BY DEF WorkerTypes
    <3> QED
      BY <3>1, <3>2, <3>3, <3>4 DEF WorkerTypes
  <2>3. SharedTypes'
    BY DEF SharedTypes, CurOK, Request, WorkerTypes
  <2>4. HistoryTypes'
    <3>1. ASSUME NEW w \in Worker, batch[w] # <<>>
          PROVE  PoppedBy(w) \in SUBSET Msg /\ UserOf[cur[w].s] \in User
      <4>1. batch[w] \in Seq(Msg) /\ pc[w] # "idle"
        BY <3>1 DEF WorkerTypes, CurOK
      <4>2. PoppedBy(w) \in SUBSET Msg
        BY <4>1
      <4>3. cur[w].s \in Session
        BY <4>1 DEF CurOK, Request
      <4> QED
        BY <4>2, <4>3
    <3>2. dropped' \in SUBSET (Msg \X User)
      <4> DEFINE mine == {x \in Worker : ServerOf[x] = srv /\ batch[x] # <<>>}
      <4>1. dropped' = dropped \cup UNION {PoppedBy(x) \X {UserOf[cur[x].s]} : x \in mine}
        OBVIOUS
      <4>2. \A x \in mine : PoppedBy(x) \X {UserOf[cur[x].s]} \in SUBSET (Msg \X User)
        BY <3>1
      <4>3. dropped \in SUBSET (Msg \X User)
        BY DEF HistoryTypes
      <4> QED
        BY ONLY <4>1, <4>2, <4>3
    <3>3. fate' \in [Msg -> {"unsent", "queued", "handling", "done", "refused", "lost"}]
      BY DEF HistoryTypes
    <3> QED
      BY <3>2, <3>3 DEF HistoryTypes
  <2>5. CurOK'
    BY DEF WorkerTypes, CurOK, Request
  <2>6. QueueOK'
    BY DEF WorkerTypes, QueueOK
  <2> QED
    BY <2>1, <2>2, <2>3, <2>4, <2>5, <2>6
<1>27. ASSUME NEW srv \in Server, Restart(srv)
      PROVE  TInv'
  <2> USE <1>27 DEF Restart
  <2>1. SharedTypes'
    BY DEF SharedTypes, CurOK, Request, WorkerTypes
  <2>2. SessionTypes' /\ WorkerTypes' /\ HistoryTypes' /\ CurOK' /\ QueueOK'
    BY DEF SessionTypes, WorkerTypes, HistoryTypes, CurOK, QueueOK
  <2> QED
    BY <2>1, <2>2
<1>28. CASE UNCHANGED vars
  BY <1>28 DEF vars, SessionTypes, WorkerTypes, SharedTypes, HistoryTypes, CurOK, QueueOK
<1> QED
  BY <1>1, <1>2, <1>3, <1>4, <1>5, <1>6, <1>7, <1>8, <1>9, <1>10, <1>11, <1>12, <1>13, <1>14, <1>15, <1>16, <1>17, <1>18, <1>19, <1>20, <1>21, <1>22, <1>23, <1>24, <1>25, <1>26, <1>27, <1>28
  DEF Next, ClientStep, ClearStep, WorkerStep, Disconnect, BadFrame

(* Type correctness: in every reachable state of every cluster, each       *)
(* variable has its type.                                                  *)
THEOREM TypeCorrect == Spec => []TypeOK
<1>1. Spec => []TInv
  BY TInvInit, TInvStep, PTL DEF Spec
<1>2. TInv => TypeOK
  BY DEF TInv
<1> QED
  BY <1>1, <1>2, PTL
-----------------------------------------------------------------------------
(* Settled.                                                                *)

(* Recipient u has m: in his offline list, or in the hands of a session.   *)
Has(m, u) == <<m, u>> \in stored \/ \E s \in Session : UserOf[s] = u /\ Got(s, m)

Accounted(m, u) == OfflineAllowed(m) => Has(m, u)

(* A worker has accounted for every recipient it has taken from "rest",    *)
(* the one it is serving excepted; and "delivered" is the truth about him. *)
Progress(w) ==
  pc[w] \in MsgPC =>
    /\ \A u \in To[cur[w].m] \ rest[w] :
         Accounted(cur[w].m, u) \/ (pc[w] \in PeerPC /\ u = peer[w])
    /\ pc[w] \in {"fanout", "unlist"} /\ delivered[w] => Has(cur[w].m, peer[w])

SettledInv == Settled /\ \A w \in Worker : Progress(w)

(* The part of a worker's state that Progress is about.                    *)
Same(w) ==
  /\ pc'[w] = pc[w] /\ cur'[w] = cur[w] /\ rest'[w] = rest[w]
  /\ peer'[w] = peer[w] /\ delivered'[w] = delivered[w]

(* What has been recorded of deliveries is never taken back.               *)
HasGrows == \A m \in Msg, u \in User : Has(m, u) => Has(m, u)'

(* Notify gives m to every session of u on srv, and takes nothing away.    *)
LEMMA NotifyGives ==
  ASSUME SessionTypes, HistoryTypes, NEW m \in Msg, NEW u \in User, NEW srv \in Server,
         Notify(m, u, srv), UNCHANGED stored
  PROVE  HasGrows /\ (SessionsOf(u, srv) # {} => Has(m, u)')
<1>1. ASSUME NEW s \in Session, NEW k \in Msg, Got(s, k)
      PROVE  Got(s, k)'
  <2>1. PICK i \in DOMAIN handed[s] : handed[s][i] = k
    BY <1>1 DEF Got
  <2>2. handed[s] \in Seq(Msg)
    BY DEF HistoryTypes
  <2>3. handed'[s] = handed[s] \/ handed'[s] = Append(handed[s], m)
    BY DEF Notify
  <2>4. i \in DOMAIN handed'[s] /\ handed'[s][i] = k
    BY <2>1, <2>2, <2>3, AppendElements
  <2> QED
    BY <2>4 DEF Got
<1>2. ASSUME NEW s \in SessionsOf(u, srv)
      PROVE  s \in Session /\ UserOf[s] = u /\ Got(s, m)'
  <2>1. s \in Session /\ UserOf[s] = u /\ handed[s] \in Seq(Msg)
    BY DEF SessionsOf, SessionTypes, HistoryTypes
  <2>2. handed'[s] = Append(handed[s], m)
    BY <2>1 DEF Notify
  <2>3. Len(handed[s]) + 1 \in DOMAIN handed'[s] /\ handed'[s][Len(handed[s]) + 1] = m
    BY <2>1, <2>2, AppendElements
  <2> QED
    BY <2>1, <2>3 DEF Got
<1> QED
  BY <1>1, <1>2 DEF HasGrows, Has

(* Where nothing is delivered, nothing changes hands.                      *)
LEMMA SameHas == UNCHANGED <<handed, stored>> => HasGrows
BY DEF HasGrows, Has, Got

(* A worker that does not move keeps its Progress while others deliver.    *)
LEMMA ProgressKept ==
  ASSUME TInv, HasGrows, NEW w \in Worker, Same(w), Progress(w)
  PROVE  Progress(w)'
<1> SUFFICES ASSUME pc[w] \in MsgPC PROVE Progress(w)'
  BY DEF Progress, Same
<1>1. cur[w].m \in Msg /\ To[cur[w].m] \in SUBSET User
  BY DeliveryAssumption DEF TInv, CurOK
<1>2. ASSUME NEW m \in Msg, NEW u \in User
      PROVE  /\ Has(m, u) => Has(m, u)'
             /\ Accounted(m, u) => Accounted(m, u)'
  BY DEF HasGrows, Accounted, OfflineAllowed
<1>3. pc[w] \in PeerPC => peer[w] \in User
  BY DEF TInv, CurOK
<1>4. ASSUME NEW u \in To[cur'[w].m] \ rest'[w]
      PROVE  Accounted(cur[w].m, u)' \/ (pc'[w] \in PeerPC /\ u = peer'[w])
  <2>1. u \in User
    BY <1>1 DEF Same
  <2> QED
    BY <1>1, <1>2, <2>1 DEF Progress, Same, Accounted, Has, Got, OfflineAllowed
<1>5. pc'[w] \in {"fanout", "unlist"} /\ delivered'[w] => Has(cur[w].m, peer[w])'
  BY <1>1, <1>2, <1>3 DEF Progress, Same, PeerPC, Has, Got
<1> QED
  BY <1>4, <1>5 DEF Progress

(* What a step must show to keep SettledInv.                               *)
LEMMA SettledKept ==
  ASSUME TInv, SettledInv, HasGrows,
         \A m \in Msg : fate'[m] = "done" =>
           fate[m] = "done" \/ \A u \in To[m] : Accounted(m, u),
         \A w \in Worker : Same(w) \/ Progress(w)'
  PROVE  SettledInv'
<1>1. ASSUME NEW m \in Msg, NEW u \in To[m], fate'[m] = "done"
      PROVE  Accounted(m, u)'
  <2>1. u \in User
    BY DeliveryAssumption
  <2>2. Accounted(m, u)
    BY <1>1 DEF SettledInv, Settled, Accounted, Has
  <2> QED
    BY <2>1, <2>2 DEF HasGrows, Accounted, OfflineAllowed
<1>2. Settled'
  BY <1>1 DEF Settled, Accounted, Has
<1>3. \A w \in Worker : Progress(w)'
  BY ProgressKept DEF SettledInv
<1> QED
  BY <1>2, <1>3 DEF SettledInv

(* A worker between two attempts keeps its Progress if it has not lost     *)
(* what it delivered.                                                      *)
LEMMA FanoutProgress ==
  ASSUME TInv, HasGrows, NEW w \in Worker, Progress(w),
         pc[w] \in {"fanout", "unlist"}, pc'[w] \in {"fanout", "unlist"},
         cur'[w] = cur[w], rest'[w] = rest[w], peer'[w] = peer[w],
         delivered'[w] => Has(cur[w].m, peer[w])'
  PROVE  Progress(w)'
<1>1. cur[w].m \in Msg /\ To[cur[w].m] \in SUBSET User
  BY DeliveryAssumption DEF TInv, CurOK, MsgPC
<1>2. ASSUME NEW m \in Msg, NEW u \in User
      PROVE  Accounted(m, u) => Accounted(m, u)'
  BY DEF HasGrows, Accounted, OfflineAllowed
<1>3. \A u \in To[cur[w].m] \ rest[w] : Accounted(cur[w].m, u)' \/ u = peer[w]
  BY <1>1, <1>2 DEF Progress, MsgPC, Accounted, Has, Got, OfflineAllowed
<1> QED
  BY <1>3 DEF Progress, PeerPC, Accounted, Has, Got, OfflineAllowed

LEMMA SettledInit == Init => SettledInv
BY DeliveryAssumption DEF Init, SettledInv, Settled, Progress, MsgPC

LEMMA SettledStep == TInv /\ SettledInv /\ [Next]_vars => SettledInv'
<1> SUFFICES ASSUME TInv, SettledInv, [Next]_vars PROVE SettledInv'
  OBVIOUS
<1> USE DEF workVars, histVars, Same
<1>t. /\ SessionTypes /\ WorkerTypes /\ HistoryTypes /\ CurOK
      /\ \A w \in Worker : Progress(w)
  BY DEF TInv, TypeOK, SettledInv
<1>1. ASSUME NEW s \in Session, ClientStep(s) \/ ClearStep(s)
      PROVE  SettledInv'
  <2>1. UNCHANGED <<workVars, histVars>>
    BY <1>1 DEF ClientStep, ClearStep, Connect, SendLogin, Disconnect, BadFrame, EndSession,
                ClearLookup, RmvUserSession, ClearCheck, ClearUnlist
  <2> QED
    BY <2>1, SameHas, SettledKept
<1>2. ASSUME NEW m \in Msg, SendMsg(m)
      PROVE  SettledInv'
  <2>1. UNCHANGED <<workVars, handed, stored>> /\ \A k \in Msg : fate'[k] = "done" => fate[k] = "done"
    BY <1>2, <1>t DEF SendMsg, HistoryTypes
  <2> QED
    BY <2>1, SameHas, SettledKept
<1>3. ASSUME NEW w \in Worker, LoginReject(w) \/ MsgRefuse(w)
      PROVE  SettledInv'
  <2>1. UNCHANGED <<workVars, handed, stored>> /\ \A k \in Msg : fate'[k] = "done" => fate[k] = "done"
    BY <1>3, <1>t DEF LoginReject, MsgRefuse, HistoryTypes
  <2> QED
    BY <2>1, SameHas, SettledKept
<1>4. ASSUME NEW w \in Worker, 
             \/ LoginBegin(w) \/ LoginDrain(w) \/ LoginBind(w) \/ AddOnlineServer(w)
             \/ SetUserSession(w) \/ LoginRespond(w)
      PROVE  SettledInv'
  <2>1. UNCHANGED <<fate, handed, stored>>
    BY <1>4 DEF LoginBegin, LoginDrain, LoginBind, AddOnlineServer, SetUserSession, LoginRespond
  <2>2. \A v \in Worker : v # w => Same(v)
    BY <1>4, <1>t DEF LoginBegin, LoginDrain, LoginBind, AddOnlineServer, SetUserSession, LoginRespond,
                      DealMsg, Goto, Return, WorkerTypes
  <2>3. pc'[w] \notin MsgPC
    BY <1>4, <1>t DEF LoginBegin, LoginDrain, LoginBind, AddOnlineServer, SetUserSession, LoginRespond,
                      DealMsg, Goto, Return, WorkerTypes, MsgPC
  <2> QED
    BY <2>1, <2>2, <2>3, SameHas, SettledKept DEF Progress
<1>5. ASSUME NEW w \in Worker, MsgBegin(w)
      PROVE  SettledInv'
  <2> USE <1>5 DEF MsgBegin, DealMsg
  <2>1. HasGrows /\ \A k \in Msg : fate'[k] = "done" => fate[k] = "done"
    BY <1>t, SameHas DEF HistoryTypes
  <2>2. \A v \in Worker : v # w => Same(v)
    BY <1>t DEF WorkerTypes
  <2>3. Progress(w)'
    BY <1>t DEF WorkerTypes, Progress
  <2> QED
    BY <2>1, <2>2, <2>3, SettledKept
<1>6. ASSUME NEW w \in Worker, NEW u \in User, GetOnlineServers(w, u)
      PROVE  SettledInv'
  <2> USE <1>6 DEF GetOnlineServers, Goto
  <2>1. HasGrows
    BY SameHas
  <2>2. \A v \in Worker : v # w => Same(v)
    BY <1>t DEF WorkerTypes
  <2>3. Progress(w)'
    <3>1. /\ pc'[w] = "fanout" /\ pc[w] = "lookup" /\ cur' = cur /\ peer'[w] = u
          /\ rest'[w] = rest[w] \ {u} /\ ~delivered'[w]
      BY <1>t DEF WorkerTypes
    <3>2. \A x \in To[cur[w].m] \ rest[w] : Accounted(cur[w].m, x)
      BY <1>t, <3>1 DEF Progress, MsgPC, PeerPC
    <3>3. \A x \in To[cur[w].m] \ rest[w] : Accounted(cur[w].m, x)'
      BY <3>2 DEF Accounted, Has, Got, OfflineAllowed
    <3> QED
      BY <3>1, <3>3 DEF Progress, PeerPC
  <2> QED
    BY <2>1, <2>2, <2>3, SettledKept
<1>7. ASSUME NEW w \in Worker, NotifyLocal(w)
      PROVE  SettledInv'
  <2> USE <1>7 DEF NotifyLocal
  <2>1. /\ cur[w].m \in Msg /\ peer[w] \in User /\ ServerOf[w] \in Server
        /\ UNCHANGED stored
    BY <1>t, DeliveryAssumption DEF CurOK, MsgPC, PeerPC
  <2>2. HasGrows /\ Has(cur[w].m, peer[w])'
    BY <1>t, <2>1, NotifyGives
  <2>3. \A v \in Worker : v # w => Same(v)
    BY <1>t DEF WorkerTypes
  <2>4. Progress(w)'
    <3>1. /\ cur'[w] = cur[w] /\ rest'[w] = rest[w] /\ peer'[w] = peer[w]
          /\ pc[w] \in {"fanout", "unlist"} /\ pc'[w] \in {"fanout", "unlist"}
      BY <1>t DEF WorkerTypes
    <3> QED
      BY <1>t, <2>2, <3>1, FanoutProgress
  <2> QED
    BY <2>2, <2>3, <2>4, SettledKept
<1>8. ASSUME NEW w \in Worker, FindNoneLocal(w) \/ UnlistLocal(w)
      PROVE  SettledInv'
  <2> USE <1>8 DEF FindNoneLocal, UnlistLocal, Goto
  <2>1. HasGrows
    BY SameHas
  <2>2. \A v \in Worker : v # w => Same(v)
    BY <1>t DEF WorkerTypes
  <2>3. Progress(w)'
    <3>1. pc[w] \in {"fanout", "unlist"} /\ delivered' = delivered
      OBVIOUS
    <3>2. delivered[w] => Has(cur[w].m, peer[w])'
      BY <1>t, <3>1 DEF Progress, MsgPC, Has, Got
    <3>3. pc'[w] \in {"fanout", "unlist"} /\ UNCHANGED <<cur, rest, peer>>
      BY <1>t DEF WorkerTypes
    <3> QED
      BY <1>t, <2>1, <3>1, <3>2, <3>3, FanoutProgress
  <2> QED
    BY <2>1, <2>2, <2>3, SettledKept
<1>9. ASSUME NEW w \in Worker, NEW srv \in Server, NotifyRemote(w, srv)
      PROVE  SettledInv'
  <2> USE <1>9 DEF NotifyRemote
  <2>1. cur[w].m \in Msg /\ peer[w] \in User /\ UNCHANGED stored
    BY <1>t DEF CurOK, MsgPC, PeerPC
  <2>2. HasGrows /\ (delivered'[w] => Has(cur[w].m, peer[w])')
    <3>1. CASE UNCHANGED <<handed, delivered>>
      <4>1. HasGrows
        BY <3>1, SameHas
      <4>2. delivered[w] => Has(cur[w].m, peer[w])
        BY <1>t DEF Progress, MsgPC
      <4> QED
        BY <3>1, <4>1, <4>2 DEF Has, Got
    <3>2. CASE /\ Notify(cur[w].m, peer[w], srv)
               /\ \/ delivered' = [delivered EXCEPT ![w] = @ \/ RepliesSuccess(peer[w], srv)]
                  \/ delivered' = delivered
      <4>1. HasGrows /\ (SessionsOf(peer[w], srv) # {} => Has(cur[w].m, peer[w])')
        BY <1>t, <2>1, <3>2, NotifyGives
      <4>2. delivered'[w] => delivered[w] \/ SessionsOf(peer[w], srv) # {}
        BY <1>t, <3>2 DEF WorkerTypes, RepliesSuccess
      <4>3. delivered[w] => Has(cur[w].m, peer[w])
        BY <1>t DEF Progress, MsgPC
      <4>4. Has(cur[w].m, peer[w]) => Has(cur[w].m, peer[w])'
        <5>1. ASSUME NEW m \in Msg, NEW u \in User
              PROVE  Has(m, u) => Has(m, u)'
          BY <4>1 DEF HasGrows
        <5> QED
          BY <2>1, <5>1 DEF Has, Got
      <4> QED
        BY <4>1, <4>2, <4>3, <4>4
    <3> QED
      BY <3>1, <3>2
  <2>3. \A v \in Worker : v # w => Same(v)
    BY <1>t DEF WorkerTypes
  <2>4. Progress(w)'
    <3>1. /\ cur'[w] = cur[w] /\ rest'[w] = rest[w] /\ peer'[w] = peer[w]
          /\ pc[w] \in {"fanout", "unlist"} /\ pc'[w] \in {"fanout", "unlist"}
      BY <1>t DEF WorkerTypes
    <3> QED
      BY <1>t, <2>2, <3>1, FanoutProgress
  <2> QED
    BY <2>2, <2>3, <2>4, SettledKept
<1>10. ASSUME NEW w \in Worker, FanoutDone(w)
       PROVE  SettledInv'
  <2> USE <1>10 DEF FanoutDone, Goto
  <2>1. HasGrows
    BY SameHas
  <2>2. \A v \in Worker : v # w => Same(v)
    BY <1>t DEF WorkerTypes
  <2>3. Progress(w)'
    <3>1. /\ pc'[w] = IF NeedsOffline(w) THEN "store" ELSE "lookup"
          /\ pc[w] = "fanout" /\ UNCHANGED <<cur, rest, peer, handed, stored>>
      BY <1>t DEF WorkerTypes
    <3>2. \A x \in To[cur[w].m] \ rest[w] : Accounted(cur[w].m, x) \/ x = peer[w]
      BY <1>t, <3>1 DEF Progress, MsgPC
    <3>3. ~NeedsOffline(w) => Accounted(cur[w].m, peer[w])
      BY <1>t, <3>1 DEF Progress, MsgPC, NeedsOffline, Accounted
    <3>4. \A x \in To[cur[w].m] \ rest[w] :
            Accounted(cur[w].m, x)' \/ (x = peer[w] /\ NeedsOffline(w))
      BY <3>1, <3>2, <3>3 DEF Accounted, Has, Got, OfflineAllowed
    <3> QED
      BY <3>1, <3>4 DEF Progress, MsgPC, PeerPC
  <2> QED
    BY <2>1, <2>2, <2>3, SettledKept
<1>11. ASSUME NEW w \in Worker, SaveOfflineTextMsg(w)
       PROVE  SettledInv'
  <2> USE <1>11 DEF SaveOfflineTextMsg, Goto
  <2>1. HasGrows
    BY DEF HasGrows, Has, Got
  <2>2. \A v \in Worker : v # w => Same(v)
    BY <1>t DEF WorkerTypes
  <2>3. Progress(w)'
    <3>1. /\ pc'[w] = "lookup" /\ pc[w] = "store" /\ UNCHANGED <<cur, rest, peer, handed>>
          /\ stored' = stored \cup {<<cur[w].m, peer[w]>>}
      BY <1>t DEF WorkerTypes
    <3>2. \A x \in To[cur[w].m] \ rest[w] : Accounted(cur[w].m, x) \/ x = peer[w]
      BY <1>t, <3>1 DEF Progress, MsgPC
    <3>3. \A x \in To[cur[w].m] \ rest[w] : Accounted(cur[w].m, x)'
      BY <3>1, <3>2 DEF Accounted, Has, Got, OfflineAllowed
    <3> QED
      BY <3>1, <3>3 DEF Progress
  <2> QED
    BY <2>1, <2>2, <2>3, SettledKept
<1>12. ASSUME NEW w \in Worker, MsgEnd(w)
       PROVE  SettledInv'
  <2> USE <1>12 DEF MsgEnd, Return, Goto
  <2>1. HasGrows
    BY SameHas
  <2>2. \A v \in Worker : v # w => Same(v)
    BY <1>t DEF WorkerTypes
  <2>3. Progress(w)'
    BY <1>t DEF WorkerTypes, Progress, MsgPC
  <2>4. \A u \in To[cur[w].m] : Accounted(cur[w].m, u)
    BY <1>t DEF Progress, MsgPC, PeerPC
  <2>5. \A m \in Msg : fate'[m] = "done" => fate[m] = "done" \/ m = cur[w].m
    BY <1>t DEF HistoryTypes
  <2> QED
    BY <2>1, <2>2, <2>3, <2>4, <2>5, SettledKept
<1>13. ASSUME NEW srv \in Server, Crash(srv)
       PROVE  SettledInv'
  <2> USE <1>13 DEF Crash
  <2>1. HasGrows
    BY SameHas
  <2>2. \A v \in Worker : Same(v) \/ pc'[v] = "idle"
    BY <1>t DEF WorkerTypes
  <2>3. \A m \in Msg : fate'[m] = "done" => fate[m] = "done"
    BY <1>t DEF HistoryTypes
  <2> QED
    BY <2>1, <2>2, <2>3, SettledKept DEF Progress, MsgPC
<1>14. CASE (\E srv \in Server : Restart(srv)) \/ UNCHANGED vars
  <2>1. UNCHANGED <<workVars, histVars>>
    BY <1>14 DEF Restart, vars
  <2> QED
    BY <2>1, SameHas, SettledKept
<1> QED
  BY <1>1, <1>2, <1>3, <1>4, <1>5, <1>6, <1>7, <1>8, <1>9, <1>10, <1>11, <1>12, <1>13, <1>14
  DEF Next, WorkerStep

(* No message is lost by a handler that runs to its end: whatever logins,  *)
(* disconnects, failing calls and crashes of other servers it races with,  *)
(* every recipient has the message or will find it when he logs in next.   *)
THEOREM MessagesSettled == Spec => []Settled
<1>1. Init => TInv /\ SettledInv
  BY TInvInit, SettledInit
<1>2. (TInv /\ SettledInv) /\ [Next]_vars => (TInv /\ SettledInv)'
  BY TInvStep, SettledStep
<1>3. TInv /\ SettledInv => Settled
  BY DEF SettledInv
<1> QED
  BY <1>1, <1>2, <1>3, PTL DEF Spec
-----------------------------------------------------------------------------
(* PresenceNotStale.                                                       *)

(* What may stand behind an entry of uip_<uid>.                            *)
Backed(u, srv) ==
  \/ SessionsOf(u, srv) # {}
  \/ \E w \in Worker : pc[w] = "register" /\ ServerOf[w] = srv /\ Me(w) = u
  \/ \E s \in Session : /\ UserOf[s] = u /\ Home(s) = srv
                        /\ clear[s] \in {"check", "unlist"}

(* Only a session that has ended is being cleared, and none ends twice.    *)
ClearsOnce == \A s \in Session : sock[s] \in {"idle", "open"} => clear[s] = "none"

PresenceInv == PresenceNotStale /\ ClearsOnce

LEMMA PresenceStep == TInv /\ PresenceInv /\ [Next]_vars => PresenceInv'
<1> SUFFICES ASSUME TInv, PresenceInv, [Next]_vars PROVE PresenceInv'
  OBVIOUS
<1> USE DEF sessVars, redisVars, hostVars, workVars
<1>t. SessionTypes /\ WorkerTypes /\ SharedTypes /\ CurOK /\ ClearsOnce
  BY DEF TInv, TypeOK, PresenceInv
<1>p. ASSUME NEW u \in User, NEW srv \in uip[u], srv \notin crashed
      PROVE  Backed(u, srv)
  BY <1>p DEF PresenceInv, PresenceNotStale, Backed
(* It is enough to show that what stands behind an entry stays, or is      *)
(* replaced; and that a new entry has something behind it.                 *)
<1>s. ASSUME ClearsOnce',
             \A u \in User : \A srv \in uip'[u] :
               srv \notin crashed' => (srv \in uip[u] /\ srv \notin crashed /\
                 (Backed(u, srv) => Backed(u, srv)')) \/ Backed(u, srv)'
      PROVE  PresenceInv'
  BY <1>p, <1>s DEF PresenceInv, PresenceNotStale, Backed
<1>1. ASSUME NEW s \in Session, Connect(s) \/ SendLogin(s)
      PROVE  PresenceInv'
  <2>1. /\ UNCHANGED <<registered, clear, pc, cur, uip, crashed>>
        /\ ClearsOnce'
    BY <1>1, <1>t DEF Connect, SendLogin, ClearsOnce, SessionTypes
  <2> QED
    BY <2>1, <1>s DEF Backed, SessionsOf, Me
<1>2. ASSUME NEW s \in Session, NEW how \in {"closed", "stalled"}, EndSession(s, how)
      PROVE  PresenceInv'
  <2>1. /\ UNCHANGED <<registered, pc, cur, uip, crashed>>
        /\ \A x \in Session : clear[x] \in {"check", "unlist"} => clear'[x] = clear[x]
        /\ ClearsOnce'
    BY <1>2, <1>t DEF EndSession, ClearsOnce, SessionTypes
  <2> QED
    BY <2>1, <1>s DEF Backed, SessionsOf, Me
<1>3. ASSUME NEW s \in Session, ClearLookup(s)
      PROVE  PresenceInv'
  <2>1. /\ UNCHANGED <<registered, pc, cur, uip, crashed>>
        /\ \A x \in Session : clear[x] \in {"check", "unlist"} => clear'[x] = clear[x]
        /\ ClearsOnce'
    BY <1>3, <1>t DEF ClearLookup, ClearsOnce, SessionTypes
  <2> QED
    BY <2>1, <1>s DEF Backed, SessionsOf, Me
<1>4. ASSUME NEW s \in Session, RmvUserSession(s)
      PROVE  PresenceInv'
  <2>1. /\ UNCHANGED <<pc, cur, uip, crashed>>
        /\ registered' = registered \ {s} /\ clear'[s] = "check"
        /\ \A x \in Session : clear[x] \in {"check", "unlist"} => clear'[x] = clear[x]
        /\ ClearsOnce'
    BY <1>4, <1>t DEF RmvUserSession, ClearsOnce, SessionTypes
  <2> QED
    BY <2>1, <1>s DEF Backed, SessionsOf, Me
<1>5. ASSUME NEW s \in Session, ClearCheck(s)
      PROVE  PresenceInv'
  <2>1. /\ UNCHANGED <<registered, pc, cur, uip, crashed>>
        /\ SessionsOf(UserOf[s], Home(s)) # {} \/ clear'[s] = "unlist"
        /\ \A x \in Session : x # s => clear'[x] = clear[x]
        /\ ClearsOnce'
    BY <1>5, <1>t DEF ClearCheck, LastSession, ClearsOnce, SessionTypes
  <2> QED
    BY <2>1, <1>s DEF Backed, SessionsOf, Me
<1>6. ASSUME NEW s \in Session, ClearUnlist(s)
      PROVE  PresenceInv'
  <2>1. /\ UNCHANGED <<registered, pc, cur, crashed>>
        /\ \A u \in User : uip'[u] \subseteq uip[u]
        /\ Home(s) \notin uip'[UserOf[s]]
        /\ \A x \in Session : x # s => clear'[x] = clear[x]
        /\ ClearsOnce'
    BY <1>6, <1>t, DeliveryAssumption
    DEF ClearUnlist, RemoveOnlineServer, ClearsOnce, SessionTypes, SharedTypes
  <2> QED
    BY <2>1, <1>s DEF Backed, SessionsOf, Me, PresenceInv, PresenceNotStale
<1>7. ASSUME NEW w \in Worker, AddOnlineServer(w)
      PROVE  PresenceInv'
  <2>1. /\ UNCHANGED <<sock, registered, clear, cur, crashed>>
        /\ pc'[w] = "register" /\ \A v \in Worker : v # w => pc'[v] = pc[v]
        /\ \A u \in User : uip'[u] \subseteq uip[u] \cup (IF u = Me(w) THEN {ServerOf[w]} ELSE {})
    BY <1>7, <1>t DEF AddOnlineServer, Goto, WorkerTypes, SharedTypes
  <2> QED
    BY <2>1, <1>s, <1>t DEF Backed, SessionsOf, Me, ClearsOnce
<1>8. ASSUME NEW w \in Worker, SetUserSession(w)
      PROVE  PresenceInv'
  <2>1. /\ UNCHANGED <<sock, clear, cur, uip, crashed>>
        /\ registered' = registered \cup {cur[w].s}
        /\ \A v \in Worker : v # w => pc'[v] = pc[v]
        /\ Home(cur[w].s) = ServerOf[w]
    BY <1>8, <1>t DEF SetUserSession, Goto, WorkerTypes, CurOK, Home
  <2> QED
    BY <2>1, <1>s, <1>t DEF Backed, SessionsOf, Me, ClearsOnce
<1>9. ASSUME NEW w \in Worker,
             \/ LoginBegin(w) \/ LoginReject(w) \/ LoginDrain(w) \/ LoginBind(w) \/ LoginRespond(w)
             \/ MsgBegin(w) \/ MsgRefuse(w) \/ FindNoneLocal(w) \/ UnlistLocal(w)
             \/ FanoutDone(w) \/ SaveOfflineTextMsg(w) \/ MsgEnd(w)
      PROVE  PresenceInv'
  <2> USE <1>9, <1>t
  <2>1. UNCHANGED <<sock, registered, clear, crashed>>
    BY DEF LoginBegin, LoginReject, LoginDrain, LoginBind, LoginRespond, MsgBegin, MsgRefuse,
           FindNoneLocal, UnlistLocal, FanoutDone, SaveOfflineTextMsg, MsgEnd
  <2>2. pc[w] # "register" /\ \A v \in Worker : v # w => pc'[v] = pc[v] /\ cur'[v] = cur[v]
    <3>1. CASE LoginBegin(w) \/ LoginReject(w) \/ LoginDrain(w) \/ LoginBind(w) \/ LoginRespond(w)
      BY <3>1 DEF LoginBegin, LoginReject, LoginDrain, LoginBind, LoginRespond, DealMsg, Goto,
                  Return, WorkerTypes
    <3>2. CASE \/ MsgBegin(w) \/ MsgRefuse(w) \/ FindNoneLocal(w) \/ UnlistLocal(w)
               \/ FanoutDone(w) \/ SaveOfflineTextMsg(w) \/ MsgEnd(w)
      BY <3>2 DEF MsgBegin, MsgRefuse, FindNoneLocal, UnlistLocal, FanoutDone,
                  SaveOfflineTextMsg, MsgEnd, DealMsg, Goto, Return, WorkerTypes
    <3> QED
      BY <3>1, <3>2
  <2>3. \A u \in User : uip'[u] \subseteq uip[u]
    BY DEF LoginBegin, LoginReject, LoginDrain, LoginBind, LoginRespond, MsgBegin, MsgRefuse,
           FindNoneLocal, UnlistLocal, FanoutDone, SaveOfflineTextMsg, MsgEnd,
           RemoveOnlineServer, SharedTypes
  <2> QED
    BY <2>1, <2>2, <2>3, <1>s DEF Backed, SessionsOf, Me, ClearsOnce, PresenceInv, PresenceNotStale
<1>10. ASSUME NEW w \in Worker,
              \/ \E u \in User : GetOnlineServers(w, u)
              \/ NotifyLocal(w) \/ \E srv \in Server : NotifyRemote(w, srv)
       PROVE  PresenceInv'
  <2>1. /\ UNCHANGED <<sock, registered, clear, cur, uip, crashed>>
        /\ \A v \in Worker : pc[v] = "register" => pc'[v] = "register"
    BY <1>10, <1>t DEF GetOnlineServers, NotifyLocal, NotifyRemote, Goto, WorkerTypes
  <2> QED
    BY <2>1, <1>s, <1>t DEF Backed, SessionsOf, Me, ClearsOnce
<1>11. ASSUME NEW k \in Server, Crash(k)
       PROVE  PresenceInv'
  <2>1. /\ crashed' = crashed \cup {k} /\ uip' = uip
        /\ \A s \in registered : Home(s) # k => s \in registered'
        /\ \A s \in Session : Home(s) # k => clear'[s] = clear[s]
        /\ \A w \in Worker : ServerOf[w] # k => pc'[w] = pc[w] /\ cur'[w] = cur[w]
        /\ ClearsOnce'
    BY <1>11, <1>t DEF Crash, ClearsOnce, SessionTypes, WorkerTypes
  <2> QED
    BY <2>1, <1>s DEF Backed, SessionsOf, Me
<1>12. CASE \/ \E m \in Msg : SendMsg(m)
            \/ \E srv \in Server : Restart(srv)
            \/ UNCHANGED vars
  <2>1. UNCHANGED <<sock, registered, clear, pc, cur, uip, crashed>>
    BY <1>12 DEF SendMsg, Restart, vars
  <2> QED
    BY <2>1, <1>s, <1>t DEF Backed, SessionsOf, Me, ClearsOnce
<1> QED
  BY <1>1, <1>2, <1>3, <1>4, <1>5, <1>6, <1>7, <1>8, <1>9, <1>10, <1>11, <1>12
  DEF Next, ClientStep, ClearStep, WorkerStep, Disconnect, BadFrame

(* However logins, disconnects and handlers of the same user interleave,   *)
(* an entry of uip_<uid> for a server that has not crashed has a session   *)
(* behind it, or a login or ClearSession that is about to settle it.       *)
THEOREM PresenceClean == Spec => []PresenceNotStale
<1>1. Init => TInv /\ PresenceInv
  BY TInvInit DEF Init, PresenceInv, PresenceNotStale, ClearsOnce
<1>2. (TInv /\ PresenceInv) /\ [Next]_vars => (TInv /\ PresenceInv)'
  BY TInvStep, PresenceStep
<1>3. TInv /\ PresenceInv => PresenceNotStale
  BY DEF PresenceInv
<1> QED
  BY <1>1, <1>2, <1>3, PTL DEF Spec
-----------------------------------------------------------------------------
(* MissingOnlyIfRaced.                                                     *)

(* A removal that is still to come, and an entry that is already removed   *)
(* although its login goes on, have been recorded for the sessions that    *)
(* they concern.                                                           *)
Recorded ==
  /\ \A s \in registered : Unlisting(UserOf[s], Home(s)) => s \in raced
  /\ \A w \in Worker :
       pc[w] = "register" => ServerOf[w] \in uip[Me(w)] \/ cur[w].s \in raced

RaceInv == MissingOnlyIfRaced /\ Recorded

(* RaceInv is kept by a step that registers no session, adds no removal    *)
(* and no login, and leaves uip_<uid> and the recorded sessions alone.     *)
LEMMA RaceKept ==
  ASSUME RaceInv, registered' \subseteq registered,
         \A u \in User, srv \in Server : Unlisting(u, srv)' => Unlisting(u, srv),
         \A w \in Worker : pc'[w] = "register" => pc[w] = "register" /\ cur'[w] = cur[w],
         registered \subseteq Session, UNCHANGED <<uip, raced>>
  PROVE  RaceInv'
<1>1. MissingOnlyIfRaced'
  BY DEF RaceInv, MissingOnlyIfRaced
<1>2. \A s \in registered' : Unlisting(UserOf[s], Home(s))' => s \in raced'
  BY DeliveryAssumption DEF RaceInv, Recorded, Home
<1>3. Recorded'
  BY <1>2 DEF RaceInv, Recorded, Me
<1> QED
  BY <1>1, <1>3 DEF RaceInv

(* The removal of an entry strikes registered sessions that are recorded,  *)
(* and records those that are about to be registered.                      *)
LEMMA RaceRemoved ==
  ASSUME TInv, RaceInv, NEW u \in User, NEW srv \in Server,
         Unlisting(u, srv), RemoveOnlineServer(u, srv), UNCHANGED registered,
         \A x \in User, k \in Server : Unlisting(x, k)' => Unlisting(x, k),
         \A w \in Worker : pc'[w] = "register" => pc[w] = "register" /\ cur'[w] = cur[w]
  PROVE  RaceInv'
<1>t. registered \subseteq Session /\ SharedTypes /\ CurOK
  BY DEF TInv, TypeOK, SessionTypes
<1>u. /\ \A x \in User : uip'[x] = IF x = u THEN uip[x] \ {srv} ELSE uip[x]
      /\ raced' = raced \cup Registering(u, srv)
  BY <1>t DEF RemoveOnlineServer, SharedTypes
<1>1. MissingOnlyIfRaced'
  <2> SUFFICES ASSUME NEW s \in registered, Home(s) \notin uip'[UserOf[s]]
               PROVE  s \in raced
    BY <1>u DEF MissingOnlyIfRaced
  <2>1. UserOf[s] \in User
    BY <1>t, DeliveryAssumption
  <2>2. CASE Home(s) \notin uip[UserOf[s]]
    BY <2>2 DEF RaceInv, MissingOnlyIfRaced
  <2>3. CASE UserOf[s] = u /\ Home(s) = srv
    BY <2>3 DEF RaceInv, Recorded
  <2> QED
    BY <1>u, <2>1, <2>2, <2>3
<1>2. \A s \in registered' : Unlisting(UserOf[s], Home(s))' => s \in raced'
  BY <1>t, <1>u, DeliveryAssumption DEF RaceInv, Recorded, Home
<1>3. ASSUME NEW w \in Worker, pc'[w] = "register"
      PROVE  ServerOf[w] \in uip'[Me(w)'] \/ cur'[w].s \in raced'
  <2>1. pc[w] = "register" /\ cur'[w] = cur[w] /\ Me(w)' = Me(w) /\ Me(w) \in User
    BY <1>t, <1>3, DeliveryAssumption DEF CurOK, Request, Me
  <2>2. CASE Me(w) = u /\ ServerOf[w] = srv
    BY <1>u, <2>1, <2>2 DEF Registering, Me
  <2>3. CASE ~(Me(w) = u /\ ServerOf[w] = srv)
    BY <1>u, <2>1, <2>3 DEF RaceInv, Recorded
  <2> QED
    BY <2>2, <2>3
<1>4. Recorded'
  BY <1>2, <1>3 DEF Recorded
<1> QED
  BY <1>1, <1>4 DEF RaceInv

(* One case per action that touches UserMgr, uip_<uid> or a removal.       *)
LEMMA RaceStep == TInv /\ RaceInv /\ [Next]_vars => RaceInv'
<1> SUFFICES ASSUME TInv, RaceInv, [Next]_vars PROVE RaceInv'
  OBVIOUS
<1> USE DEF sessVars, redisVars, hostVars, workVars
<1>t. SessionTypes /\ WorkerTypes /\ SharedTypes /\ CurOK /\ registered \subseteq Session
  BY DEF TInv, TypeOK, SessionTypes
<1>1. ASSUME NEW s \in Session,
             Connect(s) \/ SendLogin(s) \/ Disconnect(s) \/ BadFrame(s)
             \/ ClearLookup(s) \/ RmvUserSession(s)
      PROVE  RaceInv'
  <2>1. /\ UNCHANGED <<pc, cur, peer, uip, raced>> /\ registered' \subseteq registered
        /\ \A x \in Session : clear'[x] = "unlist" => clear[x] = "unlist"
    BY <1>1, <1>t DEF Connect, SendLogin, Disconnect, BadFrame, EndSession, ClearLookup,
                      RmvUserSession, SessionTypes
  <2> QED
    BY <2>1, <1>t, RaceKept DEF Unlisting
<1>2. ASSUME NEW s \in Session, ClearCheck(s)
      PROVE  RaceInv'
  <2>1. /\ UNCHANGED <<registered, pc, cur, peer, uip, raced>>
        /\ \A x \in Session : x # s => clear'[x] = clear[x]
        /\ clear'[s] = "unlist" => SessionsOf(UserOf[s], Home(s)) = {}
    BY <1>2, <1>t DEF ClearCheck, LastSession, SessionTypes
  <2>2. ASSUME NEW x \in registered, Unlisting(UserOf[x], Home(x))'
        PROVE  Unlisting(UserOf[x], Home(x))
    BY <2>1, <2>2 DEF Unlisting, SessionsOf
  <2> QED
    BY <2>1, <2>2 DEF RaceInv, MissingOnlyIfRaced, Recorded, Me
<1>3. ASSUME NEW s \in Session, ClearUnlist(s)
      PROVE  RaceInv'
  <2>1. /\ UNCHANGED <<registered, pc, cur, peer>> /\ RemoveOnlineServer(UserOf[s], Home(s))
        /\ \A x \in Session : clear'[x] = "unlist" => clear[x] = "unlist"
    BY <1>3, <1>t DEF ClearUnlist, SessionTypes
  <2>2. UserOf[s] \in User /\ Home(s) \in Server /\ Unlisting(UserOf[s], Home(s))
    BY <1>3, DeliveryAssumption DEF ClearUnlist, Unlisting, Home
  <2>3. \A x \in User, k \in Server : Unlisting(x, k)' => Unlisting(x, k)
    BY <2>1 DEF Unlisting
  <2> QED
    BY <2>1, <2>2, <2>3, RaceRemoved
<1>4. ASSUME NEW w \in Worker, AddOnlineServer(w)
      PROVE  RaceInv'
  <2>1. /\ UNCHANGED <<registered, clear, cur, peer, raced>> /\ pc'[w] = "register"
        /\ \A v \in Worker : v # w => pc'[v] = pc[v]
        /\ \A u \in User : uip[u] \subseteq uip'[u]
        /\ Me(w) \in User => ServerOf[w] \in uip'[Me(w)]
    BY <1>4, <1>t DEF AddOnlineServer, Goto, WorkerTypes, SharedTypes
  <2>2. \A v \in Worker : pc[v] # "idle" => Me(v) \in User
    BY <1>t, DeliveryAssumption DEF CurOK, Request, Me
  <2>3. MissingOnlyIfRaced'
    BY <1>t, <2>1, DeliveryAssumption DEF RaceInv, MissingOnlyIfRaced
  <2>4. \A s \in registered' : Unlisting(UserOf[s], Home(s))' => s \in raced'
    BY <2>1 DEF RaceInv, Recorded, Unlisting
  <2>5. ASSUME NEW v \in Worker, pc'[v] = "register"
        PROVE  ServerOf[v] \in uip'[Me(v)'] \/ cur'[v].s \in raced'
    BY <1>4, <2>1, <2>2, <2>5 DEF RaceInv, Recorded, Me, AddOnlineServer
  <2> QED
    BY <2>3, <2>4, <2>5 DEF RaceInv, Recorded
<1>5. ASSUME NEW w \in Worker, SetUserSession(w)
      PROVE  RaceInv'
  <2> DEFINE s == cur[w].s
  <2>1. /\ UNCHANGED <<clear, cur, peer, uip>> /\ registered' = registered \cup {s}
        /\ pc[w] = "register" /\ pc'[w] = "respond"
        /\ \A v \in Worker : v # w => pc'[v] = pc[v]
        /\ raced \subseteq raced' /\ (Unlisting(UserOf[s], ServerOf[w]) => s \in raced')
        /\ Home(s) = ServerOf[w]
    BY <1>5, <1>t DEF SetUserSession, Goto, WorkerTypes, CurOK, Home
  <2>2. \A x, k : Unlisting(x, k)' => Unlisting(x, k)
    BY <2>1 DEF Unlisting
  <2>3. MissingOnlyIfRaced'
    BY <2>1 DEF RaceInv, MissingOnlyIfRaced, Recorded, Me
  <2>4. Recorded'
    BY <2>1, <2>2 DEF RaceInv, Recorded, Me
  <2> QED
    BY <2>3, <2>4 DEF RaceInv
<1>6. ASSUME NEW w \in Worker, FindNoneLocal(w)
      PROVE  RaceInv'
  <2>1. /\ UNCHANGED <<registered, clear, cur, peer, uip, raced>> /\ pc'[w] = "unlist"
        /\ \A v \in Worker : v # w => pc'[v] = pc[v]
        /\ SessionsOf(peer[w], ServerOf[w]) = {}
    BY <1>6, <1>t DEF FindNoneLocal, Goto, WorkerTypes
  <2>2. ASSUME NEW x \in registered, Unlisting(UserOf[x], Home(x))'
        PROVE  Unlisting(UserOf[x], Home(x))
    BY <2>1, <2>2 DEF Unlisting, SessionsOf
  <2> QED
    BY <2>1, <2>2 DEF RaceInv, MissingOnlyIfRaced, Recorded, Me
<1>7. ASSUME NEW w \in Worker, UnlistLocal(w)
      PROVE  RaceInv'
  <2>1. /\ UNCHANGED <<registered, clear, cur, peer>> /\ RemoveOnlineServer(peer[w], ServerOf[w])
        /\ pc[w] = "unlist" /\ pc'[w] = "fanout"
        /\ \A v \in Worker : v # w => pc'[v] = pc[v]
    BY <1>7, <1>t DEF UnlistLocal, Goto, WorkerTypes
  <2>2. peer[w] \in User /\ ServerOf[w] \in Server /\ Unlisting(peer[w], ServerOf[w])
    BY <2>1, <1>t, DeliveryAssumption DEF Unlisting, CurOK, PeerPC
  <2>3. /\ \A x \in User, k \in Server : Unlisting(x, k)' => Unlisting(x, k)
        /\ \A v \in Worker : pc'[v] = "register" => pc[v] = "register"
    BY <2>1 DEF Unlisting
  <2> QED
    BY <2>1, <2>2, <2>3, RaceRemoved
<1>8. ASSUME NEW w \in Worker,
             \/ LoginBegin(w) \/ LoginReject(w) \/ LoginDrain(w) \/ LoginBind(w) \/ LoginRespond(w)
             \/ MsgBegin(w) \/ MsgRefuse(w) \/ (\E u \in User : GetOnlineServers(w, u))
             \/ NotifyLocal(w) \/ (\E srv \in Server : NotifyRemote(w, srv))
             \/ FanoutDone(w) \/ SaveOfflineTextMsg(w) \/ MsgEnd(w)
      PROVE  RaceInv'
  <2> USE <1>8, <1>t
  <2>1. /\ UNCHANGED <<registered, clear, uip, raced>>
        /\ (pc'[w] = pc[w] /\ cur'[w] = cur[w]) \/ pc'[w] \notin {"register", "unlist"}
        /\ pc'[w] = "unlist" => peer'[w] = peer[w]
        /\ \A v \in Worker : v # w => pc'[v] = pc[v] /\ cur'[v] = cur[v] /\ peer'[v] = peer[v]
    <3>1. CASE LoginBegin(w) \/ LoginReject(w) \/ LoginDrain(w) \/ LoginBind(w) \/ LoginRespond(w)
      BY <3>1 DEF LoginBegin, LoginReject, LoginDrain, LoginBind, LoginRespond, DealMsg, Goto,
                  Return, WorkerTypes
    <3>2. CASE \/ MsgBegin(w) \/ MsgRefuse(w) \/ FanoutDone(w) \/ SaveOfflineTextMsg(w)
               \/ MsgEnd(w)
      BY <3>2 DEF MsgBegin, MsgRefuse, FanoutDone, SaveOfflineTextMsg, MsgEnd, DealMsg, Goto,
                  Return, WorkerTypes
    <3>3. CASE \/ \E u \in User : GetOnlineServers(w, u)
               \/ NotifyLocal(w) \/ \E srv \in Server : NotifyRemote(w, srv)
      BY <3>3 DEF GetOnlineServers, NotifyLocal, NotifyRemote, Goto, WorkerTypes
    <3> QED
      BY <3>1, <3>2, <3>3
  <2>2. \A x \in User, k \in Server : Unlisting(x, k)' => Unlisting(x, k)
    BY <2>1 DEF Unlisting
  <2> QED
    BY <2>1, <2>2, RaceKept
<1>9. ASSUME NEW k \in Server, Crash(k)
      PROVE  RaceInv'
  <2>1. /\ registered' \subseteq registered /\ UNCHANGED <<uip, raced>>
        /\ \A x \in Session : clear'[x] = "unlist" => clear[x] = "unlist"
        /\ \A v \in Worker : \/ pc'[v] = pc[v] /\ cur'[v] = cur[v] /\ peer'[v] = peer[v]
                             \/ pc'[v] = "idle"
    BY <1>9, <1>t DEF Crash, SessionTypes, WorkerTypes
  <2>2. \A x \in User, srv \in Server : Unlisting(x, srv)' => Unlisting(x, srv)
    BY <2>1 DEF Unlisting
  <2> QED
    BY <2>1, <2>2, <1>t, RaceKept
<1>10. CASE \/ \E m \in Msg : SendMsg(m)
            \/ \E srv \in Server : Restart(srv)
            \/ UNCHANGED vars
  <2>1. UNCHANGED <<registered, clear, pc, cur, peer, uip, raced>>
    BY <1>10 DEF SendMsg, Restart, vars
  <2> QED
    BY <2>1, <1>t, RaceKept DEF Unlisting
<1> QED
  BY <1>1, <1>2, <1>3, <1>4, <1>5, <1>6, <1>7, <1>8, <1>9, <1>10
  DEF Next, ClientStep, ClearStep, WorkerStep

(* A registered session that uip_<uid> does not list is one that a removal *)
(* of the entry overtook while it logged in: the handler's or ClearSession *)
(* of its server had found no session before this one was registered.      *)
THEOREM MissingExplained == Spec => []MissingOnlyIfRaced
<1>1. Init => TInv /\ RaceInv
  BY TInvInit DEF Init, RaceInv, MissingOnlyIfRaced, Recorded
<1>2. (TInv /\ RaceInv) /\ [Next]_vars => (TInv /\ RaceInv)'
  BY TInvStep, RaceStep
<1>3. TInv /\ RaceInv => MissingOnlyIfRaced
  BY DEF RaceInv
<1> QED
  BY <1>1, <1>2, <1>3, PTL DEF Spec
=============================================================================
