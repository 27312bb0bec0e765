---------------------------- MODULE ChatDelivery ----------------------------
(***************************************************************************)
(* The delivery core of a cluster of ChatServers: sessions log in and go   *)
(* away, the Redis set uip_<uid> says on which servers a user is online,   *)
(* and every message handler fans a message out to the sessions of its     *)
(* recipients, locally through UserMgr, remotely over gRPC, or into the    *)
(* Redis list offline_msg_<uid>.                                           *)
(*                                                                         *)
(* A step is one operation on shared state: one Redis command, one         *)
(* critical section of UserMgr, one remote call.  The threads are the      *)
(* logic workers (one request at a time each) and, per session, the I/O    *)
(* thread that runs CServer::ClearSession.                                 *)
(***************************************************************************)
EXTENDS Naturals, Sequences, FiniteSets

CONSTANTS
  Server,      \* ChatServer instances
  Worker,      \* logic workers (LogicSystem::DealMsg threads) of all servers
  Session,     \* TCP sessions; each connects at most once
  User,
  Msg,         \* messages, numbered in the order a sender sends them
  None,        \* no message (the request is a login), no request, no user
  ServerOf,    \* the server of a worker
  WorkerOf,    \* the worker a session's requests hash to (SelectQueue)
  UserOf,      \* the uid a session logs in with
  From,        \* the session a message is sent on
  To,          \* the recipients of a message (for a group, without its sender)
  Kind,        \* which handler serves a message
  Senders,     \* bound of the model: sessions that only send, to the end
  DrainLimit,  \* LoginHandler's 200
  MaxCrashes   \* bound of the model: how many server crashes happen

ASSUME DeliveryAssumption ==
  /\ Msg \subseteq Nat
  /\ None \notin Msg /\ None \notin User
  /\ ServerOf \in [Worker -> Server]
  /\ WorkerOf \in [Session -> Worker]
  /\ UserOf \in [Session -> User]
  /\ From \in [Msg -> Session]
  /\ To \in [Msg -> SUBSET User]
  /\ Kind \in [Msg -> {"text", "group", "event"}]
  /\ Senders \subseteq Session
  /\ DrainLimit \in Nat
  /\ MaxCrashes \in Nat

Home(s) == ServerOf[WorkerOf[s]]

(* DealChatTextMsg and DealGroupTextMsg save what they cannot deliver; the *)
(* group event of CreateGroupHandler is sent with allow_offline = false.   *)
OfflineAllowed(m) == Kind[m] # "event"

Request == [s : Session, m : Msg \cup {None}]

PC == {"idle", "drain", "list", "register", "respond",
       "lookup", "fanout", "unlist", "store"}

VARIABLES
  sock,        \* the TCP connection of a session
  asked,       \* sessions whose client has sent its login
  bound,       \* sessions with a uid (CSession::_user_uid > 0)
  registered,  \* sessions in UserMgr of their server, under their user
  clear,       \* progress of CServer::ClearSession for a session
  queue,       \* the request queue of a worker
  pc, cur,     \* what a worker does, and the request it does it for
  rest,        \* recipients the worker has not served yet
  peer,        \* the recipient it serves now
  todo,        \* servers of the snapshot it has not tried yet
  delivered,   \* its local variable "delivered"
  batch,       \* offline messages a login has popped
  uip,         \* Redis set uip_<uid>
  offline,     \* Redis list offline_msg_<uid>
  up, crashes, \* which servers run; crashes so far
  (* What happened, for the properties only. *)
  fate,        \* where the handling of a message stands
  handed,      \* per session, the messages passed to its Send, in order
  swallowed,   \* those passed to a session closed and cleared away before
  stored,      \* <<message, recipient>> pushed to the offline list
  doubtful,    \* <<message, recipient>> with a remote call whose reply was lost
  fetched,     \* per session, the offline messages of its login response
  dropped,     \* <<message, recipient>> popped by a login that crashed
  crashed,     \* servers that have crashed at least once
  raced        \* sessions whose login a removal of their entry overtook

sessVars == <<sock, asked, bound, registered, clear>>
workVars == <<pc, cur, rest, peer, todo, delivered, batch>>
redisVars == <<uip, offline>>
histVars == <<fate, handed, swallowed, stored, doubtful, fetched, dropped>>
hostVars == <<up, crashes, crashed, raced>>
vars == <<sessVars, queue, workVars, redisVars, hostVars, histVars>>

SessionTypes ==
  /\ sock \in [Session -> {"idle", "open", "stalled", "closed"}]
  /\ asked \in SUBSET Session
  /\ bound \in SUBSET Session
  /\ registered \in SUBSET Session
  /\ clear \in [Session -> {"none", "lookup", "remove", "check", "unlist", "done"}]

WorkerTypes ==
  /\ queue \in [Worker -> Seq(Request)]
  /\ pc \in [Worker -> PC]
  /\ cur \in [Worker -> Request \cup {None}]
  /\ rest \in [Worker -> SUBSET User]
  /\ peer \in [Worker -> User \cup {None}]
  /\ todo \in [Worker -> SUBSET Server]
  /\ delivered \in [Worker -> BOOLEAN]
  /\ batch \in [Worker -> Seq(Msg)]

SharedTypes ==
  /\ uip \in [User -> SUBSET Server]
  /\ offline \in [User -> Seq(Msg)]
  /\ up \in SUBSET Server
  /\ crashes \in 0 .. MaxCrashes
  /\ crashed \in SUBSET Server
  /\ raced \in SUBSET Session

HistoryTypes ==
  /\ fate \in [Msg -> {"unsent", "queued", "handling", "done", "refused", "lost"}]
  /\ handed \in [Session -> Seq(Msg)]
  /\ swallowed \in SUBSET (Msg \X Session)
  /\ stored \in SUBSET (Msg \X User)
  /\ doubtful \in SUBSET (Msg \X User)
  /\ fetched \in [Session -> Seq(Msg)]
  /\ dropped \in SUBSET (Msg \X User)

(* Every variable keeps its type. *)
TypeOK == SessionTypes /\ WorkerTypes /\ SharedTypes /\ HistoryTypes

Init ==
  /\ sock = [s \in Session |-> "idle"]
  /\ asked = {} /\ bound = {} /\ registered = {}
  /\ clear = [s \in Session |-> "none"]
  /\ queue = [w \in Worker |-> <<>>]
  /\ pc = [w \in Worker |-> "idle"]
  /\ cur = [w \in Worker |-> None]
  /\ rest = [w \in Worker |-> {}]
  /\ peer = [w \in Worker |-> None]
  /\ todo = [w \in Worker |-> {}]
  /\ delivered = [w \in Worker |-> FALSE]
  /\ batch = [w \in Worker |-> <<>>]
  /\ uip = [u \in User |-> {}]
  /\ offline = [u \in User |-> <<>>]
  /\ up = Server /\ crashes = 0 /\ crashed = {} /\ raced = {}
  /\ fate = [m \in Msg |-> "unsent"]
  /\ handed = [s \in Session |-> <<>>]
  /\ swallowed = {} /\ stored = {} /\ doubtful = {} /\ dropped = {}
  /\ fetched = [s \in Session |-> <<>>]
-----------------------------------------------------------------------------
(* The client's side of a session. *)

Connect(s) ==
  /\ sock[s] = "idle" /\ Home(s) \in up
  /\ sock' = [sock EXCEPT ![s] = "open"]
  /\ UNCHANGED <<asked, bound, registered, clear, queue, workVars, redisVars,
                 hostVars, histVars>>

(* Mutant: the request is queued without its session. *)
PostMsgBare(s, m) == queue' = [queue EXCEPT ![WorkerOf[s]] = Append(@, m)]

PostMsgToQue(s, m) ==
  queue' = [queue EXCEPT ![WorkerOf[s]] = Append(@, [s |-> s, m |-> m])]

(* One login per session: a bound of the model. *)
SendLogin(s) ==
  /\ sock[s] = "open" /\ s \notin asked \cup Senders
  /\ asked' = asked \cup {s}
  /\ PostMsgToQue(s, None)
  /\ UNCHANGED <<sock, bound, registered, clear, workVars, redisVars,
                 hostVars, histVars>>

(* No handler asks whether the session has logged in. *)
SendMsg(m) ==
  /\ fate[m] = "unsent" /\ sock[From[m]] = "open"
  /\ \A k \in Msg : From[k] = From[m] /\ k < m => fate[k] # "unsent"
  /\ fate' = [fate EXCEPT ![m] = "queued"]
  /\ PostMsgToQue(From[m], m)
  /\ UNCHANGED <<sessVars, workVars, redisVars, hostVars, handed, swallowed,
                 stored, doubtful, fetched, dropped>>
-----------------------------------------------------------------------------
(* The I/O thread: the end of a session and CServer::ClearSession.         *)

SessionsOf(u, srv) == {s \in registered : UserOf[s] = u /\ Home(s) = srv}

(* A read error closes the socket; a frame with an impossible id or length *)
(* only stops the reading.  Either way ClearSession follows.               *)
EndSession(s, how) ==
  /\ sock[s] = "open" /\ s \notin Senders
  /\ sock' = [sock EXCEPT ![s] = how]
  /\ clear' = [clear EXCEPT ![s] = "lookup"]
  /\ UNCHANGED <<asked, bound, registered, queue, workVars, redisVars,
                 hostVars, histVars>>

Disconnect(s) == EndSession(s, "closed")
BadFrame(s) == EndSession(s, "stalled")

ClearLookup(s) ==
  /\ clear[s] = "lookup"
  /\ clear' = [clear EXCEPT ![s] = IF s \in bound THEN "remove" ELSE "done"]
  /\ UNCHANGED <<sock, asked, bound, registered, queue, workVars, redisVars,
                 hostVars, histVars>>

RmvUserSession(s) ==
  /\ clear[s] = "remove"
  /\ registered' = registered \ {s}
  /\ clear' = [clear EXCEPT ![s] = "check"]
  /\ UNCHANGED <<sock, asked, bound, queue, workVars, redisVars, hostVars,
                 histVars>>

(* Mutant: the entry is removed whatever other sessions there are. *)
AnySession(s) == TRUE

(* Mutant: the test as it would stand before the removal. *)
OnlySession(s) == SessionsOf(UserOf[s], Home(s)) = {s}

LastSession(s) == SessionsOf(UserOf[s], Home(s)) = {}

ClearCheck(s) ==
  /\ clear[s] = "check"
  /\ clear' = [clear EXCEPT ![s] = IF LastSession(s) THEN "unlist" ELSE "done"]
  /\ UNCHANGED <<sock, asked, bound, registered, queue, workVars, redisVars,
                 hostVars, histVars>>

(* The sessions of u that are about to be registered on srv: with          *)
(* Unlisting below, what "raced" records.                                  *)
Registering(u, srv) ==
  {cur[w].s : w \in {x \in Worker : /\ pc[x] = "register" /\ ServerOf[x] = srv
                                    /\ UserOf[cur[x].s] = u}}

(* Mutant: the whole set is deleted. *)
DelOnlineServers(u, srv) ==
  /\ uip' = [uip EXCEPT ![u] = {}]
  /\ raced' = raced \cup Registering(u, srv)

RemoveOnlineServer(u, srv) ==
  /\ uip' = [uip EXCEPT ![u] = @ \ {srv}]
  /\ raced' = raced \cup Registering(u, srv)

ClearUnlist(s) ==
  /\ clear[s] = "unlist"
  /\ RemoveOnlineServer(UserOf[s], Home(s))
  /\ clear' = [clear EXCEPT ![s] = "done"]
  /\ UNCHANGED <<sock, asked, bound, registered, queue, workVars, offline,
                 up, crashes, crashed, histVars>>
-----------------------------------------------------------------------------
(* The logic worker: LoginHandler.                                         *)

(* DealMsg pops the next request; the worker goes on at step "p". *)
DealMsg(w, p) ==
  /\ pc[w] = "idle" /\ queue[w] # <<>>
  /\ cur' = [cur EXCEPT ![w] = Head(queue[w])]
  /\ queue' = [queue EXCEPT ![w] = Tail(@)]
  /\ pc' = [pc EXCEPT ![w] = p]

Goto(w, p) == pc' = [pc EXCEPT ![w] = p]

(* The worker is done with its request and forgets its local variables. *)
Return(w) ==
  /\ Goto(w, "idle")
  /\ cur' = [cur EXCEPT ![w] = None]

(* The token is right and the user is known. *)
LoginBegin(w) ==
  /\ DealMsg(w, "drain") /\ Head(queue[w]).m = None
  /\ UNCHANGED <<sessVars, rest, peer, todo, delivered, batch, redisVars,
                 hostVars, histVars>>

(* The token is missing or wrong, or the user unknown: an error response. *)
LoginReject(w) ==
  /\ pc[w] = "idle" /\ queue[w] # <<>> /\ Head(queue[w]).m = None
  /\ queue' = [queue EXCEPT ![w] = Tail(@)]
  /\ UNCHANGED <<sessVars, workVars, redisVars, hostVars, histVars>>

Me(w) == UserOf[cur[w].s]

(* Mutant: the list is read (LINDEX), not popped. *)
Peeked(q) == q
(* Mutant: LPUSH for RPUSH. *)
PushedLeft(q, m) == <<m>> \o q

Popped(q) == Tail(q)
Pushed(q, m) == Append(q, m)

(* One LPOP of the loop that empties the offline list. *)
LoginDrain(w) ==
  /\ pc[w] = "drain"
  /\ Len(batch[w]) < DrainLimit /\ offline[Me(w)] # <<>>
  /\ batch' = [batch EXCEPT ![w] = Append(@, Head(offline[Me(w)]))]
  /\ offline' = [offline EXCEPT ![Me(w)] = Popped(@)]
  /\ UNCHANGED <<sessVars, queue, pc, cur, rest, peer, todo, delivered, uip,
                 hostVars, histVars>>

(* The loop ends; SetUserId. *)
LoginBind(w) ==
  /\ pc[w] = "drain"
  /\ Len(batch[w]) >= DrainLimit \/ offline[Me(w)] = <<>>
  /\ bound' = bound \cup {cur[w].s}
  /\ Goto(w, "list")
  /\ UNCHANGED <<sock, asked, registered, clear, queue, cur, rest, peer, todo,
                 delivered, batch, redisVars, hostVars, histVars>>

AddOnlineServer(w) ==
  /\ pc[w] = "list"
  /\ uip' = [uip EXCEPT ![Me(w)] = @ \cup {ServerOf[w]}]
  /\ Goto(w, "register")
  /\ UNCHANGED <<sessVars, queue, cur, rest, peer, todo, delivered, batch,
                 offline, hostVars, histVars>>

(* A worker or a ClearSession has found no session of u on srv and has not *)
(* removed the entry yet.                                                  *)
Unlisting(u, srv) ==
  \/ \E w \in Worker : pc[w] = "unlist" /\ ServerOf[w] = srv /\ peer[w] = u
  \/ \E s \in Session : clear[s] = "unlist" /\ UserOf[s] = u /\ Home(s) = srv

SetUserSession(w) ==
  /\ pc[w] = "register"
  /\ registered' = registered \cup {cur[w].s}
  /\ raced' = raced \cup {s \in {cur[w].s} : Unlisting(UserOf[s], ServerOf[w])}
  /\ Goto(w, "respond")
  /\ UNCHANGED <<sock, asked, bound, clear, queue, cur, rest, peer, todo,
                 delivered, batch, redisVars, up, crashes, crashed, histVars>>

(* The Defer block: the response leaves only now, after the registration. *)
LoginRespond(w) ==
  /\ pc[w] = "respond"
  /\ fetched' = [fetched EXCEPT ![cur[w].s] = batch[w]]
  /\ batch' = [batch EXCEPT ![w] = <<>>]
  /\ Return(w)
  /\ UNCHANGED <<sessVars, queue, rest, peer, todo, delivered, redisVars,
                 hostVars, fate, handed, swallowed, stored, doubtful, dropped>>
-----------------------------------------------------------------------------
(* The logic worker: DealChatTextMsg, DealGroupTextMsg, CreateGroupHandler.*)

MsgBegin(w) ==
  /\ DealMsg(w, "lookup")
  /\ LET m == Head(queue[w]).m IN
       /\ m # None
       /\ rest' = [rest EXCEPT ![w] = To[m]]
       /\ fate' = [fate EXCEPT ![m] = "handling"]
  /\ UNCHANGED <<sessVars, peer, todo, delivered, batch, redisVars, hostVars,
                 handed, swallowed, stored, doubtful, fetched, dropped>>

(* The sender is no member of the group (he has had his ACK all the same), *)
(* or the group could not be created.                                      *)
MsgRefuse(w) ==
  /\ pc[w] = "idle" /\ queue[w] # <<>>
  /\ LET m == Head(queue[w]).m IN
       /\ m # None /\ Kind[m] # "text"
       /\ fate' = [fate EXCEPT ![m] = "refused"]
  /\ queue' = [queue EXCEPT ![w] = Tail(@)]
  /\ UNCHANGED <<sessVars, workVars, redisVars, hostVars, handed, swallowed,
                 stored, doubtful, fetched, dropped>>

(* GetOnlineServers for the next recipient: the snapshot of uip_<uid>. *)
GetOnlineServers(w, u) ==
  /\ pc[w] = "lookup" /\ u \in rest[w]
  /\ rest' = [rest EXCEPT ![w] = @ \ {u}]
  /\ peer' = [peer EXCEPT ![w] = u]
  /\ todo' = [todo EXCEPT ![w] = uip[u]]
  /\ delivered' = [delivered EXCEPT ![w] = FALSE]
  /\ Goto(w, "fanout")
  /\ UNCHANGED <<sessVars, queue, cur, batch, redisVars, hostVars, histVars>>

(* Send on every session of u that UserMgr of srv knows. *)
Notify(m, u, srv) ==
  /\ handed' = [s \in Session |-> IF s \in SessionsOf(u, srv)
                                  THEN Append(handed[s], m) ELSE handed[s]]
  /\ swallowed' = swallowed \cup
       {<<m, s>> : s \in {x \in SessionsOf(u, srv) :
                                  sock[x] = "closed" /\ clear[x] = "done"}}

(* Mutant: a server that was tried is tried again. *)
TriedAgain(w, srv) == todo' = todo

Tried(w, srv) == todo' = [todo EXCEPT ![w] = @ \ {srv}]

(* The snapshot names this server: the recipient has sessions here ... *)
NotifyLocal(w) ==
  /\ pc[w] = "fanout" /\ ServerOf[w] \in todo[w]
  /\ SessionsOf(peer[w], ServerOf[w]) # {}
  /\ Notify(cur[w].m, peer[w], ServerOf[w])
  /\ Tried(w, ServerOf[w])
  /\ delivered' = [delivered EXCEPT ![w] = TRUE]
  /\ UNCHANGED <<sessVars, queue, pc, cur, rest, peer, batch, redisVars,
                 hostVars, fate, stored, doubtful, fetched, dropped>>

(* ... or he has none, and the entry will be removed. *)
FindNoneLocal(w) ==
  /\ pc[w] = "fanout" /\ ServerOf[w] \in todo[w]
  /\ SessionsOf(peer[w], ServerOf[w]) = {}
  /\ Goto(w, "unlist")
  /\ UNCHANGED <<sessVars, queue, cur, rest, peer, todo, delivered, batch,
                 redisVars, hostVars, histVars>>

UnlistLocal(w) ==
  /\ pc[w] = "unlist"
  /\ RemoveOnlineServer(peer[w], ServerOf[w])
  /\ Tried(w, ServerOf[w])
  /\ Goto(w, "fanout")
  /\ UNCHANGED <<sessVars, queue, cur, rest, peer, delivered, batch, offline,
                 up, crashes, crashed, histVars>>

(* Mutant: any reply is a success, UidInvalid too. *)
AnyReply(u, srv) == TRUE
(* Mutant: the call waits for the server to come up. *)
WaitForReady(srv) == srv \in up

(* NotifyTextChatMsg of ChatServiceImpl: UidInvalid when u has no session  *)
(* there; the entry of srv stays in the set.                               *)
RepliesSuccess(u, srv) == SessionsOf(u, srv) # {}

(* A call can fail whether srv is up or not; to a server that is down it   *)
(* fails at once.                                                          *)
CallFails(srv) == TRUE

(* The remote call: it does not arrive (RPCFailed), or it runs at srv and  *)
(* the reply arrives, or is lost and the caller sees RPCFailed as well.    *)
NotifyRemote(w, srv) ==
  /\ pc[w] = "fanout" /\ srv \in todo[w] \ {ServerOf[w]}
  /\ Tried(w, srv)
  /\ \/ /\ CallFails(srv)
        /\ UNCHANGED <<handed, swallowed, doubtful, delivered>>
     \/ /\ srv \in up
        /\ Notify(cur[w].m, peer[w], srv)
        /\ \/ /\ delivered' = [delivered EXCEPT ![w] = @ \/ RepliesSuccess(peer[w], srv)]
              /\ UNCHANGED doubtful
           \/ /\ RepliesSuccess(peer[w], srv)
              /\ doubtful' = doubtful \cup {<<cur[w].m, peer[w]>>}
              /\ UNCHANGED delivered
  /\ UNCHANGED <<sessVars, queue, pc, cur, rest, peer, batch, redisVars,
                 hostVars, fate, stored, fetched, dropped>>

(* Mutant: what the loop found out is forgotten. *)
NeedsOfflineAlways(w) == OfflineAllowed(cur[w].m)

NeedsOffline(w) == ~delivered[w] /\ OfflineAllowed(cur[w].m)

(* No server is left to try: save the message, or go on. *)
FanoutDone(w) ==
  /\ pc[w] = "fanout" /\ todo[w] = {}
  /\ Goto(w, IF NeedsOffline(w) THEN "store" ELSE "lookup")
  /\ UNCHANGED <<sessVars, queue, cur, rest, peer, todo, delivered, batch,
                 redisVars, hostVars, histVars>>

SaveOfflineTextMsg(w) ==
  /\ pc[w] = "store"
  /\ offline' = [offline EXCEPT ![peer[w]] = Pushed(@, cur[w].m)]
  /\ stored' = stored \cup {<<cur[w].m, peer[w]>>}
  /\ Goto(w, "lookup")
  /\ UNCHANGED <<sessVars, queue, cur, rest, peer, todo, delivered, batch, uip,
                 hostVars, fate, handed, swallowed, doubtful, fetched, dropped>>

MsgEnd(w) ==
  /\ pc[w] = "lookup" /\ rest[w] = {}
  /\ fate' = [fate EXCEPT ![cur[w].m] = "done"]
  /\ peer' = [peer EXCEPT ![w] = None]
  /\ delivered' = [delivered EXCEPT ![w] = FALSE]
  /\ Return(w)
  /\ UNCHANGED <<sessVars, queue, rest, todo, batch, redisVars, hostVars,
                 handed, swallowed, stored, doubtful, fetched, dropped>>
-----------------------------------------------------------------------------
(* A server stops at any moment and loses its memory: connections, UserMgr,*)
(* queues, requests in progress.  Redis keeps what it had, and a restarted *)
(* server (main clears only logincount) does not touch uip_ sets.          *)

PoppedBy(w) == {batch[w][i] : i \in DOMAIN batch[w]}

Crash(srv) ==
  /\ srv \in up /\ crashes < MaxCrashes
  /\ up' = up \ {srv}
  /\ crashes' = crashes + 1
  /\ crashed' = crashed \cup {srv}
  /\ LET mine == {w \in Worker : ServerOf[w] = srv}
         gone == {s \in Session : Home(s) = srv /\ sock[s] # "idle"}
     IN /\ sock' = [s \in Session |-> IF s \in gone THEN "closed" ELSE sock[s]]
        /\ clear' = [s \in Session |-> IF s \in gone THEN "done" ELSE clear[s]]
        /\ registered' = registered \ gone
        /\ queue' = [w \in Worker |-> IF w \in mine THEN <<>> ELSE queue[w]]
        /\ pc' = [w \in Worker |-> IF w \in mine THEN "idle" ELSE pc[w]]
        /\ cur' = [w \in Worker |-> IF w \in mine THEN None ELSE cur[w]]
        /\ rest' = [w \in Worker |-> IF w \in mine THEN {} ELSE rest[w]]
        /\ peer' = [w \in Worker |-> IF w \in mine THEN None ELSE peer[w]]
        /\ todo' = [w \in Worker |-> IF w \in mine THEN {} ELSE todo[w]]
        /\ delivered' = [w \in Worker |-> IF w \in mine THEN FALSE ELSE delivered[w]]
        /\ batch' = [w \in Worker |-> IF w \in mine THEN <<>> ELSE batch[w]]
        /\ fate' = [m \in Msg |-> IF Home(From[m]) = srv /\ fate[m] \in {"queued", "handling"}
                                  THEN "lost" ELSE fate[m]]
        /\ dropped' = dropped \cup
             UNION {PoppedBy(w) \X {Me(w)} : w \in {x \in mine : batch[x] # <<>>}}
  /\ UNCHANGED <<asked, bound, redisVars, raced, handed, swallowed, stored, doubtful,
                 fetched>>

Restart(srv) ==
  /\ srv \notin up
  /\ up' = up \cup {srv}
  /\ UNCHANGED <<sessVars, queue, workVars, redisVars, crashes, crashed, raced,
                 histVars>>
-----------------------------------------------------------------------------
WorkerStep(w) ==
  \/ LoginBegin(w) \/ LoginReject(w) \/ LoginDrain(w) \/ LoginBind(w)
  \/ AddOnlineServer(w) \/ SetUserSession(w) \/ LoginRespond(w)
  \/ MsgBegin(w) \/ MsgRefuse(w)
  \/ \E u \in User : GetOnlineServers(w, u)
  \/ NotifyLocal(w) \/ FindNoneLocal(w) \/ UnlistLocal(w)
  \/ \E srv \in Server : NotifyRemote(w, srv)
  \/ FanoutDone(w) \/ SaveOfflineTextMsg(w) \/ MsgEnd(w)

ClearStep(s) ==
  ClearLookup(s) \/ RmvUserSession(s) \/ ClearCheck(s) \/ ClearUnlist(s)

ClientStep(s) == Connect(s) \/ SendLogin(s) \/ Disconnect(s) \/ BadFrame(s)

Next ==
  \/ \E s \in Session : ClientStep(s) \/ ClearStep(s)
  \/ \E m \in Msg : SendMsg(m)
  \/ \E w \in Worker : WorkerStep(w)
  \/ \E srv \in Server : Crash(srv) \/ Restart(srv)

Spec == Init /\ [][Next]_vars

(* Worker and I/O threads keep running.  Clients and crashes owe nothing.  *)
FairSpec ==
  /\ Spec
  /\ \A w \in Worker : WF_vars(WorkerStep(w))
  /\ \A s \in Session : WF_vars(ClearStep(s))

-----------------------------------------------------------------------------
Got(s, m) == \E i \in DOMAIN handed[s] : handed[s][i] = m

(* A message whose handler has finished is accounted for: each recipient   *)
(* has had it passed to one of his sessions or it is in his offline list   *)
(* (DealChatTextMsg 578-624, DeliverWrappedToMember 710-755).              *)
Settled ==
  \A m \in Msg : \A u \in To[m] :
    fate[m] = "done" /\ OfflineAllowed(m) =>
      \/ <<m, u>> \in stored
      \/ \E s \in Session : UserOf[s] = u /\ Got(s, m)

(* A recipient gets a message both live and through his offline list only  *)
(* when a remote call did its work and lost its reply.                     *)
DuplicateOnlyIfDoubtful ==
  \A m \in Msg, u \in User :
    /\ <<m, u>> \in stored
    /\ \E s \in Session : UserOf[s] = u /\ Got(s, m)
    => <<m, u>> \in doubtful

Times(m, q) == Cardinality({i \in DOMAIN q : q[i] = m})

(* However many logins of one user drain the list at once, while senders   *)
(* push to it, a stored message is always in exactly one place: the list,  *)
(* one login in progress, one login response, or a crashed server's memory.*)
OfflineExactlyOnce ==
  \A m \in Msg, u \in User :
    LET logins == {w \in Worker : pc[w] \in {"drain", "list", "register", "respond"}
                                    /\ Me(w) = u}
        inBatch == {w \in logins : Times(m, batch[w]) = 1}
        inReply == {s \in Session : UserOf[s] = u /\ Times(m, fetched[s]) = 1}
        places == Times(m, offline[u]) + Cardinality(inBatch) + Cardinality(inReply)
                    + (IF <<m, u>> \in dropped THEN 1 ELSE 0)
    IN places = IF <<m, u>> \in stored THEN 1 ELSE 0

Ascending(q) ==
  \A i, j \in DOMAIN q : i < j /\ From[q[i]] = From[q[j]] => q[i] < q[j]

(* What one session sends stays in order wherever it goes: in what each    *)
(* receiving session is notified of, and in each offline list.  (Between   *)
(* the two there is no order: see the README.)                             *)
SenderOrderKept ==
  /\ \A s \in Session : Ascending(handed[s])
  /\ \A u \in User : Ascending(offline[u])

Promise == INSTANCE Delivery WITH Savable <- {m \in Msg : OfflineAllowed(m)}

(* What delivery promises is kept, step by step: see Delivery.             *)
DeliverySpec == Promise!Spec

(* An entry of uip_<uid> without a session behind it is work in progress - *)
(* a login between SADD and SetUserSession, a ClearSession before its SREM *)
(* - or was left by a crash.                                               *)
PresenceNotStale ==
  \A u \in User : \A srv \in uip[u] \ crashed :
    \/ SessionsOf(u, srv) # {}
    \/ \E w \in Worker : pc[w] = "register" /\ ServerOf[w] = srv /\ Me(w) = u
    \/ \E s \in Session : /\ UserOf[s] = u /\ Home(s) = srv
                          /\ clear[s] \in {"check", "unlist"}

(* A registered session that uip_<uid> does not list lost its entry in one *)
(* of two races: a handler (LogicSystem.cpp 602-604) or a ClearSession     *)
(* (Cserver.cpp 32-33) found no session before this one was registered,    *)
(* and removed the entry after its login had added it.  Nothing else takes *)
(* an online user off the list: not the end of another of his sessions, a  *)
(* remote call or a crash.                                                 *)
MissingOnlyIfRaced ==
  \A s \in registered : Home(s) \notin uip[UserOf[s]] => s \in raced

(* While servers stay up, a message taken by a worker is handled to its    *)
(* end: no loop over servers, members or offline messages is endless.      *)
HandlingEnds ==
  \A m \in Msg : fate[m] = "handling" ~> fate[m] \in {"done", "lost"}

(* README.md 144: uip_<uid> is the set of ChatServers where the user is    *)
(* online.  Said of a session that is logged in, connected and not ending. *)
OnlineIsListed ==
  \A s \in registered :
    sock[s] = "open" => Home(s) \in uip[UserOf[s]]

(* docs/project-documentation.md 20: when the receiver is offline or his   *)
(* session unreachable, the message is written to the Redis queue.  Said   *)
(* of sessions that the server itself has already cleared away.            *)
UnreachableIsStored ==
  \A m \in Msg : \A u \in To[m] :
    fate[m] = "done" /\ OfflineAllowed(m) =>
      \/ <<m, u>> \in stored
      \/ \E s \in Session : UserOf[s] = u /\ Got(s, m) /\ <<m, s>> \notin swallowed
=============================================================================
