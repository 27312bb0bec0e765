# minichat in TLA+

This directory is a formal model of minichat, checked with TLC and, in part,
proved with TLAPS. It covers the delivery core of the ChatServer cluster, the
persistence of its messages and its shutdown, the database pools, a user's
connection from the web client's bridge to the worker that answers him, and
accounts with their codes and tokens. What is left out is listed in section 5.

## 1. The system

| Part | State | Operations | Talks to |
| --- | --- | --- | --- |
| ChatSever, ChatServer2 (one program, two configurations) | sessions, UserMgr, logic queues, persistence queue, connection pools | login, text, group, friends, history, heartbeat | Redis, MySQL, other ChatServers (gRPC) |
| CServer / CSession | `_sessions`, one read buffer and one send queue per connection | accept, read head, read body, send, write done, clear | LogicSystem, UserMgr |
| LogicSystem | one FIFO queue and one thread per worker | `PostMsgToQue`, `DealMsg`, one handler per message id | all of the above |
| UserMgr | uid -> session id -> session | `GetSessions`, `SetUserSession`, `RmvUserSession` | - |
| MsgPersistMgr, MysqlDao | a queue, a writer thread, MySQL tables | push, flush a batch, close | MySQL |
| GateServer | HTTP connections, MySQL pool | verification code, register, reset password, login | Redis, MySQL, VarifyServer, StatusServer |
| VarifyServer | Redis `code_<email>` | send a code by mail | Redis |
| StatusServer | server table, Redis `utoken_<uid>` | choose a server, issue and check a token | Redis |
| FileServer | two files per upload | save, load | disk |
| WeChatClient | bridge sessions, browser UI | TCP on one side, HTTP and events on the other | GateServer, ChatServer |

Shared state outside the processes: in Redis the set `uip_<uid>` (the servers
a user is online on), the list `offline_msg_<uid>`, `utoken_<uid>`,
`code_<email>`, cached users and the hash `logincount`; in MySQL the users,
friends, groups and the chat history.

What is hard in it:

- *Interleaving.* Login, disconnect and message handlers of one user run on
  different threads and servers. UserMgr and Redis are updated in separate
  steps: every check of one is stale when the other is written.
- *Failure.* A remote call may fail before or after it took effect; a server
  may stop at any step; its presence entries stay in Redis.
- *Ordering.* Requests of one session are handled in order, requests of two
  are not; a message goes to a session, over gRPC or into a list.
- *Limits and pools.* 200 offline messages per login, a bounded send queue,
  five database connections that one handler may need two of.

What makes the parts correct:

- *Delivery*: no message handled to its end is lost; no recipient gets one
  twice without a failed call; the order of a sender is kept; an offline
  message is in one place at any time.
- *Presence*: a user who is online is listed, a listed server has a session or
  a step to come that owns the entry.
- *Persistence*: an acknowledged message is stored once, or dropped in a batch
  whose transaction failed or after the writer was closed; shutdown ends.
- *Pools*: connections are conserved, and a borrower is served in the end.
- *Accounts*: only a valid code registers or resets; the token that StatusServer
  issued last opens a chat session.
- *Sessions*: frames arrive whole and in order; when either side has gone, the
  other notices, and nothing of the session remains.
- *Bridge*: a reply answers the request it belongs to, and every wait ends.

`PROJECT.json` lists the components with their status and, under `hazards`,
the places in the code where these can go wrong, each with the property that
watches it or the reason there is none yet.

## 2. Modules

### ChatDelivery: login, presence, fan-out, offline list

One atomic step is one operation on shared state: a Redis command, a critical
section of UserMgr or of a logic queue, a remote call. The actors are

- the clients: `Connect`, `SendLogin`, `SendMsg`, `Disconnect`, `BadFrame`;
- per session, the I/O thread in `CServer::ClearSession`: `ClearLookup`,
  `RmvUserSession`, `ClearCheck`, `ClearUnlist`. Its progress is `clear[s]`;
- per worker, the thread in `LogicSystem::DealMsg`, with `pc`, the request
  `cur` and the handler's local variables (`rest`, `peer`, `todo`,
  `delivered`, `batch`);
- the environment: `Crash`, `Restart`.

| Handler | Steps |
| --- | --- |
| `LoginHandler` | `LoginBegin` or `LoginReject`; `LoginDrain` per LPOP; `LoginBind`; `AddOnlineServer`; `SetUserSession`; `LoginRespond` |
| `DealChatTextMsg`, `DealGroupTextMsg`, `CreateGroupHandler` | `MsgBegin` or `MsgRefuse`; per recipient `GetOnlineServers`, then per server `NotifyLocal`, `FindNoneLocal` + `UnlistLocal` or `NotifyRemote`; `FanoutDone`; `SaveOfflineTextMsg`; `MsgEnd` |

The three message handlers share one set of actions because the code of
`DealChatTextMsg` (578-624) and of `DeliverWrappedToMember` (710-755) is the
same loop. `Kind` tells them apart where they differ: a group event is not
saved offline, and only group requests can be refused.

`NotifyRemote` has three outcomes: the call does not arrive; it runs and the
answer arrives; it runs and the answer is lost, which the caller cannot tell
from the first. A call to a server that is down fails at once.

`Crash` clears what a process holds in memory and leaves Redis alone.
`fate`, `handed`, `swallowed`, `stored`, `doubtful`, `fetched`, `dropped`,
`crashed` and `raced` record what happened, for the properties; no guard but the
client's own order of sending (`fate`) reads them. A session is in `raced` when a
removal of its entry came between its SADD and its registration, or was still to
come when it was registered.

Merged or left out, and why:

- Sending to all sessions that `GetSessions` returned is one step. Between
  the snapshot and a `Send` a session can only end; the message is then handed
  to a session that is ending, as it is when the session ends right after.
- The notification of a remote server is one step of the caller: the call is
  synchronous. A call that runs after its caller has given up is not modelled.
- `GetOnlineServers` is one step. The code sends SMEMBERS and, when the answer is
  empty, a GET of the same key (LogicSystem.cpp 142-154), for a format that
  nothing writes any more. Without the key the GET finds nothing; after a SADD
  in between it fails on the type. Both ways the result is the empty snapshot.
- The increment of `logincount` is left out: nothing reads it.
- Accepting a connection is atomic, and the send queue of a session accepts
  everything: both are in `CSession`.
- Redis answers every command. The branches for Redis errors
  (LogicSystem.cpp 163-170, 180-185) are not modelled.
- Every recipient is served once: a member listed twice is not modelled. The
  order of recipients and of servers is arbitrary, as in SMEMBERS and SELECT.
- A session logs in at most once, and never under another uid.
- Friend applications and their answers use the same notification without
  an offline copy; they are not modelled.

### MCChatDelivery: the instances

User `a` sends on session `sa`, user `b` has sessions `sx` and `sy`, user `c`
never comes online. The `.cfg` files choose servers and workers.

### Delivery: what ChatDelivery promises

`Delivery` knows messages, users and sessions, and neither servers, workers,
Redis nor gRPC. The messages of one session are sent and handled in order
(`Send`, `Take`, `Finish`). A message is handed to sessions of a recipient that
lack it (`Hand`), or saved for him (`Save`), both only if an answer was lost. A
login fetches some of what waits, in the order of the senders (`Fetch`); a crash
loses what its server has under way and what its logins are fetching (`Lose`).
Its variables are those of `ChatDelivery` that record what happened, so that the
refinement mapping is the identity on them.

### ChatDelivery_proofs, DeliveryOnce_proofs

The theorems; see section 4.

### MessageStore and MsgPersist: the writer thread and the shutdown

`MessageStore` says what persistence promises: records enter a buffer
(`Accept`); a first part of it is stored, one row per key (`Save`), or lost
(`Lose`). `MsgPersist` is the code, in one ChatServer. Its actors are

- the logic workers: `PushMessages` is the critical section, `NotifyOne` the
  notification after it;
- the writer: `Sleep`, `Quit` and `TakeBatch` are what `WorkerLoop` may do under
  the mutex; `InsertRow`, `Commit` and `RollBack` are the transaction of
  `SaveChatMsgs`. A rollback may come after any statement;
- main: `Signal` (the signal handler), `JoinIO` (`AsioIOServicePool::Stop`),
  `Close`, `NotifyAll`, `JoinWriter`;
- the environment: `Connect` and `HangUp` of clients, `SpuriousWakeup`.

`rows` is the table in the order of `msg_id`, `txn` the rows of the open
transaction; what INSERT IGNORE does with a key it has is `Inserted`.
`accepted` and `failed` record what happened; no guard reads them. The
refinement maps `buffer` to `batch \o queue` and `table` to the set of rows.

Merged or left out, and why:

- A commit that takes effect but is reported as failed changes the same state
  as one that succeeds: the batch is not tried again. It is `Commit`.
- The writer's wait for a pooled connection is left out: it belongs to the
  pool, and a pool that never gives a connection would break every liveness
  property here.
- One server writes: messages are persisted only where their sender is
  connected, so the other server's writer adds other keys.
- The workers push what they like at any time, also during the shutdown and
  after `Close`: nothing stops them before main returns. What is pushed after
  `Close` is refused and is in no property.

### MCMsgPersist, MsgPersist_proofs

The instance: two workers, five calls (one of them empty), six records, of which
one repeats the key of another. The theorems are in section 4.

### DbPool: MySQL connections

One module for both pools: `program` is `"chat"` or `"gate"`. A step is a
critical section of the pool's mutex or an attempt to open a connection. The
actors are

- callers: a call takes a connection or sleeps (`Take`, `Wait`), and returns it
  with a notification (`Return`, `NotifyOne`). In a ChatServer, callers in
  `Nests` take a second one while they hold the first (`GetUser`), as
  `GetFriendList` does. In GateServer a sleeper may give up after 3 s and open a
  connection himself (`Timeout`, `LateOpen`, `GiveUp`), and callers in `Leaks`
  may end without returning theirs, as `CheckEmail` does for an unknown user;
- the checking thread: `StartPass`, then `Pop` and `ProbeSucceeds` or
  `ProbeFails` for one connection after the other, then `Reopen` for what
  `failCount` says, and `EndPass`;
- MySQL and the network: `Break`, `Outage`, `Recover`, with `MaxFaults` faults.

Left out: a constructor that fails half way, `Close` (it runs in destructors of
static objects), and what the queries do, which the callers' modules have.
StatusServer's pool has no callers. The stub pools for gRPC follow the same
discipline without nesting and without a checking thread.

`Lending` says what either pool promises: a connection is idle, lent to one
caller or probed; a caller has one at a time, two only if it nests; it loses one
only if it is in `Leaks`; and what is added is a connection that is nowhere
else. The refinement maps `idle` to the set of `pool`, `lent` to what a caller has
in `outer` and `inner`, and `probed` to what the checking thread has in `hand`.

### Wire, CSession, Bridge and Connection: one connection, end to end

`Wire` is a TCP connection as a reader sees it: `up` and `down` are the units
in flight, a frame is `HeadLen` units of header and a unit for each part of its
body, and reads cut the stream anywhere. `gone` says who has ended it.

`CSession` is the server's end: the accepting thread (`Start`, then `Insert`),
the I/O thread (`ReadPart`, `ReadHead`, `ReadBody`, `ReadFails`, `WriteDone`,
`WriteError` and the three steps of `ClearSession`), the kernel
(`WriteTaken`, `WriteFails`), the worker (`HandleRequest` and the steps of a
login), and `Notify` from other threads. `Send` is an operator that all of them
use, with its limit: a frame that finds the queue full is in `dropped`.

`Bridge` is the other end, `ChatSession` and `handleApi` of `server.js`. Node
runs one callback at a time; a round of the loop in `handleData` is an action,
and while a round is left (`Parsing`) nothing else of Node runs. `waiter` is
the promise of `waitForPacket`, which a packet with the message id, an event of
the socket, or the timer ends.

`Connection` composes them: a step belongs to one end, and the two meet in the
variables of `Wire` only.

`Conversation` says what the browser gets from it: its requests are taken one by
one in the order it made them, a reply is to the request taken last and may be
missing, notices come at any time, and what is said is heard in order. The
refinement maps `asked` to `written`, `taken` to the number of frames the worker
has handled, `owed` to a login in progress, `said` to `accepted` and `heard` to
`packets`.

`handled`, `accepted`, `dropped`, `written`, `packets`, `open`, `drained`,
`overtaken`, `late` and `ended` record what happened; no guard reads them.

Merged or left out, and why:

- A header that the server refuses is `BadFrame` in `ChatDelivery`; the bridge
  sends none. What `ClearUser` does to the presence set is there too, and a
  login that is rejected.
- An `async_write` that starts while another thread closes the socket is
  undefined behaviour in Asio; here it fails (`WriteFails`).
- The bridge's socket takes any number of packets: Node buffers them.
- A login that is answered with an error, or not in time, leaves its connection
  open and its session in the map of the bridge, where no browser knows its id:
  the variable `inMap` has it, no property forbids it.
- What the bridge emits before the browser subscribes to the events of the
  session is lost to the browser; the subscription is not modelled.

### Account: codes, registration, reset, login, tokens

A step is one Redis command, one SQL statement or the end of a transaction, or
the sending of a mail. A client makes one call after another, and each goes
through GateServer (`AskCode`, `AskRegister`, `AskReset`, `AskLogin`, then the
steps of the handler in `pc`), VarifyServer (`SetCode`, `ExpireCode`,
`SendMail`), StatusServer (`GetChatServer`) and `LoginHandler` (`ChatLogin`).
`Crash` stops VarifyServer between any two of its commands. `SetFails` and
`ExpireFails` are the rejection of one of them, before or after it took effect
(redis.js quits its connection at the first error): no mail is sent, and a code
may stay without a TTL while VarifyServer runs on.

A browser belongs to the reader of one mailbox. He knows the codes mailed to it
and fills every other field of a form as he likes: any name, any address. A
password is identified with the mailbox of the person who chose it, so that
"the password of an account was chosen by the reader of its mailbox" is
`pwd = email`.

Merged or left out, and why:

- Codes are never equal: the code's four hexadecimal digits can be guessed, and
  the model does not guess.
- `Unique` says that the table `user` has unique keys on name and address. Its
  schema is not in the repository; the run takes it to be so.
- `UPDATE user_id` locks the row until the transaction ends (`idLock`), and the
  transaction's other reads see its snapshot: that is MySQL's default.
- Redis answers every command of GateServer, StatusServer and `LoginHandler`;
  only VarifyServer's can fail. Malformed requests and a form whose two passwords
  differ change nothing.
- A token is stored and handed out in one step (`GetChatServer`): receiving it
  changes nothing but the state of the one login that waits for it.
- The user cache in Redis is left out: nothing compares the password in it.

`Directory` says what the handlers promise together: an account is added, or a
password set, only for the reader of a mailbox to which a code has been mailed;
a new uid is above all others; with unique keys a name and an address belong to
one account. The refinement maps `mailed` to the addresses with mail.

### MCDbPool, MCConnection, MCAccount

The instances; see section 3.

### DbPool_proofs, Account_proofs, Connection_proofs

The theorems; see section 4. `Sequence_proofs` has lemmas about sequences that
they share, `Wire_proofs` what a reader finds in a stream of whole frames.

## 3. What is checked

| Run | Instance | Checks |
| --- | --- | --- |
| `ChatDelivery_text` | servers A and B, three workers; `b` on both servers; two text messages; list drained one message per login | `TypeOK`, `Settled`, `DuplicateOnlyIfDoubtful`, `OfflineExactlyOnce`, `SenderOrderKept`, `PresenceNotStale`, `MissingOnlyIfRaced`, `DeliverySpec` |
| `ChatDelivery_group` | `b` with two sessions on one worker of A, the sender on B; one group message to `b` and `c`; one crash and restart | `OfflineExactlyOnce`, `PresenceNotStale`, `MissingOnlyIfRaced`, `DeliverySpec` |
| `ChatDelivery_live` | one session per user, a group event and a group message, one crash | `HandlingEnds` under `FairSpec` |
| `ChatDelivery_presence` | as `text` | `OnlineIsListed` is violated |
| `ChatDelivery_unreachable` | one session of `b`, one text message | `UnreachableIsStored` is violated |
| `MsgPersist_store` | two workers, six records, batches of two, one client | `TypeOK`, `StoredInOrder`, `CloseFlushes`, `StoreSpec`; `EventuallyFlushed`, `ShutdownEnds` under `FairSpec` |
| `MsgPersist_shutdown` | the same | `GracefulExit` is violated |
| `DbPool_calls` | either pool with two connections, a caller that nests, a caller that loses connections, one fault | `TypeOK`, `Conserved`, `NoStandstill`, `GrowthBounded`, `LendingSpec`; `CallEnds` under `FairSpec` |
| `DbPool_nested` | two connections, two callers that nest | `LoanReturned` is violated |
| `Connection_wire` | a login and one of: two requests of one kind; a request and a notification; two notifications with two offline messages. Send queue of two, two units on the wire | `TypeOK`, `PostedInOrder`, `PacketsInOrder`, `ReplyInWindow`, `NothingLeft`, `ConversationSpec`; `QueueDrains`, `RequestEnds`, `SessionEnds` under `FairSpec` |
| `Connection_long` | a login with an offline list that makes the response too long | `OfflineFetched` is violated |
| `Account_forms` | two browsers, of one user with an account or of two without; two names, two addresses, two codes, three calls each, one fault | `TypeOK`, `CodeExpires`, `PasswordOwned`, `UidsDistinct`, `RejectedOnlyIfReplaced`, `DirectorySpec` |

- `Settled`: when a handler is done, each recipient has the message in a
  session or in his offline list.
- `DuplicateOnlyIfDoubtful`: he has it in both only if an answer was lost.
- `OfflineExactlyOnce`: a stored message is in exactly one of the list, a
  login in progress, a login response, a crashed server's memory.
- `SenderOrderKept`: messages of one session keep their order in every session
  they reach and in every list. Between a session and the list there is no
  order: message 1 may be saved while message 2 is delivered.
- `PresenceNotStale`: an entry has a session behind it, or a login or a
  `ClearSession` that has still to touch it, or its server has crashed.
- `MissingOnlyIfRaced`: a registered session without an entry is one that a
  removal overtook while it logged in. The removal is a handler's in `text`,
  where `a` and a session of `b` share a server, and a `ClearSession`'s in `group`,
  where both sessions of `b` do and `a` does not: both races are real, and the
  property says there is no third.
- `DeliverySpec`: `ChatDelivery` implements `Delivery`. Its `Finish` says of a
  message what `Settled` says, so the `group` run checks `Settled` through it. The
  order inside one login response needs a login that pops two messages, which
  these runs do not have (`DrainLimit` 1); section 4 covers it.
- `HandlingEnds`: a message that a worker has taken is handled to the end or
  lost with its server.

- `StoreSpec`: `MsgPersist` implements `MessageStore`: records leave in order, a
  batch is stored or lost as a whole, of each key the first record is kept.
- `StoredInOrder`: `msg_id` follows the order of the pushes, which is what the
  paging of the history relies on.
- `CloseFlushes`: when main returns, every queued record is stored or was in a
  failed batch.
- `EventuallyFlushed`: a queued record leaves the queue in the end: no wakeup
  is lost.
- `ShutdownEnds`: after a signal main returns once the clients are gone.

- `Conserved`: a ChatServer's connections are idle, borrowed, being probed or
  counted for reopening: none is lost, none doubled.
- `NoStandstill`: while fewer callers nest than there are connections, some
  connection is not held by a caller that waits for another.
- `GrowthBounded`: GateServer's pool, which opens connections at timeouts and
  reopens failed ones, does not grow without faults, and boundedly with them.
- `LendingSpec`: `DbPool` implements `Lending`: no step doubles a connection, takes
  one from a caller who is not its holder, or lets it leave the pool otherwise.
- `CallEnds`: every call gets its connection, or gives up, and ends.

- `PostedInOrder`, `PacketsInOrder`: the worker gets what the bridge has written,
  the bridge emits what `Send` has queued: whole frames, in order, none twice.
- `ReplyInWindow`: a reply satisfies its own request, or one sent while it was
  outstanding under the same message id; anything else needs a reply that
  `Send` has dropped.
- `ConversationSpec`: `Connection` implements `Conversation`: it relates the two
  orders above, replies to requests, while frames are dropped and either end
  closes.
- `NothingLeft`: a closed session stays in `_sessions` only if it was closed
  before it was inserted, and in UserMgr only then or if its login was handled
  after the close. Both races are real; the property says there is no third.
- `QueueDrains`: what is queued is written, or the session closes.
- `RequestEnds`: a wait ends without its timer, unless its reply was dropped.
- `SessionEnds`: when the bridge has gone, the server ends the session.

- `CodeExpires`: a code without a TTL is about to get one, or its VarifyServer
  has crashed, or had a command rejected, between SET and EXPIRE.
- `PasswordOwned`: codes, names and addresses in forms may be mixed up and calls
  overlap; no one sets the password of another's account.
- `UidsDistinct`: overlapping registrations get different uids.
- `RejectedOnlyIfReplaced`: a token is stored before it is handed out, and
  rejected only if a later login of the account has replaced it.
- `DirectorySpec`: `Account` implements `Directory`: no statement of a handler
  changes the accounts except as the reader of a mailbox is entitled to.

Five properties that the documentation states fail, and stay as runs that show
it.

- `OnlineIsListed`: the entry that a login adds can be removed, before its
  session is registered, by a handler that finds no session; the user is then
  online and unlisted, and all his messages wait for his next login. The two
  sessions of `b` are on different servers in this run, so it has no `ClearSession`
  that could race with a login; for that one see `MissingOnlyIfRaced`.
- `UnreachableIsStored`: a login that is still queued when its connection ends is
  executed after `ClearSession` and registers a dead session that swallows
  messages.
- `GracefulExit`: after a signal main waits for the I/O threads, which run as
  long as a client is connected; neither `Close` nor the end of main is reached.
- `LoanReturned`: when as many `GetFriendList` as the pool has connections each
  hold one, `GetUser` waits for ever in all of them.
- `OfflineFetched`: a login response with many offline messages, or with a long
  friend list beside a few, exceeds the length the bridge accepts: the bridge
  closes the connection, and the messages are no longer in Redis.

Bounds. Two servers give one local and one remote side; two sessions of one
user are what the races on a presence entry need; two messages of one sender
are the least that can change order; `DrainLimit` 1 makes a login leave a
message behind. `MaxCrashes` counts crashes; in `Account`,
`MaxFaults` counts crashes and rejected commands. `Senders` are sessions that never
log in or end, which keeps the sender's side small: no handler asks who sends.
In `MsgPersist`, batches of two with calls of one to three records cut calls and
join calls; six records are three batches or more, so that a failed batch lies
between two that succeed; one client is what the shutdown waits for. In `DbPool`, two
connections are the least that nesting callers can exhaust together; one fault
suffices for a reopening that races with a probe, a return or a timeout. In
`Connection`, headers of two units and bodies of one to three are cut in every
way; `MaxSendQue` 1 and two units on the wire let the queue overflow, and a
write wait; `MaxPacket` 2 makes a response with two offline messages too long.
Each load adds one hazard: requests of one kind, notifications among replies, a
response that ends the connection. In `Account`, three calls are a code, its use
and one call that interferes; two clients interfere; `MaxUid` 7 is
never reached with six calls.
The runs stop where nothing is left to do, so deadlock is not checked.

Fairness. In `ChatDelivery`, `FairSpec` asks weak fairness of every worker and of every
`ClearSession` in progress: they are threads that the scheduler runs and whose
steps, once enabled, stay enabled until they are taken. Clients, crashes,
restarts and the outcome of calls owe nothing. `HandlingEnds` relies on a call
to a dead server failing, which gRPC does without a deadline; a server that
accepts a call and never answers would hold the worker. In `MsgPersist`,
`FairSpec` asks weak fairness of the writer, of main after a signal, and of a
worker between its push and its notification: they are running threads. Calls,
signals, clients and spurious wakeups owe nothing. In `DbPool`, a caller in a
call and the checking thread are threads that run, and MySQL comes back. A
waiter needs strong fairness, because another caller may take the connection
that it was notified of: a caller that is awake again and again wins the mutex
some time when a connection is idle. The documentation's loans (`LoanReturned`)
fail under the same fairness. In `Connection`, the I/O thread, the worker, the
accepting thread and the kernel's writes run, and Node calls the handlers of
socket events; the browser, the network, notifications and, above all, the
timers owe nothing, so that `RequestEnds` shows what holds without them.

## 4. What is proved

`ChatDelivery_proofs` proves, for any servers, workers, sessions, users,
messages, mappings between them and bounds that satisfy `DeliveryAssumption`:

- `TypeCorrect`: `TypeOK` is an invariant. It needs `CurOK` (a busy worker
  works for one of its own sessions; a message is handled as a request of the
  session it is from; a worker with popped messages is in a login) and
  `QueueOK` (the same of queued requests). `TInv` is their conjunction.
- `MessagesSettled`: `Settled` is an invariant. Inductively, a worker has
  accounted for every recipient it has taken from `rest` except the one it is
  serving, and `delivered` means that this one has the message (`Progress`).
  What is recorded never shrinks (`HasGrows`), so a worker keeps its progress
  while others run (`ProgressKept`); `NotifyGives` says what a delivery adds.
- `PresenceClean`: `PresenceNotStale` is an invariant. It needs that a session
  that is cleared cannot end again (`ClearsOnce`), and from `CurOK` that a
  login registers its session on the server whose name it added.

- `MissingExplained`: `MissingOnlyIfRaced` is an invariant. Inductively, a login
  about to register has its entry or is in `raced`, and so is every session that
  is registered while a removal is still to come (`Recorded`): a removal begins
  only where no session is registered. `RaceKept` covers the steps that touch
  neither; `RaceRemoved` the two removals.

`DeliveryOnce_proofs` proves three more invariants of the same specification:

- `NoNeedlessDuplicate`: `DuplicateOnlyIfDoubtful`. `RequestInv` says what
  becomes of the requests of a session: it sends its messages in order, those
  in the queue are in order and behind those that a worker has begun, and the
  message in a worker's hands is the last that its session has begun. `Reach`
  says whom that message has reached: nobody still in `rest`; of the recipient
  being served, no session on a server still in `todo`, and if any session has
  it, `delivered` is set or a reply was lost; and his offline list not before
  `store`.
- `SavedInOnePlace`: `OfflineExactlyOnce`. A session logs in once, so its
  response is empty until its login answers (`LoginInv`). `PlaceInv` says that a
  stored message is on the list, in one login, in one response or lost
  (`OnePlace`), and in none of them twice (`NoDups`); each step that moves one
  has a lemma (`DrainMoves`, `RespondMoves`, `SaveAdds`, `CrashMoves`).
  `CountPlaces` turns this into the sum that the property states.
- `OrderKept`: `SenderOrderKept`. What a session of the recipient has been handed,
  and what is on his list, has been begun; so the message that comes next, the
  last that its session has begun and new to that place, comes after all that its
  session has brought there (`LastOfItsSession`).

- `DeliveryImplemented`: `Spec => DeliverySpec`, step by step: of a handler, of a
  session's end, of a login or of a crash, each is one step of `Delivery` or
  none. Beyond the invariants above it needs that a worker serves recipients of
  its message and saves only what may be saved (`Recipients`); that a message
  which is sent and not dealt with is in its worker's queue or hands (`Kept`), or
  a crash could not be a `Lose`, nor `Take` be in turn; and that what a login
  has popped is in order and before what is still on the list (`PoppedFirst`),
  although other logins pop the same list and handlers append to it.
- `ClientsServedOnce`: what follows from `Delivery`, and so holds of the servers: a
  session is handed only messages for its user, each once, in the order of each
  sender (`HandedOnce`); what a login fetches was saved for its user, is not lost,
  and no other login fetches it (`FetchedOnce`). The argument uses the steps of
  `Delivery` only: a session's messages are dealt with in turn (`InTurn`), so a
  message that is handed over is later than all that its session has sent there.

`MsgPersist_proofs` proves, for any workers, calls, keys, clients and batch size
that satisfy `PersistAssumption`:

- `TypeCorrect`: `TypeOK`, together with `PhaseInv`: the writer holds a batch
  exactly while it saves one, and it ends only when nothing is queued and
  `_stop` keeps everything else out.
- `StoreImplemented`: `Spec => StoreSpec`. `BatchInv` says that the open
  transaction has exactly the fresh records among those tried; so `Commit` is a
  `Save`, `RollBack` a `Lose`, an accepted push an `Accept`, and every other step
  leaves buffer and table alone.
- `CloseFlushesAll`: from `Accounted`: an accepted record is in the batch, in the
  queue, stored, or in a failed batch.
- `RowsInOrder`: from `OrderInv`: the accepted records are those that have gone,
  the batch, the queue, in this order (`Pipeline`); rows come from the first
  part, the open transaction from the second (`RowsInv`); and a record is
  accepted once (`PushedOnce`), which is where `PersistAssumption` says that the
  calls have no record in common.

`DbPool_proofs` proves, for any callers, connections and faults that satisfy
`PoolAssumption`:

- `TypeCorrect`: `TypeOK` is an invariant.
- `NoConnectionLost`: `Conserved`. It needs `Apart`: the connections that are idle,
  borrowed by callers and probed are pairwise different, so that no step takes
  two away or adds one twice.
- `NestingIsSafe`: `NoStandstill`. A caller that waits while it holds a
  connection is one that nests, and they hold different connections: with fewer
  of them than connections, one is free or will be (the pigeonhole principle).
- `PoolBounded`: `GrowthBounded`. `GrowInv` counts a caller that is about to open a
  connection as one already, and bounds the connections that are lost or will
  be found lost by what the faults explain. A caller times out only when no
  connection is idle; then the others hold at most one each.

- `LendingImplemented`: `Spec => LendingSpec`. With `Apart` a step that moves a
  connection takes it from where it is and puts it in one place, and what is
  opened is a connection that is nowhere.
- `LentToOne`: no connection is with two callers, or idle while one uses or probes
  it (`Exclusive` of `Lending`).

`Account_proofs` proves, for any clients, names, addresses, codes and bounds that
satisfy `AccountAssumption`:

- `TypeCorrect`: `TypeOK` is an invariant.
- `CodesExpire`: `CodeExpires`. An address whose code has no TTL has a call
  between SET and EXPIRE, or is in `orphans`, where a fault puts it.
- `UidsApart`: `UidsDistinct`. At most one registration is between its uid and
  its insertion, and no user has a uid beyond the counter (`IdInv`).
- `TokensHold`: `RejectedOnlyIfReplaced`. A token is in Redis before a client has
  it, and only a later login of the account overwrites it (`TokenInv`).
- `PasswordsOwned`: `PasswordOwned`. A code in a mailbox, in Redis or on its way
  belongs to one address (`CodeInv`), so a form whose code has been accepted has
  the address of its sender (`FormInv`); and the name in a reset that has passed
  `CheckEmail` has a row with that address (`NameInv`), which is the only one
  where `Unique` holds.
- `DirectoryImplemented`: `Spec => DirectorySpec`, with unique keys and without
  them: the run has `Unique` true, the theorem leaves it open. An inserted row is
  a `Register` because the form's code was mailed to its sender (`FormInv`) and
  the uid is the counter's, which is above all that were given (`IdInv`); an update
  is a `Reset` because `CheckEmail`'s row is still there (`NameInv`).
- `AccountsKept`: `[][AccountsStay]`: no account vanishes or changes its uid, name
  or address; a new password is that of someone who was mailed a code and has an
  account of that name. Without unique names this is all that holds, and
  `PasswordOwned` does not.

`Connection_proofs` proves, for any requests, kinds, notifications, messages and
limits that satisfy `WireAssumption` and `SessionAssumption`:

- `TypeCorrect`: `TypeOK` is an invariant.
- `RequestsInOrder` and `RepliesInOrder`: `PostedInOrder` and `PacketsInOrder`. The
  invariant says that what has been read of a frame, followed by the stream,
  consists of whole frames (`Framed`), and that the frames delivered, followed
  by those, are the frames sent (`UpInv`, `DownInv`). A step adds a frame at the
  end or takes one from the front, so no induction over the stream is needed.
- `RepliesFit`: `ReplyInWindow`. A request is written once (`OnceInv`); what has
  been handled is replied to, but for a login in progress (`ServedInv`); replies
  are queued in the order of the requests, except for those that `Send` drops
  (`OrderInv`); and a request of the same kind that was not outstanding when
  another was written has its reply emitted (`OpenInv`).
- `ConversationImplemented`: `Spec => ConversationSpec`. The frame at the head of a
  worker's queue is the next that was written (`UpInv`), what the bridge emits the
  next that was queued (`DownInv` after the step), and a login that is about to
  respond is the last request taken (`ServedInv`); all other steps of either end
  leave the conversation alone.
- `AnsweredInTurn`: replies are queued in the order of the requests they are to, to
  each at most one, and none before its request is done with, however many
  `Send` drops (`RepliesInTurn` of `Conversation`). By induction over the steps of
  `Conversation`: the requests that can have been replied to are those taken, less
  one that is owed (`Done`), and a reply settles the next (`TurnInv`).
- `SessionForgotten`: `NothingLeft`. From `ListInv`, `ClearInv` and `OwnerInv`: a
  closed session that was inserted in time has a `ClearSession` that has still
  to erase it, and to look up its owner if it was registered in time.

Only model-checked: the liveness properties `HandlingEnds`, `EventuallyFlushed`,
`ShutdownEnds`, `CallEnds`, `QueueDrains`, `RequestEnds` and `SessionEnds`, which are
out of the prover's reach; and the violations of section 3, which are
counterexamples. Every safety property of the passing runs is proved, the five
refinements among them; these say nothing about liveness: an abstract
specification may stop at any point.

## 5. Not modelled

- The user cache (`GetBaseInfo`, `GetUserByUid`, `GetUserByName`): it is never
  invalidated, and nothing promises that it is fresh. There is nothing to check.
- The paging of the history is one SELECT per page. What it needs from the rest
  is `StoredInOrder`.
- Friend applications, searches, group reads, the heartbeat: one statement each,
  or a notification like those of `ChatDelivery` without an offline copy.
- GateServer's HTTP connections, FileServer, the web client's UI: request and
  response, without state that the modelled parts share.
- GateServer's MPSC queue and thread pool: nothing uses them.
- The destructors of static objects, which run after main: their order is
  undefined between translation units, and the process ends anyway.
- Redis errors, except those VarifyServer sees; undefined behaviour after a length that does not fit a short.
- Generated code, configuration, build files, load tests and their results.
