----------------------------- MODULE MsgPersist -----------------------------
(***************************************************************************)
(* The persistence of chat messages in one ChatServer, and its shutdown.   *)
(* Logic workers push records to a queue; one writer thread takes them in  *)
(* batches and saves each batch in one MySQL transaction.  On a signal,    *)
(* main joins the I/O threads, closes the writer and returns.              *)
(*                                                                         *)
(* A step is one critical section of MsgPersistMgr::_mutex, one            *)
(* notification, one statement of a transaction or one wait of main.       *)
(***************************************************************************)
EXTENDS Integers, SequencesExt

CONSTANTS
  Record,    \* elements of text arrays; each is pushed at most once
  KeyOf,     \* (session_id, unique_id) of a record; a re-sent message keeps it
  Pusher,    \* the logic workers
  Calls,     \* the text arrays a worker pushes, in order
  Client,    \* clients that may be connected
  BatchSize  \* MINICHAT_PERSIST_BATCH

ASSUME PersistAssumption ==
  /\ Calls \in [Pusher -> Seq(Seq(Record))]
  /\ \A p, q \in Pusher :
       \A c \in DOMAIN Calls[p], d \in DOMAIN Calls[q] :
         \A i \in DOMAIN Calls[p][c], j \in DOMAIN Calls[q][d] :
           Calls[p][c][i] = Calls[q][d][j] => p = q /\ c = d /\ i = j
  /\ BatchSize \in Nat \ {0}

VARIABLES
  queue, stop,  \* of MsgPersistMgr
  writer,       \* where the writer thread is
  batch,        \* its local batch
  done,         \* how many records of the batch are inserted
  txn,          \* rows of the open transaction
  rows,         \* the table chat_message, in the order of its msg_id
  next,         \* the next call of a worker
  notifying,    \* workers that have pushed and not yet notified
  open,         \* connected clients
  main,         \* where main is
  (* What happened, for the properties only. *)
  accepted,     \* all records that were queued, in order
  failed        \* records of batches whose transaction was rolled back

callVars == <<next, notifying>>
writeVars == <<batch, done, txn, rows>>
vars == <<queue, stop, writer, writeVars, callVars, open, main, accepted, failed>>

TypeOK ==
  /\ queue \in Seq(Record) /\ stop \in BOOLEAN
  /\ writer \in {"test", "asleep", "insert", "ended"}
  /\ batch \in Seq(Record) /\ Len(batch) <= BatchSize
  /\ done \in 0 .. Len(batch)
  /\ txn \in Seq(Record) /\ rows \in Seq(Record)
  /\ next \in [Pusher -> Nat \ {0}]
  /\ notifying \in SUBSET Pusher
  /\ open \in SUBSET Client
  /\ main \in {"running", "joinIO", "close", "notify", "joinWriter", "exit"}
  /\ accepted \in Seq(Record) /\ failed \in SUBSET Record

Init ==
  /\ queue = <<>> /\ stop = FALSE
  /\ writer = "test" /\ batch = <<>> /\ done = 0
  /\ txn = <<>> /\ rows = <<>>
  /\ next = [p \in Pusher |-> 1] /\ notifying = {}
  /\ open = {} /\ main = "running"
  /\ accepted = <<>> /\ failed = {}

-----------------------------------------------------------------------------
(* Logic workers.                                                          *)

(* PushMessages ignores an empty text array and, after Close, every one.   *)
PushMessages(p) ==
  /\ p \notin notifying
  /\ next[p] \in DOMAIN Calls[p]
  /\ next' = [next EXCEPT ![p] = @ + 1]
  /\ LET records == Calls[p][next[p]] IN
     \/ /\ records = <<>> \/ stop
        /\ UNCHANGED <<queue, notifying, accepted>>
     \/ /\ records # <<>> /\ ~stop
        /\ queue' = queue \o records
        /\ notifying' = notifying \cup {p}
        /\ accepted' = accepted \o records
  /\ UNCHANGED <<stop, writer, writeVars, open, main, failed>>

(* A notification reaches the writer only while it sleeps in wait.         *)
Wake == writer' = IF writer = "asleep" THEN "test" ELSE writer

(* Mutant: nobody is notified.                                             *)
NotifyNobody(p) ==
  /\ p \in notifying
  /\ notifying' = notifying \ {p}
  /\ UNCHANGED <<queue, stop, writer, writeVars, next, open, main, accepted, failed>>

(* notify_one, after the mutex is released.                                *)
NotifyOne(p) ==
  /\ p \in notifying
  /\ notifying' = notifying \ {p}
  /\ Wake
  /\ UNCHANGED <<queue, stop, writeVars, next, open, main, accepted, failed>>

-----------------------------------------------------------------------------
(* The writer thread.                                                      *)

(* Mutant: the predicate of wait forgets _stop.                            *)
ReadyNonempty == queue # <<>>

Ready == stop \/ queue # <<>>

(* Mutant: the writer ends at _stop whatever is queued.                    *)
QuitAtOnce == stop

MayQuit == stop /\ queue = <<>>

Sleep ==
  /\ writer = "test" /\ ~Ready
  /\ writer' = "asleep"
  /\ UNCHANGED <<queue, stop, writeVars, callVars, open, main, accepted, failed>>

(* wait may return without a notification; it tests its predicate again.   *)
SpuriousWakeup ==
  /\ writer = "asleep"
  /\ writer' = "test"
  /\ UNCHANGED <<queue, stop, writeVars, callVars, open, main, accepted, failed>>

Quit ==
  /\ writer = "test" /\ Ready /\ MayQuit
  /\ writer' = "ended"
  /\ UNCHANGED <<queue, stop, writeVars, callVars, open, main, accepted, failed>>

(* Mutant: batch.size() <= _batch_size.                                    *)
BatchLenPlus == IF Len(queue) <= BatchSize THEN Len(queue) ELSE BatchSize + 1

BatchLen == IF Len(queue) < BatchSize THEN Len(queue) ELSE BatchSize

TakeBatch ==
  /\ writer = "test" /\ Ready /\ ~MayQuit
  /\ batch' = SubSeq(queue, 1, BatchLen)
  /\ queue' = SubSeq(queue, BatchLen + 1, Len(queue))
  /\ done' = 0 /\ txn' = <<>>
  /\ writer' = "insert"
  /\ UNCHANGED <<stop, rows, callVars, open, main, accepted, failed>>

(* INSERT IGNORE skips a record whose key a row has.                       *)
Inserted(r) ==
  IF \E x \in ToSet(rows) \cup ToSet(txn) : KeyOf[x] = KeyOf[r]
  THEN txn ELSE Append(txn, r)

InsertRow ==
  /\ writer = "insert" /\ done < Len(batch)
  /\ txn' = Inserted(batch[done + 1])
  /\ done' = done + 1
  /\ UNCHANGED <<queue, stop, writer, batch, rows, callVars, open, main,
                 accepted, failed>>

(* Back to the loop: the batch goes out of scope.                          *)
BatchOver == batch' = <<>> /\ done' = 0 /\ txn' = <<>> /\ writer' = "test"

(* The commit takes effect, whether or not its answer arrives: the batch   *)
(* of a commit that is reported as failed is not tried again.              *)
Commit ==
  /\ writer = "insert" /\ done = Len(batch)
  /\ rows' = rows \o txn
  /\ BatchOver
  /\ UNCHANGED <<queue, stop, callVars, open, main, accepted, failed>>

(* Mutant: autocommit is set again without a rollback.                     *)
RowsCommitted == rows \o txn

(* The connection goes back to the pool with nothing left to commit when   *)
(* its autocommit mode is set again.                                       *)
RowsKept == rows

(* Mutant: a failed batch is queued again.                                 *)
RollBackAndRetry ==
  /\ writer = "insert"
  /\ rows' = RowsKept
  /\ queue' = queue \o batch
  /\ BatchOver
  /\ UNCHANGED <<stop, callVars, open, main, accepted, failed>>

(* No connection, or an exception in a statement or in the commit.         *)
RollBack ==
  /\ writer = "insert"
  /\ rows' = RowsKept
  /\ failed' = failed \cup ToSet(batch)
  /\ BatchOver
  /\ UNCHANGED <<queue, stop, callVars, open, main, accepted>>

-----------------------------------------------------------------------------
(* Clients, and main after a signal.                                       *)

(* The acceptor's io_context is stopped by the signal handler.             *)
Connect(c) ==
  /\ main = "running" /\ c \notin open
  /\ open' = open \cup {c}
  /\ UNCHANGED <<queue, stop, writer, writeVars, callVars, main, accepted, failed>>

HangUp(c) ==
  /\ c \in open
  /\ open' = open \ {c}
  /\ UNCHANGED <<queue, stop, writer, writeVars, callVars, main, accepted, failed>>

(* The handler stops the acceptor and gives up the I/O threads' guards.    *)
Signal ==
  /\ main = "running"
  /\ main' = "joinIO"
  /\ UNCHANGED <<queue, stop, writer, writeVars, callVars, open, accepted, failed>>

(* A session always has a read pending: an I/O thread ends its run when it *)
(* has no session left.                                                    *)
IOIdle == open = {}

(* The threads are joined and the gRPC server shut down; main calls Close. *)
JoinIO ==
  /\ main = "joinIO" /\ IOIdle
  /\ main' = "close"
  /\ UNCHANGED <<queue, stop, writer, writeVars, callVars, open, accepted, failed>>

Close ==
  /\ main = "close"
  /\ stop' = TRUE
  /\ main' = "notify"
  /\ UNCHANGED <<queue, writer, writeVars, callVars, open, accepted, failed>>

NotifyAll ==
  /\ main = "notify"
  /\ Wake
  /\ main' = "joinWriter"
  /\ UNCHANGED <<queue, stop, writeVars, callVars, open, accepted, failed>>

(* Then main deletes its login count and returns.                          *)
JoinWriter ==
  /\ main = "joinWriter" /\ writer = "ended"
  /\ main' = "exit"
  /\ UNCHANGED <<queue, stop, writer, writeVars, callVars, open, accepted, failed>>

-----------------------------------------------------------------------------
WriterStep == Sleep \/ Quit \/ TakeBatch \/ InsertRow \/ Commit \/ RollBack

MainStep == JoinIO \/ Close \/ NotifyAll \/ JoinWriter

Next ==
  \/ \E p \in Pusher : PushMessages(p) \/ NotifyOne(p)
  \/ WriterStep
  \/ SpuriousWakeup
  \/ \E c \in Client : Connect(c) \/ HangUp(c)
  \/ Signal
  \/ MainStep

Spec == Init /\ [][Next]_vars

(* The writer, main and a worker between its push and its notification are *)
(* running threads.  Clients, signals and new calls owe nothing.           *)
FairSpec ==
  /\ Spec
  /\ WF_vars(WriterStep)
  /\ WF_vars(MainStep)
  /\ \A p \in Pusher : WF_vars(NotifyOne(p))

-----------------------------------------------------------------------------
(* The queue and the batch in the writer's hands are one buffer of a store *)
(* that keeps or loses what leaves it a batch at a time, in order          *)
(* (WorkerLoop, FlushBatch, SaveChatMsgs).                                 *)
Store == INSTANCE MessageStore WITH buffer <- batch \o queue, table <- ToSet(rows)

StoreSpec == Store!Spec

(* History pages are read by msg_id: the rows of all sessions are in the   *)
(* order in which the handlers pushed them, whatever batches failed        *)
(* (PushMessages, WorkerLoop).                                             *)
StoredInOrder ==
  \A i, j \in DOMAIN rows : i < j =>
    \A a, b \in DOMAIN accepted :
      accepted[a] = rows[i] /\ accepted[b] = rows[j] => a < b

Stored(r) == \E x \in ToSet(rows) : KeyOf[x] = KeyOf[r]

(* When main returns, every record that PushMessages has queued is in the  *)
(* table or was in a batch whose transaction failed: Close and WorkerLoop  *)
(* leave nothing behind.                                                   *)
CloseFlushes ==
  main = "exit" => \A r \in ToSet(accepted) : Stored(r) \/ r \in failed

(* A queued record is saved or dropped with its batch in the end: no       *)
(* notification is lost between PushMessages and WorkerLoop.               *)
EventuallyFlushed ==
  \A r \in Record : r \in ToSet(accepted) ~> Stored(r) \/ r \in failed

(* After a signal, main returns once the clients are gone, however the     *)
(* workers go on pushing (main, Close, WorkerLoop).                        *)
ShutdownEnds == (main # "running" /\ open = {}) ~> main = "exit"

(* README.md, section 5.7: a process that is shut down flushes the queue   *)
(* and exits (main).                                                       *)
GracefulExit == main # "running" ~> main = "exit"
=============================================================================
