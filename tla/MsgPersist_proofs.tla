-------------------------- MODULE MsgPersist_proofs --------------------------
(* Theorems about MsgPersist, for any workers, calls, keys and batch size.  *)
EXTENDS MsgPersist, Sequence_proofs, TLAPS

-----------------------------------------------------------------------------
(* The writer holds a batch exactly while it saves one, it ends only when  *)
(* nothing is queued and nothing can be queued any more, and main returns  *)
(* only after it.                                                          *)
PhaseInv ==
  /\ writer # "insert" => batch = <<>> /\ done = 0 /\ txn = <<>>
  /\ writer = "insert" => batch # <<>>
  /\ writer = "ended" => stop /\ queue = <<>>
  /\ stop <=> main \in {"notify", "joinWriter", "exit"}
  /\ main = "exit" => writer = "ended"

TInv == TypeOK /\ PhaseInv

(* What PushMessages appends is a sequence of records.                     *)
LEMMA CallTypes ==
  ASSUME NEW p \in Pusher, NEW c \in DOMAIN Calls[p]
  PROVE  Calls[p][c] \in Seq(Record)
BY PersistAssumption

(* What TakeBatch takes: at least one record of a queue that has one.      *)
LEMMA BatchLenBounds ==
  ASSUME TypeOK, queue # <<>>
  PROVE  BatchLen \in 1 .. Len(queue) /\ BatchLen <= BatchSize
BY PersistAssumption DEF TypeOK, BatchLen

LEMMA TInvInit == Init => TInv
<1> SUFFICES ASSUME Init
             PROVE  TInv
  OBVIOUS
<1>1. TypeOK
  <2>1. <<>> \in Seq(Record) /\ Len(<<>>) = 0 /\ 0 \in 0 .. 0 /\ 0 <= BatchSize
    BY PersistAssumption
  <2>2. next \in [Pusher -> Nat \ {0}]
    BY DEF Init
  <2> QED
    BY <2>1, <2>2 DEF Init, TypeOK
<1>2. PhaseInv
  <2>1. stop = FALSE /\ main = "running" /\ writer = "test"
    BY DEF Init
  <2>2. stop <=> main \in {"notify", "joinWriter", "exit"}
    BY <2>1
  <2> QED
    BY <2>1, <2>2 DEF Init, PhaseInv
<1> QED
  BY <1>1, <1>2 DEF TInv

LEMMA TInvStep == TInv /\ [Next]_vars => TInv'
<1> SUFFICES ASSUME TInv, [Next]_vars
             PROVE  TInv'
  OBVIOUS
<1> USE DEF TInv, callVars, writeVars
<1>1. ASSUME NEW p \in Pusher, PushMessages(p)
      PROVE  TInv'
  <2>1. Calls[p][next[p]] \in Seq(Record)
    BY <1>1, CallTypes DEF PushMessages
  <2>2. queue' \in Seq(Record) /\ accepted' \in Seq(Record)
    <3> DEFINE records == Calls[p][next[p]]
    <3>1. queue \o records \in Seq(Record) /\ accepted \o records \in Seq(Record)
      BY <2>1, ConcatProperties DEF TypeOK
    <3>2. \/ queue' = queue /\ accepted' = accepted
          \/ queue' = queue \o records /\ accepted' = accepted \o records
      BY <1>1 DEF PushMessages
    <3> QED
      BY <3>1, <3>2 DEF TypeOK
  <2>3. next' \in [Pusher -> Nat \ {0}]
    <3>1. \A q \in Pusher : next[q] \in Nat \ {0} /\ next[q] + 1 \in Nat \ {0}
      BY DEF TypeOK
    <3> QED
      BY <1>1, <3>1 DEF TypeOK, PushMessages
  <2>4. TypeOK'
    <3>1. notifying' \in SUBSET Pusher
      BY <1>1 DEF TypeOK, PushMessages
    <3> QED
      BY <1>1, <2>2, <2>3, <3>1 DEF TypeOK, PushMessages
  <2>5. PhaseInv'
    BY <1>1 DEF PhaseInv, PushMessages
  <2> QED
    BY <2>4, <2>5
<1>2. ASSUME NEW p \in Pusher, NotifyOne(p)
      PROVE  TInv'
  BY <1>2 DEF TypeOK, PhaseInv, NotifyOne, Wake
<1>3. CASE Sleep
  BY <1>3 DEF TypeOK, PhaseInv, Sleep, Ready
<1>4. CASE Quit
  BY <1>4 DEF TypeOK, PhaseInv, Quit, MayQuit
<1>5. CASE TakeBatch
  <2>1. queue # <<>>
    BY <1>5 DEF TakeBatch, Ready, MayQuit
  <2>2. BatchLen \in 1 .. Len(queue) /\ BatchLen <= BatchSize
    BY <2>1, BatchLenBounds
  <2>3. /\ batch' \in Seq(Record) /\ Len(batch') = BatchLen
        /\ queue' \in Seq(Record)
    BY <1>5, <2>2, CutSeq DEF TakeBatch, TypeOK
  <2>4. TypeOK'
    BY <1>5, <2>2, <2>3 DEF TypeOK, TakeBatch
  <2>5. PhaseInv'
    BY <1>5, <2>2, <2>3 DEF PhaseInv, TakeBatch
  <2> QED
    BY <2>4, <2>5
<1>6. CASE InsertRow
  <2>1. batch[done + 1] \in Record
    BY <1>6 DEF InsertRow, TypeOK
  <2>2. txn' \in Seq(Record)
    BY <1>6, <2>1 DEF InsertRow, Inserted, TypeOK
  <2>3. TypeOK'
    BY <1>6, <2>2 DEF TypeOK, InsertRow
  <2>4. PhaseInv'
    BY <1>6 DEF PhaseInv, InsertRow
  <2> QED
    BY <2>3, <2>4
<1>7. CASE Commit
  <2>1. TypeOK'
    BY <1>7, PersistAssumption DEF TypeOK, Commit, BatchOver
  <2>2. PhaseInv'
    BY <1>7 DEF PhaseInv, Commit, BatchOver
  <2> QED
    BY <2>1, <2>2
<1>8. CASE RollBack
  <2>1. ToSet(batch) \subseteq Record
    BY DEF TypeOK, ToSet
  <2>2. TypeOK'
    BY <1>8, <2>1, PersistAssumption DEF TypeOK, RollBack, RowsKept, BatchOver
  <2>3. PhaseInv'
    BY <1>8 DEF PhaseInv, RollBack, BatchOver
  <2> QED
    BY <2>2, <2>3
<1>9. CASE SpuriousWakeup
  BY <1>9 DEF TypeOK, PhaseInv, SpuriousWakeup
<1>10. ASSUME NEW c \in Client, Connect(c) \/ HangUp(c)
       PROVE  TInv'
  BY <1>10 DEF TypeOK, PhaseInv, Connect, HangUp
<1>11. CASE Signal
  BY <1>11 DEF TypeOK, PhaseInv, Signal
<1>12. CASE MainStep
  <2>1. CASE JoinIO
    BY <2>1 DEF TypeOK, PhaseInv, JoinIO
  <2>2. CASE Close
    <3>1. writer # "ended" /\ stop' = TRUE /\ main' = "notify"
      BY <2>2 DEF PhaseInv, Close
    <3> QED
      BY <2>2, <3>1 DEF TypeOK, PhaseInv, Close
  <2>3. CASE NotifyAll
    BY <2>3 DEF TypeOK, PhaseInv, NotifyAll, Wake
  <2>4. CASE JoinWriter
    BY <2>4 DEF TypeOK, PhaseInv, JoinWriter
  <2> QED
    BY <1>12, <2>1, <2>2, <2>3, <2>4 DEF MainStep
<1>13. CASE UNCHANGED vars
  BY <1>13 DEF TypeOK, PhaseInv, vars
<1> QED
  BY <1>1, <1>2, <1>3, <1>4, <1>5, <1>6, <1>7, <1>8, <1>9, <1>10, <1>11, <1>12, <1>13
     DEF Next, WriterStep

(* The variables keep their types (MsgPersistMgr, main); in particular a   *)
(* batch never exceeds _batch_size.                                        *)
THEOREM TypeCorrect == Spec => []TypeOK
<1>1. Init => TInv
  BY TInvInit
<1>2. TInv /\ [Next]_vars => TInv'
  BY TInvStep
<1>3. TInv => TypeOK
  BY DEF TInv
<1> QED
  BY <1>1, <1>2, <1>3, PTL DEF Spec

-----------------------------------------------------------------------------
(* Who touches the records on their way to the table.                      *)
LEMMA WhatMoves ==
  ASSUME [Next]_vars
  PROVE  \/ \E p \in Pusher : PushMessages(p)
         \/ TakeBatch \/ InsertRow \/ Commit \/ RollBack
         \/ UNCHANGED <<queue, writeVars, next, accepted, failed>>
BY DEF Next, WriterStep, MainStep, vars, callVars, writeVars, NotifyOne, Sleep, Quit,
       SpuriousWakeup, Connect, HangUp, Signal, JoinIO, Close, NotifyAll, JoinWriter

(* batch[i] is the first record of its key that the table does not have.   *)
FreshAt(i) ==
  /\ \A r \in ToSet(rows) : KeyOf[r] # KeyOf[batch[i]]
  /\ \A k \in 1 .. (i - 1) : KeyOf[batch[k]] # KeyOf[batch[i]]

HasRow(r) == \E x \in ToSet(rows) \cup ToSet(txn) : KeyOf[x] = KeyOf[r]

(* The open transaction has what INSERT IGNORE takes of the records tried  *)
(* so far, and no key of these is without a row.                           *)
BatchInv ==
  /\ ToSet(txn) = {batch[i] : i \in {j \in 1 .. done : FreshAt(j)}}
  /\ \A i \in 1 .. done : HasRow(batch[i])

(* A row is inserted exactly for a fresh record.                           *)
LEMMA InsertsFresh ==
  ASSUME TInv, BatchInv, InsertRow
  PROVE  HasRow(batch[done + 1]) <=> ~FreshAt(done + 1)
<1>1. done \in Nat /\ (done + 1) - 1 = done
  BY DEF TInv, TypeOK
<1>2. ASSUME HasRow(batch[done + 1]), FreshAt(done + 1)
      PROVE  FALSE
  <2>1. PICK x \in ToSet(txn) : KeyOf[x] = KeyOf[batch[done + 1]]
    BY <1>2 DEF HasRow, FreshAt
  <2>2. PICK i \in 1 .. done : x = batch[i]
    BY <2>1 DEF BatchInv
  <2> QED
    BY <1>1, <1>2, <2>1, <2>2 DEF FreshAt
<1>3. ASSUME ~HasRow(batch[done + 1])
      PROVE  FreshAt(done + 1)
  <2>1. \A r \in ToSet(rows) : KeyOf[r] # KeyOf[batch[done + 1]]
    BY <1>3 DEF HasRow
  <2>2. ASSUME NEW k \in 1 .. done
        PROVE  KeyOf[batch[k]] # KeyOf[batch[done + 1]]
    <3>1. PICK x \in ToSet(rows) \cup ToSet(txn) : KeyOf[x] = KeyOf[batch[k]]
      BY <2>2 DEF BatchInv, HasRow
    <3> QED
      BY <3>1, <1>3 DEF HasRow
  <2> QED
    BY <1>1, <2>1, <2>2 DEF FreshAt
<1> QED
  BY <1>2, <1>3

LEMMA BatchInsert == ASSUME TInv, BatchInv, InsertRow PROVE BatchInv'
<1> DEFINE d == done + 1
           F(n) == {batch[i] : i \in {j \in 1 .. n : FreshAt(j)}}
<1>1. /\ done \in Nat /\ done' = d /\ batch' = batch /\ rows' = rows
      /\ txn \in Seq(Record) /\ batch[d] \in Record
      /\ 1 .. d = 1 .. done \cup {d}
  <2>1. done \in Nat /\ batch \in Seq(Record) /\ txn \in Seq(Record) /\ done < Len(batch)
    BY DEF TInv, TypeOK, InsertRow
  <2>2. done' = d /\ batch' = batch /\ rows' = rows
    BY DEF InsertRow
  <2>3. batch[d] \in Record /\ 1 .. d = 1 .. done \cup {d}
    BY ONLY <2>1
  <2> QED
    BY <2>1, <2>2, <2>3
<1>2. txn' = IF HasRow(batch[d]) THEN txn ELSE Append(txn, batch[d])
  BY DEF InsertRow, Inserted, HasRow
<1>3. ToSet(txn') = IF HasRow(batch[d]) THEN ToSet(txn) ELSE ToSet(txn) \cup {batch[d]}
  <2>1. ToSet(Append(txn, batch[d])) = ToSet(txn) \cup {batch[d]}
    BY <1>1, AppendSet
  <2> QED
    BY <1>2, <2>1
<1>4. F(d) = IF FreshAt(d) THEN F(done) \cup {batch[d]} ELSE F(done)
  BY <1>1
<1>5. ToSet(txn') = F(d)
  BY <1>3, <1>4, InsertsFresh DEF BatchInv
<1>6. ASSUME NEW i \in 1 .. d
      PROVE  \E x \in ToSet(rows) \cup ToSet(txn') : KeyOf[x] = KeyOf[batch[i]]
  <2>1. CASE i \in 1 .. done
    BY <1>3, <2>1 DEF BatchInv, HasRow
  <2>2. CASE i = d
    BY <1>3, <2>2 DEF HasRow
  <2> QED
    BY <1>1, <2>1, <2>2
<1> QED
  BY <1>1, <1>5, <1>6 DEF BatchInv, FreshAt, HasRow

LEMMA BatchStep == TInv /\ BatchInv /\ [Next]_vars => BatchInv'
<1> SUFFICES ASSUME TInv, BatchInv, [Next]_vars
             PROVE  BatchInv'
  OBVIOUS
<1>1. CASE InsertRow
  BY <1>1, BatchInsert
<1>2. CASE done' = 0 /\ txn' = <<>>
  BY <1>2 DEF BatchInv, ToSet
<1>3. CASE UNCHANGED writeVars
  BY <1>3 DEF BatchInv, FreshAt, HasRow, writeVars
<1>4. TakeBatch \/ Commit \/ RollBack => done' = 0 /\ txn' = <<>>
  BY DEF TakeBatch, Commit, RollBack, BatchOver
<1>5. ASSUME NEW p \in Pusher, PushMessages(p)
      PROVE  UNCHANGED writeVars
  BY <1>5 DEF PushMessages
<1> QED
  BY <1>1, <1>2, <1>3, <1>4, <1>5, WhatMoves

-----------------------------------------------------------------------------
(* MsgPersist implements MessageStore.                                     *)
Buffer == batch \o queue

LEMMA StoreInit == Init => Store!Init
<1> SUFFICES ASSUME Init
             PROVE  Store!Init
  OBVIOUS
<1>1. batch = <<>> /\ queue = <<>> /\ rows = <<>>
  BY DEF Init
<1>2. <<>> \o <<>> = <<>> /\ ToSet(<<>>) = {}
  BY DEF ToSet
<1> QED
  BY <1>1, <1>2 DEF Store!Init

LEMMA PushAccepts ==
  ASSUME TInv, NEW p \in Pusher, PushMessages(p)
  PROVE  Store!Accept \/ UNCHANGED <<Buffer, ToSet(rows)>>
<1> DEFINE records == Calls[p][next[p]]
<1>1. /\ batch \in Seq(Record) /\ queue \in Seq(Record) /\ records \in Seq(Record)
      /\ batch' = batch /\ rows' = rows
  BY CallTypes DEF TInv, TypeOK, PushMessages, writeVars
<1> HIDE DEF records
<1>2. CASE queue' = queue
  BY <1>1, <1>2 DEF Buffer
<1>3. CASE records # <<>> /\ queue' = queue \o records
  <2>1. Buffer' = Buffer \o records
    <3>1. \A r, s, t \in Seq(Record) : r \o (s \o t) = (r \o s) \o t
      BY ConcatAssociative
    <3> QED
      BY <1>1, <1>3, <3>1, Zenon DEF Buffer
  <2>2. Buffer \in Seq(Record)
    BY <1>1, ConcatProperties DEF Buffer
  <2>3. /\ Buffer' \in Seq(Record)
        /\ Len(Buffer') = Len(Buffer) + Len(records)
        /\ Len(records) \in Nat \ {0} /\ Len(Buffer) \in Nat
    BY <1>1, <1>3, <2>1, <2>2, ConcatProperties, EmptySeq
  <2>4. SubSeq(Buffer', 1, Len(Buffer)) = SubSeq(Buffer, 1, Len(Buffer))
    BY <1>1, <2>1, <2>2, CutConcat, SubSeqFull
  <2>5. Store!IsStrictPrefix(Buffer, Buffer')
    BY <2>3, <2>4 DEF Store!IsStrictPrefix, Store!IsPrefix
  <2> QED
    BY <1>1, <2>3, <2>5 DEF Store!Accept, Buffer
<1> QED
  BY <1>2, <1>3 DEF PushMessages, records

(* The batch is a first part of the buffer, and what follows is the queue. *)
LEMMA BatchLeads ==
  ASSUME TInv, writer = "insert"
  PROVE  /\ Len(batch) \in 1 .. Len(Buffer)
         /\ SubSeq(Buffer, 1, Len(batch)) = batch
         /\ SubSeq(Buffer, Len(batch) + 1, Len(Buffer)) = queue
<1>1. /\ batch \in Seq(Record) /\ queue \in Seq(Record) /\ batch # <<>>
  BY DEF TInv, TypeOK, PhaseInv
<1>2. Len(Buffer) = Len(batch) + Len(queue) /\ Len(queue) \in Nat
  BY <1>1, ConcatProperties DEF Buffer
<1>3. Len(batch) \in Nat \ {0}
  BY <1>1, EmptySeq
<1> QED
  BY <1>1, <1>2, <1>3, CutConcat DEF Buffer

LEMMA EmptyBatch ==
  ASSUME TInv, batch' = <<>>, queue' = queue
  PROVE  Buffer' = queue
BY ConcatEmptySeq DEF TInv, TypeOK, Buffer

LEMMA CommitSaves == ASSUME TInv, BatchInv, Commit PROVE Store!Save
<1>1. /\ writer = "insert" /\ done = Len(batch) /\ rows' = rows \o txn
      /\ batch' = <<>> /\ queue' = queue
      /\ batch \in Seq(Record) /\ txn \in Seq(Record) /\ rows \in Seq(Record)
  BY DEF Commit, BatchOver, TInv, TypeOK
<1>2. Buffer' = queue
  BY <1>1, EmptyBatch
<1>3. ToSet(rows') = ToSet(rows) \cup ToSet(txn)
  BY <1>1, ConcatSet
<1>4. ToSet(txn) = Store!Fresh(ToSet(rows), batch)
  <2>1. DOMAIN batch = 1 .. done
    BY <1>1
  <2> QED
    BY <2>1 DEF BatchInv, FreshAt, Store!Fresh
<1> QED
  BY <1>1, <1>2, <1>3, <1>4, BatchLeads DEF Store!Save, Store!First, Store!Without, Buffer

LEMMA RollBackLoses == ASSUME TInv, RollBack PROVE Store!Lose
<1>1. writer = "insert" /\ batch' = <<>> /\ queue' = queue /\ rows' = rows
  BY DEF RollBack, BatchOver, RowsKept
<1>2. Buffer' = queue
  BY <1>1, EmptyBatch
<1> QED
  BY <1>1, <1>2, BatchLeads DEF Store!Lose, Store!Without, Buffer

LEMMA TakeStutters == ASSUME TInv, TakeBatch PROVE UNCHANGED <<Buffer, ToSet(rows)>>
<1>1. queue # <<>> /\ batch = <<>> /\ queue \in Seq(Record) /\ rows' = rows
  BY DEF TakeBatch, Ready, MayQuit, TInv, TypeOK, PhaseInv
<1>2. BatchLen \in 0 .. Len(queue)
  BY <1>1, BatchLenBounds DEF TInv
<1>3. batch' \o queue' = queue
  BY <1>1, <1>2, CutSeq DEF TakeBatch
<1>4. batch \o queue = queue
  BY <1>1, ConcatEmptySeq
<1> QED
  BY <1>1, <1>3, <1>4 DEF Buffer

LEMMA StoreStep ==
  TInv /\ BatchInv /\ [Next]_vars => [Store!Next]_<<batch \o queue, ToSet(rows)>>
<1> SUFFICES ASSUME TInv, BatchInv, [Next]_vars
             PROVE  Store!Next \/ UNCHANGED <<Buffer, ToSet(rows)>>
  BY DEF Buffer
<1>1. ASSUME NEW p \in Pusher, PushMessages(p)
      PROVE  Store!Next \/ UNCHANGED <<Buffer, ToSet(rows)>>
  BY <1>1, PushAccepts DEF Store!Next
<1>2. CASE TakeBatch
  BY <1>2, TakeStutters
<1>3. CASE InsertRow \/ UNCHANGED <<queue, writeVars>>
  BY <1>3 DEF InsertRow, writeVars, Buffer
<1>4. CASE Commit
  BY <1>4, CommitSaves DEF Store!Next
<1>5. CASE RollBack
  BY <1>5, RollBackLoses DEF Store!Next
<1> QED
  BY <1>1, <1>2, <1>3, <1>4, <1>5, WhatMoves

(* The queue, the batches and the transactions of MsgPersistMgr and        *)
(* SaveChatMsgs implement the abstract store: in order, whole batches, one *)
(* row per key.                                                            *)
THEOREM StoreImplemented == Spec => StoreSpec
<1>1. Init => TInv /\ BatchInv /\ Store!Init
  <2>1. Init => BatchInv
    BY DEF Init, BatchInv, ToSet
  <2> QED
    BY <2>1, TInvInit, StoreInit
<1>2. TInv /\ BatchInv /\ [Next]_vars => TInv' /\ BatchInv'
  BY TInvStep, BatchStep
<1>3. TInv /\ BatchInv /\ [Next]_vars => [Store!Next]_<<batch \o queue, ToSet(rows)>>
  BY StoreStep
<1> QED
  BY <1>1, <1>2, <1>3, PTL DEF Spec, StoreSpec, Store!Spec

-----------------------------------------------------------------------------
(* No record is lost on the way.                                           *)
Accounted ==
  \A r \in ToSet(accepted) :
    r \in ToSet(batch) \cup ToSet(queue) \/ Stored(r) \/ r \in failed

LEMMA AccountedStep == TInv /\ BatchInv /\ Accounted /\ [Next]_vars => Accounted'
<1> SUFFICES ASSUME TInv, BatchInv, Accounted, [Next]_vars,
                    NEW r \in ToSet(accepted')
             PROVE  \/ r \in ToSet(batch') \cup ToSet(queue')
                    \/ \E x \in ToSet(rows') : KeyOf[x] = KeyOf[r]
                    \/ r \in failed'
  BY DEF Accounted, Stored
<1>0. /\ accepted \in Seq(Record) /\ queue \in Seq(Record) /\ batch \in Seq(Record)
      /\ txn \in Seq(Record) /\ rows \in Seq(Record)
  BY DEF TInv, TypeOK
<1>1. ASSUME NEW p \in Pusher, PushMessages(p)
      PROVE  \/ r \in ToSet(batch') \cup ToSet(queue')
             \/ \E x \in ToSet(rows') : KeyOf[x] = KeyOf[r]
             \/ r \in failed'
  <2> DEFINE records == Calls[p][next[p]]
  <2>1. records \in Seq(Record)
    BY <1>1, CallTypes DEF PushMessages
  <2>2. /\ ToSet(accepted \o records) = ToSet(accepted) \cup ToSet(records)
        /\ ToSet(queue \o records) = ToSet(queue) \cup ToSet(records)
    BY <1>0, <2>1, ConcatSet
  <2> QED
    BY <1>1, <2>2 DEF PushMessages, writeVars, Accounted, Stored
<1>2. CASE TakeBatch
  <2>1. queue # <<>>
    BY <1>2 DEF TakeBatch, Ready, MayQuit
  <2>2. BatchLen \in 0 .. Len(queue)
    BY <2>1, <1>0, BatchLenBounds DEF TInv
  <2>3. batch' \in Seq(Record) /\ queue' \in Seq(Record) /\ batch' \o queue' = queue
    BY <1>0, <1>2, <2>2, CutSeq DEF TakeBatch
  <2>4. ToSet(queue) = ToSet(batch') \cup ToSet(queue')
    <3>1. \A s, t \in Seq(Record) : ToSet(s \o t) = ToSet(s) \cup ToSet(t)
      BY ConcatSet
    <3> QED
      BY <2>3, <3>1, Zenon
  <2>5. batch = <<>>
    BY <1>2 DEF TakeBatch, TInv, PhaseInv
  <2>6. ToSet(batch) = {}
    BY <2>5 DEF ToSet
  <2>7. accepted' = accepted /\ rows' = rows /\ failed' = failed
    BY <1>2 DEF TakeBatch
  <2>8. \/ r \in ToSet(batch) \cup ToSet(queue) \/ r \in failed
        \/ \E x \in ToSet(rows) : KeyOf[x] = KeyOf[r]
    BY <2>7 DEF Accounted, Stored
  <2>9. ToSet(batch) \cup ToSet(queue) = ToSet(batch') \cup ToSet(queue')
    BY <2>4, <2>6
  <2> QED
    BY <2>7, <2>8, <2>9, Zenon
<1>3. CASE InsertRow \/ UNCHANGED <<queue, writeVars, next, accepted, failed>>
  BY <1>3 DEF InsertRow, writeVars, Accounted, Stored
<1>4. CASE Commit
  <2>1. ToSet(rows') = ToSet(rows) \cup ToSet(txn)
    BY <1>0, <1>4, ConcatSet DEF Commit
  <2>2. ASSUME r \in ToSet(batch)
        PROVE  HasRow(r)
    BY <1>0, <1>4, <2>2 DEF Commit, BatchInv, ToSet
  <2> QED
    BY <1>4, <2>1, <2>2 DEF Commit, Accounted, Stored, HasRow
<1>5. CASE RollBack
  BY <1>5 DEF RollBack, RowsKept, Accounted, Stored
<1> QED
  BY <1>1, <1>2, <1>3, <1>4, <1>5, WhatMoves

(* When main returns, every record that was queued is stored or was in a   *)
(* batch that failed (Close, WorkerLoop): the writer ends with an empty    *)
(* queue, and nothing is queued after _stop.                               *)
THEOREM CloseFlushesAll == Spec => []CloseFlushes
<1> DEFINE CInv == TInv /\ BatchInv /\ Accounted
<1>1. Init => CInv
  <2>1. Init => BatchInv /\ Accounted
    BY DEF Init, BatchInv, Accounted, ToSet
  <2> QED
    BY <2>1, TInvInit
<1>2. CInv /\ [Next]_vars => CInv'
  BY TInvStep, BatchStep, AccountedStep
<1>3. CInv => CloseFlushes
  <2> SUFFICES ASSUME CInv, main = "exit"
               PROVE  \A r \in ToSet(accepted) : Stored(r) \/ r \in failed
    BY DEF CloseFlushes
  <2>1. batch = <<>> /\ queue = <<>>
    BY DEF TInv, PhaseInv
  <2>2. ToSet(<<>>) = {}
    BY DEF ToSet
  <2> QED
    BY <2>1, <2>2 DEF Accounted
<1> HIDE DEF CInv
<1> QED
  BY <1>1, <1>2, <1>3, PTL DEF Spec

-----------------------------------------------------------------------------
(* Order.  A record is accepted at most once, because it is in one call.   *)
PushedOnce ==
  /\ \A a \in DOMAIN accepted : \E p \in Pusher : \E c \in DOMAIN Calls[p] :
       c < next[p] /\ accepted[a] \in ToSet(Calls[p][c])
  /\ \A a, b \in DOMAIN accepted : accepted[a] = accepted[b] => a = b

(* How many accepted records have left the buffer.                         *)
Gone == Len(accepted) - (Len(batch) + Len(queue))

(* What is accepted has gone, or is in the batch, or is in the queue, in   *)
(* this order.                                                             *)
Pipeline ==
  /\ Gone \in Nat
  /\ \A i \in 1 .. Len(batch) : batch[i] = accepted[Gone + i]
  /\ \A i \in 1 .. Len(queue) : queue[i] = accepted[Gone + Len(batch) + i]

From(lo, hi, s) == \A x \in ToSet(s) : \E a \in lo .. hi : accepted[a] = x

InOrder(s) ==
  \A i, j \in DOMAIN s : i < j =>
    \A a, b \in DOMAIN accepted :
      accepted[a] = s[i] /\ accepted[b] = s[j] => a < b

(* The rows come from what has gone, those of the open transaction from    *)
(* what is inserted of the batch, both in order.                           *)
RowsInv ==
  /\ From(1, Gone, rows) /\ From(Gone + 1, Gone + done, txn)
  /\ InOrder(rows) /\ InOrder(txn)

OrderInv == PushedOnce /\ Pipeline /\ RowsInv

LEMMA ConcatInOrder ==
  ASSUME accepted \in Seq(Record), PushedOnce,
         NEW s \in Seq(Record), NEW t \in Seq(Record),
         NEW n \in Nat, NEW m \in Nat, n <= m, m <= Len(accepted),
         From(1, n, s), From(n + 1, m, t), InOrder(s), InOrder(t)
  PROVE  InOrder(s \o t)
<1> DEFINE st == s \o t
<1>1. /\ st \in Seq(Record) /\ DOMAIN st = 1 .. Len(s) + Len(t)
      /\ Len(s) \in Nat /\ Len(t) \in Nat
      /\ DOMAIN s = 1 .. Len(s) /\ DOMAIN t = 1 .. Len(t)
      /\ \A i \in 1 .. Len(s) : st[i] = s[i]
      /\ \A i \in 1 .. Len(s) + Len(t) : i > Len(s) => st[i] = t[i - Len(s)]
  BY ConcatProperties
<1> HIDE DEF st
<1>2. SUFFICES ASSUME NEW i \in DOMAIN st, NEW j \in DOMAIN st, i < j,
                      NEW a \in DOMAIN accepted, NEW b \in DOMAIN accepted,
                      accepted[a] = st[i], accepted[b] = st[j]
               PROVE  a < b
  BY DEF InOrder, st
<1>3. CASE j <= Len(s)
  <2>1. i \in DOMAIN s /\ j \in DOMAIN s /\ st[i] = s[i] /\ st[j] = s[j]
    BY <1>1, <1>2, <1>3
  <2> QED
    BY <1>2, <2>1 DEF InOrder
<1>4. CASE i > Len(s)
  <2>1. /\ i - Len(s) \in DOMAIN t /\ j - Len(s) \in DOMAIN t
        /\ i - Len(s) < j - Len(s)
        /\ st[i] = t[i - Len(s)] /\ st[j] = t[j - Len(s)]
    <3>1. /\ i \in 1 .. Len(s) + Len(t) /\ i > Len(s)
          /\ j \in 1 .. Len(s) + Len(t) /\ j > Len(s)
      BY <1>1, <1>2, <1>4
    <3>2. /\ i - Len(s) \in 1 .. Len(t) /\ j - Len(s) \in 1 .. Len(t)
          /\ i - Len(s) < j - Len(s)
      BY <1>1, <1>2, <3>1
    <3> QED
      BY <1>1, <3>1, <3>2
  <2> QED
    BY <1>2, <2>1 DEF InOrder
<1>5. CASE i <= Len(s) /\ j > Len(s)
  <2>1. i \in DOMAIN s /\ st[i] = s[i] /\ j - Len(s) \in DOMAIN t /\ st[j] = t[j - Len(s)]
    BY <1>1, <1>2, <1>5
  <2>2. PICK k \in 1 .. n : accepted[k] = s[i]
    BY <2>1 DEF From, ToSet
  <2>3. PICK l \in n + 1 .. m : accepted[l] = t[j - Len(s)]
    BY <2>1 DEF From, ToSet
  <2>4. k \in DOMAIN accepted /\ l \in DOMAIN accepted
    OBVIOUS
  <2>5. a = k /\ b = l
    BY <1>2, <2>1, <2>2, <2>3, <2>4 DEF PushedOnce
  <2> QED
    BY <2>5
<1> QED
  BY <1>1, <1>2, <1>3, <1>4, <1>5

(* A call that has not been made has no record in common with the past.    *)
LEMMA PushKeepsOnce ==
  ASSUME TInv, PushedOnce, NEW p \in Pusher, PushMessages(p),
         accepted' = accepted \o Calls[p][next[p]]
  PROVE  PushedOnce'
<1> DEFINE n == next[p]
           records == Calls[p][n]
<1>1. /\ records \in Seq(Record) /\ accepted \in Seq(Record)
      /\ n \in DOMAIN Calls[p] /\ n \in Nat
      /\ next' = [next EXCEPT ![p] = n + 1]
      /\ next \in [Pusher -> Nat \ {0}]
  BY CallTypes DEF TInv, TypeOK, PushMessages
<1>2. /\ DOMAIN accepted' = 1 .. Len(accepted) + Len(records)
      /\ DOMAIN accepted = 1 .. Len(accepted) /\ DOMAIN records = 1 .. Len(records)
      /\ Len(accepted) \in Nat /\ Len(records) \in Nat
      /\ \A a \in DOMAIN accepted : accepted'[a] = accepted[a]
      /\ \A a \in DOMAIN accepted' : a > Len(accepted) =>
           a - Len(accepted) \in DOMAIN records
           /\ accepted'[a] = records[a - Len(accepted)]
  BY <1>1, ConcatProperties
<1> HIDE DEF records
<1>3. ASSUME NEW a \in DOMAIN accepted'
      PROVE  \E q \in Pusher : \E c \in DOMAIN Calls[q] :
               c < next'[q] /\ accepted'[a] \in ToSet(Calls[q][c])
  <2>1. CASE a \in DOMAIN accepted
    <3>0. PICK q \in Pusher : \E c \in DOMAIN Calls[q] :
            c < next[q] /\ accepted[a] \in ToSet(Calls[q][c])
      BY <2>1 DEF PushedOnce
    <3>1. PICK c \in DOMAIN Calls[q] : c < next[q] /\ accepted[a] \in ToSet(Calls[q][c])
      BY <3>0
    <3>2. c \in Nat
      BY <3>1, PersistAssumption
    <3>3. next'[q] \in Nat /\ next[q] \in Nat /\ next[q] <= next'[q]
      BY <1>1
    <3>4. c < next'[q]
      BY <3>1, <3>2, <3>3
    <3> QED
      BY <1>2, <2>1, <3>1, <3>4
  <2>2. CASE a > Len(accepted)
    <3>1. accepted'[a] \in ToSet(Calls[p][n])
      BY <1>2, <2>2 DEF ToSet, records
    <3>2. n < next'[p]
      BY <1>1
    <3> QED
      BY <1>1, <3>1, <3>2
  <2> QED
    BY <1>2, <2>1, <2>2
<1>4. ASSUME NEW a \in DOMAIN accepted, NEW b \in DOMAIN accepted', b > Len(accepted)
      PROVE  accepted'[a] # accepted'[b]
  <2>0. PICK q \in Pusher : \E c \in DOMAIN Calls[q] :
          c < next[q] /\ accepted[a] \in ToSet(Calls[q][c])
    BY DEF PushedOnce
  <2>1. PICK c \in DOMAIN Calls[q] : c < next[q] /\ accepted[a] \in ToSet(Calls[q][c])
    BY <2>0
  <2>2. PICK i \in DOMAIN Calls[q][c] : accepted[a] = Calls[q][c][i]
    BY <2>1 DEF ToSet
  <2>3. PICK j \in DOMAIN Calls[p][n] : accepted'[b] = Calls[p][n][j]
    BY <1>2, <1>4 DEF records
  <2>4. ~(q = p /\ c = n)
    BY <1>1, <2>1
  <2>5. Calls[q][c][i] # Calls[p][n][j]
    <3>1. q \in Pusher /\ p \in Pusher /\ c \in DOMAIN Calls[q] /\ n \in DOMAIN Calls[p]
          /\ i \in DOMAIN Calls[q][c] /\ j \in DOMAIN Calls[p][n]
      BY <1>1
    <3>2. Calls[q][c][i] = Calls[p][n][j] => q = p /\ c = n
      BY ONLY <3>1, PersistAssumption
    <3> QED
      BY <2>4, <3>2, Zenon
  <2> QED
    BY <1>2, <2>2, <2>3, <2>5
<1>5. ASSUME NEW a \in DOMAIN accepted', NEW b \in DOMAIN accepted',
             a > Len(accepted), b > Len(accepted), accepted'[a] = accepted'[b]
      PROVE  a = b
  <2> DEFINE i == a - Len(accepted)
             j == b - Len(accepted)
  <2>1. /\ i \in DOMAIN records /\ j \in DOMAIN records /\ records[i] = records[j]
        /\ a = i + Len(accepted) /\ b = j + Len(accepted)
    BY <1>2, <1>5
  <2> HIDE DEF i, j
  <2>2. i = j
    BY <1>1, <2>1, PersistAssumption DEF records
  <2> QED
    BY <2>1, <2>2
<1>6. ASSUME NEW a \in DOMAIN accepted', NEW b \in DOMAIN accepted',
             accepted'[a] = accepted'[b]
      PROVE  a = b
  <2>1. CASE a > Len(accepted) /\ b > Len(accepted)
    BY <1>5, <1>6, <2>1
  <2>2. CASE a \in DOMAIN accepted /\ b > Len(accepted)
    BY <1>4, <1>6, <2>2
  <2>3. CASE a > Len(accepted) /\ b \in DOMAIN accepted
    BY <1>4, <1>6, <2>3
  <2>4. CASE a \in DOMAIN accepted /\ b \in DOMAIN accepted
    BY <1>2, <1>6, <2>4 DEF PushedOnce
  <2> QED
    BY <1>2, <2>1, <2>2, <2>3, <2>4
<1> QED
  BY <1>3, <1>6 DEF PushedOnce

(* A push does not disturb the order of a sequence of accepted records.    *)
LEMMA PushKeepsOrder ==
  ASSUME NEW records \in Seq(Record), accepted \in Seq(Record),
         accepted' = accepted \o records, PushedOnce',
         NEW s \in Seq(Record), NEW lo \in Nat \ {0}, NEW hi \in Nat, hi <= Len(accepted),
         From(lo, hi, s), InOrder(s)
  PROVE  /\ \A x \in ToSet(s) : \E a \in lo .. hi : accepted'[a] = x
         /\ \A i, j \in DOMAIN s : i < j =>
              \A a, b \in DOMAIN accepted' :
                accepted'[a] = s[i] /\ accepted'[b] = s[j] => a < b
<1>1. /\ DOMAIN accepted = 1 .. Len(accepted)
      /\ DOMAIN accepted' = 1 .. Len(accepted) + Len(records)
      /\ Len(accepted) \in Nat /\ Len(records) \in Nat
      /\ \A a \in DOMAIN accepted : accepted'[a] = accepted[a]
  BY ConcatProperties
<1>2. \A a \in lo .. hi : a \in DOMAIN accepted /\ a \in DOMAIN accepted'
  BY <1>1
<1>3. ASSUME NEW x \in ToSet(s)
      PROVE  \E a \in lo .. hi : accepted[a] = x /\ accepted'[a] = x
  BY <1>1, <1>2 DEF From
<1>4. ASSUME NEW i \in DOMAIN s, NEW j \in DOMAIN s, i < j,
             NEW a \in DOMAIN accepted', NEW b \in DOMAIN accepted',
             accepted'[a] = s[i], accepted'[b] = s[j]
      PROVE  a < b
  <2>1. s[i] \in ToSet(s) /\ s[j] \in ToSet(s)
    BY DEF ToSet
  <2>2. PICK k \in lo .. hi : accepted[k] = s[i] /\ accepted'[k] = s[i]
    BY <1>3, <2>1
  <2>3. PICK l \in lo .. hi : accepted[l] = s[j] /\ accepted'[l] = s[j]
    BY <1>3, <2>1
  <2>4. a = k /\ b = l
    BY <1>2, <1>4, <2>2, <2>3 DEF PushedOnce
  <2> QED
    BY <1>2, <1>4, <2>2, <2>3, <2>4 DEF InOrder
<1> QED
  BY <1>3, <1>4

LEMMA SplitInterval ==
  ASSUME NEW m \in Nat, NEW n \in Nat, NEW i \in 1 .. (m + n)
  PROVE  i \in 1 .. m \/ \E k \in 1 .. n : i = m + k
<1>1. CASE i > m
  <2>1. i - m \in 1 .. n /\ i = m + (i - m)
    BY <1>1
  <2> QED
    BY <2>1
<1> QED
  BY <1>1

LEMMA PushKeepsPipeline ==
  ASSUME TInv, Pipeline, NEW records \in Seq(Record), batch' = batch,
         accepted' = accepted \o records, queue' = queue \o records
  PROVE  Pipeline' /\ Gone' = Gone
<1>1. /\ accepted \in Seq(Record) /\ queue \in Seq(Record) /\ batch \in Seq(Record)
      /\ Len(accepted) \in Nat /\ Len(queue) \in Nat /\ Len(batch) \in Nat
      /\ Len(records) \in Nat
  BY DEF TInv, TypeOK
<1>2. /\ Len(accepted') = Len(accepted) + Len(records)
      /\ Len(queue') = Len(queue) + Len(records)
      /\ \A a \in 1 .. Len(accepted) : accepted'[a] = accepted[a]
      /\ \A i \in 1 .. Len(queue) : queue'[i] = queue[i]
      /\ \A k \in 1 .. Len(records) : /\ accepted'[Len(accepted) + k] = records[k]
                                      /\ queue'[Len(queue) + k] = records[k]
  <2>1. /\ Len(accepted \o records) = Len(accepted) + Len(records)
        /\ \A a \in 1 .. Len(accepted) : (accepted \o records)[a] = accepted[a]
        /\ \A k \in 1 .. Len(records) :
             (accepted \o records)[Len(accepted) + k] = records[k]
    BY ONLY <1>1, records \in Seq(Record), ConcatProperties
  <2>2. /\ Len(queue \o records) = Len(queue) + Len(records)
        /\ \A i \in 1 .. Len(queue) : (queue \o records)[i] = queue[i]
        /\ \A k \in 1 .. Len(records) : (queue \o records)[Len(queue) + k] = records[k]
    BY ONLY <1>1, records \in Seq(Record), ConcatProperties
  <2> QED
    BY <2>1, <2>2, Zenon
<1>3. Gone' = Gone /\ Gone \in Nat /\ Gone + Len(batch) + Len(queue) = Len(accepted)
  <2>1. \A a, b, q, k \in Nat : /\ (a + k) - (b + (q + k)) = a - (b + q)
                               /\ (a - (b + q)) + b + q = a
    OBVIOUS
  <2>2. Gone \in Nat
    BY DEF Pipeline
  <2>3. Gone = Len(accepted) - (Len(batch) + Len(queue))
    BY DEF Gone
  <2>4. Gone' = (Len(accepted) + Len(records)) - (Len(batch) + (Len(queue) + Len(records)))
    BY <1>2 DEF Gone
  <2> QED
    BY ONLY <1>1, <2>1, <2>2, <2>3, <2>4
<1>4. ASSUME NEW i \in 1 .. Len(batch)
      PROVE  batch[i] = accepted'[Gone + i]
  <2>1. Gone + i \in 1 .. Len(accepted)
    BY <1>1, <1>3
  <2> QED
    BY <1>2, <2>1 DEF Pipeline
<1>5. ASSUME NEW i \in 1 .. Len(queue)
      PROVE  queue'[i] = accepted'[Gone + Len(batch) + i]
  <2>1. Gone + Len(batch) + i \in 1 .. Len(accepted)
    BY <1>1, <1>3
  <2> QED
    BY <1>2, <2>1 DEF Pipeline
<1>6. ASSUME NEW k \in 1 .. Len(records)
      PROVE  queue'[Len(queue) + k] = accepted'[Gone + Len(batch) + (Len(queue) + k)]
  <2>1. k \in Nat
    BY <1>1
  <2>2. Gone + Len(batch) + (Len(queue) + k) = Len(accepted) + k
    <3> DEFINE g == Gone
               b == Len(batch)
               q == Len(queue)
               a == Len(accepted)
    <3>1. g \in Nat /\ b \in Nat /\ q \in Nat /\ a \in Nat /\ g + b + q = a
      BY <1>1, <1>3
    <3> HIDE DEF g, b, q, a
    <3>2. g + b + (q + k) = a + k
      BY <2>1, <3>1
    <3> QED
      BY <3>2 DEF g, b, q, a
  <2> QED
    BY <1>2, <2>2
<1>7. ASSUME NEW i \in 1 .. Len(queue')
      PROVE  queue'[i] = accepted'[Gone + Len(batch) + i]
  <2>1. i \in 1 .. Len(queue) \/ \E k \in 1 .. Len(records) : i = Len(queue) + k
    <3>1. i \in 1 .. (Len(queue) + Len(records))
      BY <1>2
    <3> QED
      BY <1>1, <3>1, SplitInterval, Zenon
  <2> QED
    BY <1>5, <1>6, <2>1
<1> QED
  BY <1>3, <1>4, <1>7 DEF Pipeline

LEMMA OrderPush ==
  ASSUME TInv, OrderInv, NEW p \in Pusher, PushMessages(p)
  PROVE  OrderInv'
<1> DEFINE records == Calls[p][next[p]]
<1>1. /\ records \in Seq(Record) /\ accepted \in Seq(Record) /\ Len(accepted) \in Nat
      /\ rows \in Seq(Record) /\ txn \in Seq(Record)
      /\ Len(batch) \in Nat /\ Len(queue) \in Nat /\ done \in 0 .. Len(batch)
      /\ UNCHANGED <<batch, done, txn, rows>>
  BY CallTypes DEF TInv, TypeOK, PushMessages, writeVars
<1>2. CASE accepted' = accepted \o records /\ queue' = queue \o records
  <2>1. PushedOnce'
    BY <1>2, PushKeepsOnce DEF OrderInv
  <2>2. Pipeline' /\ Gone' = Gone
    <3> HIDE DEF records
    <3> QED
      BY <1>1, <1>2, PushKeepsPipeline DEF OrderInv
  <2>3. /\ Gone \in Nat /\ Gone <= Len(accepted)
        /\ Gone + done \in Nat /\ Gone + done <= Len(accepted)
        /\ 1 \in Nat \ {0} /\ Gone + 1 \in Nat \ {0}
    BY <1>1 DEF OrderInv, Pipeline, Gone
  <2>4. From(1, Gone, rows)' /\ InOrder(rows)'
    <3> HIDE DEF records
    <3>1. From(1, Gone, rows) /\ InOrder(rows)
      BY DEF OrderInv, RowsInv
    <3>2. /\ \A x \in ToSet(rows) : \E a \in 1 .. Gone : accepted'[a] = x
          /\ \A i, j \in DOMAIN rows : i < j =>
               \A a, b \in DOMAIN accepted' :
                 accepted'[a] = rows[i] /\ accepted'[b] = rows[j] => a < b
      BY <1>1, <1>2, <2>1, <2>3, <3>1, PushKeepsOrder
    <3> QED
      BY <1>1, <2>2, <3>2 DEF From, InOrder
  <2>5. From(Gone + 1, Gone + done, txn)' /\ InOrder(txn)'
    <3> HIDE DEF records
    <3>1. From(Gone + 1, Gone + done, txn) /\ InOrder(txn)
      BY DEF OrderInv, RowsInv
    <3>2. /\ \A x \in ToSet(txn) : \E a \in Gone + 1 .. Gone + done : accepted'[a] = x
          /\ \A i, j \in DOMAIN txn : i < j =>
               \A a, b \in DOMAIN accepted' :
                 accepted'[a] = txn[i] /\ accepted'[b] = txn[j] => a < b
      BY <1>1, <1>2, <2>1, <2>3, <3>1, PushKeepsOrder
    <3> QED
      BY <1>1, <2>2, <3>2 DEF From, InOrder
  <2> QED
    BY <2>1, <2>2, <2>4, <2>5 DEF OrderInv, RowsInv
<1>3. CASE UNCHANGED <<accepted, queue>>
  <2>1. \A q \in Pusher : next[q] <= next'[q] /\ next[q] \in Nat /\ next'[q] \in Nat
    BY DEF TInv, TypeOK, PushMessages
  <2>2. \A q \in Pusher : \A c \in DOMAIN Calls[q] : c < next[q] => c < next'[q]
    <3>1. \A q \in Pusher : \A c \in DOMAIN Calls[q] : c \in Nat
      BY PersistAssumption
    <3> QED
      BY <2>1, <3>1
  <2>3. PushedOnce'
    BY <1>3, <2>2 DEF OrderInv, PushedOnce
  <2> QED
    BY <1>1, <1>3, <2>3 DEF OrderInv, Pipeline, RowsInv, From, InOrder, Gone
<1> QED
  BY <1>2, <1>3 DEF PushMessages

LEMMA OrderTake == ASSUME TInv, OrderInv, TakeBatch PROVE OrderInv'
<1> DEFINE n == BatchLen
<1>1. /\ queue \in Seq(Record) /\ Len(queue) \in Nat /\ queue # <<>>
      /\ batch = <<>> /\ Len(batch) = 0
      /\ batch' = SubSeq(queue, 1, n) /\ queue' = SubSeq(queue, n + 1, Len(queue))
      /\ done' = 0 /\ txn' = <<>> /\ done = 0
      /\ UNCHANGED <<accepted, rows, next>>
  BY DEF TInv, TypeOK, PhaseInv, TakeBatch, Ready, MayQuit, callVars
<1>2. n \in 0 .. Len(queue)
  BY <1>1, BatchLenBounds DEF TInv
<1> HIDE DEF n
<1>3. /\ Len(batch') = n /\ \A i \in 1 .. n : batch'[i] = queue[i]
      /\ Len(queue') = Len(queue) - n
      /\ \A i \in 1 .. Len(queue) - n : queue'[i] = queue[n + i]
  BY <1>1, <1>2, CutSeq
<1>4. Gone' = Gone /\ Gone \in Nat /\ n \in Nat
  <2>1. Gone \in Nat /\ n \in Nat
    BY <1>2 DEF OrderInv, Pipeline
  <2>2. Len(batch') + Len(queue') = Len(batch) + Len(queue)
    <3>1. Len(batch') + Len(queue') = n + (Len(queue) - n)
      BY <1>3
    <3>2. \A x \in Nat : \A y \in 0 .. x : y + (x - y) = 0 + x
      OBVIOUS
    <3> QED
      BY <1>1, <1>2, <3>1, <3>2, Zenon
  <2>3. Gone' = Gone
    BY <1>1, <2>2 DEF Gone
  <2> QED
    BY <2>1, <2>3
<1>5. \A i \in 1 .. Len(queue) : queue[i] = accepted[Gone + i]
  BY <1>1, <1>4 DEF OrderInv, Pipeline
<1>6. ASSUME NEW i \in 1 .. Len(queue) - n
      PROVE  queue'[i] = accepted[Gone + n + i]
  <2>1. n + i \in 1 .. Len(queue) /\ Gone + (n + i) = Gone + n + i
    BY <1>1, <1>2, <1>4
  <2> QED
    BY <1>3, <1>5, <2>1
<1>7. Pipeline'
  <2>1. \A i \in 1 .. n : batch'[i] = accepted[Gone + i]
    BY <1>1, <1>2, <1>3, <1>5
  <2>2. accepted' = accepted /\ Gone' = Gone
        /\ Len(batch') = n /\ Len(queue') = Len(queue) - n
    BY <1>1, <1>3, <1>4
  <2>3. \A i \in 1 .. Len(batch') : batch'[i] = accepted'[Gone' + i]
    BY <2>1, <2>2, Zenon
  <2>4. \A i \in 1 .. Len(queue') : queue'[i] = accepted'[Gone' + Len(batch') + i]
    BY <1>6, <2>2, Zenon
  <2> QED
    BY <1>4, <2>3, <2>4 DEF Pipeline
<1>8. PushedOnce'
  BY <1>1 DEF OrderInv, PushedOnce
<1>9. RowsInv'
  BY <1>1, <1>4 DEF OrderInv, RowsInv, From, InOrder, ToSet
<1> QED
  BY <1>7, <1>8, <1>9 DEF OrderInv

(* The next record of the batch comes after those inserted before it.      *)
LEMMA OrderInsert == ASSUME TInv, OrderInv, InsertRow PROVE OrderInv'
<1> DEFINE d == done + 1
           r == batch[d]
<1>1. /\ accepted \in Seq(Record) /\ txn \in Seq(Record) /\ r \in Record
      /\ Len(accepted) \in Nat /\ Len(batch) \in Nat /\ Len(queue) \in Nat
      /\ done \in Nat /\ d \in 1 .. Len(batch) /\ done' = d
      /\ UNCHANGED <<accepted, rows, next, batch, queue>>
  BY DEF TInv, TypeOK, InsertRow, callVars
<1>2. /\ Gone' = Gone /\ Gone \in Nat /\ r = accepted[Gone + d]
      /\ Gone + d \in 1 .. Len(accepted)
  <2>1. Gone' = Gone
    BY <1>1 DEF Gone
  <2>2. Gone \in Nat /\ r = accepted[Gone + d]
    BY <1>1 DEF OrderInv, Pipeline
  <2>3. Gone + Len(batch) + Len(queue) = Len(accepted)
    BY <1>1 DEF Gone
  <2> HIDE DEF d
  <2>4. Gone + d \in 1 .. Len(accepted)
    BY <1>1, <2>2, <2>3
  <2> QED
    BY <2>1, <2>2, <2>4
<1>3. PushedOnce' /\ Pipeline'
  BY <1>1, <1>2 DEF OrderInv, PushedOnce, Pipeline
<1>4. txn' = txn \/ txn' = txn \o <<r>>
  BY <1>1, AppendIsConcat DEF InsertRow, Inserted
<1>5. /\ <<r>> \in Seq(Record) /\ ToSet(<<r>>) = {r}
      /\ InOrder(<<r>>)
  BY <1>1 DEF ToSet, InOrder
<1>6. From(Gone + 1, Gone + done, txn) /\ InOrder(txn)
  BY DEF OrderInv, RowsInv
<1> HIDE DEF r
<1>7. From(Gone + 1, Gone + d, txn \o <<r>>) /\ InOrder(txn \o <<r>>)
  <2> DEFINE m == Gone + done
  <2>1. /\ m \in Nat /\ Gone + d = m + 1 /\ m + 1 \in Nat /\ m <= m + 1
        /\ m + 1 <= Len(accepted)
    BY <1>1, <1>2
  <2>2. From(m + 1, m + 1, <<r>>)
    BY <1>2, <1>5, <2>1 DEF From
  <2>3. From(1, m, txn)
    BY <1>2, <1>6, <2>1 DEF From
  <2>4. InOrder(txn \o <<r>>)
    <3> HIDE DEF m
    <3> QED
      BY <1>1, <1>5, <1>6, <2>1, <2>2, <2>3, ConcatInOrder DEF OrderInv
  <2>5. ToSet(txn \o <<r>>) = ToSet(txn) \cup {r}
    <3>1. txn \o <<r>> = Append(txn, r)
      BY <1>1, AppendIsConcat, Zenon
    <3>2. ToSet(Append(txn, r)) = ToSet(txn) \cup {r}
      <4>1. txn \in Seq(Record) /\ r \in Record
        BY <1>1
      <4> QED
        BY ONLY <4>1, AppendSet
    <3> QED
      BY <3>1, <3>2
  <2>6. Gone + d \in Gone + 1 .. Gone + d /\ \A a \in Gone + 1 .. Gone + done : a \in Gone + 1 .. Gone + d
    BY <1>1, <1>2
  <2> QED
    BY <1>2, <1>6, <2>4, <2>5, <2>6 DEF From
<1>8. From(Gone + 1, Gone + d, txn)
  <2>1. \A a \in Gone + 1 .. Gone + done : a \in Gone + 1 .. Gone + d
    BY <1>1, <1>2
  <2> QED
    BY <1>6, <2>1 DEF From
<1>9. RowsInv'
  <2>1. From(Gone + 1, Gone + d, txn') /\ InOrder(txn')
    BY <1>4, <1>6, <1>7, <1>8
  <2> QED
    BY <1>1, <1>2, <2>1 DEF OrderInv, RowsInv, From, InOrder
<1> QED
  BY <1>3, <1>9 DEF OrderInv

(* After a batch the queue alone is left.                                  *)
LEMMA OrderBatchOver ==
  ASSUME TInv, OrderInv, BatchOver, UNCHANGED <<queue, accepted, next>>
  PROVE  /\ PushedOnce' /\ Pipeline'
         /\ Gone' = Gone + Len(batch) /\ Gone \in Nat
         /\ From(Gone' + 1, Gone' + done', txn') /\ InOrder(txn')
<1>1. /\ Len(accepted) \in Nat /\ Len(batch) \in Nat /\ Len(queue) \in Nat
      /\ batch' = <<>> /\ txn' = <<>> /\ Len(batch') = 0
  BY DEF TInv, TypeOK, BatchOver
<1>2. Gone' = Gone + Len(batch) /\ Gone \in Nat
  BY <1>1 DEF Gone, OrderInv, Pipeline
<1>3. Pipeline'
  <2>1. \A i \in 1 .. Len(queue') : queue'[i] = accepted'[Gone' + Len(batch') + i]
    BY <1>1, <1>2 DEF OrderInv, Pipeline
  <2> QED
    BY <1>1, <1>2, <2>1 DEF Pipeline
<1>4. PushedOnce'
  BY DEF OrderInv, PushedOnce
<1>5. From(Gone' + 1, Gone' + done', txn') /\ InOrder(txn')
  BY <1>1 DEF From, InOrder, ToSet
<1> QED
  BY <1>2, <1>3, <1>4, <1>5

LEMMA OrderCommit == ASSUME TInv, OrderInv, Commit PROVE OrderInv'
<1>1. /\ accepted \in Seq(Record) /\ rows \in Seq(Record) /\ txn \in Seq(Record)
      /\ Len(accepted) \in Nat /\ Len(batch) \in Nat /\ Len(queue) \in Nat
      /\ done = Len(batch) /\ rows' = rows \o txn
      /\ BatchOver /\ UNCHANGED <<queue, accepted, next>>
  BY DEF TInv, TypeOK, Commit, callVars
<1>2. /\ PushedOnce' /\ Pipeline'
      /\ Gone' = Gone + Len(batch) /\ Gone \in Nat
      /\ From(Gone' + 1, Gone' + done', txn') /\ InOrder(txn')
  BY <1>1, OrderBatchOver
<1> DEFINE m == Gone + Len(batch)
<1>3. m \in Nat /\ Gone <= m /\ m <= Len(accepted)
  BY <1>1, <1>2 DEF Gone
<1>4. From(1, Gone, rows) /\ From(Gone + 1, m, txn) /\ InOrder(rows) /\ InOrder(txn)
  BY <1>1 DEF OrderInv, RowsInv
<1> HIDE DEF m
<1>5. InOrder(rows \o txn)
  BY <1>1, <1>2, <1>3, <1>4, ConcatInOrder DEF OrderInv
<1>6. From(1, m, rows \o txn)
  <2>1. ToSet(rows \o txn) = ToSet(rows) \cup ToSet(txn)
    BY <1>1, ConcatSet
  <2>2. /\ \A a \in 1 .. Gone : a \in 1 .. m
        /\ \A a \in Gone + 1 .. m : a \in 1 .. m
    BY <1>2, <1>3
  <2> QED
    BY <1>4, <2>1, <2>2 DEF From
<1>7. From(1, Gone, rows)' /\ InOrder(rows)'
  <2>1. accepted' = accepted /\ rows' = rows \o txn /\ Gone' = m
    BY <1>1, <1>2 DEF m
  <2>2. From(1, Gone, rows)'
    <3>1. ToSet(rows') = ToSet(rows \o txn)
      BY <2>1, Zenon
    <3> QED
      BY <1>6, <2>1, <3>1 DEF From
  <2>3. InOrder(rows)'
    <3>1. DOMAIN rows' = DOMAIN (rows \o txn)
          /\ \A i : rows'[i] = (rows \o txn)[i]
      BY <2>1, Zenon
    <3> QED
      BY ONLY <1>5, <2>1, <3>1 DEF InOrder
  <2> QED
    BY <2>2, <2>3
<1>8. From(Gone + 1, Gone + done, txn)' /\ InOrder(txn)'
  <2>1. accepted' = accepted
    BY <1>1
  <2> QED
    BY ONLY <1>2, <2>1 DEF From, InOrder
<1> QED
  BY <1>2, <1>7, <1>8 DEF OrderInv, RowsInv

LEMMA OrderRollBack == ASSUME TInv, OrderInv, RollBack PROVE OrderInv'
<1>1. /\ Len(batch) \in Nat /\ rows' = rows
      /\ BatchOver /\ UNCHANGED <<queue, accepted, next>>
  BY DEF TInv, TypeOK, RollBack, RowsKept, callVars
<1>2. /\ PushedOnce' /\ Pipeline'
      /\ Gone' = Gone + Len(batch) /\ Gone \in Nat
      /\ From(Gone' + 1, Gone' + done', txn') /\ InOrder(txn')
  BY <1>1, OrderBatchOver
<1>3. \A a \in 1 .. Gone : a \in 1 .. Gone'
  BY <1>1, <1>2
<1>4. From(1, Gone, rows)' /\ InOrder(rows)'
  BY <1>1, <1>3 DEF OrderInv, RowsInv, From, InOrder
<1> QED
  BY <1>1, <1>2, <1>4 DEF OrderInv, RowsInv, From, InOrder

LEMMA OrderStep == TInv /\ OrderInv /\ [Next]_vars => OrderInv'
<1> SUFFICES ASSUME TInv, OrderInv, [Next]_vars
             PROVE  OrderInv'
  OBVIOUS
<1>1. CASE UNCHANGED <<queue, writeVars, next, accepted, failed>>
  BY <1>1 DEF writeVars, OrderInv, PushedOnce, Pipeline, RowsInv, From, InOrder, Gone
<1> QED
  BY <1>1, OrderPush, OrderTake, OrderInsert, OrderCommit, OrderRollBack, WhatMoves

(* The table grows in the order in which the handlers pushed (PushMessages,*)
(* WorkerLoop): history pages by msg_id are in order.                      *)
THEOREM RowsInOrder == Spec => []StoredInOrder
<1>1. Init => TInv /\ OrderInv
  <2> SUFFICES ASSUME Init
               PROVE  TInv /\ OrderInv
    OBVIOUS
  <2>1. /\ accepted = <<>> /\ batch = <<>> /\ queue = <<>> /\ rows = <<>> /\ txn = <<>>
        /\ Len(<<>>) = 0 /\ ToSet(<<>>) = {}
    BY DEF Init, ToSet
  <2>2. Gone = 0
    <3>1. Len(accepted) = 0 /\ Len(batch) = 0 /\ Len(queue) = 0
      BY <2>1
    <3> QED
      BY <3>1 DEF Gone
  <2>3. PushedOnce /\ Pipeline
    BY <2>1, <2>2 DEF PushedOnce, Pipeline
  <2>4. RowsInv
    BY <2>1 DEF RowsInv, From, InOrder
  <2> QED
    BY <2>3, <2>4, TInvInit DEF OrderInv
<1>2. TInv /\ OrderInv /\ [Next]_vars => TInv' /\ OrderInv'
  BY TInvStep, OrderStep
<1>3. TInv /\ OrderInv => StoredInOrder
  BY DEF OrderInv, RowsInv, InOrder, StoredInOrder
<1> QED
  BY <1>1, <1>2, <1>3, PTL DEF Spec
=============================================================================
