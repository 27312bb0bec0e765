------------------------------ MODULE CSession ------------------------------
(***************************************************************************)
(* The server's end of a connection: CServer accepts it, CSession reads    *)
(* frames and writes those that Send has queued, a logic worker answers    *)
(* the frames in order, and CServer::ClearSession forgets the session.     *)
(*                                                                         *)
(* The completion handlers of a session and the ClearSession they call run *)
(* on one I/O thread, so nothing else of it runs while clear # "no".  The  *)
(* accepting thread, the worker and the threads that notify the user run   *)
(* beside it.                                                              *)
(***************************************************************************)
EXTENDS Wire

CONSTANTS
  MaxSendQue,  \* MAX_SENDQUE
  DrainLimit   \* offline messages a login takes

ASSUME SessionAssumption ==
  MaxSendQue \in Nat /\ DrainLimit \in Nat

VARIABLES
  accept,      \* HandleAccept: "none", "started" (reading), "done" (inserted)
  listed,      \* the session is in _sessions
  reading,     \* the read in progress: "head", "body" or "no"
  data,        \* _data: the units read so far
  head,        \* _recv_head_node
  sendQue,     \* _send_que
  writing,     \* the write of its front: "no", "begun", "taken", "failed"
  clear,       \* where ClearSession is: "no", "lookup", "user", "erase"
  posted,      \* frames in the worker's queue
  worker,      \* "idle", or the step of LoginHandler to come
  cur,         \* the offline messages of the login in progress
  bound,       \* _user_uid is set
  registered,  \* the session is in UserMgr
  offline,     \* offline_msg_<uid>
  drained,     \* what logins have taken from it
  notes,       \* notifications still to come
  handled,     \* frames the worker has taken
  accepted,    \* frames Send has queued
  dropped,     \* frames Send has dropped
  overtaken,   \* the session was inserted after it had been closed
  late         \* it was bound or registered after it had been closed

ioVars == <<accept, listed, reading, data, head, clear, overtaken>>
sendVars == <<sendQue, writing, accepted, dropped>>
logicVars == <<worker, cur, bound, registered, offline, drained, notes,
               handled, late>>
sessionVars == <<ioVars, sendVars, logicVars, posted>>

Closed == "server" \in gone

SessionInit(load) ==
  /\ accept = "none" /\ listed = FALSE
  /\ reading = "no" /\ data = <<>> /\ head = <<>>
  /\ sendQue = <<>> /\ writing = "no"
  /\ clear = "no"
  /\ posted = <<>> /\ worker = "idle" /\ cur = <<>>
  /\ bound = FALSE /\ registered = FALSE
  /\ offline = load.list /\ drained = {} /\ notes = load.notes
  /\ handled = <<>> /\ accepted = <<>> /\ dropped = {}
  /\ overtaken = FALSE /\ late = FALSE

-----------------------------------------------------------------------------
(* Accepting.  The first read is started before the session is inserted.   *)

Start ==
  /\ accept = "none" /\ "net" \notin gone
  /\ accept' = "started" /\ reading' = "head"
  /\ UNCHANGED <<wireVars, sendVars, logicVars, listed, data, head, clear,
                 overtaken, posted>>

Insert ==
  /\ accept = "started"
  /\ accept' = "done" /\ listed' = TRUE
  /\ overtaken' = Closed
  /\ UNCHANGED <<wireVars, sendVars, logicVars, reading, data, head, clear,
                 posted>>

-----------------------------------------------------------------------------
(* Reading.                                                                *)

Wanted == IF reading = "head" THEN HeadLen ELSE LengthIn(head)

(* Mutant: the next piece is read to the start of the buffer.              *)
ReadOver(n) == SubSeq(up, 1, n)

(* A piece is read behind the pieces read before.                          *)
ReadOn(n) == data \o SubSeq(up, 1, n)

(* async_read_some gives n units; its handler runs on the I/O thread.      *)
ReadSome(n) ==
  /\ reading # "no" /\ clear = "no" /\ ~Closed
  /\ n \in 1 .. Wanted - Len(data) /\ n <= Len(up)
  /\ up' = SubSeq(up, n + 1, Len(up))
  /\ UNCHANGED <<sendVars, logicVars, down, gone, accept, listed, clear,
                 overtaken>>

(* asyncReadLen reads on.                                                  *)
ReadPart(n) ==
  /\ ReadSome(n) /\ Len(data) + n < Wanted
  /\ data' = ReadOn(n)
  /\ UNCHANGED <<reading, head, posted>>

(* The handler of AsyncReadHead.                                           *)
ReadHead(n) ==
  /\ ReadSome(n) /\ Len(data) + n = Wanted /\ reading = "head"
  /\ head' = ReadOn(n) /\ data' = <<>>
  /\ reading' = "body"
  /\ UNCHANGED posted

(* The handler of AsyncReadBody posts the frame and reads the next header. *)
ReadBody(n) ==
  /\ ReadSome(n) /\ Len(data) + n = Wanted /\ reading = "body"
  /\ posted' = Append(posted, Decode(head \o ReadOn(n)))
  /\ data' = <<>> /\ reading' = "head"
  /\ UNCHANGED head

(* The header is never refused here: the bridge sends no body longer than  *)
(* MaxPacket.  Other clients may; that case is BadFrame in ChatDelivery.   *)

(* Mutant: the end of the stream is not taken for an error.                *)
BrokenOnly == gone \cap {"net", "server"} # {}

EndSeen == Dead

(* A read fails: Close, then ClearSession.                                 *)
ReadFails ==
  /\ reading # "no" /\ clear = "no" /\ EndSeen
  /\ reading' = "no" /\ gone' = gone \cup {"server"}
  /\ clear' = "lookup"
  /\ UNCHANGED <<sendVars, logicVars, up, down, accept, listed, data, head,
                 overtaken, posted>>

-----------------------------------------------------------------------------
(* Writing.                                                                *)

(* Mutant: a write is started by HandleWrite only.                         *)
WriteNever == writing

(* async_write if the queue was empty.                                     *)
WriteIfFirst == IF sendQue = <<>> THEN "begun" ELSE writing

(* Mutant: the limit is tested when the frame is queued.                   *)
FullLate == Len(sendQue) > MaxSendQue + 1

Full == Len(sendQue) > MaxSendQue

(* Send, in any thread.                                                    *)
Send(f) ==
  IF Full
  THEN /\ dropped' = dropped \cup {f}
       /\ UNCHANGED <<sendQue, writing, accepted>>
  ELSE /\ sendQue' = Append(sendQue, f)
       /\ writing' = WriteIfFirst
       /\ accepted' = Append(accepted, f)
       /\ UNCHANGED dropped

(* The kernel takes the frame.                                             *)
WriteTaken ==
  /\ writing = "begun" /\ ~Closed /\ Len(down) < WireCap
  /\ writing' = "taken"
  /\ down' = down \o Units(Head(sendQue))
  /\ UNCHANGED <<ioVars, logicVars, up, gone, sendQue, accepted, dropped,
                 posted>>

WriteFails ==
  /\ writing = "begun" /\ Dead
  /\ writing' = "failed"
  /\ UNCHANGED <<wireVars, ioVars, logicVars, sendQue, accepted, dropped,
                 posted>>

(* HandleWrite: the next frame is written.                                 *)
WriteDone ==
  /\ writing = "taken" /\ clear = "no"
  /\ sendQue' = Tail(sendQue)
  /\ writing' = IF Len(sendQue) > 1 THEN "begun" ELSE "no"
  /\ UNCHANGED <<wireVars, ioVars, logicVars, accepted, dropped, posted>>

(* HandleWrite with an error: Close, then ClearSession.  The frame stays   *)
(* at the front, and no later Send starts a write.                         *)
WriteError ==
  /\ writing = "failed" /\ clear = "no"
  /\ writing' = "no" /\ gone' = gone \cup {"server"}
  /\ clear' = "lookup"
  /\ UNCHANGED <<logicVars, up, down, accept, listed, reading, data, head,
                 overtaken, sendQue, accepted, dropped, posted>>

-----------------------------------------------------------------------------
(* ClearSession.                                                           *)

(* Mutant: the session is erased from the list before it is looked up.     *)
NobodyFound == FALSE

OwnerFound == listed /\ bound

ClearLookup ==
  /\ clear = "lookup"
  /\ clear' = IF OwnerFound THEN "user" ELSE "erase"
  /\ UNCHANGED <<wireVars, sendVars, logicVars, accept, listed, reading, data,
                 head, overtaken, posted>>

(* RmvUserSession.  What it does to the presence set is in ChatDelivery.   *)
ClearUser ==
  /\ clear = "user"
  /\ clear' = "erase" /\ registered' = FALSE
  /\ UNCHANGED <<wireVars, sendVars, accept, listed, reading, data, head,
                 overtaken, worker, cur, bound, offline, drained, notes,
                 handled, late, posted>>

ClearErase ==
  /\ clear = "erase"
  /\ clear' = "no" /\ listed' = FALSE
  /\ UNCHANGED <<wireVars, sendVars, logicVars, accept, reading, data, head,
                 overtaken, posted>>

-----------------------------------------------------------------------------
(* The worker of the session.                                              *)

(* Mutant: a worker for each request: frames are taken in any order.       *)
NextAny == 1 .. Len(posted)

NextPosted == {i \in 1 .. Len(posted) : i = 1}

Take(i) ==
  /\ posted' = RemoveAt(posted, i)
  /\ handled' = Append(handled, posted[i])

(* A handler that answers its request.                                     *)
HandleRequest ==
  /\ worker = "idle"
  /\ \E i \in NextPosted :
       /\ posted[i] \notin {Garbled, Req(Login)}
       /\ Take(i)
       /\ Send(Rsp(posted[i].of, <<>>))
  /\ UNCHANGED <<wireVars, ioVars, worker, cur, bound, registered, offline,
                 drained, notes, late>>

(* LoginHandler takes messages out of the offline list ...                 *)
LoginDrain ==
  /\ worker = "idle"
  /\ \E i \in NextPosted : posted[i] = Req(Login) /\ Take(i)
  /\ LET n == IF Len(offline) < DrainLimit THEN Len(offline) ELSE DrainLimit
     IN  /\ cur' = SubSeq(offline, 1, n)
         /\ offline' = SubSeq(offline, n + 1, Len(offline))
         /\ drained' = drained \cup ToSet(cur')
  /\ worker' = "bind"
  /\ UNCHANGED <<wireVars, ioVars, sendVars, bound, registered, notes, late>>

(* ... sets the uid of the session ...                                     *)
LoginBind ==
  /\ worker = "bind"
  /\ worker' = "register" /\ bound' = TRUE
  /\ late' = (late \/ Closed)
  /\ UNCHANGED <<wireVars, ioVars, sendVars, cur, registered, offline, drained,
                 notes, handled, posted>>

(* ... registers it, dead or alive ...                                     *)
LoginRegister ==
  /\ worker = "register"
  /\ worker' = "respond" /\ registered' = TRUE
  /\ late' = (late \/ Closed)
  /\ UNCHANGED <<wireVars, ioVars, sendVars, cur, bound, offline, drained,
                 notes, handled, posted>>

(* ... and responds.                                                       *)
LoginRespond ==
  /\ worker = "respond"
  /\ worker' = "idle" /\ cur' = <<>>
  /\ Send(Rsp(Login, cur))
  /\ UNCHANGED <<wireVars, ioVars, bound, registered, offline, drained, notes,
                 handled, late, posted>>

(* Another worker or a remote server notifies the user.                    *)
Notify(n) ==
  /\ n \in notes /\ registered
  /\ notes' = notes \ {n}
  /\ Send(Notice(n))
  /\ UNCHANGED <<wireVars, ioVars, worker, cur, bound, registered, offline,
                 drained, handled, late, posted>>

-----------------------------------------------------------------------------
ReadStep ==
  \E n \in 1 .. HeadLen + MaxPacket : ReadPart(n) \/ ReadHead(n) \/ ReadBody(n)

IOStep ==
  \/ ReadStep \/ ReadFails
  \/ WriteTaken \/ WriteFails \/ WriteDone \/ WriteError
  \/ ClearLookup \/ ClearUser \/ ClearErase

WorkerStep ==
  HandleRequest \/ LoginDrain \/ LoginBind \/ LoginRegister \/ LoginRespond

SessionStep ==
  \/ Start \/ Insert \/ IOStep \/ WorkerStep
  \/ \E n \in Note : Notify(n)
=============================================================================
