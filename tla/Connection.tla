----------------------------- MODULE Connection -----------------------------
(***************************************************************************)
(* A user's connection from the bridge of the web client to the worker of  *)
(* his ChatServer and back.                                                *)
(***************************************************************************)
EXTENDS CSession, Bridge

vars == <<wireVars, sessionVars, bridgeVars>>

Init ==
  /\ up = <<>> /\ down = <<>> /\ gone = {}
  /\ \E load \in Loads : SessionInit(load) /\ BridgeInit(load)

NetBreaks ==
  /\ sock \in {"dialing", "open"} /\ "net" \notin gone
  /\ gone' = gone \cup {"net"}
  /\ UNCHANGED <<up, down, sessionVars, bridgeVars>>

Next ==
  \/ SessionStep /\ sock # "none" /\ UNCHANGED bridgeVars
  \/ BridgeStep /\ UNCHANGED sessionVars
  \/ NetBreaks

Spec == Init /\ [][Next]_vars

Runs(A) == A /\ UNCHANGED bridgeVars
Reacts(A) == A /\ UNCHANGED sessionVars

(* The I/O thread, the worker and the accepting thread run, and Node calls *)
(* the handlers of socket events.  The browser, the network, timers and    *)
(* notifications owe nothing.                                              *)
FairSpec ==
  /\ Spec
  /\ WF_vars(Runs(sock # "none" /\ (Start \/ Insert)))
  /\ WF_vars(Runs(\/ ReadStep \/ ReadFails \/ WriteDone \/ WriteError
                  \/ ClearLookup \/ ClearUser \/ ClearErase))
  /\ WF_vars(Runs(WriteTaken \/ WriteFails))
  /\ WF_vars(Runs(WorkerStep))
  /\ WF_vars(Reacts(\/ Connected \/ Packet \/ Refuse
                    \/ \E n \in 1 .. Len(down) : Data(n)
                    \/ CloseEvent \/ SocketEnds))

-----------------------------------------------------------------------------
TypeOK ==
  /\ gone \subseteq {"bridge", "server", "net"}
  /\ \A f \in ToSet(posted) \cup ToSet(handled) :
       f.type = "req" /\ f.of \in Request
  /\ \A f \in ToSet(accepted) \cup ToSet(packets) :
       \/ f.type = "rsp" /\ f.of \in Request
       \/ f.type = "note" /\ f.of \in Note
  /\ accept \in {"none", "started", "done"} /\ listed \in BOOLEAN
  /\ reading \in {"no", "head", "body"} /\ Len(data) < HeadLen + MaxPacket
  /\ Len(sendQue) <= MaxSendQue + 1
  /\ writing \in {"no", "begun", "taken", "failed"}
  /\ clear \in {"no", "lookup", "user", "erase"}
  /\ worker \in {"idle", "bind", "register", "respond"}
  /\ status \in {"connecting", "connected", "closed"}
  /\ sock \in {"none", "dialing", "open", "destroyed", "ended"}
  /\ waiter \in [Request -> {"idle", "waiting", "answered", "failed"}]

(* The worker gets the frames the bridge has written, whole and in order,  *)
(* however TCP cuts them (AsyncReadHead, AsyncReadBody, asyncReadLen).     *)
PostedInOrder ==
  IsPrefix(handled \o posted, [i \in DOMAIN written |-> Req(written[i])])

(* The bridge emits the frames that Send has queued, whole and in order    *)
(* (Send, HandleWrite, handleData).                                        *)
PacketsInOrder == IsPrefix(packets, accepted)

ReplyDropped(q) == \E f \in dropped : f.type = "rsp" /\ f.of = q

(* A request is answered by its own reply, or by one that was open under   *)
(* the same message id when it was sent: if nothing was open, by its own,  *)
(* and by that of a later request only if Send has dropped its own         *)
(* (waitForPacket, and the order of one session's requests in LogicSystem).*)
ReplyInWindow ==
  \A q \in Request :
    answer[q] # None => answer[q].of \in {q} \cup open[q] \/ ReplyDropped(q)

Talk == INSTANCE Conversation
  WITH asked <- written, taken <- Len(handled), owed <- worker # "idle",
       said <- accepted, heard <- packets

(* Every step of the two ends is one of the conversation or none: requests *)
(* are taken one by one in the order of the browser, a reply is to the     *)
(* last one taken, and the bridge hears the next frame said, although      *)
(* frames are cut, queued and dropped, notices come between, and either    *)
(* end may close (CSession, LogicSystem, server.js).                       *)
ConversationSpec == Talk!Spec

(* The server has nothing more to do for a session it has closed.          *)
Finished ==
  /\ Closed /\ accept = "done"
  /\ reading = "no" /\ writing = "no" /\ clear = "no"
  /\ worker = "idle" /\ posted = <<>>

(* What remains of a closed session: an entry in _sessions only if it was  *)
(* closed before HandleAccept inserted it; one in UserMgr only then, or if *)
(* its login was handled when it had been closed (ClearSession).           *)
NothingLeft ==
  Finished => /\ listed => overtaken
              /\ registered => overtaken \/ late

(* A frame that Send has queued reaches the kernel, or the session closes: *)
(* every write is followed by the next (Send, HandleWrite).                *)
QueueDrains == sendQue # <<>> ~> sendQue = <<>> \/ Closed

(* Without its timer a request ends as well: a reply arrives, or the end   *)
(* of the connection is noticed, unless Send has dropped the reply.        *)
RequestEnds ==
  \A q \in Request :
    waiter[q] = "waiting" ~> waiter[q] # "waiting" \/ ReplyDropped(q)

(* When the bridge has gone, the server ends the session.                  *)
SessionEnds == accept # "none" /\ "bridge" \in gone ~> Finished

-----------------------------------------------------------------------------
(* Where an offline message may be.                                        *)
Msgs(frames) == UNION {ToSet(f.msgs) : f \in frames}
Emitted == Msgs(ToSet(packets))
InFlight ==
  IF sock = "open" THEN {u[1] : u \in ToSet(buffer) \cup ToSet(down)} ELSE {}
OnItsWay == Msgs(InFlight \cup ToSet(sendQue)) \cup ToSet(cur)

(* docs/project-documentation.md, section 2: messages for a user who is    *)
(* not reachable are written to a Redis list and fetched at his next       *)
(* login.  Unless he leaves or the network fails, he gets them.            *)
OfflineFetched ==
  ended # "user" /\ "net" \notin gone =>
    drained \subseteq Emitted \cup OnItsWay
=============================================================================
