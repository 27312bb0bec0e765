------------------------------- MODULE Bridge -------------------------------
(***************************************************************************)
(* The web client's end of a connection: class ChatSession and handleApi   *)
(* of WeChatClient/server.js.  Node runs one callback at a time; an action *)
(* is a callback, or one round of the loop in handleData, during which     *)
(* nothing else runs (Parsing).                                            *)
(***************************************************************************)
EXTENDS Wire

CONSTANT None  \* no answer

VARIABLES
  status,   \* of the ChatSession: "connecting", "connected", "closed"
  sock,     \* its socket: "none", "dialing", "open", "destroyed", "ended"
  inMap,    \* it is in the map sessions
  buffer,   \* units received and not parsed
  asks,     \* requests the browser has still to make
  waiter,   \* of a request: "idle", "waiting", "answered", "failed"
  answer,   \* the packet that has answered it
  written,  \* requests in the order they were written
  open,     \* of a request: those of its kind that were open when it was sent
  packets,  \* frames in the order they were emitted
  ended     \* who has ended it: "", "user", "server", "length"

waitVars == <<waiter, answer, written, open>>
sockVars == <<status, sock, inMap, ended>>
bridgeVars == <<sockVars, buffer, asks, waitVars, packets>>

BridgeInit(load) ==
  /\ status = "connecting" /\ sock = "none" /\ inMap = FALSE
  /\ buffer = <<>> /\ asks = load.asks
  /\ waiter = [q \in Request |-> "idle"] /\ answer = [q \in Request |-> None]
  /\ written = <<>> /\ open = [q \in Request |-> {}]
  /\ packets = <<>> /\ ended = ""

-----------------------------------------------------------------------------
(* The frame at the front of the buffer is complete, or too long.          *)
TooLong == Len(buffer) >= HeadLen /\ LengthIn(buffer) > MaxPacket
Complete == Len(buffer) >= HeadLen /\ Len(buffer) >= HeadLen + LengthIn(buffer)
Parsing == sock = "open" /\ (TooLong \/ Complete)

(* Requests whose reply has not been emitted.                              *)
Unanswered(q) ==
  {r \in ToSet(written) :
     /\ Kind[r] = Kind[q]
     /\ \A p \in ToSet(packets) : ~(p.type = "rsp" /\ p.of = r)}

(* waitForPacket, then sendJson: the socket takes any number of packets.   *)
Write(q) ==
  /\ waiter' = [waiter EXCEPT ![q] = "waiting"]
  /\ written' = Append(written, q)
  /\ open' = [open EXCEPT ![q] = Unanswered(q)]
  /\ up' = up \o Units(Req(q))

(* Mutant: nobody listens to the status events.                            *)
WaitersKept == waiter' = waiter

(* An event of the socket ends every wait.                                 *)
WaitersFail ==
  waiter' = [q \in Request |->
              IF waiter[q] = "waiting" THEN "failed" ELSE waiter[q]]

-----------------------------------------------------------------------------
(* POST /api/chat/connect.                                                 *)
Connect ==
  /\ sock = "none"
  /\ sock' = "dialing" /\ inMap' = TRUE
  /\ UNCHANGED <<wireVars, waitVars, status, buffer, asks, packets, ended>>

(* The login is sent in the turn in which the connection is made.          *)
Connected ==
  /\ sock = "dialing" /\ "net" \notin gone
  /\ sock' = "open" /\ status' = "connected"
  /\ Write(Login)
  /\ UNCHANGED <<down, gone, inMap, asks, buffer, answer, packets, ended>>

(* An error, or 7 s have passed.  The session stays in the map.            *)
ConnectFails ==
  /\ sock = "dialing"
  /\ sock' = "ended" /\ status' = "closed"
  /\ gone' = gone \cup {"bridge"} /\ ended' = "server"
  /\ waiter' = [waiter EXCEPT ![Login] = "failed"]
  /\ UNCHANGED <<up, down, inMap, asks, buffer, answer, written, open,
                 packets>>

(* POST /api/chat/request.  The browser has the session's id from the      *)
(* answer to its login.                                                    *)
SendRequest(q) ==
  /\ ~Parsing /\ q \in asks /\ waiter[Login] = "answered"
  /\ asks' = asks \ {q}
  /\ IF inMap /\ status = "connected"
     THEN Write(q)
     ELSE /\ waiter' = [waiter EXCEPT ![q] = "failed"]
          /\ UNCHANGED <<up, written, open>>
  /\ UNCHANGED <<sockVars, down, gone, buffer, answer, packets>>

(* Data arrives in pieces of any size.                                     *)
Data(n) ==
  /\ ~Parsing /\ sock = "open" /\ n <= Len(down)
  /\ buffer' = buffer \o SubSeq(down, 1, n)
  /\ down' = SubSeq(down, n + 1, Len(down))
  /\ UNCHANGED <<waitVars, sockVars, up, gone, asks, packets>>

(* Mutant: the buffer is emptied when a packet has been found.             *)
RestDropped == <<>>

Rest == SubSeq(buffer, HeadLen + LengthIn(buffer) + 1, Len(buffer))

(* onPacket: the message id is the one the request waits for.              *)
Answers(f, q) ==
  waiter[q] = "waiting" /\ f.type = "rsp" /\ Kind[f.of] = Kind[q]

(* One round of handleData.                                                *)
Packet ==
  /\ Parsing /\ ~TooLong
  /\ LET f == Decode(SubSeq(buffer, 1, HeadLen + LengthIn(buffer)))
     IN  /\ packets' = Append(packets, f)
         /\ waiter' = [q \in Request |->
                         IF Answers(f, q) THEN "answered" ELSE waiter[q]]
         /\ answer' = [q \in Request |->
                         IF Answers(f, q) THEN f ELSE answer[q]]
  /\ buffer' = Rest
  /\ UNCHANGED <<wireVars, sockVars, asks, written, open>>

(* A packet longer than MAX_PACKET closes the session.                     *)
Refuse ==
  /\ Parsing /\ TooLong
  /\ WaitersFail
  /\ status' = "closed" /\ sock' = "destroyed"
  /\ gone' = gone \cup {"bridge"} /\ ended' = "length"
  /\ UNCHANGED <<up, down, inMap, asks, buffer, answer, written, open,
                 packets>>

(* The timer of a waiter.  The request has been sent all the same.         *)
Timeout(q) ==
  /\ ~Parsing /\ waiter[q] = "waiting"
  /\ waiter' = [waiter EXCEPT ![q] = "failed"]
  /\ UNCHANGED <<wireVars, sockVars, asks, buffer, answer, written, open,
                 packets>>

(* POST /api/chat/disconnect.                                              *)
Disconnect ==
  /\ ~Parsing /\ inMap /\ waiter[Login] = "answered"
  /\ inMap' = FALSE /\ status' = "closed"
  /\ IF sock = "open"
     THEN /\ sock' = "destroyed" /\ ended' = "user"
          /\ gone' = gone \cup {"bridge"}
     ELSE UNCHANGED <<sock, gone, ended>>
  /\ UNCHANGED <<waitVars, up, down, buffer, asks, packets>>

(* The 'close' event after close().                                        *)
CloseEvent ==
  /\ sock = "destroyed"
  /\ sock' = "ended"
  /\ WaitersFail
  /\ UNCHANGED <<wireVars, status, inMap, asks, buffer, answer, written, open,
                 packets, ended>>

(* The connection has ended: 'error' or 'end', and 'close'.  What was in   *)
(* flight may be lost.                                                     *)
SocketEnds ==
  /\ ~Parsing /\ sock = "open" /\ Dead
  /\ sock' = "ended" /\ status' = "closed"
  /\ gone' = gone \cup {"bridge"} /\ ended' = "server"
  /\ WaitersFail
  /\ UNCHANGED <<up, down, inMap, asks, buffer, answer, written, open,
                 packets>>

-----------------------------------------------------------------------------
BridgeStep ==
  \/ Connect \/ Connected \/ ConnectFails
  \/ \E q \in Request : SendRequest(q) \/ Timeout(q)
  \/ \E n \in 1 .. Len(down) : Data(n)
  \/ Packet \/ Refuse \/ Disconnect \/ CloseEvent \/ SocketEnds
=============================================================================
