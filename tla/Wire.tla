-------------------------------- MODULE Wire --------------------------------
(***************************************************************************)
(* One TCP connection between the bridge of the web client and a           *)
(* ChatServer, and the frames that travel on it: a header with the         *)
(* message id and the length of the body, then the body.  TCP keeps order  *)
(* and loses nothing until the connection ends, but a reader gets the      *)
(* bytes in pieces of any size.  A unit stands for some bytes.             *)
(***************************************************************************)
EXTENDS Naturals, FiniteSets, SequencesExt

CONSTANTS
  Request,    \* requests of the browser
  Login,      \* the first of them
  Kind,       \* the message id of a request
  Note,       \* notifications for the user
  Message,    \* messages for a user who is offline
  HeadLen,    \* HEAD_TOTAL_LEN, in units
  MaxPacket,  \* MAX_PACKET and MAX_LENGTH, in units
  Loads,      \* bound: the loads a run chooses from, see Load
  WireCap     \* units in flight beyond which a write has to wait

ASSUME WireAssumption ==
  /\ Login \in Request
  /\ \A q \in Request \ {Login} : Kind[q] # Kind[Login]
  /\ Loads \subseteq [asks : SUBSET (Request \ {Login}), notes : SUBSET Note,
                      list : Seq(Message)]
  /\ HeadLen \in Nat \ {0} /\ MaxPacket \in Nat \ {0} /\ WireCap \in Nat \ {0}

(* A load: what the browser asks after its login, the notifications that   *)
(* come, and the offline list.                                             *)
Load(asks, notes, list) == [asks |-> asks, notes |-> notes, list |-> list]

VARIABLES
  up, down,  \* units in flight to the server and to the bridge
  gone       \* who has ended the connection: "bridge", "server", "net"

wireVars == <<up, down, gone>>

(* A login response carries the offline messages popped for it.            *)
Req(q) == [type |-> "req", of |-> q, msgs |-> <<>>]
Rsp(q, msgs) == [type |-> "rsp", of |-> q, msgs |-> msgs]
Notice(n) == [type |-> "note", of |-> n, msgs |-> <<>>]

(* What a reader out of step would take for a frame.                       *)
Garbled == [type |-> "garbage", of |-> Login, msgs |-> <<>>]

(* Every offline message takes a unit of the body.                         *)
BodyLen(f) == 1 + Len(f.msgs)

Units(f) == [i \in 1 .. HeadLen + BodyLen(f) |-> <<f, i>>]

(* The length a header announces.                                          *)
LengthIn(head) == BodyLen(Head(head)[1])

(* What a reader makes of the units of a header and a body.                *)
Decode(units) ==
  IF units = Units(Head(units)[1]) THEN Head(units)[1] ELSE Garbled

Dead == gone # {}
=============================================================================
