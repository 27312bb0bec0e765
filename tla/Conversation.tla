---------------------------- MODULE Conversation ----------------------------
(***************************************************************************)
(* What a connection promises to the browser, TCP, frames, queues and the  *)
(* ends of the connection left out: requests are taken one by one in the   *)
(* order they were asked, a reply is to the request taken last, and what   *)
(* is said is heard in order.  A reply may be missing, and the             *)
(* conversation may stop at any point.  Connection implements it.          *)
(***************************************************************************)
EXTENDS Naturals, Sequences

CONSTANTS Request, Note

VARIABLES
  asked,  \* the requests, in order
  taken,  \* how many of them the server has taken
  owed,   \* the server has yet to reply to the last it has taken
  said,   \* the replies and notices it has sent
  heard   \* those that have arrived

vars == <<asked, taken, owed, said, heard>>

Init ==
  /\ asked = <<>> /\ taken = 0 /\ owed = FALSE
  /\ said = <<>> /\ heard = <<>>

Ask(q) ==
  /\ \A i \in DOMAIN asked : asked[i] # q
  /\ asked' = Append(asked, q)
  /\ UNCHANGED <<taken, owed, said, heard>>

(* One more is said.                                                       *)
Says(type, of) ==
  /\ Len(said') = Len(said) + 1
  /\ LET f == said'[Len(said) + 1] IN
     said' = Append(said, f) /\ f.type = type /\ f.of = of

(* Or the reply is dropped.                                                *)
Replies(q) == Says("rsp", q) \/ said' = said

TakeNext ==
  /\ ~owed /\ taken < Len(asked)
  /\ taken' = taken + 1
  /\ \/ Replies(asked[taken + 1]) /\ owed' = FALSE
     \/ said' = said /\ owed' = TRUE
  /\ UNCHANGED <<asked, heard>>

Reply ==
  /\ owed /\ owed' = FALSE
  /\ Replies(asked[taken])
  /\ UNCHANGED <<asked, taken, heard>>

Tell(n) ==
  /\ Says("note", n)
  /\ UNCHANGED <<asked, taken, owed, heard>>

Hear ==
  /\ Len(heard) < Len(said)
  /\ heard' = Append(heard, said[Len(heard) + 1])
  /\ UNCHANGED <<asked, taken, owed, said>>

Next ==
  \/ \E q \in Request : Ask(q)
  \/ TakeNext \/ Reply \/ Hear
  \/ \E n \in Note : Tell(n)

Spec == Init /\ [][Next]_vars

-----------------------------------------------------------------------------
(* Replies come in the order of the requests, to each at most one, and     *)
(* none before the request has been taken.                                 *)
RepliesInTurn ==
  /\ \A i \in DOMAIN said : said[i].type = "rsp" =>
       \E k \in 1 .. taken : asked[k] = said[i].of
  /\ \A i, j \in DOMAIN said :
       i < j /\ said[i].type = "rsp" /\ said[j].type = "rsp" =>
         \E k, l \in 1 .. taken :
           k < l /\ asked[k] = said[i].of /\ asked[l] = said[j].of
=============================================================================
