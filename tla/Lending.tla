------------------------------ MODULE Lending -------------------------------
(***************************************************************************)
(* What a pool of connections promises to its callers, the mutex, the      *)
(* condition variable and the faults of MySQL left out: a connection is    *)
(* idle, lent to one caller, or probed, and it changes hands in the pool   *)
(* only.  DbPool implements it.                                            *)
(***************************************************************************)

CONSTANTS
  Conn, Caller,
  Nests,  \* callers that may have two connections
  Leaks   \* callers that may destroy one

VARIABLES
  idle,   \* the connections to be lent
  lent,   \* those each caller has
  probed  \* the one the checking thread has

vars == <<idle, lent, probed>>

Init ==
  /\ idle \subseteq Conn /\ probed = {}
  /\ lent = [c \in Caller |-> {}]

(* A connection that is nowhere is opened.                                 *)
Open(k) ==
  /\ k \notin idle \cup probed /\ \A c \in Caller : k \notin lent[c]
  /\ idle' = idle \cup {k}
  /\ UNCHANGED <<lent, probed>>

(* A caller gets an idle connection: its only one, or its second.          *)
Lend(k, c) ==
  /\ k \in idle
  /\ lent[c] = {} \/ (c \in Nests /\ \E j \in Conn : lent[c] = {j})
  /\ idle' = idle \ {k}
  /\ lent' = [lent EXCEPT ![c] = @ \cup {k}]
  /\ UNCHANGED probed

GiveBack(k, c) ==
  /\ k \in lent[c]
  /\ idle' = idle \cup {k}
  /\ lent' = [lent EXCEPT ![c] = @ \ {k}]
  /\ UNCHANGED probed

Destroy(k, c) ==
  /\ c \in Leaks /\ k \in lent[c]
  /\ lent' = [lent EXCEPT ![c] = @ \ {k}]
  /\ UNCHANGED <<idle, probed>>

Probe(k) ==
  /\ probed = {} /\ k \in idle
  /\ idle' = idle \ {k} /\ probed' = {k}
  /\ UNCHANGED lent

(* It is idle again, or closed.                                            *)
EndProbe ==
  /\ probed # {} /\ probed' = {}
  /\ idle' = idle \cup probed \/ idle' = idle
  /\ UNCHANGED lent

Next ==
  \/ \E k \in Conn : Open(k) \/ Probe(k)
  \/ \E k \in Conn, c \in Caller : Lend(k, c) \/ GiveBack(k, c) \/ Destroy(k, c)
  \/ EndProbe

Spec == Init /\ [][Next]_vars

-----------------------------------------------------------------------------
(* Nobody uses a connection that another uses or that is idle.             *)
Exclusive ==
  /\ idle \cap probed = {}
  /\ \A c \in Caller :
       /\ lent[c] \cap (idle \cup probed) = {}
       /\ \A d \in Caller \ {c} : lent[c] \cap lent[d] = {}
=============================================================================
