------------------------------ MODULE Delivery ------------------------------
(***************************************************************************)
(* What the delivery of messages promises to their senders and recipients, *)
(* servers, workers and the presence set left out.  The messages of one    *)
(* session are handled one after the other.  A message is handed to the    *)
(* sessions of its recipients, to each at most once, or saved for them; it *)
(* is both only if in doubt.  What is saved waits until a login fetches it *)
(* or it is lost with a server.  ChatDelivery implements it.               *)
(***************************************************************************)
EXTENDS Integers, Sequences

CONSTANTS
  Session, User, Msg, UserOf, From, To,
  Savable  \* messages that are saved for a recipient they do not reach

VARIABLES
  fate,      \* where the handling of a message stands
  handed,    \* per session, the messages handed to it
  stored,    \* <<message, recipient>> saved for later
  doubtful,  \* those of which nobody knows whether they were handed over
  fetched,   \* per session, what it fetched when it logged in
  dropped    \* <<message, recipient>> saved, then lost

vars == <<fate, handed, stored, doubtful, fetched, dropped>>

Init ==
  /\ fate = [m \in Msg |-> "unsent"]
  /\ handed = [s \in Session |-> <<>>] /\ fetched = [s \in Session |-> <<>>]
  /\ stored = {} /\ doubtful = {} /\ dropped = {}

In(m, q) == \E i \in DOMAIN q : q[i] = m

(* Messages of one session are in the order it sent them.                  *)
Ascending(q) ==
  \A i, j \in DOMAIN q : i < j /\ From[q[i]] = From[q[j]] => q[i] < q[j]

Reached(m, u) == \E s \in Session : UserOf[s] = u /\ In(m, handed[s])

Waiting(m, u) ==
  /\ <<m, u>> \in stored /\ <<m, u>> \notin dropped
  /\ \A s \in Session : UserOf[s] = u => ~In(m, fetched[s])

(* What the session of m has sent before m.                                *)
Before(m) == {k \in Msg : From[k] = From[m] /\ k < m}

SetFate(m, f) == fate' = [fate EXCEPT ![m] = f]

Send(m) ==
  /\ fate[m] = "unsent" /\ \A k \in Before(m) : fate[k] # "unsent"
  /\ SetFate(m, "queued")
  /\ UNCHANGED <<handed, stored, doubtful, fetched, dropped>>

(* m's turn comes when all before it are dealt with.                       *)
Take(m) ==
  /\ fate[m] = "queued"
  /\ \A k \in Before(m) : fate[k] \in {"done", "refused", "lost"}
  /\ \E f \in {"handling", "refused"} : SetFate(m, f)
  /\ UNCHANGED <<handed, stored, doubtful, fetched, dropped>>

Hand(m, u) ==
  /\ fate[m] = "handling" /\ u \in To[m] /\ <<m, u>> \notin stored
  /\ \E S \in SUBSET {s \in Session : UserOf[s] = u /\ ~In(m, handed[s])} :
       handed' = [s \in Session |-> IF s \in S THEN Append(handed[s], m) ELSE handed[s]]
  /\ doubtful' = doubtful \/ doubtful' = doubtful \cup {<<m, u>>}
  /\ UNCHANGED <<fate, stored, fetched, dropped>>

Save(m, u) ==
  /\ fate[m] = "handling" /\ u \in To[m] /\ m \in Savable
  /\ <<m, u>> \notin stored
  /\ Reached(m, u) => <<m, u>> \in doubtful
  /\ stored' = stored \cup {<<m, u>>}
  /\ UNCHANGED <<fate, handed, doubtful, fetched, dropped>>

Finish(m) ==
  /\ fate[m] = "handling"
  /\ m \in Savable => \A u \in To[m] : <<m, u>> \in stored \/ Reached(m, u)
  /\ SetFate(m, "done")
  /\ UNCHANGED <<handed, stored, doubtful, fetched, dropped>>

(* s fetches some of what waits for its user, in the order of the senders. *)
Fetch(s) ==
  /\ fetched[s] = <<>> /\ fetched'[s] \in Seq(Msg)
  /\ \A i \in DOMAIN fetched'[s] : Waiting(fetched'[s][i], UserOf[s])
  /\ Ascending(fetched'[s])
  /\ fetched' = [fetched EXCEPT ![s] = fetched'[s]]
  /\ UNCHANGED <<fate, handed, stored, doubtful, dropped>>

(* The server of the sessions S is lost, with what they have under way and *)
(* what their logins are fetching.                                         *)
Lose(S) ==
  /\ fate' = [m \in Msg |-> IF From[m] \in S /\ fate[m] \in {"queued", "handling"}
                            THEN "lost" ELSE fate[m]]
  /\ dropped \subseteq dropped'
  /\ \A m \in Msg, u \in User : <<m, u>> \in dropped' \ dropped =>
       Waiting(m, u) /\ \E s \in S : UserOf[s] = u
  /\ dropped' \subseteq Msg \X User
  /\ UNCHANGED <<handed, stored, doubtful, fetched>>

Next ==
  \/ \E m \in Msg : Send(m) \/ Take(m) \/ Finish(m)
  \/ \E m \in Msg, u \in User : Hand(m, u) \/ Save(m, u)
  \/ \E s \in Session : Fetch(s)
  \/ \E S \in SUBSET Session : Lose(S)

Spec == Init /\ [][Next]_vars

-----------------------------------------------------------------------------
(* What follows for the clients.                                           *)

(* A session is handed what is for its user, at most once, and in the      *)
(* order of the senders.                                                   *)
HandedOnce ==
  \A s \in Session :
    /\ Ascending(handed[s])
    /\ \A i, j \in DOMAIN handed[s] : handed[s][i] = handed[s][j] => i = j
    /\ \A i \in DOMAIN handed[s] : UserOf[s] \in To[handed[s][i]]

(* What a login fetches was saved for its user, is not lost, and no other  *)
(* login of his fetches it again.                                          *)
FetchedOnce ==
  \A s \in Session : \A i \in DOMAIN fetched[s] :
    LET m == fetched[s][i] IN
    /\ <<m, UserOf[s]>> \in stored \ dropped
    /\ \A j \in DOMAIN fetched[s] : fetched[s][j] = m => j = i
    /\ \A t \in Session : UserOf[t] = UserOf[s] /\ In(m, fetched[t]) => t = s
=============================================================================
