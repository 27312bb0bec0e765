----------------------------- MODULE Directory ------------------------------
(***************************************************************************)
(* What the handlers of accounts promise, whatever forms, codes and        *)
(* transactions do: who registers or sets a password has been mailed a     *)
(* code at the address of the account.  Account implements it.             *)
(***************************************************************************)
EXTENDS Integers

CONSTANTS Name, Email, Uid, Unique

VARIABLES
  mailed,  \* the addresses whose reader has been mailed a code
  users    \* the accounts

vars == <<mailed, users>>

(* At most one account, of the reader of its mailbox.                      *)
Init ==
  /\ mailed = {}
  /\ users \subseteq [uid : Uid, name : Name, email : Email, pwd : Email]
  /\ \A u, v \in users : u = v /\ u.pwd = u.email

Mail(e) ==
  /\ mailed' = mailed \cup {e}
  /\ UNCHANGED users

(* The reader of e gets an account of his own, with a uid above all others.*)
Register(n, e) ==
  /\ e \in mailed
  /\ Unique => \A u \in users : u.name # n /\ u.email # e
  /\ \E i \in Uid :
       /\ \A u \in users : u.uid < i
       /\ users' = users \cup {[uid |-> i, name |-> n, email |-> e, pwd |-> e]}
  /\ UNCHANGED mailed

(* The reader of e, who has an account named n, sets the password of those *)
(* with this name: of his alone only if names are unique.                  *)
Reset(n, e) ==
  /\ e \in mailed
  /\ \E u \in users : u.name = n /\ u.email = e
  /\ users' = {IF u.name = n THEN [u EXCEPT !.pwd = e] ELSE u : u \in users}
  /\ UNCHANGED mailed

Next ==
  \/ \E e \in Email : Mail(e)
  \/ \E n \in Name, e \in Email : Register(n, e) \/ Reset(n, e)

Spec == Init /\ [][Next]_vars

-----------------------------------------------------------------------------
(* No account vanishes or changes its uid, name or address; a new password *)
(* is of someone with an account of that name who was mailed a code; a new *)
(* account is his who was, and its uid is above all others.                *)
AccountsStay ==
  /\ \A u \in users : \E v \in users' :
       /\ <<v.uid, v.name, v.email>> = <<u.uid, u.name, u.email>>
       /\ \/ v.pwd = u.pwd
          \/ /\ v.pwd \in mailed
             /\ \E w \in users : w.name = u.name /\ w.email = v.pwd
  /\ \A v \in users' :
       \/ \E u \in users : <<v.uid, v.name, v.email>> = <<u.uid, u.name, u.email>>
       \/ v.email \in mailed /\ v.pwd = v.email /\ \A u \in users : u.uid < v.uid
=============================================================================
