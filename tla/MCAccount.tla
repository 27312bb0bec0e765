----------------------------- MODULE MCAccount ------------------------------
(* Instances of Account: two browsers of one user who has an account, and  *)
(* the browsers of two users who may register.                             *)
EXTENDS Account

CONSTANTS c1, c2, n1, n2, e1, e2

MCSettings ==
  {[owner |-> [c \in Client |-> e1],
    rows |-> {[uid |-> 1, name |-> n1, email |-> e1, pwd |-> e1]}],
   [owner |-> [c \in Client |-> IF c = c1 THEN e1 ELSE e2], rows |-> {}]}
=============================================================================
