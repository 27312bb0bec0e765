---------------------------- MODULE MCConnection ----------------------------
(* Instances of Connection: a login, two requests of one kind that overlap,*)
(* a request among notifications, a login with two offline messages.       *)
EXTENDS Connection

CONSTANTS login, q1, q2, m1, m2, n1, n2

MCKind == [q \in Request |-> IF q = login THEN "login" ELSE "text"]
MCLoads ==
  {Load({q1, q2}, {}, <<>>), Load({q1}, {n1}, <<>>),
   Load({}, {n1, n2}, <<m1, m2>>)}
MCLongList == {Load({}, {}, <<m1, m2>>)}
=============================================================================
