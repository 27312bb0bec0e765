------------------------------ MODULE MCDbPool ------------------------------
(* Instances of DbPool: connections are numbers; n1 and n2 ask for friend  *)
(* lists, once each, l1 makes two other calls.                             *)
EXTENDS DbPool

CONSTANTS n1, n2, l1

MCMaxCalls == [c \in Caller |-> IF c = l1 THEN 2 ELSE 1]
=============================================================================
