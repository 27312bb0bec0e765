---------------------------- MODULE MCMsgPersist ----------------------------
(* An instance of MsgPersist: record 4 is record 1 sent again, through the *)
(* other worker; one call is empty.                                        *)
EXTENDS MsgPersist

CONSTANTS p1, p2, c1

MCKeyOf == [r \in Record |-> IF r = 4 THEN 1 ELSE r]

MCCalls == [p \in Pusher |-> IF p = p1 THEN <<<<1, 2>>, <<>>, <<3>>>>
                                       ELSE <<<<4>>, <<5, 6>>>>]
=============================================================================
