--------------------------- MODULE MCChatDelivery ---------------------------
(* Instances of ChatDelivery: user a sends, user b logs in on one or two   *)
(* sessions, user c never comes online.  A .cfg chooses which workers are  *)
(* on server B and which sessions share the worker wx.                     *)
EXTENDS ChatDelivery, TLC

CONSTANTS A, B, wa, wx, wy, sa, sx, sy, a, b, c,
          OnB,     \* workers of server B; the others are of A
          Sharing  \* sessions served by wx although they are not sx

MCServerOf == [w \in Worker |-> IF w \in OnB THEN B ELSE A]
MCWorkerOf ==
  [s \in Session |-> IF s = sa THEN wa ELSE IF s = sx \/ s \in Sharing THEN wx ELSE wy]
MCUserOf == [s \in Session |-> IF s = sa THEN a ELSE b]
MCFrom == [m \in Msg |-> sa]

(* Two text messages to b. *)
TextTo == [m \in Msg |-> {b}]
TextKind == [m \in Msg |-> "text"]

(* The notification of a new group, then a message to its members. *)
GroupTo == [m \in Msg |-> IF m = 1 THEN {b} ELSE {b, c}]
GroupKind == [m \in Msg |-> IF m = 1 THEN "event" ELSE "group"]
=============================================================================
