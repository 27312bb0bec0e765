---------------------------- MODULE MessageStore ----------------------------
(***************************************************************************)
(* What the persistence of chat messages promises to the handlers: records *)
(* wait in a buffer and leave it in the order they came, some at a time.   *)
(* Those that leave together are stored together, one row per key, or lost *)
(* together.  MsgPersist implements it.                                    *)
(***************************************************************************)
EXTENDS Integers, SequencesExt

CONSTANTS Record, KeyOf

VARIABLES buffer, table

(* The records of the sequence p that a table t with a unique key takes:   *)
(* of each key that t lacks, the first.                                    *)
Fresh(t, p) ==
  {p[i] : i \in {j \in DOMAIN p :
      /\ \A r \in t : KeyOf[r] # KeyOf[p[j]]
      /\ \A k \in 1 .. (j - 1) : KeyOf[p[k]] # KeyOf[p[j]]}}

First(n) == SubSeq(buffer, 1, n)
Without(n) == SubSeq(buffer, n + 1, Len(buffer))

Init == buffer = <<>> /\ table = {}

Accept ==
  /\ buffer' \in Seq(Record)
  /\ IsStrictPrefix(buffer, buffer')
  /\ UNCHANGED table

Save ==
  \E n \in 1 .. Len(buffer) :
    /\ table' = table \cup Fresh(table, First(n))
    /\ buffer' = Without(n)

Lose ==
  \E n \in 1 .. Len(buffer) :
    /\ buffer' = Without(n)
    /\ UNCHANGED table

Next == Accept \/ Save \/ Lose

Spec == Init /\ [][Next]_<<buffer, table>>
=============================================================================
