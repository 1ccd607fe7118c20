------------------------------ MODULE Transfer ------------------------------
(***************************************************************************)
(* What a state transfer between two network functions promises, whatever  *)
(* the protocol that carries it: chunks leave the source while the get is  *)
(* in progress, a chunk can arrive only after it left, and the transfer is *)
(* reported complete only once the get has ended and everything that left  *)
(* has arrived.                                                            *)
(***************************************************************************)
CONSTANT Chunks     \* the state chunks of the source

VARIABLES
  left,             \* chunks the source has exported
  closed,           \* whether the source has ended the export
  arrived,          \* chunks the destination has imported
  reported          \* whether the completion has been reported

vars == <<left, closed, arrived, reported>>

TypeOK ==
  /\ left \subseteq Chunks
  /\ arrived \subseteq Chunks
  /\ closed \in BOOLEAN
  /\ reported \in BOOLEAN

Init ==
  /\ left = {}
  /\ closed = FALSE
  /\ arrived = {}
  /\ reported = FALSE

Leave(c) ==
  /\ ~closed
  /\ left' = left \cup {c}
  /\ UNCHANGED <<closed, arrived, reported>>

Close ==
  /\ closed' = TRUE
  /\ UNCHANGED <<left, arrived, reported>>

Arrive(c) ==
  /\ c \in left
  /\ arrived' = arrived \cup {c}
  /\ UNCHANGED <<left, closed, reported>>

Report ==
  /\ closed
  /\ arrived = left
  /\ reported' = TRUE
  /\ UNCHANGED <<left, closed, arrived>>

Next ==
  \/ \E c \in Chunks : Leave(c) \/ Arrive(c)
  \/ Close
  \/ Report

Spec == Init /\ [][Next]_vars
=============================================================================
