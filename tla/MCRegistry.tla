----------------------------- MODULE MCRegistry -----------------------------
(***************************************************************************)
(* Network functions that register, for TLC.                               *)
(***************************************************************************)
EXTENDS Registry
=============================================================================
