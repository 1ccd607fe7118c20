----------------------------- MODULE MCNFEvents -----------------------------
(***************************************************************************)
(* Small instances of module NFEvents for TLC.                             *)
(***************************************************************************)
EXTENDS NFEvents, TLC

CONSTANTS k1, k2

(* The first packet matches both keys, the others the first only; the last *)
(* one carries the flags of a packet the controller has sent.              *)
MCKeys1   == {k1}
MCKeys2   == {k1, k2}
MCKeysOf  == [p \in 1 .. NumPackets |-> IF p = 1 THEN Keys ELSE {k1}]
MCFlagsOf == [p \in 1 .. NumPackets |-> IF p = 3 THEN {"DO_NOT_BUFFER", "DO_NOT_DROP"} ELSE {}]

(* One id that fits in a char, and one that does not. *)
MCIds  == {1, 128}
MCId   == {1}
=============================================================================
