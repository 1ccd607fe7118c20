----------------------------- MODULE MCGetLock ------------------------------
(***************************************************************************)
(* Small instances of module GetLock for TLC.                              *)
(***************************************************************************)
EXTENDS GetLock, TLC

Config(p, f) == [pkts |-> p, flows |-> f]

MCFlows == {Config(5, 2)}      \* five packets never come
MCRace == {Config(-1, 2)}
MCPackets == {Config(5, -1)}   \* no threshold on flows: the default of sdmbn.conf
MCMixed == {Config(-1, -1), Config(-1, 2), Config(2, 2), Config(3, 1), Config(3, 9)}
=============================================================================
