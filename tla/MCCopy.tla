------------------------------- MODULE MCCopy -------------------------------
(***************************************************************************)
(* Small instances of module Copy for TLC.                                 *)
(***************************************************************************)
EXTENDS Copy, TLC

CONSTANTS f1, f2, m1, m2, a1, c1

MCPerflow   == {f1, f2}
MCMultiflow == {m1, m2}
MCAllflows  == {a1}
MCConfig    == {c1}

MCScopes   == DOMAIN Requests
MCAllflowsScope == {"ALLFLOWS"}

(* PRADS numbers its connections and takes the address of an asset for its *)
(* hash key.                                                               *)
OwnKeys    == f1 :> 1 @@ f2 :> 2 @@ m1 :> 3 @@ m2 :> 4
OneAddress == [OwnKeys EXCEPT ![m2] = 3]    \* two assets with one address
Reached    == [OwnKeys EXCEPT ![m1] = 2]    \* the numbers have reached an address
MCHashKeys == {OwnKeys, OneAddress, Reached}
=============================================================================
