------------------------------- MODULE MCShare ------------------------------
(* Instances of Share for TLC.                                             *)
EXTENDS Share

(* Three packets of one flow; the bytes of the first are not text in the   *)
(* controller's character set.                                             *)
MCUnits   == {"u"}
MCPackets == {"a", "a'", "b"}
MCUnitOf  == [p \in MCPackets |-> "u"]
MCText    == [p \in MCPackets |-> IF p = "a" THEN "a'" ELSE p]

(* What the instances know, each a set of facts and the second of it.      *)
Config(scope, strict, known, traffic) ==
  [n |-> Len(known), scope |-> scope, strict |-> strict, traffic |-> traffic,
   knows |-> [i \in DOMAIN known |-> [u \in MCUnits |-> known[i][1]]],
   seen  |-> [i \in DOMAIN known |-> [u \in MCUnits |-> known[i][2]]]]

Nothing == <<{}, 0>>

(* Nobody knows the host; both packets may come before the filters.        *)
FreshConfigs == {Config("MULTIFLOW", FALSE, <<Nothing, Nothing>>, <<"a", "b">>)}
QuietConfigs == {Config("MULTIFLOW", FALSE, <<<<{"b"}, 0>>, Nothing>>, <<>>)}

(* The second instance has seen the host later, and does not know what the *)
(* first one knows.                                                        *)
LaterConfigs == {Config("MULTIFLOW", FALSE, <<<<{"b"}, 0>>, <<{"a"}, 1>>>>, <<"a">>)}

PassConfigs ==
  {Config("PERFLOW", FALSE, <<Nothing, Nothing>>, <<"a">>),
   Config("MULTIFLOW", FALSE, <<<<{"b"}, 1>>, <<{"a"}, 0>>>>, <<"a", "b">>),
   Config("MULTIFLOW", FALSE, <<<<{"b"}, 0>>, <<{"a", "b"}, 1>>>>, <<"a">>),
   Config("MULTIFLOW", TRUE, <<Nothing, <<{"b"}, 0>>>>, <<"a", "b">>),
   Config("PF_MF", FALSE, <<<<{"b"}, 1>>, Nothing>>, <<"a">>),
   Config("MF_AF", FALSE, <<<<{"b"}, 0>>, Nothing>>, <<"a">>),
   Config("MULTIFLOW", TRUE, <<<<{"a"}, 1>>, Nothing, <<{"b"}, 0>>>>, <<>>)}
  \cup LaterConfigs
=============================================================================
