------------------------------- MODULE MCMove -------------------------------
(***************************************************************************)
(* Small instances of module Move for TLC.                                 *)
(***************************************************************************)
EXTENDS MoveInvariant, TLC

CONSTANTS f1, f2, m1

MCPerflow1   == {f1}
MCPerflow2   == {f1, f2}
MCMultiflow0 == {}
MCMultiflow1 == {m1}

(* Packets alternate between the flows. *)
MCFlowOf1 == [p \in 1 .. NumPackets |-> f1]
MCFlowOf2 == [p \in 1 .. NumPackets |-> IF p % 2 = 1 THEN f1 ELSE f2]

Args(scopes, guarantees, optimizations) ==
  [scope : scopes, guarantee : guarantees, optimization : optimizations] \cap ValidConfigs

MCAll       == ValidConfigs
MCUnordered == Args(Scopes, {"NO_GUARANTEE", "LOSS_FREE"}, Optimizations)
MCPerflowScope == Args({"PERFLOW"}, Guarantees, Optimizations)
MCFlowConfigs ==
  MCPerflowScope
    \cup Args({"MULTIFLOW"}, {"NO_GUARANTEE", "LOSS_FREE"}, Optimizations)
    \cup Args({"PF_MF"}, {"LOSS_FREE"}, {"NO_OPTIMIZATION"})
MCOrdered   == Args({"PERFLOW"}, {"ORDER_PRESERVING"}, {"PZ_LL"})
MCBoth      == Args({"PF_MF"}, {"LOSS_FREE"}, {"PZ"})
MCLateLock  == Args({"PERFLOW"}, {"LOSS_FREE"}, {"LL"})
MCEarlyLock == Args({"PERFLOW"}, {"LOSS_FREE"}, {"NO_OPTIMIZATION"})
MCEarlyRelease == Args({"PERFLOW"}, {"LOSS_FREE"}, {"PZ_LL_ER"})
=============================================================================
