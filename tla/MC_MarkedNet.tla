---------------------------- MODULE MC_MarkedNet ----------------------------
(***************************************************************************)
(* MarkedNet on the 2x2 mesh of MC_GarnetSpin.  The NIs of routers 0 and 3 *)
(* each mark one flit, so the first marked flit can be received while the *)
(* other is not yet injected.                                              *)
(***************************************************************************)
EXTENDS MarkedNet, MC_GarnetSpin

MCMarkedFlit == [r \in Routers |-> IF r \in {0, 3} THEN 1 ELSE 0]

=============================================================================
