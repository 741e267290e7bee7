------------------------- MODULE MC_SpinRingConfig -------------------------
(***************************************************************************)
(* Every file of up to MaxToks tokens over a few router ids and direction  *)
(* letters (one of them illegal) on a mesh.                                *)
(***************************************************************************)
EXTENDS SpinRingConfig

MCRouterToks == {1, 2, 3}
MCDirToks    == {"N", "e", "W", "X"}

=============================================================================
