--------------------------- MODULE MCLaunchChain ---------------------------
(* Instances of LaunchChain for TLC.                                         *)
EXTENDS LaunchChain_proofs, TLC
=============================================================================
