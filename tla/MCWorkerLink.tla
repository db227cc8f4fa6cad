---------------------------- MODULE MCWorkerLink ----------------------------
(* WorkerLink on small instances.                                             *)
EXTENDS WorkerLink_proofs, TLC

=============================================================================
