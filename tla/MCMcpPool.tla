------------------------------ MODULE MCMcpPool ------------------------------
(* McpPool on small instances.                                                *)
EXTENDS McpPool_proofs, TLC

=============================================================================
