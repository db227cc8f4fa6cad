---------------------------- MODULE MCMemoryFiles ----------------------------
(* MemoryFiles for TLC. *)
EXTENDS MemoryFiles, TLC

Symmetry == Permutations(Callers) \cup Permutations(Contents)

=============================================================================
