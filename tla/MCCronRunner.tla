---------------------------- MODULE MCCronRunner ----------------------------
(* CronRunner on small instances. *)
EXTENDS CronRunner, TLC

(* Schedules and handlers are compared only for equality. *)
Symmetry == Permutations(Schedules) \cup Permutations(Clients)

=============================================================================
