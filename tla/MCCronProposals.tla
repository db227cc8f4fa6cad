-------------------------- MODULE MCCronProposals --------------------------
(* CronProposals, and the cron runner under it, on small instances. *)
EXTENDS CronProposals, TLC

(* Schedules, handlers and ticks are compared only for equality. *)
Symmetry == Permutations(Schedules) \cup Permutations(Clients)

=============================================================================
