-------------------------- MODULE MCAlertIncidents --------------------------
(* AlertIncidents on small instances. *)
EXTENDS AlertIncidents, TLC

OfLifecycle == {"merge"}
OfSweeping == {"expire", "sweep", "unlink", "stale", "settingsError", "restart"}

(* Transaction slots are interchangeable, and so are keys. *)
Symmetry == Permutations(Txs) \cup Permutations(Keys)

=============================================================================
