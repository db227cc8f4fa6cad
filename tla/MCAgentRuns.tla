----------------------------- MODULE MCAgentRuns -----------------------------
(* AgentRuns on small instances. *)
EXTENDS AgentRuns_proofs, TLC

NoColumns == << >>
OneColumn == <<"result_status">>

(* Run ids and incident ids are UUIDs, compared only for equality. *)
Symmetry == Permutations(Runs) \cup Permutations(Incidents)

=============================================================================
