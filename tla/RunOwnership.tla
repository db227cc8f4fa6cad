---------------------------- MODULE RunOwnership ----------------------------
(***************************************************************************)
(* What the run registry promises: per incident at most one run holds the  *)
(* right to finalize.  A new run takes it away from the holder; only the   *)
(* holder can turn it into a claim, once; a run that lost it never claims. *)
(***************************************************************************)
CONSTANTS Incidents, Runs, NoRun

VARIABLES
    holder,     \* the run that may finalize each incident
    fate        \* what became of each run

vars == <<holder, fate>>

TypeOK ==
    /\ holder \in [Incidents -> Runs \cup {NoRun}]
    /\ fate \in [Runs -> {"new", "holding", "displaced", "claimed"}]

Init ==
    /\ holder = [i \in Incidents |-> NoRun]
    /\ fate = [r \in Runs |-> "new"]

Register(r, i) ==
    /\ fate[r] = "new"
    /\ holder' = [holder EXCEPT ![i] = r]
    /\ fate' = [s \in Runs |-> IF s = r THEN "holding"
                               ELSE IF s = holder[i] THEN "displaced" ELSE fate[s]]

Claim(r, i) ==
    /\ holder[i] = r
    /\ fate[r] = "holding"
    /\ holder' = [holder EXCEPT ![i] = NoRun]
    /\ fate' = [fate EXCEPT ![r] = "claimed"]

Next == \E r \in Runs, i \in Incidents : Register(r, i) \/ Claim(r, i)

Spec == Init /\ [][Next]_vars

=============================================================================
