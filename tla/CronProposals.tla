--------------------------- MODULE CronProposals ---------------------------
(***************************************************************************)
(* Self-improvement proposals for cron jobs, over the cron runner they     *)
(* change: the gateway's proposals tool writes and revises them, operators *)
(* approve or reject them (internal/services/proposal_service.go,          *)
(* mcp-gateway/internal/tools/proposals/proposals.go), and an approval     *)
(* calls the runner's CreateJob or UpdateJob.                              *)
(*                                                                         *)
(* Approve and Reject read the status, work, and write the status back     *)
(* without a transaction, so every statement is a step.  The gateway is    *)
(* another process and survives a restart of the API.  The proposed        *)
(* content is a schedule; a proposal that creates a job names one job.  A  *)
(* tick is followed here up to the point where it may run: what it does    *)
(* after that is CronRunner's.                                             *)
(***************************************************************************)
EXTENDS CronRunner

CONSTANT Proposals

ASSUME KindsAssumption == None \notin {"cron_new", "cron_update"}

VARIABLES
    proposal,   \* the proposals table
    review,     \* the approval or rejection each client is at
    origin,     \* the proposal that created each job
    vetted,     \* jobs an operator has enabled, or that were there before
    contested   \* proposals that were under two reviews at once

propVars == <<proposal, review, origin, vetted, contested>>
allVars == <<vars, propVars>>

Statuses == {"none", "checked", "pending", "approved", "rejected", "apply_failed", "superseded"}
Kinds == {"cron_new", "cron_update"}
ReviewSteps == {"none", "checking", "superseding", "applying", "applied", "failed", "rejecting"}

NoProposal == [status |-> "none", kind |-> None, target |-> None, snapshot |-> None,
               content |-> None, applied |-> FALSE]
NoReview == [at |-> "none", of |-> None, content |-> None, job |-> None]

(* A proposal's row, with the mark whether its content has been applied;   *)
(* of a review: its step, its proposal, the content it has read and has    *)
(* still to apply, and the job it has written.                             *)
ProposalRecords == [status : Statuses, kind : Kinds \cup {None}, target : Jobs \cup {None},
                    snapshot : Plans, content : Plans, applied : BOOLEAN]
ReviewRecords == [at : ReviewSteps, of : Proposals \cup {None}, content : Plans,
                  job : Jobs \cup {None}]

ProposalsTypeOK ==
    /\ proposal \in [Proposals -> ProposalRecords]
    /\ review \in [Clients -> ReviewRecords]
    /\ origin \in [Jobs -> Proposals \cup {None}]
    /\ vetted \subseteq Jobs
    /\ contested \subseteq Proposals

ProposalsInit ==
    /\ Init
    /\ proposal = [p \in Proposals |-> NoProposal]
    /\ review = [c \in Clients |-> NoReview]
    /\ origin = [j \in Jobs |-> None]
    /\ vetted = {j \in Jobs : row[j] # None}
    /\ contested = {}

Open(p) == proposal[p].status \in {"pending", "apply_failed"}
Decided(p) == proposal[p].status \in {"approved", "rejected", "superseded"}

-----------------------------------------------------------------------------
(* The gateway: proposals.create and proposals.update_draft *)

\* Create: the snapshot, and no pending proposal for the same target.
CheckDuplicate(p, j) ==
    /\ proposal[p].status = "none"
    /\ row[j] # None
    /\ \A q \in Proposals : ~(proposal[q].status = "pending" /\ proposal[q].target = j)
    /\ proposal' = [proposal EXCEPT ![p] = [@ EXCEPT !.status = "checked", !.target = j,
                        !.kind = "cron_update", !.snapshot = row[j].schedule]]
    /\ UNCHANGED <<vars, review, origin, vetted, contested>>

CheckNewDuplicate(p) ==
    /\ proposal[p].status = "none"
    /\ proposal' = [proposal EXCEPT ![p] = [@ EXCEPT !.status = "checked", !.kind = "cron_new"]]
    /\ UNCHANGED <<vars, review, origin, vetted, contested>>

\* Create: the INSERT.
Propose(p, content) ==
    /\ proposal[p].status = "checked"
    /\ proposal' = [proposal EXCEPT ![p].status = "pending", ![p].content = content]
    /\ UNCHANGED <<vars, review, origin, vetted, contested>>

\* UpdateDraft: UPDATE ... WHERE status = 'pending'.
UpdateDraft(p, content) ==
    /\ proposal[p].status = "pending"
    /\ proposal' = [proposal EXCEPT ![p].content = content]
    /\ UNCHANGED <<vars, review, origin, vetted, contested>>

-----------------------------------------------------------------------------
(* Approve and Reject *)

MayReviewDecided(p) == Open(p) \/ proposal[p].status = "rejected"
MayReview(p) == Open(p)

\* GetProposal and the check of its status.
Begin(c, p, step) ==
    /\ client[c].at = "idle" /\ review[c].at = "none"
    /\ MayReview(p)
    /\ review' = [review EXCEPT ![c] =
                     [at |-> step, of |-> p, job |-> None,
                      content |-> IF step = "checking" THEN proposal[p].content ELSE None]]
    /\ contested' = IF \E d \in Clients : review[d].of = p THEN contested \cup {p} ELSE contested
    /\ UNCHANGED <<vars, proposal, origin, vetted>>

\* Writing a status ends the review.
Decide(c, status) ==
    /\ proposal' = [proposal EXCEPT ![review[c].of].status = status]
    /\ review' = [review EXCEPT ![c] = NoReview]
    /\ UNCHANGED <<vars, origin, vetted, contested>>

\* Reject
Reject(c) == review[c].at = "rejecting" /\ Decide(c, "rejected")

\* checkStale: the target differs from the snapshot, or the name is taken.
Stale(p) ==
    IF proposal[p].kind = "cron_update"
    THEN row[proposal[p].target] = None
         \/ row[proposal[p].target].schedule # proposal[p].snapshot
    ELSE \E j \in Jobs : row[j] # None /\ origin[j] = p

CheckStale(c) ==
    /\ review[c].at = "checking"
    /\ review' = [review EXCEPT ![c] = IF Stale(@.of)
                                       THEN [@ EXCEPT !.at = "superseding", !.content = None]
                                       ELSE [@ EXCEPT !.at = "applying"]]
    /\ UNCHANGED <<vars, proposal, origin, vetted, contested>>

Supersede(c) == review[c].at = "superseding" /\ Decide(c, "superseded")

Applied(c, j) ==
    /\ review' = [review EXCEPT ![c].at = "applied", ![c].job = j, ![c].content = None]
    /\ proposal' = [proposal EXCEPT ![review[c].of].applied = TRUE]

\* What UpdateJob does of an approval: the patch has no Enabled.
WriteUnscheduled(c, j, content) ==
    /\ row' = [row EXCEPT ![j].schedule = content]
    /\ UNCHANGED <<inserted, schedVars, start, loaded, client, tick>>
Write(c, j, content) == Update(c, j, content, row[j].enabled)

\* apply, cron_update
ApplyUpdate(c) ==
    LET p == review[c].of
        j == proposal[p].target
    IN  /\ review[c].at = "applying" /\ proposal[p].kind = "cron_update"
        /\ row[j] # None
        /\ Write(c, j, review[c].content)
        /\ Applied(c, j)
        /\ UNCHANGED <<origin, vetted, contested>>

\* apply, cron_new: CreateJob, disabled.
ApplyNew(c) ==
    LET p == review[c].of
    IN  /\ review[c].at = "applying" /\ proposal[p].kind = "cron_new"
        /\ \A j \in Jobs : row[j] # None => origin[j] # p
        /\ Create(c, review[c].content, FALSE)
        /\ Applied(c, inserted + 1)
        /\ origin' = [origin EXCEPT ![inserted + 1] = p]
        /\ UNCHANGED <<vetted, contested>>

\* apply: unknown tools, a job or name that is no longer what it was, a
\* statement that fails.
ApplyFails(c) ==
    /\ review[c].at = "applying"
    /\ review' = [review EXCEPT ![c].at = "failed", ![c].content = None]
    /\ UNCHANGED <<vars, proposal, origin, vetted, contested>>

\* The job is read back when CreateJob or UpdateJob has reloaded it.
StatusAfterApplyUnchecked(c) == "approved"
StatusAfterApply(c) ==
    IF review[c].at = "applied" /\ row[review[c].job] # None THEN "approved" ELSE "apply_failed"

FinishApprove(c) ==
    /\ review[c].at \in {"applied", "failed"}
    /\ client[c].at = "idle"
    /\ Decide(c, StatusAfterApply(c))

-----------------------------------------------------------------------------

\* The calls of operators that are not approvals.
OperatorCreates(c, schedule, enabled) ==
    /\ review[c].at = "none"
    /\ Create(c, schedule, enabled)
    /\ vetted' = IF enabled THEN vetted \cup {inserted + 1} ELSE vetted
    /\ UNCHANGED <<proposal, review, origin, contested>>

OperatorUpdates(c, j, schedule, enabled) ==
    /\ review[c].at = "none"
    /\ Update(c, j, schedule, enabled)
    /\ vetted' = IF enabled THEN vetted \cup {j} ELSE vetted
    /\ UNCHANGED <<proposal, review, origin, contested>>

OperatorDeletes(c, j) ==
    /\ review[c].at = "none"
    /\ Delete(c, j)
    /\ UNCHANGED propVars

\* The restart ends the reviews where they stand.
RestartReviews ==
    /\ Restart
    /\ review' = [c \in Clients |-> NoReview]
    /\ UNCHANGED <<proposal, origin, vetted, contested>>

Proposing(p) ==
    \/ \E j \in Jobs : CheckDuplicate(p, j)
    \/ CheckNewDuplicate(p)
    \/ \E s \in Schedules : Propose(p, s) \/ UpdateDraft(p, s)

Reviewing(c) ==
    \/ \E p \in Proposals : Begin(c, p, "checking") \/ Begin(c, p, "rejecting")
    \/ Reject(c) \/ CheckStale(c) \/ Supersede(c)
    \/ ApplyUpdate(c) \/ ApplyNew(c) \/ ApplyFails(c) \/ FinishApprove(c)

Operating(c) ==
    \/ \E s \in Schedules, e \in BOOLEAN : OperatorCreates(c, s, e)
    \/ \E j \in Jobs, s \in Schedules, e \in BOOLEAN : OperatorUpdates(c, j, s, e)
    \/ \E j \in Jobs : OperatorDeletes(c, j)

Running ==
    /\ \/ Starting
       \/ \E c \in Clients : Reloading(c)
       \/ \E x \in Ticks : LoadRow(x) \/ \E e \in scheduled : Fire(x, e)
    /\ UNCHANGED propVars

ProposalsNext ==
    \/ \E p \in Proposals : Proposing(p)
    \/ \E c \in Clients : Reviewing(c) \/ Operating(c)
    \/ Running
    \/ RestartReviews

ProposalsSpec == ProposalsInit /\ [][ProposalsNext]_allVars

-----------------------------------------------------------------------------
(* Properties *)

(* Whatever proposals, reviews and operators do to jobs, they do through   *)
(* the runner's calls: what holds of the runner holds under proposals.     *)
RunnerSpec == Spec

(* proposal_service.go: "The status write happens last so a failed apply   *)
(* never leaves an approved row without its side effects", through failed  *)
(* applies, retries, competing reviews and restarts.                       *)
ApprovedWasApplied ==
    \A p \in Proposals : proposal[p].status = "approved" => proposal[p].applied

(* proposal_service.go: "an LLM-authored schedule must never start firing  *)
(* without an explicit operator enable".  Whatever entries the scheduler   *)
(* holds, a tick that it fires runs only for a job that was seeded or that *)
(* an operator has enabled.                                                *)
UnvettedJobsDoNotFire ==
    [][\A x \in Ticks :
          tick[x].at = "fired" /\ tick'[x].at = "loaded" => tick[x].job \in vetted]_allVars

(* A proposal that was never under two reviews at once keeps its decision. *)
UncontestedDecisionsStand ==
    [][\A p \in Proposals :
          Decided(p) /\ p \notin contested' => proposal'[p].status = proposal[p].status]_allVars

=============================================================================
