------------------------ MODULE CronProposals_proofs ------------------------
(***************************************************************************)
(* Proofs about CronProposals: proposals, reviews and operators change     *)
(* jobs only through the steps of the runner, so that what                 *)
(* CronRunner_proofs shows of the runner holds under proposals too.        *)
(***************************************************************************)
EXTENDS CronProposals, CronRunner_proofs

-----------------------------------------------------------------------------
(* The inductive invariant *)

InReview(c) == review[c].at # "none"

(* A proposal that has been written has a content to apply, and one that   *)
(* changes a job names it.                                                 *)
ProposalSound(p) ==
    /\ p.status \notin {"none", "checked"} => p.content \in Schedules
    /\ p.kind = "cron_update" => p.target \in Jobs
    /\ p.status = "approved" => p.applied

ProposalsSound == \A p \in Proposals : ProposalSound(proposal[p])

(* A review works on a proposal that has been written, until it has        *)
(* applied it with the content it had at the start.                        *)
ReviewsSound ==
    \A c \in Clients : InReview(c) =>
        /\ review[c].of \in Proposals
        /\ review[c].at \in {"checking", "applying"} => review[c].content \in Schedules
        /\ proposal[review[c].of].status \notin {"none", "checked"}
        /\ review[c].at = "applied" => proposal[review[c].of].applied

(* Two reviews of a proposal contest it, as does a review of a proposal    *)
(* that has been decided since.                                            *)
ContestsKnown ==
    /\ \A c, d \in Clients :
          c # d /\ InReview(c) /\ InReview(d) /\ review[c].of = review[d].of
          => review[c].of \in contested
    /\ \A c \in Clients : InReview(c) /\ Decided(review[c].of) => review[c].of \in contested

EnabledIsVetted == \A j \in Jobs : row[j] # None /\ row[j].enabled => j \in vetted

ProposalsInv ==
    /\ CronInv
    /\ ProposalsTypeOK
    /\ ProposalsSound
    /\ ReviewsSound
    /\ ContestsKnown
    /\ EnabledIsVetted

-----------------------------------------------------------------------------
(* Records *)

\* The fields of no review.
LEMMA NoReviewFields ==
    NoReview \in ReviewRecords /\ NoReview.at = "none"
BY DEF NoReview, ReviewRecords, ReviewSteps, Plans

\* The fields of a proposal not yet made.
LEMMA NoProposalFields ==
    /\ NoProposal \in ProposalRecords
    /\ NoProposal.status = "none" /\ NoProposal.kind # "cron_update"
BY KindsAssumption DEF NoProposal, ProposalRecords, Statuses, Kinds, Plans

(* What a step may do to the decisions.                                    *)
DecisionsStand ==
    \A p \in Proposals :
        Decided(p) /\ p \notin contested' => proposal'[p].status = proposal[p].status

(* A proposal that is not decided is written or revised.                   *)
LEMMA DraftEffect ==
    ASSUME ProposalsInv, NEW p \in Proposals, NEW f \in ProposalRecords,
           proposal' = [proposal EXCEPT ![p] = f], UNCHANGED <<review, contested>>,
           ProposalSound(f),
           proposal[p].status \in {"none", "checked", "pending"},
           f.status \in {"checked", "pending"},
           proposal[p].status = "pending" => f.status = "pending",
           proposal[p].applied => f.applied
    PROVE  /\ proposal' \in [Proposals -> ProposalRecords]
           /\ ProposalsSound' /\ ReviewsSound' /\ ContestsKnown' /\ DecisionsStand
<1>1. proposal \in [Proposals -> ProposalRecords]
    BY DEF ProposalsInv, ProposalsTypeOK
<1>2. proposal'[p] = f /\ \A q \in Proposals : q # p => proposal'[q] = proposal[q]
    BY <1>1
<1>3. proposal' \in [Proposals -> ProposalRecords]
    BY <1>1
<1>4. ProposalsSound'
    BY <1>2 DEF ProposalsInv, ProposalsSound
<1>5. ReviewsSound'
    BY <1>2 DEF ProposalsInv, ReviewsSound, InReview
<1>6. \A q \in Proposals : Decided(q)' <=> Decided(q)
    BY <1>2 DEF Decided
<1>7. ContestsKnown'
    BY <1>6 DEF ProposalsInv, ContestsKnown, InReview, ReviewsSound
<1>8. DecisionsStand
    BY <1>2 DEF DecisionsStand, Decided
<1> QED
    BY <1>3, <1>4, <1>5, <1>7, <1>8

(* The mark stays, and an application sets it.                             *)
MarkKept(t, f, g) == (t.applied => f.applied) /\ (g.at = "applied" => f.applied)

(* A review goes on; it may have applied its proposal.                     *)
LEMMA StageEffect ==
    ASSUME ProposalsInv, NEW c \in Clients, InReview(c),
           NEW p, p = review[c].of,
           NEW g \in ReviewRecords, review' = [review EXCEPT ![c] = g],
           g.of = p, g.at \notin {"none", "checking"},
           g.at = "applying" => g.content \in Schedules,
           NEW f \in ProposalRecords, proposal' = [proposal EXCEPT ![p] = f],
           f.status = proposal[p].status, f.content = proposal[p].content,
           f.kind = proposal[p].kind, f.target = proposal[p].target,
           MarkKept(proposal[p], f, g),
           UNCHANGED contested
    PROVE  /\ proposal' \in [Proposals -> ProposalRecords]
           /\ review' \in [Clients -> ReviewRecords]
           /\ ProposalsSound' /\ ReviewsSound' /\ ContestsKnown' /\ DecisionsStand
<1>1. /\ proposal \in [Proposals -> ProposalRecords] /\ review \in [Clients -> ReviewRecords]
      /\ p \in Proposals
    BY DEF ProposalsInv, ProposalsTypeOK, ReviewsSound
<1>2. proposal'[p] = f /\ \A q \in Proposals : q # p => proposal'[q] = proposal[q]
    BY <1>1
<1>3. review'[c] = g /\ \A d \in Clients : d # c => review'[d] = review[d]
    BY <1>1
<1>4. proposal' \in [Proposals -> ProposalRecords] /\ review' \in [Clients -> ReviewRecords]
    BY <1>1
<1>5. ProposalsSound'
    <2>1. ProposalSound(f)
        BY <1>1 DEF ProposalsInv, ProposalsSound, ProposalSound, MarkKept
    <2> QED
        BY <1>2, <2>1 DEF ProposalsInv, ProposalsSound
<1>6. ReviewsSound'
    BY <1>1, <1>2, <1>3 DEF ProposalsInv, ReviewsSound, InReview, MarkKept
<1>7. \A q \in Proposals : Decided(q)' <=> Decided(q)
    BY <1>2 DEF Decided
<1>8. \A d \in Clients : (InReview(d)' <=> InReview(d)) /\ review'[d].of = review[d].of
    BY <1>3 DEF InReview
<1>9. ContestsKnown'
    BY <1>7, <1>8 DEF ProposalsInv, ContestsKnown, ReviewsSound
<1>10. DecisionsStand
    BY <1>2 DEF DecisionsStand
<1> QED
    BY <1>4, <1>5, <1>6, <1>9, <1>10

(* A review ends with a decision.                                          *)
LEMMA DecideEffect ==
    ASSUME ProposalsInv, NEW c \in Clients, InReview(c),
           NEW status \in {"approved", "rejected", "apply_failed", "superseded"}, Decide(c, status),
           status = "approved" => review[c].at = "applied"
    PROVE  /\ proposal' \in [Proposals -> ProposalRecords]
           /\ review' \in [Clients -> ReviewRecords]
           /\ ProposalsSound' /\ ReviewsSound' /\ ContestsKnown' /\ DecisionsStand
<1> DEFINE p == review[c].of
<1>1. /\ proposal \in [Proposals -> ProposalRecords] /\ review \in [Clients -> ReviewRecords]
      /\ p \in Proposals
    BY DEF ProposalsInv, ProposalsTypeOK, ReviewsSound
<1>2. PICK q \in Proposals : q = p
    BY <1>1
<1>3. PICK f : f = [proposal[q] EXCEPT !.status = status]
    OBVIOUS
<1>4. proposal' = [proposal EXCEPT ![q] = f] /\ review' = [review EXCEPT ![c] = NoReview]
      /\ contested' = contested
    BY <1>2, <1>3 DEF Decide
<1>5. /\ f \in ProposalRecords /\ f.status = status /\ f.content = proposal[q].content
      /\ f.kind = proposal[q].kind /\ f.target = proposal[q].target
      /\ f.applied = proposal[q].applied
    BY <1>1, <1>3 DEF ProposalRecords, Statuses
<1>6. proposal'[q] = f /\ \A r \in Proposals : r # q => proposal'[r] = proposal[r]
    BY <1>1, <1>4
<1>7. review'[c] = NoReview /\ ~InReview(c)' /\ \A d \in Clients : d # c => review'[d] = review[d]
    BY <1>1, <1>4, NoReviewFields DEF InReview
<1>8. proposal' \in [Proposals -> ProposalRecords] /\ review' \in [Clients -> ReviewRecords]
    BY <1>1, <1>4, <1>5, NoReviewFields
<1>9. ProposalsSound'
    <2>1. ProposalSound(f)
        BY <1>2, <1>5 DEF ProposalsInv, ProposalsSound, ProposalSound, ReviewsSound
    <2> QED
        BY <1>6, <2>1 DEF ProposalsInv, ProposalsSound
<1>10. ReviewsSound'
    BY <1>5, <1>6, <1>7 DEF ProposalsInv, ReviewsSound, InReview
<1>11. ContestsKnown'
    <2>1. ASSUME NEW d \in Clients, NEW e \in Clients, d # e, InReview(d)', InReview(e)',
                 review'[d].of = review'[e].of
          PROVE  review'[d].of \in contested
        BY <1>7, <2>1 DEF ProposalsInv, ContestsKnown, InReview
    <2>2. ASSUME NEW d \in Clients, InReview(d)', Decided(review[d].of)'
          PROVE  review'[d].of \in contested
        <3>1. d # c /\ review'[d] = review[d] /\ InReview(d)
            BY <1>7, <2>2 DEF InReview
        <3>2. CASE review[d].of = q
            BY <1>2, <3>1, <3>2 DEF ProposalsInv, ContestsKnown
        <3>3. CASE review[d].of # q
            <4>1. Decided(review[d].of)
                BY <1>6, <2>2, <3>1, <3>3 DEF ProposalsInv, ReviewsSound, Decided
            <4> QED
                BY <3>1, <4>1 DEF ProposalsInv, ContestsKnown
        <3> QED
            BY <3>2, <3>3
    <2> QED
        BY <1>4, <2>1, <2>2 DEF ContestsKnown
<1>12. DecisionsStand
    <2> SUFFICES ASSUME NEW r \in Proposals, Decided(r), r \notin contested
                 PROVE  proposal'[r].status = proposal[r].status
        BY <1>4 DEF DecisionsStand
    <2>1. r # q
        BY <1>2 DEF ProposalsInv, ContestsKnown
    <2> QED
        BY <1>6, <2>1
<1> QED
    BY <1>8, <1>9, <1>10, <1>11, <1>12

-----------------------------------------------------------------------------
(* The steps *)

(* What every step leaves, the runner's part of the invariant aside.       *)
StepsWell ==
    /\ [Next]_vars
    /\ proposal' \in [Proposals -> ProposalRecords]
    /\ review' \in [Clients -> ReviewRecords]
    /\ origin' \in [Jobs -> Proposals \cup {None}]
    /\ vetted' \subseteq Jobs
    /\ contested' \subseteq Proposals
    /\ ProposalsSound' /\ ReviewsSound' /\ ContestsKnown' /\ EnabledIsVetted'
    /\ DecisionsStand

\* A step that leaves the jobs and their marks alone.
LEMMA VettedFrame ==
    ASSUME ProposalsInv, UNCHANGED <<vars, origin, vetted>>
    PROVE  /\ [Next]_vars /\ EnabledIsVetted'
           /\ origin' \in [Jobs -> Proposals \cup {None}] /\ vetted' \subseteq Jobs
BY DEF ProposalsInv, ProposalsTypeOK, EnabledIsVetted, vars, jobVars

Checked(t, j, snapshot) ==
    [t EXCEPT !.status = "checked", !.target = j, !.kind = "cron_update", !.snapshot = snapshot]
CheckedNew(t) == [t EXCEPT !.status = "checked", !.kind = "cron_new"]
Pending(t, content) == [t EXCEPT !.status = "pending", !.content = content]
Redrafted(t, content) == [t EXCEPT !.content = content]

\* What Create leaves after its checks, for an update.
LEMMA CheckedFields ==
    ASSUME NEW t \in ProposalRecords, NEW j \in Jobs, NEW snapshot \in Plans,
           NEW f, f = Checked(t, j, snapshot)
    PROVE  /\ f \in ProposalRecords /\ f.status = "checked" /\ f.kind = "cron_update"
           /\ f.target = j /\ f.content = t.content /\ f.applied = t.applied
BY DEF Checked, ProposalRecords, Statuses, Kinds

\* What Create leaves after its checks, for a new job.
LEMMA CheckedNewFields ==
    ASSUME NEW t \in ProposalRecords, NEW f, f = CheckedNew(t)
    PROVE  /\ f \in ProposalRecords /\ f.status = "checked" /\ f.kind = "cron_new"
           /\ f.target = t.target /\ f.content = t.content /\ f.applied = t.applied
BY DEF CheckedNew, ProposalRecords, Statuses, Kinds

\* A proposal once it is inserted.
LEMMA PendingFields ==
    ASSUME NEW t \in ProposalRecords, NEW content \in Plans, NEW f, f = Pending(t, content)
    PROVE  /\ f \in ProposalRecords /\ f.status = "pending" /\ f.kind = t.kind
           /\ f.target = t.target /\ f.content = content /\ f.applied = t.applied
BY DEF Pending, ProposalRecords, Statuses, Kinds

\* A proposal whose draft is revised.
LEMMA RedraftedFields ==
    ASSUME NEW t \in ProposalRecords, NEW content \in Plans, NEW f, f = Redrafted(t, content)
    PROVE  /\ f \in ProposalRecords /\ f.status = t.status /\ f.kind = t.kind
           /\ f.target = t.target /\ f.content = content /\ f.applied = t.applied
BY DEF Redrafted, ProposalRecords

\* The gateway keeps the invariant.
LEMMA ProposingSteps ==
    ASSUME ProposalsInv, NEW p \in Proposals, Proposing(p)
    PROVE  StepsWell
<1>0. /\ proposal \in [Proposals -> ProposalRecords] /\ proposal[p] \in ProposalRecords
      /\ ProposalSound(proposal[p]) /\ row \in [Jobs -> Rows] /\ Schedules \subseteq Plans
    BY DEF ProposalsInv, ProposalsTypeOK, ProposalsSound, CronInv, TypeOK, Plans
<1>1. SUFFICES ASSUME UNCHANGED <<vars, review, origin, vetted, contested>>,
                      \E f \in ProposalRecords :
                         /\ proposal' = [proposal EXCEPT ![p] = f]
                         /\ ProposalSound(f)
                         /\ proposal[p].status \in {"none", "checked", "pending"}
                         /\ f.status \in {"checked", "pending"}
                         /\ proposal[p].status = "pending" => f.status = "pending"
                         /\ proposal[p].applied => f.applied
               PROVE  StepsWell
    <2>1. CASE \E j \in Jobs : CheckDuplicate(p, j)
        <3>1. PICK j \in Jobs : CheckDuplicate(p, j)
            BY <2>1
        <3>2. PICK f : f = Checked(proposal[p], j, row[j].schedule)
            OBVIOUS
        <3>3. row[j].schedule \in Plans
            <4>1. row[j] \in [enabled : BOOLEAN, schedule : Schedules]
                BY <1>0, <3>1 DEF CheckDuplicate, Rows
            <4> QED
                BY <4>1 DEF Plans
        <3>4. /\ f \in ProposalRecords /\ f.status = "checked" /\ f.kind = "cron_update"
              /\ f.target = j /\ f.content = proposal[p].content /\ f.applied = proposal[p].applied
            BY <1>0, <3>2, <3>3, CheckedFields
        <3>5. proposal' = [proposal EXCEPT ![p] = f] /\ proposal[p].status = "none"
              /\ UNCHANGED <<vars, review, origin, vetted, contested>>
            BY <3>1, <3>2 DEF CheckDuplicate, Checked
        <3>6. ProposalSound(f)
            BY <3>4 DEF ProposalSound
        <3> QED
            BY <1>1, <3>4, <3>5, <3>6
    <2>2. CASE CheckNewDuplicate(p)
        <3>1. PICK f : f = CheckedNew(proposal[p])
            OBVIOUS
        <3>2. /\ f \in ProposalRecords /\ f.status = "checked" /\ f.kind = "cron_new"
              /\ f.applied = proposal[p].applied
            BY <1>0, <3>1, CheckedNewFields
        <3>3. proposal' = [proposal EXCEPT ![p] = f] /\ proposal[p].status = "none"
              /\ UNCHANGED <<vars, review, origin, vetted, contested>>
            BY <2>2, <3>1 DEF CheckNewDuplicate, CheckedNew
        <3>4. ProposalSound(f)
            BY <3>2 DEF ProposalSound
        <3> QED
            BY <1>1, <3>2, <3>3, <3>4
    <2>3. ASSUME NEW s \in Schedules, Propose(p, s) PROVE StepsWell
        <3>1. PICK f : f = Pending(proposal[p], s)
            OBVIOUS
        <3>2. /\ f \in ProposalRecords /\ f.status = "pending" /\ f.kind = proposal[p].kind
              /\ f.target = proposal[p].target /\ f.content = s /\ f.applied = proposal[p].applied
            BY <1>0, <3>1, PendingFields
        <3>3. proposal' = [proposal EXCEPT ![p] = f] /\ proposal[p].status = "checked"
              /\ UNCHANGED <<vars, review, origin, vetted, contested>>
            BY <2>3, <3>1 DEF Propose, Pending
        <3>4. ProposalSound(f)
            BY <1>0, <3>2 DEF ProposalSound
        <3> QED
            BY <1>1, <3>2, <3>3, <3>4
    <2>4. ASSUME NEW s \in Schedules, UpdateDraft(p, s) PROVE StepsWell
        <3>1. PICK f : f = Redrafted(proposal[p], s)
            OBVIOUS
        <3>2. /\ f \in ProposalRecords /\ f.status = proposal[p].status /\ f.kind = proposal[p].kind
              /\ f.target = proposal[p].target /\ f.content = s /\ f.applied = proposal[p].applied
            BY <1>0, <3>1, RedraftedFields
        <3>3. proposal' = [proposal EXCEPT ![p] = f] /\ proposal[p].status = "pending"
              /\ UNCHANGED <<vars, review, origin, vetted, contested>>
            BY <2>4, <3>1 DEF UpdateDraft, Redrafted
        <3>4. ProposalSound(f)
            BY <1>0, <3>2 DEF ProposalSound
        <3> QED
            BY <1>1, <3>2, <3>3, <3>4
    <2> QED
        BY <2>1, <2>2, <2>3, <2>4 DEF Proposing
<1>2. PICK f \in ProposalRecords :
         /\ proposal' = [proposal EXCEPT ![p] = f]
         /\ ProposalSound(f)
         /\ proposal[p].status \in {"none", "checked", "pending"}
         /\ f.status \in {"checked", "pending"}
         /\ proposal[p].status = "pending" => f.status = "pending"
         /\ proposal[p].applied => f.applied
    BY <1>1
<1>3. /\ proposal' \in [Proposals -> ProposalRecords]
      /\ ProposalsSound' /\ ReviewsSound' /\ ContestsKnown' /\ DecisionsStand
    BY <1>1, <1>2, DraftEffect
<1>4. /\ [Next]_vars /\ EnabledIsVetted'
      /\ origin' \in [Jobs -> Proposals \cup {None}] /\ vetted' \subseteq Jobs
    BY <1>1, VettedFrame
<1>5. review' \in [Clients -> ReviewRecords] /\ contested' \subseteq Proposals
    BY <1>1 DEF ProposalsInv, ProposalsTypeOK
<1> QED
    BY <1>3, <1>4, <1>5 DEF StepsWell

\* The start of a review keeps the invariant.
LEMMA BeginSteps ==
    ASSUME ProposalsInv, NEW c \in Clients, NEW p \in Proposals,
           NEW step \in {"checking", "rejecting"}, Begin(c, p, step)
    PROVE  StepsWell
<1>0. /\ proposal \in [Proposals -> ProposalRecords] /\ review \in [Clients -> ReviewRecords]
      /\ contested \subseteq Proposals
    BY DEF ProposalsInv, ProposalsTypeOK
<1>1. PICK g : g = [at |-> step, of |-> p, job |-> None,
                    content |-> IF step = "checking" THEN proposal[p].content ELSE None]
    OBVIOUS
<1>2. /\ review' = [review EXCEPT ![c] = g]
      /\ contested' = IF \E d \in Clients : review[d].of = p THEN contested \cup {p} ELSE contested
      /\ UNCHANGED <<vars, proposal, origin, vetted>>
      /\ review[c].at = "none" /\ Open(p)
    BY <1>1 DEF Begin, MayReview
<1>3. proposal[p].content \in Schedules /\ proposal[p].content \in Plans
    BY <1>2 DEF ProposalsInv, ProposalsSound, ProposalSound, Open, Plans
<1>4. /\ g \in ReviewRecords
      /\ g.at = step /\ g.of = p /\ (g.at = "checking" => g.content \in Schedules)
    BY <1>1, <1>3 DEF ReviewRecords, ReviewSteps, Plans
<1>5. review'[c] = g /\ \A d \in Clients : d # c => review'[d] = review[d]
    BY <1>0, <1>2
<1>6. /\ proposal' \in [Proposals -> ProposalRecords] /\ review' \in [Clients -> ReviewRecords]
      /\ contested' \subseteq Proposals
    BY <1>0, <1>2, <1>4
<1>7. ProposalsSound'
    BY <1>2 DEF ProposalsInv, ProposalsSound
<1>8. ReviewsSound'
    BY <1>2, <1>3, <1>4, <1>5 DEF ProposalsInv, ReviewsSound, InReview, Open
<1>9. ContestsKnown'
    <2>1. \A q : Decided(q)' <=> Decided(q)
        BY <1>2 DEF Decided
    <2>2. ~Decided(p)
        BY <1>2 DEF Open, Decided
    <2>3. ASSUME NEW d \in Clients, d # c, review[d].of = p PROVE p \in contested'
        BY <1>2, <2>3
    <2>4. contested \subseteq contested'
        BY <1>2
    <2>5. \A d \in Clients : d # c => (InReview(d)' <=> InReview(d))
        BY <1>5 DEF InReview
    <2>6. ASSUME NEW d \in Clients, NEW e \in Clients, d # e, InReview(d)', InReview(e)',
                 review'[d].of = review'[e].of
          PROVE  review'[d].of \in contested'
        <3>1. CASE d = c
            BY <1>4, <1>5, <2>3, <2>6, <3>1
        <3>2. CASE e = c
            BY <1>4, <1>5, <2>3, <2>6, <3>2
        <3>3. CASE d # c /\ e # c
            BY <1>5, <2>4, <2>5, <2>6, <3>3 DEF ProposalsInv, ContestsKnown
        <3> QED
            BY <3>1, <3>2, <3>3
    <2>7. ASSUME NEW d \in Clients, InReview(d)', Decided(review[d].of)'
          PROVE  review'[d].of \in contested'
        <3>1. CASE d = c
            BY <1>2, <1>4, <1>5, <2>2, <2>7, <3>1 DEF Decided
        <3>2. CASE d # c
            <4>1. review'[d] = review[d] /\ InReview(d)
                BY <1>5, <2>5, <2>7, <3>2
            <4>2. Decided(review[d].of)
                BY <1>2, <2>7, <4>1 DEF Decided
            <4> QED
                BY <2>4, <4>1, <4>2 DEF ProposalsInv, ContestsKnown
        <3> QED
            BY <3>1, <3>2
    <2> QED
        BY <2>6, <2>7 DEF ContestsKnown
<1>10. DecisionsStand
    BY <1>2 DEF DecisionsStand
<1>11. /\ [Next]_vars /\ EnabledIsVetted'
       /\ origin' \in [Jobs -> Proposals \cup {None}] /\ vetted' \subseteq Jobs
    BY <1>2, VettedFrame
<1> QED
    BY <1>6, <1>7, <1>8, <1>9, <1>10, <1>11 DEF StepsWell

Staged(r, at, content) == [r EXCEPT !.at = at, !.content = content]
Applying(r, at, job) == [r EXCEPT !.at = at, !.job = job, !.content = None]
MarkedApplied(t) == [t EXCEPT !.applied = TRUE]

\* A review that moves to its next step.
LEMMA StagedFields ==
    ASSUME NEW r \in ReviewRecords, NEW at \in ReviewSteps, NEW content \in Plans,
           NEW g, g = Staged(r, at, content)
    PROVE  g \in ReviewRecords /\ g.at = at /\ g.of = r.of /\ g.content = content
BY DEF Staged, ReviewRecords

\* A review that has written its job.
LEMMA ApplyingFields ==
    ASSUME NEW r \in ReviewRecords, NEW at \in ReviewSteps, NEW job \in Jobs,
           NEW g, g = Applying(r, at, job)
    PROVE  g \in ReviewRecords /\ g.at = at /\ g.of = r.of
BY DEF Applying, ReviewRecords, Plans

\* A proposal whose content has been applied.
LEMMA MarkedFields ==
    ASSUME NEW t \in ProposalRecords, NEW f, f = MarkedApplied(t)
    PROVE  /\ f \in ProposalRecords /\ f.status = t.status /\ f.kind = t.kind
           /\ f.target = t.target /\ f.content = t.content /\ f.applied = TRUE
BY DEF MarkedApplied, ProposalRecords

(* A review that goes on without touching a row.                           *)
LEMMA StageSteps ==
    ASSUME ProposalsInv, NEW c \in Clients, InReview(c),
           NEW at \in ReviewSteps \ {"none", "checking", "applied"},
           NEW content \in Plans, at = "applying" => content \in Schedules,
           NEW r, r = Staged(review[c], at, content), review' = [review EXCEPT ![c] = r],
           NEW f, f = proposal[review[c].of],
           proposal' = [proposal EXCEPT ![review[c].of] = f],
           UNCHANGED <<vars, origin, vetted>>, UNCHANGED contested
    PROVE  StepsWell
<1>0. /\ proposal \in [Proposals -> ProposalRecords] /\ review \in [Clients -> ReviewRecords]
      /\ review[c].of \in Proposals
    BY DEF ProposalsInv, ProposalsTypeOK, ReviewsSound
<1>1. PICK p \in Proposals : p = review[c].of
    BY <1>0
<1>2. f \in ProposalRecords /\ f = proposal[p]
    BY <1>0, <1>1
<1>3. PICK g : g = r
    OBVIOUS
<1>4. /\ g \in ReviewRecords /\ g.at = at /\ g.of = p /\ g.content = content
    BY <1>0, <1>1, <1>3, StagedFields
<1>5. review' = [review EXCEPT ![c] = g] /\ proposal' = [proposal EXCEPT ![p] = f]
    BY <1>0, <1>1, <1>2, <1>3
<1>6. /\ proposal' \in [Proposals -> ProposalRecords] /\ review' \in [Clients -> ReviewRecords]
      /\ ProposalsSound' /\ ReviewsSound' /\ ContestsKnown' /\ DecisionsStand
    <2>1. /\ f.status = proposal[p].status /\ f.content = proposal[p].content
          /\ f.kind = proposal[p].kind /\ f.target = proposal[p].target
          /\ f.applied = proposal[p].applied
        BY <1>2
    <2>2. /\ g.at \notin {"none", "checking", "applied"}
          /\ g.at = "applying" => g.content \in Schedules
        BY <1>4
    <2>3. MarkKept(proposal[p], f, g)
        BY <1>2, <2>2 DEF MarkKept
    <2> QED
        BY <1>1, <1>2, <1>4, <1>5, <2>1, <2>2, <2>3, StageEffect
<1>7. /\ [Next]_vars /\ EnabledIsVetted'
      /\ origin' \in [Jobs -> Proposals \cup {None}] /\ vetted' \subseteq Jobs
      /\ contested' \subseteq Proposals
    BY VettedFrame DEF ProposalsInv, ProposalsTypeOK
<1> QED
    BY <1>6, <1>7 DEF StepsWell

(* A review that applies its proposal to job j.                            *)
LEMMA ApplySteps ==
    ASSUME ProposalsInv, NEW c \in Clients, InReview(c), NEW j \in Jobs, Applied(c, j),
           UNCHANGED contested
    PROVE  /\ proposal' \in [Proposals -> ProposalRecords] /\ review' \in [Clients -> ReviewRecords]
           /\ contested' \subseteq Proposals
           /\ ProposalsSound' /\ ReviewsSound' /\ ContestsKnown' /\ DecisionsStand
<1>0. /\ proposal \in [Proposals -> ProposalRecords] /\ review \in [Clients -> ReviewRecords]
      /\ review[c].of \in Proposals /\ contested \subseteq Proposals
    BY DEF ProposalsInv, ProposalsTypeOK, ReviewsSound
<1>1. PICK p \in Proposals : p = review[c].of
    BY <1>0
<1>2. PICK f : f = MarkedApplied(proposal[p])
    OBVIOUS
<1>3. /\ f \in ProposalRecords /\ f.status = proposal[p].status /\ f.kind = proposal[p].kind
      /\ f.target = proposal[p].target /\ f.content = proposal[p].content /\ f.applied = TRUE
    BY <1>0, <1>2, MarkedFields
<1>4. PICK g : g = Applying(review[c], "applied", j)
    OBVIOUS
<1>5. /\ g \in ReviewRecords /\ g.at = "applied" /\ g.of = p
    <2>1. "applied" \in ReviewSteps /\ review[c] \in ReviewRecords
        BY <1>0 DEF ReviewSteps
    <2>2. g \in ReviewRecords /\ g.at = "applied" /\ g.of = review[c].of
        BY <1>4, <2>1, ApplyingFields
    <2> QED
        BY <1>1, <2>2
<1>6. review' = [review EXCEPT ![c] = g] /\ proposal' = [proposal EXCEPT ![p] = f]
    BY <1>0, <1>1, <1>2, <1>4 DEF Applied, Applying, MarkedApplied
<1>7. /\ proposal' \in [Proposals -> ProposalRecords] /\ review' \in [Clients -> ReviewRecords]
      /\ ProposalsSound' /\ ReviewsSound' /\ ContestsKnown' /\ DecisionsStand
    <2>1. MarkKept(proposal[p], f, g)
        BY <1>3 DEF MarkKept
    <2>2. g.at \notin {"none", "checking", "applying"}
        BY <1>5
    <2> QED
        BY <1>1, <1>3, <1>5, <1>6, <2>1, <2>2, StageEffect
<1> QED
    BY <1>0, <1>7

\* Reviews keep the invariant.
LEMMA ReviewingSteps ==
    ASSUME ProposalsInv, NEW c \in Clients, Reviewing(c)
    PROVE  StepsWell
<1>0. /\ review[c] \in ReviewRecords /\ contested \subseteq Proposals
      /\ proposal \in [Proposals -> ProposalRecords]
    BY DEF ProposalsInv, ProposalsTypeOK
<1>1. ASSUME NEW p \in Proposals, NEW step \in {"checking", "rejecting"}, Begin(c, p, step)
      PROVE  StepsWell
    BY <1>1, BeginSteps
<1>2. ASSUME NEW status \in {"approved", "rejected", "apply_failed", "superseded"},
             Decide(c, status), InReview(c), status = "approved" => review[c].at = "applied"
      PROVE  StepsWell
    <2>1. /\ proposal' \in [Proposals -> ProposalRecords]
          /\ review' \in [Clients -> ReviewRecords]
          /\ ProposalsSound' /\ ReviewsSound' /\ ContestsKnown' /\ DecisionsStand
        BY <1>2, DecideEffect
    <2>2. UNCHANGED <<vars, origin, vetted>> /\ contested' = contested
        BY <1>2 DEF Decide
    <2>3. /\ [Next]_vars /\ EnabledIsVetted'
          /\ origin' \in [Jobs -> Proposals \cup {None}] /\ vetted' \subseteq Jobs
        BY <2>2, VettedFrame
    <2> QED
        BY <1>0, <2>1, <2>2, <2>3 DEF StepsWell
<1>3. CASE Reject(c)
    BY <1>2, <1>3 DEF Reject, InReview
<1>4. CASE Supersede(c)
    BY <1>2, <1>4 DEF Supersede, InReview
<1>5. CASE FinishApprove(c)
    <2>1. StatusAfterApply(c) \in {"approved", "apply_failed"}
        BY DEF StatusAfterApply
    <2>2. StatusAfterApply(c) = "approved" => review[c].at = "applied"
        BY DEF StatusAfterApply
    <2>3. InReview(c) /\ Decide(c, StatusAfterApply(c))
        BY <1>5 DEF FinishApprove, InReview
    <2> HIDE DEF StatusAfterApply
    <2> QED
        BY <1>2, <2>1, <2>2, <2>3
<1>6. CASE CheckStale(c)
    <2>1. PICK at : at = IF Stale(review[c].of) THEN "superseding" ELSE "applying"
        OBVIOUS
    <2>2. at \in ReviewSteps \ {"none", "checking", "applied"}
        BY <2>1 DEF ReviewSteps
    <2>3. PICK content \in Plans :
              /\ content = IF Stale(review[c].of) THEN None ELSE review[c].content
              /\ at = "applying" => content \in Schedules
        BY <1>6, <2>1 DEF CheckStale, ProposalsInv, ReviewsSound, InReview, Plans
    <2>4. PICK r : r = Staged(review[c], at, content)
        OBVIOUS
    <2>5. /\ review' = [review EXCEPT ![c] = r] /\ InReview(c)
          /\ UNCHANGED <<vars, origin, vetted>> /\ contested' = contested /\ proposal' = proposal
        BY <1>0, <1>6, <2>1, <2>3, <2>4 DEF CheckStale, InReview, Staged, ReviewRecords
    <2>6. PICK f : f = proposal[review[c].of]
        OBVIOUS
    <2>7. proposal' = [proposal EXCEPT ![review[c].of] = f]
        BY <1>0, <2>5, <2>6
    <2> QED
        BY <2>2, <2>3, <2>4, <2>5, <2>6, <2>7, StageSteps
<1>7. CASE ApplyFails(c)
    <2>1. "failed" \in ReviewSteps \ {"none", "checking", "applied"} /\ None \in Plans
        BY DEF ReviewSteps, Plans
    <2>2. PICK r : r = Staged(review[c], "failed", None)
        OBVIOUS
    <2>3. /\ review' = [review EXCEPT ![c] = r] /\ InReview(c)
          /\ UNCHANGED <<vars, origin, vetted>> /\ contested' = contested /\ proposal' = proposal
        BY <1>7, <2>2 DEF ApplyFails, InReview, Staged
    <2>4. PICK f : f = proposal[review[c].of]
        OBVIOUS
    <2>5. proposal' = [proposal EXCEPT ![review[c].of] = f]
        BY <1>0, <2>3, <2>4
    <2> QED
        BY <2>1, <2>2, <2>3, <2>4, <2>5, StageSteps
<1>8. CASE ApplyUpdate(c)
    <2>1. InReview(c) /\ review[c].of \in Proposals /\ review[c].content \in Schedules
        BY <1>8 DEF ApplyUpdate, InReview, ProposalsInv, ReviewsSound
    <2>2. PICK j : j = proposal[review[c].of].target
        OBVIOUS
    <2>3. PICK s \in Schedules : s = review[c].content
        BY <2>1
    <2>4. /\ row[j] # None /\ Update(c, j, s, row[j].enabled) /\ Applied(c, j)
          /\ proposal[review[c].of].kind = "cron_update"
          /\ origin' = origin /\ vetted' = vetted /\ contested' = contested
        BY <1>8, <2>2, <2>3 DEF ApplyUpdate, Write
    <2>5. j \in Jobs
        BY <2>1, <2>2, <2>4 DEF ProposalsInv, ProposalsSound, ProposalSound
    <2>6. row \in [Jobs -> Rows] /\ row[j] \in [enabled : BOOLEAN, schedule : Schedules]
        BY <2>4, <2>5 DEF ProposalsInv, CronInv, TypeOK, Rows
    <2>7. PICK e \in BOOLEAN : e = row[j].enabled
        BY <2>6
    <2>8. Calling(c)
        BY <2>3, <2>4, <2>5, <2>7 DEF Calling
    <2>9. Next
        BY <2>8 DEF Next
    <2>10. /\ proposal' \in [Proposals -> ProposalRecords] /\ review' \in [Clients -> ReviewRecords]
           /\ contested' \subseteq Proposals
           /\ ProposalsSound' /\ ReviewsSound' /\ ContestsKnown' /\ DecisionsStand
        BY <2>1, <2>4, <2>5, ApplySteps
    <2>11. EnabledIsVetted'
        <3>1. row' = [row EXCEPT ![j] = [row[j] EXCEPT !.schedule = s, !.enabled = e]]
            BY <2>4, <2>7 DEF Update
        <3>2. PICK r : r = [row[j] EXCEPT !.schedule = s, !.enabled = e]
            OBVIOUS
        <3>3. r.enabled = row[j].enabled
            BY <2>6, <2>7, <3>2
        <3>4. row'[j] = r /\ \A k \in Jobs : k # j => row'[k] = row[k]
            BY <2>5, <2>6, <3>1, <3>2
        <3> QED
            BY <2>4, <3>3, <3>4 DEF ProposalsInv, EnabledIsVetted
    <2> QED
        BY <2>4, <2>9, <2>10, <2>11 DEF StepsWell, ProposalsInv, ProposalsTypeOK
<1>9. CASE ApplyNew(c)
    <2>1. InReview(c) /\ review[c].of \in Proposals /\ review[c].content \in Schedules
        BY <1>9 DEF ApplyNew, InReview, ProposalsInv, ReviewsSound
    <2>2. PICK j : j = inserted + 1
        OBVIOUS
    <2>3. PICK s \in Schedules : s = review[c].content
        BY <2>1
    <2>4. PICK p \in Proposals : p = review[c].of
        BY <2>1
    <2>5. /\ Create(c, s, FALSE) /\ Applied(c, j)
          /\ origin' = [origin EXCEPT ![j] = p] /\ vetted' = vetted /\ contested' = contested
        BY <1>9, <2>2, <2>3, <2>4 DEF ApplyNew
    <2>6. j \in Jobs /\ row \in [Jobs -> Rows]
        BY <2>2, <2>5, JobsAssumption DEF Create, ProposalsInv, CronInv, TypeOK, Jobs
    <2>7. FALSE \in BOOLEAN
        OBVIOUS
    <2>8. Calling(c)
        BY <2>5, <2>7 DEF Calling
    <2>9. Next
        BY <2>8 DEF Next
    <2>10. /\ proposal' \in [Proposals -> ProposalRecords] /\ review' \in [Clients -> ReviewRecords]
           /\ contested' \subseteq Proposals
           /\ ProposalsSound' /\ ReviewsSound' /\ ContestsKnown' /\ DecisionsStand
        BY <2>1, <2>5, <2>6, ApplySteps
    <2>11. EnabledIsVetted'
        <3>1. PICK r : r = [enabled |-> FALSE, schedule |-> s]
            OBVIOUS
        <3>2. row' = [row EXCEPT ![j] = r]
            BY <2>2, <2>5, <3>1 DEF Create, InsertedEnabled
        <3>3. row'[j] = r /\ \A k \in Jobs : k # j => row'[k] = row[k]
            BY <2>6, <3>2
        <3> QED
            BY <2>5, <3>1, <3>3 DEF ProposalsInv, EnabledIsVetted
    <2>12. origin' \in [Jobs -> Proposals \cup {None}]
        BY <2>5 DEF ProposalsInv, ProposalsTypeOK
    <2> QED
        BY <2>5, <2>9, <2>10, <2>11, <2>12 DEF StepsWell, ProposalsInv, ProposalsTypeOK
<1> QED
    BY <1>1, <1>3, <1>4, <1>5, <1>6, <1>7, <1>8, <1>9 DEF Reviewing

(* What leaves the proposals and their reviews alone.                      *)
LEMMA ReviewFrame ==
    ASSUME ProposalsInv, UNCHANGED <<proposal, review, contested>>
    PROVE  /\ proposal' \in [Proposals -> ProposalRecords] /\ review' \in [Clients -> ReviewRecords]
           /\ contested' \subseteq Proposals
           /\ ProposalsSound' /\ ReviewsSound' /\ ContestsKnown' /\ DecisionsStand
<1>1. \A p : Decided(p)' <=> Decided(p)
    BY DEF Decided
<1>2. \A c : InReview(c)' <=> InReview(c)
    BY DEF InReview
<1>3. ProposalsSound' /\ ReviewsSound' /\ ContestsKnown'
    BY <1>1, <1>2 DEF ProposalsInv, ProposalsSound, ReviewsSound, ContestsKnown
<1> QED
    BY <1>3 DEF ProposalsInv, ProposalsTypeOK, DecisionsStand

\* The calls of operators keep the invariant.
LEMMA OperatingSteps ==
    ASSUME ProposalsInv, NEW c \in Clients, Operating(c)
    PROVE  StepsWell
<1>0. row \in [Jobs -> Rows] /\ vetted \subseteq Jobs
    BY DEF ProposalsInv, ProposalsTypeOK, CronInv, TypeOK
<1>1. ASSUME NEW s \in Schedules, NEW e \in BOOLEAN, OperatorCreates(c, s, e) PROVE StepsWell
    <2>1. PICK j : j = inserted + 1
        OBVIOUS
    <2>2. /\ Create(c, s, e)
          /\ vetted' = IF e THEN vetted \cup {j} ELSE vetted
          /\ UNCHANGED <<proposal, review, contested>> /\ origin' = origin
        BY <1>1, <2>1 DEF OperatorCreates
    <2>3. j \in Jobs
        BY <2>1, <2>2, JobsAssumption DEF Create, ProposalsInv, CronInv, TypeOK, Jobs
    <2>4. Calling(c)
        BY <2>2 DEF Calling
    <2>5. Next
        BY <2>4 DEF Next
    <2>6. EnabledIsVetted'
        <3>1. PICK r : r = [enabled |-> e, schedule |-> s]
            OBVIOUS
        <3>2. row' = [row EXCEPT ![j] = r]
            BY <2>1, <2>2, <3>1 DEF Create, InsertedEnabled
        <3>3. row'[j] = r /\ \A k \in Jobs : k # j => row'[k] = row[k]
            BY <1>0, <2>3, <3>2
        <3> QED
            BY <2>2, <3>1, <3>3 DEF ProposalsInv, EnabledIsVetted
    <2>7. /\ proposal' \in [Proposals -> ProposalRecords] /\ review' \in [Clients -> ReviewRecords]
          /\ contested' \subseteq Proposals
          /\ ProposalsSound' /\ ReviewsSound' /\ ContestsKnown' /\ DecisionsStand
        BY <2>2, ReviewFrame
    <2> QED
        BY <1>0, <2>2, <2>3, <2>5, <2>6, <2>7 DEF StepsWell, ProposalsInv, ProposalsTypeOK
<1>2. ASSUME NEW j \in Jobs, NEW s \in Schedules, NEW e \in BOOLEAN, OperatorUpdates(c, j, s, e)
      PROVE  StepsWell
    <2>1. /\ Update(c, j, s, e)
          /\ vetted' = IF e THEN vetted \cup {j} ELSE vetted
          /\ UNCHANGED <<proposal, review, contested>> /\ origin' = origin
        BY <1>2 DEF OperatorUpdates
    <2>2. Calling(c)
        BY <2>1 DEF Calling
    <2>3. Next
        BY <2>2 DEF Next
    <2>4. EnabledIsVetted'
        <3>1. PICK r : r = IF row[j] = None THEN None
                           ELSE [row[j] EXCEPT !.schedule = s, !.enabled = e]
            OBVIOUS
        <3>2. row' = [row EXCEPT ![j] = r]
            BY <2>1, <3>1 DEF Update
        <3>3. row'[j] = r /\ \A k \in Jobs : k # j => row'[k] = row[k]
            BY <1>0, <3>2
        <3>4. CASE row[j] = None
            BY <2>1, <3>1, <3>3, <3>4 DEF ProposalsInv, EnabledIsVetted
        <3>5. CASE row[j] # None
            <4>1. row[j] \in [enabled : BOOLEAN, schedule : Schedules]
                BY <1>0, <3>5 DEF Rows
            <4>2. r.enabled = e
                BY <3>1, <3>5, <4>1
            <4> QED
                BY <2>1, <3>3, <4>2 DEF ProposalsInv, EnabledIsVetted
        <3> QED
            BY <3>4, <3>5
    <2>5. /\ proposal' \in [Proposals -> ProposalRecords] /\ review' \in [Clients -> ReviewRecords]
          /\ contested' \subseteq Proposals
          /\ ProposalsSound' /\ ReviewsSound' /\ ContestsKnown' /\ DecisionsStand
        BY <2>1, ReviewFrame
    <2> QED
        BY <1>0, <2>1, <2>3, <2>4, <2>5 DEF StepsWell, ProposalsInv, ProposalsTypeOK
<1>3. ASSUME NEW j \in Jobs, OperatorDeletes(c, j) PROVE StepsWell
    <2>1. Delete(c, j) /\ UNCHANGED <<proposal, review, contested>> /\ origin' = origin
          /\ vetted' = vetted
        BY <1>3 DEF OperatorDeletes, propVars
    <2>2. Calling(c)
        BY <2>1 DEF Calling
    <2>3. Next
        BY <2>2 DEF Next
    <2>4. EnabledIsVetted'
        <3>1. row'[j] = None /\ \A k \in Jobs : k # j => row'[k] = row[k]
            BY <1>0, <2>1 DEF Delete
        <3> QED
            BY <2>1, <3>1 DEF ProposalsInv, EnabledIsVetted
    <2>5. /\ proposal' \in [Proposals -> ProposalRecords] /\ review' \in [Clients -> ReviewRecords]
          /\ contested' \subseteq Proposals
          /\ ProposalsSound' /\ ReviewsSound' /\ ContestsKnown' /\ DecisionsStand
        BY <2>1, ReviewFrame
    <2> QED
        BY <2>1, <2>3, <2>4, <2>5 DEF StepsWell, ProposalsInv, ProposalsTypeOK
<1> QED
    BY <1>1, <1>2, <1>3 DEF Operating

\* The runner's own steps keep the invariant.
LEMMA RunningSteps ==
    ASSUME ProposalsInv, Running
    PROVE  StepsWell
<1>1. UNCHANGED <<proposal, review, contested>> /\ origin' = origin /\ vetted' = vetted
    BY DEF Running, propVars
<1>2. Next /\ row' = row
    <2>1. CASE Starting
        BY <2>1 DEF Next, Starting, StartLoads, StartTicking, StartRegisters, jobVars
    <2>2. ASSUME NEW c \in Clients, Reloading(c) PROVE Next /\ row' = row
        BY <2>2 DEF Next, Reloading, ReloadReads, ReloadFails, ReloadRegisters, jobVars
    <2>3. ASSUME NEW x \in Ticks, LoadRow(x) PROVE Next /\ row' = row
        BY <2>3 DEF Next, Ticking, LoadRow, OnlyTicks, jobVars
    <2>4. ASSUME NEW x \in Ticks, NEW e \in scheduled, Fire(x, e) PROVE Next /\ row' = row
        BY <2>4 DEF Next, Ticking, Fire, OnlyTicks, jobVars
    <2> QED
        BY <2>1, <2>2, <2>3, <2>4 DEF Running
<1>3. EnabledIsVetted'
    BY <1>1, <1>2 DEF ProposalsInv, EnabledIsVetted
<1>4. /\ proposal' \in [Proposals -> ProposalRecords] /\ review' \in [Clients -> ReviewRecords]
      /\ contested' \subseteq Proposals
      /\ ProposalsSound' /\ ReviewsSound' /\ ContestsKnown' /\ DecisionsStand
    BY <1>1, ReviewFrame
<1> QED
    BY <1>1, <1>2, <1>3, <1>4 DEF StepsWell, ProposalsInv, ProposalsTypeOK

\* A restart keeps the invariant.
LEMMA RestartSteps ==
    ASSUME ProposalsInv, RestartReviews
    PROVE  StepsWell
<1>1. /\ review' = [c \in Clients |-> NoReview] /\ proposal' = proposal
      /\ contested' = contested /\ origin' = origin /\ vetted' = vetted
    BY DEF RestartReviews
<1>2. Next /\ row' = row
    BY DEF RestartReviews, Restart, Next, jobVars
<1>3. EnabledIsVetted'
    BY <1>1, <1>2 DEF ProposalsInv, EnabledIsVetted
<1>4. review' \in [Clients -> ReviewRecords] /\ \A c \in Clients : ~InReview(c)'
    BY <1>1, NoReviewFields DEF InReview
<1>5. ProposalsSound' /\ ReviewsSound' /\ ContestsKnown'
    BY <1>1, <1>4 DEF ProposalsInv, ProposalsSound, ReviewsSound, ContestsKnown
<1>6. DecisionsStand
    BY <1>1 DEF DecisionsStand
<1> QED
    BY <1>1, <1>2, <1>3, <1>4, <1>5, <1>6 DEF StepsWell, ProposalsInv, ProposalsTypeOK

\* Stuttering keeps the invariant.
LEMMA StutterSteps ==
    ASSUME ProposalsInv, UNCHANGED allVars
    PROVE  StepsWell
<1>1. /\ UNCHANGED <<vars, origin, vetted>> /\ UNCHANGED <<proposal, review, contested>>
    BY DEF allVars, propVars
<1>2. /\ [Next]_vars /\ EnabledIsVetted'
      /\ origin' \in [Jobs -> Proposals \cup {None}] /\ vetted' \subseteq Jobs
    BY <1>1, VettedFrame
<1>3. /\ proposal' \in [Proposals -> ProposalRecords] /\ review' \in [Clients -> ReviewRecords]
      /\ contested' \subseteq Proposals
      /\ ProposalsSound' /\ ReviewsSound' /\ ContestsKnown' /\ DecisionsStand
    BY <1>1, ReviewFrame
<1> QED
    BY <1>2, <1>3 DEF StepsWell

\* Every step does what is said of the steps of each part.
LEMMA ProposalSteps == ProposalsInv /\ [ProposalsNext]_allVars => StepsWell
BY ProposingSteps, ReviewingSteps, OperatingSteps, RunningSteps, RestartSteps, StutterSteps
   DEF ProposalsNext

\* The initial states satisfy the invariant.
LEMMA ProposalsStart == ProposalsInit => ProposalsInv
<1> SUFFICES ASSUME ProposalsInit PROVE ProposalsInv
    OBVIOUS
<1>1. /\ Init /\ proposal = [p \in Proposals |-> NoProposal]
      /\ review = [c \in Clients |-> NoReview] /\ origin = [j \in Jobs |-> None]
      /\ vetted = {j \in Jobs : row[j] # None} /\ contested = {}
    BY DEF ProposalsInit
<1>2. CronInv
    BY <1>1, InitHolds
<1>3. ProposalsTypeOK
    BY <1>1, NoProposalFields, NoReviewFields DEF ProposalsTypeOK
<1>4. ProposalSound(NoProposal) /\ ProposalsSound
    BY <1>1, NoProposalFields DEF ProposalSound, ProposalsSound, NoProposal
<1>5. \A c \in Clients : ~InReview(c)
    BY <1>1, NoReviewFields DEF InReview
<1>6. ReviewsSound /\ ContestsKnown
    BY <1>5 DEF ReviewsSound, ContestsKnown
<1>7. EnabledIsVetted
    BY <1>1 DEF EnabledIsVetted
<1> QED
    BY <1>2, <1>3, <1>4, <1>6, <1>7 DEF ProposalsInv

\* Every step keeps the invariant.
LEMMA ProposalsStep == ProposalsInv /\ [ProposalsNext]_allVars => ProposalsInv'
<1> SUFFICES ASSUME ProposalsInv, [ProposalsNext]_allVars PROVE ProposalsInv'
    OBVIOUS
<1>1. StepsWell
    BY ProposalSteps
<1>2. CronInv'
    BY <1>1, StepPreserves DEF ProposalsInv, StepsWell
<1> QED
    BY <1>1, <1>2 DEF ProposalsInv, ProposalsTypeOK, StepsWell

-----------------------------------------------------------------------------
(* The theorems *)

(* The inductive invariant holds throughout.                               *)
THEOREM ProposalsInvariance == ProposalsSpec => []ProposalsInv
<1> QED
    BY ProposalsStart, ProposalsStep, PTL DEF ProposalsSpec

(* Every variable keeps its type: a proposal that changes a job names one. *)
THEOREM ProposalsTypeCorrect == ProposalsSpec => []ProposalsTypeOK
<1>1. ProposalsInv => ProposalsTypeOK
    BY DEF ProposalsInv
<1> QED
    BY <1>1, ProposalsInvariance, PTL

(* Proposals, reviews and operators change jobs through the runner's steps *)
(* only.                                                                   *)
THEOREM ProposalsImplementRunner == ProposalsSpec => RunnerSpec
<1>1. ProposalsInit => Init
    BY DEF ProposalsInit
<1>2. ProposalsInv /\ [ProposalsNext]_allVars => [Next]_vars
    BY ProposalSteps DEF StepsWell
<1> QED
    BY <1>1, <1>2, ProposalsInvariance, PTL DEF ProposalsSpec, RunnerSpec, Spec

(* What is proved of the runner holds under proposals: jobs fire on their  *)
(* rows' schedules, whoever has written them, with the two exceptions of   *)
(* SettledEntriesMatchRows: a failed reload, a row that Start read early.  *)
THEOREM AppliedSchedulesConverge == ProposalsSpec => []SettledEntriesMatchRows
BY ProposalsImplementRunner, RegistrationsConverge, PTL DEF RunnerSpec

(* An approved proposal has been applied.                                  *)
THEOREM ApprovalsHaveEffects == ProposalsSpec => []ApprovedWasApplied
<1>1. ProposalsInv => ApprovedWasApplied
    BY DEF ProposalsInv, ProposalsSound, ProposalSound, ApprovedWasApplied
<1> QED
    BY <1>1, ProposalsInvariance, PTL

(* Only jobs that an operator has enabled, or that were seeded, fire.      *)
THEOREM ProposedJobsWaitForOperators == ProposalsSpec => UnvettedJobsDoNotFire
<1>1. ASSUME ProposalsInv, [ProposalsNext]_allVars, NEW x \in Ticks,
             tick[x].at = "fired", tick'[x].at = "loaded"
      PROVE  tick[x].job \in vetted
    <2>1. tick \in [Ticks -> TickRecords] /\ tick[x].job \in Jobs
        BY <1>1 DEF ProposalsInv, CronInv, TypeOK, TicksSound, TickSound, TickRecords
    <2>2. tick'[x].at # tick[x].at
        BY <1>1
    <2>3. PICK y \in Ticks : LoadRow(y) \/ \E e \in scheduled : Fire(y, e)
        <3>1. ASSUME NEW p \in Proposals, Proposing(p) PROVE tick' = tick
            BY <3>1 DEF Proposing, CheckDuplicate, CheckNewDuplicate, Propose, UpdateDraft, vars
        <3>2. ASSUME NEW c \in Clients, Reviewing(c) PROVE tick' = tick
            BY <3>2 DEF Reviewing, Begin, Reject, CheckStale, Supersede, ApplyUpdate, ApplyNew,
                        ApplyFails, FinishApprove, Decide, Write, Update, Create, vars
        <3>3. ASSUME NEW c \in Clients, Operating(c) PROVE tick' = tick
            BY <3>3 DEF Operating, OperatorCreates, OperatorUpdates, OperatorDeletes,
                        Create, Update, Delete
        <3>4. CASE Starting \/ \E c \in Clients : Reloading(c)
            BY <2>2, <3>4 DEF Starting, StartLoads, StartTicking, StartRegisters,
                              Reloading, ReloadReads, ReloadFails, ReloadRegisters
        <3>5. CASE RestartReviews
            <4>1. PICK lost : lost = [Unfired EXCEPT !.at = "lost"]
                OBVIOUS
            <4>2. lost.at = "lost"
                BY <4>1 DEF Unfired
            <4>3. tick'[x] = tick[x] \/ tick'[x] = lost
                BY <3>5, <4>1 DEF RestartReviews, Restart
            <4> QED
                BY <1>1, <2>2, <4>2, <4>3
        <3>6. CASE UNCHANGED allVars
            BY <2>2, <3>6 DEF allVars, vars
        <3> QED
            BY <1>1, <2>2, <3>1, <3>2, <3>3, <3>4, <3>5, <3>6 DEF ProposalsNext, Running
    <2>4. ASSUME NEW t, t.at # "loaded", tick' = [tick EXCEPT ![y] = t] PROVE FALSE
        BY <1>1, <2>1, <2>2, <2>4
    <2>5. LoadRow(y)
        <3> SUFFICES ASSUME NEW e \in scheduled, Fire(y, e) PROVE FALSE
            BY <2>3
        <3>1. PICK t : t = [tick[y] EXCEPT !.at = "fired", !.job = e.job]
            OBVIOUS
        <3>2. t.at # "loaded"
            BY <2>1, <3>1 DEF TickRecords
        <3> QED
            BY <2>4, <3>1, <3>2 DEF Fire
    <2>6. y = x
        BY <1>1, <2>1, <2>2, <2>5 DEF LoadRow
    <2>7. MayRun(row[tick[x].job])
        <3> SUFFICES ASSUME ~MayRun(row[tick[x].job]) PROVE FALSE
            OBVIOUS
        <3>1. PICK t : t = [tick[y] EXCEPT !.at = "skipped"]
            OBVIOUS
        <3>2. t.at # "loaded"
            BY <2>1, <3>1 DEF TickRecords
        <3> QED
            BY <2>4, <2>5, <2>6, <3>1, <3>2 DEF LoadRow
    <2> QED
        BY <1>1, <2>1, <2>7 DEF MayRun, ProposalsInv, EnabledIsVetted
<1>2. ProposalsInv /\ [ProposalsNext]_allVars =>
         [\A x \in Ticks :
             tick[x].at = "fired" /\ tick'[x].at = "loaded" => tick[x].job \in vetted]_allVars
    BY <1>1
<1> QED
    BY <1>2, ProposalsInvariance, PTL DEF ProposalsSpec, UnvettedJobsDoNotFire

(* A decision that was never contested stands.                             *)
THEOREM DecisionsStandUncontested == ProposalsSpec => UncontestedDecisionsStand
<1>1. ProposalsInv /\ [ProposalsNext]_allVars =>
         [\A p \in Proposals :
             Decided(p) /\ p \notin contested' => proposal'[p].status = proposal[p].status]_allVars
    BY ProposalSteps DEF StepsWell, DecisionsStand
<1> QED
    BY <1>1, ProposalsInvariance, PTL DEF ProposalsSpec, UncontestedDecisionsStand

=============================================================================
