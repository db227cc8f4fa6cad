--------------------------- MODULE AlertIncidents ---------------------------
(***************************************************************************)
(* The life of alert-sourced incidents and of the alerts linked to them:   *)
(* ingestion and correlation (alert_processor.go, alert_correlator.go),    *)
(* resolution, closing and moving (incident_service.go), the merge pass    *)
(* (incident_merger.go) and the two sweeps (monitor_sweep_service.go,      *)
(* stale_close_service.go).                                                *)
(*                                                                         *)
(* All of it is PostgreSQL transactions at READ COMMITTED.  incident and   *)
(* alert are the committed rows; a transaction's own uncommitted writes    *)
(* and its row locks are part of its entry in tx.  One action is one       *)
(* statement, or the last statement together with the commit; a statement  *)
(* runs once the row locks it needs are free.                              *)
(*                                                                         *)
(* Incidents are numbered in the order of started_at.                      *)
(***************************************************************************)
EXTENDS Naturals, FiniteSets

CONSTANTS
    MaxIncidents,   \* bound: incident rows
    MaxAlerts,      \* bound: alert rows
    Keys,           \* (source_uuid, source_fingerprint) pairs that fire
    Txs,            \* transaction slots: bound on concurrent transactions
    Mentioned,      \* incidents whose Slack threads are mentioned in
    ClosedByHand,   \* incidents that operators close
    MovedTo,        \* incidents that operators move alerts to
    Operations      \* which other optional operations take part

ASSUME MaxIncidentsAssumption == MaxIncidents \in Nat \ {0}
ASSUME MaxAlertsAssumption == MaxAlerts \in Nat \ {0}
ASSUME ProcsAssumption == Keys \cap Txs = {}
ASSUME OperationsAssumption ==
    Operations \subseteq
        {"merge", "unlink", "sweep", "stale", "expire", "settingsError", "restart"}

Incidents == 1..MaxIncidents
Alerts == 1..MaxAlerts
NoIncident == 0
NoAlert == 0
NoKey == "none"
Procs == Keys \cup Txs

ASSUME InputsAssumption ==
    Mentioned \subseteq Incidents /\ ClosedByHand \subseteq Incidents /\ MovedTo \subseteq Incidents

VARIABLES
    incident,       \* incident rows
    alert,          \* alert rows
    ingest,         \* the singleflight leader that handles each firing key
    tx,             \* the other transactions in progress
    investigating,  \* incidents whose waiter has yet to report
    mergePasses,    \* EvaluateAndMerge goroutines that have not started
    survivors       \* history: incidents that others have been merged into

vars == <<incident, alert, ingest, tx, investigating, mergePasses, survivors>>

-----------------------------------------------------------------------------
(* Rows and transactions *)

IncidentRows ==
    [status : {"absent", "pending", "running", "completed", "monitor",
               "failed", "closed", "merged"},
     into : Incidents \cup {NoIncident},    \* merged_into_uuid
     threaded : BOOLEAN,                    \* has a Slack thread
     watched : BOOLEAN,                     \* monitor_until has not passed
     quiet : BOOLEAN]                       \* started_at and completed_at before the cutoff

AlertRows ==
    [state : {"absent", "firing", "resolved"},
     key : Keys \cup {NoKey},
     incident : Incidents \cup {NoIncident},
     quiet : BOOLEAN]                       \* fired_at and last_seen_at before the cutoff

IngestStates ==
    [at : {"idle", "linking", "inserting", "spawning", "claiming", "cancelling", "launching"},
     incident : Incidents \cup {NoIncident}]

TxStates ==
    [at : {"none",
           "found", "marked", "counted",    \* ResolveAlertTx
           "completing",                    \* UpdateIncidentComplete
           "closing",                       \* CloseIncident
           "evaluated", "merging",          \* IncidentMerger
           "moving", "unlinking", "starting", \* MoveAlertToIncident
           "sweeping",                      \* MonitorSweepService
           "listed", "batch", "update"},    \* StaleCloseService
     incident : Incidents \cup {NoIncident},
     other : Incidents \cup {NoIncident},
     alert : Alerts \cup {NoAlert},
     marked : SUBSET Alerts,                \* set resolved, not committed
     batch : SUBSET Incidents,
     write : {"none", "completed", "monitor", "failed"}]

NoTx == [at |-> "none", incident |-> NoIncident, other |-> NoIncident,
         alert |-> NoAlert, marked |-> {}, batch |-> {}, write |-> "none"]
NotIngesting == [at |-> "idle", incident |-> NoIncident]

TypeOK ==
    /\ incident \in [Incidents -> IncidentRows]
    /\ alert \in [Alerts -> AlertRows]
    /\ ingest \in [Keys -> IngestStates]
    /\ \A k \in Keys : ingest[k].at \in {"idle", "spawning"} <=> ingest[k].incident = NoIncident
    /\ tx \in [Txs -> TxStates]
    /\ investigating \subseteq Incidents
    /\ mergePasses \subseteq Incidents
    /\ survivors \subseteq Incidents

Init ==
    /\ incident = [i \in Incidents |-> [status |-> "absent", into |-> NoIncident,
                                        threaded |-> FALSE, watched |-> FALSE,
                                        quiet |-> FALSE]]
    /\ alert = [a \in Alerts |-> [state |-> "absent", key |-> NoKey,
                                  incident |-> NoIncident, quiet |-> FALSE]]
    /\ ingest = [k \in Keys |-> NotIngesting]
    /\ tx = [t \in Txs |-> NoTx]
    /\ investigating = {}
    /\ mergePasses = {}
    /\ survivors = {}

Linked(i) == {a \in Alerts : alert[a].incident = i}
Firing(i) == {a \in Linked(i) : alert[a].state = "firing"}
FiringOfKey(k) == {a \in Alerts : alert[a].state = "firing" /\ alert[a].key = k}
Finished(i) == incident[i].status \in {"completed", "monitor"}
Expired(i) == incident[i].status = "monitor" /\ ~incident[i].watched

(* staleIncidentCond *)
Stale(i) == incident[i].quiet /\ \A a \in Linked(i) : alert[a].quiet

(* liveTargetCond *)
LiveTarget(i) ==
    \/ incident[i].status \in {"pending", "running"}
    \/ incident[i].status = "monitor" /\ incident[i].watched
    \/ incident[i].status = "completed" /\ Firing(i) # {}

(* loadLinkTargetTx follows merged_into_uuid, linkRedirectMaxHops times. *)
Hop(i) ==
    IF incident[i].status = "merged" /\ incident[i].into # NoIncident THEN incident[i].into ELSE i

LinkTargetItself(i) == i
LinkTarget(i) == Hop(Hop(Hop(Hop(Hop(i)))))

Resolved(as) == [a \in Alerts |-> IF a \in as THEN [alert[a] EXCEPT !.state = "resolved"]
                                              ELSE alert[a]]
Closed(is) == [i \in Incidents |->
                 IF i \in is THEN [incident[i] EXCEPT !.status = "closed", !.watched = FALSE]
                             ELSE incident[i]]

-----------------------------------------------------------------------------
(* Row locks *)

HeldAlerts(p) == IF p \in Txs THEN tx[p].marked ELSE {}

HeldIncidents(p) ==
    IF p \in Keys
    THEN IF ingest[p].at = "inserting" THEN {ingest[p].incident} ELSE {}
    ELSE CASE tx[p].at \in {"counted", "completing", "closing"} -> {tx[p].incident}
           [] tx[p].at = "merging" -> {tx[p].incident, tx[p].other}
           [] OTHER -> {}

(* A move goes on if its alert still belongs to the incident read before.  *)
NotMoved(t) == alert[tx[t].alert].incident = tx[t].incident

(* What the next statement of p writes or locks.  An insert waits for      *)
(* whoever is about to take the row of its key out of uniq_firing_alert.   *)
NeededAlerts(p) ==
    IF p \in Keys
    THEN IF ingest[p].at \in {"inserting", "claiming"} THEN FiringOfKey(p) ELSE {}
    ELSE CASE tx[p].at \in {"found", "moving", "unlinking"} -> {tx[p].alert}
           [] tx[p].at \in {"closing", "listed"} -> UNION {Firing(i) : i \in tx[p].batch}
           [] tx[p].at = "merging" -> Linked(tx[p].incident)
           [] OTHER -> {}

NeededIncidents(p) ==
    IF p \in Keys
    THEN CASE ingest[p].at = "linking" -> {LinkTarget(ingest[p].incident)}
           [] ingest[p].at \in {"cancelling", "launching"} -> {ingest[p].incident}
           [] OTHER -> {}
    ELSE CASE tx[p].at = "marked" -> {tx[p].incident}
           [] tx[p].at = "evaluated" -> {tx[p].incident, tx[p].other}
           [] tx[p].at = "moving" -> IF tx[p].write = "monitor" THEN {tx[p].other} ELSE {}
           [] tx[p].at = "unlinking" -> IF NotMoved(p) THEN {} ELSE {tx[p].other}
           [] tx[p].at = "starting" -> {tx[p].other}
           [] tx[p].at = "sweeping" -> {i \in Incidents : Expired(i)}
           [] tx[p].at = "update" -> tx[p].batch
           [] OTHER -> {}

IncidentFree(i) == \A p \in Procs : i \notin HeldIncidents(p)
AlertFree(a) == \A p \in Procs : a \notin HeldAlerts(p)

Blocks(q, p) ==
    /\ q # p
    /\ \/ NeededAlerts(p) \cap HeldAlerts(q) # {}
       \/ NeededIncidents(p) \cap HeldIncidents(q) # {}

(* Nobody blocks p; what it needs is evaluated once.                       *)
Granted(p) ==
    LET alerts == NeededAlerts(p)
        incidents == NeededIncidents(p)
    IN  alerts \cup incidents # {} =>
            \A q \in Procs \ {p} : /\ alerts \cap HeldAlerts(q) = {}
                                    /\ incidents \cap HeldIncidents(q) = {}

(* A set of transactions each of which waits for another one of the set.   *)
Deadlocked(p) ==
    ~Granted(p) /\ \E S \in SUBSET {x \in Procs : ~Granted(x)} :
        /\ p \in S
        /\ \A x \in S : (\E y \in S : Blocks(y, x)) /\ (\E y \in S : Blocks(x, y))

-----------------------------------------------------------------------------
(* Ingestion of a firing alert: processAlert.  The singleflight group lets *)
(* one goroutine per key through.                                          *)

RowToInsert ==                      \* bound: every insert that begins finds a row
    Cardinality({q \in Keys : ingest[q].at # "idle"})
        < Cardinality({a \in Alerts : alert[a].state = "absent"})

(* The fingerprint fast path and the LLM differ only in which live         *)
(* incident they pick; either may also find none, or fail.                 *)
Correlate(k) ==
    /\ ingest[k].at = "idle"
    /\ RowToInsert
    /\ \/ \E i \in Incidents :
             /\ LiveTarget(i)
             /\ ingest' = [ingest EXCEPT ![k] = [at |-> "linking", incident |-> i]]
       \/ ingest' = [ingest EXCEPT ![k].at = "spawning"]
    /\ UNCHANGED <<incident, alert, tx, investigating, mergePasses, survivors>>

LockTarget(k) ==
    /\ ingest[k].at = "linking"
    /\ Granted(k)
    /\ ingest' = [ingest EXCEPT ![k] =
                    [at |-> "inserting",
                     incident |-> LinkTarget(ingest[k].incident)]]
    /\ UNCHANGED <<incident, alert, tx, investigating, mergePasses, survivors>>

(* Fail-open: any error of LinkAlertToIncident spawns a new investigation. *)
LinkFails(k) ==
    /\ ingest[k].at = "linking"
    /\ ingest' = [ingest EXCEPT ![k] = [at |-> "spawning", incident |-> NoIncident]]
    /\ UNCHANGED <<incident, alert, tx, investigating, mergePasses, survivors>>

(* ON CONFLICT DO NOTHING on uniq_firing_alert, then bumpAlertLastSeen.    *)
(* fired_at is the source's start time, which may be long past.            *)
Bump(k) ==
    /\ FiringOfKey(k) # {}
    /\ alert' = [a \in Alerts |-> IF a \in FiringOfKey(k)
                                  THEN [alert[a] EXCEPT !.quiet = FALSE] ELSE alert[a]]

InsertAlert(k, i) ==
    /\ FiringOfKey(k) = {}
    /\ \E a \in Alerts, quiet \in {FALSE, "stale" \in Operations} :
          /\ alert[a].state = "absent"
          /\ \A b \in Alerts : b < a => alert[b].state # "absent"
          /\ alert' = [alert EXCEPT ![a] = [state |-> "firing", key |-> k,
                                            incident |-> i, quiet |-> quiet]]

(* LinkAlertToIncident from the insert to the commit. *)
Link(k) ==
    LET i == ingest[k].incident IN
    /\ ingest[k].at = "inserting"
    /\ Granted(k)
    /\ \/ Bump(k) /\ UNCHANGED incident
       \/ /\ InsertAlert(k, i)
          /\ incident' = IF incident[i].status = "monitor"
                         THEN [incident EXCEPT ![i].watched = TRUE] ELSE incident
    /\ ingest' = [ingest EXCEPT ![k] = NotIngesting]
    /\ UNCHANGED <<tx, investigating, mergePasses, survivors>>

(* SpawnIncidentManager.  When it fails the alert is dropped.               *)
SpawnRow(i) ==
    /\ incident[i].status = "absent"
    /\ \A j \in Incidents : j < i => incident[j].status # "absent"
    /\ incident' = [incident EXCEPT ![i].status = "pending"]

Spawn(k) ==
    /\ ingest[k].at = "spawning"
    /\ \/ \E i \in Incidents :
             /\ SpawnRow(i)
             /\ ingest' = [ingest EXCEPT ![k] = [at |-> "claiming", incident |-> i]]
       \/ ingest' = [ingest EXCEPT ![k] = NotIngesting] /\ UNCHANGED incident
    /\ UNCHANGED <<alert, tx, investigating, mergePasses, survivors>>

(* InsertFiringAlert: conflicts, fails or inserts.  Only an alert that was *)
(* claimed gets a Slack thread.                                            *)
AfterConflictLaunched == "launching"
AfterConflict == "cancelling"

Claim(k) ==
    /\ ingest[k].at = "claiming"
    /\ Granted(k)
    /\ \/ /\ Bump(k) \/ UNCHANGED alert
          /\ ingest' = [ingest EXCEPT ![k].at = AfterConflict]
          /\ UNCHANGED incident
       \/ /\ InsertAlert(k, ingest[k].incident)
          /\ ingest' = [ingest EXCEPT ![k].at = "launching"]
          /\ incident' = [incident EXCEPT ![ingest[k].incident].threaded = TRUE]
    /\ UNCHANGED <<tx, investigating, mergePasses, survivors>>

(* UpdateIncidentStatus(failed) for the duplicate. *)
Cancel(k) ==
    LET i == ingest[k].incident IN
    /\ ingest[k].at = "cancelling"
    /\ Granted(k)
    /\ incident' = [incident EXCEPT ![i].status = "failed", ![i].quiet = FALSE]
    /\ ingest' = [ingest EXCEPT ![k] = NotIngesting]
    /\ UNCHANGED <<alert, tx, investigating, mergePasses, survivors>>

(* UpdateIncidentStatus(running), then runInvestigation. *)
Launch(k) ==
    LET i == ingest[k].incident IN
    /\ ingest[k].at = "launching"
    /\ Granted(k)
    /\ incident' = [incident EXCEPT ![i].status = "running"]
    /\ investigating' = investigating \cup {i}
    /\ ingest' = [ingest EXCEPT ![k] = NotIngesting]
    /\ UNCHANGED <<alert, tx, mergePasses, survivors>>

IngestStep(k) == LockTarget(k) \/ LinkFails(k) \/ Link(k) \/ Spawn(k)
                 \/ Claim(k) \/ Cancel(k) \/ Launch(k)

-----------------------------------------------------------------------------
(* The investigation *)

(* A mention in the Slack thread of an incident starts another run. *)
Resume(i) ==
    /\ i \in Mentioned
    /\ incident[i].threaded
    /\ IncidentFree(i)
    /\ incident' = [incident EXCEPT ![i].status = "running"]
    /\ investigating' = investigating \cup {i}
    /\ UNCHANGED <<alert, ingest, tx, mergePasses, survivors>>

(* UpdateIncidentComplete locks the incident and counts.                   *)
CompletedStatusUncounted(i) == "monitor"
CompletedStatus(i) == IF Firing(i) = {} THEN "monitor" ELSE "completed"

BeginComplete(t, i, status) ==
    /\ tx[t].at = "none"
    /\ i \in investigating
    /\ IncidentFree(i)
    /\ investigating' = investigating \ {i}
    /\ tx' = [tx EXCEPT ![t] = [NoTx EXCEPT !.at = "completing", !.incident = i,
                                            !.write = status]]
    /\ UNCHANGED <<incident, alert, ingest, mergePasses, survivors>>

Complete(t, i) == BeginComplete(t, i, CompletedStatus(i))
Fail(t, i) == BeginComplete(t, i, "failed")

(* ... and writes.  A successful one starts the merge pass.                *)
CommitComplete(t) ==
    LET i == tx[t].incident
        s == tx[t].write
    IN  /\ tx[t].at = "completing"
        /\ incident' = [incident EXCEPT ![i].status = s, ![i].quiet = FALSE,
                                        ![i].watched = IF s = "monitor" THEN TRUE ELSE @]
        /\ mergePasses' = IF "merge" \in Operations /\ s # "failed"
                          THEN mergePasses \cup {i} ELSE mergePasses
        /\ tx' = [tx EXCEPT ![t] = NoTx]
        /\ UNCHANGED <<alert, ingest, investigating, survivors>>

-----------------------------------------------------------------------------
(* Resolution: ResolveAlertTx and its two callers *)

(* processResolvedAlert finds the row without locking it. *)
FindFiring(t) ==
    /\ tx[t].at = "none"
    /\ \E a \in Alerts :
          /\ alert[a].state = "firing"
          /\ tx' = [tx EXCEPT ![t] = [NoTx EXCEPT !.at = "found", !.alert = a,
                                                  !.incident = alert[a].incident]]
    /\ UNCHANGED <<incident, alert, ingest, investigating, mergePasses, survivors>>

MarkResolved(t) ==
    /\ tx[t].at = "found"
    /\ Granted(t)
    /\ tx' = [tx EXCEPT ![t].at = "marked", ![t].marked = {tx[t].alert}]
    /\ UNCHANGED <<incident, alert, ingest, investigating, mergePasses, survivors>>

(* ResolveAlert locks the row first. *)
LockAndMark(t) ==
    /\ tx[t].at = "none"
    /\ \E a \in Alerts :
          /\ alert[a].state = "firing"
          /\ AlertFree(a)
          /\ tx' = [tx EXCEPT ![t] = [NoTx EXCEPT !.at = "marked", !.alert = a, !.marked = {a},
                                                  !.incident = alert[a].incident]]
    /\ UNCHANGED <<incident, alert, ingest, investigating, mergePasses, survivors>>

(* The firing alerts a transaction counts: committed rows and its own      *)
(* writes, under the incident's lock.                                      *)
CountedAll(t, i) == Firing(i)
Counted(t, i) == Firing(i) \ tx[t].marked

CountFiring(t) ==
    LET i == tx[t].incident
        last == incident[i].status = "completed" /\ Counted(t, i) = {}
    IN  /\ tx[t].at = "marked"
        /\ Granted(t)
        /\ \/ tx' = [tx EXCEPT ![t].at = "counted",
                               ![t].write = IF last THEN "monitor" ELSE "none"]
           \/ /\ "settingsError" \in Operations /\ last
              /\ tx' = [tx EXCEPT ![t].at = "counted"]
        /\ UNCHANGED <<incident, alert, ingest, investigating, mergePasses, survivors>>

(* Promotes, or shortens a window that has not passed: it stays open. *)
CommitResolve(t) ==
    LET i == tx[t].incident IN
    /\ tx[t].at = "counted"
    /\ alert' = Resolved(tx[t].marked)
    /\ incident' = IF tx[t].write = "monitor"
                   THEN [incident EXCEPT ![i].status = "monitor", ![i].watched = TRUE]
                   ELSE incident
    /\ tx' = [tx EXCEPT ![t] = NoTx]
    /\ UNCHANGED <<ingest, investigating, mergePasses, survivors>>

-----------------------------------------------------------------------------
(* CloseIncident, confirmed wherever it has to be *)

BeginClose(t, i) ==
    /\ i \in ClosedByHand
    /\ tx[t].at = "none"
    /\ incident[i].status \notin {"absent", "closed"}
    /\ IncidentFree(i)
    /\ tx' = [tx EXCEPT ![t] = [NoTx EXCEPT !.at = "closing", !.incident = i,
                                            !.batch = IF Firing(i) # {} THEN {i} ELSE {}]]
    /\ UNCHANGED <<incident, alert, ingest, investigating, mergePasses, survivors>>

CommitClose(t) ==
    /\ tx[t].at = "closing"
    /\ Granted(t)
    /\ alert' = Resolved(UNION {Firing(i) : i \in tx[t].batch})
    /\ incident' = Closed({tx[t].incident})
    /\ tx' = [tx EXCEPT ![t] = NoTx]
    /\ UNCHANGED <<ingest, investigating, mergePasses, survivors>>

-----------------------------------------------------------------------------
(* The merge pass *)

(* fetchMergeCandidates: "merges always flow newer -> older". *)
MayMerge(i, j) == j < i /\ Finished(i) /\ Finished(j)

EvaluateMerge(t, i, j) ==
    /\ tx[t].at = "none"
    /\ i \in mergePasses
    /\ MayMerge(i, j)
    /\ mergePasses' = mergePasses \ {i}
    /\ tx' = [tx EXCEPT ![t] = [NoTx EXCEPT !.at = "evaluated", !.incident = i, !.other = j]]
    /\ UNCHANGED <<incident, alert, ingest, investigating, survivors>>

(* mergeIncidents locks both rows and checks them again. *)
StillMergeable(i, j) == Finished(i) /\ Finished(j)

LockMerge(t) ==
    /\ tx[t].at = "evaluated"
    /\ Granted(t)
    /\ tx' = [tx EXCEPT ![t] = IF StillMergeable(tx[t].incident, tx[t].other)
                               THEN [@ EXCEPT !.at = "merging"] ELSE NoTx]
    /\ UNCHANGED <<incident, alert, ingest, investigating, mergePasses, survivors>>

CommitMerge(t) ==
    LET i == tx[t].incident
        j == tx[t].other
    IN  /\ tx[t].at = "merging"
        /\ Granted(t)
        /\ alert' = [a \in Alerts |-> IF a \in Linked(i) THEN [alert[a] EXCEPT !.incident = j]
                                                         ELSE alert[a]]
        /\ incident' = [x \in Incidents |->
              IF x = i THEN [incident[x] EXCEPT !.status = "merged", !.into = j, !.watched = FALSE]
              ELSE IF x = j /\ incident[x].status = "monitor"
                   THEN [incident[x] EXCEPT !.watched = TRUE] ELSE incident[x]]
        /\ tx' = [tx EXCEPT ![t] = NoTx]
        /\ survivors' = survivors \cup {j}
        /\ UNCHANGED <<ingest, investigating, mergePasses>>

-----------------------------------------------------------------------------
(* MoveAlertToIncident *)

ReadMove(t, a, i) ==
    /\ i \in MovedTo
    /\ tx[t].at = "none"
    /\ alert[a].state # "absent"
    /\ incident[i].status # "absent"
    /\ alert[a].incident # i
    /\ tx' = [tx EXCEPT ![t] =
                [NoTx EXCEPT !.at = "moving", !.alert = a, !.incident = alert[a].incident,
                             !.other = i,
                             !.write = IF incident[i].status = "monitor" THEN "monitor" ELSE "none"]]
    /\ UNCHANGED <<incident, alert, ingest, investigating, mergePasses, survivors>>

CommitMove(t) ==
    LET j == tx[t].other IN
    /\ tx[t].at = "moving"
    /\ Granted(t)
    /\ \/ /\ NotMoved(t)
          /\ alert' = [alert EXCEPT ![tx[t].alert].incident = j]
          /\ incident' = IF tx[t].write = "monitor"
                         THEN [incident EXCEPT ![j].watched = TRUE] ELSE incident
       \/ ~NotMoved(t) /\ UNCHANGED <<alert, incident>>
    /\ tx' = [tx EXCEPT ![t] = NoTx]
    /\ UNCHANGED <<ingest, investigating, mergePasses, survivors>>

(* Unlinking spawns the new incident before the alert is locked. *)
SpawnUnlinked(t, a) ==
    /\ "unlink" \in Operations
    /\ tx[t].at = "none"
    /\ alert[a].state # "absent"
    /\ \E i \in Incidents :
          /\ SpawnRow(i)
          /\ tx' = [tx EXCEPT ![t] = [NoTx EXCEPT !.at = "unlinking", !.alert = a, !.other = i,
                                                  !.incident = alert[a].incident]]
    /\ UNCHANGED <<alert, ingest, investigating, mergePasses, survivors>>

CommitUnlink(t) ==
    LET j == tx[t].other IN
    /\ tx[t].at = "unlinking"
    /\ Granted(t)
    /\ \/ /\ NotMoved(t)
          /\ alert' = [alert EXCEPT ![tx[t].alert].incident = j]
          /\ tx' = [tx EXCEPT ![t].at = "starting"]
          /\ UNCHANGED incident
       \/ /\ ~NotMoved(t)
          /\ incident' = [incident EXCEPT ![j].status = "failed"]
          /\ tx' = [tx EXCEPT ![t] = NoTx]
          /\ UNCHANGED alert
    /\ UNCHANGED <<ingest, investigating, mergePasses, survivors>>

(* runAgentInvestigation *)
StartUnlinked(t) ==
    LET j == tx[t].other IN
    /\ tx[t].at = "starting"
    /\ Granted(t)
    /\ incident' = [incident EXCEPT ![j].status = "running"]
    /\ investigating' = investigating \cup {j}
    /\ tx' = [tx EXCEPT ![t] = NoTx]
    /\ UNCHANGED <<alert, ingest, mergePasses, survivors>>

-----------------------------------------------------------------------------
(* The sweeps *)

(* RunSweep: resolve the alerts that still fire on expired incidents ... *)
SweptOnlyQuiet == {i \in Incidents : Expired(i) /\ Firing(i) = {}}
Swept == {i \in Incidents : Expired(i)}

SweepAlerts(t) ==
    LET firing == UNION {Firing(i) : i \in Swept} IN
    /\ "sweep" \in Operations
    /\ tx[t].at = "none"
    /\ Swept # {}
    /\ \A a \in firing : AlertFree(a)
    /\ tx' = [tx EXCEPT ![t] = [NoTx EXCEPT !.at = "sweeping", !.marked = firing]]
    /\ UNCHANGED <<incident, alert, ingest, investigating, mergePasses, survivors>>

(* ... then close what is expired by then. *)
SweepIncidents(t) ==
    /\ tx[t].at = "sweeping"
    /\ Granted(t)
    /\ alert' = Resolved(tx[t].marked)
    /\ incident' = Closed(Swept)
    /\ tx' = [tx EXCEPT ![t] = NoTx]
    /\ UNCHANGED <<ingest, investigating, mergePasses, survivors>>

(* StaleCloseService.Run: findCandidates, then the two statements of       *)
(* closeBatch.  The second reads the alerts in the snapshot it starts with,*)
(* and keeps that snapshot while it waits for the rows it found: of those  *)
(* only the columns of the row itself are looked at again.                 *)
ListStale(t) ==
    LET stale == {i \in Incidents : Finished(i) /\ incident[i].into = NoIncident /\ Stale(i)} IN
    /\ "stale" \in Operations
    /\ tx[t].at = "none"
    /\ stale # {}
    /\ tx' = [tx EXCEPT ![t] = [NoTx EXCEPT !.at = "listed", !.batch = stale]]
    /\ UNCHANGED <<incident, alert, ingest, investigating, mergePasses, survivors>>

StaleAlerts(t) ==
    /\ tx[t].at = "listed"
    /\ Granted(t)
    /\ tx' = [tx EXCEPT ![t].at = "batch",
                        ![t].marked = UNION {Firing(i) : i \in tx[t].batch}]
    /\ UNCHANGED <<incident, alert, ingest, investigating, mergePasses, survivors>>

FindStale(t) ==
    /\ tx[t].at = "batch"
    /\ tx' = [tx EXCEPT ![t].at = "update",
                        ![t].batch = {i \in @ : Finished(i) /\ Stale(i)}]
    /\ UNCHANGED <<incident, alert, ingest, investigating, mergePasses, survivors>>

CloseStale(t) ==
    /\ tx[t].at = "update"
    /\ Granted(t)
    /\ alert' = Resolved(tx[t].marked)
    /\ incident' = Closed({i \in tx[t].batch : Finished(i) /\ incident[i].quiet})
    /\ tx' = [tx EXCEPT ![t] = NoTx]
    /\ UNCHANGED <<ingest, investigating, mergePasses, survivors>>

-----------------------------------------------------------------------------
(* Time, deadlocks and restarts *)

(* A sweep compares with the instant it began at. *)
Expire(i) ==
    /\ "expire" \in Operations
    /\ incident[i].watched
    /\ \A t \in Txs : tx[t].at # "sweeping"
    /\ incident' = [incident EXCEPT ![i].watched = FALSE]
    /\ UNCHANGED <<alert, ingest, tx, investigating, mergePasses, survivors>>

Age ==
    /\ "stale" \in Operations
    /\ \A t \in Txs : tx[t].at \notin {"listed", "batch", "update"}
    /\ incident' = [i \in Incidents |-> IF incident[i].status = "absent" THEN incident[i]
                                         ELSE [incident[i] EXCEPT !.quiet = TRUE]]
    /\ alert' = [a \in Alerts |-> IF alert[a].state = "absent" THEN alert[a]
                                   ELSE [alert[a] EXCEPT !.quiet = TRUE]]
    /\ UNCHANGED <<ingest, tx, investigating, mergePasses, survivors>>

(* PostgreSQL ends a deadlock by failing one of the transactions.          *)
Abort(p) ==
    /\ Deadlocked(p)
    /\ \/ p \in Txs /\ tx' = [tx EXCEPT ![p] = NoTx] /\ UNCHANGED ingest
       \/ /\ p \in Keys /\ UNCHANGED tx
          /\ ingest' = [ingest EXCEPT ![p] = [at |-> "spawning", incident |-> NoIncident]]
    /\ UNCHANGED <<incident, alert, investigating, mergePasses, survivors>>

(* The API process dies: open transactions roll back, goroutines are gone. *)
Restart ==
    /\ "restart" \in Operations
    /\ ingest' = [k \in Keys |-> NotIngesting]
    /\ tx' = [t \in Txs |-> NoTx]
    /\ investigating' = {}
    /\ mergePasses' = {}
    /\ UNCHANGED <<incident, alert, survivors>>

-----------------------------------------------------------------------------

(* What a transaction that has begun does next. *)
TxStep(t) ==
    \/ MarkResolved(t) \/ CountFiring(t) \/ CommitResolve(t)
    \/ CommitComplete(t) \/ CommitClose(t)
    \/ LockMerge(t) \/ CommitMerge(t)
    \/ CommitMove(t) \/ CommitUnlink(t) \/ StartUnlinked(t)
    \/ SweepIncidents(t) \/ StaleAlerts(t) \/ FindStale(t) \/ CloseStale(t)

Begin(t) ==
    \/ FindFiring(t) \/ LockAndMark(t) \/ SweepAlerts(t) \/ ListStale(t)
    \/ \E i \in Incidents :
          \/ Complete(t, i) \/ Fail(t, i) \/ BeginClose(t, i)
          \/ \E j \in Incidents : EvaluateMerge(t, i, j)
    \/ \E a \in Alerts : SpawnUnlinked(t, a) \/ \E i \in Incidents : ReadMove(t, a, i)

Next ==
    \/ \E k \in Keys : Correlate(k) \/ IngestStep(k)
    \/ \E t \in Txs : Begin(t) \/ TxStep(t)
    \/ \E i \in Incidents : Resume(i) \/ Expire(i)
    \/ \E p \in Procs : Abort(p)
    \/ Age \/ Restart

Spec == Init /\ [][Next]_vars

(* Goroutines that have begun go on, PostgreSQL breaks deadlocks and grants*)
(* row locks in turn, time passes, and the sweep runs at every start and   *)
(* every tick: some sweep gets through between two restarts.  Nothing is   *)
(* assumed of the alerting systems, the investigations and the operators.  *)
FairSpec ==
    /\ Spec
    /\ \A k \in Keys : SF_vars(IngestStep(k))
    /\ \A t \in Txs : SF_vars(TxStep(t))
    /\ WF_vars(\E p \in Procs : Abort(p))
    /\ SF_vars(\E t \in Txs : SweepAlerts(t))
    /\ SF_vars(\E t \in Txs : SweepIncidents(t))

-----------------------------------------------------------------------------
(* Properties *)

(* api_incidents.go: "an alert-sourced incident only stays completed while *)
(* at least one linked alert is still firing": the transaction that ends   *)
(* its last firing alert promotes it to monitor, whichever of several      *)
(* concurrent ones that is.  Not so for the survivor of a merge: the       *)
(* resolution of an alert that is re-pointed to it meanwhile counts the    *)
(* alerts of the incident it was read from.                                *)
CompletedHasFiringAlert ==
    \A i \in Incidents :
        incident[i].status = "completed" => Firing(i) # {} \/ i \in survivors

(* "Entering monitor already implies every linked alert was resolved": no  *)
(* alert slips in between the count and the write.                         *)
EntersMonitorQuiet ==
    [][\A i \in Incidents :
          incident[i].status # "monitor" /\ incident'[i].status = "monitor" => Firing(i)' = {}]_vars

(* "Cancel the orphaned incident rather than running an investigation with *)
(* no alert row": only a merge takes the alerts of an incident away, and   *)
(* the thread of a merged one may still be resumed.                        *)
InvestigationsHaveAlerts ==
    \A i \in investigating : Linked(i) # {} \/ incident[i].into # NoIncident

(* mergeIncidents and LinkAlertToIncident together: an alert that fires is *)
(* never left on a merged, hidden incident, however the link, the merge    *)
(* and the resolution interleave.                                          *)
NoFiringAlertOnMerged ==
    \A i \in Incidents : incident[i].status = "merged" => Firing(i) = {}

(* "Once monitor_until passes with no recurrence" an incident does not     *)
(* "sit in monitor indefinitely", even when an alert linked to it is never *)
(* resolved.                                                               *)
MonitorEnds == \A i \in Incidents : Expired(i) ~> ~Expired(i)

=============================================================================
