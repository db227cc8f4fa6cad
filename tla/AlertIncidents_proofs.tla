----------------------- MODULE AlertIncidents_proofs -----------------------
(***************************************************************************)
(* Proofs about AlertIncidents, for any numbers of incidents and alerts,   *)
(* any keys and any transaction slots.                                     *)
(***************************************************************************)
EXTENDS AlertIncidents, TLAPS

-----------------------------------------------------------------------------
(* The inductive invariant *)

HasAlert(x) == x.at \in {"found", "marked", "counted", "moving", "unlinking"}

(* What a transaction knows when it is at each of its statements, and what *)
(* has to take part for it to be there.                                    *)
Knows(x) ==
    /\ x.at \in {"found", "marked", "counted", "completing", "closing",
                 "evaluated", "merging"} => x.incident \in Incidents
    /\ x.at \in {"evaluated", "merging", "moving", "unlinking", "starting"} =>
          x.other \in Incidents
    /\ HasAlert(x) => x.alert \in Alerts
    /\ x.at = "completing" => x.write # "none" /\ x.marked = {}
    /\ x.at \in {"found", "marked"} => x.write = "none"
    /\ x.at = "closing" => x.batch \subseteq {x.incident}
    /\ x.at \in {"marked", "counted"} => x.marked = {x.alert}
    /\ x.at = "moving" => MovedTo # {}
    /\ x.at \in {"unlinking", "starting"} => "unlink" \in Operations
    /\ x.at = "sweeping" => "sweep" \in Operations
    /\ x.at \in {"listed", "batch", "update"} => "stale" \in Operations

(* The alerts it points at are rows of the table.                          *)
PointsAtRows(x) ==
    /\ HasAlert(x) => alert[x.alert].state # "absent"
    /\ \A a \in x.marked : alert[a].state # "absent"

KnowingTxs == {x \in TxStates : Knows(x)}

KnownRows ==
    /\ \A a \in Alerts : alert[a].state = "absent" <=> alert[a].incident = NoIncident
    /\ tx \in [Txs -> KnowingTxs]
    /\ \A t \in Txs : PointsAtRows(tx[t])

(* The row locks of incidents exclude each other.                          *)
OneHolder ==
    \A p, q \in Procs : p # q => HeldIncidents(p) \cap HeldIncidents(q) = {}

(* The incident a goroutine has spawned, up to its launch.                 *)
Spawned(p) ==
    IF p \in Keys
    THEN IF ingest[p].at \in {"claiming", "cancelling"} THEN {ingest[p].incident} ELSE {}
    ELSE IF tx[p].at \in {"unlinking", "starting"} THEN {tx[p].other} ELSE {}

(* Nobody investigates it, and nobody has yet.                             *)
Untouched(i) ==
    /\ ~incident[i].threaded
    /\ i \notin investigating
    /\ \A t \in Txs : tx[t].at = "completing" => tx[t].incident # i

(* A spawned incident is its spawner's own, though anybody may close it.   *)
SpawnedUntouched ==
    /\ \A i \in Incidents : incident[i].status = "absent" => Untouched(i)
    /\ \A p \in Procs : \A i \in Spawned(p) :
          incident[i].status \in {"pending", "closed"} /\ Untouched(i)
    /\ \A p, q \in Procs : p # q => Spawned(p) \cap Spawned(q) = {}
    /\ \A k \in Keys : ingest[k].at = "launching" => incident[ingest[k].incident].threaded

(* Merges go from newer to older incidents.                                *)
NewerToOlder ==
    /\ \A t \in Txs : tx[t].at \in {"evaluated", "merging"} => tx[t].other < tx[t].incident
    /\ \A i \in Incidents : incident[i].into < i
    /\ \A i \in Incidents : incident[i].status = "merged" => incident[i].into # NoIncident

(* What was checked under an incident's lock still holds while it is held. *)
CheckedUnderLock ==
    \A t \in Txs :
        /\ tx[t].at = "merging" => Finished(tx[t].incident) /\ Finished(tx[t].other)
        /\ tx[t].at = "counted" /\ tx[t].write = "monitor" =>
              incident[tx[t].incident].status = "completed"
        /\ tx[t].at = "closing" => incident[tx[t].incident].status # "absent"

LifecycleInv ==
    /\ TypeOK
    /\ KnownRows
    /\ OneHolder
    /\ SpawnedUntouched
    /\ NewerToOlder
    /\ CheckedUnderLock

-----------------------------------------------------------------------------
(* The rows *)

(* A redirect leads to an incident.                                        *)
LEMMA LinkTargetIsIncident ==
    ASSUME TypeOK, NEW i \in Incidents
    PROVE  LinkTarget(i) \in Incidents
<1>1. ASSUME NEW x \in Incidents PROVE Hop(x) \in Incidents
    BY <1>1 DEF TypeOK, IncidentRows, Hop
<1> QED
    BY <1>1 DEF LinkTarget

(* Firing alerts are rows of the table.                                    *)
LEMMA FiringAreAlerts ==
    ASSUME NEW S PROVE UNION {Firing(i) : i \in S} \subseteq Alerts
<1> QED
    BY DEF Firing, Linked

(* A step of a transaction writes one row, and only what it knows.         *)
LEMMA TxRowStep ==
    ASSUME TypeOK, KnownRows, NEW t \in Txs, Begin(t) \/ TxStep(t)
    PROVE  \E r \in KnowingTxs : /\ tx' = [tx EXCEPT ![t] = r]
                                /\ PointsAtRows(r)
<1> DEFINE Goal == \E r \in KnowingTxs : /\ tx' = [tx EXCEPT ![t] = r]
                                   /\ PointsAtRows(r)
<1>0. /\ tx \in [Txs -> KnowingTxs] /\ tx[t] \in KnowingTxs /\ PointsAtRows(tx[t])
      /\ \A a \in Alerts : alert[a].incident \in Incidents \cup {NoIncident}
    BY DEF KnownRows, TypeOK, AlertRows
<1>1. ASSUME MarkResolved(t) PROVE Goal
    <2> DEFINE r == [tx[t] EXCEPT !.at = "marked", !.marked = {tx[t].alert}]
    <2>1. r \in KnowingTxs
        BY <1>0, <1>1 DEF MarkResolved, KnowingTxs, Knows, HasAlert, TxStates
    <2>2. tx' = [tx EXCEPT ![t] = r]
        BY <1>1 DEF MarkResolved
    <2>3. PointsAtRows(r)
        BY <1>0, <1>1 DEF MarkResolved, PointsAtRows, HasAlert
    <2> QED
        BY <2>1, <2>2, <2>3
<1>2. ASSUME StaleAlerts(t) PROVE Goal
    <2> DEFINE r == [tx[t] EXCEPT !.at = "batch", !.marked = UNION {Firing(i) : i \in tx[t].batch}]
    <2>1. r \in KnowingTxs
        BY <1>0, <1>2, FiringAreAlerts DEF StaleAlerts, KnowingTxs, Knows, HasAlert, TxStates
    <2>2. tx' = [tx EXCEPT ![t] = r]
        BY <1>2 DEF StaleAlerts
    <2>3. PointsAtRows(r)
        BY <1>0, <1>2 DEF StaleAlerts, PointsAtRows, HasAlert, Firing
    <2> QED
        BY <2>1, <2>2, <2>3
<1>3. ASSUME FindStale(t) PROVE Goal
    <2> DEFINE r == [tx[t] EXCEPT !.at = "update", !.batch = {i \in tx[t].batch : Finished(i) /\ Stale(i)}]
    <2>1. r \in KnowingTxs
        BY <1>0, <1>3 DEF FindStale, KnowingTxs, Knows, HasAlert, TxStates
    <2>2. tx' = [tx EXCEPT ![t] = r]
        BY <1>3 DEF FindStale
    <2>3. PointsAtRows(r)
        BY <1>0, <1>3 DEF FindStale, PointsAtRows, HasAlert
    <2> QED
        BY <2>1, <2>2, <2>3
<1>4. ASSUME CountFiring(t) PROVE Goal
    <2>0. PICK write \in {"none", "monitor"} :
             tx' = [tx EXCEPT ![t] = [tx[t] EXCEPT !.at = "counted", !.write = write]]
        <3>1. tx[t].at = "marked" /\ tx[t].write = "none"
            BY <1>0, <1>4 DEF CountFiring, KnowingTxs, Knows
        <3>2. CASE tx' = [tx EXCEPT ![t].at = "counted", ![t].write = "monitor"]
            BY <1>0, <3>2
        <3>3. CASE tx' = [tx EXCEPT ![t].at = "counted", ![t].write = "none"]
            BY <1>0, <3>3
        <3>4. CASE tx' = [tx EXCEPT ![t].at = "counted"]
            <4>1. [tx[t] EXCEPT !.at = "counted"] = [tx[t] EXCEPT !.at = "counted", !.write = "none"]
                BY <1>0, <3>1 DEF KnowingTxs, TxStates
            <4> QED
                BY <1>0, <3>4, <4>1
        <3> QED
            BY <1>4, <3>2, <3>3, <3>4 DEF CountFiring
    <2> DEFINE r == [tx[t] EXCEPT !.at = "counted", !.write = write]
    <2>1. r \in KnowingTxs
        BY <1>0, <1>4, <2>0 DEF CountFiring, KnowingTxs, Knows, HasAlert, TxStates
    <2>2. tx' = [tx EXCEPT ![t] = r]
        BY <1>4, <2>0 DEF CountFiring
    <2>3. PointsAtRows(r)
        BY <1>0, <1>4, <2>0 DEF CountFiring, PointsAtRows, HasAlert
    <2> QED
        BY <2>1, <2>2, <2>3
<1>5. ASSUME tx' = [tx EXCEPT ![t] = NoTx] PROVE Goal
    <2>1. NoTx \in KnowingTxs /\ PointsAtRows(NoTx)
        BY DEF KnowingTxs, Knows, HasAlert, TxStates, NoTx, PointsAtRows
    <2> QED
        BY <1>5, <2>1
<1>6. ASSUME \/ CommitResolve(t) \/ CommitComplete(t) \/ CommitClose(t)
            \/ CommitMerge(t) \/ CommitMove(t) \/ StartUnlinked(t)
            \/ SweepIncidents(t) \/ CloseStale(t)
      PROVE  Goal
    BY <1>5, <1>6 DEF CommitResolve, CommitComplete, CommitClose, CommitMerge, CommitMove,
                      StartUnlinked, SweepIncidents, CloseStale
<1>7. ASSUME LockMerge(t), StillMergeable(tx[t].incident, tx[t].other) PROVE Goal
    <2> DEFINE r == [tx[t] EXCEPT !.at = "merging"]
    <2>1. r \in KnowingTxs
        BY <1>0, <1>7 DEF LockMerge, KnowingTxs, Knows, HasAlert, TxStates
    <2>2. tx' = [tx EXCEPT ![t] = r]
        BY <1>7 DEF LockMerge
    <2>3. PointsAtRows(r)
        BY <1>0, <1>7 DEF LockMerge, PointsAtRows, HasAlert
    <2> QED
        BY <2>1, <2>2, <2>3
<1>8. ASSUME LockMerge(t), ~StillMergeable(tx[t].incident, tx[t].other) PROVE Goal
    BY <1>5, <1>8 DEF LockMerge
<1>9. ASSUME CommitUnlink(t), NotMoved(t) PROVE Goal
    <2> DEFINE r == [tx[t] EXCEPT !.at = "starting"]
    <2>1. r \in KnowingTxs
        BY <1>0, <1>9 DEF CommitUnlink, KnowingTxs, Knows, HasAlert, TxStates
    <2>2. tx' = [tx EXCEPT ![t] = r]
        BY <1>9 DEF CommitUnlink
    <2>3. PointsAtRows(r)
        BY <1>0, <1>9 DEF CommitUnlink, PointsAtRows, HasAlert
    <2> QED
        BY <2>1, <2>2, <2>3
<1>10. ASSUME CommitUnlink(t), ~NotMoved(t) PROVE Goal
    BY <1>5, <1>10 DEF CommitUnlink
<1>11. ASSUME FindFiring(t) PROVE Goal
    <2>0. PICK a \in Alerts :
             /\ alert[a].state = "firing" /\ alert[a].incident \in Incidents
             /\ tx' = [tx EXCEPT ![t] = [NoTx EXCEPT !.at = "found", !.alert = a, !.incident = alert[a].incident]]
        BY <1>0, <1>11 DEF FindFiring, KnownRows
    <2> DEFINE r == [NoTx EXCEPT !.at = "found", !.alert = a, !.incident = alert[a].incident]
    <2>1. r \in KnowingTxs
        <3>1. r \in TxStates
            BY <1>0, <2>0 DEF NoTx, TxStates
        <3>2. Knows(r)
            BY <1>0, <2>0 DEF NoTx, Knows, HasAlert
        <3> QED
            BY <3>1, <3>2 DEF KnowingTxs
    <2>2. tx' = [tx EXCEPT ![t] = r]
        BY <1>11, <2>0 DEF NoTx
    <2>3. PointsAtRows(r)
        BY <1>0, <1>11, <2>0 DEF NoTx, PointsAtRows, HasAlert
    <2> QED
        BY <2>1, <2>2, <2>3
<1>12. ASSUME LockAndMark(t) PROVE Goal
    <2>0. PICK a \in Alerts :
             /\ alert[a].state = "firing" /\ alert[a].incident \in Incidents
             /\ tx' = [tx EXCEPT ![t] = [NoTx EXCEPT !.at = "marked", !.alert = a, !.marked = {a},
                                  !.incident = alert[a].incident]]
        BY <1>0, <1>12 DEF LockAndMark, KnownRows
    <2> DEFINE r == [NoTx EXCEPT !.at = "marked", !.alert = a, !.marked = {a},
                                  !.incident = alert[a].incident]
    <2>1. r \in KnowingTxs
        <3>1. r \in TxStates
            BY <1>0, <2>0 DEF NoTx, TxStates
        <3>2. Knows(r)
            BY <1>0, <2>0 DEF NoTx, Knows, HasAlert
        <3> QED
            BY <3>1, <3>2 DEF KnowingTxs
    <2>2. tx' = [tx EXCEPT ![t] = r]
        BY <1>12, <2>0 DEF NoTx
    <2>3. PointsAtRows(r)
        BY <1>0, <1>12, <2>0 DEF NoTx, PointsAtRows, HasAlert
    <2> QED
        BY <2>1, <2>2, <2>3
<1>13. ASSUME SweepAlerts(t) PROVE Goal
    <2> DEFINE r == [NoTx EXCEPT !.at = "sweeping", !.marked = UNION {Firing(i) : i \in Swept}]
    <2>1. r \in KnowingTxs
        BY <1>0, <1>13, FiringAreAlerts DEF SweepAlerts, NoTx, KnowingTxs, Knows, HasAlert, TxStates
    <2>2. tx' = [tx EXCEPT ![t] = r]
        BY <1>13 DEF SweepAlerts, NoTx
    <2>3. PointsAtRows(r)
        BY <1>0, <1>13 DEF SweepAlerts, NoTx, PointsAtRows, HasAlert, Firing
    <2> QED
        BY <2>1, <2>2, <2>3
<1>14. ASSUME ListStale(t) PROVE Goal
    <2>0. PICK batch \in SUBSET Incidents :
             tx' = [tx EXCEPT ![t] = [NoTx EXCEPT !.at = "listed", !.batch = batch]]
        BY <1>14 DEF ListStale
    <2> DEFINE r == [NoTx EXCEPT !.at = "listed", !.batch = batch]
    <2>1. r \in KnowingTxs
        BY <1>0, <1>14, <2>0 DEF ListStale, NoTx, KnowingTxs, Knows, HasAlert, TxStates
    <2>2. tx' = [tx EXCEPT ![t] = r]
        BY <1>14, <2>0 DEF NoTx
    <2>3. PointsAtRows(r)
        BY <1>0, <1>14, <2>0 DEF NoTx, PointsAtRows, HasAlert
    <2> QED
        BY <2>1, <2>2, <2>3
<1>15. ASSUME NEW i \in Incidents, NEW s \in {"completed", "monitor", "failed"}, BeginComplete(t, i, s) PROVE Goal
    <2> DEFINE r == [NoTx EXCEPT !.at = "completing", !.incident = i, !.write = s]
    <2>1. r \in KnowingTxs
        BY <1>0, <1>15 DEF BeginComplete, NoTx, KnowingTxs, Knows, HasAlert, TxStates
    <2>2. tx' = [tx EXCEPT ![t] = r]
        BY <1>15 DEF BeginComplete, NoTx
    <2>3. PointsAtRows(r)
        BY <1>0, <1>15 DEF BeginComplete, NoTx, PointsAtRows, HasAlert
    <2> QED
        BY <2>1, <2>2, <2>3
<1>16. ASSUME NEW i \in Incidents, BeginClose(t, i) PROVE Goal
    <2>0. PICK batch \in SUBSET {i} :
             tx' = [tx EXCEPT ![t] = [NoTx EXCEPT !.at = "closing", !.incident = i, !.batch = batch]]
        BY <1>16 DEF BeginClose
    <2> DEFINE r == [NoTx EXCEPT !.at = "closing", !.incident = i, !.batch = batch]
    <2>1. r \in KnowingTxs
        <3>1. r \in TxStates
            BY <1>0, <2>0 DEF NoTx, TxStates
        <3>2. Knows(r)
            BY <1>0, <2>0 DEF NoTx, Knows, HasAlert
        <3> QED
            BY <3>1, <3>2 DEF KnowingTxs
    <2>2. tx' = [tx EXCEPT ![t] = r]
        BY <1>16, <2>0 DEF NoTx
    <2>3. PointsAtRows(r)
        BY <1>0, <1>16, <2>0 DEF NoTx, PointsAtRows, HasAlert
    <2> QED
        BY <2>1, <2>2, <2>3
<1>17. ASSUME NEW i \in Incidents, NEW j \in Incidents, EvaluateMerge(t, i, j) PROVE Goal
    <2> DEFINE r == [NoTx EXCEPT !.at = "evaluated", !.incident = i, !.other = j]
    <2>1. r \in KnowingTxs
        BY <1>0, <1>17 DEF EvaluateMerge, NoTx, KnowingTxs, Knows, HasAlert, TxStates
    <2>2. tx' = [tx EXCEPT ![t] = r]
        BY <1>17 DEF EvaluateMerge, NoTx
    <2>3. PointsAtRows(r)
        BY <1>0, <1>17 DEF EvaluateMerge, NoTx, PointsAtRows, HasAlert
    <2> QED
        BY <2>1, <2>2, <2>3
<1>18. ASSUME NEW a \in Alerts, SpawnUnlinked(t, a) PROVE Goal
    <2>0. PICK i \in Incidents :
             tx' = [tx EXCEPT ![t] = [NoTx EXCEPT !.at = "unlinking", !.alert = a, !.other = i,
                                                  !.incident = alert[a].incident]]
        BY <1>18 DEF SpawnUnlinked
    <2> DEFINE r == [NoTx EXCEPT !.at = "unlinking", !.alert = a, !.other = i,
                                  !.incident = alert[a].incident]
    <2>1. r \in KnowingTxs
        BY <1>0, <1>18, <2>0 DEF SpawnUnlinked, NoTx, KnowingTxs, Knows, HasAlert, TxStates
    <2>2. tx' = [tx EXCEPT ![t] = r]
        BY <1>18, <2>0 DEF SpawnUnlinked, NoTx
    <2>3. PointsAtRows(r)
        BY <1>0, <1>18, <2>0 DEF SpawnUnlinked, NoTx, PointsAtRows, HasAlert
    <2> QED
        BY <2>1, <2>2, <2>3
<1>19. ASSUME NEW a \in Alerts, NEW i \in Incidents, ReadMove(t, a, i) PROVE Goal
    <2>0. PICK write \in {"monitor", "none"} :
             tx' = [tx EXCEPT ![t] = [NoTx EXCEPT !.at = "moving", !.alert = a, !.other = i,
                                                  !.incident = alert[a].incident, !.write = write]]
        BY <1>19 DEF ReadMove
    <2> DEFINE r == [NoTx EXCEPT !.at = "moving", !.alert = a, !.other = i,
                                 !.incident = alert[a].incident, !.write = write]
    <2>1. r \in KnowingTxs
        BY <1>0, <1>19, <2>0 DEF ReadMove, NoTx, KnowingTxs, Knows, HasAlert, TxStates
    <2>2. tx' = [tx EXCEPT ![t] = r]
        BY <2>0
    <2>3. PointsAtRows(r)
        BY <1>0, <1>19, <2>0 DEF ReadMove, NoTx, PointsAtRows, HasAlert
    <2> QED
        BY <2>1, <2>2, <2>3
<1> QED
    BY <1>1, <1>2, <1>3, <1>4, <1>5, <1>6, <1>7, <1>8, <1>9, <1>10, <1>11, <1>12, <1>13, <1>14, <1>15, <1>16, <1>17, <1>18, <1>19 DEF Begin, TxStep, Complete, Fail, CompletedStatus

(* An alert row, once inserted, stays, on some incident.                   *)
LEMMA AlertRowStep ==
    ASSUME TypeOK, KnownRows, [Next]_vars
    PROVE  /\ alert' \in [Alerts -> AlertRows]
           /\ \A a \in Alerts :
                 /\ alert'[a].state = "absent" <=> alert'[a].incident = NoIncident
                 /\ alert[a].state # "absent" => alert'[a].state # "absent"
<1> DEFINE Goal == /\ alert' \in [Alerts -> AlertRows]
                   /\ \A a \in Alerts :
                         /\ alert'[a].state = "absent" <=> alert'[a].incident = NoIncident
                         /\ alert[a].state # "absent" => alert'[a].state # "absent"
<1>0. /\ alert \in [Alerts -> AlertRows]
      /\ \A a \in Alerts : alert[a].state = "absent" <=> alert[a].incident = NoIncident
    BY DEF TypeOK, KnownRows
<1>1. ASSUME UNCHANGED alert PROVE Goal
    BY <1>0, <1>1
<1>2. ASSUME NEW k \in Keys, NEW i \in Incidents, InsertAlert(k, i) PROVE Goal
    <2>1. {FALSE, "stale" \in Operations} \subseteq BOOLEAN
        OBVIOUS
    <2>2. PICK a \in Alerts, quiet \in BOOLEAN :
              alert' = [alert EXCEPT ![a] = [state |-> "firing", key |-> k,
                                             incident |-> i, quiet |-> quiet]]
        BY <1>2, <2>1 DEF InsertAlert
    <2>3. [state |-> "firing", key |-> k, incident |-> i, quiet |-> quiet] \in AlertRows
        BY <2>2 DEF AlertRows
    <2>4. i # NoIncident
        BY DEF Incidents, NoIncident
    <2> QED
        BY <1>0, <2>2, <2>3, <2>4
<1>3. ASSUME NEW k \in Keys, Bump(k) PROVE Goal
    BY <1>0, <1>3 DEF Bump, AlertRows
<1>4. ASSUME NEW S, alert' = Resolved(S), \A a \in S : alert[a].state # "absent" PROVE Goal
    BY <1>0, <1>4 DEF Resolved, AlertRows
<1>5. ASSUME NEW k \in Keys, IngestStep(k) \/ Correlate(k) PROVE Goal
    <2>1. ingest[k].at \notin {"idle", "spawning"} => ingest[k].incident \in Incidents
        BY DEF TypeOK, IngestStates
    <2> QED
        BY <1>1, <1>2, <1>3, <1>5, <2>1
        DEF IngestStep, Correlate, LockTarget, LinkFails, Link, Spawn, Claim, Cancel, Launch
<1>6. ASSUME NEW t \in Txs, CommitMerge(t) PROVE Goal
    <2>1. tx[t].other \in Incidents
        BY <1>6 DEF CommitMerge, KnownRows, KnowingTxs, Knows
    <2>2. tx[t].other # NoIncident /\ NoIncident \notin Incidents
        BY <2>1 DEF Incidents, NoIncident
    <2>3. tx[t].incident \in Incidents
        BY <1>6 DEF CommitMerge, KnownRows, KnowingTxs, Knows
    <2> QED
        BY <1>0, <1>6, <2>1, <2>2, <2>3 DEF CommitMerge, AlertRows, Linked
<1>7. ASSUME NEW t \in Txs, CommitMove(t) \/ CommitUnlink(t) PROVE Goal
    <2>1. tx[t].other \in Incidents /\ tx[t].other # NoIncident
        BY <1>7 DEF CommitMove, CommitUnlink, KnownRows, KnowingTxs, Knows, Incidents, NoIncident
    <2>2. tx[t].alert \in Alerts /\ alert[tx[t].alert].state # "absent"
        BY <1>7 DEF CommitMove, CommitUnlink, KnownRows, KnowingTxs, Knows, HasAlert, PointsAtRows
    <2> QED
        BY <1>0, <1>1, <1>7, <2>1, <2>2 DEF CommitMove, CommitUnlink, AlertRows
<1>8. ASSUME NEW t \in Txs, CommitResolve(t) PROVE Goal
    BY <1>4, <1>8 DEF CommitResolve, KnownRows, KnowingTxs, Knows, HasAlert, PointsAtRows
<1>9. ASSUME NEW t \in Txs, CommitClose(t) PROVE Goal
    BY <1>4, <1>9 DEF CommitClose, Firing
<1>10. ASSUME NEW t \in Txs, SweepIncidents(t) \/ CloseStale(t) PROVE Goal
    BY <1>4, <1>10 DEF SweepIncidents, CloseStale, KnownRows, PointsAtRows
<1>11. ASSUME Age PROVE Goal
    BY <1>0, <1>11 DEF Age, AlertRows
<1>12. ASSUME NEW t \in Txs, Begin(t) PROVE Goal
    BY <1>1, <1>12 DEF Begin, FindFiring, LockAndMark, SweepAlerts, ListStale, Complete, Fail,
                       BeginComplete, BeginClose, EvaluateMerge, SpawnUnlinked, ReadMove
<1>13. ASSUME NEW t \in Txs, TxStep(t) PROVE Goal
    BY <1>1, <1>6, <1>7, <1>8, <1>9, <1>10, <1>13
    DEF TxStep, MarkResolved, CountFiring, CommitComplete, LockMerge, StartUnlinked,
        StaleAlerts, FindStale
<1>14. ASSUME NEW i \in Incidents, Resume(i) \/ Expire(i) PROVE Goal
    BY <1>1, <1>14 DEF Resume, Expire
<1> QED
    BY <1>1, <1>5, <1>11, <1>12, <1>13, <1>14 DEF Next, Abort, Restart, vars

(* The updates of an incident row keep its form.                           *)
LEMMA IncidentRowWritten ==
    ASSUME NEW r \in IncidentRows, NEW j \in Incidents, NEW b \in BOOLEAN,
           NEW s \in {"running", "completed", "monitor", "failed", "closed", "merged"}
    PROVE  /\ [r EXCEPT !.watched = b] \in IncidentRows
           /\ [r EXCEPT !.threaded = b] \in IncidentRows
           /\ [r EXCEPT !.status = s] \in IncidentRows
           /\ [r EXCEPT !.status = s, !.quiet = FALSE] \in IncidentRows
           /\ [r EXCEPT !.status = s, !.watched = b] \in IncidentRows
           /\ [r EXCEPT !.status = s, !.quiet = FALSE, !.watched = b] \in IncidentRows
           /\ [r EXCEPT !.status = s, !.into = j, !.watched = b] \in IncidentRows
<1>1. [r EXCEPT !.watched = b] \in IncidentRows /\ [r EXCEPT !.threaded = b] \in IncidentRows
    BY DEF IncidentRows
<1>2. [r EXCEPT !.status = s] \in IncidentRows
    BY DEF IncidentRows
<1>3. [r EXCEPT !.status = s, !.quiet = FALSE] \in IncidentRows
    BY DEF IncidentRows
<1>4. [r EXCEPT !.status = s, !.watched = b] \in IncidentRows
    BY DEF IncidentRows
<1>5. [r EXCEPT !.status = s, !.quiet = FALSE, !.watched = b] \in IncidentRows
    BY DEF IncidentRows
<1>6. [r EXCEPT !.status = s, !.into = j, !.watched = b] \in IncidentRows
    BY DEF IncidentRows
<1> QED
    BY <1>1, <1>2, <1>3, <1>4, <1>5, <1>6

(* Incident rows keep their form, whoever writes them.                     *)
LEMMA IncidentRowStep ==
    ASSUME TypeOK, KnownRows, [Next]_vars
    PROVE  /\ incident' \in [Incidents -> IncidentRows]
           /\ investigating' \subseteq Incidents
           /\ mergePasses' \subseteq Incidents
           /\ survivors' \subseteq Incidents
<1> DEFINE Rows == incident' \in [Incidents -> IncidentRows]
<1> DEFINE Sets == /\ investigating' \subseteq Incidents
                   /\ mergePasses' \subseteq Incidents
                   /\ survivors' \subseteq Incidents
<1>0. /\ incident \in [Incidents -> IncidentRows]
      /\ investigating \subseteq Incidents
      /\ mergePasses \subseteq Incidents
      /\ survivors \subseteq Incidents
    BY DEF TypeOK
<1>1. ASSUME UNCHANGED incident PROVE Rows
    BY <1>0, <1>1
<1>2. ASSUME UNCHANGED <<investigating, mergePasses, survivors>> PROVE Sets
    BY <1>0, <1>2
<1>3. ASSUME NEW S, incident' = Closed(S) PROVE Rows
    BY <1>0, <1>3 DEF Closed, IncidentRows
<1>4. ASSUME NEW i \in Incidents, SpawnRow(i) PROVE Rows
    BY <1>0, <1>4 DEF SpawnRow, IncidentRows
<1>5. ASSUME NEW k \in Keys, Correlate(k) \/ IngestStep(k) PROVE Rows /\ Sets
    <2>1. ingest[k].at \notin {"idle", "spawning"} => ingest[k].incident \in Incidents
        BY DEF TypeOK, IngestStates
    <2>2. ASSUME Link(k) PROVE Rows
        <3> DEFINE i == ingest[k].incident
        <3>1. CASE incident' = [incident EXCEPT ![i].watched = TRUE]
            BY <1>0, <3>1, IncidentRowWritten
        <3> QED
            BY <1>1, <2>2, <3>1 DEF Link
    <2>3. ASSUME Claim(k) PROVE Rows
        <3> DEFINE i == ingest[k].incident
        <3>1. CASE incident' = [incident EXCEPT ![i].threaded = TRUE]
            BY <1>0, <3>1, IncidentRowWritten
        <3> QED
            BY <1>1, <2>3, <3>1 DEF Claim
    <2>4. ASSUME Cancel(k) PROVE Rows
        <3> DEFINE i == ingest[k].incident
        <3>1. incident[i] \in IncidentRows
            BY <1>0, <2>1, <2>4 DEF Cancel
        <3>2. [incident[i] EXCEPT !.status = "failed", !.quiet = FALSE] \in IncidentRows
            BY <2>1, <2>4, <3>1, IncidentRowWritten DEF Cancel
        <3>3. incident' = [incident EXCEPT ![i] =
                              [incident[i] EXCEPT !.status = "failed", !.quiet = FALSE]]
            BY <2>4 DEF Cancel
        <3> QED
            BY <1>0, <3>2, <3>3
    <2>5. ASSUME Launch(k) PROVE Rows /\ Sets
        <3> DEFINE i == ingest[k].incident
        <3>0. i \in Incidents
            BY <2>1, <2>5 DEF Launch
        <3>1. incident[i] \in IncidentRows
            BY <1>0, <3>0
        <3>2. [incident[i] EXCEPT !.status = "running"] \in IncidentRows
            BY <3>0, <3>1, IncidentRowWritten
        <3>3. incident' = [incident EXCEPT ![i] = [incident[i] EXCEPT !.status = "running"]]
            BY <2>5 DEF Launch
        <3>4. Sets
            BY <1>0, <3>0, <2>5 DEF Launch
        <3> QED
            BY <1>0, <3>2, <3>3, <3>4
    <2> QED
        BY <1>1, <1>2, <1>4, <1>5, <2>2, <2>3, <2>4, <2>5
        DEF IngestStep, Correlate, LockTarget, LinkFails, Link, Spawn, Claim, Cancel
<1>6. ASSUME NEW t \in Txs, Begin(t) PROVE Rows /\ Sets
    <2>1. ASSUME NEW a \in Alerts, SpawnUnlinked(t, a) PROVE Rows /\ Sets
        BY <1>2, <1>4, <2>1 DEF SpawnUnlinked
    <2>2. ASSUME NEW i \in Incidents, NEW s \in {"completed", "monitor", "failed"},
                 BeginComplete(t, i, s)
          PROVE  Rows /\ Sets
        BY <1>0, <2>2 DEF BeginComplete
    <2>3. ASSUME NEW i \in Incidents, NEW j \in Incidents, EvaluateMerge(t, i, j)
          PROVE  Rows /\ Sets
        BY <1>0, <2>3 DEF EvaluateMerge
    <2> QED
        BY <1>1, <1>2, <1>6, <2>1, <2>2, <2>3
        DEF Begin, FindFiring, LockAndMark, SweepAlerts, ListStale, Complete, Fail,
            CompletedStatus, BeginClose, ReadMove
<1>7. ASSUME NEW t \in Txs, TxStep(t) PROVE Rows /\ Sets
    <2>0. tx[t] \in KnowingTxs
        BY DEF KnownRows
    <2>1. ASSUME CommitResolve(t) PROVE Rows
        <3> DEFINE i == tx[t].incident
        <3>1. CASE incident' = [incident EXCEPT ![i].status = "monitor", ![i].watched = TRUE]
            BY <1>0, <3>1, IncidentRowWritten
        <3> QED
            BY <1>1, <2>1, <3>1 DEF CommitResolve
    <2>2. ASSUME CommitComplete(t) PROVE Rows /\ Sets
        <3>1. tx[t].incident \in Incidents /\ tx[t].write \in {"completed", "monitor", "failed"}
            BY <2>0, <2>2 DEF CommitComplete, KnowingTxs, Knows, TxStates
        <3> DEFINE i == tx[t].incident
                   s == tx[t].write
                   row == [incident[i] EXCEPT !.status = s, !.quiet = FALSE,
                                              !.watched = IF s = "monitor" THEN TRUE ELSE @]
        <3>2. incident' = [incident EXCEPT ![i] = row]
            BY <2>2 DEF CommitComplete
        <3>3. row \in IncidentRows
            <4>1. incident[i] \in IncidentRows /\ incident[i].watched \in BOOLEAN
                BY <1>0, <3>1 DEF IncidentRows
            <4> QED
                BY <3>1, <4>1, IncidentRowWritten
        <3>4. Sets
            BY <1>0, <2>2, <3>1 DEF CommitComplete
        <3> QED
            BY <1>0, <3>2, <3>3, <3>4
    <2>3. ASSUME CommitMerge(t) PROVE Rows /\ Sets
        <3>1. tx[t].incident \in Incidents /\ tx[t].other \in Incidents
            BY <2>0, <2>3 DEF CommitMerge, KnowingTxs, Knows
        <3>2. ASSUME NEW x \in Incidents
              PROVE  /\ [incident[x] EXCEPT !.status = "merged", !.into = tx[t].other,
                                            !.watched = FALSE] \in IncidentRows
                     /\ [incident[x] EXCEPT !.watched = TRUE] \in IncidentRows
            BY <1>0, <3>1, IncidentRowWritten
        <3>3. Rows
            BY <1>0, <2>3, <3>2 DEF CommitMerge
        <3>4. Sets
            BY <1>0, <2>3, <3>1 DEF CommitMerge
        <3> QED
            BY <3>3, <3>4
    <2>4. ASSUME CommitMove(t) PROVE Rows
        <3> DEFINE j == tx[t].other
        <3>1. CASE incident' = [incident EXCEPT ![j].watched = TRUE]
            BY <1>0, <3>1, IncidentRowWritten
        <3> QED
            BY <1>1, <2>4, <3>1 DEF CommitMove
    <2>5. ASSUME CommitUnlink(t) PROVE Rows
        <3> DEFINE j == tx[t].other
        <3>1. CASE incident' = [incident EXCEPT ![j].status = "failed"]
            BY <1>0, <3>1, IncidentRowWritten
        <3> QED
            BY <1>1, <2>5, <3>1 DEF CommitUnlink
    <2>6. ASSUME StartUnlinked(t) PROVE Rows /\ Sets
        <3>1. tx[t].other \in Incidents
            BY <2>0, <2>6 DEF StartUnlinked, KnowingTxs, Knows
        <3> QED
            BY <1>0, <2>6, <3>1 DEF StartUnlinked, IncidentRows
    <2> QED
        BY <1>1, <1>2, <1>3, <1>7, <2>1, <2>2, <2>3, <2>4, <2>5, <2>6
        DEF TxStep, MarkResolved, CountFiring, CommitResolve, CommitClose, LockMerge,
            CommitMove, CommitUnlink, SweepIncidents, StaleAlerts, FindStale, CloseStale
<1>8. ASSUME NEW i \in Incidents, Resume(i) \/ Expire(i) PROVE Rows /\ Sets
    <2>1. CASE Resume(i)
        BY <1>0, <2>1 DEF Resume, IncidentRows
    <2>2. CASE Expire(i)
        <3>1. [incident[i] EXCEPT !.watched = FALSE] \in IncidentRows
            BY <1>0, IncidentRowWritten
        <3>2. Rows
            BY <1>0, <2>2, <3>1 DEF Expire
        <3> QED
            BY <1>2, <2>2, <3>2 DEF Expire
    <2> QED
        BY <1>8, <2>1, <2>2
<1>9. ASSUME Age PROVE Rows /\ Sets
    BY <1>0, <1>2, <1>9 DEF Age, IncidentRows
<1>10. ASSUME (\E p \in Procs : Abort(p)) \/ Restart \/ UNCHANGED vars PROVE Rows /\ Sets
    BY <1>0, <1>1, <1>10 DEF Abort, Restart, vars
<1> QED
    BY <1>5, <1>6, <1>7, <1>8, <1>9, <1>10 DEF Next

(* A goroutine that handles a firing key has an incident once it has one.  *)
LEMMA IngestRowStep ==
    ASSUME TypeOK, [Next]_vars
    PROVE  /\ ingest' \in [Keys -> IngestStates]
           /\ \A k \in Keys : ingest'[k].at \in {"idle", "spawning"}
                                <=> ingest'[k].incident = NoIncident
<1> DEFINE Good(r) == /\ r \in IngestStates
                      /\ r.at \in {"idle", "spawning"} <=> r.incident = NoIncident
<1> DEFINE Fine == ingest' \in [Keys -> IngestStates] /\ \A q \in Keys : Good(ingest'[q])
<1>0. ingest \in [Keys -> IngestStates] /\ \A k \in Keys : Good(ingest[k])
    BY DEF TypeOK
<1>1. Good(NotIngesting) /\ Good([at |-> "spawning", incident |-> NoIncident])
    BY DEF NotIngesting, IngestStates
<1>2. ASSUME NEW i \in Incidents,
             NEW at \in {"linking", "inserting", "claiming", "cancelling", "launching"}
      PROVE  Good([at |-> at, incident |-> i])
    BY DEF IngestStates, Incidents, NoIncident
<1>3. ASSUME NEW k \in Keys, NEW r, Good(r), ingest' = [ingest EXCEPT ![k] = r]
      PROVE  Fine
    BY <1>0, <1>3
<1>4. ASSUME NEW k \in Keys, Correlate(k) \/ IngestStep(k)
      PROVE  \E r : Good(r) /\ ingest' = [ingest EXCEPT ![k] = r]
    <2>1. ingest[k].at \notin {"idle", "spawning"} => ingest[k].incident \in Incidents
        BY DEF TypeOK, IngestStates
    <2>2. ingest[k] = [at |-> ingest[k].at, incident |-> ingest[k].incident]
        BY <1>0 DEF IngestStates
    <2>3. ASSUME Correlate(k) PROVE \E r : Good(r) /\ ingest' = [ingest EXCEPT ![k] = r]
        <3>1. CASE ingest' = [ingest EXCEPT ![k].at = "spawning"]
            <4>1. [ingest[k] EXCEPT !.at = "spawning"] = [at |-> "spawning", incident |-> NoIncident]
                BY <1>0, <2>2, <2>3 DEF Correlate
            <4> QED
                BY <1>0, <1>1, <3>1, <4>1
        <3>2. CASE \E i \in Incidents :
                      ingest' = [ingest EXCEPT ![k] = [at |-> "linking", incident |-> i]]
            BY <1>2, <3>2
        <3> QED
            BY <2>3, <3>1, <3>2 DEF Correlate
    <2>4. ASSUME LockTarget(k) PROVE \E r : Good(r) /\ ingest' = [ingest EXCEPT ![k] = r]
        BY <1>2, <2>1, <2>4, LinkTargetIsIncident DEF LockTarget
    <2>5. ASSUME Claim(k) PROVE \E r : Good(r) /\ ingest' = [ingest EXCEPT ![k] = r]
        <3>1. \E at \in {"cancelling", "launching"} : ingest' = [ingest EXCEPT ![k].at = at]
            BY <2>5 DEF Claim, AfterConflict
        <3>2. PICK at \in {"cancelling", "launching"} :
                 ingest' = [ingest EXCEPT ![k] = [at |-> at, incident |-> ingest[k].incident]]
            BY <1>0, <2>2, <3>1
        <3> QED
            BY <1>2, <2>1, <2>5, <3>2 DEF Claim
    <2>6. ASSUME Spawn(k) PROVE \E r : Good(r) /\ ingest' = [ingest EXCEPT ![k] = r]
        BY <1>1, <1>2, <2>6 DEF Spawn
    <2> QED
        BY <1>1, <1>4, <2>3, <2>4, <2>5, <2>6 DEF IngestStep, LinkFails, Link, Cancel, Launch
<1>5. ASSUME UNCHANGED ingest PROVE Fine
    BY <1>0, <1>5
<1>6. Fine
    <2>1. CASE Restart
        BY <1>1, <2>1 DEF Restart
    <2>2. ASSUME NEW p \in Procs, Abort(p) PROVE Fine
        BY <1>1, <1>3, <1>5, <2>2 DEF Abort
    <2>3. ASSUME NEW t \in Txs, Begin(t) \/ TxStep(t) PROVE UNCHANGED ingest
        BY <2>3 DEF Begin, FindFiring, LockAndMark, SweepAlerts, ListStale, Complete, Fail,
                    BeginComplete, BeginClose, EvaluateMerge, SpawnUnlinked, ReadMove, TxStep,
                    MarkResolved, CountFiring, CommitResolve, CommitComplete, CommitClose,
                    LockMerge, CommitMerge, CommitMove, CommitUnlink, StartUnlinked,
                    SweepIncidents, StaleAlerts, FindStale, CloseStale
    <2>4. ASSUME NEW i \in Incidents, Resume(i) \/ Expire(i) PROVE UNCHANGED ingest
        BY <2>4 DEF Resume, Expire
    <2> QED
        BY <1>3, <1>4, <1>5, <2>1, <2>2, <2>3, <2>4 DEF Next, Age, vars
<1> QED
    BY <1>6

(* The tables start out well formed.                                       *)
LEMMA RowsInit == Init => TypeOK /\ KnownRows
<1> SUFFICES ASSUME Init PROVE TypeOK /\ KnownRows
    OBVIOUS
<1>1. TypeOK
    BY DEF Init, TypeOK, IncidentRows, AlertRows, IngestStates, NotIngesting, TxStates, NoTx
<1>2. NoTx \in KnowingTxs /\ PointsAtRows(NoTx)
    BY DEF KnowingTxs, Knows, HasAlert, TxStates, NoTx, PointsAtRows
<1> QED
    BY <1>1, <1>2 DEF Init, KnownRows

(* Every step keeps the rows, and what a transaction knows, in their sets. *)
LEMMA RowsStep ==
    ASSUME TypeOK, KnownRows, [Next]_vars
    PROVE  TypeOK' /\ KnownRows'
<1> DEFINE Goal == tx' \in [Txs -> KnowingTxs] /\ \A t \in Txs : PointsAtRows(tx'[t])
<1>0. tx \in [Txs -> KnowingTxs] /\ \A t \in Txs : PointsAtRows(tx[t])
    BY DEF KnownRows
<1>1. ASSUME NEW t \in Txs, Begin(t) \/ TxStep(t) PROVE Goal
    BY <1>0, <1>1, TxRowStep
<1>2. ASSUME UNCHANGED tx PROVE Goal
    BY <1>0, <1>2
<1>3. NoTx \in KnowingTxs /\ PointsAtRows(NoTx)
    BY DEF KnowingTxs, Knows, HasAlert, TxStates, NoTx, PointsAtRows
<1>4. Goal
    <2>1. ASSUME NEW k \in Keys, Correlate(k) \/ IngestStep(k) PROVE UNCHANGED tx
        BY <2>1 DEF Correlate, IngestStep, LockTarget, LinkFails, Link, Spawn, Claim, Cancel, Launch
    <2>2. ASSUME NEW i \in Incidents, Resume(i) \/ Expire(i) PROVE UNCHANGED tx
        BY <2>2 DEF Resume, Expire
    <2>3. ASSUME NEW p \in Procs, Abort(p) PROVE Goal
        BY <1>0, <1>2, <1>3, <2>3 DEF Abort
    <2>4. ASSUME Restart PROVE Goal
        BY <1>3, <2>4 DEF Restart
    <2> QED
        BY <1>1, <1>2, <2>1, <2>2, <2>3, <2>4 DEF Next, Age, vars
<1>5. \A a \in Alerts : alert[a].state # "absent" => alert'[a].state # "absent"
    BY AlertRowStep
<1>6. \A t \in Txs : PointsAtRows(tx[t])'
    BY <1>4, <1>5 DEF PointsAtRows, KnowingTxs, Knows, TxStates
<1>7. KnownRows'
    BY <1>4, <1>6, AlertRowStep DEF KnownRows, KnowingTxs, Knows, PointsAtRows, HasAlert
<1>8. KnowingTxs \subseteq TxStates
    BY DEF KnowingTxs
<1> QED
    BY <1>4, <1>7, <1>8, AlertRowStep, IncidentRowStep, IngestRowStep DEF TypeOK

(* The rows, the handlers and the transactions keep their types.           *)
THEOREM TypeCorrect == Spec => []TypeOK
<1>1. TypeOK /\ KnownRows /\ [Next]_vars => TypeOK' /\ KnownRows'
    BY RowsStep
<1> QED
    BY <1>1, RowsInit, PTL DEF Spec

-----------------------------------------------------------------------------
(* What a step does to the locks, the statuses and the transactions *)

Still(p) == IF p \in Keys THEN ingest'[p] = ingest[p] ELSE tx'[p] = tx[p]

SoleHolder(p, i) == \A q \in Procs \ {p} : i \notin HeldIncidents(q)

(* A goroutine is an ingest or a transaction, never both.                  *)
LEMMA ProcKinds == /\ Keys \subseteq Procs /\ Txs \subseteq Procs
                   /\ \A p \in Procs : p \in Txs <=> p \notin Keys
BY ProcsAssumption DEF Procs

(* A statement that runs finds its incidents unlocked by others.           *)
LEMMA GrantedAlone ==
    ASSUME NEW p \in Procs, Granted(p), NEW i \in NeededIncidents(p)
    PROVE  SoleHolder(p, i)
BY DEF Granted, SoleHolder

(* An incident whose lock is free is locked by nobody else.                *)
LEMMA FreeAlone ==
    ASSUME NEW p \in Procs, NEW i, IncidentFree(i) PROVE SoleHolder(p, i)
BY DEF IncidentFree, SoleHolder

(* A held lock is its holder's only.                                       *)
LEMMA HeldAlone ==
    ASSUME OneHolder, NEW p \in Procs, NEW i \in HeldIncidents(p)
    PROVE  SoleHolder(p, i)
BY DEF OneHolder, SoleHolder

(* Who writes the status of an incident, and what it was checked for.      *)
Writes(p, i, old, new) ==
    \/ /\ p \in Keys
       /\ ingest[p].incident = i
       /\ \/ ingest[p].at = "launching" /\ new = "running"
          \/ ingest[p].at = "cancelling" /\ new = "failed"
    \/ /\ p \in Txs
       /\ tx[p].incident = i
       /\ \/ tx[p].at = "completing" /\ new = tx[p].write
          \/ tx[p].at = "counted" /\ tx[p].write = "monitor" /\ new = "monitor"
          \/ tx[p].at = "closing" /\ new = "closed"
          \/ tx[p].at = "merging" /\ new = "merged"
    \/ /\ p \in Txs
       /\ tx[p].other = i
       /\ \/ tx[p].at = "unlinking" /\ new = "failed"
          \/ tx[p].at = "starting" /\ new = "running"
    \/ /\ p \in Txs
       /\ new = "closed"
       /\ old \in {"completed", "monitor"}

StatusReason(i) ==
    LET old == incident[i].status
        new == incident'[i].status
    IN  \/ old = "absent" /\ new = "pending"
        \/ incident[i].threaded /\ IncidentFree(i) /\ new = "running"
        \/ \E p \in Procs : ~Still(p) /\ SoleHolder(p, i) /\ Writes(p, i, old, new)

(* A status changes for a reason, and by a step of the only holder of the  *)
(* incident's lock, if it is held at all.                                  *)
LEMMA StatusStep ==
    ASSUME TypeOK, KnownRows, OneHolder, [Next]_vars,
           NEW i \in Incidents, incident'[i].status # incident[i].status
    PROVE  StatusReason(i)
<1>0. /\ incident \in [Incidents -> IncidentRows]
      /\ ingest \in [Keys -> IngestStates]
      /\ tx \in [Txs -> KnowingTxs]
    BY DEF TypeOK, KnownRows
<1>1. ASSUME UNCHANGED incident PROVE FALSE
    BY <1>1
<1>2. ASSUME NEW j \in Incidents, SpawnRow(j) PROVE StatusReason(i)
    BY <1>0, <1>2 DEF SpawnRow, IncidentRows, StatusReason
<1>3. ASSUME NEW k \in Keys, Link(k) PROVE FALSE
    BY <1>0, <1>3 DEF Link, IncidentRows
<1>4. ASSUME NEW k \in Keys, Claim(k) PROVE FALSE
    BY <1>0, <1>4 DEF Claim, IncidentRows
<1>5. ASSUME NEW k \in Keys, Cancel(k) PROVE StatusReason(i)
    <2>1. ingest[k].incident = i /\ incident'[i].status = "failed"
        BY <1>0, <1>5 DEF Cancel, IncidentRows
    <2>2. SoleHolder(k, i)
        BY <1>5, <2>1, GrantedAlone, ProcKinds DEF Cancel, NeededIncidents
    <2>3. ~Still(k)
        BY <1>0, <1>5 DEF Cancel, Still, NotIngesting
    <2> QED
        BY <1>5, <2>1, <2>2, <2>3, ProcKinds DEF Cancel, StatusReason, Writes
<1>6. ASSUME NEW k \in Keys, Launch(k) PROVE StatusReason(i)
    <2>1. ingest[k].incident = i /\ incident'[i].status = "running"
        BY <1>0, <1>6 DEF Launch, IncidentRows
    <2>2. SoleHolder(k, i)
        BY <1>6, <2>1, GrantedAlone, ProcKinds DEF Launch, NeededIncidents
    <2>3. ~Still(k)
        BY <1>0, <1>6 DEF Launch, Still, NotIngesting
    <2> QED
        BY <1>6, <2>1, <2>2, <2>3, ProcKinds DEF Launch, StatusReason, Writes
<1>7. ASSUME NEW j \in Incidents, Resume(j) PROVE StatusReason(i)
    BY <1>0, <1>7 DEF Resume, IncidentRows, StatusReason
<1>8. ASSUME NEW t \in Txs, tx[t].at # "none", tx' = [tx EXCEPT ![t] = NoTx] PROVE ~Still(t)
    BY <1>0, <1>8, ProcKinds DEF Still, NoTx
<1>9. ASSUME NEW t \in Txs, CommitResolve(t) PROVE StatusReason(i)
    <2>1. tx[t].incident = i /\ tx[t].write = "monitor" /\ incident'[i].status = "monitor"
        BY <1>0, <1>9 DEF CommitResolve, IncidentRows
    <2>2. SoleHolder(t, i)
        BY <1>9, <2>1, HeldAlone, ProcKinds DEF CommitResolve, HeldIncidents
    <2> QED
        BY <1>8, <1>9, <2>1, <2>2, ProcKinds DEF CommitResolve, StatusReason, Writes
<1>10. ASSUME NEW t \in Txs, CommitComplete(t) PROVE StatusReason(i)
    <2>1. tx[t].incident = i /\ incident'[i].status = tx[t].write
        BY <1>0, <1>10 DEF CommitComplete, IncidentRows
    <2>2. SoleHolder(t, i)
        BY <1>10, <2>1, HeldAlone, ProcKinds DEF CommitComplete, HeldIncidents
    <2> QED
        BY <1>8, <1>10, <2>1, <2>2, ProcKinds DEF CommitComplete, StatusReason, Writes
<1>11. ASSUME NEW t \in Txs, CommitClose(t) PROVE StatusReason(i)
    <2>1. tx[t].incident = i /\ incident'[i].status = "closed"
        BY <1>0, <1>11 DEF CommitClose, Closed, IncidentRows
    <2>2. SoleHolder(t, i)
        BY <1>11, <2>1, HeldAlone, ProcKinds DEF CommitClose, HeldIncidents
    <2> QED
        BY <1>8, <1>11, <2>1, <2>2, ProcKinds DEF CommitClose, StatusReason, Writes
<1>12. ASSUME NEW t \in Txs, CommitMerge(t) PROVE StatusReason(i)
    <2>1. tx[t].incident = i /\ incident'[i].status = "merged"
        BY <1>0, <1>12 DEF CommitMerge, IncidentRows
    <2>2. SoleHolder(t, i)
        BY <1>12, <2>1, HeldAlone, ProcKinds DEF CommitMerge, HeldIncidents
    <2> QED
        BY <1>8, <1>12, <2>1, <2>2, ProcKinds DEF CommitMerge, StatusReason, Writes
<1>13. ASSUME NEW t \in Txs, CommitMove(t) PROVE FALSE
    BY <1>0, <1>13 DEF CommitMove, IncidentRows
<1>14. ASSUME NEW t \in Txs, CommitUnlink(t) PROVE StatusReason(i)
    <2>1. tx[t].other = i /\ incident'[i].status = "failed" /\ ~NotMoved(t)
        BY <1>0, <1>14 DEF CommitUnlink, IncidentRows
    <2>2. SoleHolder(t, i)
        BY <1>14, <2>1, GrantedAlone, ProcKinds DEF CommitUnlink, NeededIncidents
    <2> QED
        BY <1>8, <1>14, <2>1, <2>2, ProcKinds DEF CommitUnlink, StatusReason, Writes
<1>15. ASSUME NEW t \in Txs, StartUnlinked(t) PROVE StatusReason(i)
    <2>1. tx[t].other = i /\ incident'[i].status = "running"
        BY <1>0, <1>15 DEF StartUnlinked, IncidentRows
    <2>2. SoleHolder(t, i)
        BY <1>15, <2>1, GrantedAlone, ProcKinds DEF StartUnlinked, NeededIncidents
    <2> QED
        BY <1>8, <1>15, <2>1, <2>2, ProcKinds DEF StartUnlinked, StatusReason, Writes
<1>16. ASSUME NEW t \in Txs, SweepIncidents(t) PROVE StatusReason(i)
    <2>1. Expired(i) /\ incident'[i].status = "closed"
        BY <1>0, <1>16 DEF SweepIncidents, Swept, Closed, IncidentRows
    <2>2. SoleHolder(t, i)
        BY <1>16, <2>1, GrantedAlone, ProcKinds DEF SweepIncidents, NeededIncidents
    <2> QED
        BY <1>8, <1>16, <2>1, <2>2, ProcKinds DEF SweepIncidents, StatusReason, Writes, Expired
<1>17. ASSUME NEW t \in Txs, CloseStale(t) PROVE StatusReason(i)
    <2>1. i \in tx[t].batch /\ Finished(i) /\ incident'[i].status = "closed"
        BY <1>0, <1>17 DEF CloseStale, Closed, IncidentRows
    <2>2. SoleHolder(t, i)
        BY <1>17, <2>1, GrantedAlone, ProcKinds DEF CloseStale, NeededIncidents
    <2> QED
        BY <1>8, <1>17, <2>1, <2>2, ProcKinds DEF CloseStale, StatusReason, Writes, Finished
<1>18. ASSUME Age \/ \E j \in Incidents : Expire(j) PROVE FALSE
    BY <1>0, <1>18 DEF Age, Expire, IncidentRows
<1>19. ASSUME NEW k \in Keys, Correlate(k) \/ IngestStep(k) PROVE StatusReason(i)
    BY <1>1, <1>2, <1>3, <1>4, <1>5, <1>6, <1>19
    DEF Correlate, IngestStep, LockTarget, LinkFails, Spawn
<1>20. ASSUME NEW t \in Txs, Begin(t) \/ TxStep(t) PROVE StatusReason(i)
    <2>1. ASSUME NEW a \in Alerts, SpawnUnlinked(t, a) PROVE StatusReason(i)
        BY <1>2, <2>1 DEF SpawnUnlinked
    <2> QED
        BY <1>1, <1>9, <1>10, <1>11, <1>12, <1>13, <1>14, <1>15, <1>16, <1>17, <1>20, <2>1
        DEF Begin, FindFiring, LockAndMark, SweepAlerts, ListStale, Complete, Fail,
            BeginComplete, BeginClose, EvaluateMerge, ReadMove, TxStep, MarkResolved,
            CountFiring, LockMerge, StaleAlerts, FindStale
<1> QED
    BY <1>1, <1>7, <1>18, <1>19, <1>20 DEF Next, Abort, Restart, vars

(* How a transaction arrives at its next statement.                        *)
Arrival(t) ==
    LET x == tx[t]
        y == tx'[t]
    IN  /\ y.at \notin {"none", "unlinking", "starting"} => UNCHANGED <<incident, alert>>
        /\ y.at # "none" => UNCHANGED survivors
        /\ y.at = "found" =>
              /\ alert[y.alert].state = "firing"
              /\ y.incident = alert[y.alert].incident
        /\ y.at = "marked" =>
              \/ x.at = "found" /\ y.alert = x.alert /\ y.incident = x.incident
              \/ y.incident = alert[y.alert].incident
        /\ y.at = "counted" =>
              /\ x.at = "marked" /\ y.alert = x.alert /\ y.incident = x.incident
              /\ y.marked = x.marked
              /\ SoleHolder(t, y.incident)
              /\ y.write = "monitor" =>
                    incident[y.incident].status = "completed" /\ Firing(y.incident) \subseteq y.marked
              /\ y.write # "monitor" =>
                    \/ incident[y.incident].status # "completed"
                    \/ ~(Firing(y.incident) \subseteq y.marked)
                    \/ "settingsError" \in Operations
        /\ y.at = "completing" =>
              /\ y.incident \in investigating
              /\ IncidentFree(y.incident)
              /\ y.write = "monitor" => Firing(y.incident) = {}
              /\ y.write = "completed" => Firing(y.incident) # {}
        /\ y.at = "closing" => IncidentFree(y.incident) /\ incident[y.incident].status # "absent"
        /\ y.at = "evaluated" => y.other < y.incident
        /\ y.at = "merging" =>
              /\ x.at = "evaluated" /\ y.incident = x.incident /\ y.other = x.other
              /\ Finished(y.incident) /\ Finished(y.other)
              /\ SoleHolder(t, y.incident) /\ SoleHolder(t, y.other)
        /\ y.at = "unlinking" => SpawnRow(y.other) /\ UNCHANGED alert
        /\ y.at = "starting" =>
              /\ x.at = "unlinking" /\ y.other = x.other
              /\ UNCHANGED incident

(* A transaction that moves arrives where one of its statements takes it.  *)
LEMMA TxArrives ==
    ASSUME TypeOK, KnownRows, [Next]_vars, NEW t \in Txs, tx'[t] # tx[t]
    PROVE  Arrival(t)
<1>0. /\ tx \in [Txs -> KnowingTxs]
      /\ tx[t] \in KnowingTxs
      /\ t \in Procs /\ t \notin Keys
    BY ProcKinds DEF KnownRows
<1>1. ASSUME UNCHANGED tx PROVE FALSE
    BY <1>1
<1>2. ASSUME tx'[t] = NoTx PROVE Arrival(t)
    BY <1>2 DEF Arrival, NoTx
<1>3. ASSUME NEW u \in Txs, Begin(u) \/ TxStep(u) PROVE u = t
    BY <1>3, TxRowStep DEF KnownRows
<1>4. ASSUME \/ CommitResolve(t) \/ CommitComplete(t) \/ CommitClose(t) \/ CommitMerge(t)
             \/ CommitMove(t) \/ StartUnlinked(t) \/ SweepIncidents(t) \/ CloseStale(t)
      PROVE  Arrival(t)
    BY <1>0, <1>2, <1>4 DEF CommitResolve, CommitComplete, CommitClose, CommitMerge, CommitMove,
                      StartUnlinked, SweepIncidents, CloseStale
<1>5. ASSUME FindFiring(t) PROVE Arrival(t)
    BY <1>0, <1>5 DEF FindFiring, Arrival, NoTx
<1>6. ASSUME MarkResolved(t) PROVE Arrival(t)
    BY <1>0, <1>6 DEF MarkResolved, Arrival, KnowingTxs, TxStates
<1>7. ASSUME LockAndMark(t) PROVE Arrival(t)
    BY <1>0, <1>7 DEF LockAndMark, Arrival, NoTx
<1>8. ASSUME CountFiring(t) PROVE Arrival(t)
    <2>1. tx[t].write = "none" /\ tx[t].incident \in Incidents
        BY <1>0, <1>8 DEF CountFiring, KnowingTxs, Knows
    <2>2. SoleHolder(t, tx[t].incident)
        BY <1>0, <1>8, GrantedAlone DEF CountFiring, NeededIncidents
    <2>3. /\ tx'[t].at = "counted" /\ tx'[t].incident = tx[t].incident
          /\ tx'[t].alert = tx[t].alert /\ tx'[t].marked = tx[t].marked
        BY <1>0, <1>8 DEF CountFiring, KnowingTxs, TxStates
    <2>4. Counted(t, tx[t].incident) = {} <=> Firing(tx[t].incident) \subseteq tx[t].marked
        BY DEF Counted
    <2>5. /\ tx'[t].write = "monitor" =>
                incident[tx[t].incident].status = "completed" /\ Counted(t, tx[t].incident) = {}
          /\ tx'[t].write # "monitor" =>
                \/ incident[tx[t].incident].status # "completed"
                \/ Counted(t, tx[t].incident) # {}
                \/ "settingsError" \in Operations
        BY <1>0, <1>8, <2>1 DEF CountFiring, KnowingTxs, TxStates
    <2> QED
        BY <1>8, <2>2, <2>3, <2>4, <2>5 DEF CountFiring, Arrival
<1>9. ASSUME NEW i \in Incidents, NEW s, BeginComplete(t, i, s), s \in {CompletedStatus(i), "failed"}
      PROVE  Arrival(t)
    BY <1>0, <1>9 DEF BeginComplete, CompletedStatus, Arrival, NoTx
<1>10. ASSUME NEW i \in Incidents, BeginClose(t, i) PROVE Arrival(t)
    BY <1>0, <1>10 DEF BeginClose, Arrival, NoTx
<1>11. ASSUME NEW i \in Incidents, NEW j \in Incidents, EvaluateMerge(t, i, j) PROVE Arrival(t)
    BY <1>0, <1>11 DEF EvaluateMerge, MayMerge, Arrival, NoTx
<1>12. ASSUME LockMerge(t) PROVE Arrival(t)
    <2>1. SoleHolder(t, tx[t].incident) /\ SoleHolder(t, tx[t].other)
        BY <1>0, <1>12, GrantedAlone DEF LockMerge, NeededIncidents
    <2>2. CASE StillMergeable(tx[t].incident, tx[t].other)
        <3>1. tx'[t] = [tx[t] EXCEPT !.at = "merging"]
            BY <1>0, <1>12, <2>2 DEF LockMerge
        <3>2. tx'[t].at = "merging" /\ tx'[t].incident = tx[t].incident /\ tx'[t].other = tx[t].other
            BY <1>0, <3>1 DEF KnowingTxs, TxStates
        <3> QED
            BY <1>12, <2>1, <2>2, <3>2 DEF LockMerge, Arrival, StillMergeable
    <2>3. CASE ~StillMergeable(tx[t].incident, tx[t].other)
        BY <1>0, <1>2, <1>12, <2>3 DEF LockMerge
    <2> QED
        BY <2>2, <2>3
<1>13. ASSUME NEW a \in Alerts, SpawnUnlinked(t, a) PROVE Arrival(t)
    BY <1>0, <1>13 DEF SpawnUnlinked, Arrival, NoTx
<1>14. ASSUME CommitUnlink(t) PROVE Arrival(t)
    <2>1. CASE tx' = [tx EXCEPT ![t] = NoTx]
        BY <1>0, <1>2, <2>1
    <2>2. CASE NotMoved(t)
        BY <1>0, <1>14, <2>2 DEF CommitUnlink, Arrival, KnowingTxs, TxStates
    <2> QED
        BY <1>14, <2>1, <2>2 DEF CommitUnlink
<1>15. ASSUME NEW a \in Alerts, NEW i \in Incidents, ReadMove(t, a, i) PROVE Arrival(t)
    BY <1>0, <1>15 DEF ReadMove, Arrival, NoTx
<1>16. ASSUME SweepAlerts(t) \/ ListStale(t) PROVE Arrival(t)
    <2>1. /\ tx'[t].at \in {"sweeping", "listed"}
          /\ UNCHANGED <<incident, alert, survivors>>
        BY <1>0, <1>16 DEF SweepAlerts, ListStale, NoTx
    <2> QED
        BY <2>1 DEF Arrival
<1>17. ASSUME StaleAlerts(t) \/ FindStale(t) PROVE Arrival(t)
    BY <1>0, <1>17 DEF StaleAlerts, FindStale, Arrival, KnowingTxs, TxStates
<1>18. ASSUME NEW u \in Txs, Begin(u) \/ TxStep(u) PROVE Arrival(t)
    BY <1>3, <1>4, <1>5, <1>6, <1>7, <1>8, <1>9, <1>10, <1>11, <1>12, <1>13, <1>14, <1>15,
       <1>16, <1>17, <1>18 DEF Begin, TxStep, Complete, Fail
<1>19. ASSUME NEW k \in Keys, Correlate(k) \/ IngestStep(k) PROVE UNCHANGED tx
    BY <1>19 DEF Correlate, IngestStep, LockTarget, LinkFails, Link, Spawn, Claim, Cancel, Launch
<1>20. ASSUME NEW i \in Incidents, Resume(i) \/ Expire(i) PROVE UNCHANGED tx
    BY <1>20 DEF Resume, Expire
<1>21. ASSUME NEW p \in Procs, Abort(p) PROVE Arrival(t)
    BY <1>0, <1>1, <1>2, <1>21 DEF Abort
<1>22. ASSUME Restart PROVE Arrival(t)
    BY <1>2, <1>22 DEF Restart
<1> QED
    BY <1>1, <1>18, <1>19, <1>20, <1>21, <1>22 DEF Next, Age, vars

(* The same for the handler of a firing key.                               *)
KeyArrival(k) ==
    LET x == ingest[k]
        y == ingest'[k]
    IN  /\ y.at = "linking" => LiveTarget(y.incident) /\ UNCHANGED incident
        /\ y.at = "inserting" =>
              /\ y.incident = LinkTarget(x.incident) /\ x.at = "linking"
              /\ SoleHolder(k, y.incident)
              /\ UNCHANGED <<incident, alert>>
        /\ y.at = "claiming" => SpawnRow(y.incident) /\ UNCHANGED alert
        /\ y.at = "cancelling" =>
              x.at = "claiming" /\ y.incident = x.incident /\ UNCHANGED incident
        /\ y.at = "launching" =>
              /\ x.at = "claiming" /\ y.incident = x.incident
              /\ InsertAlert(k, y.incident)
              /\ incident' = [incident EXCEPT ![y.incident].threaded = TRUE]

(* An ingest that moves arrives where one of its statements takes it.      *)
LEMMA KeyArrives ==
    ASSUME TypeOK, KnownRows, [Next]_vars, NEW k \in Keys, ingest'[k] # ingest[k]
    PROVE  KeyArrival(k)
<1>0. /\ ingest \in [Keys -> IngestStates]
      /\ ingest[k].at \notin {"idle", "spawning"} => ingest[k].incident \in Incidents
      /\ k \in Procs /\ k \in Keys
    BY ProcKinds DEF TypeOK, IngestStates
<1>1. ASSUME UNCHANGED ingest PROVE FALSE
    BY <1>1
<1>2. ASSUME ingest'[k].at \in {"idle", "spawning"} PROVE KeyArrival(k)
    BY <1>2 DEF KeyArrival
<1>3. ASSUME NEW q \in Keys, Correlate(q) \/ IngestStep(q) PROVE q = k
    BY <1>0, <1>3 DEF Correlate, IngestStep, LockTarget, LinkFails, Link, Spawn, Claim, Cancel, Launch
<1>4. ASSUME Correlate(k) PROVE KeyArrival(k)
    BY <1>0, <1>4 DEF Correlate, KeyArrival, IngestStates
<1>5. ASSUME LockTarget(k) PROVE KeyArrival(k)
    <2>1. SoleHolder(k, LinkTarget(ingest[k].incident))
        BY <1>0, <1>5, GrantedAlone DEF LockTarget, NeededIncidents
    <2> QED
        BY <1>0, <1>5, <2>1 DEF LockTarget, KeyArrival
<1>6. ASSUME LinkFails(k) \/ Link(k) \/ Cancel(k) \/ Launch(k) PROVE KeyArrival(k)
    BY <1>0, <1>2, <1>6 DEF LinkFails, Link, Cancel, Launch, NotIngesting
<1>7. ASSUME Spawn(k) PROVE KeyArrival(k)
    BY <1>0, <1>7 DEF Spawn, KeyArrival, NotIngesting
<1>8. ASSUME Claim(k) PROVE KeyArrival(k)
    <2>1. ingest'[k].incident = ingest[k].incident
        BY <1>0, <1>8 DEF Claim, IngestStates
    <2>2. ingest'[k].at = "cancelling" /\ UNCHANGED incident => KeyArrival(k)
        BY <1>8, <2>1 DEF Claim, KeyArrival
    <2>3. ASSUME ingest'[k].at = "launching", InsertAlert(k, ingest[k].incident),
                 incident' = [incident EXCEPT ![ingest[k].incident].threaded = TRUE]
          PROVE  KeyArrival(k)
        BY <1>8, <2>1, <2>3 DEF Claim, KeyArrival
    <2>4. \/ ingest'[k].at = "cancelling" /\ UNCHANGED incident
          \/ /\ ingest'[k].at = "launching"
             /\ InsertAlert(k, ingest[k].incident)
             /\ incident' = [incident EXCEPT ![ingest[k].incident].threaded = TRUE]
        BY <1>0, <1>8 DEF Claim, AfterConflict, IngestStates
    <2> QED
        BY <2>2, <2>3, <2>4
<1>9. ASSUME NEW t \in Txs, Begin(t) \/ TxStep(t) PROVE UNCHANGED ingest
    BY <1>9 DEF Begin, FindFiring, LockAndMark, SweepAlerts, ListStale, Complete, Fail,
                BeginComplete, BeginClose, EvaluateMerge, SpawnUnlinked, ReadMove, TxStep,
                MarkResolved, CountFiring, CommitResolve, CommitComplete, CommitClose,
                LockMerge, CommitMerge, CommitMove, CommitUnlink, StartUnlinked,
                SweepIncidents, StaleAlerts, FindStale, CloseStale
<1>10. ASSUME NEW i \in Incidents, Resume(i) \/ Expire(i) PROVE UNCHANGED ingest
    BY <1>10 DEF Resume, Expire
<1>11. ASSUME NEW p \in Procs, Abort(p) PROVE KeyArrival(k)
    BY <1>0, <1>1, <1>2, <1>11 DEF Abort
<1>12. ASSUME Restart PROVE KeyArrival(k)
    BY <1>2, <1>12 DEF Restart, NotIngesting
<1> QED
    BY <1>1, <1>3, <1>4, <1>5, <1>6, <1>7, <1>8, <1>9, <1>10, <1>11, <1>12
    DEF Next, Age, vars, IngestStep

(* One handler or transaction moves at a time, unless the process dies.    *)
LEMMA OneActor ==
    ASSUME TypeOK, KnownRows, [Next]_vars, NEW p \in Procs, NEW q \in Procs, p # q
    PROVE  Still(p) \/ Still(q) \/ Restart
<1>0. ingest \in [Keys -> IngestStates] /\ tx \in [Txs -> KnowingTxs]
    BY DEF TypeOK, KnownRows
<1>1. ASSUME NEW k \in Keys, Correlate(k) \/ IngestStep(k)
      PROVE  UNCHANGED tx /\ \A l \in Keys \ {k} : ingest'[l] = ingest[l]
    BY <1>0, <1>1 DEF Correlate, IngestStep, LockTarget, LinkFails, Link, Spawn, Claim, Cancel, Launch
<1>2. ASSUME NEW t \in Txs, Begin(t) \/ TxStep(t)
      PROVE  UNCHANGED ingest /\ \A u \in Txs \ {t} : tx'[u] = tx[u]
    <2>1. UNCHANGED ingest
        BY <1>2 DEF Begin, FindFiring, LockAndMark, SweepAlerts, ListStale, Complete, Fail,
                    BeginComplete, BeginClose, EvaluateMerge, SpawnUnlinked, ReadMove, TxStep,
                    MarkResolved, CountFiring, CommitResolve, CommitComplete, CommitClose,
                    LockMerge, CommitMerge, CommitMove, CommitUnlink, StartUnlinked,
                    SweepIncidents, StaleAlerts, FindStale, CloseStale
    <2> QED
        BY <1>0, <1>2, <2>1, TxRowStep
<1>3. ASSUME NEW r \in Procs, Abort(r) PROVE \A s \in Procs \ {r} : Still(s)
    BY <1>0, <1>3, ProcKinds DEF Abort, Still
<1>4. ASSUME Age \/ (\E i \in Incidents : Resume(i) \/ Expire(i)) \/ UNCHANGED vars
      PROVE  UNCHANGED <<ingest, tx>>
    BY <1>4 DEF Age, Resume, Expire, vars
<1> QED
    BY <1>0, <1>1, <1>2, <1>3, <1>4, ProcKinds DEF Next, Still

(* Why an alert changes its state or its incident.                         *)
AlertReason(a) ==
    LET old == alert[a]
        new == alert'[a]
    IN  \E p \in Procs :
          /\ ~Still(p)
          /\ \/ /\ p \in Keys /\ ingest[p].at \in {"inserting", "claiming"}
                /\ old.state = "absent" /\ new.state = "firing"
                /\ new.incident = ingest[p].incident
             \/ /\ p \in Txs /\ tx[p].at \in {"counted", "sweeping", "update"}
                /\ tx[p].at = "counted" => CommitResolve(p)
                /\ a \in tx[p].marked
                /\ new.state = "resolved" /\ new.incident = old.incident
             \/ /\ p \in Txs /\ tx[p].at = "closing"
                /\ old.incident = tx[p].incident
                /\ incident'[old.incident].status = "closed"
                /\ new.state = "resolved" /\ new.incident = old.incident
             \/ /\ p \in Txs /\ tx[p].at = "merging"
                /\ old.incident = tx[p].incident /\ new.incident = tx[p].other
                /\ new.state = old.state
                /\ tx[p].other \in survivors'
                /\ incident'[tx[p].incident].into = tx[p].other
                /\ incident'[tx[p].incident].status = "merged"
             \/ /\ p \in Txs /\ tx[p].at \in {"moving", "unlinking"}
                /\ tx[p].alert = a /\ new.incident = tx[p].other
                /\ new.state = old.state

(* An alert's state or incident changes for one of the known reasons.      *)
LEMMA AlertStep ==
    ASSUME TypeOK, KnownRows, [Next]_vars, NEW a \in Alerts,
           alert'[a].state # alert[a].state \/ alert'[a].incident # alert[a].incident
    PROVE  AlertReason(a)
<1>0. /\ alert \in [Alerts -> AlertRows]
      /\ ingest \in [Keys -> IngestStates]
      /\ tx \in [Txs -> KnowingTxs]
      /\ incident \in [Incidents -> IncidentRows]
    BY DEF TypeOK, KnownRows
<1>1. ASSUME UNCHANGED alert PROVE FALSE
    BY <1>1
<1>2. ASSUME NEW k \in Keys, Bump(k) PROVE FALSE
    BY <1>0, <1>2 DEF Bump, AlertRows
<1>3. ASSUME NEW k \in Keys, NEW i, InsertAlert(k, i)
      PROVE  alert[a].state = "absent" /\ alert'[a].state = "firing" /\ alert'[a].incident = i
    BY <1>0, <1>3 DEF InsertAlert
<1>4. ASSUME NEW k \in Keys, Link(k) \/ Claim(k) PROVE AlertReason(a)
    <2>1. ~Still(k)
        BY <1>0, <1>4, ProcKinds DEF Link, Claim, AfterConflict, Still, NotIngesting, IngestStates
    <2>2. InsertAlert(k, ingest[k].incident) /\ ingest[k].at \in {"inserting", "claiming"}
        BY <1>1, <1>2, <1>4 DEF Link, Claim
    <2> QED
        BY <1>3, <2>1, <2>2, ProcKinds DEF AlertReason
<1>5. ASSUME NEW t \in Txs, tx[t].at # "none", tx' = [tx EXCEPT ![t] = NoTx] PROVE ~Still(t)
    BY <1>0, <1>5, ProcKinds DEF Still, NoTx
<1>6. ASSUME NEW S, alert' = Resolved(S)
      PROVE  a \in S /\ alert'[a].state = "resolved" /\ alert'[a].incident = alert[a].incident
    BY <1>0, <1>6 DEF Resolved, AlertRows
<1>7. ASSUME NEW t \in Txs, CommitResolve(t) PROVE AlertReason(a)
    BY <1>5, <1>6, <1>7, ProcKinds DEF CommitResolve, AlertReason
<1>8. ASSUME NEW t \in Txs, CommitClose(t) PROVE AlertReason(a)
    <2>1. tx[t].batch \subseteq {tx[t].incident}
        BY <1>0, <1>8 DEF CommitClose, KnowingTxs, Knows
    <2>2. /\ a \in UNION {Firing(i) : i \in tx[t].batch}
          /\ alert'[a].state = "resolved" /\ alert'[a].incident = alert[a].incident
        BY <1>6, <1>8 DEF CommitClose
    <2>3. alert[a].incident = tx[t].incident
        BY <2>1, <2>2 DEF Firing, Linked
    <2>4. incident'[tx[t].incident].status = "closed"
        <3>1. tx[t].incident \in Incidents
            BY <1>0, <1>8 DEF CommitClose, KnowingTxs, Knows
        <3> QED
            BY <1>0, <1>8, <3>1 DEF CommitClose, Closed, IncidentRows
    <2> QED
        BY <1>5, <1>8, <2>2, <2>3, <2>4, ProcKinds DEF CommitClose, AlertReason
<1>9. ASSUME NEW t \in Txs, SweepIncidents(t) \/ CloseStale(t) PROVE AlertReason(a)
    BY <1>5, <1>6, <1>9, ProcKinds DEF SweepIncidents, CloseStale, AlertReason
<1>10. ASSUME NEW t \in Txs, CommitMerge(t) PROVE AlertReason(a)
    <2>1. tx[t].incident \in Incidents /\ tx[t].other \in Incidents
        BY <1>0, <1>10 DEF CommitMerge, KnowingTxs, Knows
    <2>2. /\ alert[a].incident = tx[t].incident /\ alert'[a].incident = tx[t].other
          /\ alert'[a].state = alert[a].state
        BY <1>0, <1>10 DEF CommitMerge, Linked, AlertRows
    <2>3. /\ incident'[tx[t].incident].into = tx[t].other
          /\ incident'[tx[t].incident].status = "merged"
          /\ tx[t].other \in survivors'
        BY <1>0, <1>10, <2>1 DEF CommitMerge, IncidentRows
    <2> QED
        BY <1>5, <1>10, <2>2, <2>3, ProcKinds DEF CommitMerge, AlertReason
<1>11. ASSUME NEW t \in Txs, CommitMove(t) PROVE AlertReason(a)
    <2>1. /\ a = tx[t].alert /\ alert'[a].incident = tx[t].other
          /\ alert'[a].state = alert[a].state
        BY <1>0, <1>11 DEF CommitMove, AlertRows
    <2> QED
        BY <1>5, <1>11, <2>1, ProcKinds DEF CommitMove, AlertReason
<1>12. ASSUME NEW t \in Txs, CommitUnlink(t) PROVE AlertReason(a)
    <2>1. /\ a = tx[t].alert /\ alert'[a].incident = tx[t].other
          /\ alert'[a].state = alert[a].state
        BY <1>0, <1>12 DEF CommitUnlink, AlertRows
    <2>2. ~Still(t)
        BY <1>0, <1>1, <1>12, ProcKinds DEF CommitUnlink, Still, KnowingTxs, TxStates
    <2> QED
        BY <1>12, <2>1, <2>2, ProcKinds DEF CommitUnlink, AlertReason
<1>13. ASSUME Age PROVE FALSE
    BY <1>0, <1>13 DEF Age, AlertRows
<1>14. ASSUME NEW k \in Keys, Correlate(k) \/ IngestStep(k) PROVE AlertReason(a)
    BY <1>1, <1>4, <1>14 DEF Correlate, IngestStep, LockTarget, LinkFails, Spawn, Cancel, Launch
<1>15. ASSUME NEW t \in Txs, Begin(t) PROVE FALSE
    BY <1>1, <1>15 DEF Begin, FindFiring, LockAndMark, SweepAlerts, ListStale, Complete, Fail,
                       BeginComplete, BeginClose, EvaluateMerge, SpawnUnlinked, ReadMove
<1>16. ASSUME NEW t \in Txs, TxStep(t) PROVE AlertReason(a)
    BY <1>1, <1>7, <1>8, <1>9, <1>10, <1>11, <1>12, <1>16
    DEF TxStep, MarkResolved, CountFiring, CommitComplete, LockMerge, StartUnlinked,
        StaleAlerts, FindStale
<1>17. ASSUME NEW i \in Incidents, Resume(i) \/ Expire(i) PROVE FALSE
    BY <1>1, <1>17 DEF Resume, Expire
<1> QED
    BY <1>1, <1>13, <1>14, <1>15, <1>16, <1>17 DEF Next, Abort, Restart, vars

(* Only the handler that claims an alert gives an incident a thread, only  *)
(* a merge gives it a forward pointer, and what is investigated has a      *)
(* thread or was launched or unlinked.                                     *)
LEMMA MarksStep ==
    ASSUME TypeOK, KnownRows, [Next]_vars, NEW i \in Incidents
    PROVE  /\ incident'[i].threaded # incident[i].threaded =>
                 /\ incident'[i].threaded
                 /\ \E k \in Keys : /\ ingest[k].at = "claiming" /\ ingest[k].incident = i
                                    /\ ~Still(k) /\ InsertAlert(k, i)
           /\ (\/ incident'[i].into # incident[i].into
               \/ incident'[i].status = "merged" /\ incident[i].status # "merged") =>
                 \E t \in Txs : /\ tx[t].at = "merging" /\ tx[t].incident = i
                                /\ incident'[i].into = tx[t].other
           /\ i \in investigating' /\ i \notin investigating =>
                 /\ incident'[i].status = "running"
                 /\ \/ incident[i].threaded
                    \/ \E k \in Keys : /\ ingest[k].at = "launching" /\ ingest[k].incident = i
                    \/ \E t \in Txs : tx[t].at = "starting" /\ tx[t].other = i /\ ~Still(t)
           /\ survivors \subseteq survivors'
<1> DEFINE Threads == incident'[i].threaded # incident[i].threaded =>
                 /\ incident'[i].threaded
                 /\ \E k \in Keys : /\ ingest[k].at = "claiming" /\ ingest[k].incident = i
                                    /\ ~Still(k) /\ InsertAlert(k, i)
<1> DEFINE Intos ==
              (\/ incident'[i].into # incident[i].into
               \/ incident'[i].status = "merged" /\ incident[i].status # "merged") =>
                 \E t \in Txs : /\ tx[t].at = "merging" /\ tx[t].incident = i
                                /\ incident'[i].into = tx[t].other
<1> DEFINE Investigates == i \in investigating' /\ i \notin investigating =>
                 /\ incident'[i].status = "running"
                 /\ \/ incident[i].threaded
                    \/ \E k \in Keys : /\ ingest[k].at = "launching" /\ ingest[k].incident = i
                    \/ \E t \in Txs : tx[t].at = "starting" /\ tx[t].other = i /\ ~Still(t)
<1> DEFINE Survives == survivors \subseteq survivors'
<1> DEFINE Goal == Threads /\ Intos /\ Investigates /\ Survives
<1>0. /\ incident \in [Incidents -> IncidentRows]
      /\ ingest \in [Keys -> IngestStates]
      /\ tx \in [Txs -> KnowingTxs]
    BY DEF TypeOK, KnownRows
<1>1. ASSUME UNCHANGED incident PROVE Threads /\ Intos
    BY <1>1
<1>2. ASSUME UNCHANGED <<investigating, survivors>> PROVE Investigates /\ Survives
    BY <1>2
<1>3. ASSUME NEW S, incident' = Closed(S) PROVE Threads /\ Intos
    BY <1>0, <1>3 DEF Closed, IncidentRows
<1>4. ASSUME NEW j \in Incidents, SpawnRow(j) PROVE Threads /\ Intos
    BY <1>0, <1>4 DEF SpawnRow, IncidentRows
<1>5. ASSUME NEW k \in Keys, Correlate(k) \/ IngestStep(k) PROVE Goal
    <2>1. ASSUME Link(k) PROVE Threads /\ Intos
        BY <1>0, <1>1, <2>1 DEF Link, IncidentRows
    <2>2. ASSUME Claim(k) PROVE Threads /\ Intos
        <3>1. ~Still(k)
            BY <1>0, <2>2 DEF Claim, AfterConflict, Still, IngestStates
        <3> QED
            BY <1>0, <1>1, <2>2, <3>1 DEF Claim, IncidentRows
    <2>3. ASSUME Cancel(k) PROVE Threads /\ Intos
        BY <1>0, <2>3 DEF Cancel, IncidentRows
    <2>4. ASSUME Launch(k) PROVE Goal
        BY <1>0, <2>4 DEF Launch, IncidentRows
    <2> QED
        BY <1>1, <1>2, <1>4, <1>5, <2>1, <2>2, <2>3, <2>4
        DEF Correlate, IngestStep, LockTarget, LinkFails, Link, Spawn, Claim, Cancel
<1>6. ASSUME NEW t \in Txs, Begin(t) PROVE Goal
    <2>1. ASSUME NEW a \in Alerts, SpawnUnlinked(t, a) PROVE Goal
        BY <1>2, <1>4, <2>1 DEF SpawnUnlinked
    <2>2. ASSUME NEW j \in Incidents, NEW s, BeginComplete(t, j, s) PROVE Goal
        BY <1>1, <2>2 DEF BeginComplete
    <2> QED
        BY <1>1, <1>2, <1>6, <2>1, <2>2
        DEF Begin, FindFiring, LockAndMark, SweepAlerts, ListStale, Complete, Fail, BeginClose,
            EvaluateMerge, ReadMove
<1>7. ASSUME NEW t \in Txs, TxStep(t) PROVE Goal
    <2>0. ASSUME incident'[i].into = incident[i].into, incident'[i].threaded = incident[i].threaded,
                 incident'[i].status = "merged" => incident[i].status = "merged"
          PROVE  Threads /\ Intos
        BY <2>0
    <2>1. ASSUME CommitResolve(t) PROVE Goal
        <3>1. /\ incident'[i].into = incident[i].into
              /\ incident'[i].threaded = incident[i].threaded
              /\ incident'[i].status = "merged" => incident[i].status = "merged"
            BY <1>0, <2>1 DEF CommitResolve, IncidentRows
        <3> QED
            BY <1>2, <2>0, <2>1, <3>1 DEF CommitResolve
    <2>2. ASSUME CommitComplete(t) PROVE Goal
        <3>1. tx[t].write # "merged"
            BY <1>0 DEF KnowingTxs, TxStates
        <3>2. /\ incident'[i].into = incident[i].into
              /\ incident'[i].threaded = incident[i].threaded
              /\ incident'[i].status = "merged" => incident[i].status = "merged"
            BY <1>0, <2>2, <3>1 DEF CommitComplete, IncidentRows
        <3> QED
            BY <1>2, <2>0, <2>2, <3>2 DEF CommitComplete
    <2>3. ASSUME CommitMerge(t) PROVE Goal
        <3>1. incident'[i].threaded = incident[i].threaded
            BY <1>0, <2>3 DEF CommitMerge, IncidentRows
        <3>2. i # tx[t].incident =>
                 incident'[i].into = incident[i].into /\ incident'[i].status = incident[i].status
            BY <1>0, <2>3 DEF CommitMerge, IncidentRows
        <3>3. i = tx[t].incident => incident'[i].into = tx[t].other
            BY <1>0, <2>3 DEF CommitMerge, IncidentRows
        <3>4. /\ tx[t].at = "merging"
              /\ UNCHANGED investigating /\ survivors \subseteq survivors'
            BY <2>3 DEF CommitMerge
        <3> QED
            BY <3>1, <3>2, <3>3, <3>4
    <2>4. ASSUME CommitMove(t) PROVE Goal
        BY <1>0, <1>1, <1>2, <2>4 DEF CommitMove, IncidentRows
    <2>5. ASSUME CommitUnlink(t) PROVE Goal
        BY <1>0, <1>1, <1>2, <2>5 DEF CommitUnlink, IncidentRows
    <2>6. ASSUME StartUnlinked(t) PROVE Goal
        <3>1. ~Still(t)
            BY <1>0, <2>6, ProcKinds DEF StartUnlinked, Still, NoTx
        <3> QED
            BY <1>0, <2>6, <3>1 DEF StartUnlinked, IncidentRows
    <2> QED
        BY <1>1, <1>2, <1>3, <1>7, <2>1, <2>2, <2>3, <2>4, <2>5, <2>6
        DEF TxStep, MarkResolved, CountFiring, CommitClose, LockMerge, SweepIncidents,
            StaleAlerts, FindStale, CloseStale
<1>8. ASSUME NEW j \in Incidents, Resume(j) PROVE Goal
    BY <1>0, <1>8 DEF Resume, IncidentRows
<1>9. ASSUME Age \/ \E j \in Incidents : Expire(j) PROVE Goal
    BY <1>0, <1>2, <1>9 DEF Age, Expire, IncidentRows
<1>10. ASSUME (\E p \in Procs : Abort(p)) \/ Restart \/ UNCHANGED vars PROVE Goal
    BY <1>1, <1>10 DEF Abort, Restart, vars
<1> QED
    BY <1>5, <1>6, <1>7, <1>8, <1>9, <1>10 DEF Next

-----------------------------------------------------------------------------
(* How a step keeps the parts of the invariant *)

(* A lock is granted to its sole holder, and kept by whoever does not move.*)
LEMMA HoldersStep ==
    ASSUME TypeOK, KnownRows, [Next]_vars, NEW p \in Procs
    PROVE  /\ Still(p) => HeldIncidents(p)' = HeldIncidents(p) /\ Spawned(p)' = Spawned(p)
           /\ ~Still(p) => \A i \in HeldIncidents(p)' : SoleHolder(p, i)
           /\ Restart => HeldIncidents(p)' = {} /\ Spawned(p)' = {}
<1>1. Still(p) => HeldIncidents(p)' = HeldIncidents(p) /\ Spawned(p)' = Spawned(p)
    BY ProcKinds DEF Still, HeldIncidents, Spawned
<1>2. ASSUME p \in Keys, ~Still(p), NEW i \in HeldIncidents(p)' PROVE SoleHolder(p, i)
    BY <1>2, KeyArrives DEF Still, HeldIncidents, KeyArrival
<1>3. ASSUME p \in Txs, ~Still(p), NEW i \in HeldIncidents(p)' PROVE SoleHolder(p, i)
    <2>1. tx'[p] # tx[p] /\ p \notin Keys
        BY <1>3, ProcKinds DEF Still
    <2>2. Arrival(p)
        BY <1>3, <2>1, TxArrives
    <2>3. CASE tx'[p].at = "counted"
        BY <1>3, <2>1, <2>2, <2>3 DEF HeldIncidents, Arrival
    <2>4. CASE tx'[p].at \in {"completing", "closing"}
        BY <1>3, <2>1, <2>2, <2>4, FreeAlone DEF HeldIncidents, Arrival
    <2>5. CASE tx'[p].at = "merging"
        BY <1>3, <2>1, <2>2, <2>5 DEF HeldIncidents, Arrival
    <2> QED
        BY <1>3, <2>1, <2>3, <2>4, <2>5 DEF HeldIncidents
<1>4. Restart => HeldIncidents(p)' = {} /\ Spawned(p)' = {}
    BY ProcKinds DEF Restart, HeldIncidents, Spawned, NotIngesting, NoTx
<1> QED
    BY <1>1, <1>2, <1>3, <1>4, ProcKinds

(* No step locks an incident twice.                                        *)
LEMMA OneHolderStep ==
    ASSUME TypeOK, KnownRows, OneHolder, [Next]_vars PROVE OneHolder'
<1> SUFFICES ASSUME NEW p \in Procs, NEW q \in Procs, p # q,
                    NEW i, i \in HeldIncidents(p)', i \in HeldIncidents(q)'
             PROVE  FALSE
    BY DEF OneHolder
<1>1. ASSUME NEW r \in Procs, NEW s \in Procs, r # s, Still(s),
             i \in HeldIncidents(r)', i \in HeldIncidents(s)'
      PROVE  FALSE
    BY <1>1, HoldersStep DEF OneHolder, SoleHolder
<1> QED
    BY <1>1, OneActor, HoldersStep

(* Under a lock the status of the incident stands.                         *)
LEMMA StatusUnderLock ==
    ASSUME TypeOK, KnownRows, OneHolder, [Next]_vars, NEW p \in Procs, Still(p),
           NEW i \in Incidents, i \in HeldIncidents(p), incident[i].status # "absent"
    PROVE  incident'[i].status = incident[i].status
<1> SUFFICES ASSUME incident'[i].status # incident[i].status PROVE FALSE
    OBVIOUS
<1> QED
    BY StatusStep DEF StatusReason, IncidentFree, SoleHolder

(* What was checked under a lock survives the steps of all others.         *)
LEMMA CheckedUnderLockStep ==
    ASSUME TypeOK, KnownRows, OneHolder, CheckedUnderLock, [Next]_vars
    PROVE  CheckedUnderLock'
<1>0. tx \in [Txs -> KnowingTxs]
    BY DEF KnownRows
<1>1. ASSUME NEW t \in Txs, tx'[t].at = "merging"
      PROVE  Finished(tx[t].incident)' /\ Finished(tx[t].other)'
    <2>1. CASE tx'[t] = tx[t]
        <3>1. /\ tx[t].incident \in Incidents /\ tx[t].other \in Incidents
              /\ Finished(tx[t].incident) /\ Finished(tx[t].other)
            BY <1>0, <1>1, <2>1 DEF CheckedUnderLock, KnowingTxs, Knows
        <3>2. {tx[t].incident, tx[t].other} \subseteq HeldIncidents(t) /\ Still(t) /\ t \in Procs
            BY <1>1, <2>1, ProcKinds DEF HeldIncidents, Still
        <3>3. /\ incident'[tx[t].incident].status = incident[tx[t].incident].status
              /\ incident'[tx[t].other].status = incident[tx[t].other].status
            BY <3>1, <3>2, StatusUnderLock DEF Finished
        <3> QED
            BY <2>1, <3>1, <3>3 DEF Finished
    <2>2. CASE tx'[t] # tx[t]
        BY <1>1, <2>2, TxArrives DEF Arrival, Finished
    <2> QED
        BY <2>1, <2>2
<1>2. ASSUME NEW t \in Txs, tx'[t].at = "counted", tx'[t].write = "monitor"
      PROVE  incident'[tx'[t].incident].status = "completed"
    <2>1. CASE tx'[t] = tx[t]
        <3>1. tx[t].incident \in Incidents /\ incident[tx[t].incident].status = "completed"
            BY <1>0, <1>2, <2>1 DEF CheckedUnderLock, KnowingTxs, Knows
        <3>2. tx[t].incident \in HeldIncidents(t) /\ Still(t) /\ t \in Procs
            BY <1>2, <2>1, ProcKinds DEF HeldIncidents, Still
        <3> QED
            BY <2>1, <3>1, <3>2, StatusUnderLock
    <2>2. CASE tx'[t] # tx[t]
        BY <1>2, <2>2, TxArrives DEF Arrival
    <2> QED
        BY <2>1, <2>2
<1>3. ASSUME NEW t \in Txs, tx'[t].at = "closing"
      PROVE  incident'[tx'[t].incident].status # "absent"
    <2>1. CASE tx'[t] = tx[t]
        <3>1. tx[t].incident \in Incidents /\ incident[tx[t].incident].status # "absent"
            BY <1>0, <1>3, <2>1 DEF CheckedUnderLock, KnowingTxs, Knows
        <3>2. tx[t].incident \in HeldIncidents(t) /\ Still(t) /\ t \in Procs
            BY <1>3, <2>1, ProcKinds DEF HeldIncidents, Still
        <3> QED
            BY <2>1, <3>1, <3>2, StatusUnderLock
    <2>2. CASE tx'[t] # tx[t]
        BY <1>3, <2>2, TxArrives DEF Arrival
    <2> QED
        BY <2>1, <2>2
<1> QED
    BY <1>1, <1>2, <1>3 DEF CheckedUnderLock

(* Merges keep going from newer to older incidents.                        *)
LEMMA NewerToOlderStep ==
    ASSUME TypeOK, KnownRows, OneHolder, NewerToOlder, [Next]_vars
    PROVE  NewerToOlder'
<1>0. tx \in [Txs -> KnowingTxs]
    BY DEF KnownRows
<1>1. ASSUME NEW t \in Txs, tx'[t].at \in {"evaluated", "merging"}
      PROVE  tx'[t].other < tx'[t].incident
    <2>1. CASE tx'[t] = tx[t]
        BY <1>1, <2>1 DEF NewerToOlder
    <2>2. CASE tx'[t] # tx[t]
        BY <1>1, <2>2, TxArrives DEF Arrival, NewerToOlder
    <2> QED
        BY <2>1, <2>2
<1>2. ASSUME NEW i \in Incidents PROVE incident'[i].into < i
    BY MarksStep DEF NewerToOlder
<1>3. ASSUME NEW i \in Incidents, incident'[i].status = "merged"
      PROVE  incident'[i].into # NoIncident
    <2>1. CASE incident[i].status = "merged"
        <3>1. incident[i].into # NoIncident
            BY <2>1 DEF NewerToOlder
        <3>2. \A t \in Txs : tx[t].at = "merging" => tx[t].other # NoIncident
            BY <1>0 DEF KnowingTxs, Knows, Incidents, NoIncident
        <3> QED
            BY <3>1, <3>2, MarksStep
    <2>2. CASE incident[i].status # "merged"
        <3>1. PICK t \in Txs : /\ tx[t].at = "merging" /\ tx[t].incident = i
                                /\ incident'[i].into = tx[t].other
            BY <1>3, <2>2, MarksStep
        <3>2. tx[t].other \in Incidents
            BY <1>0, <3>1 DEF KnowingTxs, Knows
        <3> QED
            BY <3>1, <3>2 DEF Incidents, NoIncident
    <2> QED
        BY <2>1, <2>2
<1> QED
    BY <1>1, <1>2, <1>3 DEF NewerToOlder

(* An incident nobody investigates stays so until it has a thread or runs. *)
LEMMA UntouchedStep ==
    ASSUME TypeOK, KnownRows, [Next]_vars, NEW i \in Incidents, Untouched(i),
           ~incident'[i].threaded, incident'[i].status # "running"
    PROVE  Untouched(i)'
<1>1. i \notin investigating'
    BY MarksStep DEF Untouched
<1>2. ASSUME NEW t \in Txs, tx'[t].at = "completing" PROVE tx'[t].incident # i
    <2>1. CASE tx'[t] = tx[t]
        BY <1>2, <2>1 DEF Untouched
    <2>2. CASE tx'[t] # tx[t]
        BY <1>2, <2>2, TxArrives DEF Arrival, Untouched
    <2> QED
        BY <2>1, <2>2
<1> QED
    BY <1>1, <1>2 DEF Untouched

(* A row, once spawned, is never absent again.                             *)
LEMMA RowStays ==
    ASSUME TypeOK, KnownRows, OneHolder, [Next]_vars,
           NEW i \in Incidents, incident[i].status # "absent"
    PROVE  incident'[i].status # "absent"
<1>1. \A t \in Txs : tx[t].write # "absent"
    BY DEF KnownRows, KnowingTxs, TxStates
<1> QED
    BY <1>1, StatusStep DEF StatusReason, Writes

(* What a step newly spawns was absent, or was the spawner's before.       *)
LEMMA SpawnedBefore ==
    ASSUME TypeOK, KnownRows, [Next]_vars, NEW p \in Procs, ~Still(p), NEW i \in Spawned(p)'
    PROVE  \/ SpawnRow(i)
           \/ i \in Spawned(p) /\ UNCHANGED incident
<1>1. CASE p \in Keys
    BY <1>1, KeyArrives DEF Still, Spawned, KeyArrival
<1>2. CASE p \in Txs
    <2>1. tx'[p] # tx[p] /\ p \notin Keys
        BY <1>2, ProcKinds DEF Still
    <2> QED
        BY <1>2, <2>1, TxArrives DEF Spawned, Arrival
<1> QED
    BY <1>1, <1>2 DEF Procs

(* Nobody but its spawner investigates a spawned incident.                 *)
LEMMA SpawnedUntouchedStep ==
    ASSUME TypeOK, KnownRows, OneHolder, SpawnedUntouched, CheckedUnderLock, [Next]_vars
    PROVE  SpawnedUntouched'
<1>0. /\ tx \in [Txs -> KnowingTxs]
      /\ incident \in [Incidents -> IncidentRows]
      /\ \A k \in Keys : ingest[k].at \notin {"idle", "spawning"} => ingest[k].incident \in Incidents
      /\ \A p \in Procs : Spawned(p) \subseteq Incidents /\ Spawned(p)' \subseteq Incidents
    <2>1. TypeOK' /\ KnownRows'
        BY RowsStep
    <2>2. /\ tx \in [Txs -> KnowingTxs] /\ tx' \in [Txs -> KnowingTxs]
          /\ incident \in [Incidents -> IncidentRows]
          /\ \A k \in Keys :
                /\ ingest[k].at \notin {"idle", "spawning"} => ingest[k].incident \in Incidents
                /\ ingest'[k].at \notin {"idle", "spawning"} => ingest'[k].incident \in Incidents
        BY <2>1 DEF KnownRows, TypeOK, IngestStates
    <2>3. \A t \in Txs : /\ tx[t].at \in {"unlinking", "starting"} => tx[t].other \in Incidents
                         /\ tx'[t].at \in {"unlinking", "starting"} => tx'[t].other \in Incidents
        BY <2>2 DEF KnowingTxs, Knows
    <2> QED
        BY <2>2, <2>3 DEF Spawned, Procs
<1>1. ASSUME NEW i \in Incidents, incident[i].status = "absent"
      PROVE  incident'[i].status \in {"absent", "pending"} /\ Untouched(i)'
    <2>1. Untouched(i) /\ \A p \in Procs : i \notin Spawned(p)
        BY <1>1 DEF SpawnedUntouched
    <2>2. ~incident'[i].threaded
        BY <2>1, MarksStep, ProcKinds DEF Untouched, Spawned
    <2>3. incident'[i].status \in {"absent", "pending"}
        <3> SUFFICES ASSUME incident'[i].status # "absent", incident'[i].status # "pending"
                     PROVE  FALSE
            OBVIOUS
        <3>1. PICK p \in Procs : SoleHolder(p, i) /\ Writes(p, i, "absent", incident'[i].status)
            BY <1>1, <2>1, StatusStep DEF StatusReason, Untouched
        <3>2. CASE p \in Keys
            BY <1>1, <2>1, <3>1, <3>2, ProcKinds DEF Writes, Spawned, SpawnedUntouched, Untouched
        <3>3. CASE p \in Txs
            BY <1>1, <2>1, <3>1, <3>3, ProcKinds
            DEF Writes, Spawned, Untouched, CheckedUnderLock, Finished
        <3> QED
            BY <3>2, <3>3 DEF Procs
    <2> QED
        BY <2>1, <2>2, <2>3, UntouchedStep
<1>2. ASSUME NEW i \in Incidents, incident'[i].status = "absent" PROVE Untouched(i)'
    BY <1>1, <1>2, RowStays
<1>3. ASSUME NEW p \in Procs, NEW i \in Spawned(p)', Still(p)
      PROVE  incident'[i].status \in {"pending", "closed"} /\ Untouched(i)'
    <2>1. /\ i \in Spawned(p) /\ i \in Incidents
          /\ incident[i].status \in {"pending", "closed"} /\ Untouched(i)
          /\ \A q \in Procs : q # p => i \notin Spawned(q)
        BY <1>0, <1>3, HoldersStep DEF SpawnedUntouched
    <2>2. ~incident'[i].threaded
        BY <1>3, <2>1, MarksStep, ProcKinds DEF Untouched, Spawned
    <2>3. incident'[i].status \in {"pending", "closed"}
        <3> SUFFICES ASSUME incident'[i].status \notin {"pending", "closed"} PROVE FALSE
            OBVIOUS
        <3>1. PICK q \in Procs : ~Still(q) /\ Writes(q, i, incident[i].status, incident'[i].status)
            BY <2>1, StatusStep DEF StatusReason, Untouched
        <3>2. i \notin Spawned(q)
            BY <1>3, <2>1, <3>1
        <3>3. CASE q \in Keys
            BY <2>1, <3>1, <3>2, <3>3, ProcKinds DEF Writes, Spawned, SpawnedUntouched, Untouched
        <3>4. CASE q \in Txs
            BY <2>1, <3>1, <3>2, <3>4, ProcKinds
            DEF Writes, Spawned, Untouched, CheckedUnderLock, Finished
        <3> QED
            BY <3>3, <3>4 DEF Procs
    <2> QED
        BY <2>1, <2>2, <2>3, UntouchedStep
<1>4. ASSUME NEW p \in Procs, NEW i \in Spawned(p)', ~Still(p)
      PROVE  incident'[i].status \in {"pending", "closed"} /\ Untouched(i)'
    <2>1. i \in Incidents
        BY <1>0, <1>4
    <2>2. CASE SpawnRow(i)
        BY <1>0, <1>1, <2>1, <2>2 DEF SpawnRow, IncidentRows
    <2>3. CASE i \in Spawned(p) /\ UNCHANGED incident
        BY <2>1, <2>3, UntouchedStep DEF SpawnedUntouched, Untouched
    <2> QED
        BY <1>4, <2>2, <2>3, SpawnedBefore
<1>5. ASSUME NEW p \in Procs, NEW q \in Procs, p # q, Still(q)
      PROVE  Spawned(p)' \cap Spawned(q)' = {}
    <2>1. Spawned(q)' = Spawned(q)
        BY <1>5, HoldersStep
    <2>2. CASE Still(p)
        BY <1>5, <2>1, <2>2, HoldersStep DEF SpawnedUntouched
    <2>3. CASE ~Still(p)
        <3> SUFFICES ASSUME NEW i \in Spawned(p)', i \in Spawned(q) PROVE FALSE
            BY <2>1
        <3>1. CASE SpawnRow(i)
            BY <1>5, <3>1 DEF SpawnRow, SpawnedUntouched
        <3>2. CASE i \in Spawned(p)
            BY <1>5, <3>2 DEF SpawnedUntouched
        <3> QED
            BY <2>3, <3>1, <3>2, SpawnedBefore
    <2> QED
        BY <2>2, <2>3
<1>6. ASSUME NEW p \in Procs, NEW q \in Procs, p # q PROVE Spawned(p)' \cap Spawned(q)' = {}
    BY <1>5, <1>6, OneActor, HoldersStep
<1>7. ASSUME NEW k \in Keys, ingest'[k].at = "launching"
      PROVE  incident'[ingest'[k].incident].threaded
    <2>1. CASE ingest'[k] = ingest[k]
        BY <1>0, <1>7, <2>1, MarksStep DEF SpawnedUntouched
    <2>2. CASE ingest'[k] # ingest[k]
        BY <1>0, <1>7, <2>2, KeyArrives DEF KeyArrival, IncidentRows
    <2> QED
        BY <2>1, <2>2
<1> QED
    BY <1>2, <1>3, <1>4, <1>6, <1>7 DEF SpawnedUntouched

(* The invariant holds at the start.                                       *)
LEMMA LifecycleInit == Init => LifecycleInv
<1> SUFFICES ASSUME Init PROVE LifecycleInv
    OBVIOUS
<1>1. /\ \A k \in Keys : ingest[k].at = "idle"
      /\ \A t \in Txs : tx[t].at = "none"
      /\ \A i \in Incidents : /\ incident[i].status = "absent" /\ incident[i].into = NoIncident
                              /\ ~incident[i].threaded
      /\ investigating = {}
    BY DEF Init, NotIngesting, NoTx
<1>2. \A p \in Procs : HeldIncidents(p) = {} /\ Spawned(p) = {}
    BY <1>1 DEF Procs, HeldIncidents, Spawned
<1>3. SpawnedUntouched
    BY <1>1, <1>2 DEF SpawnedUntouched, Untouched
<1>4. NewerToOlder
    BY <1>1 DEF NewerToOlder, Incidents, NoIncident
<1> QED
    BY <1>1, <1>2, <1>3, <1>4, RowsInit DEF LifecycleInv, OneHolder, CheckedUnderLock

(* Every step keeps the invariant.                                         *)
LEMMA LifecycleStep == LifecycleInv /\ [Next]_vars => LifecycleInv'
<1> SUFFICES ASSUME LifecycleInv, [Next]_vars PROVE LifecycleInv'
    OBVIOUS
<1> QED
    BY RowsStep, OneHolderStep, SpawnedUntouchedStep, NewerToOlderStep, CheckedUnderLockStep
    DEF LifecycleInv

(* Row locks of incidents exclude each other; a spawned incident is nobody *)
(* else's until its alert is claimed or moved; merges flow from newer to   *)
(* older; and what a transaction checked under a lock stands until it      *)
(* commits - in every interleaving, with deadlocks and restarts.           *)
THEOREM LifecycleInvariance == Spec => []LifecycleInv
BY LifecycleInit, LifecycleStep, PTL DEF Spec

-----------------------------------------------------------------------------
(* What makes an alert fire on an incident, and what ends that *)

(* Firing alerts come to an incident from its spawner or under its lock.   *)
LEMMA FiringArrives ==
    ASSUME LifecycleInv, [Next]_vars, MovedTo = {},
           NEW i \in Incidents, NEW a \in Alerts, a \in Firing(i)', a \notin Firing(i)
    PROVE  \E p \in Procs :
              /\ ~Still(p)
              /\ \/ i \in Spawned(p)
                 \/ p \in Keys /\ ingest[p].at = "inserting" /\ i \in HeldIncidents(p)
                 \/ p \in Txs /\ tx[p].at = "merging" /\ i \in HeldIncidents(p)
<1>0. /\ tx \in [Txs -> KnowingTxs]
      /\ alert'[a].incident = i /\ alert'[a].state = "firing"
      /\ alert[a].incident # i \/ alert[a].state # "firing"
    BY DEF LifecycleInv, KnownRows, Firing, Linked
<1>1. AlertReason(a)
    BY <1>0, AlertStep DEF LifecycleInv
<1>2. \A t \in Txs : tx[t].at # "moving"
    BY <1>0 DEF KnowingTxs, Knows
<1> QED
    BY <1>0, <1>1, <1>2, ProcKinds DEF AlertReason, Spawned, HeldIncidents

(* An alert stops firing on an incident by a resolution, a close or a      *)
(* merge.                                                                  *)
LEMMA FiringEnds ==
    ASSUME LifecycleInv, [Next]_vars, MovedTo = {},
           Operations \cap {"unlink", "sweep", "stale"} = {},
           NEW i \in Incidents, NEW a \in Firing(i), a \notin Firing(i)'
    PROVE  \E t \in Txs :
              /\ ~Still(t)
              /\ \/ CommitResolve(t) /\ tx[t].at = "counted" /\ a \in tx[t].marked
                 \/ tx[t].at = "closing" /\ tx[t].incident = i /\ incident'[i].status = "closed"
                 \/ tx[t].at = "merging" /\ tx[t].incident = i /\ incident'[i].status = "merged"
<1>0. /\ tx \in [Txs -> KnowingTxs]
      /\ a \in Alerts /\ alert[a].incident = i /\ alert[a].state = "firing"
      /\ alert'[a].incident # i \/ alert'[a].state # "firing"
    BY DEF LifecycleInv, KnownRows, Firing, Linked
<1>1. AlertReason(a)
    BY <1>0, AlertStep DEF LifecycleInv
<1>2. \A t \in Txs : tx[t].at \notin {"moving", "unlinking", "sweeping", "update"}
    BY <1>0 DEF KnowingTxs, Knows
<1> QED
    BY <1>0, <1>1, <1>2, ProcKinds DEF AlertReason

(* Under the incident's lock no alert begins to fire on it, unless it was  *)
(* spawned and not started.                                                *)
LEMMA NoArrivalUnderLock ==
    ASSUME LifecycleInv, [Next]_vars, MovedTo = {}, NEW i \in Incidents,
           NEW p \in Procs, i \in HeldIncidents(p), Still(p),
           \A q \in Procs : i \notin Spawned(q)
    PROVE  Firing(i)' \subseteq Firing(i)
<1> SUFFICES ASSUME NEW a \in Alerts, a \in Firing(i)', a \notin Firing(i) PROVE FALSE
    BY DEF Firing, Linked
<1>1. PICK q \in Procs : ~Still(q) /\ i \in HeldIncidents(q)
    BY FiringArrives
<1> QED
    BY <1>1 DEF LifecycleInv, OneHolder

-----------------------------------------------------------------------------
(* InvestigationsHaveAlerts *)

AlertsKept ==
    /\ \A i \in investigating : incident[i].threaded
    /\ \A i \in Incidents : incident[i].threaded => Linked(i) # {} \/ incident[i].into # NoIncident

(* No step takes the last alert from an investigation.                     *)
LEMMA AlertsKeptStep ==
    ASSUME LifecycleInv, AlertsKept, [Next]_vars, MovedTo = {}, "unlink" \notin Operations
    PROVE  AlertsKept'
<1>0. /\ TypeOK /\ KnownRows /\ TypeOK'
      /\ tx \in [Txs -> KnowingTxs]
      /\ \A t \in Txs : tx[t].at \notin {"moving", "unlinking", "starting"}
    <2>1. tx \in [Txs -> KnowingTxs]
        BY DEF LifecycleInv, KnownRows
    <2> QED
        BY <2>1, RowsStep DEF LifecycleInv, KnowingTxs, Knows
<1>1. ASSUME NEW i \in investigating' PROVE incident'[i].threaded
    <2>1. i \in Incidents
        BY <1>0 DEF TypeOK
    <2>2. incident[i].threaded
        BY <1>0, <2>1, MarksStep DEF AlertsKept, LifecycleInv, SpawnedUntouched
    <2> QED
        BY <1>0, <2>1, <2>2, MarksStep
<1>2. ASSUME NEW i \in Incidents, incident'[i].threaded
      PROVE  Linked(i)' # {} \/ incident'[i].into # NoIncident
    <2>1. CASE ~incident[i].threaded
        <3>1. PICK k \in Keys : InsertAlert(k, i)
            BY <1>0, <1>2, <2>1, MarksStep
        <3>2. \E a \in Alerts : alert'[a].incident = i
            BY <1>0, <3>1 DEF InsertAlert, TypeOK
        <3> QED
            BY <3>2 DEF Linked
    <2>2. CASE incident[i].into # NoIncident
        <3>1. \A t \in Txs : tx[t].at = "merging" => tx[t].other # NoIncident
            BY <1>0 DEF KnowingTxs, Knows, Incidents, NoIncident
        <3> QED
            BY <1>0, <2>2, <3>1, MarksStep
    <2>3. CASE Linked(i) # {}
        <3>1. PICK a \in Alerts : alert[a].incident = i
            BY <2>3 DEF Linked
        <3>2. CASE alert'[a].incident = i
            BY <3>2 DEF Linked
        <3>3. CASE alert'[a].incident # i
            <4>1. AlertReason(a)
                BY <1>0, <3>1, <3>3, AlertStep
            <4>2. alert[a].state # "absent"
                BY <1>0, <3>1 DEF KnownRows, Incidents, NoIncident
            <4>3. PICK t \in Txs : tx[t].at = "merging" /\ tx[t].incident = i
                                   /\ incident'[i].into = tx[t].other
                BY <1>0, <3>1, <3>3, <4>1, <4>2 DEF AlertReason
            <4>4. tx[t].other \in Incidents
                BY <1>0, <4>3 DEF KnowingTxs, Knows
            <4> QED
                BY <4>3, <4>4 DEF Incidents, NoIncident
        <3> QED
            BY <3>2, <3>3
    <2> QED
        BY <2>1, <2>2, <2>3 DEF AlertsKept
<1> QED
    BY <1>1, <1>2 DEF AlertsKept

(* Unless operators move or unlink alerts, every investigation has an      *)
(* alert, or one that a merge took over: a duplicate that lost the claim   *)
(* of its alert is cancelled before anything can investigate it.           *)
THEOREM EveryInvestigationHasAlerts ==
    ASSUME MovedTo = {}, "unlink" \notin Operations
    PROVE  Spec => []InvestigationsHaveAlerts
<1>1. Init => AlertsKept
    BY DEF Init, AlertsKept
<1>2. LifecycleInv /\ AlertsKept /\ [Next]_vars => AlertsKept'
    BY AlertsKeptStep
<1>3. LifecycleInv /\ AlertsKept => InvestigationsHaveAlerts
    BY DEF LifecycleInv, TypeOK, AlertsKept, InvestigationsHaveAlerts
<1> QED
    BY <1>1, <1>2, <1>3, LifecycleInvariance, PTL DEF Spec

-----------------------------------------------------------------------------
(* EntersMonitorQuiet *)

(* What was counted under the incident's lock stands until it is written.  *)
CountsStand ==
    \A t \in Txs :
        /\ tx[t].at = "counted" /\ tx[t].write = "monitor" =>
              Firing(tx[t].incident) \subseteq tx[t].marked
        /\ tx[t].at = "completing" /\ tx[t].write = "monitor" =>
              Firing(tx[t].incident) = {}

(* Nobody spawned the incident of a transaction that promotes it.          *)
LEMMA PromotedNotSpawned ==
    ASSUME LifecycleInv, NEW t \in Txs, tx[t].write = "monitor",
           tx[t].at \in {"counted", "completing"}
    PROVE  /\ tx[t].incident \in Incidents
           /\ \A p \in Procs : tx[t].incident \notin Spawned(p)
           /\ t \in Procs /\ tx[t].incident \in HeldIncidents(t)
<1>1. tx[t].incident \in Incidents
    BY DEF LifecycleInv, KnownRows, KnowingTxs, Knows
<1>2. \A p \in Procs : tx[t].incident \notin Spawned(p)
    BY <1>1 DEF LifecycleInv, SpawnedUntouched, CheckedUnderLock, Untouched
<1> QED
    BY <1>1, <1>2, ProcKinds DEF HeldIncidents

(* A count of none taken under the lock stands until the commit.           *)
LEMMA CountsStandStep ==
    ASSUME LifecycleInv, CountsStand, [Next]_vars, MovedTo = {}
    PROVE  CountsStand'
<1>0. TypeOK /\ KnownRows
    BY DEF LifecycleInv
<1>1. ASSUME NEW t \in Txs, tx'[t] = tx[t], tx[t].write = "monitor",
             tx[t].at \in {"counted", "completing"}
      PROVE  Firing(tx[t].incident)' \subseteq Firing(tx[t].incident)
    <2>1. PICK i \in Incidents : /\ i = tx[t].incident /\ t \in Procs /\ i \in HeldIncidents(t)
                                 /\ \A p \in Procs : i \notin Spawned(p)
        BY <1>1, PromotedNotSpawned
    <2>2. Still(t)
        BY <1>1, ProcKinds DEF Still
    <2>3. Firing(i)' \subseteq Firing(i)
        BY <2>1, <2>2, NoArrivalUnderLock
    <2> QED
        BY <1>1, <2>1, <2>3
<1>2. ASSUME NEW t \in Txs, tx'[t].at = "counted", tx'[t].write = "monitor"
      PROVE  Firing(tx[t].incident)' \subseteq tx'[t].marked
    <2>1. CASE tx'[t] = tx[t]
        BY <1>1, <1>2, <2>1 DEF CountsStand
    <2>2. CASE tx'[t] # tx[t]
        BY <1>0, <1>2, <2>2, TxArrives DEF Arrival, Firing, Linked
    <2> QED
        BY <2>1, <2>2
<1>3. ASSUME NEW t \in Txs, tx'[t].at = "completing", tx'[t].write = "monitor"
      PROVE  Firing(tx[t].incident)' = {}
    <2>1. CASE tx'[t] = tx[t]
        BY <1>1, <1>3, <2>1 DEF CountsStand
    <2>2. CASE tx'[t] # tx[t]
        BY <1>0, <1>3, <2>2, TxArrives DEF Arrival, Firing, Linked
    <2> QED
        BY <2>1, <2>2
<1> QED
    BY <1>2, <1>3 DEF CountsStand

(* The next step of a transaction that has counted or holds a merge.       *)
LEMMA CountedCommits ==
    ASSUME TypeOK, KnownRows, [Next]_vars, NEW t \in Txs, ~Still(t), incident' # incident
    PROVE  /\ tx[t].at = "counted" => CommitResolve(t)
           /\ tx[t].at = "merging" => CommitMerge(t)
<1>0. tx \in [Txs -> KnowingTxs] /\ tx'[t] # tx[t]
    BY ProcKinds DEF KnownRows, Still
<1>1. ASSUME NEW k \in Keys, Correlate(k) \/ IngestStep(k) PROVE UNCHANGED tx
    BY <1>1 DEF Correlate, IngestStep, LockTarget, LinkFails, Link, Spawn, Claim, Cancel, Launch
<1>2. ASSUME NEW i \in Incidents, Resume(i) \/ Expire(i) PROVE UNCHANGED tx
    BY <1>2 DEF Resume, Expire
<1>3. PICK u \in Txs : Begin(u) \/ TxStep(u)
    BY <1>0, <1>1, <1>2 DEF Next, Abort, Age, Restart, vars
<1>4. u = t
    BY <1>0, <1>3, TxRowStep
<1>5. Begin(t) => tx[t].at = "none"
    BY DEF Begin, FindFiring, LockAndMark, SweepAlerts, ListStale, Complete, Fail,
           BeginComplete, BeginClose, EvaluateMerge, SpawnUnlinked, ReadMove
<1>6. ASSUME \/ MarkResolved(t) \/ CountFiring(t) \/ CommitComplete(t) \/ CommitClose(t)
             \/ LockMerge(t) \/ CommitMove(t) \/ CommitUnlink(t) \/ StartUnlinked(t)
             \/ SweepIncidents(t) \/ StaleAlerts(t) \/ FindStale(t) \/ CloseStale(t)
      PROVE  tx[t].at \notin {"counted", "merging"}
    BY <1>6
    DEF MarkResolved, CountFiring, CommitComplete, CommitClose, LockMerge, CommitMove,
           CommitUnlink, StartUnlinked, SweepIncidents, StaleAlerts, FindStale, CloseStale
<1>7. (CommitResolve(t) => tx[t].at = "counted") /\ (CommitMerge(t) => tx[t].at = "merging")
    BY DEF CommitResolve, CommitMerge
<1> QED
    BY <1>3, <1>4, <1>5, <1>6, <1>7 DEF TxStep

(* Whoever writes monitor leaves no alert firing on the incident.          *)
LEMMA MonitorEntered ==
    ASSUME LifecycleInv, CountsStand, [Next]_vars, MovedTo = {},
           NEW i \in Incidents, incident[i].status # "monitor", incident'[i].status = "monitor"
    PROVE  Firing(i)' = {}
<1>0. TypeOK /\ KnownRows /\ OneHolder
    BY DEF LifecycleInv
<1>1. PICK t \in Procs : ~Still(t) /\ Writes(t, i, incident[i].status, "monitor")
    BY <1>0, StatusStep DEF StatusReason
<1>2. /\ t \in Txs /\ tx[t].incident = i /\ tx[t].write = "monitor"
      /\ tx[t].at \in {"counted", "completing"}
    BY <1>1 DEF Writes
<1>3. \A p \in Procs : i \notin Spawned(p)
    BY <1>2, PromotedNotSpawned
<1>4. ~Restart
    BY DEF Restart
<1>5. ASSUME NEW a \in Alerts, a \in Firing(i)', a \notin Firing(i) PROVE FALSE
    <2>1. PICK p \in Procs : /\ ~Still(p)
                             /\ \/ p \in Keys
                                \/ p \in Txs /\ tx[p].at = "merging"
        BY <1>3, <1>5, FiringArrives
    <2>2. p = t
        BY <1>0, <1>1, <1>4, <2>1, OneActor
    <2> QED
        BY <1>2, <2>1, <2>2, ProcKinds
<1>6. CASE tx[t].at = "completing"
    BY <1>2, <1>5, <1>6 DEF CountsStand, Firing, Linked
<1>7. CASE tx[t].at = "counted"
    <2>1. alert' = Resolved(tx[t].marked)
        BY <1>0, <1>1, <1>2, <1>7, CountedCommits DEF CommitResolve
    <2>2. Firing(i) \subseteq tx[t].marked
        BY <1>2, <1>7 DEF CountsStand
    <2>3. ASSUME NEW a \in Alerts, a \in Firing(i)' PROVE FALSE
        <3>1. a \in tx[t].marked
            BY <1>5, <2>2, <2>3
        <3>2. alert'[a].state = "resolved"
            BY <1>0, <2>1, <3>1 DEF Resolved, TypeOK, AlertRows
        <3> QED
            BY <2>3, <3>2 DEF Firing
    <2> QED
        BY <2>3 DEF Firing, Linked
<1> QED
    BY <1>2, <1>6, <1>7

(* Unless operators move alerts, an incident enters monitor with every     *)
(* alert resolved: between the count and the write the row lock keeps      *)
(* links, merges and other resolutions of the same incident out.           *)
THEOREM MonitorIsEnteredQuiet ==
    ASSUME MovedTo = {} PROVE Spec => EntersMonitorQuiet
<1>1. Init => CountsStand
    BY DEF Init, NoTx, CountsStand
<1>2. LifecycleInv /\ CountsStand /\ [Next]_vars => CountsStand'
    BY CountsStandStep
<1>3. LifecycleInv /\ CountsStand /\ [Next]_vars =>
        [\A i \in Incidents :
            incident[i].status # "monitor" /\ incident'[i].status = "monitor" => Firing(i)' = {}]_vars
    BY MonitorEntered
<1> QED
    BY <1>1, <1>2, <1>3, LifecycleInvariance, PTL DEF Spec, EntersMonitorQuiet

-----------------------------------------------------------------------------
(* NoFiringAlertOnMerged *)

(* Five redirects reach an incident that is not merged.                    *)
ShortChains == \A i \in Incidents : incident[LinkTarget(i)].status # "merged"

(* The incident a link has locked is not merged.                           *)
LinksToLive ==
    \A k \in Keys : ingest[k].at = "inserting" => incident[ingest[k].incident].status # "merged"

(* An incident that becomes merged is so by the commit of its merge.       *)
LEMMA MergedByCommit ==
    ASSUME LifecycleInv, [Next]_vars, NEW i \in Incidents,
           incident[i].status # "merged", incident'[i].status = "merged"
    PROVE  \E t \in Txs : /\ CommitMerge(t) /\ tx[t].incident = i
                          /\ i \in HeldIncidents(t) /\ ~Still(t) /\ t \in Procs
<1>0. TypeOK /\ KnownRows /\ OneHolder /\ tx \in [Txs -> KnowingTxs]
    BY DEF LifecycleInv, KnownRows
<1>1. PICK t \in Procs : ~Still(t) /\ Writes(t, i, incident[i].status, "merged")
    BY <1>0, StatusStep DEF StatusReason
<1>2. t \in Txs /\ tx[t].incident = i /\ tx[t].at = "merging"
    BY <1>0, <1>1 DEF Writes, KnowingTxs, TxStates
<1>3. incident' # incident
    OBVIOUS
<1> QED
    BY <1>0, <1>1, <1>2, <1>3, CountedCommits, ProcKinds DEF HeldIncidents

(* An ingest never inserts into an incident merged away.                   *)
LEMMA LinksToLiveStep ==
    ASSUME LifecycleInv, LinksToLive, ShortChains, [Next]_vars
    PROVE  LinksToLive'
<1> SUFFICES ASSUME NEW k \in Keys, ingest'[k].at = "inserting"
             PROVE  incident'[ingest'[k].incident].status # "merged"
    BY DEF LinksToLive
<1>0. /\ TypeOK /\ KnownRows
      /\ ingest[k].at \notin {"idle", "spawning"} => ingest[k].incident \in Incidents
    BY DEF LifecycleInv, TypeOK, IngestStates
<1>1. CASE ingest'[k] = ingest[k]
    <2>1. PICK i \in Incidents : i = ingest[k].incident /\ i \in HeldIncidents(k) /\ k \in Procs
        BY <1>0, <1>1, ProcKinds DEF HeldIncidents
    <2>2. incident[i].status # "merged"
        BY <1>1, <2>1 DEF LinksToLive
    <2>3. ASSUME incident'[i].status = "merged" PROVE FALSE
        <3>1. PICK t \in Procs : i \in HeldIncidents(t) /\ t \in Txs
            BY <2>2, <2>3, MergedByCommit
        <3> QED
            BY <2>1, <3>1, ProcKinds DEF LifecycleInv, OneHolder
    <2> QED
        BY <1>1, <2>1, <2>3
<1>2. CASE ingest'[k] # ingest[k]
    <2>1. KeyArrival(k)
        BY <1>0, <1>2, KeyArrives
    <2> QED
        BY <1>0, <2>1 DEF KeyArrival, ShortChains
<1> QED
    BY <1>1, <1>2

(* No step makes an alert fire on a merged incident.                       *)
LEMMA MergedQuietStep ==
    ASSUME LifecycleInv, LinksToLive, NoFiringAlertOnMerged, [Next]_vars, MovedTo = {}
    PROVE  NoFiringAlertOnMerged'
<1> SUFFICES ASSUME NEW i \in Incidents, incident'[i].status = "merged",
                    NEW a \in Alerts, a \in Firing(i)'
             PROVE  FALSE
    BY DEF NoFiringAlertOnMerged, Firing, Linked
<1>0. TypeOK /\ KnownRows /\ OneHolder /\ tx \in [Txs -> KnowingTxs]
    BY DEF LifecycleInv, KnownRows
<1>1. CASE incident[i].status = "merged"
    <2>1. PICK p \in Procs :
              /\ ~Still(p)
              /\ \/ i \in Spawned(p)
                 \/ p \in Keys /\ ingest[p].at = "inserting" /\ i \in HeldIncidents(p)
                 \/ p \in Txs /\ tx[p].at = "merging" /\ i \in HeldIncidents(p)
        BY <1>1, FiringArrives DEF NoFiringAlertOnMerged
    <2>2. CASE i \in Spawned(p)
        BY <1>1, <2>2 DEF LifecycleInv, SpawnedUntouched
    <2>3. CASE p \in Keys /\ ingest[p].at = "inserting" /\ i \in HeldIncidents(p)
        BY <1>1, <2>3 DEF LinksToLive, HeldIncidents
    <2>4. CASE p \in Txs /\ tx[p].at = "merging" /\ i \in HeldIncidents(p)
        BY <1>1, <2>4, ProcKinds DEF LifecycleInv, CheckedUnderLock, Finished, HeldIncidents
    <2> QED
        BY <2>1, <2>2, <2>3, <2>4
<1>2. CASE incident[i].status # "merged"
    <2>1. PICK t \in Txs : CommitMerge(t) /\ tx[t].incident = i
        BY <1>2, MergedByCommit
    <2>2. tx[t].other \in Incidents /\ tx[t].other < i
        BY <1>0, <2>1 DEF CommitMerge, KnowingTxs, Knows, LifecycleInv, NewerToOlder
    <2>3. tx[t].other # i
        BY <2>2 DEF Incidents
    <2>4. alert'[a].incident # i
        BY <1>0, <2>1, <2>3 DEF CommitMerge, Linked, TypeOK, AlertRows
    <2> QED
        BY <2>4 DEF Firing, Linked
<1> QED
    BY <1>1, <1>2

(* Unless operators move alerts, and while five redirects are enough, an   *)
(* alert that fires is never left on a merged incident: a link follows the *)
(* forward pointers under the lock that the merge needs.                   *)
THEOREM MergedStaysQuiet ==
    ASSUME MovedTo = {} PROVE Spec /\ []ShortChains => []NoFiringAlertOnMerged
<1>1. Init => LinksToLive /\ NoFiringAlertOnMerged
    BY DEF Init, NotIngesting, LinksToLive, NoFiringAlertOnMerged
<1>2. LifecycleInv /\ LinksToLive /\ NoFiringAlertOnMerged /\ ShortChains /\ [Next]_vars =>
          LinksToLive' /\ NoFiringAlertOnMerged'
    BY LinksToLiveStep, MergedQuietStep
<1> QED
    BY <1>1, <1>2, LifecycleInvariance, PTL DEF Spec

(* A redirect that leads on leads to an older incident.                    *)
LEMMA HopIsOlder ==
    ASSUME LifecycleInv, NEW i \in Incidents
    PROVE  /\ Hop(i) \in Incidents
           /\ \/ Hop(i) = i /\ incident[i].status # "merged"
              \/ Hop(i) < i
BY DEF LifecycleInv, TypeOK, IncidentRows, NewerToOlder, Hop

(* Five hops leave every chain of merges among six incidents.              *)
LEMMA FewIncidentsShortChains ==
    ASSUME LifecycleInv, MaxIncidents \leq 6 PROVE ShortChains
<1> SUFFICES ASSUME NEW i \in Incidents PROVE incident[LinkTarget(i)].status # "merged"
    BY DEF ShortChains
<1>0. MaxIncidents \in Nat /\ Incidents = 1..MaxIncidents
    BY MaxIncidentsAssumption DEF Incidents
<1> DEFINE Near(x, n) == /\ x \in Incidents
                         /\ \/ incident[x].status # "merged"
                            \/ x \leq 6 - n
<1>1. ASSUME NEW x, NEW n \in 0..4, Near(x, n) PROVE Near(Hop(x), n + 1)
    <2>1. /\ Hop(x) \in Incidents
          /\ \/ Hop(x) = x /\ incident[x].status # "merged"
             \/ Hop(x) < x
        BY <1>1, HopIsOlder
    <2>2. CASE incident[x].status # "merged"
        BY <1>1, <2>2 DEF Hop
    <2>3. CASE incident[x].status = "merged"
        BY <1>0, <1>1, <2>1, <2>3
    <2> QED
        BY <2>2, <2>3
<1>2. Near(i, 0)
    BY <1>0
<1> HIDE DEF Near
<1>3. Near(Hop(i), 1)
    BY <1>1, <1>2
<1>4. Near(Hop(Hop(i)), 2)
    BY <1>1, <1>3
<1>5. Near(Hop(Hop(Hop(i))), 3)
    BY <1>1, <1>4
<1>6. Near(Hop(Hop(Hop(Hop(i)))), 4)
    BY <1>1, <1>5
<1>7. Near(LinkTarget(i), 5)
    BY <1>1, <1>6 DEF LinkTarget
<1>8. ASSUME NEW x \in Incidents, x \leq 1, incident[x].status = "merged" PROVE FALSE
    BY <1>0, <1>8 DEF LifecycleInv, NewerToOlder, TypeOK, IncidentRows, NoIncident
<1> QED
    BY <1>7, <1>8 DEF Near

(* With six incidents five redirects are always enough: the assumption of  *)
(* MergedStaysQuiet is met by every system whose merge chains are as short.*)
THEOREM MergedStaysQuietAmongFew ==
    ASSUME MovedTo = {}, MaxIncidents \leq 6 PROVE Spec => []NoFiringAlertOnMerged
<1>1. LifecycleInv => ShortChains
    BY FewIncidentsShortChains
<1> QED
    BY <1>1, LifecycleInvariance, MergedStaysQuiet, PTL

-----------------------------------------------------------------------------
(* CompletedHasFiringAlert *)

(* A resolution works on the incident of its alert, unless a merge has     *)
(* re-pointed the alert since.                                             *)
OnItsIncident(t) ==
    \/ alert[tx[t].alert].incident = tx[t].incident
    \/ alert[tx[t].alert].incident \in survivors

(* Whoever leaves or makes an incident completed has seen an alert fire    *)
(* that it does not resolve itself.                                        *)
AnotherFires(t) ==
    \/ tx[t].incident \in survivors
    \/ tx[t].at = "counted" /\ incident[tx[t].incident].status # "completed"
    \/ ~(Firing(tx[t].incident) \subseteq tx[t].marked)

SeesAnother(t) ==
    \/ tx[t].at = "counted" /\ tx[t].write # "monitor"
    \/ tx[t].at = "completing" /\ tx[t].write = "completed"

LastOneSees ==
    /\ CompletedHasFiringAlert
    /\ \A t \in Txs : tx[t].at \in {"found", "marked", "counted"} => OnItsIncident(t)
    /\ \A t \in Txs : SeesAnother(t) => AnotherFires(t)

(* What takes part where the invariant holds.                              *)
OnlyResolutions ==
    /\ MovedTo = {}
    /\ Operations \cap {"unlink", "sweep", "stale", "settingsError"} = {}

(* A resolution's alert stays on the incident it was found on, or moves    *)
(* with a merge.                                                           *)
LEMMA OnItsIncidentStep ==
    ASSUME LifecycleInv, LastOneSees, [Next]_vars, OnlyResolutions,
           NEW t \in Txs, tx'[t].at \in {"found", "marked", "counted"}
    PROVE  OnItsIncident(t)'
<1>0. /\ TypeOK /\ KnownRows /\ tx \in [Txs -> KnowingTxs]
      /\ \A u \in Txs : tx[u].at \notin {"moving", "unlinking"}
    BY DEF LifecycleInv, KnownRows, KnowingTxs, Knows, OnlyResolutions
<1>1. CASE tx'[t] = tx[t]
    <2> DEFINE a == tx[t].alert
    <2>1. a \in Alerts /\ alert[a].state # "absent" /\ OnItsIncident(t)
        BY <1>0, <1>1 DEF KnownRows, PointsAtRows, HasAlert, KnowingTxs, Knows, LastOneSees
    <2>2. survivors \subseteq survivors'
        BY <1>0, MarksStep, MaxIncidentsAssumption DEF Incidents
    <2>3. CASE alert'[a].incident = alert[a].incident
        BY <1>1, <2>1, <2>2, <2>3 DEF OnItsIncident
    <2>4. CASE alert'[a].incident # alert[a].incident
        <3>1. AlertReason(a)
            BY <1>0, <2>1, <2>4, AlertStep
        <3>2. alert'[a].incident \in survivors'
            BY <1>0, <2>1, <2>4, <3>1 DEF AlertReason
        <3> QED
            BY <1>1, <3>2 DEF OnItsIncident
    <2> QED
        BY <2>3, <2>4
<1>2. CASE tx'[t] # tx[t]
    BY <1>0, <1>2, TxArrives DEF Arrival, OnItsIncident, LastOneSees
<1> QED
    BY <1>1, <1>2

(* The alert that kept a resolution from promoting keeps firing.           *)
LEMMA AnotherFiresStep ==
    ASSUME LifecycleInv, LastOneSees, [Next]_vars, OnlyResolutions,
           NEW t \in Txs, SeesAnother(t)'
    PROVE  AnotherFires(t)'
<1>0. /\ TypeOK /\ KnownRows /\ OneHolder /\ tx \in [Txs -> KnowingTxs]
      /\ t \in Procs /\ t \notin Keys
    BY ProcKinds DEF LifecycleInv, KnownRows
<1>1. CASE tx'[t] = tx[t]
    <2>1. PICK i \in Incidents : i = tx[t].incident /\ i \in HeldIncidents(t)
        BY <1>0, <1>1 DEF SeesAnother, KnowingTxs, Knows, HeldIncidents
    <2>2. Still(t) /\ AnotherFires(t)
        BY <1>0, <1>1 DEF Still, SeesAnother, LastOneSees
    <2>3. ASSUME NEW p \in Procs, ~Still(p) PROVE i \notin HeldIncidents(p)
        BY <1>0, <2>1, <2>2, <2>3 DEF OneHolder
    <2>4. survivors \subseteq survivors'
        BY <1>0, <2>1, MarksStep
    <2>5. CASE i \in survivors
        BY <1>1, <2>1, <2>4, <2>5 DEF AnotherFires
    <2>6. CASE tx[t].at = "counted" /\ incident[i].status # "completed"
        <3>1. ASSUME incident'[i].status = "completed" PROVE FALSE
            <4>1. PICK p \in Procs : ~Still(p) /\ Writes(p, i, incident[i].status, "completed")
                BY <1>0, <2>6, <3>1, StatusStep DEF StatusReason
            <4>2. p \in Txs /\ tx[p].at = "completing" /\ tx[p].incident = i
                BY <4>1 DEF Writes
            <4> QED
                BY <2>3, <4>1, <4>2, ProcKinds DEF HeldIncidents
        <3> QED
            BY <1>1, <2>1, <2>6, <3>1 DEF AnotherFires
    <2>7. ASSUME NEW a \in Firing(i), a \notin tx[t].marked PROVE AnotherFires(t)'
        <3>1. CASE a \in Firing(i)'
            BY <1>1, <2>1, <2>7, <3>1 DEF AnotherFires
        <3>2. CASE a \notin Firing(i)'
            <4>1. PICK u \in Txs :
                     /\ ~Still(u)
                     /\ \/ tx[u].at = "counted" /\ a \in tx[u].marked
                        \/ tx[u].at \in {"closing", "merging"} /\ tx[u].incident = i
                BY <2>7, <3>2, FiringEnds DEF OnlyResolutions
            <4>2. tx[u].at = "counted" => tx[u].alert = a /\ OnItsIncident(u)
                BY <1>0, <4>1 DEF KnowingTxs, Knows, LastOneSees
            <4>3. tx[u].incident # i
                BY <2>3, <4>1, ProcKinds DEF HeldIncidents
            <4>4. i \in survivors
                BY <2>7, <4>1, <4>2, <4>3 DEF OnItsIncident, Firing, Linked
            <4> QED
                BY <2>5, <4>4
        <3> QED
            BY <3>1, <3>2
    <2> QED
        BY <2>1, <2>2, <2>5, <2>6, <2>7 DEF AnotherFires
<1>2. CASE tx'[t] # tx[t]
    <2>1. Arrival(t)
        BY <1>0, <1>2, TxArrives
    <2>2. UNCHANGED <<incident, alert, survivors>>
        BY <2>1 DEF Arrival, SeesAnother
    <2>3. tx'[t].at = "completing" => tx'[t].marked = {}
        BY <1>0, RowsStep DEF KnownRows, KnowingTxs, Knows
    <2>4. "settingsError" \notin Operations
        BY DEF OnlyResolutions
    <2> QED
        BY <2>1, <2>2, <2>3, <2>4 DEF Arrival, SeesAnother, AnotherFires, Firing, Linked
<1> QED
    BY <1>1, <1>2

(* The last alert to stop firing takes its completed incident to monitor.  *)
LEMMA CompletedStep ==
    ASSUME LifecycleInv, LastOneSees, [Next]_vars, OnlyResolutions
    PROVE  CompletedHasFiringAlert'
<1> SUFFICES ASSUME NEW i \in Incidents, incident'[i].status = "completed",
                    i \notin survivors', Firing(i)' = {}
             PROVE  FALSE
    BY DEF CompletedHasFiringAlert
<1>0. /\ TypeOK /\ KnownRows /\ OneHolder /\ tx \in [Txs -> KnowingTxs]
      /\ i \notin survivors
    BY MarksStep DEF LifecycleInv, KnownRows
<1>1. ASSUME NEW a \in Firing(i)
      PROVE  \E t \in Txs : /\ ~Still(t) /\ CommitResolve(t) /\ a \in tx[t].marked
                            /\ tx[t].at = "counted"
    <2>1. a \notin Firing(i)'
        OBVIOUS
    <2>2. Operations \cap {"unlink", "sweep", "stale"} = {} /\ MovedTo = {}
        BY DEF OnlyResolutions
    <2> QED
        BY <1>1, <2>1, <2>2, FiringEnds
<1>2. CASE incident[i].status = "completed"
    <2>1. PICK a \in Firing(i) : TRUE
        BY <1>0, <1>2 DEF LastOneSees, CompletedHasFiringAlert
    <2>2. PICK t \in Txs : /\ ~Still(t) /\ CommitResolve(t) /\ a \in tx[t].marked
                            /\ tx[t].at = "counted"
        BY <1>1, <2>1
    <2>3. tx[t].incident = i
        BY <1>0, <2>1, <2>2 DEF KnowingTxs, Knows, LastOneSees, OnItsIncident, Firing, Linked
    <2>4. tx[t].write # "monitor"
        BY <1>0, <2>2, <2>3 DEF CommitResolve, TypeOK, IncidentRows
    <2>5. PICK b \in Firing(i) : b \notin tx[t].marked
        BY <1>0, <1>2, <2>2, <2>3, <2>4 DEF LastOneSees, SeesAnother, AnotherFires
    <2>6. PICK u \in Txs : ~Still(u) /\ b \in tx[u].marked /\ CommitResolve(u)
        BY <1>1, <2>5
    <2>7. u # t /\ u \in Procs /\ t \in Procs
        BY <2>5, <2>6, ProcKinds
    <2>8. ~Restart
        <3>1. alert' # alert
            BY <2>1 DEF Firing, Linked
        <3> QED
            BY <3>1 DEF Restart
    <2> QED
        BY <1>0, <2>2, <2>6, <2>7, <2>8, OneActor
<1>3. CASE incident[i].status # "completed"
    <2>1. PICK p \in Procs : ~Still(p) /\ Writes(p, i, incident[i].status, "completed")
        BY <1>0, <1>3, StatusStep DEF StatusReason
    <2>2. /\ p \in Txs /\ tx[p].at = "completing" /\ tx[p].incident = i
          /\ tx[p].write = "completed"
        BY <2>1 DEF Writes
    <2>3. PICK a \in Firing(i) : TRUE
        BY <1>0, <2>2 DEF LastOneSees, SeesAnother, AnotherFires
    <2>4. PICK u \in Txs : ~Still(u) /\ tx[u].at = "counted"
        BY <1>1, <2>3
    <2>5. u # p /\ u \in Procs
        BY <2>2, <2>4, ProcKinds
    <2>6. ~Restart
        BY <1>3 DEF Restart
    <2> QED
        BY <1>0, <2>1, <2>4, <2>5, <2>6, OneActor
<1> QED
    BY <1>2, <1>3

(* Where incidents are only resolved, completed, closed and merged, one    *)
(* that stays completed has an alert that fires, unless others were merged *)
(* into it: of several resolutions at once the last one sees that it is.   *)
THEOREM CompletedStillFires ==
    ASSUME MovedTo = {},
           Operations \cap {"unlink", "sweep", "stale", "settingsError"} = {}
    PROVE  Spec => []CompletedHasFiringAlert
<1>0. OnlyResolutions
    BY DEF OnlyResolutions
<1>1. Init => LastOneSees
    BY DEF Init, NoTx, LastOneSees, CompletedHasFiringAlert, SeesAnother
<1>2. LifecycleInv /\ LastOneSees /\ [Next]_vars => LastOneSees'
    BY <1>0, OnItsIncidentStep, AnotherFiresStep, CompletedStep DEF LastOneSees
<1>3. LastOneSees => CompletedHasFiringAlert
    BY DEF LastOneSees
<1> QED
    BY <1>1, <1>2, <1>3, LifecycleInvariance, PTL DEF Spec

=============================================================================
