-------------------------- MODULE AgentRuns_proofs --------------------------
(***************************************************************************)
(* Proofs about AgentRuns, for every set of incidents and runs, any number *)
(* of connections and any list of guarded columns.                         *)
(***************************************************************************)
EXTENDS AgentRuns, TLAPS

-----------------------------------------------------------------------------
(* The inductive invariant *)

(* Phases in which a waiter's entry may be in h.callbacks. *)
Unreleased == {"recording", "labelling", "notifying", "waiting", "formatting"}

(* Every process that names a run names one that has begun and was sent.   *)
InPlace ==
    /\ \A r \in Runs : waiter[r] # "idle" => incidentOf[r] \in Incidents
    /\ \A r \in Runs : sentOn[r] # NoConn <=> Registered(r)
    /\ \A c \in Conns : reader[c].at # "read" =>
          /\ reader[c].run \in Runs
          /\ Registered(reader[c].run)
          /\ reportedOn[reader[c].run] # NoConn
    /\ \A c \in Conns : reader[c].at = "write" => reader[c].column < Len(Columns)

(* h.workerConn is a connection nobody has torn down. *)
SlotIsOpen == workerConn # NoConn => conn[workerConn] = "open"

(* What the fields of an entry say about its run and its connection. *)
EntriesCoherent ==
    \A i \in Incidents : callbacks[i].run # NoRun =>
        /\ callbacks[i].conn = sentOn[callbacks[i].run]
        /\ ~superseded[callbacks[i].run]
        /\ ~callbacks[i].finalized =>
              /\ result[callbacks[i].run] = "none"
              /\ conn[callbacks[i].conn] \in {"open", "closed", "cleared"}

(* A displaced run was registered, has not claimed and is in no entry. *)
DisplacedIsOut ==
    \A s \in Runs :
        /\ ~Registered(s) => previous[s].run = NoRun
        /\ previous[s].run # NoRun =>
              /\ Registered(previous[s].run)
              /\ ~Claimed(previous[s].run)
              /\ \A i \in Incidents : callbacks[i].run # previous[s].run

(* A callback collected by failCallbacksForConn has not fired, and its     *)
(* entry, if it is still there, is finalized.                              *)
FailingOnce ==
    \A c \in Conns : \A r \in failing[c] :
        /\ sentOn[r] = c
        /\ result[r] = "none"
        /\ \A i \in Incidents : callbacks[i].run = r => callbacks[i].finalized

(* Only a captured result lets a waiter go on to finalize. *)
WokenHasResult ==
    \A r \in Runs : waiter[r] \in {"formatting", "claimed"} => result[r] # "none"

(* Nobody signals a run that has not registered. *)
NewRunsAreQuiet ==
    \A r \in Runs : ~Registered(r) => ~superseded[r] /\ result[r] = "none"

IndInv ==
    /\ TypeOK
    /\ InPlace
    /\ SlotIsOpen
    /\ EntriesHaveWaiters
    /\ EntriesCoherent
    /\ DisplacedIsOut
    /\ UndisplacedRunsKeepEntry
    /\ FailingOnce
    /\ WokenHasResult
    /\ NewRunsAreQuiet
    /\ CompletionIsOwn
    /\ LogIsOwn

-----------------------------------------------------------------------------
(* What the actions that update a field of a record do to the record *)

(* Setting finalized keeps an entry an entry, of the same run and the same *)
(* connection.                                                             *)
LEMMA FinalizedEntry ==
    ASSUME NEW e \in Entry, NEW f, f = [e EXCEPT !.finalized = TRUE]
    PROVE  f \in Entry /\ f.run = e.run /\ f.conn = e.conn /\ f.finalized
BY DEF Entry

(* An incident's row with its status, its log or its history changed.      *)
Opened(e) == [e EXCEPT !.status = "running", !.unwritten = FALSE]
Logged(e, r) == [e EXCEPT !.logBy = r, !.logFrom = r, !.logFinal = FALSE]
Left(e) == [e EXCEPT !.unwritten = TRUE]
Written(r, status) == [status |-> status, logBy |-> r, logFrom |-> r, logFinal |-> TRUE,
                       unwritten |-> FALSE]

\* What has become of each field.
LEMMA OpenedRow ==
    ASSUME NEW e \in RowStates, NEW f, f = Opened(e)
    PROVE  /\ f \in RowStates /\ f.logBy = e.logBy /\ f.logFrom = e.logFrom
           /\ f.logFinal = e.logFinal
BY DEF Opened, RowStates

\* What a failed final write leaves of each field.
LEMMA LeftRow ==
    ASSUME NEW e \in RowStates, NEW f, f = Left(e)
    PROVE  /\ f \in RowStates /\ f.logBy = e.logBy /\ f.logFrom = e.logFrom
           /\ f.logFinal = e.logFinal /\ f.unwritten = TRUE
BY DEF Left, RowStates

(* UpdateIncidentStatus(running) leaves the log of every incident alone.   *)
LEMMA BeginEffect ==
    ASSUME TypeOK, NEW r \in Runs, NEW i \in Incidents, Begin(r, i)
    PROVE  /\ row' \in [Incidents -> RowStates]
           /\ \A j \in Incidents : /\ row'[j].logBy = row[j].logBy
                                   /\ row'[j].logFrom = row[j].logFrom
                                   /\ row'[j].logFinal = row[j].logFinal
                                   /\ j # i => row'[j] = row[j]
<1>1. row \in [Incidents -> RowStates]
    BY DEF TypeOK
<1>2. PICK f : f = Opened(row[i])
    OBVIOUS
<1>3. row' = [row EXCEPT ![i] = f]
    BY <1>2, Zenon DEF Begin, Opened
<1>4. /\ f \in RowStates /\ f.logBy = row[i].logBy
      /\ f.logFrom = row[i].logFrom /\ f.logFinal = row[i].logFinal
    BY <1>1, <1>2, OpenedRow
<1> QED
    BY <1>1, <1>3, <1>4

(* Besides the row, beginning touches one waiter, nothing of the registry. *)
Begun(r, i) ==
    /\ waiter[r] = "idle"
    /\ waiter' = [waiter EXCEPT ![r] = "starting"]
    /\ incidentOf' = [incidentOf EXCEPT ![r] = i]
    /\ UNCHANGED <<registryVars, sentOn, previous, callbackVars, runRow, stamp>>

\* The conjuncts of Begin that say so.
LEMMA BeginFrame ==
    ASSUME NEW r, NEW i, Begin(r, i)
    PROVE  Begun(r, i)
BY DEF Begin, Begun

(* A streamed frame rewrites the log of its run's incident, nothing else.  *)
LEMMA OutputEffect ==
    ASSUME TypeOK, InPlace, NEW c \in Conns, NEW r \in Runs, ReadOutput(c, r)
    PROVE  /\ row' \in [Incidents -> RowStates] /\ incidentOf[r] \in Incidents
           /\ callbacks[incidentOf[r]].run = r
           /\ \A j \in Incidents :
                 /\ row'[j].status = row[j].status /\ row'[j].unwritten = row[j].unwritten
                 /\ j # incidentOf[r] => row'[j] = row[j]
           /\ row'[incidentOf[r]].logBy = r /\ row'[incidentOf[r]].logFrom = r
<1>1. row \in [Incidents -> RowStates] /\ incidentOf[r] \in Incidents
    BY DEF TypeOK, InPlace, Registered, ReadOutput, CanCarry
<1>2. PICK i \in Incidents : i = incidentOf[r]
    BY <1>1
<1>3. callbacks[i].run = r
    BY <1>2 DEF ReadOutput, IsCurrentRun
<1>4. PICK e \in RowStates : e = row[i]
    BY <1>1
<1>5. PICK f : f = Logged(row[i], r)
    OBVIOUS
<1>6. f = Logged(e, r)
    BY <1>4, <1>5
<1>7. row' = [row EXCEPT ![i] = f]
    BY <1>2, <1>3, <1>5, Zenon DEF ReadOutput, Logged
<1>8. /\ f \in RowStates /\ f.logBy = r /\ f.logFrom = r
      /\ f.status = e.status /\ f.unwritten = e.unwritten
    BY <1>6 DEF Logged, RowStates
<1> QED
    BY <1>1, <1>2, <1>3, <1>4, <1>7, <1>8

(* UpdateIncidentComplete settles the row, or fails and leaves it.         *)
LEMMA CompleteEffect ==
    ASSUME TypeOK, NEW r \in Runs, incidentOf[r] \in Incidents, NEW status \in FinalKinds,
           WriteComplete(r, status)
    PROVE  \E e \in RowStates :
              /\ row' = [row EXCEPT ![incidentOf[r]] = e]
              /\ e.status # "running" \/ e.unwritten
              /\ \/ e.logBy = r /\ e.logFrom = r /\ e.logFinal
                 \/ /\ e.logBy = row[incidentOf[r]].logBy
                    /\ e.logFrom = row[incidentOf[r]].logFrom
                    /\ e.logFinal = row[incidentOf[r]].logFinal
<1>1. PICK i \in Incidents : i = incidentOf[r]
    OBVIOUS
<1>2. row[i] \in RowStates
    BY DEF TypeOK
<1>3. CASE row' = [row EXCEPT ![i] = Written(r, status)]
    <2>1. PICK e : e = Written(r, status)
        OBVIOUS
    <2>2. /\ e \in RowStates /\ e.status # "running"
          /\ e.logBy = r /\ e.logFrom = r /\ e.logFinal
        BY <2>1 DEF Written, RowStates, FinalKinds
    <2> QED
        BY <1>1, <1>3, <2>1, <2>2
<1>4. CASE row' = [row EXCEPT ![i] = Left(row[i])]
    <2>1. PICK e : e = Left(row[i])
        OBVIOUS
    <2>2. /\ e \in RowStates /\ e.unwritten = TRUE
          /\ e.logBy = row[i].logBy /\ e.logFrom = row[i].logFrom
          /\ e.logFinal = row[i].logFinal
        BY <1>2, <2>1, LeftRow
    <2> QED
        BY <1>1, <1>4, <2>1, <2>2
<1>5. \/ row' = [row EXCEPT ![i] = Written(r, status)]
      \/ row' = [row EXCEPT ![i] = Left(row[i])]
    BY <1>1, Zenon DEF WriteComplete, Written, Left
<1> QED
    BY <1>3, <1>4, <1>5

(* Both final writes of a waiter do that to the row of its own incident.   *)
LEMMA FinalEffect ==
    ASSUME TypeOK, InPlace, WokenHasResult, NEW r \in Runs,
           RecordStartFailure(r) \/ Finalize(r)
    PROVE  /\ incidentOf[r] \in Incidents
           /\ \E e \in RowStates :
                 /\ row' = [row EXCEPT ![incidentOf[r]] = e]
                 /\ e.status # "running" \/ e.unwritten
                 /\ \/ e.logBy = r /\ e.logFrom = r /\ e.logFinal
                    \/ /\ e.logBy = row[incidentOf[r]].logBy
                       /\ e.logFrom = row[incidentOf[r]].logFrom
                       /\ e.logFinal = row[incidentOf[r]].logFinal
<1>1. incidentOf[r] \in Incidents
    BY DEF RecordStartFailure, Finalize, InPlace
<1>2. PICK status \in FinalKinds : WriteComplete(r, status)
    BY DEF RecordStartFailure, Finalize, TypeOK, WokenHasResult, FinalKinds
<1> QED
    BY <1>1, <1>2, CompleteEffect

(* failCallbacksForConn finalizes the entries it collects and changes      *)
(* neither their run nor their connection.                                 *)
LEMMA FailCallbacksEffect ==
    ASSUME TypeOK, NEW c \in Conns, FailCallbacks(c)
    PROVE  /\ callbacks' \in [Incidents -> Entry]
           /\ \A j \in Incidents :
                 /\ callbacks'[j].run = callbacks[j].run
                 /\ callbacks'[j].conn = callbacks[j].conn
                 /\ callbacks'[j].finalized = (j \in LostEntries(c) \/ callbacks[j].finalized)
<1>1. callbacks \in [Incidents -> Entry]
    BY DEF TypeOK
<1>2. callbacks' = [j \in Incidents |->
                      IF j \in LostEntries(c) THEN AfterLoss(j) ELSE callbacks[j]]
    BY DEF FailCallbacks
<1>3. ASSUME NEW j \in Incidents
      PROVE  /\ callbacks'[j] \in Entry
             /\ callbacks'[j].run = callbacks[j].run
             /\ callbacks'[j].conn = callbacks[j].conn
             /\ callbacks'[j].finalized = (j \in LostEntries(c) \/ callbacks[j].finalized)
    <2>1. callbacks[j] \in Entry /\ callbacks[j].finalized \in BOOLEAN
        BY <1>1 DEF Entry
    <2>2. CASE j \in LostEntries(c)
        <3>1. callbacks'[j] = [callbacks[j] EXCEPT !.finalized = TRUE]
            BY <1>2, <2>2 DEF AfterLoss
        <3>2. /\ callbacks'[j] \in Entry /\ callbacks'[j].run = callbacks[j].run
              /\ callbacks'[j].conn = callbacks[j].conn /\ callbacks'[j].finalized
            BY <2>1, <3>1, FinalizedEntry
        <3>3. callbacks'[j].finalized \in BOOLEAN
            BY <3>2 DEF Entry
        <3> QED
            BY <2>2, <3>2, <3>3
    <2>3. CASE j \notin LostEntries(c)
        <3>1. callbacks'[j] = callbacks[j]
            BY <1>2, <2>3
        <3> QED
            BY <2>1, <2>3, <3>1
    <2> QED
        BY <2>2, <2>3
<1> QED
    BY <1>2, <1>3

(* dispatchOnCompleted and dispatchOnError: with a current frame the       *)
(* entry is finalized and its run has a result, else nothing changes.      *)
LEMMA DispatchEffect ==
    ASSUME TypeOK, NEW c \in Conns, Dispatch(c)
    PROVE  LET r == reader[c].run
               i == incidentOf[r]
               kind == IF reader[c].at = "error" THEN "failed" ELSE "completed"
           IN  \/ /\ IsCurrentRun(i, r)
                  /\ callbacks' \in [Incidents -> Entry]
                  /\ \A j \in Incidents :
                        /\ callbacks'[j].run = callbacks[j].run
                        /\ callbacks'[j].conn = callbacks[j].conn
                        /\ j # i => callbacks'[j].finalized = callbacks[j].finalized
                        /\ j = i => callbacks'[j].finalized
                  /\ result' = [result EXCEPT ![r] = kind]
               \/ /\ ~IsCurrentRun(i, r)
                  /\ UNCHANGED <<callbacks, result>>
<1> DEFINE r == reader[c].run
           i == incidentOf[r]
           kind == IF reader[c].at = "error" THEN "failed" ELSE "completed"
<1>1. callbacks \in [Incidents -> Entry]
    BY DEF TypeOK
<1>2. CASE /\ IsCurrentRun(i, r)
           /\ result' = [result EXCEPT ![callbacks[i].run] = kind]
           /\ callbacks' = [callbacks EXCEPT ![i].finalized = TRUE]
    <2>1. callbacks' = [callbacks EXCEPT ![i] = [callbacks[i] EXCEPT !.finalized = TRUE]]
        BY <1>2, Zenon
    <2>2. PICK f : f = [callbacks[i] EXCEPT !.finalized = TRUE]
        OBVIOUS
    <2>3. callbacks' = [callbacks EXCEPT ![i] = f]
        BY <2>1, <2>2
    <2>4. i \in Incidents =>
             f \in Entry /\ f.run = callbacks[i].run /\ f.conn = callbacks[i].conn /\ f.finalized
        BY <1>1, <2>2, FinalizedEntry
    <2>5. callbacks[i].run = r
        BY <1>2 DEF IsCurrentRun
    <2> HIDE DEF r, i, kind
    <2>6. callbacks' \in [Incidents -> Entry]
        BY <1>1, <2>3, <2>4
    <2>7. ASSUME NEW j \in Incidents
          PROVE  /\ callbacks'[j].run = callbacks[j].run
                 /\ callbacks'[j].conn = callbacks[j].conn
                 /\ j # i => callbacks'[j].finalized = callbacks[j].finalized
                 /\ j = i => callbacks'[j].finalized
        BY <1>1, <2>3, <2>4
    <2> QED
        BY <1>2, <2>5, <2>6, <2>7 DEF r, i, kind
<1>3. CASE ~IsCurrentRun(i, r) /\ UNCHANGED <<result, callbacks>>
    BY <1>3
<1> QED
    BY <1>2, <1>3 DEF Dispatch

(* Checking a column moves the reader on, or readies the write.            *)
LEMMA CheckColumnEffect ==
    ASSUME TypeOK, NEW c \in Conns, CheckColumn(c)
    PROVE  /\ reader' \in [Conns -> ReaderStates]
           /\ \A d \in Conns : /\ reader'[d].run = reader[d].run
                               /\ d # c => reader'[d] = reader[d]
           /\ reader[c].at = "columns"
           /\ reader'[c].at = "write" => reader'[c].column < Len(Columns)
           /\ \/ reader'[c].at = "columns"
              \/ IsCurrentRun(incidentOf[reader[c].run], reader[c].run)
<1>1. reader \in [Conns -> ReaderStates] /\ Len(Columns) \in Nat
    BY ColumnsAssumption DEF TypeOK
<1>2. reader[c].at = "columns" /\ reader[c].column < Len(Columns)
    BY DEF CheckColumn, ColumnsLeft
<1>3. CASE reader' = [reader EXCEPT ![c].column = @ + 1]
    <2>1. PICK f : f = [reader[c] EXCEPT !.column = reader[c].column + 1]
        OBVIOUS
    <2>2. reader' = [reader EXCEPT ![c] = f]
        BY <1>3, <2>1, Zenon
    <2>3. ASSUME NEW e \in ReaderStates, NEW g, e.column < Len(Columns),
                 g = [e EXCEPT !.column = e.column + 1]
          PROVE  g \in ReaderStates /\ g.run = e.run /\ g.at = e.at
        BY <1>1, <2>3 DEF ReaderStates
    <2>4. f \in ReaderStates /\ f.run = reader[c].run /\ f.at = reader[c].at
        BY <1>1, <1>2, <2>1, <2>3
    <2> QED
        BY <1>1, <1>2, <2>2, <2>4
<1>4. CASE /\ IsCurrentRun(incidentOf[reader[c].run], reader[c].run)
           /\ reader' = [reader EXCEPT ![c].at = "write"]
    <2>1. PICK f : f = [reader[c] EXCEPT !.at = "write"]
        OBVIOUS
    <2>2. reader' = [reader EXCEPT ![c] = f]
        BY <1>4, <2>1, Zenon
    <2>3. ASSUME NEW e \in ReaderStates, NEW g, g = [e EXCEPT !.at = "write"]
          PROVE  g \in ReaderStates /\ g.run = e.run /\ g.column = e.column
        BY <2>3 DEF ReaderStates
    <2>4. f \in ReaderStates /\ f.run = reader[c].run /\ f.column = reader[c].column
        BY <1>1, <2>1, <2>3
    <2> QED
        BY <1>1, <1>2, <1>4, <2>2, <2>4
<1> QED
    BY <1>3, <1>4 DEF CheckColumn

-----------------------------------------------------------------------------
(* Type correctness *)

(* Every step keeps every variable in its set. *)
LEMMA TypeStep ==
    ASSUME TypeOK, InPlace, WokenHasResult, [Next]_vars
    PROVE  TypeOK'
<1> USE MaxConnsAssumption, NoRunAssumption, NoIncidentAssumption, ColumnsAssumption DEF TypeOK, InPlace, Conns, NoConn, FinalKinds, NoEntry, Entry, ConnStates, AtRead, ReaderStates, WaiterStates, RowStates, Registered, dbVars, registryVars, waiterVars, callbackVars, WokenHasResult
<1>1. ASSUME NEW r \in Runs, NEW i \in Incidents, Begin(r, i)
      PROVE  TypeOK'
    <2>1. row' \in [Incidents -> RowStates]
        BY <1>1, BeginEffect
    <2>0. Begun(r, i)
        BY <1>1, BeginFrame
    <2>2. waiter' \in [Runs -> WaiterStates]
        BY <2>0 DEF Begun
    <2>3. incidentOf' \in [Runs -> Incidents \cup {NoIncident}]
        BY <2>0 DEF Begun
    <2> QED
        BY <2>0, <2>1, <2>2, <2>3 DEF Begun
<1>2. ASSUME NEW c \in Conns, Connect(c)
      PROVE  TypeOK'
    BY <1>2 DEF Connect
<1>3. ASSUME NEW c \in Conns, WorkerDrops(c)
      PROVE  TypeOK'
    BY <1>3 DEF WorkerDrops, LeaveReadLoop
<1>4. ASSUME NEW c \in Conns, NEW r \in Runs, ReadOutput(c, r)
      PROVE  TypeOK'
    BY <1>4, OutputEffect DEF ReadOutput
<1>5. ASSUME NEW c \in Conns, NEW r \in Runs, NEW kind \in FinalKinds, ReadFinal(c, r, kind)
      PROVE  TypeOK'
    BY <1>5 DEF ReadFinal, CanCarry, FinalizedRow, FinalKinds
<1>6. ASSUME NEW r \in Runs, Register(r)
      PROVE  TypeOK'
    BY <1>6 DEF Register, SlotAfterWrite
<1>7. ASSUME NEW r \in Runs, RegisterFails(r)
      PROVE  TypeOK'
    BY <1>7 DEF RegisterFails, SlotAfterWrite
<1>8. ASSUME NEW r \in Runs, RecordStartFailure(r)
      PROVE  TypeOK'
    <2>1. row' \in [Incidents -> RowStates]
        <3>1. RecordStartFailure(r) \/ Finalize(r)
            BY <1>8
        <3>2. row \in [Incidents -> RowStates]
            OBVIOUS
        <3> HIDE DEF RowStates
        <3>3. PICK e \in RowStates : row' = [row EXCEPT ![incidentOf[r]] = e]
            BY <3>1, FinalEffect
        <3> QED
            BY <3>2, <3>3
    <2> QED
        BY <1>8, <2>1 DEF RecordStartFailure
<1>9. ASSUME NEW r \in Runs, CreateRunRow(r)
      PROVE  TypeOK'
    BY <1>9 DEF CreateRunRow
<1>10. ASSUME NEW r \in Runs, LabelPrevious(r)
      PROVE  TypeOK'
    BY <1>10 DEF LabelPrevious
<1>11. ASSUME NEW r \in Runs, NotifyPrevious(r)
      PROVE  TypeOK'
    BY <1>11 DEF NotifyPrevious, DisplacedBy
<1>12. ASSUME NEW r \in Runs, Wake(r)
      PROVE  TypeOK'
    BY <1>12 DEF Wake, Done
<1>13. ASSUME NEW r \in Runs, Release(r)
      PROVE  TypeOK'
    BY <1>13 DEF Release, OwnsEntry
<1>14. ASSUME NEW r \in Runs, Finalize(r)
      PROVE  TypeOK'
    <2>1. row' \in [Incidents -> RowStates]
        <3>1. RecordStartFailure(r) \/ Finalize(r)
            BY <1>14
        <3>2. row \in [Incidents -> RowStates]
            OBVIOUS
        <3> HIDE DEF RowStates
        <3>3. PICK e \in RowStates : row' = [row EXCEPT ![incidentOf[r]] = e]
            BY <3>1, FinalEffect
        <3> QED
            BY <3>2, <3>3
    <2> QED
        BY <1>14, <2>1 DEF Finalize
<1>15. ASSUME NEW c \in Conns, ReaderSeesClose(c)
      PROVE  TypeOK'
    BY <1>15 DEF ReaderSeesClose, LeaveReadLoop
<1>16. ASSUME NEW c \in Conns, FailCallbacks(c)
      PROVE  TypeOK'
    <2>2. callbacks' \in [Incidents -> Entry]
        BY <1>16, FailCallbacksEffect
    <2>3. {callbacks[i].run : i \in LostEntries(c)} \subseteq Runs
        BY <1>16 DEF LostEntries
    <2>4. failing' \in [Conns -> SUBSET Runs]
        BY <1>16, <2>3 DEF FailCallbacks
    <2>5. conn' \in [Conns -> ConnStates]
        BY <1>16 DEF FailCallbacks
    <2> QED
        BY <1>16, <2>2, <2>4, <2>5 DEF FailCallbacks
<1>17. ASSUME NEW c \in Conns, NEW r \in Runs, FireOnError(c, r)
      PROVE  TypeOK'
    BY <1>17 DEF FireOnError
<1>18. ASSUME NEW c \in Conns, ConnGone(c)
      PROVE  TypeOK'
    BY <1>18 DEF ConnGone
<1>19. ASSUME NEW c \in Conns, CheckColumn(c)
      PROVE  TypeOK'
    <2>3. reader' \in [Conns -> ReaderStates]
        BY <1>19, CheckColumnEffect
    <2> QED
        BY <1>19, <2>3 DEF CheckColumn
<1>20. ASSUME NEW c \in Conns, WriteColumn(c)
      PROVE  TypeOK'
    <2>1. /\ Len(Columns) \in Nat
          /\ reader[c] \in ReaderStates
          /\ reader[c].run \in Runs
          /\ reader[c].column < Len(Columns)
        BY <1>20 DEF WriteColumn
    <2>2. reader' \in [Conns -> ReaderStates]
        BY <1>20, <2>1 DEF WriteColumn
    <2>3. reader[c].column + 1 \in DOMAIN Columns
        BY <2>1
    <2>4. stamp' \in [DOMAIN Columns -> [Incidents -> Runs \cup {NoRun}]]
        BY <1>20, <2>1, <2>3 DEF WriteColumn
    <2> QED
        BY <1>20, <2>2, <2>4 DEF WriteColumn
<1>21. ASSUME NEW c \in Conns, Dispatch(c)
      PROVE  TypeOK'
    <2>1. reader' \in [Conns -> ReaderStates]
        BY <1>21 DEF Dispatch
    <2>2. callbacks' \in [Incidents -> Entry]
        BY <1>21, DispatchEffect
    <2>3. result' \in [Runs -> {"none"} \cup FinalKinds]
        BY <1>21 DEF Dispatch
    <2> QED
        BY <1>21, <2>1, <2>2, <2>3 DEF Dispatch
<1>22. CASE UNCHANGED vars
    BY <1>22 DEF vars
<1> HIDE DEF TypeOK, InPlace, WokenHasResult
<1> QED
    BY <1>1, <1>2, <1>3, <1>4, <1>5, <1>6, <1>7, <1>8, <1>9, <1>10, <1>11, <1>12, <1>13, <1>14, <1>15, <1>16, <1>17, <1>18, <1>19, <1>20, <1>21, <1>22 DEF Next, EnvironmentStep, WaiterStep, ConnStep

-----------------------------------------------------------------------------
(* Preservation of the other conjuncts *)

(* What a process names has begun and was sent. *)
LEMMA InPlaceStep ==
    ASSUME TypeOK, InPlace, [Next]_vars
    PROVE  InPlace'
<1>1. \/ UNCHANGED <<waiter, incidentOf, sentOn, reader, reportedOn>>
      \/ \E r \in Runs, i \in Incidents : Begin(r, i)
      \/ \E c \in Conns, r \in Runs, kind \in FinalKinds : ReadFinal(c, r, kind)
      \/ \E r \in Runs : Register(r) \/ RegisterFails(r) \/ RecordStartFailure(r) \/
                         CreateRunRow(r) \/ LabelPrevious(r) \/ NotifyPrevious(r) \/
                         Wake(r) \/ Release(r) \/ Finalize(r)
      \/ \E c \in Conns : CheckColumn(c) \/ WriteColumn(c) \/ Dispatch(c)
    BY DEF Next, EnvironmentStep, WaiterStep, ConnStep, vars, registryVars,
       waiterVars, callbackVars, dbVars, Connect, WorkerDrops, ReadOutput,
       ReaderSeesClose, FailCallbacks, FireOnError, ConnGone, LeaveReadLoop
<1> USE MaxConnsAssumption, NoRunAssumption, NoIncidentAssumption
    DEF TypeOK, InPlace, Registered, Conns, NoConn, AtRead, ReaderStates, FinalKinds,
        registryVars, waiterVars, callbackVars, dbVars
<1>2. CASE UNCHANGED <<waiter, incidentOf, sentOn, reader, reportedOn>>
    BY <1>2
<1>3. ASSUME NEW r \in Runs, NEW i \in Incidents, Begin(r, i) PROVE InPlace'
    <2>1. Begun(r, i)
        BY <1>3, BeginFrame
    <2> QED
        BY <1>3, <2>1, BeginEffect DEF Begun
<1>4. ASSUME NEW c \in Conns, NEW r \in Runs, NEW kind \in FinalKinds, ReadFinal(c, r, kind)
      PROVE  InPlace'
    BY <1>4 DEF ReadFinal, CanCarry
<1>5. ASSUME NEW r \in Runs, Register(r) PROVE InPlace'
    BY <1>5 DEF Register, SlotAfterWrite
<1>6. ASSUME NEW r \in Runs, RegisterFails(r) PROVE InPlace'
    BY <1>6 DEF RegisterFails, SlotAfterWrite
<1>7. ASSUME NEW r \in Runs, RecordStartFailure(r) PROVE InPlace'
    BY <1>7 DEF RecordStartFailure
<1>8. ASSUME NEW r \in Runs, CreateRunRow(r) PROVE InPlace'
    BY <1>8 DEF CreateRunRow
<1>9. ASSUME NEW r \in Runs, LabelPrevious(r) PROVE InPlace'
    BY <1>9 DEF LabelPrevious
<1>10. ASSUME NEW r \in Runs, NotifyPrevious(r) PROVE InPlace'
    BY <1>10 DEF NotifyPrevious, DisplacedBy
<1>11. ASSUME NEW r \in Runs, Wake(r) PROVE InPlace'
    BY <1>11 DEF Wake, Done
<1>12. ASSUME NEW r \in Runs, Release(r) PROVE InPlace'
    BY <1>12 DEF Release, OwnsEntry
<1>13. ASSUME NEW r \in Runs, Finalize(r) PROVE InPlace'
    BY <1>13 DEF Finalize
<1>14. ASSUME NEW c \in Conns, CheckColumn(c) PROVE InPlace'
    BY <1>14, CheckColumnEffect DEF CheckColumn
<1>15. ASSUME NEW c \in Conns, WriteColumn(c) PROVE InPlace'
    BY <1>15 DEF WriteColumn
<1>16. ASSUME NEW c \in Conns, Dispatch(c) PROVE InPlace'
    BY <1>16, DispatchEffect DEF Dispatch, IsCurrentRun
<1> HIDE DEF InPlace, TypeOK
<1> QED
    BY <1>1, <1>2, <1>3, <1>4, <1>5, <1>6, <1>7, <1>8, <1>9, <1>10, <1>11,
       <1>12, <1>13, <1>14, <1>15, <1>16

(* Only an open connection is in h.workerConn. *)
LEMMA SlotIsOpenStep ==
    ASSUME TypeOK, SlotIsOpen, [Next]_vars
    PROVE  SlotIsOpen'
<1>1. \/ UNCHANGED <<workerConn, conn>>
      \/ \E c \in Conns : Connect(c) \/ WorkerDrops(c) \/ ReaderSeesClose(c) \/
                          FailCallbacks(c) \/ ConnGone(c)
    BY DEF Next, EnvironmentStep, WaiterStep, ConnStep, vars, registryVars,
       waiterVars, callbackVars, dbVars, Begin, ReadOutput, ReadFinal, Register,
       RegisterFails, RecordStartFailure, CreateRunRow, LabelPrevious,
       NotifyPrevious, Wake, Release, Finalize, FireOnError, CheckColumn,
       WriteColumn, Dispatch
<1> USE MaxConnsAssumption, NoRunAssumption, NoIncidentAssumption
    DEF TypeOK, SlotIsOpen, Conns, NoConn, registryVars, waiterVars, callbackVars, dbVars
<1>2. CASE UNCHANGED <<workerConn, conn>>
    BY <1>2
<1>3. ASSUME NEW c \in Conns, Connect(c) PROVE SlotIsOpen'
    BY <1>3 DEF Connect
<1>4. ASSUME NEW c \in Conns, WorkerDrops(c) PROVE SlotIsOpen'
    BY <1>4 DEF WorkerDrops, LeaveReadLoop
<1>5. ASSUME NEW c \in Conns, ReaderSeesClose(c) PROVE SlotIsOpen'
    BY <1>5 DEF ReaderSeesClose, LeaveReadLoop
<1>6. ASSUME NEW c \in Conns, FailCallbacks(c) PROVE SlotIsOpen'
    BY <1>6, FailCallbacksEffect DEF FailCallbacks, LostEntries
<1>7. ASSUME NEW c \in Conns, ConnGone(c) PROVE SlotIsOpen'
    BY <1>7 DEF ConnGone
<1> HIDE DEF SlotIsOpen, TypeOK
<1> QED
    BY <1>1, <1>2, <1>3, <1>4, <1>5, <1>6, <1>7

(* No step leaves an entry without a waiter that will release it. *)
LEMMA EntriesHaveWaitersStep ==
    ASSUME TypeOK, InPlace, EntriesCoherent, EntriesHaveWaiters, [Next]_vars
    PROVE  EntriesHaveWaiters'
<1>1. \/ UNCHANGED <<callbacks, incidentOf, waiter>>
      \/ \E r \in Runs, i \in Incidents : Begin(r, i)
      \/ \E r \in Runs : Register(r) \/ RegisterFails(r) \/ RecordStartFailure(r) \/
                         CreateRunRow(r) \/ LabelPrevious(r) \/ NotifyPrevious(r) \/
                         Wake(r) \/ Release(r) \/ Finalize(r)
      \/ \E c \in Conns : FailCallbacks(c) \/ Dispatch(c)
    BY DEF Next, EnvironmentStep, WaiterStep, ConnStep, vars, registryVars,
       waiterVars, callbackVars, dbVars, Connect, WorkerDrops, ReadOutput,
       ReadFinal, ReaderSeesClose, FireOnError, ConnGone, CheckColumn,
       WriteColumn, LeaveReadLoop
<1> USE MaxConnsAssumption, NoRunAssumption, NoIncidentAssumption
    DEF TypeOK, InPlace, EntriesCoherent, EntriesHaveWaiters, NoEntry, Entry, NoConn, registryVars, waiterVars, callbackVars, dbVars
<1>2. CASE UNCHANGED <<callbacks, incidentOf, waiter>>
    BY <1>2
<1>3. ASSUME NEW r \in Runs, NEW i \in Incidents, Begin(r, i) PROVE EntriesHaveWaiters'
    <2>1. Begun(r, i)
        BY <1>3, BeginFrame
    <2> QED
        BY <1>3, <2>1, BeginEffect DEF Begun
<1>4. ASSUME NEW r \in Runs, Register(r) PROVE EntriesHaveWaiters'
    BY <1>4 DEF Register, SlotAfterWrite
<1>5. ASSUME NEW r \in Runs, RegisterFails(r) PROVE EntriesHaveWaiters'
    BY <1>5 DEF RegisterFails, SlotAfterWrite
<1>6. ASSUME NEW r \in Runs, RecordStartFailure(r) PROVE EntriesHaveWaiters'
    BY <1>6 DEF RecordStartFailure
<1>7. ASSUME NEW r \in Runs, CreateRunRow(r) PROVE EntriesHaveWaiters'
    BY <1>7 DEF CreateRunRow
<1>8. ASSUME NEW r \in Runs, LabelPrevious(r) PROVE EntriesHaveWaiters'
    BY <1>8 DEF LabelPrevious
<1>9. ASSUME NEW r \in Runs, NotifyPrevious(r) PROVE EntriesHaveWaiters'
    BY <1>9 DEF NotifyPrevious, DisplacedBy
<1>10. ASSUME NEW r \in Runs, Wake(r) PROVE EntriesHaveWaiters'
    BY <1>10 DEF Wake, Done
<1>11. ASSUME NEW r \in Runs, Release(r) PROVE EntriesHaveWaiters'
    BY <1>11 DEF Release, OwnsEntry
<1>12. ASSUME NEW r \in Runs, Finalize(r) PROVE EntriesHaveWaiters'
    BY <1>12 DEF Finalize
<1>13. ASSUME NEW c \in Conns, FailCallbacks(c) PROVE EntriesHaveWaiters'
    <2>1. \A j \in Incidents : callbacks'[j].run = callbacks[j].run
        BY <1>13, FailCallbacksEffect
    <2>2. UNCHANGED <<waiter, incidentOf>>
        BY <1>13 DEF FailCallbacks
    <2> QED
        BY <2>1, <2>2
<1>14. ASSUME NEW c \in Conns, Dispatch(c) PROVE EntriesHaveWaiters'
    <2>1. \A j \in Incidents : callbacks'[j].run = callbacks[j].run
        BY <1>14, DispatchEffect
    <2>2. UNCHANGED <<waiter, incidentOf>>
        BY <1>14 DEF Dispatch
    <2> QED
        BY <2>1, <2>2
<1> HIDE DEF EntriesCoherent, EntriesHaveWaiters, InPlace, TypeOK
<1> QED
    BY <1>1, <1>2, <1>3, <1>4, <1>5, <1>6, <1>7, <1>8, <1>9, <1>10, <1>11,
       <1>12, <1>13, <1>14

(* The fields of every entry stay true of its run and connection. *)
LEMMA EntriesCoherentStep ==
    ASSUME TypeOK, InPlace, SlotIsOpen, EntriesHaveWaiters, DisplacedIsOut,
           FailingOnce, NewRunsAreQuiet, EntriesCoherent, [Next]_vars
    PROVE  EntriesCoherent'
<1>1. \/ UNCHANGED <<callbacks, sentOn, superseded, result, conn>>
      \/ \E c \in Conns : Connect(c) \/ WorkerDrops(c) \/ ReaderSeesClose(c) \/
                          FailCallbacks(c) \/ ConnGone(c) \/ Dispatch(c)
      \/ \E r \in Runs : Register(r) \/ RegisterFails(r) \/ NotifyPrevious(r) \/
                         Release(r)
      \/ \E c \in Conns, r \in Runs : FireOnError(c, r)
    <2>1. CASE EnvironmentStep
        BY <2>1 DEF EnvironmentStep, registryVars, waiterVars, callbackVars,
           dbVars, Begin, ReadOutput, ReadFinal
    <2>2. CASE \E r \in Runs : WaiterStep(r)
        BY <2>2 DEF WaiterStep, registryVars, waiterVars, callbackVars,
           dbVars, RecordStartFailure, CreateRunRow, LabelPrevious, Wake,
           Finalize
    <2>3. CASE \E c \in Conns : ConnStep(c)
        BY <2>3 DEF ConnStep, registryVars, waiterVars, callbackVars,
           dbVars, CheckColumn, WriteColumn
    <2>4. CASE UNCHANGED vars
        BY <2>4 DEF vars, registryVars, waiterVars, callbackVars, dbVars
    <2> QED
        BY <2>1, <2>2, <2>3, <2>4 DEF Next
<1> USE MaxConnsAssumption, NoRunAssumption, NoIncidentAssumption
    DEF TypeOK, InPlace, SlotIsOpen, EntriesHaveWaiters, EntriesCoherent, DisplacedIsOut, FailingOnce,
        NewRunsAreQuiet, NoEntry, Entry, Registered, Conns, NoConn, registryVars, waiterVars, callbackVars, dbVars
<1>2. CASE UNCHANGED <<callbacks, sentOn, superseded, result, conn>>
    BY <1>2
<1>3. ASSUME NEW c \in Conns, Connect(c) PROVE EntriesCoherent'
    BY <1>3 DEF Connect
<1>4. ASSUME NEW c \in Conns, WorkerDrops(c) PROVE EntriesCoherent'
    BY <1>4 DEF WorkerDrops, LeaveReadLoop
<1>5. ASSUME NEW r \in Runs, Register(r) PROVE EntriesCoherent'
    <2>1. /\ callbacks' = [callbacks EXCEPT ![incidentOf[r]] =
                             [run |-> r, conn |-> workerConn, finalized |-> FALSE]]
          /\ sentOn' = [sentOn EXCEPT ![r] = workerConn]
          /\ workerConn # NoConn /\ ~Registered(r) /\ incidentOf[r] \in Incidents
          /\ UNCHANGED <<conn, superseded, result>>
        BY <1>5 DEF Register, SlotAfterWrite
    <2>2. ~superseded[r] /\ result[r] = "none" /\ conn[workerConn] = "open"
        BY <2>1
    <2>3. ASSUME NEW i \in Incidents, callbacks'[i].run # NoRun
          PROVE  /\ callbacks'[i].conn = sentOn'[callbacks'[i].run]
                 /\ ~superseded'[callbacks'[i].run]
                 /\ ~callbacks'[i].finalized =>
                       /\ result'[callbacks'[i].run] = "none"
                       /\ conn'[callbacks'[i].conn] \in {"open", "closed", "cleared"}
        <3>1. CASE i = incidentOf[r]
            BY <2>1, <2>2, <3>1
        <3>2. CASE i # incidentOf[r]
            <4>1. callbacks'[i] = callbacks[i] /\ callbacks[i].run \in Runs /\ callbacks[i].run # r
                BY <1>5, <2>1, <2>3, <3>2 DEF Register
            <4> QED
                BY <2>1, <2>3, <4>1
        <3> QED
            BY <3>1, <3>2
    <2> QED
        BY <2>3
<1>6. ASSUME NEW r \in Runs, RegisterFails(r) PROVE EntriesCoherent'
    BY <1>6 DEF RegisterFails, SlotAfterWrite
<1>7. ASSUME NEW r \in Runs, NotifyPrevious(r) PROVE EntriesCoherent'
    BY <1>7 DEF NotifyPrevious, DisplacedBy
<1>8. ASSUME NEW r \in Runs, Release(r) PROVE EntriesCoherent'
    BY <1>8 DEF Release, OwnsEntry
<1>9. ASSUME NEW c \in Conns, ReaderSeesClose(c) PROVE EntriesCoherent'
    BY <1>9 DEF ReaderSeesClose, LeaveReadLoop
<1>10. ASSUME NEW c \in Conns, FailCallbacks(c) PROVE EntriesCoherent'
    <2>1. /\ \A j \in Incidents :
                 /\ callbacks'[j].run = callbacks[j].run
                 /\ callbacks'[j].conn = callbacks[j].conn
                 /\ callbacks'[j].finalized = (j \in LostEntries(c) \/ callbacks[j].finalized)
        BY <1>10, FailCallbacksEffect
    <2>0. /\ \A d \in Conns : d # c => conn'[d] = conn[d]
          /\ UNCHANGED <<sentOn, superseded, result>>
        BY <1>10 DEF FailCallbacks
    <2>2. ASSUME NEW i \in Incidents, callbacks[i].run # NoRun
          PROVE  /\ callbacks'[i].conn = sentOn'[callbacks'[i].run]
                 /\ ~superseded'[callbacks'[i].run]
                 /\ ~callbacks'[i].finalized =>
                       /\ result'[callbacks'[i].run] = "none"
                       /\ conn'[callbacks'[i].conn] \in {"open", "closed", "cleared"}
        <3>1. callbacks[i].run \in Runs /\ callbacks[i].conn \in Conns
            BY <2>2
        <3>2. ~callbacks'[i].finalized => callbacks[i].conn # c /\ ~callbacks[i].finalized
            BY <2>1, <2>2 DEF LostEntries
        <3>3. /\ callbacks'[i].run = callbacks[i].run /\ callbacks'[i].conn = callbacks[i].conn
              /\ callbacks[i].conn = sentOn[callbacks[i].run] /\ ~superseded[callbacks[i].run]
            BY <2>1, <2>2
        <3>4. ASSUME ~callbacks'[i].finalized
              PROVE  /\ result[callbacks[i].run] = "none"
                     /\ conn'[callbacks[i].conn] \in {"open", "closed", "cleared"}
            <4>1. callbacks[i].conn # c /\ ~callbacks[i].finalized
                BY <3>2, <3>4
            <4>2. conn'[callbacks[i].conn] = conn[callbacks[i].conn]
                BY <2>0, <3>1, <4>1
            <4> QED
                BY <2>2, <4>1, <4>2
        <3> HIDE DEF TypeOK, InPlace, SlotIsOpen, EntriesHaveWaiters, EntriesCoherent,
                     DisplacedIsOut, FailingOnce, NewRunsAreQuiet
        <3> QED
            BY <2>0, <3>3, <3>4
    <2> QED
        BY <2>1, <2>2
<1>11. ASSUME NEW c \in Conns, NEW r \in Runs, FireOnError(c, r) PROVE EntriesCoherent'
    BY <1>11 DEF FireOnError
<1>12. ASSUME NEW c \in Conns, ConnGone(c) PROVE EntriesCoherent'
    <2>1. \A i \in Incidents : callbacks[i].run # NoRun => callbacks[i].conn \in Conns
        OBVIOUS
    <2>2. /\ conn[c] = "failing" /\ \A d \in Conns : d # c => conn'[d] = conn[d]
          /\ UNCHANGED <<callbacks, sentOn, superseded, result>>
        BY <1>12 DEF ConnGone
    <2>3. ASSUME NEW i \in Incidents, callbacks[i].run # NoRun
          PROVE  /\ callbacks[i].conn = sentOn[callbacks[i].run]
                 /\ ~superseded[callbacks[i].run]
                 /\ ~callbacks[i].finalized =>
                       /\ result[callbacks[i].run] = "none"
                       /\ conn'[callbacks[i].conn] \in {"open", "closed", "cleared"}
        <3>1. callbacks[i].conn \in Conns
            BY <2>1, <2>3
        <3>2. /\ callbacks[i].conn = sentOn[callbacks[i].run]
              /\ ~superseded[callbacks[i].run]
              /\ ~callbacks[i].finalized =>
                    /\ result[callbacks[i].run] = "none"
                    /\ conn[callbacks[i].conn] \in {"open", "closed", "cleared"}
            BY <2>3
        <3>3. ~callbacks[i].finalized => callbacks[i].conn # c
            BY <2>2, <3>2
        <3> HIDE DEF TypeOK, InPlace, SlotIsOpen, EntriesHaveWaiters, EntriesCoherent,
                     DisplacedIsOut, FailingOnce, NewRunsAreQuiet
        <3> QED
            BY <2>2, <3>1, <3>2, <3>3
    <2> QED
        BY <2>2, <2>3
<1>13. ASSUME NEW c \in Conns, Dispatch(c) PROVE EntriesCoherent'
    <2>1. UNCHANGED <<conn, sentOn, superseded>>
        BY <1>13 DEF Dispatch
    <2>2. CASE UNCHANGED <<callbacks, result>>
        BY <2>1, <2>2
    <2>3. CASE ~UNCHANGED <<callbacks, result>>
        <3> DEFINE s == reader[c].run
                   k == incidentOf[s]
        <3>1. /\ callbacks[k].run = s
              /\ \A j \in Incidents :
                    /\ callbacks'[j].run = callbacks[j].run
                    /\ callbacks'[j].conn = callbacks[j].conn
                    /\ j # k => callbacks'[j].finalized = callbacks[j].finalized
                    /\ j = k => callbacks'[j].finalized
              /\ \A r \in Runs : r # s => result'[r] = result[r]
            BY <1>13, <2>3, DispatchEffect DEF IsCurrentRun
        <3>2. \A j \in Incidents :
                 callbacks[j].run # NoRun /\ j # k => callbacks[j].run \in Runs /\ callbacks[j].run # s
            BY <3>1
        <3> HIDE DEF s, k
        <3> QED
            BY <2>1, <3>1, <3>2
    <2> QED
        BY <2>2, <2>3
<1> HIDE DEF DisplacedIsOut, EntriesCoherent, EntriesHaveWaiters, FailingOnce, InPlace, NewRunsAreQuiet, SlotIsOpen, TypeOK
<1> QED
    BY <1>1, <1>2, <1>3, <1>4, <1>5, <1>6, <1>7, <1>8, <1>9, <1>10, <1>11,
       <1>12, <1>13

(* A displaced run never comes back. *)
LEMMA DisplacedIsOutStep ==
    ASSUME TypeOK, InPlace, EntriesHaveWaiters, DisplacedIsOut, [Next]_vars
    PROVE  DisplacedIsOut'
<1>1. \/ UNCHANGED <<waiter, previous, callbacks>>
      \/ \E r \in Runs, i \in Incidents : Begin(r, i)
      \/ \E r \in Runs : Register(r) \/ RegisterFails(r) \/ RecordStartFailure(r) \/
                         CreateRunRow(r) \/ LabelPrevious(r) \/ NotifyPrevious(r) \/
                         Wake(r) \/ Release(r) \/ Finalize(r)
      \/ \E c \in Conns : FailCallbacks(c) \/ Dispatch(c)
    BY DEF Next, EnvironmentStep, WaiterStep, ConnStep, vars, registryVars,
       waiterVars, callbackVars, dbVars, Connect, WorkerDrops, ReadOutput,
       ReadFinal, ReaderSeesClose, FireOnError, ConnGone, CheckColumn,
       WriteColumn, LeaveReadLoop
<1> USE MaxConnsAssumption, NoRunAssumption, NoIncidentAssumption
    DEF TypeOK, InPlace, EntriesHaveWaiters, DisplacedIsOut,
        NoEntry, Entry, Registered, Claimed, registryVars, waiterVars, callbackVars, dbVars
<1>2. CASE UNCHANGED <<waiter, previous, callbacks>>
    BY <1>2
<1>3. ASSUME NEW r \in Runs, NEW i \in Incidents, Begin(r, i) PROVE DisplacedIsOut'
    <2>1. Begun(r, i)
        BY <1>3, BeginFrame
    <2> QED
        BY <1>3, <2>1, BeginEffect DEF Begun
<1>4. ASSUME NEW r \in Runs, Register(r) PROVE DisplacedIsOut'
    BY <1>4 DEF Register, SlotAfterWrite
<1>5. ASSUME NEW r \in Runs, RegisterFails(r) PROVE DisplacedIsOut'
    BY <1>5 DEF RegisterFails, SlotAfterWrite
<1>6. ASSUME NEW r \in Runs, RecordStartFailure(r) PROVE DisplacedIsOut'
    BY <1>6 DEF RecordStartFailure
<1>7. ASSUME NEW r \in Runs, CreateRunRow(r) PROVE DisplacedIsOut'
    BY <1>7 DEF CreateRunRow
<1>8. ASSUME NEW r \in Runs, LabelPrevious(r) PROVE DisplacedIsOut'
    BY <1>8 DEF LabelPrevious
<1>9. ASSUME NEW r \in Runs, NotifyPrevious(r) PROVE DisplacedIsOut'
    BY <1>9 DEF NotifyPrevious, DisplacedBy
<1>10. ASSUME NEW r \in Runs, Wake(r) PROVE DisplacedIsOut'
    BY <1>10 DEF Wake, Done
<1>11. ASSUME NEW r \in Runs, Release(r) PROVE DisplacedIsOut'
    BY <1>11 DEF Release, OwnsEntry
<1>12. ASSUME NEW r \in Runs, Finalize(r) PROVE DisplacedIsOut'
    BY <1>12 DEF Finalize
<1>13. ASSUME NEW c \in Conns, FailCallbacks(c) PROVE DisplacedIsOut'
    <2>1. \A j \in Incidents : callbacks'[j].run = callbacks[j].run
        BY <1>13, FailCallbacksEffect
    <2>2. UNCHANGED <<waiter, previous>>
        BY <1>13 DEF FailCallbacks
    <2> QED
        BY <2>1, <2>2
<1>14. ASSUME NEW c \in Conns, Dispatch(c) PROVE DisplacedIsOut'
    <2>1. \A j \in Incidents : callbacks'[j].run = callbacks[j].run
        BY <1>14, DispatchEffect
    <2>2. UNCHANGED <<waiter, previous>>
        BY <1>14 DEF Dispatch
    <2> QED
        BY <2>1, <2>2
<1> HIDE DEF DisplacedIsOut, EntriesHaveWaiters, InPlace, TypeOK
<1> QED
    BY <1>1, <1>2, <1>3, <1>4, <1>5, <1>6, <1>7, <1>8, <1>9, <1>10, <1>11,
       <1>12, <1>13, <1>14

(* Only a registration displaces an entry. *)
LEMMA UndisplacedRunsKeepEntryStep ==
    ASSUME TypeOK, InPlace, EntriesHaveWaiters, DisplacedIsOut,
           UndisplacedRunsKeepEntry, [Next]_vars
    PROVE  UndisplacedRunsKeepEntry'
<1>1. \/ UNCHANGED <<waiter, previous, callbacks, incidentOf>>
      \/ \E r \in Runs, i \in Incidents : Begin(r, i)
      \/ \E r \in Runs : Register(r) \/ RegisterFails(r) \/ RecordStartFailure(r) \/
                         CreateRunRow(r) \/ LabelPrevious(r) \/ NotifyPrevious(r) \/
                         Wake(r) \/ Release(r) \/ Finalize(r)
      \/ \E c \in Conns : FailCallbacks(c) \/ Dispatch(c)
    <2>1. CASE EnvironmentStep
        BY <2>1 DEF EnvironmentStep, registryVars, waiterVars, callbackVars,
           dbVars, Connect, WorkerDrops, ReadOutput, ReadFinal,
           LeaveReadLoop
    <2>2. CASE \E r \in Runs : WaiterStep(r)
        BY <2>2 DEF WaiterStep, registryVars, waiterVars, callbackVars,
           dbVars
    <2>3. CASE \E c \in Conns : ConnStep(c)
        BY <2>3 DEF ConnStep, registryVars, waiterVars, callbackVars,
           dbVars, ReaderSeesClose, FireOnError, ConnGone, CheckColumn,
           WriteColumn, LeaveReadLoop
    <2>4. CASE UNCHANGED vars
        BY <2>4 DEF vars, registryVars, waiterVars, callbackVars, dbVars
    <2> QED
        BY <2>1, <2>2, <2>3, <2>4 DEF Next
<1> USE MaxConnsAssumption, NoRunAssumption, NoIncidentAssumption
    DEF TypeOK, InPlace, EntriesHaveWaiters, DisplacedIsOut, UndisplacedRunsKeepEntry,
        NoEntry, Entry, Registered, registryVars, waiterVars, callbackVars, dbVars
<1>2. CASE UNCHANGED <<waiter, previous, callbacks, incidentOf>>
    BY <1>2
<1>3. ASSUME NEW r \in Runs, NEW i \in Incidents, Begin(r, i)
      PROVE  UndisplacedRunsKeepEntry'
    <2>1. Begun(r, i)
        BY <1>3, BeginFrame
    <2> QED
        BY <1>3, <2>1, BeginEffect DEF Begun
<1>4. ASSUME NEW r \in Runs, Register(r) PROVE UndisplacedRunsKeepEntry'
    <2>1. /\ callbacks' = [callbacks EXCEPT ![incidentOf[r]] =
                             [run |-> r, conn |-> workerConn, finalized |-> FALSE]]
          /\ previous' = [previous EXCEPT ![r] = callbacks[incidentOf[r]]]
          /\ waiter' = [waiter EXCEPT ![r] = "recording"]
          /\ waiter[r] = "starting" /\ previous[r].run = NoRun /\ incidentOf[r] \in Incidents
          /\ UNCHANGED incidentOf
        BY <1>4 DEF Register, SlotAfterWrite
    <2>2. ASSUME NEW s \in Runs, s # r,
                 waiter[s] \in {"recording", "labelling", "notifying", "waiting", "formatting"},
                 \A q \in Runs : previous'[q].run # s
          PROVE  callbacks'[incidentOf[s]].run = s
        <3>1. \A q \in Runs : previous[q].run # s
            BY <2>1, <2>2
        <3>2. callbacks[incidentOf[s]].run = s /\ incidentOf[s] \in Incidents
            BY <2>2, <3>1
        <3>3. incidentOf[s] # incidentOf[r]
            BY <2>1, <2>2, <3>2
        <3> QED
            BY <2>1, <3>2, <3>3
    <2> QED
        BY <2>1, <2>2
<1>5. ASSUME NEW r \in Runs, RegisterFails(r) PROVE UndisplacedRunsKeepEntry'
    BY <1>5 DEF RegisterFails, SlotAfterWrite
<1>6. ASSUME NEW r \in Runs, RecordStartFailure(r) PROVE UndisplacedRunsKeepEntry'
    BY <1>6 DEF RecordStartFailure
<1>7. ASSUME NEW r \in Runs, CreateRunRow(r) PROVE UndisplacedRunsKeepEntry'
    BY <1>7 DEF CreateRunRow
<1>8. ASSUME NEW r \in Runs, LabelPrevious(r) PROVE UndisplacedRunsKeepEntry'
    BY <1>8 DEF LabelPrevious
<1>9. ASSUME NEW r \in Runs, NotifyPrevious(r) PROVE UndisplacedRunsKeepEntry'
    BY <1>9 DEF NotifyPrevious, DisplacedBy
<1>10. ASSUME NEW r \in Runs, Wake(r) PROVE UndisplacedRunsKeepEntry'
    BY <1>10 DEF Wake, Done
<1>11. ASSUME NEW r \in Runs, Release(r) PROVE UndisplacedRunsKeepEntry'
    BY <1>11 DEF Release, OwnsEntry
<1>12. ASSUME NEW r \in Runs, Finalize(r) PROVE UndisplacedRunsKeepEntry'
    BY <1>12 DEF Finalize
<1>13. ASSUME NEW c \in Conns, FailCallbacks(c) PROVE UndisplacedRunsKeepEntry'
    <2>1. \A j \in Incidents : callbacks'[j].run = callbacks[j].run
        BY <1>13, FailCallbacksEffect
    <2>2. UNCHANGED <<waiter, incidentOf, previous>>
        BY <1>13 DEF FailCallbacks
    <2> QED
        BY <2>1, <2>2
<1>14. ASSUME NEW c \in Conns, Dispatch(c) PROVE UndisplacedRunsKeepEntry'
    <2>1. \A j \in Incidents : callbacks'[j].run = callbacks[j].run
        BY <1>14, DispatchEffect
    <2>2. UNCHANGED <<waiter, incidentOf, previous>>
        BY <1>14 DEF Dispatch
    <2> QED
        BY <2>1, <2>2
<1> HIDE DEF DisplacedIsOut, EntriesHaveWaiters, InPlace, TypeOK, UndisplacedRunsKeepEntry
<1> QED
    BY <1>1, <1>2, <1>3, <1>4, <1>5, <1>6, <1>7, <1>8, <1>9, <1>10, <1>11,
       <1>12, <1>13, <1>14

(* A collected callback fires once. *)
LEMMA FailingOnceStep ==
    ASSUME TypeOK, InPlace, EntriesHaveWaiters, EntriesCoherent,
           NewRunsAreQuiet, FailingOnce, [Next]_vars
    PROVE  FailingOnce'
<1>1. \/ UNCHANGED <<failing, sentOn, result, callbacks>>
      \/ \E r \in Runs : Register(r) \/ RegisterFails(r) \/ Release(r)
      \/ \E c \in Conns : FailCallbacks(c) \/ Dispatch(c)
      \/ \E c \in Conns, r \in Runs : FireOnError(c, r)
    <2>1. CASE EnvironmentStep
        BY <2>1 DEF EnvironmentStep, registryVars, waiterVars, callbackVars,
           dbVars, Begin, Connect, WorkerDrops, ReadOutput, ReadFinal,
           LeaveReadLoop
    <2>2. CASE \E r \in Runs : WaiterStep(r)
        BY <2>2 DEF WaiterStep, registryVars, waiterVars, callbackVars,
           dbVars, RecordStartFailure, CreateRunRow, LabelPrevious,
           NotifyPrevious, Wake, Finalize
    <2>3. CASE \E c \in Conns : ConnStep(c)
        BY <2>3 DEF ConnStep, registryVars, waiterVars, callbackVars,
           dbVars, ReaderSeesClose, ConnGone, CheckColumn, WriteColumn,
           LeaveReadLoop
    <2>4. CASE UNCHANGED vars
        BY <2>4 DEF vars, registryVars, waiterVars, callbackVars, dbVars
    <2> QED
        BY <2>1, <2>2, <2>3, <2>4 DEF Next
<1> USE MaxConnsAssumption, NoRunAssumption, NoIncidentAssumption
    DEF TypeOK, InPlace, EntriesHaveWaiters, EntriesCoherent, NewRunsAreQuiet, FailingOnce,
        NoEntry, Entry, Registered, Conns, NoConn, registryVars, waiterVars, callbackVars, dbVars
<1>2. CASE UNCHANGED <<failing, sentOn, result, callbacks>>
    BY <1>2
<1>3. ASSUME NEW r \in Runs, Register(r) PROVE FailingOnce'
    <2>1. /\ callbacks' = [callbacks EXCEPT ![incidentOf[r]] =
                             [run |-> r, conn |-> workerConn, finalized |-> FALSE]]
          /\ sentOn' = [sentOn EXCEPT ![r] = workerConn]
          /\ sentOn[r] = NoConn
          /\ UNCHANGED <<failing, result>>
        BY <1>3 DEF Register, SlotAfterWrite
    <2>2. \A d \in Conns : r \notin failing[d]
        BY <2>1
    <2> QED
        BY <2>1, <2>2
<1>4. ASSUME NEW r \in Runs, RegisterFails(r) PROVE FailingOnce'
    BY <1>4 DEF RegisterFails, SlotAfterWrite
<1>5. ASSUME NEW r \in Runs, Release(r) PROVE FailingOnce'
    BY <1>5 DEF Release, OwnsEntry
<1>6. ASSUME NEW c \in Conns, FailCallbacks(c) PROVE FailingOnce'
    <2>1. /\ \A j \in Incidents :
                 /\ callbacks'[j].run = callbacks[j].run
                 /\ callbacks'[j].finalized = (j \in LostEntries(c) \/ callbacks[j].finalized)
        BY <1>6, FailCallbacksEffect
    <2>0. /\ failing' = [failing EXCEPT ![c] = {callbacks[i].run : i \in LostEntries(c)}]
          /\ UNCHANGED <<sentOn, result>>
        BY <1>6 DEF FailCallbacks
    <2>2. ASSUME NEW k \in LostEntries(c)
          PROVE  /\ callbacks[k].run \in Runs /\ sentOn[callbacks[k].run] = c
                 /\ result[callbacks[k].run] = "none"
                 /\ \A i \in Incidents : callbacks[i].run = callbacks[k].run => callbacks'[i].finalized
        <3>1. k \in Incidents /\ callbacks[k].run # NoRun /\ callbacks[k].conn = c
              /\ ~callbacks[k].finalized
            BY <2>2 DEF LostEntries
        <3>2. callbacks[k].run \in Runs /\ sentOn[callbacks[k].run] = c
              /\ result[callbacks[k].run] = "none"
            BY <3>1
        <3>3. \A i \in Incidents : callbacks[i].run = callbacks[k].run => i = k
            BY <3>1
        <3>4. callbacks'[k].finalized
            BY <2>1, <2>2, <3>1
        <3> QED
            BY <3>2, <3>3, <3>4
    <2>3. ASSUME NEW d \in Conns, NEW r \in failing'[d]
          PROVE  /\ sentOn'[r] = d
                 /\ result'[r] = "none"
                 /\ \A i \in Incidents : callbacks'[i].run = r => callbacks'[i].finalized
        <3>1. CASE d = c
            <4>1. PICK k \in LostEntries(c) : r = callbacks[k].run
                BY <2>0, <2>3, <3>1
            <4> QED
                BY <2>0, <2>1, <2>2, <3>1, <4>1
        <3>2. CASE d # c
            <4>1. r \in failing[d]
                BY <2>0, <2>3, <3>2
            <4> QED
                BY <2>0, <2>1, <4>1
        <3> QED
            BY <3>1, <3>2
    <2> QED
        BY <2>3
<1>7. ASSUME NEW c \in Conns, NEW r \in Runs, FireOnError(c, r) PROVE FailingOnce'
    BY <1>7 DEF FireOnError
<1>8. ASSUME NEW c \in Conns, Dispatch(c) PROVE FailingOnce'
    <2>1. UNCHANGED <<failing, sentOn>>
        BY <1>8 DEF Dispatch
    <2>2. CASE UNCHANGED <<callbacks, result>>
        BY <2>1, <2>2
    <2>3. CASE ~UNCHANGED <<callbacks, result>>
        <3> DEFINE s == reader[c].run
                   k == incidentOf[s]
        <3>1. /\ s \in Runs /\ k \in Incidents /\ callbacks[k].run = s /\ ~callbacks[k].finalized
              /\ \A j \in Incidents :
                    /\ callbacks'[j].run = callbacks[j].run
                    /\ j # k => callbacks'[j].finalized = callbacks[j].finalized
                    /\ j = k => callbacks'[j].finalized
              /\ \A r \in Runs : r # s => result'[r] = result[r]
            <4>1. s \in Runs /\ k \in Incidents
                BY <1>8 DEF Dispatch
            <4> QED
                BY <1>8, <2>3, <4>1, DispatchEffect DEF IsCurrentRun
        <3> HIDE DEF s, k
        <3>2. \A d \in Conns : s \notin failing[d]
            BY <3>1
        <3>3. ASSUME NEW d \in Conns, NEW r \in failing[d]
              PROVE  /\ r \in Runs /\ r # s
                     /\ sentOn[r] = d
                     /\ result[r] = "none"
                     /\ \A i \in Incidents : callbacks[i].run = r => callbacks[i].finalized
            BY <3>2, <3>3
        <3> QED
            BY <2>1, <3>1, <3>3
    <2> QED
        BY <2>2, <2>3
<1> HIDE DEF EntriesCoherent, EntriesHaveWaiters, FailingOnce, InPlace, NewRunsAreQuiet, TypeOK
<1> QED
    BY <1>1, <1>2, <1>3, <1>4, <1>5, <1>6, <1>7, <1>8

(* Only a registered run is signalled. *)
LEMMA NewRunsAreQuietStep ==
    ASSUME TypeOK, InPlace, EntriesHaveWaiters, DisplacedIsOut, FailingOnce,
           NewRunsAreQuiet, [Next]_vars
    PROVE  NewRunsAreQuiet'
<1>1. \/ UNCHANGED <<waiter, superseded, result>>
      \/ \E r \in Runs, i \in Incidents : Begin(r, i)
      \/ \E r \in Runs : Register(r) \/ RegisterFails(r) \/ RecordStartFailure(r) \/
                         CreateRunRow(r) \/ LabelPrevious(r) \/ NotifyPrevious(r) \/
                         Wake(r) \/ Release(r) \/ Finalize(r)
      \/ \E c \in Conns, r \in Runs : FireOnError(c, r)
      \/ \E c \in Conns : Dispatch(c)
    BY DEF Next, EnvironmentStep, WaiterStep, ConnStep, vars, registryVars,
       waiterVars, callbackVars, dbVars, Connect, WorkerDrops, ReadOutput,
       ReadFinal, ReaderSeesClose, FailCallbacks, ConnGone, CheckColumn,
       WriteColumn, LeaveReadLoop
<1> USE MaxConnsAssumption, NoRunAssumption, NoIncidentAssumption
    DEF TypeOK, InPlace, EntriesHaveWaiters, DisplacedIsOut, FailingOnce, NewRunsAreQuiet,
        NoEntry, Entry, Registered, Conns, NoConn, registryVars, waiterVars, callbackVars, dbVars
<1>2. CASE UNCHANGED <<waiter, superseded, result>>
    BY <1>2
<1>3. ASSUME NEW r \in Runs, NEW i \in Incidents, Begin(r, i) PROVE NewRunsAreQuiet'
    <2>1. Begun(r, i)
        BY <1>3, BeginFrame
    <2> QED
        BY <1>3, <2>1, BeginEffect DEF Begun
<1>4. ASSUME NEW r \in Runs, Register(r) PROVE NewRunsAreQuiet'
    BY <1>4 DEF Register, SlotAfterWrite
<1>5. ASSUME NEW r \in Runs, RegisterFails(r) PROVE NewRunsAreQuiet'
    BY <1>5 DEF RegisterFails, SlotAfterWrite
<1>6. ASSUME NEW r \in Runs, RecordStartFailure(r) PROVE NewRunsAreQuiet'
    BY <1>6 DEF RecordStartFailure
<1>7. ASSUME NEW r \in Runs, CreateRunRow(r) PROVE NewRunsAreQuiet'
    BY <1>7 DEF CreateRunRow
<1>8. ASSUME NEW r \in Runs, LabelPrevious(r) PROVE NewRunsAreQuiet'
    BY <1>8 DEF LabelPrevious
<1>9. ASSUME NEW r \in Runs, NotifyPrevious(r) PROVE NewRunsAreQuiet'
    BY <1>9 DEF NotifyPrevious, DisplacedBy
<1>10. ASSUME NEW r \in Runs, Wake(r) PROVE NewRunsAreQuiet'
    BY <1>10 DEF Wake, Done
<1>11. ASSUME NEW r \in Runs, Release(r) PROVE NewRunsAreQuiet'
    BY <1>11 DEF Release, OwnsEntry
<1>12. ASSUME NEW r \in Runs, Finalize(r) PROVE NewRunsAreQuiet'
    BY <1>12 DEF Finalize
<1>13. ASSUME NEW c \in Conns, NEW r \in Runs, FireOnError(c, r) PROVE NewRunsAreQuiet'
    BY <1>13 DEF FireOnError
<1>14. ASSUME NEW c \in Conns, Dispatch(c) PROVE NewRunsAreQuiet'
    <2>0. reader[c].at # "read" /\ UNCHANGED <<waiter, superseded>>
        BY <1>14 DEF Dispatch
    <2>1. reader[c].run \in Runs /\ Registered(reader[c].run)
        BY <2>0
    <2>2. \A r \in Runs : r # reader[c].run => result'[r] = result[r]
        <3> HIDE DEF InPlace, EntriesHaveWaiters, DisplacedIsOut, FailingOnce, NewRunsAreQuiet
        <3> QED
            BY <1>14, DispatchEffect
    <2> QED
        BY <2>0, <2>1, <2>2
<1> HIDE DEF DisplacedIsOut, EntriesHaveWaiters, FailingOnce, InPlace, NewRunsAreQuiet, TypeOK
<1> QED
    BY <1>1, <1>2, <1>3, <1>4, <1>5, <1>6, <1>7, <1>8, <1>9, <1>10, <1>11,
       <1>12, <1>13, <1>14

(* A waiter goes on to finalize only with a captured result. *)
LEMMA WokenHasResultStep ==
    ASSUME TypeOK, WokenHasResult, [Next]_vars
    PROVE  WokenHasResult'
<1>1. \/ UNCHANGED <<waiter, result>>
      \/ \E r \in Runs, i \in Incidents : Begin(r, i)
      \/ \E r \in Runs : Register(r) \/ RegisterFails(r) \/ RecordStartFailure(r) \/
                         CreateRunRow(r) \/ LabelPrevious(r) \/ NotifyPrevious(r) \/
                         Wake(r) \/ Release(r) \/ Finalize(r)
      \/ \E c \in Conns, r \in Runs : FireOnError(c, r)
      \/ \E c \in Conns : Dispatch(c)
    BY DEF Next, EnvironmentStep, WaiterStep, ConnStep, vars, registryVars,
       waiterVars, callbackVars, dbVars, Connect, WorkerDrops, ReadOutput,
       ReadFinal, ReaderSeesClose, FailCallbacks, ConnGone, CheckColumn,
       WriteColumn, LeaveReadLoop
<1> USE MaxConnsAssumption, NoRunAssumption, NoIncidentAssumption
    DEF TypeOK, WokenHasResult, FinalKinds, registryVars, waiterVars, callbackVars, dbVars
<1>2. CASE UNCHANGED <<waiter, result>>
    BY <1>2
<1>3. ASSUME NEW r \in Runs, NEW i \in Incidents, Begin(r, i) PROVE WokenHasResult'
    <2>1. Begun(r, i)
        BY <1>3, BeginFrame
    <2> QED
        BY <1>3, <2>1, BeginEffect DEF Begun
<1>4. ASSUME NEW r \in Runs, Register(r) PROVE WokenHasResult'
    BY <1>4 DEF Register, SlotAfterWrite
<1>5. ASSUME NEW r \in Runs, RegisterFails(r) PROVE WokenHasResult'
    BY <1>5 DEF RegisterFails, SlotAfterWrite
<1>6. ASSUME NEW r \in Runs, RecordStartFailure(r) PROVE WokenHasResult'
    BY <1>6 DEF RecordStartFailure
<1>7. ASSUME NEW r \in Runs, CreateRunRow(r) PROVE WokenHasResult'
    BY <1>7 DEF CreateRunRow
<1>8. ASSUME NEW r \in Runs, LabelPrevious(r) PROVE WokenHasResult'
    BY <1>8 DEF LabelPrevious
<1>9. ASSUME NEW r \in Runs, NotifyPrevious(r) PROVE WokenHasResult'
    BY <1>9 DEF NotifyPrevious, DisplacedBy
<1>10. ASSUME NEW r \in Runs, Wake(r) PROVE WokenHasResult'
    BY <1>10 DEF Wake, Done
<1>11. ASSUME NEW r \in Runs, Release(r) PROVE WokenHasResult'
    BY <1>11 DEF Release, OwnsEntry
<1>12. ASSUME NEW r \in Runs, Finalize(r) PROVE WokenHasResult'
    BY <1>12 DEF Finalize
<1>13. ASSUME NEW c \in Conns, NEW r \in Runs, FireOnError(c, r) PROVE WokenHasResult'
    BY <1>13 DEF FireOnError
<1>14. ASSUME NEW c \in Conns, Dispatch(c) PROVE WokenHasResult'
    BY <1>14, DispatchEffect DEF Dispatch, IsCurrentRun
<1> HIDE DEF TypeOK, WokenHasResult
<1> QED
    BY <1>1, <1>2, <1>3, <1>4, <1>5, <1>6, <1>7, <1>8, <1>9, <1>10, <1>11,
       <1>12, <1>13, <1>14

(* A completion is captured only from the run's own frame. *)
LEMMA CompletionIsOwnStep ==
    ASSUME TypeOK, InPlace, CompletionIsOwn, [Next]_vars
    PROVE  CompletionIsOwn'
<1>1. \/ UNCHANGED <<result, reportedOn>>
      \/ \E c \in Conns, r \in Runs, kind \in FinalKinds : ReadFinal(c, r, kind)
      \/ \E c \in Conns, r \in Runs : FireOnError(c, r)
      \/ \E c \in Conns : Dispatch(c)
    BY DEF Next, EnvironmentStep, WaiterStep, ConnStep, vars, registryVars,
       waiterVars, callbackVars, dbVars, Begin, Connect, WorkerDrops,
       ReadOutput, Register, RegisterFails, RecordStartFailure, CreateRunRow,
       LabelPrevious, NotifyPrevious, Wake, Release, Finalize, ReaderSeesClose,
       FailCallbacks, ConnGone, CheckColumn, WriteColumn, LeaveReadLoop
<1> USE MaxConnsAssumption, NoRunAssumption, NoIncidentAssumption
    DEF TypeOK, InPlace, CompletionIsOwn, FinalKinds, Conns, NoConn, registryVars, waiterVars, callbackVars, dbVars
<1>2. CASE UNCHANGED <<result, reportedOn>>
    BY <1>2
<1>3. ASSUME NEW c \in Conns, NEW r \in Runs, NEW kind \in FinalKinds, ReadFinal(c, r, kind)
      PROVE  CompletionIsOwn'
    BY <1>3 DEF ReadFinal, CanCarry
<1>4. ASSUME NEW c \in Conns, NEW r \in Runs, FireOnError(c, r) PROVE CompletionIsOwn'
    BY <1>4 DEF FireOnError
<1>5. ASSUME NEW c \in Conns, Dispatch(c) PROVE CompletionIsOwn'
    <2>1. /\ reader[c].at # "read" /\ reader[c].run \in Runs
          /\ reportedOn[reader[c].run] # NoConn
          /\ UNCHANGED reportedOn
        BY <1>5 DEF Dispatch
    <2>2. \A r \in Runs : r # reader[c].run => result'[r] = result[r]
        BY <1>5, DispatchEffect
    <2> QED
        BY <2>1, <2>2
<1> HIDE DEF CompletionIsOwn, InPlace, TypeOK
<1> QED
    BY <1>1, <1>2, <1>3, <1>4, <1>5

(* A log is written only from the run's own frames. *)
LEMMA LogIsOwnStep ==
    ASSUME TypeOK, InPlace, WokenHasResult, LogIsOwn, [Next]_vars
    PROVE  LogIsOwn'
<1>1. \/ UNCHANGED <<row>>
      \/ \E r \in Runs, i \in Incidents : Begin(r, i)
      \/ \E c \in Conns, r \in Runs : ReadOutput(c, r)
      \/ \E r \in Runs : RecordStartFailure(r) \/ Finalize(r)
    BY DEF Next, EnvironmentStep, WaiterStep, ConnStep, vars, registryVars,
       waiterVars, callbackVars, dbVars, Connect, WorkerDrops, ReadFinal,
       Register, RegisterFails, CreateRunRow, LabelPrevious, NotifyPrevious,
       Wake, Release, ReaderSeesClose, FailCallbacks, FireOnError, ConnGone,
       CheckColumn, WriteColumn, Dispatch, LeaveReadLoop
<1> USE MaxConnsAssumption, NoRunAssumption, NoIncidentAssumption
    DEF TypeOK, InPlace, LogIsOwn, registryVars, waiterVars, callbackVars, dbVars
<1>2. CASE UNCHANGED <<row>>
    BY <1>2
<1>3. ASSUME NEW r \in Runs, NEW i \in Incidents, Begin(r, i) PROVE LogIsOwn'
    <2>1. Begun(r, i)
        BY <1>3, BeginFrame
    <2> QED
        BY <1>3, <2>1, BeginEffect DEF Begun
<1>4. ASSUME NEW c \in Conns, NEW r \in Runs, ReadOutput(c, r) PROVE LogIsOwn'
    BY <1>4, OutputEffect
<1>5. ASSUME NEW r \in Runs, RecordStartFailure(r) PROVE LogIsOwn'
    BY <1>5, FinalEffect
<1>6. ASSUME NEW r \in Runs, Finalize(r) PROVE LogIsOwn'
    BY <1>6, FinalEffect
<1> HIDE DEF InPlace, LogIsOwn, TypeOK
<1> QED
    BY <1>1, <1>2, <1>3, <1>4, <1>5, <1>6

-----------------------------------------------------------------------------
(* The invariant is inductive *)

\* The initial states satisfy the inductive invariant.
LEMMA InitEstablishes == Init => IndInv
<1> SUFFICES ASSUME Init PROVE IndInv
    OBVIOUS
<1> USE MaxConnsAssumption, NoRunAssumption, NoIncidentAssumption, ColumnsAssumption
    DEF Init, NoEntry, AtRead, Conns, NoConn
<1>1. TypeOK
    BY DEF TypeOK, Entry, ConnStates, ReaderStates, WaiterStates, RowStates, FinalKinds
<1>2. InPlace /\ SlotIsOpen /\ WokenHasResult /\ NewRunsAreQuiet
    BY DEF InPlace, SlotIsOpen, WokenHasResult, NewRunsAreQuiet, Registered
<1>3. EntriesHaveWaiters /\ EntriesCoherent /\ UndisplacedRunsKeepEntry
    BY DEF EntriesHaveWaiters, EntriesCoherent, UndisplacedRunsKeepEntry
<1>4. DisplacedIsOut /\ FailingOnce
    BY DEF DisplacedIsOut, FailingOnce
<1>5. CompletionIsOwn /\ LogIsOwn
    BY DEF CompletionIsOwn, LogIsOwn
<1> QED
    BY <1>1, <1>2, <1>3, <1>4, <1>5 DEF IndInv

\* Every step keeps the inductive invariant.
LEMMA StepPreserves == IndInv /\ [Next]_vars => IndInv'
<1> SUFFICES ASSUME IndInv, [Next]_vars PROVE IndInv'
    OBVIOUS
<1>1. /\ TypeOK /\ InPlace /\ SlotIsOpen /\ EntriesHaveWaiters /\ EntriesCoherent
      /\ DisplacedIsOut /\ UndisplacedRunsKeepEntry /\ FailingOnce /\ WokenHasResult
      /\ NewRunsAreQuiet /\ CompletionIsOwn /\ LogIsOwn
    BY DEF IndInv
<1>2. /\ TypeOK' /\ InPlace' /\ SlotIsOpen' /\ EntriesHaveWaiters' /\ EntriesCoherent'
      /\ DisplacedIsOut' /\ UndisplacedRunsKeepEntry' /\ FailingOnce' /\ WokenHasResult'
      /\ NewRunsAreQuiet' /\ CompletionIsOwn' /\ LogIsOwn'
    BY <1>1, TypeStep, InPlaceStep, SlotIsOpenStep, EntriesHaveWaitersStep,
       EntriesCoherentStep, DisplacedIsOutStep, UndisplacedRunsKeepEntryStep,
       FailingOnceStep, WokenHasResultStep, NewRunsAreQuietStep, CompletionIsOwnStep,
       LogIsOwnStep
<1> QED
    BY <1>2 DEF IndInv

(* IndInv holds in every reachable state of the registry and its waiters.  *)
THEOREM Invariance == Spec => []IndInv
BY InitEstablishes, StepPreserves, PTL DEF Spec

-----------------------------------------------------------------------------
(* Safety *)

(* Every variable of the transport and its waiters stays in its set.       *)
THEOREM TypeCorrect == Spec => []TypeOK
<1>1. IndInv => TypeOK
    BY DEF IndInv
<1> QED
    BY <1>1, Invariance, PTL

(* ReleaseRun never returns true to a run whose entry a later              *)
(* sendIncidentMessage displaced.                                          *)
THEOREM DisplacedRunsExit == Spec => []DisplacedNeverClaims
<1>1. IndInv => DisplacedNeverClaims
    BY NoRunAssumption DEF IndInv, DisplacedIsOut, DisplacedNeverClaims
<1> QED
    BY <1>1, Invariance, PTL

(* h.callbacks holds no entry that no goroutine is left to release, and    *)
(* only a registration for the same incident takes a run's entry away.     *)
THEOREM EntriesAreKept == Spec => []EntriesMatchWaiters
<1>1. IndInv => EntriesMatchWaiters
    BY DEF IndInv, EntriesMatchWaiters
<1> QED
    BY <1>1, Invariance, PTL

(* A connection's teardown leaves no live entry of its own behind.         *)
THEOREM TeardownIsComplete == Spec => []NoStrandedEntry
<1>1. IndInv => NoStrandedEntry
    BY DEF IndInv, EntriesCoherent, NoStrandedEntry
<1> QED
    BY <1>1, Invariance, PTL

(* Frames of another run neither complete a waiter nor enter its log.      *)
THEOREM FramesStayWithTheirRun == Spec => []FramesAreOwn
<1>1. IndInv => FramesAreOwn
    BY DEF IndInv, FramesAreOwn
<1> QED
    BY <1>1, Invariance, PTL

(* A woken waiter finalizes the result it woke up to: Dispatch and         *)
(* FireOnError reach only runs whose result is still open.                 *)
THEOREM WokenResultsAreStable == Spec => WokenResultStable
<1>1. ASSUME IndInv, [Next]_vars, NEW r \in Runs, waiter[r] \in {"formatting", "claimed"}
      PROVE  result'[r] = result[r]
    <2>1. result[r] # "none"
        BY <1>1 DEF IndInv, WokenHasResult
    <2>2. ASSUME NEW c \in Conns, Dispatch(c) PROVE result'[r] = result[r]
        <3>1. TypeOK /\ result \in [Runs -> {"none"} \cup FinalKinds]
            BY <1>1 DEF IndInv, TypeOK
        <3>2. CASE IsCurrentRun(incidentOf[reader[c].run], reader[c].run)
            <4> DEFINE s == reader[c].run
            <4>1. reader[c].at # "read"
                BY <2>2 DEF Dispatch
            <4>2. s \in Runs /\ incidentOf[s] \in Incidents
                BY <1>1, <4>1 DEF IndInv, InPlace, Registered
            <4>3. result[s] = "none"
                BY <1>1, <3>2, <4>2, NoRunAssumption DEF IndInv, EntriesCoherent, IsCurrentRun
            <4>4. \A q \in Runs : q # s => result'[q] = result[q]
                BY <2>2, <3>1, DispatchEffect
            <4> QED
                BY <2>1, <4>3, <4>4
        <3>3. CASE ~IsCurrentRun(incidentOf[reader[c].run], reader[c].run)
            BY <2>2, <3>1, <3>3, DispatchEffect
        <3> QED
            BY <3>2, <3>3
    <2>3. ASSUME NEW c \in Conns, NEW s \in Runs, FireOnError(c, s)
          PROVE  result'[r] = result[r]
        <3>1. result[s] = "none"
            BY <1>1, <2>3 DEF IndInv, FailingOnce, FireOnError
        <3> QED
            BY <1>1, <2>1, <2>3, <3>1 DEF IndInv, TypeOK, FireOnError
    <2>4. \/ result' = result
          \/ \E c \in Conns : Dispatch(c) \/ \E s \in Runs : FireOnError(c, s)
        BY <1>1 DEF Next, EnvironmentStep, WaiterStep, ConnStep, vars, registryVars,
           waiterVars, callbackVars, dbVars, Begin, Connect, WorkerDrops, LeaveReadLoop,
           ReadOutput, ReadFinal, Register, RegisterFails, RecordStartFailure,
           CreateRunRow, LabelPrevious, NotifyPrevious, Wake, Release, Finalize,
           ReaderSeesClose, FailCallbacks, ConnGone, CheckColumn, WriteColumn
    <2> QED
        BY <2>2, <2>3, <2>4
<1>2. IndInv /\ [Next]_vars
        => [\A r \in Runs : waiter[r] \in {"formatting", "claimed"} => result'[r] = result[r]]_vars
    BY <1>1
<1> QED
    BY <1>2, Invariance, PTL DEF Spec, WokenResultStable

(* handleAgentOutput reaches a row only through a live entry, whose waiter *)
(* has not been signalled.                                                 *)
THEOREM StreamsEndAtTheSignal == Spec => NoStreamAfterWake
<1> DEFINE Rewritten(i) == /\ <<row'[i].logBy, row'[i].logFinal>> # <<row[i].logBy, row[i].logFinal>>
                           /\ ~row'[i].logFinal
<1>1. ASSUME IndInv, [Next]_vars, NEW i \in Incidents, Rewritten(i)
      PROVE  ~Done(row'[i].logBy)
    <2>1. TypeOK /\ row \in [Incidents -> RowStates]
        BY <1>1 DEF IndInv, TypeOK
    <2>2. ASSUME NEW c \in Conns, NEW r \in Runs, ReadOutput(c, r)
          PROVE  ~Done(row'[i].logBy)
        <3>1. incidentOf[r] \in Incidents
            BY <1>1, <2>2 DEF IndInv, InPlace, Registered, ReadOutput, CanCarry
        <3>2. i = incidentOf[r] /\ row'[i].logBy = callbacks[i].run
            BY <1>1, <2>1, <2>2, <3>1, OutputEffect DEF IndInv
        <3>3. callbacks[i].run = r /\ ~callbacks[i].finalized
            BY <2>2, <3>2 DEF ReadOutput, IsCurrentRun
        <3>4. result[r] = "none" /\ ~superseded[r]
            BY <1>1, <3>3, NoRunAssumption DEF IndInv, EntriesCoherent
        <3> QED
            BY <3>2, <3>3, <3>4 DEF Done
    <2>3. ASSUME NEW r \in Runs, NEW j \in Incidents, Begin(r, j)
          PROVE  FALSE
        BY <1>1, <2>1, <2>3, BeginEffect
    <2>4. ASSUME NEW r \in Runs, RecordStartFailure(r) \/ Finalize(r)
          PROVE  FALSE
        BY <1>1, <2>1, <2>4, FinalEffect DEF IndInv
    <2>5. \/ row' = row
          \/ \E r \in Runs : \/ RecordStartFailure(r) \/ Finalize(r)
                             \/ \E j \in Incidents : Begin(r, j)
                             \/ \E c \in Conns : ReadOutput(c, r)
        BY <1>1 DEF Next, EnvironmentStep, WaiterStep, ConnStep, vars, registryVars,
           waiterVars, callbackVars, dbVars, Connect, WorkerDrops, LeaveReadLoop,
           ReadFinal, Register, RegisterFails, CreateRunRow, LabelPrevious,
           NotifyPrevious, Wake, Release, ReaderSeesClose, FailCallbacks, FireOnError,
           ConnGone, CheckColumn, WriteColumn, Dispatch
    <2> QED
        BY <1>1, <2>2, <2>3, <2>4, <2>5
<1>2. IndInv /\ [Next]_vars => [\A i \in Incidents : Rewritten(i) => ~Done(row'[i].logBy)]_vars
    BY <1>1
<1> QED
    BY <1>2, Invariance, PTL DEF Spec, NoStreamAfterWake

-----------------------------------------------------------------------------
(* Telemetry rows and verdicts *)

(* Nothing writes the telemetry row of a run before CreateRunRow. *)
RunRowFresh ==
    \A r \in Runs : waiter[r] \in {"idle", "starting", "recording", "failing", "aborted"}
        => runRow[r] = "absent"

(* The steps that write a telemetry row. *)
LEMMA RunRowSteps ==
    ASSUME [Next]_vars
    PROVE  \/ UNCHANGED runRow
           \/ \E r \in Runs : CreateRunRow(r) \/ LabelPrevious(r)
           \/ \E c \in Conns, r \in Runs, kind \in FinalKinds : ReadFinal(c, r, kind)
BY DEF Next, EnvironmentStep, WaiterStep, ConnStep, vars, registryVars,
   waiterVars, callbackVars, dbVars, Begin, Connect, WorkerDrops, LeaveReadLoop,
   ReadOutput, Register, RegisterFails, RecordStartFailure, NotifyPrevious, Wake,
   Release, Finalize, ReaderSeesClose, FailCallbacks, FireOnError, ConnGone,
   CheckColumn, WriteColumn, Dispatch

(* The steps that move a waiter. *)
LEMMA WaiterSteps ==
    ASSUME [Next]_vars
    PROVE  \/ UNCHANGED waiter
           \/ \E s \in Runs :
                 \/ Register(s) \/ RegisterFails(s) \/ RecordStartFailure(s)
                 \/ CreateRunRow(s) \/ LabelPrevious(s) \/ NotifyPrevious(s)
                 \/ Wake(s) \/ Release(s) \/ Finalize(s)
                 \/ \E i \in Incidents : Begin(s, i)
BY DEF Next, EnvironmentStep, WaiterStep, ConnStep, vars, registryVars,
   waiterVars, callbackVars, dbVars, Connect, WorkerDrops, LeaveReadLoop,
   ReadOutput, ReadFinal, ReaderSeesClose, FailCallbacks, FireOnError, ConnGone,
   CheckColumn, WriteColumn, Dispatch

(* No waiter goes back to where its row does not exist yet. *)
LEMMA EarlyWaiters ==
    ASSUME TypeOK, [Next]_vars, NEW r \in Runs,
           waiter'[r] \in {"idle", "starting", "recording", "failing", "aborted"}
    PROVE  waiter[r] \in {"idle", "starting", "recording", "failing", "aborted"}
<1> DEFINE Early == {"idle", "starting", "recording", "failing", "aborted"}
<1>1. \/ UNCHANGED waiter
      \/ \E s \in Runs :
            \/ Register(s) \/ RegisterFails(s) \/ RecordStartFailure(s)
            \/ CreateRunRow(s) \/ LabelPrevious(s) \/ NotifyPrevious(s)
            \/ Wake(s) \/ Release(s) \/ Finalize(s)
            \/ \E i \in Incidents : Begin(s, i)
    BY WaiterSteps
<1>2. ASSUME NEW s \in Runs, \/ Register(s) \/ RegisterFails(s) \/ RecordStartFailure(s)
                              \/ \E i \in Incidents : Begin(s, i)
      PROVE  /\ waiter[s] \in Early
             /\ s # r => waiter'[r] = waiter[r]
    BY <1>2 DEF TypeOK, Register, RegisterFails, RecordStartFailure, Begin
<1>3. ASSUME NEW s \in Runs, \/ CreateRunRow(s) \/ LabelPrevious(s) \/ NotifyPrevious(s)
                              \/ Wake(s) \/ Release(s) \/ Finalize(s)
      PROVE  /\ waiter'[s] \notin Early
             /\ s # r => waiter'[r] = waiter[r]
    BY <1>3 DEF TypeOK, CreateRunRow, LabelPrevious, NotifyPrevious, Wake, Release, Finalize
<1> QED
    BY <1>1, <1>2, <1>3

(* A registered run stays registered. *)
LEMMA RegisteredStays ==
    ASSUME TypeOK, [Next]_vars, NEW r \in Runs, Registered(r)
    PROVE  Registered(r)'
<1>1. ASSUME NEW s \in Runs, NEW to, waiter' = [waiter EXCEPT ![s] = to],
             s = r => to \in {"labelling", "notifying", "waiting", "formatting",
                              "claimed", "finished", "exited"}
      PROVE  Registered(r)'
    BY <1>1 DEF TypeOK, Registered
<1>2. ASSUME NEW s \in Runs, \/ Register(s) \/ RegisterFails(s) \/ RecordStartFailure(s)
                              \/ \E i \in Incidents : Begin(s, i)
      PROVE  Registered(r)'
    BY <1>1, <1>2 DEF Registered, Register, RegisterFails, RecordStartFailure, Begin
<1>3. ASSUME NEW s \in Runs, CreateRunRow(s) \/ LabelPrevious(s) \/ NotifyPrevious(s)
      PROVE  Registered(r)'
    BY <1>1, <1>3 DEF CreateRunRow, LabelPrevious, NotifyPrevious
<1>4. ASSUME NEW s \in Runs, Wake(s) \/ Release(s) \/ Finalize(s)
      PROVE  Registered(r)'
    BY <1>1, <1>4 DEF Wake, Release, Finalize
<1> QED
    BY <1>2, <1>3, <1>4, WaiterSteps DEF Registered

\* No step creates the telemetry row of a run that has yet to register.
LEMMA RunRowFreshStep ==
    ASSUME TypeOK, RunRowFresh, [Next]_vars
    PROVE  RunRowFresh'
<1> SUFFICES ASSUME NEW r \in Runs,
                    waiter'[r] \in {"idle", "starting", "recording", "failing", "aborted"}
             PROVE  runRow'[r] = "absent"
    BY DEF RunRowFresh
<1>1. runRow[r] = "absent"
    BY EarlyWaiters DEF RunRowFresh
<1>2. ASSUME NEW s \in Runs, CreateRunRow(s) PROVE runRow'[r] = "absent"
    BY <1>1, <1>2 DEF CreateRunRow, TypeOK
<1>3. ASSUME NEW s \in Runs, LabelPrevious(s) PROVE runRow'[r] = "absent"
    BY <1>1, <1>3 DEF LabelPrevious, TypeOK
<1>4. ASSUME NEW c \in Conns, NEW s \in Runs, NEW kind \in FinalKinds, ReadFinal(c, s, kind)
      PROVE  runRow'[r] = "absent"
    BY <1>1, <1>4 DEF ReadFinal, FinalizedRow, TypeOK
<1> QED
    BY <1>1, <1>2, <1>3, <1>4, RunRowSteps

(* The CASE of finalizeAgentRun and the WHERE of SupersedeAgentRun test    *)
(* for running, and CreateAgentRun finds no row.                           *)
THEOREM RunRowsSettle == Spec => RunRowSettlesOnce
<1>1. Init => RunRowFresh
    BY DEF Init, RunRowFresh
<1>2. IndInv /\ RunRowFresh /\ [Next]_vars => RunRowFresh'
    BY RunRowFreshStep DEF IndInv
<1>3. ASSUME IndInv, RunRowFresh, [Next]_vars, NEW r \in Runs,
             runRow[r] \in {"superseded"} \cup FinalKinds
      PROVE  runRow'[r] = runRow[r]
    <2>1. TypeOK
        BY <1>3 DEF IndInv
    <2>2. runRow[r] # "absent" /\ runRow[r] # "running"
        BY <1>3 DEF FinalKinds
    <2>3. ASSUME NEW s \in Runs, CreateRunRow(s) PROVE runRow'[r] = runRow[r]
        BY <1>3, <2>1, <2>2, <2>3 DEF CreateRunRow, TypeOK, RunRowFresh
    <2>4. ASSUME NEW s \in Runs, LabelPrevious(s) PROVE runRow'[r] = runRow[r]
        BY <2>1, <2>2, <2>4 DEF LabelPrevious, TypeOK
    <2>5. ASSUME NEW c \in Conns, NEW s \in Runs, NEW kind \in FinalKinds, ReadFinal(c, s, kind)
          PROVE  runRow'[r] = runRow[r]
        BY <2>1, <2>2, <2>5 DEF ReadFinal, FinalizedRow, TypeOK
    <2> QED
        BY <1>3, <2>3, <2>4, <2>5, RunRowSteps
<1>4. IndInv /\ RunRowFresh /\ [Next]_vars
        => [\A r \in Runs : runRow[r] \in {"superseded"} \cup FinalKinds
                => runRow'[r] = runRow[r]]_vars
    BY <1>3
<1> QED
    BY <1>1, <1>2, <1>4, Invariance, PTL DEF Spec, RunRowSettlesOnce

(* A run that will write the incident's final status: nobody displaced it  *)
(* and it has yet to release or to record that it could not start.         *)
Settler(r, i) ==
    /\ incidentOf[r] = i
    /\ ~Terminated(r)
    /\ \A s \in Runs : previous[s].run # r

(* Only the run a registration displaced is superseded, and while an       *)
(* incident is running somebody is left to settle it, or the last attempt  *)
(* to write it has failed.                                                 *)
SettledInTheEnd ==
    /\ \A r \in Runs : superseded[r] => \E s \in Runs : previous[s].run = r
    /\ \A i \in Incidents : row[i].status = "running" =>
          row[i].unwritten \/ \E r \in Runs : Settler(r, i)

(* What is not a waiter's step leaves the waiters, who displaced whom and  *)
(* every incident's status and failed writes alone.                        *)
LEMMA SettlingSteps ==
    ASSUME TypeOK, InPlace, [Next]_vars
    PROVE  \/ /\ UNCHANGED <<waiter, incidentOf, previous, superseded>>
              /\ \A i \in Incidents : /\ row'[i].status = row[i].status
                                      /\ row'[i].unwritten = row[i].unwritten
           \/ \E s \in Runs : WaiterStep(s) \/ \E i \in Incidents : Begin(s, i)
<1> DEFINE Kept == /\ UNCHANGED <<waiter, incidentOf, previous, superseded>>
                   /\ \A i \in Incidents : /\ row'[i].status = row[i].status
                                           /\ row'[i].unwritten = row[i].unwritten
<1>1. ASSUME NEW c \in Conns, NEW r \in Runs, ReadOutput(c, r) PROVE Kept
    <2>1. UNCHANGED <<waiter, incidentOf, previous, superseded>>
        BY <1>1 DEF ReadOutput, waiterVars, callbackVars
    <2> QED
        BY <1>1, <2>1, OutputEffect
<1>2. ASSUME NEW c \in Conns, ConnStep(c) PROVE Kept
    <2>1. UNCHANGED <<waiterVars, superseded, row>>
        BY <1>2 DEF ConnStep, registryVars, waiterVars, callbackVars, dbVars, LeaveReadLoop,
            ReaderSeesClose, FailCallbacks, FireOnError, ConnGone, CheckColumn, WriteColumn, Dispatch
    <2> QED
        BY <2>1 DEF waiterVars
<1>3. ASSUME NEW c \in Conns, \/ Connect(c) \/ WorkerDrops(c)
                              \/ \E r \in Runs, kind \in FinalKinds : ReadFinal(c, r, kind)
      PROVE  Kept
    BY <1>3 DEF Connect, WorkerDrops, LeaveReadLoop, ReadFinal, registryVars, waiterVars,
        callbackVars, dbVars
<1>4. ASSUME UNCHANGED vars PROVE Kept
    BY <1>4 DEF vars, waiterVars, callbackVars, dbVars
<1> HIDE DEF Kept
<1>5. Kept \/ \E s \in Runs : WaiterStep(s) \/ \E i \in Incidents : Begin(s, i)
    <2>1. CASE EnvironmentStep
        BY <1>1, <1>3, <2>1 DEF EnvironmentStep
    <2>2. CASE \E c \in Conns : ConnStep(c)
        BY <1>2, <2>2
    <2> QED
        BY <1>4, <2>1, <2>2 DEF Next
<1> QED
    BY <1>5 DEF Kept

(* A run that has not registered has displaced nobody and was displaced by *)
(* nobody.                                                                 *)
LEMMA UnregisteredIsUndisplaced ==
    ASSUME IndInv, NEW r \in Runs, ~Registered(r)
    PROVE  /\ \A s \in Runs : previous[s].run # r
           /\ \A i \in Incidents : callbacks[i].run # r
BY NoRunAssumption DEF IndInv, DisplacedIsOut, EntriesHaveWaiters, Registered

(* Whichever waiter moves, a running incident keeps somebody to settle it: *)
(* a registration takes that over from the run it displaces, and only a    *)
(* displaced run ends without a final write.                               *)
LEMMA SettledStep ==
    ASSUME IndInv, SettledInTheEnd, [Next]_vars
    PROVE  SettledInTheEnd'
<1>0. /\ TypeOK
      /\ waiter \in [Runs -> WaiterStates]
      /\ incidentOf \in [Runs -> Incidents \cup {NoIncident}]
      /\ previous \in [Runs -> Entry]
      /\ superseded \in [Runs -> BOOLEAN]
      /\ row \in [Incidents -> RowStates]
    BY DEF IndInv, TypeOK
<1>1. CASE /\ UNCHANGED <<waiter, incidentOf, previous, superseded>>
           /\ \A i \in Incidents : /\ row'[i].status = row[i].status
                                   /\ row'[i].unwritten = row[i].unwritten
    BY <1>1 DEF SettledInTheEnd, Settler, Terminated
<1>2. ASSUME NEW s \in Runs, NEW to, waiter' = [waiter EXCEPT ![s] = to],
             UNCHANGED <<incidentOf, previous, superseded, row>>,
             \/ to \notin {"idle", "finished", "exited", "aborted"}
             \/ \E q \in Runs : previous[q].run = s
      PROVE  SettledInTheEnd'
    <2>1. ASSUME NEW i \in Incidents, NEW r \in Runs, Settler(r, i) PROVE Settler(r, i)'
        BY <1>0, <1>2, <2>1 DEF Settler, Terminated
    <2> QED
        BY <1>2, <2>1 DEF SettledInTheEnd
<1>3. ASSUME NEW s \in Runs, incidentOf[s] \in Incidents, NEW entry,
             entry.status # "running" \/ entry.unwritten, row' = [row EXCEPT ![incidentOf[s]] = entry],
             NEW to, waiter' = [waiter EXCEPT ![s] = to],
             UNCHANGED <<incidentOf, previous, superseded>>
      PROVE  SettledInTheEnd'
    <2>1. ASSUME NEW i \in Incidents, i # incidentOf[s], NEW r \in Runs, Settler(r, i)
          PROVE  Settler(r, i)'
        BY <1>0, <1>3, <2>1 DEF Settler, Terminated
    <2>2. ASSUME NEW i \in Incidents, row'[i].status = "running", ~row'[i].unwritten
          PROVE  i # incidentOf[s] /\ row[i].status = "running" /\ ~row[i].unwritten
        BY <1>0, <1>3, <2>2
    <2> QED
        BY <1>3, <2>1, <2>2 DEF SettledInTheEnd
<1>4. ASSUME NEW s \in Runs, NEW j \in Incidents, Begin(s, j) PROVE SettledInTheEnd'
    <2>1. /\ waiter' = [waiter EXCEPT ![s] = "starting"] /\ waiter[s] = "idle"
          /\ incidentOf' = [incidentOf EXCEPT ![s] = j]
          /\ UNCHANGED <<previous, superseded>>
          /\ \A i \in Incidents : i # j => row'[i] = row[i]
        BY <1>0, <1>4, BeginEffect, BeginFrame DEF Begun, callbackVars
    <2>2. Settler(s, j)'
        BY <1>0, <2>1, UnregisteredIsUndisplaced DEF Settler, Terminated, Registered
    <2>3. ASSUME NEW i \in Incidents, NEW r \in Runs, Settler(r, i) PROVE Settler(r, i)'
        <3>1. r # s
            BY <2>1, <2>3 DEF Settler, Terminated
        <3> QED
            BY <1>0, <2>1, <2>3, <3>1 DEF Settler, Terminated
    <2> QED
        BY <2>1, <2>2, <2>3 DEF SettledInTheEnd
<1>5. ASSUME NEW s \in Runs, Register(s) PROVE SettledInTheEnd'
    <2> DEFINE i0 == incidentOf[s]
    <2>1. /\ waiter' = [waiter EXCEPT ![s] = "recording"] /\ waiter[s] = "starting"
          /\ previous' = [previous EXCEPT ![s] = callbacks[i0]]
          /\ UNCHANGED <<incidentOf, superseded, row>>
        BY <1>5 DEF Register, callbackVars, dbVars
    <2>2. ~Registered(s) /\ i0 \in Incidents /\ previous[s].run = NoRun
        BY <2>1 DEF IndInv, InPlace, DisplacedIsOut, Registered
    <2>3. Settler(s, i0)'
        BY <1>0, <2>1, <2>2, UnregisteredIsUndisplaced DEF Settler, Terminated
    <2>4. ASSUME NEW i \in Incidents, i # i0, NEW r \in Runs, Settler(r, i) PROVE Settler(r, i)'
        <3>1. r # s /\ callbacks[i0].run # r
            BY <2>2, <2>4, NoRunAssumption DEF IndInv, EntriesHaveWaiters, Settler
        <3> QED
            BY <1>0, <2>1, <2>4, <3>1 DEF Settler, Terminated
    <2>5. ASSUME NEW r \in Runs, superseded[r] PROVE \E q \in Runs : previous'[q].run = r
        <3>1. PICK q \in Runs : previous[q].run = r
            BY <2>5 DEF SettledInTheEnd
        <3>2. q # s
            BY <2>2, <3>1, NoRunAssumption
        <3> QED
            BY <1>0, <2>1, <3>1, <3>2
    <2> QED
        BY <2>1, <2>2, <2>3, <2>4, <2>5 DEF SettledInTheEnd
<1>6. ASSUME NEW s \in Runs, NotifyPrevious(s) PROVE SettledInTheEnd'
    <2>1. /\ waiter' = [waiter EXCEPT ![s] = "waiting"]
          /\ superseded' = [r \in Runs |-> r \in DisplacedBy(s) \/ superseded[r]]
          /\ UNCHANGED <<incidentOf, previous, row>>
        BY <1>6 DEF NotifyPrevious, waiterVars, dbVars
    <2>2. ASSUME NEW r \in Runs, superseded'[r] PROVE \E q \in Runs : previous'[q].run = r
        BY <2>1, <2>2 DEF SettledInTheEnd, DisplacedBy
    <2>3. ASSUME NEW i \in Incidents, NEW r \in Runs, Settler(r, i) PROVE Settler(r, i)'
        BY <1>0, <2>1, <2>3 DEF Settler, Terminated
    <2> QED
        BY <2>1, <2>2, <2>3 DEF SettledInTheEnd
<1>7. ASSUME NEW s \in Runs, RegisterFails(s) \/ CreateRunRow(s) \/ LabelPrevious(s)
      PROVE  SettledInTheEnd'
    <2>1. PICK to \in {"failing", "labelling", "notifying"} :
             /\ waiter' = [waiter EXCEPT ![s] = to]
             /\ UNCHANGED <<incidentOf, previous, superseded, row>>
        BY <1>7 DEF RegisterFails, CreateRunRow, LabelPrevious, callbackVars, dbVars
    <2> QED
        BY <1>2, <2>1
<1>8. ASSUME NEW s \in Runs, Wake(s) PROVE SettledInTheEnd'
    <2>1. UNCHANGED <<incidentOf, previous, superseded, row>>
        BY <1>8 DEF Wake, callbackVars, dbVars
    <2>2. CASE superseded[s]
        BY <1>2, <1>8, <2>1, <2>2 DEF Wake, SettledInTheEnd
    <2>3. CASE ~superseded[s]
        BY <1>2, <1>8, <2>1, <2>3 DEF Wake
    <2> QED
        BY <2>2, <2>3
<1>9. ASSUME NEW s \in Runs, Release(s) PROVE SettledInTheEnd'
    <2>1. UNCHANGED <<incidentOf, previous, superseded, row>> /\ waiter[s] = "formatting"
        BY <1>9 DEF Release, callbackVars, dbVars
    <2>2. CASE OwnsEntry(s)
        BY <1>2, <1>9, <2>1, <2>2 DEF Release
    <2>3. CASE ~OwnsEntry(s)
        <3>1. \E q \in Runs : previous[q].run = s
            BY <2>1, <2>3 DEF IndInv, UndisplacedRunsKeepEntry, OwnsEntry
        <3> QED
            BY <1>2, <1>9, <2>1, <2>3, <3>1 DEF Release
    <2> QED
        BY <2>2, <2>3
<1>10. ASSUME NEW s \in Runs, RecordStartFailure(s) \/ Finalize(s) PROVE SettledInTheEnd'
    <2>1. PICK entry \in RowStates :
             /\ incidentOf[s] \in Incidents
             /\ row' = [row EXCEPT ![incidentOf[s]] = entry]
             /\ entry.status # "running" \/ entry.unwritten
        BY <1>10, FinalEffect DEF IndInv
    <2>2. PICK to \in {"aborted", "finished"} :
             /\ waiter' = [waiter EXCEPT ![s] = to]
             /\ UNCHANGED <<incidentOf, previous, superseded>>
        BY <1>10 DEF RecordStartFailure, Finalize, callbackVars
    <2> QED
        BY <1>3, <2>1, <2>2
<1> QED
    BY <1>0, <1>1, <1>4, <1>5, <1>6, <1>7, <1>8, <1>9, <1>10, SettlingSteps
       DEF WaiterStep, IndInv

(* Every waiter that exits silently leaves the incident to a run that      *)
(* settles it: when all waiters of an incident are through, its row does   *)
(* not still say running, unless the last final write of it failed.        *)
THEOREM IncidentsAreSettled == Spec => []NoIncidentLeftRunning
<1>1. Init => SettledInTheEnd
    BY DEF Init, SettledInTheEnd, RowStates
<1>2. IndInv /\ SettledInTheEnd /\ [Next]_vars => SettledInTheEnd'
    BY SettledStep
<1>3. SettledInTheEnd => NoIncidentLeftRunning
    BY DEF SettledInTheEnd, NoIncidentLeftRunning, Settler
<1> QED
    BY <1>1, <1>2, <1>3, Invariance, PTL DEF Spec

(* Only a run that was sent reports.  A reader that handles a completed    *)
(* frame is the one that read it, and once it has found the run current it *)
(* reads no other frame before it writes.                                  *)
ColumnWriteIsPrompt ==
    /\ \A r \in Runs : ~Registered(r) => reportedOn[r] = NoConn
    /\ \A c \in Conns :
        /\ reader[c].at \in {"columns", "write"} => reportedOn[reader[c].run] = c
        /\ reader[c].at = "write" =>
              \A s \in Runs : reportedOn[s] = c => previous[s].run # reader[c].run

\* Every step keeps it that a column is written by the frame read last.
LEMMA ColumnWriteIsPromptStep ==
    ASSUME IndInv, ColumnWriteIsPrompt, [Next]_vars
    PROVE  ColumnWriteIsPrompt'
<1>1. \/ UNCHANGED <<reader, reportedOn, previous>>
      \/ \E r \in Runs : Register(r)
      \/ \E c \in Conns, r \in Runs, kind \in FinalKinds : ReadFinal(c, r, kind)
      \/ \E c \in Conns : CheckColumn(c) \/ WriteColumn(c) \/ Dispatch(c)
    BY DEF Next, EnvironmentStep, WaiterStep, ConnStep, vars, registryVars,
       waiterVars, callbackVars, dbVars, Begin, Connect, WorkerDrops, LeaveReadLoop,
       ReadOutput, RegisterFails, RecordStartFailure, CreateRunRow, LabelPrevious,
       NotifyPrevious, Wake, Release, Finalize, ReaderSeesClose, FailCallbacks,
       FireOnError, ConnGone
<1>2. /\ TypeOK /\ InPlace /\ EntriesHaveWaiters /\ DisplacedIsOut
    BY DEF IndInv
<1> DEFINE Prompt == \A c \in Conns :
                /\ reader[c].at \in {"columns", "write"} => reportedOn[reader[c].run] = c
                /\ reader[c].at = "write" =>
                      \A s \in Runs : reportedOn[s] = c => previous[s].run # reader[c].run
           Silent == \A r \in Runs : ~Registered(r) => reportedOn[r] = NoConn
<1>a. Prompt /\ Silent
    BY DEF ColumnWriteIsPrompt
<1>b. Silent'
    <2>1. \/ UNCHANGED reportedOn
          \/ \E c \in Conns, r \in Runs, kind \in FinalKinds : ReadFinal(c, r, kind)
        BY <1>1 DEF Register, CheckColumn, WriteColumn, Dispatch, registryVars
    <2>2. \A r \in Runs : Registered(r) => Registered(r)'
        BY <1>2, RegisteredStays
    <2>3. ASSUME NEW c \in Conns, NEW r \in Runs, NEW kind \in FinalKinds, ReadFinal(c, r, kind)
          PROVE  Silent'
        BY <1>2, <1>a, <2>2, <2>3 DEF ReadFinal, CanCarry, InPlace, TypeOK
    <2> QED
        BY <1>a, <2>1, <2>2, <2>3
<1> SUFFICES Prompt'
    BY <1>b DEF ColumnWriteIsPrompt
<1>3. CASE UNCHANGED <<reader, reportedOn, previous>>
    BY <1>a, <1>3
<1>4. ASSUME NEW r \in Runs, Register(r) PROVE Prompt'
    <2>1. reportedOn[r] = NoConn
        BY <1>a, <1>4 DEF Register, Registered
    <2>2. /\ UNCHANGED <<reader, reportedOn>>
          /\ \A s \in Runs : s # r => previous'[s] = previous[s]
        BY <1>2, <1>4 DEF Register, TypeOK
    <2> QED
        BY <1>a, <2>1, <2>2 DEF Conns, NoConn
<1>5. ASSUME NEW c \in Conns, NEW r \in Runs, NEW kind \in FinalKinds, ReadFinal(c, r, kind)
      PROVE  Prompt'
    <2>1. /\ reportedOn[r] = NoConn /\ reader[c].at = "read"
          /\ UNCHANGED previous
        BY <1>5 DEF ReadFinal, CanCarry, waiterVars
    <2>2. /\ reportedOn'[r] = c
          /\ \A q \in Runs : q # r => reportedOn'[q] = reportedOn[q]
        BY <1>2, <1>5 DEF ReadFinal, TypeOK
    <2>3. /\ reader'[c].run = r /\ reader'[c].at # "write"
          /\ \A d \in Conns : d # c => reader'[d] = reader[d]
        BY <1>2, <1>5 DEF ReadFinal, TypeOK
    <2>4. ASSUME NEW d \in Conns, d # c, reader[d].at \in {"columns", "write"}
          PROVE  reader[d].run \in Runs /\ reader[d].run # r
        BY <1>2, <2>1, <2>4 DEF InPlace
    <2> QED
        BY <1>a, <2>1, <2>2, <2>3, <2>4
<1>6. ASSUME NEW c \in Conns, CheckColumn(c) PROVE Prompt'
    <2>1. /\ UNCHANGED <<reportedOn, previous>>
          /\ \A d \in Conns : d # c => reader'[d] = reader[d]
          /\ reader[c].at = "columns" /\ reader'[c].run = reader[c].run
          /\ reader[c].run \in Runs /\ incidentOf[reader[c].run] \in Incidents
          /\ \/ reader'[c].at = "columns"
             \/ IsCurrentRun(incidentOf[reader[c].run], reader[c].run)
        BY <1>2, <1>6, CheckColumnEffect DEF CheckColumn, InPlace, Registered, waiterVars
    <2>2. CASE IsCurrentRun(incidentOf[reader[c].run], reader[c].run)
        <3>1. \A s \in Runs : previous[s].run # reader[c].run
            BY <1>2, <2>1, <2>2, NoRunAssumption DEF IsCurrentRun, DisplacedIsOut
        <3> QED
            BY <1>a, <2>1, <3>1
    <2> QED
        BY <1>a, <2>1, <2>2
<1>7. ASSUME NEW c \in Conns, WriteColumn(c) \/ Dispatch(c) PROVE Prompt'
    <2>1. /\ UNCHANGED <<reportedOn, previous>>
          /\ \A d \in Conns : d # c => reader'[d] = reader[d]
          /\ reader'[c].at # "write"
          /\ reader'[c].at = "columns" => /\ reader[c].at = "write"
                                          /\ reader'[c].run = reader[c].run
        BY <1>2, <1>7 DEF WriteColumn, Dispatch, AtRead, TypeOK, registryVars, waiterVars
    <2> QED
        BY <1>a, <2>1
<1> QED
    BY <1>1, <1>3, <1>4, <1>5, <1>6, <1>7

(* isCurrentRun and the column update of one frame have no other frame of  *)
(* the same connection between them.                                       *)
THEOREM VerdictsStand == Spec => VerdictNotOverwritten
<1>1. Init => ColumnWriteIsPrompt
    BY DEF Init, AtRead, ColumnWriteIsPrompt
<1>2. IndInv /\ ColumnWriteIsPrompt /\ [Next]_vars => ColumnWriteIsPrompt'
    BY ColumnWriteIsPromptStep
<1>3. ASSUME IndInv, ColumnWriteIsPrompt, [Next]_vars, NEW k \in DOMAIN Columns,
             NEW i \in Incidents, NEW r \in Runs, NEW s \in Runs,
             stamp[k][i] = s, stamp'[k][i] = r, r # s, reportedOn[r] = reportedOn[s]
      PROVE  previous[s].run # r
    <2>1. \E c \in Conns : WriteColumn(c)
        BY <1>3 DEF Next, EnvironmentStep, WaiterStep, ConnStep, vars, registryVars,
           waiterVars, callbackVars, dbVars, Begin, Connect, WorkerDrops, LeaveReadLoop,
           ReadOutput, ReadFinal, Register, RegisterFails, RecordStartFailure,
           CreateRunRow, LabelPrevious, NotifyPrevious, Wake, Release, Finalize,
           ReaderSeesClose, FailCallbacks, FireOnError, ConnGone, CheckColumn, Dispatch
    <2>2. PICK c \in Conns : WriteColumn(c)
        BY <2>1
    <2>3. reader[c].at = "write" /\ r = reader[c].run
        BY <1>3, <2>2 DEF WriteColumn, IndInv, TypeOK
    <2> QED
        BY <1>3, <2>3 DEF ColumnWriteIsPrompt
<1>4. IndInv /\ ColumnWriteIsPrompt /\ [Next]_vars
        => [\A k \in DOMAIN Columns, i \in Incidents, r, s \in Runs :
              /\ stamp[k][i] = s /\ stamp'[k][i] = r /\ r # s
              /\ reportedOn[r] = reportedOn[s]
              => previous[s].run # r]_vars
    BY <1>3
<1> QED
    BY <1>1, <1>2, <1>4, Invariance, PTL DEF Spec, VerdictNotOverwritten

-----------------------------------------------------------------------------
(* Refinement: the registry implements the ownership protocol *)

(* No step but Register and Release moves the right to finalize.           *)
LEMMA StutterLemma ==
    ASSUME \A i \in Incidents : callbacks'[i].run = callbacks[i].run,
           \A r \in Runs : /\ Registered(r)' = Registered(r)
                           /\ Claimed(r)' = Claimed(r)
    PROVE  UNCHANGED <<holder, fate>>
<1>1. holder' = holder
    BY DEF holder
<1>2. \A r \in Runs : Holds(r)' = Holds(r)
    BY DEF Holds
<1>3. \A r \in Runs : fate'[r] = fate[r]
    BY <1>2 DEF fate
<1>4. fate' = fate
    BY <1>2 DEF fate
<1> QED
    BY <1>1, <1>4

(* Committing an entry gives the new run the right to finalize.            *)
LEMMA RegisterRefines ==
    ASSUME IndInv, NEW r \in Runs, Register(r)
    PROVE  Ownership!Next
<1> DEFINE i == incidentOf[r]
<1>1. /\ waiter[r] = "starting" /\ i \in Incidents
      /\ callbacks \in [Incidents -> Entry] /\ waiter \in [Runs -> WaiterStates]
    BY DEF IndInv, TypeOK, InPlace, Register
<1>2. /\ callbacks' = [callbacks EXCEPT ![i] =
                         [run |-> r, conn |-> workerConn, finalized |-> FALSE]]
      /\ waiter' = [waiter EXCEPT ![r] = "recording"]
    BY DEF Register, SlotAfterWrite
<1>3. ~Registered(r) /\ ~Claimed(r) /\ Registered(r)' /\ ~Claimed(r)'
    BY <1>1, <1>2 DEF Registered, Claimed
<1>4. \A s \in Runs : s # r => Registered(s)' = Registered(s) /\ Claimed(s)' = Claimed(s)
    BY <1>1, <1>2 DEF Registered, Claimed
<1>5. \A j \in Incidents : callbacks'[j].run = IF j = i THEN r ELSE callbacks[j].run
    BY <1>1, <1>2
<1>6. Holds(r)' /\ ~Holds(r)
    <2>1. Holds(r)'
        BY <1>1, <1>5 DEF Holds
    <2>2. \A j \in Incidents : callbacks[j].run = r => waiter[r] # "starting"
        BY NoRunAssumption DEF IndInv, EntriesHaveWaiters
    <2> QED
        BY <1>1, <2>1, <2>2 DEF Holds
<1>7. \A s \in Runs : s # r => Holds(s)' = (Holds(s) /\ callbacks[i].run # s)
    <2>1. \A s \in Runs, j \in Incidents : callbacks[j].run = s => incidentOf[s] = j
        BY NoRunAssumption DEF IndInv, EntriesHaveWaiters
    <2>2. ASSUME NEW s \in Runs, s # r
          PROVE  Holds(s)' <=> (Holds(s) /\ callbacks[i].run # s)
        <3>1. Holds(s)' => \E j \in Incidents : j # i /\ callbacks[j].run = s
            BY <1>5, <2>2 DEF Holds
        <3>2. (\E j \in Incidents : j # i /\ callbacks[j].run = s) => Holds(s)'
            BY <1>5, <2>2 DEF Holds
        <3> HIDE DEF i
        <3> QED
            BY <1>1, <2>1, <3>1, <3>2 DEF Holds
    <2> QED
        BY <2>2 DEF Holds
<1>8. callbacks[i].run # NoRun =>
         Registered(callbacks[i].run) /\ ~Claimed(callbacks[i].run) /\ Holds(callbacks[i].run)
    BY <1>1 DEF IndInv, EntriesHaveWaiters, Registered, Claimed, Holds
<1>9. holder' = [holder EXCEPT ![i] = r]
    BY <1>1, <1>5 DEF holder
<1>10. holder[i] = callbacks[i].run
    BY <1>1 DEF holder
<1> HIDE DEF i
<1>11. ASSUME NEW s \in Runs
       PROVE  fate'[s] = IF s = r THEN "holding"
                         ELSE IF s = holder[i] THEN "displaced" ELSE fate[s]
    BY <1>3, <1>4, <1>6, <1>7, <1>8, <1>10, NoRunAssumption DEF fate
<1>12. fate[r] = "new"
    BY <1>3 DEF fate
<1>13. fate' = [s \in Runs |-> IF s = r THEN "holding"
                               ELSE IF s = holder[i] THEN "displaced" ELSE fate[s]]
    BY <1>11 DEF fate
<1>14. Ownership!Register(r, i)
    BY <1>9, <1>12, <1>13 DEF Ownership!Register
<1> QED
    BY <1>1, <1>14 DEF Ownership!Next

(* ReleaseRun turns the right into a claim exactly when it returns true.   *)
LEMMA ReleaseRefines ==
    ASSUME IndInv, NEW r \in Runs, Release(r)
    PROVE  Ownership!Next \/ UNCHANGED <<holder, fate>>
<1> DEFINE i == incidentOf[r]
<1>1. /\ waiter[r] = "formatting" /\ i \in Incidents
      /\ callbacks \in [Incidents -> Entry] /\ waiter \in [Runs -> WaiterStates]
    BY DEF IndInv, TypeOK, InPlace, Release
<1>2. CASE ~OwnsEntry(r)
    <2>1. callbacks' = callbacks /\ waiter' = [waiter EXCEPT ![r] = "exited"]
        BY <1>2 DEF Release
    <2>2. \A s \in Runs : Registered(s)' = Registered(s) /\ Claimed(s)' = Claimed(s)
        BY <1>1, <2>1 DEF Registered, Claimed
    <2> QED
        BY <2>1, <2>2, StutterLemma
<1>3. CASE OwnsEntry(r)
    <2>1. /\ callbacks' = [callbacks EXCEPT ![i] = NoEntry]
          /\ waiter' = [waiter EXCEPT ![r] = "claimed"]
          /\ callbacks[i].run = r
        BY <1>3 DEF Release, OwnsEntry
    <2>2. Registered(r) /\ ~Claimed(r) /\ Claimed(r)' /\ Registered(r)'
        BY <1>1, <2>1 DEF Registered, Claimed
    <2>3. \A s \in Runs : s # r => Registered(s)' = Registered(s) /\ Claimed(s)' = Claimed(s)
        BY <1>1, <2>1 DEF Registered, Claimed
    <2>4. \A j \in Incidents : callbacks'[j].run = IF j = i THEN NoRun ELSE callbacks[j].run
        BY <1>1, <2>1 DEF NoEntry
    <2>5. Holds(r)
        BY <1>1, <2>1 DEF Holds
    <2>6. \A s \in Runs : s # r => Holds(s)' = Holds(s)
        BY <1>1, <2>1, <2>4, NoRunAssumption DEF Holds
    <2>7. holder' = [holder EXCEPT ![i] = NoRun] /\ holder[i] = r
        BY <1>1, <2>1, <2>4 DEF holder
    <2> HIDE DEF i
    <2>8. fate[r] = "holding"
        BY <2>2, <2>5 DEF fate
    <2>9. ASSUME NEW s \in Runs
          PROVE  fate'[s] = IF s = r THEN "claimed" ELSE fate[s]
        BY <2>2, <2>3, <2>6 DEF fate
    <2>10. fate' = [fate EXCEPT ![r] = "claimed"]
        BY <2>9 DEF fate
    <2>11. Ownership!Claim(r, i)
        BY <2>7, <2>8, <2>10 DEF Ownership!Claim
    <2> QED
        BY <1>1, <2>11 DEF Ownership!Next
<1> QED
    BY <1>2, <1>3

(* Every other step leaves every right where it is.                        *)
LEMMA OtherStepsStutter ==
    ASSUME IndInv, [Next]_vars, \A r \in Runs : ~Register(r) /\ ~Release(r)
    PROVE  UNCHANGED <<holder, fate>>
<1>1. /\ TypeOK /\ callbacks \in [Incidents -> Entry] /\ waiter \in [Runs -> WaiterStates]
      /\ \A r \in Runs : waiter[r] # "idle" => incidentOf[r] \in Incidents
    BY DEF IndInv, TypeOK, InPlace
<1>2. \A i \in Incidents : callbacks'[i].run = callbacks[i].run
    <2>1. ASSUME NEW c \in Conns, FailCallbacks(c)
          PROVE  \A i \in Incidents : callbacks'[i].run = callbacks[i].run
        BY <1>1, <2>1, FailCallbacksEffect
    <2>2. ASSUME NEW c \in Conns, Dispatch(c)
          PROVE  \A i \in Incidents : callbacks'[i].run = callbacks[i].run
        BY <1>1, <2>2, DispatchEffect
    <2>3. ASSUME NEW r \in Runs, RegisterFails(r)
          PROVE  \A i \in Incidents : callbacks'[i].run = callbacks[i].run
        BY <1>1, <2>3 DEF RegisterFails, SlotAfterWrite
    <2>4. \/ callbacks' = callbacks
          \/ \E c \in Conns : FailCallbacks(c) \/ Dispatch(c)
          \/ \E r \in Runs : RegisterFails(r)
        BY DEF Next, EnvironmentStep, WaiterStep, ConnStep, vars, registryVars, Begin,
           Connect, WorkerDrops, LeaveReadLoop, ReadOutput, ReadFinal,
           RecordStartFailure, CreateRunRow, LabelPrevious, NotifyPrevious, Wake,
           Finalize, ReaderSeesClose, FireOnError, ConnGone, CheckColumn, WriteColumn
    <2> QED
        BY <2>1, <2>2, <2>3, <2>4
<1>3. \A r \in Runs : Registered(r)' = Registered(r) /\ Claimed(r)' = Claimed(r)
    <2>1. ASSUME NEW r \in Runs, WaiterStep(r) \/ \E i \in Incidents : Begin(r, i),
                 NEW s \in Runs
          PROVE  Registered(s)' = Registered(s) /\ Claimed(s)' = Claimed(s)
        <3>1. /\ waiter'[s] = waiter[s] \/ s = r
              /\ \/ waiter[r] \in {"idle", "starting", "failing"}
                    /\ waiter'[r] \in {"starting", "failing", "aborted"}
                 \/ waiter[r] \in {"recording", "labelling", "notifying", "waiting"}
                    /\ waiter'[r] \in {"labelling", "notifying", "waiting", "formatting", "exited"}
                 \/ waiter[r] = "claimed" /\ waiter'[r] = "finished"
            <4>1. CASE \E i \in Incidents : Begin(r, i)
                BY <1>1, <4>1 DEF Begin
            <4>2. CASE RegisterFails(r) \/ RecordStartFailure(r) \/ CreateRunRow(r)
                BY <1>1, <4>2 DEF RegisterFails, RecordStartFailure, CreateRunRow
            <4>3. CASE LabelPrevious(r) \/ NotifyPrevious(r)
                BY <1>1, <4>3 DEF LabelPrevious, NotifyPrevious
            <4>4. CASE Wake(r) \/ Finalize(r)
                BY <1>1, <4>4 DEF Wake, Finalize
            <4> QED
                BY <2>1, <4>1, <4>2, <4>3, <4>4 DEF WaiterStep
        <3> QED
            BY <3>1 DEF Registered, Claimed
    <2>2. \/ waiter' = waiter
          \/ \E r \in Runs : WaiterStep(r) \/ \E i \in Incidents : Begin(r, i)
        BY DEF Next, EnvironmentStep, ConnStep, vars, waiterVars, Connect, WorkerDrops,
           LeaveReadLoop, ReadOutput, ReadFinal, ReaderSeesClose, FailCallbacks,
           FireOnError, ConnGone, CheckColumn, WriteColumn, Dispatch
    <2> QED
        BY <2>1, <2>2 DEF Registered, Claimed
<1> QED
    BY <1>2, <1>3, StutterLemma

(* AgentRuns implements RunOwnership: per incident at most one run may     *)
(* finalize, a newer run takes the right away, and only the run that has   *)
(* it claims it, once.                                                     *)
THEOREM Refinement == Spec => OwnershipSpec
<1>1. Init => Ownership!Init
    BY DEF Init, Ownership!Init, holder, fate, NoEntry, Registered, Claimed
<1>2. IndInv /\ [Next]_vars => [Ownership!Next]_(Ownership!vars)
    <2> SUFFICES ASSUME IndInv, [Next]_vars
                 PROVE  Ownership!Next \/ UNCHANGED <<holder, fate>>
        BY DEF Ownership!vars
    <2>1. CASE \E r \in Runs : Register(r)
        BY <2>1, RegisterRefines
    <2>2. CASE \E r \in Runs : Release(r)
        BY <2>2, ReleaseRefines
    <2>3. CASE \A r \in Runs : ~Register(r) /\ ~Release(r)
        BY <2>3, OtherStepsStutter
    <2> QED
        BY <2>1, <2>2, <2>3
<1> QED
    BY <1>1, <1>2, Invariance, PTL DEF Spec, OwnershipSpec, Ownership!Spec

=============================================================================
