------------------------------ MODULE AgentRuns ------------------------------
(***************************************************************************)
(* The run registry of the agent worker transport                          *)
(* (internal/handlers/agent_ws.go, type AgentWSHandler) together with the  *)
(* goroutines that use it: the waiter that starts an investigation and     *)
(* finalizes it (alert_processor.go, slack_processor.go, cron_runner.go,   *)
(* api_proposals.go), the reader of each worker connection, and the        *)
(* teardown of a connection.                                               *)
(*                                                                         *)
(* A run is one StartIncident call; run_id is a fresh UUID, so the run and *)
(* the waiter that made the call are the same thing here.  Each action is  *)
(* one critical section (h.mu, callbackMu) or one database call, which is  *)
(* exactly where other goroutines can get in between.                      *)
(*                                                                         *)
(* Connections are numbered in the order the API server accepts them.      *)
(***************************************************************************)
EXTENDS Naturals, Sequences

CONSTANTS
    Incidents,      \* incident rows
    Runs,           \* run ids, i.e. StartIncident invocations
    MaxConns,       \* bound: worker connections accepted in one behaviour
    Columns,        \* incident columns handleAgentCompleted writes, in order
    NoRun,          \* no run
    NoIncident      \* the incident of a run that has not begun

ASSUME MaxConnsAssumption == MaxConns \in Nat \ {0}
ASSUME ColumnsAssumption == Columns \in Seq(STRING)
ASSUME NoRunAssumption == NoRun \notin Runs
ASSUME NoIncidentAssumption == NoIncident \notin Incidents

Conns == 1..MaxConns
NoConn == 0                 \* h.workerConn == nil
FinalKinds == {"completed", "failed"}

VARIABLES
    workerConn,     \* h.workerConn
    conn,           \* the socket and the HandleWebSocket goroutine of each connection
    reader,         \* where each connection's reader is in handleMessage
    failing,        \* callbacks failCallbacksForConn has yet to invoke
    callbacks,      \* h.callbacks: the entry registered for each incident
    waiter,         \* program counter of each waiter goroutine
    incidentOf,     \* the incident each waiter works for
    sentOn,         \* the connection each run's request was written to
    previous,       \* the entry a waiter's registration displaced
    superseded,     \* the waiter's superseded flag
    result,         \* what OnCompleted / OnError captured for the waiter
    reportedOn,     \* the connection a run's final frame was read from
    runRow,         \* status of the agent_runs row
    row,            \* the incident row: status, response, full_log
    stamp           \* which run's frame wrote a guarded incident column

registryVars == <<workerConn, conn, reader, failing, callbacks, reportedOn>>
waiterVars == <<waiter, incidentOf, sentOn, previous>>
callbackVars == <<superseded, result>>
dbVars == <<runRow, row, stamp>>
vars == <<registryVars, waiterVars, callbackVars, dbVars>>

-----------------------------------------------------------------------------
(* Data *)

NoEntry == [run |-> NoRun, conn |-> NoConn, finalized |-> FALSE]
Entry == [run : Runs \cup {NoRun}, conn : Conns \cup {NoConn}, finalized : BOOLEAN]

ConnStates ==
    {"idle",       \* not yet accepted
     "open",
     "closed",     \* closed by the API; its reader has not noticed
     "cleared",    \* cleanupWorkerConn has given up h.workerConn
     "failing",    \* failCallbacksForConn invokes the callbacks it collected
     "gone"}       \* HandleWebSocket returned

(* column counts the guarded columns the handler is through with. *)
AtRead == [at |-> "read", run |-> NoRun, column |-> 0]
ReaderStates ==
    [at : {"read", "columns", "write", "error"},
     run : Runs \cup {NoRun}, column : 0..Len(Columns)]

WaiterStates ==
    {"idle", "starting",
     "recording", "labelling", "notifying",     \* inside sendIncidentMessage, entry registered
     "waiting", "formatting",
     "claimed", "finished",                     \* ReleaseRun returned true
     "exited",                                  \* superseded or displaced
     "failing", "aborted"}                      \* the run never started

RowStates ==
    [status : {"pending", "running"} \cup FinalKinds,
     logBy : Runs \cup {NoRun},      \* the waiter that wrote full_log last
     logFrom : Runs \cup {NoRun},    \* the run whose frame it wrote
     logFinal : BOOLEAN,
     unwritten : BOOLEAN]            \* history: its last final write failed

(* A run is registered from the moment its entry is committed. *)
Registered(r) ==
    waiter[r] \in {"recording", "labelling", "notifying", "waiting",
                   "formatting", "claimed", "finished", "exited"}

Holds(r) == \E i \in Incidents : callbacks[i].run = r
Done(r) == result[r] # "none" \/ superseded[r]     \* the done channel is closed
Claimed(r) == waiter[r] \in {"claimed", "finished"}
Terminated(r) == waiter[r] \in {"idle", "finished", "exited", "aborted"}
Displaced(r) == Registered(r) /\ ~Holds(r) /\ ~Claimed(r)

TypeOK ==
    /\ workerConn \in Conns \cup {NoConn}
    /\ conn \in [Conns -> ConnStates]
    /\ reader \in [Conns -> ReaderStates]
    /\ failing \in [Conns -> SUBSET Runs]
    /\ callbacks \in [Incidents -> Entry]
    /\ waiter \in [Runs -> WaiterStates]
    /\ incidentOf \in [Runs -> Incidents \cup {NoIncident}]
    /\ sentOn \in [Runs -> Conns \cup {NoConn}]
    /\ previous \in [Runs -> Entry]
    /\ superseded \in [Runs -> BOOLEAN]
    /\ result \in [Runs -> {"none"} \cup FinalKinds]
    /\ reportedOn \in [Runs -> Conns \cup {NoConn}]
    /\ runRow \in [Runs -> {"absent", "running", "superseded"} \cup FinalKinds]
    /\ row \in [Incidents -> RowStates]
    /\ stamp \in [DOMAIN Columns -> [Incidents -> Runs \cup {NoRun}]]

Init ==
    /\ workerConn = NoConn
    /\ conn = [c \in Conns |-> "idle"]
    /\ reader = [c \in Conns |-> AtRead]
    /\ failing = [c \in Conns |-> {}]
    /\ callbacks = [i \in Incidents |-> NoEntry]
    /\ waiter = [r \in Runs |-> "idle"]
    /\ incidentOf = [r \in Runs |-> NoIncident]
    /\ sentOn = [r \in Runs |-> NoConn]
    /\ previous = [r \in Runs |-> NoEntry]
    /\ superseded = [r \in Runs |-> FALSE]
    /\ result = [r \in Runs |-> "none"]
    /\ reportedOn = [r \in Runs |-> NoConn]
    /\ runRow = [r \in Runs |-> "absent"]
    /\ row = [i \in Incidents |->
                [status |-> "pending", logBy |-> NoRun, logFrom |-> NoRun, logFinal |-> FALSE,
                 unwritten |-> FALSE]]
    /\ stamp = [k \in DOMAIN Columns |-> [i \in Incidents |-> NoRun]]

-----------------------------------------------------------------------------
(* The worker's connections *)

(* HandleWebSocket: a new connection closes the one it replaces and takes  *)
(* over h.workerConn.                                                      *)
Connect(c) ==
    /\ conn[c] = "idle"
    /\ \A d \in Conns : d < c => conn[d] # "idle"
    /\ conn' = [d \in Conns |->
                  CASE d = c -> "open"
                    [] d = workerConn /\ conn[d] = "open" -> "closed"
                    [] OTHER -> conn[d]]
    /\ workerConn' = c
    /\ UNCHANGED <<reader, failing, callbacks, reportedOn, waiterVars, callbackVars, dbVars>>

(* The reader's ReadMessage fails, HandleWebSocket returns and the         *)
(* deferred cleanupWorkerConn gives up the slot if it still owns it.       *)
LeaveReadLoop(c) ==
    /\ reader[c].at = "read"
    /\ conn' = [conn EXCEPT ![c] = "cleared"]
    /\ workerConn' = IF workerConn = c THEN NoConn ELSE workerConn
    /\ UNCHANGED <<reader, failing, callbacks, reportedOn, waiterVars, callbackVars, dbVars>>

WorkerDrops(c) == conn[c] = "open" /\ LeaveReadLoop(c)
ReaderSeesClose(c) == conn[c] = "closed" /\ LeaveReadLoop(c)

(* The entries failCallbacksForConn collects: those of this very           *)
(* connection whose callback has not fired yet.                            *)
LostEntriesIfUnreplaced(c) ==
    {i \in Incidents : /\ workerConn = NoConn
                       /\ callbacks[i].run # NoRun
                       /\ callbacks[i].conn = c
                       /\ ~callbacks[i].finalized}
LostEntriesFinalizedToo(c) ==
    {i \in Incidents : callbacks[i].run # NoRun /\ callbacks[i].conn = c}
LostEntries(c) ==
    {i \in Incidents : /\ callbacks[i].run # NoRun
                       /\ callbacks[i].conn = c
                       /\ ~callbacks[i].finalized}

(* The entry stays in the map, so that the waiter's ReleaseRun succeeds.   *)
AfterLossDeleted(i) == NoEntry
AfterLoss(i) == [callbacks[i] EXCEPT !.finalized = TRUE]

(* failCallbacksForConn, under callbackMu. *)
FailCallbacks(c) ==
    /\ conn[c] = "cleared"
    /\ conn' = [conn EXCEPT ![c] = "failing"]
    /\ failing' = [failing EXCEPT ![c] = {callbacks[i].run : i \in LostEntries(c)}]
    /\ callbacks' = [i \in Incidents |->
                        IF i \in LostEntries(c) THEN AfterLoss(i) ELSE callbacks[i]]
    /\ UNCHANGED <<workerConn, reader, reportedOn, waiterVars, callbackVars, dbVars>>

(* failCallbacksForConn, after the unlock: one OnError per collected       *)
(* callback.                                                               *)
FireOnError(c, r) ==
    /\ conn[c] = "failing"
    /\ r \in failing[c]
    /\ failing' = [failing EXCEPT ![c] = @ \ {r}]
    /\ result' = [result EXCEPT ![r] = "failed"]
    /\ UNCHANGED <<workerConn, conn, reader, callbacks, reportedOn, waiterVars,
                   superseded, dbVars>>

ConnGone(c) ==
    /\ conn[c] = "failing"
    /\ failing[c] = {}
    /\ conn' = [conn EXCEPT ![c] = "gone"]
    /\ UNCHANGED <<workerConn, reader, failing, callbacks, reportedOn, waiterVars,
                   callbackVars, dbVars>>

-----------------------------------------------------------------------------
(* Frames from the worker.  The worker echoes the run_id of the request,   *)
(* so a frame of run r can be read from the connection its request went    *)
(* out on or, when the worker reconnects mid-run, from a later one.  A     *)
(* connection the API has closed can still yield frames already buffered.  *)

CanCarry(c, r) ==
    /\ conn[c] \in {"open", "closed"}
    /\ reader[c].at = "read"
    /\ sentOn[r] # NoConn
    /\ sentOn[r] <= c

(* The run's entry is live: what the dispatchers and isCurrentRun test.    *)
IsCurrentRunAnyId(i, r) == callbacks[i].run # NoRun /\ ~callbacks[i].finalized
IsCurrentRunUnguarded(i, r) == TRUE
IsCurrentRunFinalizedToo(i, r) == callbacks[i].run = r
IsCurrentRun(i, r) == callbacks[i].run = r /\ ~callbacks[i].finalized

(* handleAgentOutput / dispatchOnOutput.  OnOutput runs under the read     *)
(* lock; every waiter's OnOutput rewrites the incident's full_log.         *)
ReadOutput(c, r) ==
    LET i == incidentOf[r] IN
    /\ CanCarry(c, r)
    /\ reportedOn[r] = NoConn \/ c < reportedOn[r]
    /\ IsCurrentRun(i, r)
    /\ row' = [row EXCEPT ![i].logBy = callbacks[i].run, ![i].logFrom = r,
                          ![i].logFinal = FALSE]
    /\ UNCHANGED <<registryVars, waiterVars, callbackVars, runRow, stamp>>

(* The row's CASE in finalizeAgentRun: only a running row takes the        *)
(* terminal status, and a row that does not exist yet takes nothing.       *)
FinalizedRowUnchecked(r, kind) == IF runRow[r] = "absent" THEN "absent" ELSE kind
FinalizedRow(r, kind) == IF runRow[r] = "running" THEN kind ELSE runRow[r]

(* handleAgentCompleted and handleAgentError begin with the telemetry row, *)
(* whether or not the run is still current.                                *)
ReadFinal(c, r, kind) ==
    /\ CanCarry(c, r)
    /\ reportedOn[r] = NoConn
    /\ reportedOn' = [reportedOn EXCEPT ![r] = c]
    /\ runRow' = [runRow EXCEPT ![r] = FinalizedRow(r, kind)]
    /\ reader' = [reader EXCEPT ![c] =
                    [at |-> IF kind = "completed" THEN "columns" ELSE "error",
                     run |-> r, column |-> 0]]
    /\ UNCHANGED <<workerConn, conn, failing, callbacks, waiterVars, callbackVars, row, stamp>>

(* handleAgentCompleted then treats its columns (result_status,            *)
(* last_skill_used) alike: skip an empty value or a run that is not        *)
(* current, otherwise write.  The check and the write are not one critical *)
(* section.                                                                *)
ColumnsLeft(frame) == frame.column < Len(Columns)

CheckColumn(c) ==
    LET frame == reader[c] IN
    /\ frame.at = "columns"
    /\ ColumnsLeft(frame)
    /\ \/ reader' = [reader EXCEPT ![c].column = @ + 1]
       \/ /\ IsCurrentRun(incidentOf[frame.run], frame.run)
          /\ reader' = [reader EXCEPT ![c].at = "write"]
    /\ UNCHANGED <<workerConn, conn, failing, callbacks, reportedOn, waiterVars,
                   callbackVars, dbVars>>

WriteColumn(c) ==
    LET frame == reader[c] IN
    /\ frame.at = "write"
    /\ stamp' = [stamp EXCEPT ![frame.column + 1][incidentOf[frame.run]] = frame.run]
    /\ reader' = [reader EXCEPT ![c] = [at |-> "columns", run |-> frame.run,
                                        column |-> frame.column + 1]]
    /\ UNCHANGED <<workerConn, conn, failing, callbacks, reportedOn, waiterVars,
                   callbackVars, runRow, row>>

(* dispatchOnCompleted / dispatchOnError, under the write lock.            *)
Dispatch(c) ==
    LET frame == reader[c]
        i == incidentOf[frame.run]
        target == callbacks[i].run
        kind == IF frame.at = "error" THEN "failed" ELSE "completed"
    IN  /\ \/ frame.at = "error"
           \/ frame.at = "columns" /\ ~ColumnsLeft(frame)
        /\ reader' = [reader EXCEPT ![c] = AtRead]
        /\ \/ /\ IsCurrentRun(i, frame.run)
              /\ result' = [result EXCEPT ![target] = kind]
              /\ callbacks' = [callbacks EXCEPT ![i].finalized = TRUE]
           \/ /\ ~IsCurrentRun(i, frame.run)
              /\ UNCHANGED <<result, callbacks>>
        /\ UNCHANGED <<workerConn, conn, failing, reportedOn, waiterVars, superseded, dbVars>>

-----------------------------------------------------------------------------
(* The waiter goroutine *)

(* UpdateIncidentStatus(running) before anything is sent. *)
Begin(r, i) ==
    /\ waiter[r] = "idle"
    /\ waiter' = [waiter EXCEPT ![r] = "starting"]
    /\ incidentOf' = [incidentOf EXCEPT ![r] = i]
    /\ row' = [row EXCEPT ![i].status = "running", ![i].unwritten = FALSE]
    /\ UNCHANGED <<registryVars, sentOn, previous, callbackVars, runRow, stamp>>

(* sendIncidentMessage swaps the entry and writes the request under h.mu   *)
(* and callbackMu, and puts the displaced entry back before the locks are  *)
(* released when the write fails: the slot as other goroutines see it next.*)
SlotNotRestored(r, written) ==
    [run |-> r, conn |-> workerConn, finalized |-> FALSE]
SlotAfterWrite(r, written) ==
    IF written THEN [run |-> r, conn |-> workerConn, finalized |-> FALSE]
               ELSE callbacks[incidentOf[r]]

Register(r) ==
    LET i == incidentOf[r] IN
    /\ waiter[r] = "starting"
    /\ workerConn # NoConn
    /\ callbacks' = [callbacks EXCEPT ![i] = SlotAfterWrite(r, TRUE)]
    /\ previous' = [previous EXCEPT ![r] = callbacks[i]]
    /\ sentOn' = [sentOn EXCEPT ![r] = workerConn]
    /\ waiter' = [waiter EXCEPT ![r] = "recording"]
    /\ UNCHANGED <<workerConn, conn, reader, failing, reportedOn, incidentOf,
                   callbackVars, dbVars>>

(* IsWorkerConnected is false, h.workerConn is nil by the time of the call *)
(* or the write fails.                                                     *)
RegisterFails(r) ==
    LET i == incidentOf[r] IN
    /\ waiter[r] = "starting"
    /\ callbacks' = [callbacks EXCEPT ![i] = SlotAfterWrite(r, FALSE)]
    /\ waiter' = [waiter EXCEPT ![r] = "failing"]
    /\ UNCHANGED <<workerConn, conn, reader, failing, reportedOn, incidentOf, sentOn,
                   previous, callbackVars, dbVars>>

(* UpdateIncidentComplete by the waiter of r: status, response and         *)
(* full_log in one update.  When it fails its callers log that and go on.  *)
WriteComplete(r, status) ==
    LET i == incidentOf[r] IN
    \/ row' = [row EXCEPT ![i] = [status |-> status, logBy |-> r, logFrom |-> r,
                                  logFinal |-> TRUE, unwritten |-> FALSE]]
    \/ row' = [row EXCEPT ![i].unwritten = TRUE]

(* The caller's error branches write the failure straight to the row. *)
RecordStartFailure(r) ==
    /\ waiter[r] = "failing"
    /\ waiter' = [waiter EXCEPT ![r] = "aborted"]
    /\ WriteComplete(r, "failed")
    /\ UNCHANGED <<registryVars, incidentOf, sentOn, previous, callbackVars,
                   runRow, stamp>>

(* CreateAgentRun, after both locks are released. *)
CreateRunRow(r) ==
    /\ waiter[r] = "recording"
    /\ waiter' = [waiter EXCEPT ![r] = "labelling"]
    /\ runRow' = [runRow EXCEPT ![r] = "running"]
    /\ UNCHANGED <<registryVars, incidentOf, sentOn, previous, callbackVars, row, stamp>>

(* SupersedeAgentRun touches only a row that is still running. *)
LabelPrevious(r) ==
    LET p == previous[r] IN
    /\ waiter[r] = "labelling"
    /\ waiter' = [waiter EXCEPT ![r] = "notifying"]
    /\ runRow' = IF p.run # NoRun /\ ~p.finalized /\ runRow[p.run] = "running"
                 THEN [runRow EXCEPT ![p.run] = "superseded"]
                 ELSE runRow
    /\ UNCHANGED <<registryVars, incidentOf, sentOn, previous, callbackVars, row, stamp>>

(* Whom the registration of r displaced: hadPrevious. *)
DisplacedByNobody(r) == {}
DisplacedBy(r) == {previous[r].run} \ {NoRun}

(* OnSuperseded of the displaced callback, outside both locks; then        *)
(* StartIncident returns and the caller blocks on its done channel.        *)
NotifyPrevious(r) ==
    /\ waiter[r] = "notifying"
    /\ waiter' = [waiter EXCEPT ![r] = "waiting"]
    /\ superseded' = [s \in Runs |-> s \in DisplacedBy(r) \/ superseded[s]]
    /\ UNCHANGED <<registryVars, incidentOf, sentOn, previous, result, dbVars>>

(* <-done *)
Wake(r) ==
    /\ waiter[r] = "waiting"
    /\ Done(r)
    /\ waiter' = [waiter EXCEPT ![r] = IF superseded[r] THEN "exited" ELSE "formatting"]
    /\ UNCHANGED <<registryVars, incidentOf, sentOn, previous, callbackVars, dbVars>>

(* ReleaseRun removes the entry only if it is still the caller's. *)
OwnsEntryUnchecked(r) == callbacks[incidentOf[r]].run # NoRun
OwnsEntry(r) == callbacks[incidentOf[r]].run = r

Release(r) ==
    /\ waiter[r] = "formatting"
    /\ callbacks' = IF OwnsEntry(r) THEN [callbacks EXCEPT ![incidentOf[r]] = NoEntry]
                                    ELSE callbacks
    /\ waiter' = [waiter EXCEPT ![r] = IF OwnsEntry(r) THEN "claimed" ELSE "exited"]
    /\ UNCHANGED <<workerConn, conn, reader, failing, reportedOn, incidentOf, sentOn,
                   previous, callbackVars, dbVars>>

(* The write of the result that was claimed. *)
Finalize(r) ==
    /\ waiter[r] = "claimed"
    /\ waiter' = [waiter EXCEPT ![r] = "finished"]
    /\ WriteComplete(r, result[r])
    /\ UNCHANGED <<registryVars, incidentOf, sentOn, previous, callbackVars,
                   runRow, stamp>>

-----------------------------------------------------------------------------

WaiterStep(r) ==
    \/ Register(r) \/ RegisterFails(r) \/ RecordStartFailure(r)
    \/ CreateRunRow(r) \/ LabelPrevious(r) \/ NotifyPrevious(r)
    \/ Wake(r) \/ Release(r) \/ Finalize(r)

(* What a connection's goroutine does without waiting for the worker. *)
ConnStep(c) ==
    \/ ReaderSeesClose(c) \/ FailCallbacks(c) \/ ConnGone(c)
    \/ \E r \in Runs : FireOnError(c, r)
    \/ CheckColumn(c) \/ WriteColumn(c) \/ Dispatch(c)

(* What depends on the outside: users, the network and the worker. *)
EnvironmentStep ==
    \/ \E r \in Runs, i \in Incidents : Begin(r, i)
    \/ \E c \in Conns : Connect(c) \/ WorkerDrops(c)
    \/ \E c \in Conns, r \in Runs :
          ReadOutput(c, r) \/ \E kind \in FinalKinds : ReadFinal(c, r, kind)

Next ==
    \/ EnvironmentStep
    \/ \E r \in Runs : WaiterStep(r)
    \/ \E c \in Conns : ConnStep(c)

Spec == Init /\ [][Next]_vars

(* The Go scheduler runs every goroutine that can run, and database and    *)
(* formatter calls return (one-shot calls carry a 60 s timeout).  Nothing  *)
(* is assumed of users, of the network or of the worker.                   *)
FairSpec ==
    /\ Spec
    /\ \A r \in Runs : WF_vars(WaiterStep(r))
    /\ \A c \in Conns : WF_vars(ConnStep(c))

-----------------------------------------------------------------------------
(* Safety *)

(* ReleaseRun: "A false return means a newer Start/Continue has displaced  *)
(* us during post-completion work -- the caller MUST exit silently".  A    *)
(* run whose registered entry was displaced never claims finalization, in  *)
(* whatever order the swap, OnSuperseded, OnCompleted and ReleaseRun of    *)
(* the goroutines fall.                                                    *)
DisplacedNeverClaims ==
    \A r, s \in Runs : Registered(s) /\ previous[s].run = r => ~Claimed(r)

(* Every entry left in h.callbacks belongs to a waiter that has yet to     *)
(* call ReleaseRun for this incident.                                      *)
EntriesHaveWaiters ==
    \A i \in Incidents : callbacks[i].run # NoRun =>
        /\ incidentOf[callbacks[i].run] = i
        /\ waiter[callbacks[i].run] \in
              {"recording", "labelling", "notifying", "waiting", "formatting"}

(* A run that registered and was neither displaced nor released keeps its  *)
(* entry.                                                                  *)
UndisplacedRunsKeepEntry ==
    \A r \in Runs :
        /\ waiter[r] \in {"recording", "labelling", "notifying", "waiting", "formatting"}
        /\ \A s \in Runs : previous[s].run # r
        => callbacks[incidentOf[r]].run = r

(* The map and the waiters agree: no entry leaks, and nobody else's failed *)
(* start, frame or disconnect takes an entry away from the run that has it,*)
(* a failed write after a swap included.                                   *)
EntriesMatchWaiters == EntriesHaveWaiters /\ UndisplacedRunsKeepEntry

(* cleanupWorkerConn: "A's entries are still owned by A and would          *)
(* otherwise strand": once a connection's teardown is over, no live entry  *)
(* is still waiting for frames from it.                                    *)
NoStrandedEntry ==
    \A i \in Incidents, c \in Conns :
        callbacks[i].run # NoRun /\ callbacks[i].conn = c /\ conn[c] = "gone"
            => callbacks[i].finalized

(* A waiter is told that its run completed only after that run's own       *)
(* completion was read.                                                    *)
CompletionIsOwn ==
    \A r \in Runs : result[r] = "completed" => reportedOn[r] # NoConn

(* The log an incident shows is that of the run its row belongs to.        *)
LogIsOwn == \A i \in Incidents : row[i].logFrom = row[i].logBy

(* "drops frames whose run_id does not match -- a superseded run can       *)
(* therefore keep emitting late frames without leaking them into the new   *)
(* waiter's callback".                                                     *)
FramesAreOwn == CompletionIsOwn /\ LogIsOwn

(* Every waiter that exits silently leaves the incident to a run that      *)
(* settles it: when all waiters of an incident are through, its row does   *)
(* not still say "running", unless the last final write since a run began  *)
(* has failed, which every caller of UpdateIncidentComplete only logs.     *)
NoIncidentLeftRunning ==
    \A i \in Incidents :
        (\A r \in Runs : incidentOf[r] = i => Terminated(r))
            => row[i].status # "running" \/ row[i].unwritten

(* A waiter that has passed <-done without being superseded finalizes the  *)
(* result it woke up to: no late completion, error frame or disconnect     *)
(* rewrites the captured response underneath it.                           *)
WokenResultStable ==
    [][\A r \in Runs : waiter[r] \in {"formatting", "claimed"} => result'[r] = result[r]]_vars

(* Streamed output is written to the incident's full_log only on behalf of *)
(* a waiter that has not been woken yet, so it can clobber neither its own *)
(* final log nor that of the run that displaced it.                        *)
NoStreamAfterWake ==
    [][\A i \in Incidents :
          /\ <<row'[i].logBy, row'[i].logFinal>> # <<row[i].logBy, row[i].logFinal>>
          /\ ~row'[i].logFinal
          => ~Done(row'[i].logBy)]_vars

(* "Guarded so a superseded run's late frame cannot overwrite the current  *)
(* run's verdict": what a run wrote is not rewritten by the run it         *)
(* displaced, if both reported over the same connection, whose reader      *)
(* takes one frame at a time.                                              *)
VerdictNotOverwritten ==
    [][\A k \in DOMAIN Columns, i \in Incidents, r, s \in Runs :
          /\ stamp[k][i] = s /\ stamp'[k][i] = r /\ r # s
          /\ reportedOn[r] = reportedOn[s]
          => previous[s].run # r]_vars

(* "Only a live run transitions to the terminal status; a superseded run   *)
(* keeps its label": of the late frame of a run, its displacement and the  *)
(* creation of its row, in whatever order, the first to settle the row's   *)
(* status settles it for good.                                             *)
RunRowSettlesOnce ==
    [][\A r \in Runs : runRow[r] \in {"superseded"} \cup FinalKinds
            => runRow'[r] = runRow[r]]_vars

(* Liveness *)

(* A waiter whose request went out on a connection that is no longer open  *)
(* is eventually unblocked, whether or not a replacement connection has    *)
(* already taken over h.workerConn.                                        *)
DisconnectedWaitersWake ==
    \A r \in Runs :
        waiter[r] = "waiting" /\ conn[sentOn[r]] # "open" ~> waiter[r] # "waiting"

(* "without this signal the displaced goroutine would block on its done    *)
(* channel forever": a displaced waiter eventually exits.                  *)
DisplacedWaitersExit ==
    \A r \in Runs : Displaced(r) ~> waiter[r] = "exited"

-----------------------------------------------------------------------------
(* The registry implements the ownership protocol of RunOwnership. *)

holder == [i \in Incidents |-> callbacks[i].run]
fate == [r \in Runs |-> IF Claimed(r) THEN "claimed"
                        ELSE IF ~Registered(r) THEN "new"
                        ELSE IF Holds(r) THEN "holding"
                        ELSE "displaced"]

Ownership == INSTANCE RunOwnership
    WITH Incidents <- Incidents, Runs <- Runs, NoRun <- NoRun,
         holder <- holder, fate <- fate
(* At most one run per incident may finalize, a newer run takes the right  *)
(* away, and only the run that has it claims it, once.                     *)
OwnershipSpec == Ownership!Spec

-----------------------------------------------------------------------------
(* What a comment in the code says and the code does not do. *)

(* ReleaseRun is there so that "a stale finalize could [not] overwrite the *)
(* replacement run's result": no run writes its final status and response  *)
(* while a newer run is registered for the incident.                       *)
FinalWriteByOwner ==
    [][\A r \in Runs :
          /\ waiter[r] = "claimed" /\ waiter'[r] = "finished"
          /\ ~row'[incidentOf[r]].unwritten
          => callbacks[incidentOf[r]].run = NoRun]_vars

=============================================================================
