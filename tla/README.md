# Akmatori: TLA+ models, checks and proofs

Akmatori receives alerts, correlates them into incidents, has an AI agent
investigate each incident and writes the result back. Three processes take part:
the Go API server (`src/cmd`, `src/internal`), a Node.js agent worker
(`src/agent-worker`) that connects to the API over one WebSocket, and an MCP
gateway (`src/mcp-gateway`) that gives the agent its tools. State is kept in
PostgreSQL and, inside each process, in maps guarded by mutexes.

This directory models the parts of it in which several goroutines, transactions,
connections or processes meet.

## Contents

| module | what it models | instances | proofs |
|---|---|---|---|
| `AgentRuns` | the run registry of the worker transport, the waiters that use it, the worker's connections | `AgentRuns*.cfg` | `AgentRuns_proofs` |
| `RunOwnership` | the abstract protocol the registry implements: who may finalize an incident | | |
| `AlertIncidents` | incidents and alerts as PostgreSQL transactions with row locks | `AlertIncidents*.cfg` | `AlertIncidents_proofs` |
| `WorkerLink` | one-shot LLM requests over the worker's connection, both ends | `WorkerLink.cfg` | `WorkerLink_proofs` |
| `OneshotRPC` | what the link is to its callers | | |
| `LaunchChain` | how the worker starts, replaces and cancels the sessions of an incident | `LaunchChain.cfg` | `LaunchChain_proofs` |
| `McpPool` | the gateway's connection pool | `McpPool.cfg` | `McpPool_proofs` |
| `CronRunner` | job rows, the scheduler and its ticks | `CronRunner.cfg` | `CronRunner_proofs` |
| `CronProposals` | proposals for cron jobs, over `CronRunner` | `CronProposals.cfg` | `CronProposals_proofs` |
| `MemoryFiles` | memory rows, the files they are mirrored to, and the agent's | `MemoryFiles.cfg` | `MemoryFiles_proofs` |

`MC<module>` is the module that TLC runs. `PROJECT.json` has the components, runs, mutants,
definition-to-source map, findings, hazards and theorems.

## Inventory

Each entry: the state, the operations, whom it meets, what is hard and what makes
it correct.

**Run registry** (`internal/handlers/agent_ws.go`). State: the current worker
connection (`workerConn`, under `mu`) and one callback entry per incident
(`callbacks`, under `callbackMu`): run id, connection, `finalized`. Operations:
`StartIncident` (swap the entry, write the request, restore the entry if the write
fails, then telemetry and `OnSuperseded` outside the locks), frames from the reader of
each connection (output, completed, error), `ReleaseRun`, connection set-up and
tear-down. It meets the waiters through callbacks and done channels, and the worker
through the socket. Hard: everything after an unlock; frames of displaced runs; a
connection replaced while the old one's reader still runs. Correct when: at most one
run finalizes an incident, a displaced one never does, no waiter blocks for good,
no entry leaks, no frame reaches another run's waiter.

**Investigation waiters** (`alert_processor.go`, `slack_processor.go`,
`api_incidents.go`, `api_proposals.go`, `cron_runner.go`). Each sets the incident to
running, starts a run, blocks on a channel closed by `OnCompleted`, `OnError` or
`OnSuperseded`, formats, calls `ReleaseRun` and writes the incident row. Hard: the
steps between the wake-up and the write take seconds. Correct when: what is written is
what the waiter woke up to, and some run settles every incident.

**Run telemetry** (`database/models_agent_runs.go`). One `agent_runs` row per run;
created, labelled superseded and finished by three different goroutines, in any order.

**Incident and alert lifecycle** (`alert_processor.go`, `alert_correlator.go`,
`incident_service.go`, `incident_merger.go`, `monitor_sweep_service.go`,
`stale_close_service.go`, `incident_activity.go`). State: incident rows (status,
`merged_into_uuid`, `monitor_until`) and alert rows (firing or resolved, incident),
with a partial unique index on firing alerts. Operations: correlate and link, spawn
and claim, complete, resolve, close, merge, move, unlink, sweep expired monitors, close
stale incidents. They meet only in the database, at READ COMMITTED, by row locks.
Hard: what is read before a lock; lock order; two-statement batches. Correct when: an
incident is in completed only while one of its alerts fires and enters monitor only
when none does, no firing alert sits on a merged row, a duplicate webhook causes one
investigation, monitoring ends.

**One-shot LLM requests** (`agent_ws.go` `OneShotLLM`). State: `pendingOneshot`, a map
from request id to a buffered channel and the connection of the request. A response, a
deadline, a failed write and the loss of the connection compete for each entry. Correct
when: every call returns once, with its own answer or an error, nobody waits for an entry
that is gone and the map does not grow.

**Agent worker** (`agent-worker/src/orchestrator.ts`, `ws-client.ts`,
`agent-runner.ts`). State: `launchChain` and `activeSessions` per incident; `ws` and
`connected` of the client. A promise chain per incident serializes launches; a new launch
aborts the active session; the client reconnects with delays. Hard: a close event of
the old socket after the new one has opened; a launch that fails inside the chain.
Correct when: sessions of an incident never run side by side, no launch aborts a newer
one, each launch reports, and a dropped frame costs no more than a reconnect.

**MCP proxy pool** (`mcpproxy/pool.go`). State: `connections`, `configs`, `stopped` under
`mu`; `connected`, `closed` and the turn of `idMu` in each connection. Connect or reuse,
call with retries, refresh and ping, idle clean-up, shutdown. Hard: a connection is
established outside the lock; a timed-out request leaves its read goroutine behind. Correct
when: the map holds usable connections only, no subprocess is forgotten, a stopped pool
drains, callers return and get their own answers.

**Cron runner** (`cron_runner.go`). State: `cron_jobs` rows; `entries` and the
scheduler's own. `Start`, `Reload` after each change, overlapping ticks, `RunNow`. Hard: the
rows change outside `r.mu`; a tick is an investigation that others may displace. Correct
when: jobs fire on their rows' schedules and no entry leaks; what a tick records agrees with
its incident.

**Proposals** (`proposal_service.go`, the gateway's `proposals` tool). Status read, work
done, status written, without a lock, by an operator; written and revised by another
process. Correct when: approved means applied, a decision stands, and no schedule that an LLM
wrote fires before an operator has enabled it.

**Memory files** (`memory_service.go`). Rows, the directory rendered from them, and files the
agent drops there. Hard: every call syncs after its own statement; an ingest reads, writes
and purges in steps. Correct when: the directory converges to the rows, `MEMORY.md` lists no
missing file, and nothing is purged before it is in the table.

**Slack typing indicator** (`slack/typing.go`), **Socket Mode manager**
(`slack/manager.go`), **retention** (`retention_service.go`), **cache, limiter,
authorizer** (`cache`, `ratelimit`, `auth`): see "Not modelled".

`PROJECT.json` lists every hazard at its line, with the properties that cover it or the
reason why none does.

## Plan

Done, in this order: `AgentRuns` over `RunOwnership`, and its proofs; `AlertIncidents`;
`McpPool`; `WorkerLink` over `OneshotRPC`; `LaunchChain`; `CronRunner`; `CronProposals`, which
extends it; `MemoryFiles`; a module of proofs for each.

What would add most from here:

1. Retention next to the lifecycle, once rows have an age.
2. The SSE transport of the pool, whose reader owns a stream of its own.

Runs stay at one to four actors of each kind: the hazards listed are races of two
actors over one object, with a third as the bystander or the next generation.

## AgentRuns

### Correspondence

A run is one `StartIncident` call. Its waiter goroutine and its run id are the same
thing in the model, since the id is fresh for every call.

| model | code |
|---|---|
| `workerConn`, `conn` | `h.workerConn`; the state of each accepted socket and of its `HandleWebSocket` goroutine |
| `callbacks[i]` | `h.callbacks[incidentID]`: run, connection, `finalized` |
| `reader[c]` | where `handleAgentCompleted`/`handleAgentError` of that connection is |
| `failing[c]` | the callbacks `failCallbacksForConn` has collected and not invoked |
| `waiter`, `previous`, `superseded`, `result` | a waiter's progress and its captured variables |
| `runRow`, `row`, `stamp` | the `agent_runs` row, the incident row, and who wrote its verdict columns |

One action is one critical section of `mu`/`callbackMu` or one database statement.
That is where the goroutines interleave: `sendIncidentMessage` is `Register` (or
`RegisterFails`) under both locks, then `CreateRunRow`, `LabelPrevious` and
`NotifyPrevious` outside; a completed frame is `ReadFinal`, a check and a write per
column, and `Dispatch`; a waiter is `Wake`, `Release`, `Finalize`.

The worker is the environment. It can send any frame of a run whose request it has
received, at most one final frame a run, on the connection of the request or a later
one (it reconnects and goes on), and output frames buffered on an older connection may
be read after the final one.

Abstractions: a successful final write is `completed`, whether or not the database promotes it
to monitor (`AlertIncidents` does that part); a formatted response is the run it came from; the
Slack side of the waiters is left out. `UpdateIncidentComplete` may fail, which its callers
only log (`alert_processor.go:697-699`, `777-779`): `WriteComplete` then leaves the row, and
the history field `unwritten` says that the last final write since the row went to running did
not succeed. Any other database write that fails (status running, log and verdict columns,
telemetry) is logged too, and is left out. `CancelIncident` has no caller outside tests and is
left out, as are frames without a `run_id`, which only workers older than the echo send. A
`WriteMessage` that blocks, rather than fails, is not modelled.

### Runs

| run | instance | shows |
|---|---|---|
| `reconnect` | 2 incidents, 2 runs, 2 connections, 1 guarded column | `NoStrandedEntry`, `FramesAreOwn`, `WokenResultStable`, `NoStreamAfterWake`, `VerdictNotOverwritten`, `RunRowSettlesOnce`, through reconnects and late frames |
| `supersede` | 1 incident, 2 runs, 1 connection | `EntriesMatchWaiters`, `NoIncidentLeftRunning`, `DisplacedWaitersExit`, and that the registry implements `RunOwnership` |
| `disconnect_liveness` | 1 incident, 1 run, 3 connections | `DisconnectedWaitersWake` |
| `stale_final_write` | 1 incident, 2 runs, 1 connection | a violation: see "Where comments and code differ" |

Bounds. Two runs are needed for a displacement; a second incident checks that entries do not
mix. Two connections give a reconnect with a live reader of the old socket; the third, in the
liveness run, gives a slot that is taken over twice. A displaced run that has displaced another
itself needs a third run: the safety properties are proved for any number of runs and
connections, so the instances stay small. The guarded columns `result_status` and
`last_skill_used` are treated alike by the code, so one stands for both; the proofs hold for
any sequence of columns. The system may stop when all runs are over and all connections used,
so deadlock is not checked; the same holds of every other module.

Fairness (`FairSpec`): weak fairness of every waiter's steps and of every connection
goroutine's steps. The Go scheduler runs runnable goroutines, critical sections are
short, and database and formatter calls return (the one-shot call has a 60 s timeout).
Users, the network and the worker get no fairness: a worker may stay silent for ever,
and that a dead connection is noticed at all is not assumed, so
`DisconnectedWaitersWake` starts from a connection that is no longer open.

### Proved

For every set of incidents and runs, any number of connections and any list of columns
(assumptions: `MaxConns` is a positive natural, `Columns` a sequence of strings, `NoRun`
and `NoIncident` outside their sets):

| theorem | property |
|---|---|
| `Invariance`, `TypeCorrect` | `IndInv`, `TypeOK` |
| `DisplacedRunsExit` | `DisplacedNeverClaims` |
| `EntriesAreKept` | `EntriesMatchWaiters` |
| `IncidentsAreSettled` | `NoIncidentLeftRunning` |
| `TeardownIsComplete` | `NoStrandedEntry` |
| `FramesStayWithTheirRun` | `FramesAreOwn` |
| `WokenResultsAreStable`, `StreamsEndAtTheSignal` | `WokenResultStable`, `NoStreamAfterWake` |
| `RunRowsSettle` | `RunRowSettlesOnce` |
| `VerdictsStand` | `VerdictNotOverwritten` |
| `Refinement` | `OwnershipSpec`: `AgentRuns` implements `RunOwnership` |

None of these properties is inductive. What the invariant adds:

- `SlotIsOpen`: the connection in `workerConn` is open, so no entry is ever registered
  on a connection whose tear-down has begun.
- `EntriesCoherent`: an entry carries the connection its run's request went out on, and its
  run is not superseded; while it is live its run has no result and that connection has
  not been through `failCallbacksForConn`. `NoStrandedEntry` follows from it.
- `DisplacedIsOut`: a displaced run had registered, is in no entry and has not claimed. A
  release needs the entry, so it never claims later: `DisplacedNeverClaims`. It rests on
  `EntriesHaveWaiters` (the run an entry names has not released yet).
- `FailingOnce`: a run some tear-down has yet to fail was sent on that connection, has no
  live entry and no result yet, so nothing else signals it meanwhile. Together with
  `WokenHasResult` it says that a waiter that woke up without being superseded has the only
  result it will ever get, which is what `WokenResultStable` needs.
- `NewRunsAreQuiet`: a run that has not registered is in no entry, frame or flag.
- `InPlace`: a waiter past `idle` works for an incident, a reader in a handler has a run.

Three theorems need a little more, proved next to `IndInv`. `SettledInTheEnd`: a running
incident has a run that works for it and was displaced by nobody, and only displaced runs are
superseded, unless the row's last final write failed. A registration displaces one such run and
is the next one itself; a run that was not displaced still owns its entry when it releases
(`UndisplacedRunsKeepEntry`), so it comes to the final write. `RunRowFresh`: nothing writes a
run's telemetry row before `CreateRunRow`. `ColumnWriteIsPrompt`: between `isCurrentRun` and
the column update of a frame, its reader reads no other final frame, so no run that reported
over the same connection displaced it before that.

`Refinement` maps `callbacks[i].run` to `holder[i]` and a run's fate to what can be read
from the registry and its waiter. `Register` and the successful `Release` are the two
abstract steps, every other action stutters; each case uses the invariant before and
after the step.

Model-checked only: the two liveness properties.

## AlertIncidents

### Correspondence

`incident` and `alert` are the committed rows. A transaction's uncommitted writes and
row locks are in its slot of `tx` (or of `ingest`, for the singleflight leader of a
firing key), and one action is one statement, the last one together with the commit.
`HeldIncidents`/`HeldAlerts` are the locks an open transaction has, `NeededIncidents`/
`NeededAlerts` those its next statement takes; a statement runs when it is `Granted`. A
waiting statement continues with the committed row as it is by then, as READ COMMITTED
does; `FindStale`/`CloseStale` show the one place where a statement keeps an older view
of another table while it waits. `Abort` fails one transaction of a set that waits in a
circle, `Restart` loses every open transaction and goroutine.

| model | code |
|---|---|
| `Correlate`, `LockTarget`, `Link`, `LinkFails` | `processAlert` up to `LinkAlertToIncident` |
| `Spawn`, `Claim`, `Cancel`, `Launch` | `SpawnIncidentManager`, `InsertFiringAlert` and what follows either outcome |
| `Complete`, `Fail`, `CommitComplete` | `UpdateIncidentComplete` |
| `FindFiring` ... `CommitResolve` | `processResolvedAlert`, `ResolveAlertTx` |
| `BeginClose`, `CommitClose` | `CloseIncident` |
| `EvaluateMerge`, `LockMerge`, `CommitMerge` | `EvaluateAndMerge`, `mergeIncidents` |
| `ReadMove`, `CommitMove`, `SpawnUnlinked`, `CommitUnlink`, `StartUnlinked` | `MoveAlertToIncident`, unlink |
| `SweepAlerts`, `SweepIncidents` | `MonitorSweepService.RunSweep` |
| `ListStale`, `StaleAlerts`, `FindStale`, `CloseStale` | `StaleCloseService.Run`, `closeBatch` |

Abstractions. The correlator and the merge LLM pick any candidate the code offers or
none; prompts and verdicts are not modelled. Time is two booleans a row: `watched`
(`monitor_until` lies ahead) and `quiet` (older than the stale cutoff). `quiet` matters
only to the stale close and changes only where that takes part. `Link` follows the whole chain
of merged incidents in one step and `ReadMove` makes its two reads in one; `CommitMove` takes
its locks at once, so deadlocks are those among the waits that are modelled. Alerts without a
source fingerprint are outside the unique index and not modelled; the listener-channel copy of
`processAlert` has the same steps. Status `diagnosed` is never written by the code read
here. `RowToInsert` is a bound: an insert begins only when an alert row is free.
`LinkTarget` is five times `Hop`, as `linkRedirectMaxHops` has it.

`Operations` selects which optional operations take part in an instance, since not every
property holds next to every operation: see below. `Mentioned`, `ClosedByHand` and `MovedTo`
are the incidents whose threads users mention the agent in, that operators close and that they
move alerts to; an empty set leaves the operation out. `survivors` is a history variable: the
incidents that others have been merged into.

### Runs

| run | instance | shows |
|---|---|---|
| `alert_lifecycle` | 2 incidents, 3 alerts, 2 keys, 2 transactions; merges, a mention and a close by hand of the second incident | `CompletedHasFiringAlert`, `EntersMonitorQuiet`: the promotion to monitor is never lost and never early; `InvestigationsHaveAlerts`; `NoFiringAlertOnMerged` |
| `alert_sweeping` | 2 incidents, 1 alert, 1 key, 2 transactions; sweep, moves to the first incident, unlink, stale close, settings errors, expiry, restarts | `MonitorEnds` |

Bounds. Two keys let two alerts of one incident fire at a time, so that with two transactions
the two last resolutions run concurrently, or one of them next to a completion, with two
ingestions beside them; every transaction that touches an incident's status locks its row, so
a third would wait. A second incident lets a duplicate webhook spawn one and a merge happen;
the third alert is one whose link follows the merge. The second incident is the one that is
merged away, so it is the one whose resumed run and close by hand compete with the merge; the
first may be investigated by the run of its alert. What these bounds could still hide is what
the proofs are for. The sweeping run needs one alert, which
is linked, resolved, moved and left over; its operations are what competes with the sweep.
Restarts take part there, where a promotion can be lost for good; the properties of the
lifecycle run are about committed rows, which a crash leaves as they are, and about
goroutines, which it ends.

Fairness (`FairSpec`): strong fairness of the next step of each ingestion and of each
transaction that has begun, since PostgreSQL grants a row lock to its waiters in turn;
weak fairness of `Abort`, since it detects deadlocks after a timeout; strong fairness of
the sweep's two statements, since it runs at every start and at every tick and some
sweep gets through between two restarts. Alerts, investigations and operators get none.
`MonitorEnds` says that an expired monitor is eventually closed or watched again; it
does not say that it is closed, because every new firing extends the window.

`CompletedHasFiringAlert` is checked without moves, unlinks, sweeps, stale closes and settings
errors because it does not hold next to them: a move or an unlink takes an incident's last
firing alert away without looking at its status; `closeBatch` resolves the alerts of
an incident it may then leave open; a resumed investigation that completes between
`RunSweep`'s two statements, and a settings error while resolving, leave an incident
completed. Next to merges it excepts the incidents that others were merged into. The other
three properties do not hold next to moves: a move locks neither the incident it leaves nor
the one it reaches. These are limits of the code's promise, not of the model.

### Proved

For any numbers of incidents and alerts, any keys and transaction slots, and, but for the
hypotheses in the last column, any optional operations, restarts and deadlocks included:

| theorem | property | unless |
|---|---|---|
| `TypeCorrect`, `LifecycleInvariance` | `TypeOK`, `LifecycleInv` | |
| `EveryInvestigationHasAlerts` | `InvestigationsHaveAlerts` | operators move or unlink alerts |
| `MonitorIsEnteredQuiet` | `EntersMonitorQuiet` | operators move alerts |
| `MergedStaysQuiet` | `NoFiringAlertOnMerged` | operators move alerts, or a chain of merges is longer than five |
| `MergedStaysQuietAmongFew` | the same, among six incidents | operators move alerts |
| `CompletedStillFires` | `CompletedHasFiringAlert` | operators move or unlink alerts, the sweeps run, or settings cannot be read |

Each hypothesis is a case in which the code breaks the property, listed above, or, for chains
longer than five, the bound of `loadLinkTargetTx`, which then returns a merged row.

`LifecycleInv` is the part that all of them share:

- `OneHolder`: no two goroutines hold the row lock of one incident. It turns the lock of
  `HeldIncidents` into what the properties need: whoever holds it is the only one to write.
- `CheckedUnderLock`: what was checked under that lock (both incidents of a merge are
  finished, the incident to promote is completed) still holds at the commit.
- `SpawnedUntouched`: an incident between its insertion and its launch is investigated,
  resumed and completed by nobody, though it may be closed; each has one spawner.
- `NewerToOlder`: merges point from newer to older incidents, so forward pointers end.
- `KnownRows`: what a transaction knows at each statement, and which operation brought it
  there.

`AlertsKept`, `CountsStand`, `LinksToLive` and `LastOneSees` then strengthen one property each:
a claimed incident has an alert before anything can investigate it; a count of none, taken
under the lock, stands until the write; an ingestion inserts into an incident that is not
merged away; and a resolution that does not promote has seen another alert fire, which goes on
firing until somebody else's resolution has to decide. The proofs go through lemmas about a step of the
whole system: who may write the status of an incident (`StatusStep`), make an alert fire on it
(`FiringArrives`), or end that (`FiringEnds`).

`MonitorEnds` is model-checked only.

## WorkerLink and OneshotRPC

### Correspondence

| model | code |
|---|---|
| `slot`, `mu`, `conn` | `h.workerConn`, the holder of `h.mu` across a blocking write, where each `HandleWebSocket` goroutine is |
| `pending[q]` | the connection of the entry in `h.pendingOneshot` |
| `held[c]`, `losing[c]` | what a reader, or `failPendingOneshotForConn`, has taken from the map and not yet signalled |
| `reply[q]` | the call's buffered channel, of capacity one |
| `sock`, `ws`, `up`, `loop` | the client's sockets, `this.ws`, `this.connected`, and whether `connectWithRetry` runs or the monitor's timer |
| `CheckWorker`, `Register`, `WriteDone`, `WriteFails`, `ReceiveReply`, `TimeOut` | `OneShotLLM` |
| `Upgrade`, `TakeSlot`, `LeaveReadLoop`, `ClearSlot`, `FailPending`, `SignalLost` | `HandleWebSocket`, `cleanupWorkerConn` |
| `LookUpEntry`, `SignalAnswer` | `handleOneshotLLMResponse` |
| `Dial`, `DialFails`, `OnOpen`, `Drops`, `OnClose`, `Reconnect` | `ws-client.ts`, `monitorConnection` |
| `OnMessage`, `Respond` | the worker's handler and `runOneshotLLM` |

The API side is concurrent: an action is one critical section, channel operation or blocking
write. The worker is one event loop: an action is one callback. Connections are numbered in
the order they are dialled. A request may reach a socket whose peer is already gone; a
response goes out over the connection that is current when it is ready, or is dropped.
`OneshotRPC` hides all of this: a call asks, the worker serves a request at most once, and a
call ends once, in an answer only if its own request was served.

### Run

`worker_link`: 2 requests, 2 connections; `PendingMatchesCalls`, `CallsReturnPromptly`,
`ImplementsRPC`. Two connections give a close event of the old socket after the new one has
opened, and a response over another connection than its request's; two requests, an entry that
is mistaken for another.

Fairness: weak fairness of every goroutine's and every callback's step. Writes return, a dial
succeeds or fails, LLM requests of the worker end, close events arrive, and an end of a
connection whose other end has closed is noticed. `TimeOut` has none: `CallsReturnPromptly`
says that a call returns without its deadline, so the deadline may not stand in for an answer
that never comes. After a dropped response it is the reconnect that ends the call.

### Proved

For every set of requests and any number of connections: `Invariance` (`LinkInv`),
`TypeCorrect`, `CallersAreCovered` (`PendingMatchesCalls`) and `Refinement`
(`ImplementsRPC`). `PendingMatchesCalls` is inductive only with `SlotIsLive` (a call registers
on a connection whose tear-down has not reached the slot, hence before its `FailPending`),
`TornDownOnce` and `CallsAreCovered`, which speaks of a call from its registration on and not
only once it waits. The refinement needs `AnswersAreServed` and `WorkIsSent`: an answer in a
frame, in a reader's hands or in a channel is the response to the same request.

## LaunchChain

### Correspondence

| model | code |
|---|---|
| `chain`, `prev`, `resolved` | `launchChain.get(incident)`, the promise each launch awaits, and the resolved ones |
| `active` | `activeSessions.get(incident)` |
| `Arrive`, `Reject` | `handleNewIncident`, `handleContinueIncident` up to the first await |
| `Proceed`, `Aborted` | the launch after its predecessor, `abortInFlightSession` |
| `Register`, `BootstrapFails`, `PromptEnds`, `Finish` | the runner's session, its `finally` and the launch's own |
| `Cancel`, `CancelReturns` | `handleCancelIncident`, which is outside the chain |

The event loop makes everything between two awaits one action. One incident: different ones
share nothing here. `abort()` of the SDK returns when the session is idle, or throws (`stuck`).

### Run

`launch_chain`: 4 launches, 1 cancel; `OneSessionRuns`, `NewerIsNotAborted`,
`LaunchesReport`. Four launches give a running one, one that aborts it, one that waits and one
that arrives after the chain has been cleaned up.

Fairness: weak fairness of each launch's steps; a prompt ends by itself or because it was
aborted. Frames and cancels get none.

### Proved

For any number of launches and any set of cancels: `Invariance` (`ChainInv`), `TypeCorrect`,
`SessionsAreExclusive` (`OneSessionRuns`), `RunningSessionsAreTracked` and
`ReplacementGoesForward` (`NewerIsNotAborted`). Exclusion needs that launches settle in order
(`ArriveInOrder`, `ChainCovers`: a launch's promise stands for all before it; `OneAtATime`) and
`ClearedBeforeRegister`: while a launch is about to register, no session runs but a stuck one
and the one it is aborting.

## McpPool

### Correspondence

Instances share nothing but `stopped`, so `entry` is the map's value for one id.

| model | code |
|---|---|
| `entry`, `hasConfig`, `stopped` | `p.connections[id]`, `p.configs`, `p.stopped` |
| `phase`, `connected`, `closing` | the subprocess and `conn.closed`, `conn.connected`, closes left to a goroutine |
| `turn`, `wire`, `readers` | the holder of `idMu`, requests not yet answered, read goroutines that wait for a line |
| `CallTool`, `RegisterServer`, `Probe` | the entry points; probes are `RefreshTools` and `HealthStatus` |
| `LookUp`, `Establish`, `Insert` | `GetOrConnect`: two critical sections and the work between them |
| `Write`, `Answer`, `TimeOut`, `ReadFails` | `sendStdioRequest` |
| `Retry`, `GiveUp` | `retryWithBackoff` |
| `CleanupIdle`, `CloseConn`, `CloseAll`, `ServerDies` | idle clean-up, `close()`, shutdown, the subprocess |

Response ids are not compared by the code: the line that arrives goes to any read goroutine
that waits for one. Idle time is not kept: the pooled connection may be found idle at any
moment. A call that times out marks its connection unhealthy, "so the pool reconnects on the
next call" (`pool.go:923-925`); `GetOrConnect` looks at the mark, `CallTool` does not and uses
the entry it finds (`pool.go:319-365`), here as there. Such a call can be given the answer to
an older request: `HealthyAnswersAreOwn` speaks of connections still marked connected only.
`evicted` is a history variable: connections that a retry took out of the map. Left out: the
SSE transport, `Close` of one instance (only tests call it), system registrations and the
schema cache.

### Run

`mcp_pool`: 1 tool call, 2 registrations, 1 probe, 2 connections, 2 attempts;
`PooledNotClosed`, `StoppedPoolEmpty`, `RunningIsAccountedFor`, `HealthyAnswersAreOwn`,
`CallsReturn`, `StoppedPoolDrains`. The two registrations race to insert; the tool call's retry
meets a connection that is not its own; the probe shares its stream.

Fairness: weak fairness of each caller's step and of the closes left to goroutines. Requests
have deadlines (five minutes, thirty seconds), so a read ends; nothing makes an external
server answer.

### Proved

For every set of callers, any number of connections and attempts: `Invariance` (`PoolInv`),
`TypeCorrect`, `PooledConnectionsAreUsable`, `ShutdownIsFinal`, `SubprocessesAreAccountedFor`,
`HealthyConnectionsAreInStep`. `MadeIsPrivate` (what a caller has established is known to it
alone until it inserts it) and `KnownAreMade` carry the first three; `InStep`, with
`TurnsMatch`, the last: on a running connection that is marked connected the only request
under way is that of the holder of `idMu`.

## CronRunner

### Correspondence

| model | code |
|---|---|
| `row`, `inserted` | `cron_jobs` |
| `entries`, `scheduled`, `mu` | `r.entries`, the scheduler's own entries, `r.mu` |
| `StartLoads`, `StartRegisters`, `StartTicking` | `Start` |
| `Create`, `Update`, `Delete`; `ReloadReads`, `ReloadFails`, `ReloadRegisters` | the HTTP operations' transactions; `Reload` after each |
| `Fire`, `LoadRow`, `RunNow`, `GiveUp`, `SpawnIncident`, `RunStarts`, `RunStartFails`, `RunEnds`, `Displace`, `Claim`, `Finalize`, `Post`, `RecordResult` | `fire`, `RunNow`, `execute` |
| `Restart` | the process ends; only the rows remain |

`unsynced` marks the two exceptions of `SettledEntriesMatchRows`: a job whose reload could not
read its row, which the caller logs, and one that `Start` registered from the row it had read
before a call changed it. `UpdateIncidentComplete` may fail in `RunStartFails` and `Finalize`
(`cron_runner.go:468-470`, `515-517`): the error is logged, the tick posts and records its
result as if the write had succeeded, and the incident still says running. `unwritten` marks
such a tick, and `TicksEndWell` excepts its incident: what it says of every tick is that
nothing but such a failure leaves the incident running, that ok means a completed investigation
and, where asked for, a posted message, and that a displaced tick writes and posts nothing. A
tick that a restart cuts short leaves its incident running. `recordResult`'s own write may fail
and is logged: `result` is what it is given. Left out: `Stop` (process exit), a `Start` that
cannot read the table, `last_run_*` and `next_run_at`, which are never read back, and prompts.
A run's displacement is `AgentRuns`'s; here it is an event of the tick.

### Run

`cron_runner`: 1 job, 2 schedules, 3 clients, 1 tick; `NoLeakedEntry`,
`SettledEntriesMatchRows`, `TicksEndWell`. Jobs meet only in the scheduler's ids, so one is
enough with several clients on it: three give an update that commits while another reloads and
a third waits, next to `Start`. Ticks do not meet each other but through the registry.

### Proved

For any number of jobs, clients and ticks: `Invariance` (`CronInv`), `TypeCorrect`,
`EntriesAreAccountedFor`, `RegistrationsConverge` and `TicksFinishTheirIncidents`.
Convergence needs `ReadIsFresh`: the row a reload has read is the row still, or the call that
has changed it since will reload in its turn, which holds because `r.mu` is held from the read
to the registration (`MutexHeld`). `NoLeakedEntry` needs `EntriesKnown`, `EntriesPresent` and
`UniqueIds`; that there is always a fresh id is a counting argument
(`FiniteSetTheorems`).

## CronProposals

### Correspondence

The module extends `CronRunner`: an approval calls the runner's `Update` or `Create`, and
everything else that the runner does goes on.

| model | code |
|---|---|
| `proposal`, `review` | the `proposals` table, the operator's request in progress |
| `CheckDuplicate`, `CheckNewDuplicate`, `Propose`, `UpdateDraft` | the gateway's `proposals.create` and `proposals.update_draft`, another process |
| `Begin`, `CheckStale`, `Supersede`, `ApplyUpdate`, `ApplyNew`, `ApplyFails`, `FinishApprove` | `Approve` |
| `Begin`, `Reject` | `Reject` |
| `OperatorCreates`, `OperatorUpdates`, `OperatorDeletes` | operators' own calls on jobs |
| `RestartReviews` | the API restarts and the gateway does not |

`origin`, `vetted` and `contested` are history: which proposal created a job, which jobs an
operator has enabled, which proposals were under two reviews at once. The content of a proposal
is a schedule. A review forgets the content it has read once it has applied it or no longer can. The kinds that edit prompts, runbooks and memories take the same path with
another apply and are left out, as is the chat about a proposal. A tick is followed up to the
point where it may run.

### Run

`cron_proposals`: the instance of `cron_runner` with 2 clients and 1 proposal;
`ApprovedWasApplied`, `UnvettedJobsDoNotFire`, `UncontestedDecisionsStand`, `RunnerSpec`. Two
clients are two reviews at once, or a review next to an operator's change of the same job.

### Proved

For any number of jobs, clients and proposals: `ProposalsInvariance`, `ProposalsTypeCorrect`,
`ApprovalsHaveEffects`, `ProposedJobsWaitForOperators`, `DecisionsStandUncontested` and
`ProposalsImplementRunner`: every step is one of the runner's or invisible to it. So what is
proved of the runner holds under proposals, which `AppliedSchedulesConverge` draws for
schedules. `ProposalsInv` adds to `CronInv` that what a review works on was written
(`ReviewsSound`), `EnabledIsVetted`, and `ContestsKnown`: an open review of a decided proposal
is a contested one.

## MemoryFiles

### Correspondence

| model | code |
|---|---|
| `row`, `inserted` | the `memories` table of one scope, with its unique name |
| `file`, `manifest` | `<id>-<name>.md`, the agent's `<name>.md`, and `MEMORY.md` |
| `CreateMemory`, `UpsertByName`, `ReadBack`, `ReadForUpdate`, `Save`, `SaveFails`, `DeleteMemory` | the operations up to their sync |
| `ListFiles`, `ReadFile`, `EndReading`, `IngestRow`, `IngestRowFails`, `EndBatch` | `IngestFromDisk` |
| `Lock`, `WriteFile`, `EndWriting`, `WriteManifest`, `ListStale`, `RemoveStale`, `EndPurging`, `SyncFails` | `SyncMemoryFiles` under `syncMu` |
| `DropFile`, `DropManifest`, `EndDropping` | `RemoveAll` of a scope without rows |
| `AgentWrites` | the agent's memory-writer, which shares the directory |
| `Restart` | every goroutine is lost; main syncs before it serves |

Of a memory its name and one value for its content are kept. The agent's writes are atomic and
go to `<name>.md` only. The statements of an ingest's batch come in any order, since the code
ranges over a map. Left out: read-only operations, validation, author and manifest caps,
malformed files, symlink and FIFO checks, several scopes (each has a directory of its own).

History: `behind` (something failed since the last sync read the rows), `torn` (a removal of
the directory has begun and `MEMORY.md` is still there), `disturbed` (of an ingest, the names
whose upsert failed, whose file the agent wrote after `HasRead`, or whose row another call
changed after `HasWritten`). They word the exceptions of the properties. What other calls sync,
read and write before that is no exception of `IngestedBeforePurge`; that a sync of another
call may remove a file no ingest has read yet is outside it, since the property is about the
files that are there when the ingest comes to its own sync.

### Run

`memory_files`: 1 row at a time, 2 names, of which the agent writes one, 2 contents, 2 callers
and the boot; `FilesMatchRows`, `ManifestIsBacked`, `IngestedBeforePurge`. Two callers are an
older snapshot next to a newer one, or an ingest next to a change; two names, a memory renamed
under a sync; two contents, an agent's file that differs from the canonical one. With two rows
and one content, which is the other way to keep it small, the same properties hold (3.3 million
states in 1.5 minutes).

### Proved

For any rows, names, contents and callers: `Invariance` (`MemInv`), `TypeCorrect`,
`SyncsConverge` (`FilesMatchRows`), `ManifestsAreBacked`, `UndisturbedIngestsAreExact`
(`IngestedBeforePurge`). `MemInv` has two halves. `DiskInv`: whoever changed a row owes a sync
or has left the directory behind (`Current`); `syncMu` has one holder (`OneHolder`); at each
step of a sync what it has done so far is on disk (`SyncProgress`, `WritesMirrored`); and
`ManifestIsBacked`. `IngestInv`: for each undisturbed name an ingest has yet to read its file,
holds what it says, or has written it to the table (`IngestProgress`, with `TombstonesAreBare`,
`RowsInserted`, `ReadsOnce`).

## Where comments and code differ

`stale_final_write` is a run that TLC must find violated: `ReleaseRun` and the final write
are two steps, and a run that registers between them has its row overwritten by the older
run's status and response.

The others are visible in the actions, or are the exceptions that a property names, and have
no run of their own.

- A start whose write fails restores the older run's entry, yet its caller writes status
  failed over that run (`RegisterFails`, `RecordStartFailure`).
- A displaced run's reader that has passed `isCurrentRun` can still write its verdict after
  the current run's, when the two report over different connections: `VerdictNotOverwritten`
  is about runs that reported over the same one.
- A run displaced before its telemetry row exists is never labelled superseded, and one that
  ends by disconnect keeps a row that says running (`LabelPrevious`; `FailCallbacks` leaves
  `runRow` alone).
- `api_incidents.go` says that an incident stays completed only while one of its alerts fires.
  A resolved webhook reads its alert row before the transaction that locks it: a merge in
  between sends the promotion check to another incident, and this one stays completed; a move
  or an unlink does not check the incident it takes the alert from.
- The stale close resolves the alerts of an incident before it re-checks it, and may keep it.
- Merge and close lock incidents before alerts, resolve the other way round; PostgreSQL breaks
  the circle by failing one.
- Two reviews of one proposal at once can overturn each other's decision.
- A retry of the pool deletes whatever connection the map holds (`pool.go:402`), which may be
  another caller's; the subprocess taken out that way is closed by nobody, after `CloseAll`
  too.
- A call through the pool may use a connection marked unhealthy, though the comment at the mark
  says that the pool reconnects on the next call.
- An incident whose final write fails stays running, whoever was to finalize it; a cron tick is
  recorded as ok or error all the same.
- A job that a call changes while `Start` works through the rows it has read may keep the
  schedule that `Start` read, until it is changed again.
- Memories: another call's sync, the boot's included, purges files and tombstones that no ingest
  has read; an ingest next to another resurrects a deleted memory or reverts an operator's
  update; a failed upsert does not stop the purge (`memory_service.go:713`), and the agent's
  file is lost.

## What is proved and what is model-checked

Each component has a module of proofs, for every value of its constants: an inductive
invariant with the type invariant in it, the safety properties of its runs and, of three, a
refinement. `TypeOK` is proved of every component, so no run checks it.

Every safety property that a run checks is proved. Model-checked only: liveness
(`DisconnectedWaitersWake`, `DisplacedWaitersExit`, `MonitorEnds`, `CallsReturnPromptly`,
`LaunchesReport`, `CallsReturn`, `StoppedPoolDrains`), since the prover does not reason about
fairness and `ENABLED`.

Every property of a passing run has a mutant in `PROJECT.json`: a plausible slip in the code
that the run catches.

## Not modelled

- *API side of the transport*: `CancelIncident` (no caller outside tests), the broadcast of
  proxy settings, frames without a `run_id`; a write that blocks for good under the locks; a
  peer that vanishes without closing. A running incident whose waiter died with the process is
  settled by nobody, and no comment promises otherwise.
- *Worker*: process exit, heartbeats, what the agent SDK does inside a session.
- *Slack typing indicator*: best effort by its own comments, and nothing reads it back. A late
  `SetStatus` or `AddReaction` can land after the `Stop` that should undo it.
- *Socket Mode manager*: one goroutine restarts one connection under one mutex; what is
  concurrent is inside the SDK.
- *Retention*: two sequential passes over rows that are weeks old; without ages nothing in the
  lifecycle tells them from others.
- *Cache, limiter, authorizer*: each operation is one critical section over one map or float,
  with real time in it.
- *Stateless or single-request code*: gateway vendor tools and their schemas (a large part of
  the repository), CRUD handlers, middleware, settings, migrations, alert adapters and
  extraction, formatting rules, summaries, titles, Codex output parsing, the web UI. They hold
  no state that several actors change in steps; the repository's table tests fit them better.

Most of the repository's lines are in the last group, so the definition-to-source map covers a
small share of the whole and most of the code in which actors meet.

## Running

    tlc -config <name>.cfg <MC module>      # e.g. -config McpPool.cfg MCMcpPool.tla
    tlapm <module>_proofs.tla

`AgentRuns*.cfg` belong to `MCAgentRuns`, `AlertIncidents*.cfg` to `MCAlertIncidents`, every
other configuration to the `MC` module of its name. Each passing run ends within three minutes
on two cores.
