----------------------------- MODULE CronRunner -----------------------------
(***************************************************************************)
(* The cron runner (internal/services/cron_runner.go): cron_jobs rows,     *)
(* the in-process scheduler that fires them, the HTTP calls that create,   *)
(* change, delete and run them, and the ticks, each of which drives one    *)
(* agent investigation.                                                    *)
(*                                                                         *)
(* Three parties change what is scheduled: Start registers the rows it has *)
(* read while the HTTP server already answers, every call re-registers its *)
(* job after its transaction has committed, and a restart forgets the      *)
(* scheduler.  r.mu serialises the registrations, not the row writes.      *)
(*                                                                         *)
(* An update's first read of the row is not a step of its own: it finds a  *)
(* row that existed, and the later statement matches no row if the job was *)
(* deleted in between.  The prompt, the channel and the tools of a job are *)
(* left out: registration does not read them.  So are last_run_* and       *)
(* next_run_at, which are shown and never read back; whether a job posts   *)
(* its results is settled where it matters.                                *)
(***************************************************************************)
EXTENDS Naturals, FiniteSets

CONSTANTS
    MaxJobs,        \* bound: rows that are ever inserted; ids are not reused
    SystemJobs,     \* ids of the seeded rows (IsSystem)
    Schedules,      \* valid cron expressions
    Clients,        \* HTTP handlers that change jobs
    Ticks,          \* firings, by the scheduler or by RunNow
    None            \* no row, no entry, no holder of r.mu

ASSUME JobsAssumption == MaxJobs \in Nat /\ SystemJobs \subseteq 1..MaxJobs
ASSUME NamesAssumption ==
    /\ Clients \cap {"starter", None} = {}
    /\ None \notin Nat \cup Schedules \cup {"starter"}

Jobs == 1..MaxJobs

VARIABLES
    row,        \* cron_jobs
    inserted,   \* ids given out so far
    entries,    \* r.entries: the scheduler entry of each job
    scheduled,  \* the scheduler's entries: their id, job and schedule
    mu,         \* the goroutine that holds r.mu across a statement
    start,      \* how far Start has come
    loaded,     \* rows Start has read and not yet registered
    client,     \* what each client is doing, to which job, as read from the row
    tick,       \* what each tick is doing, for which job, and what it leaves
    unsynced    \* jobs registered from an old row, or not at all

jobVars == <<row, inserted>>
schedVars == <<entries, scheduled, mu, unsynced>>
vars == <<jobVars, schedVars, start, loaded, client, tick>>

Rows == [enabled : BOOLEAN, schedule : Schedules] \cup {None}
Plans == Schedules \cup {None}      \* what to register: nothing, or a schedule
EntryIds == 1..2 * MaxJobs + 1

StartStates == {"off", "registering", "on"}
ClientStates == {"idle", "committed", "registering"}
TickStates == {"unfired", "fired", "skipped", "loaded", "starting", "waiting", "claiming",
               "finalizing", "posting", "recording", "over", "displaced", "lost"}
IncidentStates == {"none", "running", "completed", "failed"}
Results == {"none", "ok", "error"}

ClientRecords == [at : ClientStates, job : Jobs \cup {None}, seen : Plans]
TickRecords == [at : TickStates, job : Jobs \cup {None}, posts : BOOLEAN,
                incident : IncidentStates,
                unwritten : BOOLEAN,        \* history: its incident's final write failed
                posted : BOOLEAN, result : Results]

Idle == [at |-> "idle", job |-> None, seen |-> None]
Unfired == [at |-> "unfired", job |-> None, posts |-> FALSE, incident |-> "none",
            unwritten |-> FALSE, posted |-> FALSE, result |-> "none"]

TypeOK ==
    /\ row \in [Jobs -> Rows]
    /\ inserted \in 0..MaxJobs
    /\ entries \in [Jobs -> EntryIds \cup {None}]
    /\ scheduled \subseteq [id : EntryIds, job : Jobs, schedule : Schedules]
    /\ mu \in Clients \cup {None}
    /\ start \in StartStates
    /\ loaded \in [Jobs -> Plans]
    /\ client \in [Clients -> ClientRecords]
    /\ tick \in [Ticks -> TickRecords]
    /\ unsynced \subseteq Jobs

Init ==
    /\ inserted \in 0..MaxJobs
    /\ SystemJobs \subseteq 1..inserted
    /\ row \in [Jobs -> Rows]
    /\ \A j \in Jobs : j > inserted => row[j] = None
    /\ \A j \in SystemJobs : row[j] # None
    /\ entries = [j \in Jobs |-> None]
    /\ scheduled = {}
    /\ mu = None
    /\ start = "off"
    /\ loaded = [j \in Jobs |-> None]
    /\ client = [c \in Clients |-> Idle]
    /\ tick = [x \in Ticks |-> Unfired]
    /\ unsynced = {}

-----------------------------------------------------------------------------
(* Registration *)

Scheduling(r) == IF r # None /\ r.enabled THEN r.schedule ELSE None

FreshEntry == CHOOSE n \in EntryIds : \A e \in scheduled : e.id # n

WithoutKept(entry) == scheduled
Without(entry) == {e \in scheduled : e.id # entry}

\* registerLocked, Reload's not-found branch: job j gets the entry that was
\* read from its row, in place of the one it had.
Registered(j, plan) ==
    IF plan = None
    THEN /\ scheduled' = Without(entries[j])
         /\ entries' = [entries EXCEPT ![j] = None]
    ELSE /\ scheduled' = Without(entries[j]) \cup
                         {[id |-> FreshEntry, job |-> j, schedule |-> plan]}
         /\ entries' = [entries EXCEPT ![j] = FreshEntry]

\* Start claims r.started and reads the enabled rows.
StartLoads ==
    /\ start = "off"
    /\ start' = "registering"
    /\ loaded' = [j \in Jobs |-> Scheduling(row[j])]
    /\ UNCHANGED <<jobVars, schedVars, client, tick>>

\* Start registers one of them: the row it has read, whatever it is now.
StartRegisters(j) ==
    /\ start = "registering" /\ mu = None
    /\ loaded[j] # None
    /\ loaded' = [loaded EXCEPT ![j] = None]
    /\ Registered(j, loaded[j])
    /\ unsynced' = IF Scheduling(row[j]) = loaded[j]
                   THEN unsynced \ {j} ELSE unsynced \cup {j}
    /\ UNCHANGED <<jobVars, mu, start, client, tick>>

\* scheduler.Start
StartTicking ==
    /\ start = "registering"
    /\ \A j \in Jobs : loaded[j] = None
    /\ start' = "on"
    /\ UNCHANGED <<jobVars, schedVars, loaded, client, tick>>

-----------------------------------------------------------------------------
(* The calls of the HTTP API *)

Committed(c, j, r) ==
    client' = [client EXCEPT ![c] = [at |-> "committed", job |-> j, seen |-> Scheduling(r)]]

\* The INSERT writes the column default for a false Enabled, which the same
\* transaction corrects.
InsertedEnabledByDefault(enabled) == TRUE
InsertedEnabled(enabled) == enabled

\* CreateJob: the transaction.
Create(c, schedule, enabled) ==
    /\ client[c].at = "idle"
    /\ inserted < MaxJobs
    /\ LET j == inserted + 1
           r == [enabled |-> InsertedEnabled(enabled), schedule |-> schedule]
       IN  /\ inserted' = j
           /\ row' = [row EXCEPT ![j] = r]
           /\ Committed(c, j, r)
    /\ UNCHANGED <<schedVars, start, loaded, tick>>

\* UpdateJob: the transaction.
Update(c, j, schedule, enabled) ==
    LET r == IF row[j] = None THEN None
             ELSE [row[j] EXCEPT !.schedule = schedule, !.enabled = enabled]
    IN  /\ client[c].at = "idle"
        /\ j <= inserted
        /\ row' = [row EXCEPT ![j] = r]
        /\ Committed(c, j, r)
        /\ UNCHANGED <<inserted, schedVars, start, loaded, tick>>

\* DeleteJob: the transaction.
Delete(c, j) ==
    /\ client[c].at = "idle"
    /\ row[j] # None /\ j \notin SystemJobs
    /\ row' = [row EXCEPT ![j] = None]
    /\ Committed(c, j, None)
    /\ UNCHANGED <<inserted, schedVars, start, loaded, tick>>

\* What Reload registers.
RowToRegisterOwn(c) == client[c].seen
RowToRegister(c) == Scheduling(row[client[c].job])

\* Reload: take r.mu, read the row.
ReloadReads(c) ==
    /\ client[c].at = "committed" /\ mu = None
    /\ mu' = c
    /\ client' = [client EXCEPT ![c] = [@ EXCEPT !.at = "registering", !.seen = RowToRegister(c)]]
    /\ UNCHANGED <<jobVars, entries, scheduled, unsynced, start, loaded, tick>>

\* Reload: the read fails, which the caller logs.
ReloadFails(c) ==
    /\ client[c].at = "committed" /\ mu = None
    /\ client' = [client EXCEPT ![c] = Idle]
    /\ unsynced' = unsynced \cup {client[c].job}
    /\ UNCHANGED <<jobVars, entries, scheduled, mu, start, loaded, tick>>

\* Reload: replace the entry, release r.mu.
ReloadRegisters(c) ==
    /\ client[c].at = "registering"
    /\ Registered(client[c].job, client[c].seen)
    /\ mu' = None
    /\ client' = [client EXCEPT ![c] = Idle]
    /\ unsynced' = unsynced \ {client[c].job}
    /\ UNCHANGED <<jobVars, start, loaded, tick>>

-----------------------------------------------------------------------------
(* Ticks *)

TickMoves(x, from, to) == tick[x].at = from /\ tick' = [tick EXCEPT ![x] = [@ EXCEPT !.at = to]]

OnlyTicks == UNCHANGED <<jobVars, schedVars, start, loaded, client>>

\* The scheduler runs an entry's function on a goroutine of its own.
Fire(x, e) ==
    /\ start = "on"
    /\ tick[x].at = "unfired"
    /\ tick' = [tick EXCEPT ![x] = [@ EXCEPT !.at = "fired", !.job = e.job]]
    /\ OnlyTicks

\* fire's condition on the row it has read.
MayRun(r) == r # None /\ r.enabled

\* fire: read the row again.
LoadRow(x) ==
    /\ tick[x].at = "fired"
    /\ tick' = [tick EXCEPT ![x] = [@ EXCEPT !.at = IF MayRun(row[tick[x].job]) THEN "loaded" ELSE "skipped"]]
    /\ OnlyTicks

\* RunNow runs a disabled job too.
RunNow(x, j) ==
    /\ tick[x].at = "unfired"
    /\ row[j] # None
    /\ tick' = [tick EXCEPT ![x] = [@ EXCEPT !.at = "loaded", !.job = j]]
    /\ OnlyTicks

\* execute: no channel, no provider, no worker, or no incident.
GiveUp(x) ==
    /\ tick[x].at = "loaded"
    /\ tick' = [tick EXCEPT ![x] = [@ EXCEPT !.at = "recording", !.result = "error"]]
    /\ OnlyTicks

\* execute: SpawnAgentInvocation, UpdateIncidentStatus.  An incident whose
\* status could not be updated is still pending, which is the same here.
SpawnIncident(x) ==
    /\ tick[x].at = "loaded"
    /\ tick' = [tick EXCEPT ![x] = [@ EXCEPT !.at = "starting", !.incident = "running"]]
    /\ OnlyTicks

RunStarts(x) == TickMoves(x, "starting", "waiting") /\ OnlyTicks

\* What UpdateIncidentComplete leaves of an incident it is to give that status,
\* written or not: its error is logged and the tick goes on.
AfterComplete(incident, status, written) == IF written THEN status ELSE incident

\* What a tick leaves of its incident when StartIncident fails.
AfterFailedStartSkipped(incident, written) == incident
AfterFailedStart(incident, written) == AfterComplete(incident, "failed", written)

RunStartFails(x, written) ==
    /\ tick[x].at = "starting"
    /\ tick' = [tick EXCEPT ![x] =
                    [@ EXCEPT !.at = "recording", !.result = "error",
                              !.incident = AfterFailedStart(tick[x].incident, written),
                              !.unwritten = ~written]]
    /\ OnlyTicks

\* OnCompleted or OnError closes done.
RunEnds(x, verdict) ==
    /\ tick[x].at = "waiting"
    /\ tick' = [tick EXCEPT ![x] = [@ EXCEPT !.at = "claiming", !.result = verdict]]
    /\ OnlyTicks

\* OnSuperseded, or ReleaseRun returns false: the newer run has the incident.
Displace(x) ==
    /\ \/ TickMoves(x, "waiting", "displaced")
       \/ TickMoves(x, "claiming", "displaced")
    /\ OnlyTicks

\* ReleaseRun returns true.
Claim(x) == TickMoves(x, "claiming", "finalizing") /\ OnlyTicks

\* UpdateIncidentComplete, and then the post or the result, written or not.
Finalize(x, posts, written) ==
    LET status == IF tick[x].result = "ok" THEN "completed" ELSE "failed" IN
    /\ tick[x].at = "finalizing"
    /\ tick' = [tick EXCEPT ![x] =
                    [@ EXCEPT !.posts = posts,
                              !.at = IF posts THEN "posting" ELSE "recording",
                              !.incident = AfterComplete(tick[x].incident, status, written),
                              !.unwritten = ~written]]
    /\ OnlyTicks

\* What PostMessage leaves of the tick's verdict.
VerdictAfterPost(verdict, sent) == IF sent THEN verdict ELSE "error"

Post(x, sent) ==
    /\ tick[x].at = "posting"
    /\ tick' = [tick EXCEPT ![x] = [@ EXCEPT !.at = "recording", !.posted = sent,
                                             !.result = VerdictAfterPost(tick[x].result, sent)]]
    /\ OnlyTicks

RecordResult(x) == TickMoves(x, "recording", "over") /\ OnlyTicks

-----------------------------------------------------------------------------

\* The process ends and comes back: only the rows remain.
Restart ==
    /\ entries' = [j \in Jobs |-> None]
    /\ scheduled' = {}
    /\ mu' = None
    /\ start' = "off"
    /\ loaded' = [j \in Jobs |-> None]
    /\ client' = [c \in Clients |-> Idle]
    /\ tick' = [x \in Ticks |->
                   IF tick[x].at \in {"unfired", "skipped", "over", "displaced"} THEN tick[x]
                   ELSE [Unfired EXCEPT !.at = "lost"]]
    /\ unsynced' = {}
    /\ UNCHANGED jobVars

Starting == StartLoads \/ StartTicking \/ \E j \in Jobs : StartRegisters(j)

Reloading(c) == ReloadReads(c) \/ ReloadFails(c) \/ ReloadRegisters(c)

Calling(c) ==
    \/ \E s \in Schedules, e \in BOOLEAN : Create(c, s, e)
    \/ \E j \in Jobs, s \in Schedules, e \in BOOLEAN : Update(c, j, s, e)
    \/ \E j \in Jobs : Delete(c, j)

Ticking(x) ==
    \/ \E e \in scheduled : Fire(x, e)
    \/ \E j \in Jobs : RunNow(x, j)
    \/ LoadRow(x) \/ GiveUp(x) \/ SpawnIncident(x) \/ RunStarts(x)
    \/ \E written \in BOOLEAN : RunStartFails(x, written)
    \/ \E v \in {"ok", "error"} : RunEnds(x, v)
    \/ Displace(x) \/ Claim(x) \/ RecordResult(x)
    \/ \E posts, written \in BOOLEAN : Finalize(x, posts, written)
    \/ \E sent \in BOOLEAN : Post(x, sent)

Next ==
    \/ Starting
    \/ \E c \in Clients : Calling(c) \/ Reloading(c)
    \/ \E x \in Ticks : Ticking(x)
    \/ Restart

Spec == Init /\ [][Next]_vars

-----------------------------------------------------------------------------
(* Properties *)

(* The scheduler holds one entry for each job that r.entries knows, and no *)
(* other: no re-registration leaves an entry behind that fires for ever.   *)
NoLeakedEntry ==
    \A j \in Jobs :
        {e.id : e \in {f \in scheduled : f.job = j}} = {entries[j]} \ {None}

InFlight(j) == \E c \in Clients : client[c].at # "idle" /\ client[c].job = j

(* Once the calls that change a job have returned, the scheduler fires it  *)
(* on the row's schedule exactly if the row is enabled, whatever the order *)
(* in which the calls committed and re-registered.  Excepted are a job     *)
(* whose reload could not read it and one that Start registered from the   *)
(* row it had read before a call changed it.                               *)
SettledEntriesMatchRows ==
    \A j \in Jobs :
        start # "off" /\ loaded[j] = None /\ ~InFlight(j) /\ j \notin unsynced
        => {e.schedule : e \in {f \in scheduled : f.job = j}}
               = {Scheduling(row[j])} \ {None}

(* A tick that has come to its end hands on a result, leaves its incident  *)
(* running only if the final write of it failed, and any incident that did *)
(* not complete with an error.  A displaced tick has neither posted nor    *)
(* written: the replacement has its incident to finish.                    *)
FinishedTicksLeaveNothingRunning ==
    \A x \in Ticks : LET t == tick[x] IN
        /\ t.at = "over" =>
              /\ t.result # "none"
              /\ t.incident = "running" => t.unwritten
              /\ t.incident # "completed" => t.result = "error" \/ t.unwritten
        /\ t.at = "displaced" => t.incident = "running" /\ ~t.unwritten /\ ~t.posted

(* A tick is ok only if its investigation completed, which its incident    *)
(* says unless that write failed, and, for a job that posts its results,   *)
(* the message was posted.                                                 *)
OkMeansDelivered ==
    \A x \in Ticks : LET t == tick[x] IN
        t.at = "over" /\ t.result = "ok"
        => /\ t.incident = IF t.unwritten THEN "running" ELSE "completed"
           /\ t.posts => t.posted

(* What a tick hands to recordResult agrees with what it leaves behind.    *)
TicksEndWell == FinishedTicksLeaveNothingRunning /\ OkMeansDelivered

=============================================================================
