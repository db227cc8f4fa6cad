-------------------------- MODULE CronRunner_proofs --------------------------
(***************************************************************************)
(* Proofs about CronRunner, for any number of jobs, handlers and ticks.    *)
(***************************************************************************)
EXTENDS CronRunner, FiniteSetTheorems, TLAPS

-----------------------------------------------------------------------------
(* The inductive invariant *)

(* What a tick has done by the time it is at a step.                       *)
TickSound(t) ==
    /\ t.at = "fired" => t.job # None
    /\ t.at \in {"unfired", "fired", "skipped", "loaded"} =>
          t.incident = "none" /\ ~t.unwritten /\ ~t.posted /\ t.result = "none"
    /\ t.at \in {"starting", "waiting", "claiming", "finalizing", "displaced"} =>
          t.incident = "running" /\ ~t.unwritten /\ ~t.posted
    /\ t.at \in {"claiming", "finalizing"} => t.result \in {"ok", "error"}
    /\ t.at = "posting" =>
          /\ t.posts
          /\ t.result \in {"ok", "error"}
          /\ IF t.unwritten THEN t.incident = "running"
             ELSE t.incident = IF t.result = "ok" THEN "completed" ELSE "failed"
    /\ t.at \in {"recording", "over"} =>
          \/ t.result = "error" /\ (t.unwritten \/ t.incident \in {"none", "completed", "failed"})
          \/ /\ t.result = "ok" /\ (t.posts => t.posted)
             /\ t.incident = IF t.unwritten THEN "running" ELSE "completed"

TicksSound == \A x \in Ticks : TickSound(tick[x])

(* Entries have ids of their own.                                          *)
UniqueIds == \A e, f \in scheduled : e.id = f.id => e = f

EntriesKnown ==
    \A e \in scheduled : entries[e.job] = e.id

EntriesPresent ==
    \A j \in Jobs : entries[j] # None => \E e \in scheduled : e.job = j /\ e.id = entries[j]

(* r.mu is held across a reload's read and registration.                   *)
MutexHeld ==
    \A c \in Clients :
        /\ client[c].at = "registering" <=> mu = c
        /\ client[c].at # "idle" => client[c].job \in Jobs

(* The row a reload has read is the row still, or the call that has        *)
(* changed it since will reload the job in its turn.                       *)
ReadIsFresh ==
    \A c \in Clients : client[c].at = "registering" =>
        \/ client[c].seen = Scheduling(row[client[c].job])
        \/ \E d \in Clients : client[d].at = "committed" /\ client[d].job = client[c].job

JobSchedules(j) == {e.schedule : e \in {f \in scheduled : f.job = j}}

(* SettledEntriesMatchRows, and what goes before Start: no entry, or one   *)
(* that is right.                                                          *)
SettledIsRight ==
    \A j \in Jobs :
        loaded[j] = None /\ ~InFlight(j) /\ j \notin unsynced
        => \/ JobSchedules(j) = {Scheduling(row[j])} \ {None}
           \/ start = "off" /\ JobSchedules(j) = {}

NothingLoaded == start # "registering" => \A j \in Jobs : loaded[j] = None

CronInv ==
    /\ TypeOK
    /\ TicksSound
    /\ UniqueIds
    /\ EntriesKnown
    /\ EntriesPresent
    /\ MutexHeld
    /\ ReadIsFresh
    /\ SettledIsRight
    /\ NothingLoaded

-----------------------------------------------------------------------------
(* The scheduler's entries *)

(* There is always an id to give out.                                      *)
LEMMA FreshExists ==
    ASSUME TypeOK, EntriesKnown
    PROVE  FreshEntry \in EntryIds /\ \A e \in scheduled : e.id # FreshEntry
<1>1. SUFFICES \E n \in EntryIds : \A e \in scheduled : e.id # n
    BY DEF FreshEntry
<1>2. SUFFICES ASSUME \A n \in EntryIds : \E e \in scheduled : e.id = n
               PROVE  FALSE
    OBVIOUS
<1> DEFINE f == [n \in EntryIds |-> CHOOSE j \in Jobs : entries[j] = n]
<1>3. \A n \in EntryIds : f[n] \in Jobs /\ entries[f[n]] = n
    <2> SUFFICES ASSUME NEW n \in EntryIds PROVE f[n] \in Jobs /\ entries[f[n]] = n
        OBVIOUS
    <2>1. PICK e \in scheduled : e.id = n
        BY <1>2
    <2>2. e.job \in Jobs /\ entries[e.job] = n
        BY <2>1 DEF TypeOK, EntriesKnown
    <2> QED
        BY <2>2
<1>4. f \in [EntryIds -> Jobs]
    BY <1>3
<1>5. /\ IsFiniteSet(Jobs) /\ Cardinality(Jobs) = MaxJobs
      /\ IsFiniteSet(EntryIds) /\ Cardinality(EntryIds) = 2 * MaxJobs + 1
    <2>1. MaxJobs \in Nat
        BY JobsAssumption
    <2>2. /\ IsFiniteSet(1..MaxJobs)
          /\ Cardinality(1..MaxJobs) = IF 1 > MaxJobs THEN 0 ELSE MaxJobs - 1 + 1
        BY <2>1, FS_Interval
    <2> DEFINE m == 2 * MaxJobs + 1
    <2>3. m \in Int /\ m > 0
        BY <2>1
    <2>4. /\ IsFiniteSet(1..m)
          /\ Cardinality(1..m) = IF 1 > m THEN 0 ELSE m - 1 + 1
        <3> HIDE DEF m
        <3> QED
            BY <2>3, FS_Interval
    <2> QED
        BY <2>1, <2>2, <2>3, <2>4 DEF Jobs, EntryIds
<1>6. \E n, m \in EntryIds : n # m /\ f[n] = f[m]
    <2>1. Cardinality(Jobs) < Cardinality(EntryIds)
        BY <1>5, JobsAssumption
    <2> HIDE DEF f
    <2> QED
        BY <1>4, <1>5, <2>1, FS_PigeonHole
<1> QED
    BY <1>3, <1>6

(* A registration leaves job j with the one entry that was asked for, and  *)
(* every other job with those it had.                                      *)
LEMMA RegisteredEffect ==
    ASSUME TypeOK, UniqueIds, EntriesKnown, EntriesPresent,
           NEW j \in Jobs, NEW plan \in Plans, Registered(j, plan)
    PROVE  /\ entries' \in [Jobs -> EntryIds \cup {None}]
           /\ scheduled' \subseteq [id : EntryIds, job : Jobs, schedule : Schedules]
           /\ UniqueIds' /\ EntriesKnown' /\ EntriesPresent'
           /\ JobSchedules(j)' = {plan} \ {None}
           /\ \A k \in Jobs : k # j => JobSchedules(k)' = JobSchedules(k)
<1> DEFINE rest == Without(entries[j])
<1>1. \A e \in scheduled : /\ e \in [id : EntryIds, job : Jobs, schedule : Schedules]
                           /\ e.job \in Jobs /\ e.id \in EntryIds /\ e.id # None
    BY NamesAssumption DEF TypeOK, EntryIds
<1>2. rest = {e \in scheduled : e.job # j}
    <2>1. ASSUME NEW e \in scheduled PROVE e.id = entries[j] <=> e.job = j
        <3>1. CASE e.job = j
            BY <2>1, <3>1 DEF EntriesKnown
        <3>2. CASE e.id = entries[j]
            <4>1. entries[j] # None
                BY <1>1, <3>2
            <4>2. PICK g \in scheduled : g.job = j /\ g.id = entries[j]
                BY <4>1 DEF EntriesPresent
            <4>3. g = e
                BY <3>2, <4>2 DEF UniqueIds
            <4> QED
                BY <3>2, <4>2, <4>3
        <3> QED
            BY <3>1, <3>2
    <2> QED
        BY <2>1 DEF Without
<1>3. CASE plan = None
    <2>1. scheduled' = rest /\ entries' = [entries EXCEPT ![j] = None]
        BY <1>3 DEF Registered
    <2>2. entries' \in [Jobs -> EntryIds \cup {None}]
        BY <2>1 DEF TypeOK
    <2>3. UniqueIds' /\ EntriesKnown' /\ EntriesPresent'
        BY <1>1, <1>2, <2>1 DEF TypeOK, UniqueIds, EntriesKnown, EntriesPresent
    <2>4. JobSchedules(j)' = {plan} \ {None}
        BY <1>2, <1>3, <2>1 DEF JobSchedules
    <2>5. \A k \in Jobs : k # j => JobSchedules(k)' = JobSchedules(k)
        BY <1>2, <2>1 DEF JobSchedules
    <2> QED
        BY <1>1, <1>2, <2>1, <2>2, <2>3, <2>4, <2>5
<1>4. CASE plan # None
    <2> DEFINE n == FreshEntry
               new == [id |-> n, job |-> j, schedule |-> plan]
    <2>1. n \in EntryIds /\ \A e \in scheduled : e.id # n
        BY FreshExists
    <2> HIDE DEF n
    <2>2. scheduled' = rest \cup {new} /\ entries' = [entries EXCEPT ![j] = n]
        BY <1>4 DEF Registered, n
    <2>3. new.id = n /\ new.job = j /\ new.schedule = plan
        OBVIOUS
    <2>4. new \in [id : EntryIds, job : Jobs, schedule : Schedules]
        BY <1>4, <2>1 DEF Plans
    <2> HIDE DEF new, rest
    <2>5. entries' \in [Jobs -> EntryIds \cup {None}]
        BY <2>1, <2>2 DEF TypeOK
    <2>6. scheduled' \subseteq [id : EntryIds, job : Jobs, schedule : Schedules]
        BY <1>1, <1>2, <2>2, <2>4
    <2>7. UniqueIds'
        BY <1>2, <2>1, <2>2, <2>3 DEF UniqueIds
    <2>8. EntriesKnown'
        BY <1>1, <1>2, <2>2, <2>3 DEF TypeOK, EntriesKnown
    <2>9. EntriesPresent'
        BY <1>1, <1>2, <2>2, <2>3 DEF TypeOK, EntriesPresent
    <2>10. JobSchedules(j)' = {plan} \ {None}
        <3>1. {f \in scheduled' : f.job = j} = {new}
            BY <1>2, <2>2, <2>3
        <3> QED
            BY <1>4, <2>3, <3>1 DEF JobSchedules
    <2>11. \A k \in Jobs : k # j => JobSchedules(k)' = JobSchedules(k)
        <3>1. \A k \in Jobs : k # j =>
                 {f \in scheduled' : f.job = k} = {f \in scheduled : f.job = k}
            BY <1>2, <2>2, <2>3
        <3> QED
            BY <3>1 DEF JobSchedules
    <2> QED
        BY <2>5, <2>6, <2>7, <2>8, <2>9, <2>10, <2>11
<1> QED
    BY <1>3, <1>4
-----------------------------------------------------------------------------
(* Ticks *)

WithAt(t, at) == [t EXCEPT !.at = at]

(* A tick's record with a new step, and nothing else changed.              *)
LEMMA AtUpdate ==
    ASSUME NEW t \in TickRecords, NEW at \in TickStates,
           NEW f, f = WithAt(t, at)
    PROVE  /\ f \in TickRecords
           /\ f.at = at
           /\ f.job = t.job
           /\ f.posts = t.posts
           /\ f.incident = t.incident
           /\ f.unwritten = t.unwritten
           /\ f.posted = t.posted
           /\ f.result = t.result
BY DEF TickRecords, WithAt

WithJob(t, at, job) == [t EXCEPT !.at = at, !.job = job]

(* ... with a new step and its job.                                        *)
LEMMA JobUpdate ==
    ASSUME NEW t \in TickRecords, NEW at \in TickStates, NEW job \in Jobs \cup {None},
           NEW f, f = WithJob(t, at, job)
    PROVE  /\ f \in TickRecords
           /\ f.at = at
           /\ f.job = job
           /\ f.posts = t.posts
           /\ f.incident = t.incident
           /\ f.unwritten = t.unwritten
           /\ f.posted = t.posted
           /\ f.result = t.result
BY DEF TickRecords, WithJob

WithResult(t, at, result) == [t EXCEPT !.at = at, !.result = result]

(* ... with a new step and its result.                                     *)
LEMMA ResultUpdate ==
    ASSUME NEW t \in TickRecords, NEW at \in TickStates, NEW result \in Results,
           NEW f, f = WithResult(t, at, result)
    PROVE  /\ f \in TickRecords
           /\ f.at = at
           /\ f.job = t.job
           /\ f.posts = t.posts
           /\ f.incident = t.incident
           /\ f.unwritten = t.unwritten
           /\ f.posted = t.posted
           /\ f.result = result
BY DEF TickRecords, WithResult

WithIncident(t, at, incident) == [t EXCEPT !.at = at, !.incident = incident]

(* ... with a new step and its incident's status.                          *)
LEMMA IncidentUpdate ==
    ASSUME NEW t \in TickRecords, NEW at \in TickStates, NEW incident \in IncidentStates,
           NEW f, f = WithIncident(t, at, incident)
    PROVE  /\ f \in TickRecords
           /\ f.at = at
           /\ f.job = t.job
           /\ f.posts = t.posts
           /\ f.incident = incident
           /\ f.unwritten = t.unwritten
           /\ f.posted = t.posted
           /\ f.result = t.result
BY DEF TickRecords, WithIncident

WithFail(t, at, result, incident, unwritten) ==
    [t EXCEPT !.at = at, !.result = result, !.incident = incident, !.unwritten = unwritten]

(* ... with all that a failed start writes.                                *)
LEMMA FailUpdate ==
    ASSUME NEW t \in TickRecords, NEW at \in TickStates, NEW result \in Results,
           NEW incident \in IncidentStates, NEW unwritten \in BOOLEAN,
           NEW f, f = WithFail(t, at, result, incident, unwritten)
    PROVE  /\ f \in TickRecords
           /\ f.at = at
           /\ f.job = t.job
           /\ f.posts = t.posts
           /\ f.incident = incident
           /\ f.unwritten = unwritten
           /\ f.posted = t.posted
           /\ f.result = result
BY DEF TickRecords, WithFail

WithFinal(t, posts, at, incident, unwritten) ==
    [t EXCEPT !.posts = posts, !.at = at, !.incident = incident, !.unwritten = unwritten]

(* ... with all that finalizing writes.                                    *)
LEMMA FinalUpdate ==
    ASSUME NEW t \in TickRecords, NEW posts \in BOOLEAN, NEW at \in TickStates,
           NEW incident \in IncidentStates, NEW unwritten \in BOOLEAN,
           NEW f, f = WithFinal(t, posts, at, incident, unwritten)
    PROVE  /\ f \in TickRecords
           /\ f.at = at
           /\ f.job = t.job
           /\ f.posts = posts
           /\ f.incident = incident
           /\ f.unwritten = unwritten
           /\ f.posted = t.posted
           /\ f.result = t.result
BY DEF TickRecords, WithFinal

WithPost(t, at, posted, result) == [t EXCEPT !.at = at, !.posted = posted, !.result = result]

(* ... with what its post left.                                            *)
LEMMA PostUpdate ==
    ASSUME NEW t \in TickRecords, NEW at \in TickStates, NEW posted \in BOOLEAN, NEW result \in Results,
           NEW f, f = WithPost(t, at, posted, result)
    PROVE  /\ f \in TickRecords
           /\ f.at = at
           /\ f.job = t.job
           /\ f.posts = t.posts
           /\ f.incident = t.incident
           /\ f.unwritten = t.unwritten
           /\ f.posted = posted
           /\ f.result = result
BY DEF TickRecords, WithPost

(* Every step of a tick keeps its record sound, and changes nothing else.  *)
LEMMA TickEffect ==
    ASSUME TypeOK, TicksSound, NEW x \in Ticks, Ticking(x)
    PROVE  tick' \in [Ticks -> TickRecords] /\ TicksSound' /\ OnlyTicks
<1> DEFINE Next1(f) == /\ f \in TickRecords
                      /\ TickSound(f)
                      /\ tick' = [tick EXCEPT ![x] = f]
                      /\ OnlyTicks
<1>0. /\ tick \in [Ticks -> TickRecords]
      /\ tick[x] \in TickRecords
      /\ TickSound(tick[x])
    BY DEF TypeOK, TicksSound
<1>1. ASSUME NEW e \in scheduled, Fire(x, e) PROVE \E f : Next1(f)
    <2>1. PICK f : f = WithJob(tick[x], "fired", e.job)
        OBVIOUS
    <2>2. tick' = [tick EXCEPT ![x] = f] /\ OnlyTicks
        BY <1>1, <2>1 DEF Fire, WithJob
    <2>3. /\ ("fired") \in TickStates
          /\ (e.job) \in Jobs \cup {None}
          /\ e.job # None
        BY <1>0, <1>1, JobsAssumption, NamesAssumption DEF TickStates, IncidentStates, Results, TypeOK, Jobs
    <2>4. /\ f \in TickRecords
          /\ f.at = "fired"
          /\ f.job = e.job
          /\ f.posts = tick[x].posts
          /\ f.incident = tick[x].incident
          /\ f.unwritten = tick[x].unwritten
          /\ f.posted = tick[x].posted
          /\ f.result = tick[x].result
        BY <1>0, <2>1, <2>3, JobUpdate
    <2>5. TickSound(f)
        BY <1>0, <1>1, <2>3, <2>4 DEF Fire, TickSound
    <2> QED
        BY <2>2, <2>4, <2>5
<1>2. ASSUME NEW j \in Jobs, RunNow(x, j) PROVE \E f : Next1(f)
    <2>1. PICK f : f = WithJob(tick[x], "loaded", j)
        OBVIOUS
    <2>2. tick' = [tick EXCEPT ![x] = f] /\ OnlyTicks
        BY <1>2, <2>1 DEF RunNow, WithJob
    <2>3. /\ ("loaded") \in TickStates
          /\ (j) \in Jobs \cup {None}
        BY <1>0, <1>2 DEF TickStates, IncidentStates, Results
    <2>4. /\ f \in TickRecords
          /\ f.at = "loaded"
          /\ f.job = j
          /\ f.posts = tick[x].posts
          /\ f.incident = tick[x].incident
          /\ f.unwritten = tick[x].unwritten
          /\ f.posted = tick[x].posted
          /\ f.result = tick[x].result
        BY <1>0, <2>1, <2>3, JobUpdate
    <2>5. TickSound(f)
        BY <1>0, <1>2, <2>3, <2>4 DEF RunNow, TickSound
    <2> QED
        BY <2>2, <2>4, <2>5
<1>3. ASSUME LoadRow(x) PROVE \E f : Next1(f)
    <2>1. PICK f : f = WithAt(tick[x], IF MayRun(row[tick[x].job]) THEN "loaded" ELSE "skipped")
        OBVIOUS
    <2>2. tick' = [tick EXCEPT ![x] = f] /\ OnlyTicks
        BY <1>3, <2>1 DEF LoadRow, WithAt
    <2>3. /\ (IF MayRun(row[tick[x].job]) THEN "loaded" ELSE "skipped") \in TickStates
        BY <1>0, <1>3 DEF TickStates, IncidentStates, Results
    <2>4. /\ f \in TickRecords
          /\ f.at = IF MayRun(row[tick[x].job]) THEN "loaded" ELSE "skipped"
          /\ f.job = tick[x].job
          /\ f.posts = tick[x].posts
          /\ f.incident = tick[x].incident
          /\ f.unwritten = tick[x].unwritten
          /\ f.posted = tick[x].posted
          /\ f.result = tick[x].result
        BY <1>0, <2>1, <2>3, AtUpdate
    <2>5. TickSound(f)
        BY <1>0, <1>3, <2>3, <2>4 DEF LoadRow, TickSound
    <2> QED
        BY <2>2, <2>4, <2>5
<1>4. ASSUME GiveUp(x) PROVE \E f : Next1(f)
    <2>1. PICK f : f = WithResult(tick[x], "recording", "error")
        OBVIOUS
    <2>2. tick' = [tick EXCEPT ![x] = f] /\ OnlyTicks
        BY <1>4, <2>1 DEF GiveUp, WithResult
    <2>3. /\ ("recording") \in TickStates
          /\ ("error") \in Results
        BY <1>0, <1>4 DEF TickStates, IncidentStates, Results
    <2>4. /\ f \in TickRecords
          /\ f.at = "recording"
          /\ f.job = tick[x].job
          /\ f.posts = tick[x].posts
          /\ f.incident = tick[x].incident
          /\ f.unwritten = tick[x].unwritten
          /\ f.posted = tick[x].posted
          /\ f.result = "error"
        BY <1>0, <2>1, <2>3, ResultUpdate
    <2>5. TickSound(f)
        BY <1>0, <1>4, <2>3, <2>4 DEF GiveUp, TickSound
    <2> QED
        BY <2>2, <2>4, <2>5
<1>5. ASSUME SpawnIncident(x) PROVE \E f : Next1(f)
    <2>1. PICK f : f = WithIncident(tick[x], "starting", "running")
        OBVIOUS
    <2>2. tick' = [tick EXCEPT ![x] = f] /\ OnlyTicks
        BY <1>5, <2>1 DEF SpawnIncident, WithIncident
    <2>3. /\ ("starting") \in TickStates
          /\ ("running") \in IncidentStates
        BY <1>0, <1>5 DEF TickStates, IncidentStates, Results
    <2>4. /\ f \in TickRecords
          /\ f.at = "starting"
          /\ f.job = tick[x].job
          /\ f.posts = tick[x].posts
          /\ f.incident = "running"
          /\ f.unwritten = tick[x].unwritten
          /\ f.posted = tick[x].posted
          /\ f.result = tick[x].result
        BY <1>0, <2>1, <2>3, IncidentUpdate
    <2>5. TickSound(f)
        BY <1>0, <1>5, <2>3, <2>4 DEF SpawnIncident, TickSound
    <2> QED
        BY <2>2, <2>4, <2>5
<1>6. ASSUME RunStarts(x) PROVE \E f : Next1(f)
    <2>1. PICK f : f = WithAt(tick[x], "waiting")
        OBVIOUS
    <2>2. tick' = [tick EXCEPT ![x] = f] /\ OnlyTicks
        BY <1>6, <2>1 DEF RunStarts, TickMoves, WithAt
    <2>3. /\ ("waiting") \in TickStates
        BY <1>0, <1>6 DEF TickStates, IncidentStates, Results
    <2>4. /\ f \in TickRecords
          /\ f.at = "waiting"
          /\ f.job = tick[x].job
          /\ f.posts = tick[x].posts
          /\ f.incident = tick[x].incident
          /\ f.unwritten = tick[x].unwritten
          /\ f.posted = tick[x].posted
          /\ f.result = tick[x].result
        BY <1>0, <2>1, <2>3, AtUpdate
    <2>5. TickSound(f)
        BY <1>0, <1>6, <2>3, <2>4 DEF RunStarts, TickMoves, TickSound
    <2> QED
        BY <2>2, <2>4, <2>5
<1>7. ASSUME NEW w \in BOOLEAN, RunStartFails(x, w) PROVE \E f : Next1(f)
    <2>0. PICK u \in BOOLEAN : u = (~w)
        OBVIOUS
    <2>1. PICK f : f = WithFail(tick[x], "recording", "error", AfterFailedStart(tick[x].incident, w), u)
        OBVIOUS
    <2>2. tick' = [tick EXCEPT ![x] = f] /\ OnlyTicks
        BY <1>7, <2>0, <2>1 DEF RunStartFails, WithFail
    <2>3. /\ ("recording") \in TickStates
          /\ ("error") \in Results
          /\ AfterFailedStart(tick[x].incident, w) \in IncidentStates
        BY <1>0, <1>7 DEF TickStates, IncidentStates, Results, AfterFailedStart, AfterComplete,
           TickRecords
    <2>4. /\ f \in TickRecords
          /\ f.at = "recording"
          /\ f.job = tick[x].job
          /\ f.posts = tick[x].posts
          /\ f.incident = AfterFailedStart(tick[x].incident, w)
          /\ f.unwritten = u
          /\ f.posted = tick[x].posted
          /\ f.result = "error"
        BY <1>0, <2>1, <2>3, FailUpdate
    <2>5. TickSound(f)
        BY <1>0, <1>7, <2>0, <2>3, <2>4 DEF RunStartFails, AfterFailedStart, AfterComplete,
           TickSound
    <2> QED
        BY <2>2, <2>4, <2>5
<1>8. ASSUME NEW v \in {"ok", "error"}, RunEnds(x, v) PROVE \E f : Next1(f)
    <2>1. PICK f : f = WithResult(tick[x], "claiming", v)
        OBVIOUS
    <2>2. tick' = [tick EXCEPT ![x] = f] /\ OnlyTicks
        BY <1>8, <2>1 DEF RunEnds, WithResult
    <2>3. /\ ("claiming") \in TickStates
          /\ (v) \in Results
        BY <1>0, <1>8 DEF TickStates, IncidentStates, Results
    <2>4. /\ f \in TickRecords
          /\ f.at = "claiming"
          /\ f.job = tick[x].job
          /\ f.posts = tick[x].posts
          /\ f.incident = tick[x].incident
          /\ f.unwritten = tick[x].unwritten
          /\ f.posted = tick[x].posted
          /\ f.result = v
        BY <1>0, <2>1, <2>3, ResultUpdate
    <2>5. TickSound(f)
        BY <1>0, <1>8, <2>3, <2>4 DEF RunEnds, TickSound
    <2> QED
        BY <2>2, <2>4, <2>5
<1>9. ASSUME Displace(x) PROVE \E f : Next1(f)
    <2>1. PICK f : f = WithAt(tick[x], "displaced")
        OBVIOUS
    <2>2. tick' = [tick EXCEPT ![x] = f] /\ OnlyTicks
        BY <1>9, <2>1 DEF Displace, TickMoves, WithAt
    <2>3. /\ ("displaced") \in TickStates
        BY <1>0, <1>9 DEF TickStates, IncidentStates, Results
    <2>4. /\ f \in TickRecords
          /\ f.at = "displaced"
          /\ f.job = tick[x].job
          /\ f.posts = tick[x].posts
          /\ f.incident = tick[x].incident
          /\ f.unwritten = tick[x].unwritten
          /\ f.posted = tick[x].posted
          /\ f.result = tick[x].result
        BY <1>0, <2>1, <2>3, AtUpdate
    <2>5. TickSound(f)
        BY <1>0, <1>9, <2>3, <2>4 DEF Displace, TickMoves, TickSound
    <2> QED
        BY <2>2, <2>4, <2>5
<1>10. ASSUME Claim(x) PROVE \E f : Next1(f)
    <2>1. PICK f : f = WithAt(tick[x], "finalizing")
        OBVIOUS
    <2>2. tick' = [tick EXCEPT ![x] = f] /\ OnlyTicks
        BY <1>10, <2>1 DEF Claim, TickMoves, WithAt
    <2>3. /\ ("finalizing") \in TickStates
        BY <1>0, <1>10 DEF TickStates, IncidentStates, Results
    <2>4. /\ f \in TickRecords
          /\ f.at = "finalizing"
          /\ f.job = tick[x].job
          /\ f.posts = tick[x].posts
          /\ f.incident = tick[x].incident
          /\ f.unwritten = tick[x].unwritten
          /\ f.posted = tick[x].posted
          /\ f.result = tick[x].result
        BY <1>0, <2>1, <2>3, AtUpdate
    <2>5. TickSound(f)
        BY <1>0, <1>10, <2>3, <2>4 DEF Claim, TickMoves, TickSound
    <2> QED
        BY <2>2, <2>4, <2>5
<1>11. ASSUME NEW p \in BOOLEAN, NEW w \in BOOLEAN, Finalize(x, p, w) PROVE \E f : Next1(f)
    <2> DEFINE status == IF tick[x].result = "ok" THEN "completed" ELSE "failed"
               left == AfterComplete(tick[x].incident, status, w)
    <2>0. PICK u \in BOOLEAN : u = (~w)
        OBVIOUS
    <2>1. PICK f : f = WithFinal(tick[x], p, IF p THEN "posting" ELSE "recording", left, u)
        OBVIOUS
    <2>2. tick' = [tick EXCEPT ![x] = f] /\ OnlyTicks
        BY <1>11, <2>0, <2>1 DEF Finalize, WithFinal
    <2>3. /\ (p) \in BOOLEAN
          /\ (IF p THEN "posting" ELSE "recording") \in TickStates
          /\ left \in IncidentStates
        BY <1>0, <1>11 DEF TickStates, IncidentStates, Results, AfterComplete, TickRecords
    <2> HIDE DEF left
    <2>4. /\ f \in TickRecords
          /\ f.at = IF p THEN "posting" ELSE "recording"
          /\ f.job = tick[x].job
          /\ f.posts = p
          /\ f.incident = left
          /\ f.unwritten = u
          /\ f.posted = tick[x].posted
          /\ f.result = tick[x].result
        BY <1>0, <2>1, <2>3, FinalUpdate
    <2>5. TickSound(f)
        BY <1>0, <1>11, <2>0, <2>3, <2>4 DEF Finalize, AfterComplete, TickSound, left
    <2> QED
        BY <2>2, <2>4, <2>5
<1>12. ASSUME NEW p \in BOOLEAN, Post(x, p) PROVE \E f : Next1(f)
    <2>1. PICK f : f = WithPost(tick[x], "recording", p, VerdictAfterPost(tick[x].result, p))
        OBVIOUS
    <2>2. tick' = [tick EXCEPT ![x] = f] /\ OnlyTicks
        BY <1>12, <2>1 DEF Post, WithPost
    <2>3. /\ ("recording") \in TickStates
          /\ (p) \in BOOLEAN
          /\ (VerdictAfterPost(tick[x].result, p)) \in Results
        BY <1>0, <1>12 DEF TickStates, IncidentStates, Results, VerdictAfterPost, TickRecords
    <2>4. /\ f \in TickRecords
          /\ f.at = "recording"
          /\ f.job = tick[x].job
          /\ f.posts = tick[x].posts
          /\ f.incident = tick[x].incident
          /\ f.unwritten = tick[x].unwritten
          /\ f.posted = p
          /\ f.result = VerdictAfterPost(tick[x].result, p)
        BY <1>0, <2>1, <2>3, PostUpdate
    <2>5. TickSound(f)
        BY <1>0, <1>12, <2>3, <2>4 DEF Post, VerdictAfterPost, TickSound
    <2> QED
        BY <2>2, <2>4, <2>5
<1>13. ASSUME RecordResult(x) PROVE \E f : Next1(f)
    <2>1. PICK f : f = WithAt(tick[x], "over")
        OBVIOUS
    <2>2. tick' = [tick EXCEPT ![x] = f] /\ OnlyTicks
        BY <1>13, <2>1 DEF RecordResult, TickMoves, WithAt
    <2>3. /\ ("over") \in TickStates
        BY <1>0, <1>13 DEF TickStates, IncidentStates, Results
    <2>4. /\ f \in TickRecords
          /\ f.at = "over"
          /\ f.job = tick[x].job
          /\ f.posts = tick[x].posts
          /\ f.incident = tick[x].incident
          /\ f.unwritten = tick[x].unwritten
          /\ f.posted = tick[x].posted
          /\ f.result = tick[x].result
        BY <1>0, <2>1, <2>3, AtUpdate
    <2>5. TickSound(f)
        BY <1>0, <1>13, <2>3, <2>4 DEF RecordResult, TickMoves, TickSound
    <2> QED
        BY <2>2, <2>4, <2>5
<1>14. \E f : Next1(f)
    BY <1>1, <1>2, <1>3, <1>4, <1>5, <1>6, <1>7, <1>8, <1>9, <1>10, <1>11, <1>12, <1>13 DEF Ticking
<1>15. PICK f : Next1(f)
    BY <1>14
<1> QED
    BY <1>0, <1>15 DEF TicksSound

-----------------------------------------------------------------------------
(* The induction *)

(* What the conjuncts about the scheduler say is not disturbed by a step   *)
(* that leaves it alone.                                                   *)
LEMMA SchedulerFrame ==
    ASSUME UniqueIds, EntriesKnown, EntriesPresent, UNCHANGED <<entries, scheduled>>
    PROVE  /\ UniqueIds' /\ EntriesKnown' /\ EntriesPresent'
           /\ \A j \in Jobs : JobSchedules(j)' = JobSchedules(j)
BY DEF UniqueIds, EntriesKnown, EntriesPresent, JobSchedules

\* What is scheduled for a row.
LEMMA SchedulingIsPlan ==
    ASSUME NEW r \in Rows
    PROVE  Scheduling(r) \in Plans
<1>1. CASE r = None
    BY <1>1 DEF Scheduling, Plans
<1>2. CASE r \in [enabled : BOOLEAN, schedule : Schedules]
    BY <1>2 DEF Scheduling, Plans
<1> QED
    BY <1>1, <1>2 DEF Rows

(* The records of client.                                                  *)
Busy(at, job, seen) == [at |-> at, job |-> job, seen |-> seen]

\* A handler on its way to Reload.
LEMMA BusyFields ==
    ASSUME NEW at \in ClientStates, NEW job \in Jobs \cup {None}, NEW seen \in Plans,
           NEW f, f = Busy(at, job, seen)
    PROVE  f \in ClientRecords /\ f.at = at /\ f.job = job /\ f.seen = seen
BY DEF Busy, ClientRecords

\* An idle handler.
LEMMA IdleFields ==
    /\ Idle \in ClientRecords
    /\ Idle.at = "idle"
BY DEF Idle, ClientRecords, ClientStates, Plans

WithSeen(r, at, seen) == [r EXCEPT !.at = at, !.seen = seen]

\* A handler that has read its row.
LEMMA SeenUpdate ==
    ASSUME NEW r \in ClientRecords, NEW at \in ClientStates, NEW seen \in Plans,
           NEW f, f = WithSeen(r, at, seen)
    PROVE  f \in ClientRecords /\ f.at = at /\ f.job = r.job /\ f.seen = seen
BY DEF WithSeen, ClientRecords

(* A call's transaction: whoever has read the row before has this call's   *)
(* reload to come after its own.                                           *)
LEMMA CommitEffect ==
    ASSUME CronInv,
           NEW c \in Clients, NEW j \in Jobs, NEW r \in Rows,
           client[c].at = "idle",
           row' = [row EXCEPT ![j] = r],
           Committed(c, j, r),
           inserted' \in 0..MaxJobs,
           UNCHANGED <<schedVars, start, loaded, tick>>
    PROVE  CronInv'
<1>1. PICK f : f = Busy("committed", j, Scheduling(r))
    OBVIOUS
<1>2. f \in ClientRecords /\ f.at = "committed" /\ f.job = j
    BY <1>1, BusyFields, SchedulingIsPlan DEF ClientStates
<1>3. client' = [client EXCEPT ![c] = f]
    BY <1>1 DEF Committed, Busy
<1>4. client \in [Clients -> ClientRecords] /\ row \in [Jobs -> Rows]
    BY DEF CronInv, TypeOK
<1>5. client'[c] = f /\ \A d \in Clients : d # c => client'[d] = client[d]
    BY <1>3, <1>4
<1>6. TypeOK'
    <2>1. client' \in [Clients -> ClientRecords] /\ row' \in [Jobs -> Rows]
        BY <1>2, <1>3, <1>4
    <2> QED
        BY <2>1 DEF CronInv, TypeOK, schedVars
<1>7. TicksSound' /\ NothingLoaded'
    BY DEF CronInv, TicksSound, NothingLoaded
<1>8. /\ UniqueIds' /\ EntriesKnown' /\ EntriesPresent'
      /\ \A k \in Jobs : JobSchedules(k)' = JobSchedules(k)
    BY SchedulerFrame DEF CronInv, schedVars
<1>9. MutexHeld'
    BY <1>2, <1>5 DEF CronInv, MutexHeld, schedVars
<1>10. ReadIsFresh'
    <2> SUFFICES ASSUME NEW d \in Clients, client'[d].at = "registering"
                 PROVE  \/ client'[d].seen = Scheduling(row'[client'[d].job])
                        \/ \E e \in Clients : /\ client'[e].at = "committed"
                                              /\ client'[e].job = client'[d].job
        BY DEF ReadIsFresh, Scheduling
    <2>1. d # c /\ client'[d] = client[d] /\ client[d].at = "registering" /\ client[d].job \in Jobs
        BY <1>2, <1>5 DEF CronInv, MutexHeld
    <2>2. CASE client[d].job = j
        BY <1>2, <1>5, <2>1, <2>2
    <2>3. CASE client[d].job # j
        <3>1. row'[client[d].job] = row[client[d].job]
            BY <1>4, <2>1, <2>3
        <3>2. CASE client[d].seen = Scheduling(row[client[d].job])
            BY <2>1, <3>1, <3>2
        <3>3. CASE \E e \in Clients : client[e].at = "committed" /\ client[e].job = client[d].job
            <4>1. PICK e \in Clients : client[e].at = "committed" /\ client[e].job = client[d].job
                BY <3>3
            <4>2. client'[e] = client[e]
                BY <1>5, <4>1
            <4> QED
                BY <2>1, <4>1, <4>2
        <3> QED
            BY <2>1, <3>2, <3>3 DEF CronInv, ReadIsFresh
    <2> QED
        BY <2>2, <2>3
<1>11. SettledIsRight'
    <2> SUFFICES ASSUME NEW k \in Jobs, loaded[k] = None, ~InFlight(k)', k \notin unsynced
                 PROVE  \/ JobSchedules(k) = {Scheduling(row'[k])} \ {None}
                        \/ start = "off" /\ JobSchedules(k) = {}
        BY <1>8 DEF SettledIsRight, Scheduling, schedVars
    <2>1. k # j
        BY <1>2, <1>5 DEF InFlight
    <2>2. ~InFlight(k)
        BY <1>5 DEF InFlight
    <2>3. row'[k] = row[k]
        BY <1>4, <2>1
    <2> QED
        BY <2>2, <2>3 DEF CronInv, SettledIsRight
<1> QED
    BY <1>6, <1>7, <1>8, <1>9, <1>10, <1>11 DEF CronInv

\* Writes of handlers keep the invariant.
LEMMA CallingPreserves ==
    ASSUME CronInv, NEW c \in Clients, Calling(c)
    PROVE  CronInv'
<1>1. CASE \E s \in Schedules, e \in BOOLEAN : Create(c, s, e)
    <2>1. PICK s \in Schedules, e \in BOOLEAN : Create(c, s, e)
        BY <1>1
    <2> DEFINE j == inserted + 1
               r == [enabled |-> InsertedEnabled(e), schedule |-> s]
    <2>2. /\ client[c].at = "idle" /\ inserted < MaxJobs /\ inserted' = j
          /\ row' = [row EXCEPT ![j] = r] /\ Committed(c, j, r)
          /\ UNCHANGED <<schedVars, start, loaded, tick>>
        BY <2>1 DEF Create
    <2>3. inserted \in 0..MaxJobs /\ MaxJobs \in Nat
        BY JobsAssumption DEF CronInv, TypeOK
    <2>4. j \in Jobs /\ inserted' \in 0..MaxJobs
        BY <2>2, <2>3 DEF Jobs
    <2>5. r \in Rows
        BY DEF Rows, InsertedEnabled
    <2> HIDE DEF j, r
    <2> QED
        BY <2>2, <2>4, <2>5, CommitEffect
<1>2. CASE \E j \in Jobs, s \in Schedules, e \in BOOLEAN : Update(c, j, s, e)
    <2>1. PICK j \in Jobs, s \in Schedules, e \in BOOLEAN : Update(c, j, s, e)
        BY <1>2
    <2> DEFINE r == IF row[j] = None THEN None
                    ELSE [row[j] EXCEPT !.schedule = s, !.enabled = e]
    <2>2. /\ client[c].at = "idle" /\ inserted' = inserted
          /\ row' = [row EXCEPT ![j] = r] /\ Committed(c, j, r)
          /\ UNCHANGED <<schedVars, start, loaded, tick>>
        BY <2>1 DEF Update
    <2>3. r \in Rows
        <3>1. row[j] \in Rows
            BY DEF CronInv, TypeOK
        <3>2. CASE row[j] = None
            BY <3>2 DEF Rows
        <3>3. CASE row[j] # None
            <4> DEFINE q == row[j]
            <4>1. q \in [enabled : BOOLEAN, schedule : Schedules]
                BY <3>1, <3>3 DEF Rows
            <4> HIDE DEF q
            <4>2. [q EXCEPT !.schedule = s, !.enabled = e] \in [enabled : BOOLEAN, schedule : Schedules]
                BY <4>1
            <4>3. r = [q EXCEPT !.schedule = s, !.enabled = e]
                BY <3>3 DEF q
            <4> QED
                BY <4>2, <4>3 DEF Rows
        <3> QED
            BY <3>2, <3>3
    <2>4. inserted' \in 0..MaxJobs
        BY <2>2 DEF CronInv, TypeOK
    <2> HIDE DEF r
    <2> QED
        BY <2>2, <2>3, <2>4, CommitEffect
<1>3. CASE \E j \in Jobs : Delete(c, j)
    <2>1. PICK j \in Jobs : Delete(c, j)
        BY <1>3
    <2>2. inserted' \in 0..MaxJobs
        BY <2>1 DEF CronInv, TypeOK, Delete
    <2>3. None \in Rows
        BY DEF Rows
    <2>4. /\ client[c].at = "idle"
          /\ row' = [row EXCEPT ![j] = None] /\ Committed(c, j, None)
          /\ UNCHANGED <<schedVars, start, loaded, tick>>
        BY <2>1 DEF Delete
    <2> QED
        BY <2>2, <2>3, <2>4, CommitEffect
<1> QED
    BY <1>1, <1>2, <1>3 DEF Calling

\* Start keeps the invariant.
LEMMA StartingPreserves ==
    ASSUME CronInv, Starting
    PROVE  CronInv'
<1>0. row \in [Jobs -> Rows] /\ loaded \in [Jobs -> Plans]
    BY DEF CronInv, TypeOK
<1>1. CASE StartLoads
    <2> USE <1>1 DEF StartLoads, schedVars, jobVars
    <2>1. TypeOK'
        <3>1. \A j \in Jobs : Scheduling(row[j]) \in Plans
            BY <1>0, SchedulingIsPlan
        <3> QED
            BY <3>1 DEF CronInv, TypeOK, StartStates
    <2>2. TicksSound' /\ NothingLoaded'
        BY DEF CronInv, TicksSound, NothingLoaded
    <2>3. /\ UniqueIds' /\ EntriesKnown' /\ EntriesPresent'
          /\ \A k \in Jobs : JobSchedules(k)' = JobSchedules(k)
        BY SchedulerFrame DEF CronInv
    <2>4. MutexHeld' /\ ReadIsFresh'
        BY DEF CronInv, MutexHeld, ReadIsFresh, Scheduling
    <2>5. SettledIsRight'
        <3> SUFFICES ASSUME NEW k \in Jobs, Scheduling(row[k]) = None, ~InFlight(k), k \notin unsynced
                     PROVE  JobSchedules(k) = {}
            BY <2>3 DEF SettledIsRight, Scheduling, InFlight
        <3>1. loaded[k] = None
            BY DEF CronInv, NothingLoaded
        <3> QED
            BY <3>1 DEF CronInv, SettledIsRight
    <2> QED
        BY <2>1, <2>2, <2>3, <2>4, <2>5 DEF CronInv
<1>2. ASSUME NEW j \in Jobs, StartRegisters(j) PROVE CronInv'
    <2>1. /\ start = "registering" /\ mu = None /\ loaded[j] # None /\ start' = start
          /\ loaded' = [loaded EXCEPT ![j] = None]
          /\ Registered(j, loaded[j])
          /\ unsynced' = IF Scheduling(row[j]) = loaded[j]
                         THEN unsynced \ {j} ELSE unsynced \cup {j}
          /\ UNCHANGED <<row, inserted, mu, client, tick>>
        BY <1>2 DEF StartRegisters, jobVars
    <2>2. loaded[j] \in Plans
        BY <1>0
    <2>3. /\ entries' \in [Jobs -> EntryIds \cup {None}]
          /\ scheduled' \subseteq [id : EntryIds, job : Jobs, schedule : Schedules]
          /\ UniqueIds' /\ EntriesKnown' /\ EntriesPresent'
          /\ JobSchedules(j)' = {loaded[j]} \ {None}
          /\ \A k \in Jobs : k # j => JobSchedules(k)' = JobSchedules(k)
        BY <2>1, <2>2, RegisteredEffect DEF CronInv
    <2>4. TypeOK'
        <3>1. loaded' \in [Jobs -> Plans] /\ unsynced' \subseteq Jobs
            BY <1>0, <2>1 DEF CronInv, TypeOK, Plans
        <3> QED
            BY <2>1, <2>3, <3>1 DEF CronInv, TypeOK
    <2>5. TicksSound' /\ NothingLoaded'
        BY <2>1 DEF CronInv, TicksSound, NothingLoaded
    <2>6. MutexHeld' /\ ReadIsFresh'
        BY <2>1 DEF CronInv, MutexHeld, ReadIsFresh, Scheduling
    <2>7. SettledIsRight'
        <3> SUFFICES ASSUME NEW k \in Jobs, loaded'[k] = None, ~InFlight(k), k \notin unsynced'
                     PROVE  JobSchedules(k)' = {Scheduling(row[k])} \ {None}
            BY <2>1 DEF SettledIsRight, Scheduling, InFlight
        <3>1. CASE k = j
            BY <2>1, <2>3, <3>1
        <3>2. CASE k # j
            <4>1. loaded[k] = None /\ k \notin unsynced
                BY <1>0, <2>1, <3>2
            <4> QED
                BY <2>1, <2>3, <3>2, <4>1 DEF CronInv, SettledIsRight
        <3> QED
            BY <3>1, <3>2
    <2> QED
        BY <2>3, <2>4, <2>5, <2>6, <2>7 DEF CronInv
<1>3. CASE StartTicking
    <2> USE <1>3 DEF StartTicking, schedVars, jobVars
    <2>1. TypeOK'
        BY DEF CronInv, TypeOK, StartStates
    <2>2. TicksSound' /\ NothingLoaded'
        BY DEF CronInv, TicksSound, NothingLoaded
    <2>3. /\ UniqueIds' /\ EntriesKnown' /\ EntriesPresent'
          /\ \A k \in Jobs : JobSchedules(k)' = JobSchedules(k)
        BY SchedulerFrame DEF CronInv
    <2>4. MutexHeld' /\ ReadIsFresh'
        BY DEF CronInv, MutexHeld, ReadIsFresh, Scheduling
    <2>5. SettledIsRight'
        BY <2>3 DEF CronInv, SettledIsRight, Scheduling, InFlight
    <2> QED
        BY <2>1, <2>2, <2>3, <2>4, <2>5 DEF CronInv
<1> QED
    BY <1>1, <1>2, <1>3 DEF Starting

\* Reloads keep the invariant.
LEMMA ReloadingPreserves ==
    ASSUME CronInv, NEW c \in Clients, Reloading(c)
    PROVE  CronInv'
<1>0. /\ row \in [Jobs -> Rows] /\ client \in [Clients -> ClientRecords]
      /\ client[c] \in ClientRecords /\ None \notin Clients
    BY NamesAssumption DEF CronInv, TypeOK
<1>1. CASE ReloadReads(c)
    <2> DEFINE job == client[c].job
               seen == Scheduling(row[job])
    <2>1. PICK f : f = WithSeen(client[c], "registering", seen)
        OBVIOUS
    <2>2. /\ client[c].at = "committed" /\ mu = None /\ mu' = c
          /\ client' = [client EXCEPT ![c] = f]
          /\ UNCHANGED <<row, inserted, entries, scheduled, unsynced, start, loaded, tick>>
        BY <1>1, <2>1 DEF ReloadReads, RowToRegister, WithSeen, jobVars
    <2>3. job \in Jobs
        BY <2>2 DEF CronInv, MutexHeld
    <2>4. seen \in Plans
        BY <1>0, <2>3, SchedulingIsPlan
    <2> HIDE DEF seen
    <2>5. f \in ClientRecords /\ f.at = "registering" /\ f.job = job /\ f.seen = seen
        BY <1>0, <2>1, <2>4, SeenUpdate DEF ClientStates
    <2>6. client'[c] = f /\ \A d \in Clients : d # c => client'[d] = client[d]
        BY <1>0, <2>2
    <2>7. \A d \in Clients : client[d].at # "registering"
        BY <1>0, <2>2 DEF CronInv, MutexHeld
    <2>8. TypeOK'
        <3>1. client' \in [Clients -> ClientRecords]
            BY <1>0, <2>2, <2>5
        <3> QED
            BY <2>2, <3>1 DEF CronInv, TypeOK
    <2>9. TicksSound' /\ NothingLoaded'
        BY <2>2 DEF CronInv, TicksSound, NothingLoaded
    <2>10. /\ UniqueIds' /\ EntriesKnown' /\ EntriesPresent'
           /\ \A k \in Jobs : JobSchedules(k)' = JobSchedules(k)
        BY <2>2, SchedulerFrame DEF CronInv
    <2>11. MutexHeld'
        BY <2>2, <2>3, <2>5, <2>6, <2>7 DEF CronInv, MutexHeld
    <2>12. ReadIsFresh'
        <3> SUFFICES ASSUME NEW d \in Clients, client'[d].at = "registering"
                     PROVE  client'[d].seen = Scheduling(row[client'[d].job])
            BY <2>2 DEF ReadIsFresh, Scheduling
        <3>1. d = c
            BY <2>6, <2>7
        <3> QED
            BY <2>5, <2>6, <3>1 DEF seen
    <2>13. SettledIsRight'
        <3>1. \A k : InFlight(k)' <=> InFlight(k)
            BY <2>2, <2>5, <2>6 DEF InFlight
        <3> QED
            BY <2>2, <2>10, <3>1 DEF CronInv, SettledIsRight, Scheduling
    <2> QED
        BY <2>8, <2>9, <2>10, <2>11, <2>12, <2>13 DEF CronInv
<1>2. CASE ReloadFails(c)
    <2>1. /\ client[c].at = "committed" /\ mu = None
          /\ client' = [client EXCEPT ![c] = Idle]
          /\ unsynced' = unsynced \cup {client[c].job}
          /\ UNCHANGED <<row, inserted, entries, scheduled, mu, start, loaded, tick>>
        BY <1>2 DEF ReloadFails, jobVars
    <2>2. client'[c].at = "idle" /\ \A d \in Clients : d # c => client'[d] = client[d]
        BY <1>0, <2>1, IdleFields
    <2>3. \A d \in Clients : client'[d].at # "registering"
        BY <1>0, <2>1, <2>2 DEF CronInv, MutexHeld
    <2>4. client[c].job \in Jobs
        BY <2>1 DEF CronInv, MutexHeld
    <2>5. TypeOK'
        <3>1. client' \in [Clients -> ClientRecords] /\ unsynced' \subseteq Jobs
            BY <1>0, <2>1, <2>4, IdleFields DEF CronInv, TypeOK
        <3> QED
            BY <2>1, <3>1 DEF CronInv, TypeOK
    <2>6. TicksSound' /\ NothingLoaded'
        BY <2>1 DEF CronInv, TicksSound, NothingLoaded
    <2>7. /\ UniqueIds' /\ EntriesKnown' /\ EntriesPresent'
          /\ \A k \in Jobs : JobSchedules(k)' = JobSchedules(k)
        BY <2>1, SchedulerFrame DEF CronInv
    <2>8. MutexHeld' /\ ReadIsFresh'
        BY <1>0, <2>1, <2>2, <2>3 DEF CronInv, MutexHeld, ReadIsFresh
    <2>9. SettledIsRight'
        <3> SUFFICES ASSUME NEW k \in Jobs, loaded[k] = None, ~InFlight(k)', k \notin unsynced'
                     PROVE  \/ JobSchedules(k) = {Scheduling(row[k])} \ {None}
                            \/ start = "off" /\ JobSchedules(k) = {}
            BY <2>1, <2>7 DEF SettledIsRight, Scheduling
        <3>1. k # client[c].job /\ k \notin unsynced
            BY <2>1
        <3>2. ~InFlight(k)
            BY <2>2, <3>1 DEF InFlight
        <3> QED
            BY <3>1, <3>2 DEF CronInv, SettledIsRight
    <2> QED
        BY <2>5, <2>6, <2>7, <2>8, <2>9 DEF CronInv
<1>3. CASE ReloadRegisters(c)
    <2>0. PICK job \in Jobs, seen \in Plans : job = client[c].job /\ seen = client[c].seen
        BY <1>0, <1>3 DEF CronInv, MutexHeld, ClientRecords, ReloadRegisters
    <2>1. /\ client[c].at = "registering"
          /\ Registered(job, seen)
          /\ mu' = None
          /\ client' = [client EXCEPT ![c] = Idle]
          /\ unsynced' = unsynced \ {job}
          /\ UNCHANGED <<row, inserted, start, loaded, tick>>
        BY <1>3, <2>0 DEF ReloadRegisters, jobVars
    <2>2. mu = c
        BY <2>1 DEF CronInv, MutexHeld
    <2>3. /\ entries' \in [Jobs -> EntryIds \cup {None}]
          /\ scheduled' \subseteq [id : EntryIds, job : Jobs, schedule : Schedules]
          /\ UniqueIds' /\ EntriesKnown' /\ EntriesPresent'
          /\ JobSchedules(job)' = {seen} \ {None}
          /\ \A k \in Jobs : k # job => JobSchedules(k)' = JobSchedules(k)
        BY <2>1, RegisteredEffect DEF CronInv
    <2>4. client'[c].at = "idle" /\ \A d \in Clients : d # c => client'[d] = client[d]
        BY <1>0, <2>1, IdleFields
    <2>5. \A d \in Clients : client'[d].at # "registering"
        BY <1>0, <2>2, <2>4 DEF CronInv, MutexHeld
    <2>6. TypeOK'
        <3>1. client' \in [Clients -> ClientRecords] /\ unsynced' \subseteq Jobs
            BY <1>0, <2>1, IdleFields DEF CronInv, TypeOK
        <3> QED
            BY <2>1, <2>3, <3>1 DEF CronInv, TypeOK
    <2>7. TicksSound' /\ NothingLoaded'
        BY <2>1 DEF CronInv, TicksSound, NothingLoaded
    <2>8. MutexHeld' /\ ReadIsFresh'
        BY <1>0, <2>1, <2>4, <2>5 DEF CronInv, MutexHeld, ReadIsFresh
    <2>9. SettledIsRight'
        <3> SUFFICES ASSUME NEW k \in Jobs, loaded[k] = None, ~InFlight(k)', k \notin unsynced'
                     PROVE  \/ JobSchedules(k)' = {Scheduling(row[k])} \ {None}
                            \/ start = "off" /\ JobSchedules(k)' = {}
            BY <2>1 DEF SettledIsRight, Scheduling
        <3>1. CASE k = job
            <4>1. ~ \E d \in Clients : client[d].at = "committed" /\ client[d].job = job
                BY <2>0, <2>1, <2>4, <3>1 DEF InFlight
            <4>2. seen = Scheduling(row[job])
                BY <2>0, <2>1, <4>1 DEF CronInv, ReadIsFresh
            <4> QED
                BY <2>3, <3>1, <4>2
        <3>2. CASE k # job
            <4>1. ~InFlight(k) /\ k \notin unsynced
                BY <2>0, <2>1, <2>4, <3>2 DEF InFlight
            <4> QED
                BY <2>3, <3>2, <4>1 DEF CronInv, SettledIsRight
        <3> QED
            BY <3>1, <3>2
    <2> QED
        BY <2>3, <2>6, <2>7, <2>8, <2>9 DEF CronInv
<1> QED
    BY <1>1, <1>2, <1>3 DEF Reloading

\* Ticks keep the invariant.
LEMMA TickingPreserves ==
    ASSUME CronInv, NEW x \in Ticks, Ticking(x)
    PROVE  CronInv'
<1>1. tick' \in [Ticks -> TickRecords] /\ TicksSound' /\ OnlyTicks
    BY TickEffect DEF CronInv
<1> USE <1>1 DEF OnlyTicks, schedVars, jobVars
<1>2. TypeOK'
    BY DEF CronInv, TypeOK
<1>3. /\ UniqueIds' /\ EntriesKnown' /\ EntriesPresent'
      /\ \A k \in Jobs : JobSchedules(k)' = JobSchedules(k)
    BY SchedulerFrame DEF CronInv
<1>4. MutexHeld' /\ ReadIsFresh' /\ NothingLoaded'
    BY DEF CronInv, MutexHeld, ReadIsFresh, NothingLoaded, Scheduling
<1>5. SettledIsRight'
    BY <1>3 DEF CronInv, SettledIsRight, Scheduling, InFlight
<1> QED
    BY <1>2, <1>3, <1>4, <1>5 DEF CronInv

\* A tick that has not fired.
LEMMA UnfiredFields ==
    /\ Unfired \in TickRecords /\ TickSound(Unfired)
    /\ [Unfired EXCEPT !.at = "lost"] \in TickRecords
    /\ TickSound([Unfired EXCEPT !.at = "lost"])
<1>1. Unfired \in TickRecords /\ TickSound(Unfired)
    BY DEF Unfired, TickRecords, TickStates, IncidentStates, Results, TickSound
<1>2. PICK f : f = WithAt(Unfired, "lost")
    OBVIOUS
<1>3. f \in TickRecords /\ f.at = "lost"
    BY <1>1, <1>2, AtUpdate DEF TickStates
<1>4. TickSound(f)
    BY <1>3 DEF TickSound
<1> QED
    BY <1>1, <1>2, <1>3, <1>4 DEF WithAt

(* Nothing is scheduled, nobody is at work: how the process starts.        *)
LEMMA FreshProcess ==
    ASSUME row \in [Jobs -> Rows],
           inserted \in 0..MaxJobs,
           tick \in [Ticks -> TickRecords], TicksSound,
           entries = [j \in Jobs |-> None],
           scheduled = {},
           mu = None,
           start = "off",
           loaded = [j \in Jobs |-> None],
           client = [c \in Clients |-> Idle],
           unsynced = {}
    PROVE  CronInv
<1>1. \A c \in Clients : client[c] = Idle /\ client[c].at = "idle"
    BY IdleFields
<1>2. TypeOK
    <2>1. client \in [Clients -> ClientRecords]
        BY IdleFields
    <2> QED
        BY <2>1 DEF TypeOK, StartStates, Plans
<1>3. UniqueIds /\ EntriesKnown /\ EntriesPresent
    BY DEF UniqueIds, EntriesKnown, EntriesPresent
<1>4. MutexHeld /\ ReadIsFresh
    <2>1. None \notin Clients
        BY NamesAssumption
    <2> QED
        BY <1>1, <2>1 DEF MutexHeld, ReadIsFresh
<1>5. SettledIsRight /\ NothingLoaded
    <2>1. \A j \in Jobs : JobSchedules(j) = {}
        BY DEF JobSchedules
    <2> QED
        BY <2>1 DEF SettledIsRight, NothingLoaded
<1> QED
    BY <1>2, <1>3, <1>4, <1>5 DEF CronInv

\* The initial states satisfy the inductive invariant.
LEMMA InitHolds == Init => CronInv
<1> SUFFICES ASSUME Init PROVE CronInv
    OBVIOUS
<1>1. tick \in [Ticks -> TickRecords] /\ TicksSound
    <2>1. \A x \in Ticks : tick[x] = Unfired
        BY DEF Init
    <2> QED
        BY <2>1, UnfiredFields DEF Init, TicksSound
<1> QED
    BY <1>1, FreshProcess DEF Init

\* A restart keeps the invariant.
LEMMA RestartPreserves ==
    ASSUME CronInv, Restart
    PROVE  CronInv'
<1>1. /\ row' \in [Jobs -> Rows] /\ inserted' \in 0..MaxJobs
      /\ entries' = [j \in Jobs |-> None] /\ scheduled' = {} /\ mu' = None
      /\ start' = "off" /\ loaded' = [j \in Jobs |-> None]
      /\ client' = [c \in Clients |-> Idle] /\ unsynced' = {}
    BY DEF CronInv, TypeOK, Restart, jobVars
<1>2. tick' \in [Ticks -> TickRecords] /\ TicksSound'
    <2> DEFINE lost == [Unfired EXCEPT !.at = "lost"]
    <2>1. lost \in TickRecords /\ TickSound(lost)
        BY UnfiredFields
    <2>2. tick' = [x \in Ticks |-> IF tick[x].at \in {"unfired", "skipped", "over", "displaced"}
                                   THEN tick[x] ELSE lost]
        BY DEF Restart
    <2> HIDE DEF lost
    <2>3. \A x \in Ticks : tick'[x] = tick[x] \/ tick'[x] = lost
        BY <2>2
    <2>4. \A x \in Ticks : tick[x] \in TickRecords /\ TickSound(tick[x])
        BY DEF CronInv, TypeOK, TicksSound
    <2>5. \A x \in Ticks : tick'[x] \in TickRecords /\ TickSound(tick'[x])
        BY <2>1, <2>3, <2>4
    <2>6. tick' \in [Ticks -> TickRecords]
        BY <2>2, <2>5
    <2> QED
        BY <2>5, <2>6 DEF TicksSound
<1>3. UniqueIds' /\ EntriesKnown' /\ EntriesPresent'
    BY <1>1 DEF UniqueIds, EntriesKnown, EntriesPresent
<1>4. \A c \in Clients : client'[c].at = "idle"
    BY <1>1, IdleFields
<1>5. TypeOK'
    <2>1. client' \in [Clients -> ClientRecords]
        BY <1>1, IdleFields
    <2> QED
        BY <1>1, <1>2, <2>1 DEF TypeOK, StartStates, Plans
<1>6. MutexHeld' /\ ReadIsFresh'
    <2>1. None \notin Clients
        BY NamesAssumption
    <2> QED
        BY <1>1, <1>4, <2>1 DEF MutexHeld, ReadIsFresh
<1>7. SettledIsRight' /\ NothingLoaded'
    <2>1. \A j \in Jobs : JobSchedules(j)' = {}
        BY <1>1 DEF JobSchedules
    <2> QED
        BY <1>1, <2>1 DEF SettledIsRight, NothingLoaded
<1> QED
    BY <1>2, <1>3, <1>5, <1>6, <1>7 DEF CronInv

\* Every step keeps the inductive invariant.
LEMMA StepPreserves == CronInv /\ [Next]_vars => CronInv'
<1> SUFFICES ASSUME CronInv, [Next]_vars PROVE CronInv'
    OBVIOUS
<1>1. CASE Starting
    BY <1>1, StartingPreserves
<1>2. ASSUME NEW c \in Clients, Calling(c) PROVE CronInv'
    BY <1>2, CallingPreserves
<1>3. ASSUME NEW c \in Clients, Reloading(c) PROVE CronInv'
    BY <1>3, ReloadingPreserves
<1>4. ASSUME NEW x \in Ticks, Ticking(x) PROVE CronInv'
    BY <1>4, TickingPreserves
<1>5. CASE Restart
    BY <1>5, RestartPreserves
<1>6. CASE UNCHANGED vars
    <2> USE <1>6 DEF vars, jobVars, schedVars
    <2>1. TypeOK' /\ TicksSound' /\ NothingLoaded'
        BY DEF CronInv, TypeOK, TicksSound, NothingLoaded
    <2>2. /\ UniqueIds' /\ EntriesKnown' /\ EntriesPresent'
          /\ \A k \in Jobs : JobSchedules(k)' = JobSchedules(k)
        BY SchedulerFrame DEF CronInv
    <2>3. MutexHeld' /\ ReadIsFresh'
        BY DEF CronInv, MutexHeld, ReadIsFresh, Scheduling
    <2>4. SettledIsRight'
        BY <2>2 DEF CronInv, SettledIsRight, InFlight, Scheduling
    <2> QED
        BY <2>1, <2>2, <2>3, <2>4 DEF CronInv
<1> QED
    BY <1>1, <1>2, <1>3, <1>4, <1>5, <1>6 DEF Next

-----------------------------------------------------------------------------
(* The theorems *)

(* The inductive invariant holds throughout.                               *)
THEOREM Invariance == Spec => []CronInv
<1>1. Init => CronInv
    BY InitHolds
<1>2. CronInv /\ [Next]_vars => CronInv'
    BY StepPreserves
<1> QED
    BY <1>1, <1>2, PTL DEF Spec

(* Every variable keeps its type: the scheduler never runs out of ids, and *)
(* no reload works for a job that was never given out.                     *)
THEOREM TypeCorrect == Spec => []TypeOK
<1>1. CronInv => TypeOK
    BY DEF CronInv
<1> QED
    BY <1>1, Invariance, PTL

(* No re-registration leaves a scheduler entry behind that nothing will    *)
(* remove.                                                                 *)
THEOREM EntriesAreAccountedFor == Spec => []NoLeakedEntry
<1>1. CronInv => NoLeakedEntry
    <2> SUFFICES ASSUME CronInv, NEW j \in Jobs
                 PROVE  {e.id : e \in {f \in scheduled : f.job = j}} = {entries[j]} \ {None}
        BY DEF NoLeakedEntry
    <2>1. \A e \in scheduled : e.id # None
        BY NamesAssumption DEF CronInv, TypeOK, EntryIds
    <2>2. CASE entries[j] = None
        BY <2>1, <2>2 DEF CronInv, EntriesKnown
    <2>3. CASE entries[j] # None
        <3>1. PICK e \in scheduled : e.job = j /\ e.id = entries[j]
            BY <2>3 DEF CronInv, EntriesPresent
        <3>2. \A f \in scheduled : f.job = j => f = e
            BY <3>1 DEF CronInv, EntriesKnown, UniqueIds
        <3>3. {f \in scheduled : f.job = j} = {e}
            BY <3>1, <3>2
        <3> QED
            BY <2>3, <3>1, <3>3
    <2> QED
        BY <2>2, <2>3
<1> QED
    BY <1>1, Invariance, PTL

(* Once the calls that change a job have returned it fires on its row's    *)
(* schedule, or not at all if the row is disabled or gone, whatever the    *)
(* order in which they committed and re-registered.  Excepted are a job    *)
(* whose reload could not read it and one that Start registered from an    *)
(* older row.                                                              *)
THEOREM RegistrationsConverge == Spec => []SettledEntriesMatchRows
<1>1. CronInv => SettledEntriesMatchRows
    BY DEF CronInv, SettledIsRight, JobSchedules, SettledEntriesMatchRows
<1> QED
    BY <1>1, Invariance, PTL

(* A tick that has come to its end leaves no incident of its own running   *)
(* unless the final write of it failed, and one that is ok has             *)
(* investigated and, where asked to, posted.  A displaced tick has neither *)
(* written nor posted.  Ticks that a restart cuts short are not concerned. *)
THEOREM TicksFinishTheirIncidents == Spec => []TicksEndWell
<1>1. CronInv => TicksEndWell
    <2> SUFFICES ASSUME CronInv, NEW x \in Ticks
                 PROVE  LET t == tick[x] IN
                        /\ t.at = "over" =>
                              /\ t.result # "none"
                              /\ t.incident = "running" => t.unwritten
                              /\ t.incident # "completed" => t.result = "error" \/ t.unwritten
                              /\ t.result = "ok" =>
                                    /\ t.incident = IF t.unwritten THEN "running" ELSE "completed"
                                    /\ t.posts => t.posted
                        /\ t.at = "displaced" =>
                              t.incident = "running" /\ ~t.unwritten /\ ~t.posted
        BY DEF TicksEndWell, FinishedTicksLeaveNothingRunning, OkMeansDelivered
    <2>1. TickSound(tick[x])
        BY DEF CronInv, TicksSound
    <2> QED
        BY <2>1 DEF TickSound
<1> QED
    BY <1>1, Invariance, PTL

=============================================================================
