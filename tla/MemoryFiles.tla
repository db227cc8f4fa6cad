---------------------------- MODULE MemoryFiles ----------------------------
(***************************************************************************)
(* Cross-incident memories (internal/services/memory_service.go): rows of  *)
(* the memories table, the directory they are mirrored to, and the files   *)
(* that the agent's memory-writer leaves there for IngestFromDisk.         *)
(*                                                                         *)
(* One scope.  A row with id i and name n is mirrored to the canonical     *)
(* file <i>-<n>.md; the agent writes <n>.md, a memory or a tombstone.      *)
(* Every statement and every file operation is a step.  SyncMemoryFiles    *)
(* runs under syncMu, nothing else does.  Of a memory the name and one     *)
(* value for its content are kept.                                         *)
(***************************************************************************)
EXTENDS Naturals, FiniteSets

CONSTANTS
    MaxRows,    \* bound: ids of the memories table
    Names,
    AgentNames, \* bound: the names that the agent writes
    Contents,
    Callers,    \* goroutines that call the service
    Boot,       \* main, which syncs before anything is served
    None,
    Tombstone   \* a file with "deleted: true"

ASSUME MaxRowsAssumption == MaxRows \in Nat
ASSUME NamesAssumption == AgentNames \subseteq Names
ASSUME BootAssumption == Boot \notin Callers /\ None \notin Callers \cup {Boot}
ASSUME ContentsAssumption == None \notin Contents \cup {Tombstone} /\ Tombstone \notin Contents
ASSUME NoneAssumption ==
    /\ None \notin [name : Names, content : Contents]
    /\ None \notin [content : Contents \cup {Tombstone}, plain : BOOLEAN]

Ids == 1..MaxRows
Bare == MaxRows + 1     \* stands for the id in <n>.md, which sorts last
Procs == Callers \cup {Boot}

VARIABLES
    row,        \* the memories table
    inserted,   \* ids given out
    file,       \* the scope's directory, but for MEMORY.md
    manifest,   \* the names MEMORY.md lists
    proc,       \* what each goroutine is at
    snapshot,   \* the rows a sync has read
    disturbed,  \* names changed after an ingest was done with them, or that it failed
    behind,     \* a failure left the directory to a later sync
    torn        \* removal of the directory has begun, MEMORY.md is still there

dbVars == <<row, inserted>>
diskVars == <<file, manifest, torn>>
vars == <<dbVars, diskVars, proc, snapshot, disturbed, behind>>

-----------------------------------------------------------------------------

Rows == [name : Names, content : Contents] \cup {None}
Files == (Ids \cup {Bare}) \X Names
Parsed == [content : Contents \cup {Tombstone}, plain : BOOLEAN] \cup {None}

Syncing == {"writing", "manifest", "listing", "purging", "dropping"}
ProcStates == {"idle", "updating", "upserted", "unsynced",
               "reading", "batch", "ingested"} \cup Syncing

\* left: the files yet to be read, written or removed; failed: the ingest's
\* tombstoneFailure.
ProcRecords == [at : ProcStates, id : Ids \cup {None}, name : Names \cup {None},
                left : SUBSET Files, parsed : [Names -> Parsed], failed : BOOLEAN]
Idle == [at |-> "idle", id |-> None, name |-> None, left |-> {},
         parsed |-> [n \in Names |-> None], failed |-> FALSE]
Unsynced == [Idle EXCEPT !.at = "unsynced"]
NoRows == [i \in Ids |-> None]

\* Every variable stays in its set.
TypeOK ==
    /\ row \in [Ids -> Rows]
    /\ inserted \in 0..MaxRows
    /\ file \in [Files -> Contents \cup {Tombstone, None}]
    /\ manifest \subseteq Names
    /\ proc \in [Procs -> ProcRecords]
    /\ snapshot \in [Procs -> [Ids -> Rows]]
    /\ disturbed \in [Procs -> SUBSET Names]
    /\ behind \in BOOLEAN
    /\ torn \in BOOLEAN

Init ==
    /\ row = NoRows
    /\ inserted = 0
    /\ file = [f \in Files |-> None]
    /\ manifest = {}
    /\ proc = [p \in Procs |-> IF p = Boot THEN Unsynced ELSE Idle]
    /\ snapshot = [p \in Procs |-> NoRows]
    /\ disturbed = [p \in Procs |-> {}]
    /\ behind = FALSE
    /\ torn = FALSE

Named(n) == {i \in Ids : row[i] # None /\ row[i].name = n}
OnDisk == {f \in Files : file[f] # None}
Mirrored(rows) == {f \in Ids \X Names : rows[f[1]] # None /\ rows[f[1]].name = f[2]}

Serving(p) == p \in Callers /\ proc[p].at = "idle" /\ proc[Boot].at = "idle"
Ingesting(p) == proc[p].at \in {"reading", "batch", "ingested"}

\* The names whose agent file an ingest no longer reads, and those whose row
\* it no longer writes.
HasRead(p) == {n \in Names : Ingesting(p) /\ ~(proc[p].at = "reading" /\ <<Bare, n>> \in proc[p].left)}
HasWritten(p) ==
    {n \in Names : \/ proc[p].at = "ingested"
                   \/ proc[p].at = "batch" /\ proc[p].parsed[n] = None}

-----------------------------------------------------------------------------
(* CreateMemory, UpdateMemory, UpsertByName and DeleteMemory, up to their   *)
(* call of SyncMemoryFiles.  (scope, name) is a unique index.               *)

Insert(n, c) ==
    /\ inserted < MaxRows
    /\ Named(n) = {}
    /\ inserted' = inserted + 1
    /\ row' = [row EXCEPT ![inserted + 1] = [name |-> n, content |-> c]]

Overwrite(n, c) ==
    /\ Named(n) # {}
    /\ row' = [i \in Ids |-> IF i \in Named(n) THEN [name |-> n, content |-> c] ELSE row[i]]
    /\ UNCHANGED inserted

\* A statement of p on the rows named in names, after which p is as in record.
Stated(p, names, record) ==
    /\ proc' = [proc EXCEPT ![p] = record]
    /\ disturbed' = [q \in Procs |-> IF q = p THEN disturbed[q]
                                     ELSE disturbed[q] \cup (names \cap HasWritten(q))]
    /\ UNCHANGED <<diskVars, snapshot, behind>>

\* A step of p that changes neither rows nor files.
Moves(p, record) ==
    /\ proc' = [proc EXCEPT ![p] = record]
    /\ UNCHANGED <<dbVars, diskVars, snapshot, disturbed, behind>>

CreateMemory(p, n, c) ==
    /\ Serving(p)
    /\ Insert(n, c)
    /\ Stated(p, {n}, Unsynced)

UpsertByName(p, n, c) ==
    /\ Serving(p)
    /\ Insert(n, c) \/ Overwrite(n, c)
    /\ Stated(p, {n}, [Idle EXCEPT !.at = "upserted", !.name = n])

\* The row is read back by its name; if it is gone, an error and no sync.
ReadBack(p) ==
    /\ proc[p].at = "upserted"
    /\ Moves(p, IF Named(proc[p].name) = {} THEN Idle ELSE Unsynced)

DeleteMemory(p, i) ==
    /\ Serving(p)
    /\ row[i] # None
    /\ row' = [row EXCEPT ![i] = None]
    /\ UNCHANGED inserted
    /\ Stated(p, {row[i].name}, Unsynced)

ReadForUpdate(p, i) ==
    /\ Serving(p)
    /\ row[i] # None
    /\ Moves(p, [Idle EXCEPT !.at = "updating", !.id = i])

\* Save writes every column, and inserts a row that was deleted meanwhile.
Save(p, n, c) ==
    LET i == proc[p].id IN
    /\ proc[p].at = "updating"
    /\ Named(n) \subseteq {i}
    /\ row' = [row EXCEPT ![i] = [name |-> n, content |-> c]]
    /\ UNCHANGED inserted
    /\ Stated(p, {n} \cup {m \in Names : i \in Named(m)}, Unsynced)

SaveFails(p) ==
    /\ proc[p].at = "updating"
    /\ Moves(p, Idle)

-----------------------------------------------------------------------------
(* IngestFromDisk: every file is read, then every row is written.           *)

ListFiles(p) ==
    /\ Serving(p)
    /\ OnDisk # {}
    /\ Moves(p, [Idle EXCEPT !.at = "reading", !.left = OnDisk])

\* Of two files of one name a tombstone wins, then the one without an id,
\* then the later.
Replaces(new, old) ==
    \/ old = None
    \/ new.content = Tombstone
    \/ old.content # Tombstone /\ (old.plain => new.plain)

\* Files sort by id, those without one after them.  A file that has been
\* removed since it was listed is skipped.
ReadFile(p) ==
    /\ proc[p].at = "reading"
    /\ \E f \in proc[p].left :
        LET old == proc[p].parsed[f[2]]
            new == [content |-> file[f], plain |-> f[1] = Bare] IN
        /\ \A g \in proc[p].left : f[1] <= g[1]
        /\ Moves(p, [proc[p] EXCEPT
             !.left = @ \ {f},
             !.parsed[f[2]] = IF file[f] # None /\ Replaces(new, old) THEN new ELSE old])

EndReading(p) ==
    /\ proc[p].at = "reading"
    /\ proc[p].left = {}
    /\ proc' = [proc EXCEPT ![p] =
           IF proc[p].parsed = Idle.parsed THEN Idle ELSE [proc[p] EXCEPT !.at = "batch"]]
    /\ disturbed' = [disturbed EXCEPT ![p] = IF proc[p].parsed = Idle.parsed THEN {} ELSE @]
    /\ UNCHANGED <<dbVars, diskVars, snapshot, behind>>

IngestRow(p, n) ==
    LET entry == proc[p].parsed[n] IN
    /\ proc[p].at = "batch"
    /\ entry # None
    /\ \/ /\ entry.content = Tombstone
          /\ row' = [i \in Ids |-> IF i \in Named(n) THEN None ELSE row[i]]
          /\ UNCHANGED inserted
       \/ /\ entry.content # Tombstone
          /\ Insert(n, entry.content) \/ Overwrite(n, entry.content)
    /\ Stated(p, {n}, [proc[p] EXCEPT !.parsed[n] = None])

\* A failed upsert is given up; a failed delete is kept for a later ingest.
IngestRowFails(p, n) ==
    LET entry == proc[p].parsed[n] IN
    /\ proc[p].at = "batch"
    /\ entry # None
    /\ proc' = [proc EXCEPT ![p].parsed[n] = None,
                            ![p].failed = @ \/ entry.content = Tombstone]
    /\ disturbed' = [disturbed EXCEPT ![p] =
           IF entry.content = Tombstone THEN @ ELSE @ \cup {n}]
    /\ UNCHANGED <<dbVars, diskVars, snapshot, behind>>

SyncsAlways(failed) == TRUE
SyncsAfter(failed) == ~failed

EndBatch(p) ==
    /\ proc[p].at = "batch"
    /\ proc[p].parsed = Idle.parsed
    /\ IF SyncsAfter(proc[p].failed)
       THEN /\ proc' = [proc EXCEPT ![p] = [Idle EXCEPT !.at = "ingested"]]
            /\ UNCHANGED <<disturbed, behind>>
       ELSE /\ proc' = [proc EXCEPT ![p] = Idle]
            /\ disturbed' = [disturbed EXCEPT ![p] = {}]
            /\ behind' = TRUE
    /\ UNCHANGED <<dbVars, diskVars, snapshot>>

-----------------------------------------------------------------------------
(* SyncMemoryFiles.                                                        *)

Unheld(q) == TRUE
Free(q) == proc[q].at \notin Syncing

Lock(p) ==
    /\ proc[p].at \in {"unsynced", "ingested"}
    /\ \A q \in Procs : Free(q)
    /\ snapshot' = [snapshot EXCEPT ![p] = row]
    /\ proc' = [proc EXCEPT ![p] =
           IF row = NoRows THEN [Idle EXCEPT !.at = "dropping"]
           ELSE [Idle EXCEPT !.at = "writing", !.left = Mirrored(row)]]
    /\ disturbed' = [disturbed EXCEPT ![p] = {}]
    /\ behind' = FALSE
    /\ UNCHANGED <<dbVars, diskVars>>

\* The end of a sync of p; late says that something was left undone.
Unlock(p, late) ==
    /\ proc' = [proc EXCEPT ![p] = Idle]
    /\ snapshot' = [snapshot EXCEPT ![p] = NoRows]
    /\ behind' = (behind \/ late)

\* Newest row first.
WriteFile(p, f) ==
    /\ proc[p].at = "writing"
    /\ f \in proc[p].left
    /\ \A g \in proc[p].left : g[1] <= f[1]
    /\ file' = [file EXCEPT ![f] = snapshot[p][f[1]].content]
    /\ proc' = [proc EXCEPT ![p].left = @ \ {f}]
    /\ UNCHANGED <<dbVars, manifest, torn, snapshot, disturbed, behind>>

EndWriting(p) ==
    /\ proc[p].at = "writing"
    /\ proc[p].left = {}
    /\ Moves(p, [proc[p] EXCEPT !.at = "manifest"])

ListedAfresh(p) == {f[2] : f \in Mirrored(row)}
Listed(p) == {f[2] : f \in Mirrored(snapshot[p])}

WriteManifest(p) ==
    /\ proc[p].at = "manifest"
    /\ manifest' = Listed(p)
    /\ torn' = FALSE
    /\ proc' = [proc EXCEPT ![p].at = "listing"]
    /\ UNCHANGED <<dbVars, file, snapshot, disturbed, behind>>

\* A query or a write that fails ends the sync.
SyncFails(p) ==
    /\ proc[p].at \in {"unsynced", "ingested", "writing", "manifest"}
    /\ proc[p].at \in {"unsynced", "ingested"} => \A q \in Procs : Free(q)
    /\ Unlock(p, TRUE)
    /\ disturbed' = [disturbed EXCEPT ![p] = {}]
    /\ UNCHANGED <<dbVars, diskVars>>

ListStale(p) ==
    /\ proc[p].at = "listing"
    /\ Moves(p, [proc[p] EXCEPT !.at = "purging", !.left = OnDisk \ Mirrored(snapshot[p])])

\* Remove; a failure is logged and leaves the file.
RemoveStale(p, f) ==
    /\ proc[p].at = "purging"
    /\ f \in proc[p].left
    /\ proc' = [proc EXCEPT ![p].left = @ \ {f}]
    /\ \/ file' = [file EXCEPT ![f] = None] /\ UNCHANGED behind
       \/ behind' = TRUE /\ UNCHANGED file
    /\ UNCHANGED <<dbVars, manifest, torn, snapshot, disturbed>>

EndPurging(p) ==
    /\ proc[p].at = "purging"
    /\ proc[p].left = {}
    /\ Unlock(p, FALSE)
    /\ UNCHANGED <<dbVars, diskVars, disturbed>>

\* No rows: RemoveAll takes the scope's directory, one entry at a time.
DropFile(p, f) ==
    /\ proc[p].at = "dropping"
    /\ file[f] # None
    /\ file' = [file EXCEPT ![f] = None]
    /\ torn' = (manifest # {})
    /\ UNCHANGED <<dbVars, manifest, proc, snapshot, disturbed, behind>>

DropManifest(p) ==
    /\ proc[p].at = "dropping"
    /\ manifest # {}
    /\ manifest' = {}
    /\ torn' = FALSE
    /\ UNCHANGED <<dbVars, file, proc, snapshot, disturbed, behind>>

EndDropping(p) ==
    /\ proc[p].at = "dropping"
    /\ Unlock(p, OnDisk # {} \/ manifest # {})
    /\ UNCHANGED <<dbVars, diskVars, disturbed>>

-----------------------------------------------------------------------------
(* The agent's memory-writer, which shares the directory, and the API's     *)
(* restarts: every goroutine is lost, and main syncs before it serves.      *)

AgentWrites(n, c) ==
    /\ file[<<Bare, n>>] # c
    /\ file' = [file EXCEPT ![<<Bare, n>>] = c]
    /\ disturbed' = [q \in Procs |-> disturbed[q] \cup ({n} \cap HasRead(q))]
    /\ UNCHANGED <<dbVars, manifest, torn, proc, snapshot, behind>>

Restart ==
    /\ proc[Boot].at = "idle"
    /\ proc' = [p \in Procs |-> IF p = Boot THEN Unsynced ELSE Idle]
    /\ snapshot' = [p \in Procs |-> NoRows]
    /\ disturbed' = [p \in Procs |-> {}]
    /\ UNCHANGED <<dbVars, diskVars, behind>>

Change(p) ==
    \/ \E n \in Names, c \in Contents :
          CreateMemory(p, n, c) \/ UpsertByName(p, n, c) \/ Save(p, n, c)
    \/ \E i \in Ids : DeleteMemory(p, i) \/ ReadForUpdate(p, i)
    \/ ReadBack(p)
    \/ SaveFails(p)

Ingest(p) ==
    \/ ListFiles(p)
    \/ ReadFile(p)
    \/ EndReading(p)
    \/ \E n \in Names : IngestRow(p, n) \/ IngestRowFails(p, n)
    \/ EndBatch(p)

Sync(p) ==
    \/ Lock(p)
    \/ EndWriting(p)
    \/ WriteManifest(p)
    \/ SyncFails(p)
    \/ ListStale(p)
    \/ EndPurging(p)
    \/ DropManifest(p)
    \/ EndDropping(p)
    \/ \E f \in Files : WriteFile(p, f) \/ RemoveStale(p, f) \/ DropFile(p, f)

Next ==
    \/ \E p \in Procs : Change(p) \/ Ingest(p) \/ Sync(p)
    \/ \E n \in AgentNames, c \in Contents \cup {Tombstone} : AgentWrites(n, c)
    \/ Restart

Spec == Init /\ [][Next]_vars

-----------------------------------------------------------------------------
(* Properties.                                                             *)

\* When nobody has anything left to do and nothing failed since the last sync
\* read the table, the canonical files and MEMORY.md are those of the rows:
\* the syncs of overlapping calls never leave an older state behind
\* (SyncMemoryFiles reads the rows after it has taken syncMu).
FilesMatchRows ==
    (\A p \in Procs : proc[p].at = "idle") /\ ~behind =>
        /\ \A f \in Ids \X Names :
              file[f] = IF f \in Mirrored(row) THEN row[f[1]].content ELSE None
        /\ manifest = {f[2] : f \in Mirrored(row)}

\* Whoever reads MEMORY.md finds a canonical file for each name it lists, also
\* half way through a sync and after one that failed: new files are written
\* before it and old ones removed after it.  Only a removal of the whole scope
\* that was cut short makes no such promise.
ManifestIsBacked == torn \/ \A n \in manifest : \E i \in Ids : file[<<i, n>>] # None

\* When an ingest goes on to the sync that purges the agent's files, the table
\* has what each file there says, whatever else was synced, read and written
\* meanwhile; a tombstone whose delete failed stays for a retry (the collect,
\* de-duplicate, batch and tombstoneFailure of IngestFromDisk).  Not of a name
\* whose upsert failed, whose file the agent wrote after the ingest had read
\* it, or whose row another call changed after the ingest had written it: the
\* sync purges these all the same.
IngestedBeforePurge ==
    \A p \in Procs : proc[p].at = "ingested" =>
        \A n \in Names \ disturbed[p] :
            LET said == file[<<Bare, n>>] IN
            /\ said = Tombstone => Named(n) = {}
            /\ said \in Contents => \E i \in Named(n) : row[i].content = said

=============================================================================
