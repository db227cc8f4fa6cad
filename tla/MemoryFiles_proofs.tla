------------------------- MODULE MemoryFiles_proofs -------------------------
(***************************************************************************)
(* Proofs about MemoryFiles, for any rows, names, contents and callers.    *)
(***************************************************************************)
EXTENDS MemoryFiles, TLAPS

-----------------------------------------------------------------------------
(* Every variable stays in its set *)

(* The records that goroutines are set to are process records.             *)
LEMMA Records ==
    /\ Idle \in ProcRecords
    /\ Unsynced \in ProcRecords
    /\ NoRows \in [Ids -> Rows]
BY DEF Idle, Unsynced, NoRows, ProcRecords, ProcStates, Syncing, Parsed, Rows

(* What a statement leaves among the disturbed names.                      *)
LEMMA StatedDisturbs ==
    ASSUME TypeOK, NEW p \in Procs, NEW names \in SUBSET Names, NEW record, Stated(p, names, record)
    PROVE  /\ disturbed' \in [Procs -> SUBSET Names]
           /\ disturbed'[p] = disturbed[p]
           /\ \A q \in Procs : disturbed[q] \subseteq disturbed'[q]
           /\ \A q \in Procs : q # p => names \cap HasWritten(q) \subseteq disturbed'[q]
BY DEF TypeOK, Stated

(* Insert and Overwrite keep the table's type.                             *)
LEMMA InsertType ==
    ASSUME TypeOK, NEW n \in Names, NEW c \in Contents, Insert(n, c) \/ Overwrite(n, c)
    PROVE  row' \in [Ids -> Rows] /\ inserted' \in 0..MaxRows
<1>1. [name |-> n, content |-> c] \in Rows
    BY DEF Rows
<1>2. CASE Insert(n, c)
    BY <1>1, <1>2, MaxRowsAssumption DEF Insert, TypeOK, Ids
<1>3. CASE Overwrite(n, c)
    BY <1>1, <1>3 DEF Overwrite, TypeOK
<1> QED
    BY <1>2, <1>3

(* What a statement leaves well typed, besides the table.                  *)
LEMMA StatedType ==
    ASSUME TypeOK, NEW p \in Procs, NEW names \in SUBSET Names, NEW record \in ProcRecords,
           Stated(p, names, record), row' \in [Ids -> Rows], inserted' \in 0..MaxRows
    PROVE  TypeOK'
<1>1. disturbed' \in [Procs -> SUBSET Names]
    BY StatedDisturbs
<1> QED
    BY <1>1 DEF Stated, TypeOK, diskVars

(* A step that only moves its goroutine.                                   *)
LEMMA MovesType ==
    ASSUME TypeOK, NEW p \in Procs, NEW record \in ProcRecords, Moves(p, record)
    PROVE  TypeOK'
BY DEF Moves, TypeOK, dbVars, diskVars

(* The tables and the directory start empty, with nobody at work.          *)
LEMMA TypeInit == Init => TypeOK
<1> SUFFICES ASSUME Init PROVE TypeOK
    OBVIOUS
<1>1. proc \in [Procs -> ProcRecords] /\ row \in [Ids -> Rows] /\ snapshot \in [Procs -> [Ids -> Rows]]
    BY Records DEF Init
<1>2. inserted \in 0..MaxRows
    BY MaxRowsAssumption DEF Init
<1> QED
    BY <1>1, <1>2 DEF Init, TypeOK

(* The creates, updates and deletes of operators keep the types.           *)
LEMMA ChangeType ==
    ASSUME TypeOK, NEW p \in Procs, Change(p)
    PROVE  TypeOK'
<1>0. proc[p] \in ProcRecords
    BY DEF TypeOK
<1>1. ASSUME NEW n \in Names, NEW c \in Contents, CreateMemory(p, n, c) PROVE TypeOK'
    BY <1>1, Records, InsertType, StatedType DEF CreateMemory
<1>2. ASSUME NEW n \in Names, NEW c \in Contents, UpsertByName(p, n, c) PROVE TypeOK'
    <2>1. [Idle EXCEPT !.at = "upserted", !.name = n] \in ProcRecords
        BY Records DEF ProcRecords, ProcStates
    <2> QED
        BY <1>2, <2>1, InsertType, StatedType DEF UpsertByName
<1>3. ASSUME NEW n \in Names, NEW c \in Contents, Save(p, n, c) PROVE TypeOK'
    <2> DEFINE names == {n} \cup {m \in Names : proc[p].id \in Named(m)}
    <2>1. names \in SUBSET Names
        OBVIOUS
    <2>2. row' \in [Ids -> Rows] /\ inserted' \in 0..MaxRows
        BY <1>3 DEF Save, TypeOK, Rows
    <2> QED
        BY <1>3, <2>1, <2>2, Records, StatedType DEF Save
<1>4. ASSUME NEW i \in Ids, DeleteMemory(p, i) PROVE TypeOK'
    <2>1. row[i].name \in Names
        BY <1>4 DEF DeleteMemory, TypeOK, Rows
    <2>2. row' \in [Ids -> Rows] /\ inserted' \in 0..MaxRows
        BY <1>4 DEF DeleteMemory, TypeOK, Rows
    <2> QED
        BY <1>4, <2>1, <2>2, Records, StatedType DEF DeleteMemory
<1>5. ASSUME NEW i \in Ids, ReadForUpdate(p, i) PROVE TypeOK'
    <2>1. [Idle EXCEPT !.at = "updating", !.id = i] \in ProcRecords
        BY Records DEF ProcRecords, ProcStates
    <2> QED
        BY <1>5, <2>1, MovesType DEF ReadForUpdate
<1>6. CASE ReadBack(p)
    BY <1>6, Records, MovesType DEF ReadBack
<1>7. CASE SaveFails(p)
    BY <1>7, Records, MovesType DEF SaveFails
<1> QED
    BY <1>1, <1>2, <1>3, <1>4, <1>5, <1>6, <1>7 DEF Change

(* The steps of an ingest of the agent's files keep the types.             *)
LEMMA IngestType ==
    ASSUME TypeOK, NEW p \in Procs, Ingest(p)
    PROVE  TypeOK'
<1>0. proc[p] \in ProcRecords
    BY DEF TypeOK
<1>1. CASE ListFiles(p)
    <2>1. [Idle EXCEPT !.at = "reading", !.left = OnDisk] \in ProcRecords
        BY Records DEF ProcRecords, ProcStates, OnDisk
    <2> QED
        BY <1>1, <2>1, MovesType DEF ListFiles
<1>2. CASE ReadFile(p)
    <2>1. PICK f \in proc[p].left :
            LET old == proc[p].parsed[f[2]]
                new == [content |-> file[f], plain |-> f[1] = Bare] IN
            Moves(p, [proc[p] EXCEPT
                !.left = @ \ {f},
                !.parsed[f[2]] = IF file[f] # None /\ Replaces(new, old) THEN new ELSE old])
        BY <1>2 DEF ReadFile
    <2> DEFINE old == proc[p].parsed[f[2]]
               new == [content |-> file[f], plain |-> f[1] = Bare]
               best == IF file[f] # None /\ Replaces(new, old) THEN new ELSE old
    <2>2. f \in Files /\ f[2] \in Names
        BY <1>0 DEF ProcRecords, Files
    <2>3. best \in Parsed
        BY <1>0, <2>2 DEF ProcRecords, Parsed, TypeOK
    <2>4. [proc[p] EXCEPT !.left = @ \ {f}, !.parsed[f[2]] = best] \in ProcRecords
        <3> HIDE DEF best
        <3> QED
            BY <1>0, <2>2, <2>3 DEF ProcRecords
    <2> QED
        BY <2>1, <2>4, MovesType
<1>3. CASE EndReading(p)
    <2>1. [proc[p] EXCEPT !.at = "batch"] \in ProcRecords
        BY <1>0 DEF ProcRecords, ProcStates
    <2> QED
        BY <1>3, <2>1, Records DEF EndReading, TypeOK, dbVars, diskVars
<1>4. ASSUME NEW n \in Names, IngestRow(p, n) PROVE TypeOK'
    <2>1. [proc[p] EXCEPT !.parsed[n] = None] \in ProcRecords
        BY <1>0 DEF ProcRecords, Parsed
    <2>2. row' \in [Ids -> Rows] /\ inserted' \in 0..MaxRows
        <3>1. CASE proc[p].parsed[n].content = Tombstone
            BY <1>4, <3>1 DEF IngestRow, TypeOK, Rows
        <3>2. CASE proc[p].parsed[n].content # Tombstone
            <4>1. proc[p].parsed[n].content \in Contents
                BY <1>0, <1>4, <3>2 DEF IngestRow, ProcRecords, Parsed
            <4> QED
                BY <1>4, <3>2, <4>1, InsertType DEF IngestRow
        <3> QED
            BY <3>1, <3>2
    <2> QED
        BY <1>4, <2>1, <2>2, StatedType DEF IngestRow
<1>5. ASSUME NEW n \in Names, IngestRowFails(p, n) PROVE TypeOK'
    <2>1. proc' \in [Procs -> ProcRecords]
        BY <1>0, <1>5 DEF IngestRowFails, TypeOK, ProcRecords, Parsed
    <2> QED
        BY <1>5, <2>1 DEF IngestRowFails, TypeOK, dbVars, diskVars
<1>6. CASE EndBatch(p)
    <2>1. [Idle EXCEPT !.at = "ingested"] \in ProcRecords
        BY Records DEF ProcRecords, ProcStates
    <2> QED
        BY <1>6, <2>1, Records DEF EndBatch, TypeOK, dbVars, diskVars
<1> QED
    BY <1>1, <1>2, <1>3, <1>4, <1>5, <1>6 DEF Ingest

(* A sync writes the files of the rows it has read.                        *)
WritesMirrored ==
    \A p \in Procs : proc[p].at = "writing" => proc[p].left \subseteq Mirrored(snapshot[p])

(* The steps of a sync, finished or failed, keep the types.                *)
LEMMA SyncType ==
    ASSUME TypeOK, WritesMirrored, NEW p \in Procs, Sync(p)
    PROVE  TypeOK'
<1>0. proc[p] \in ProcRecords
    BY DEF TypeOK
<1>1. CASE Lock(p)
    <2>1. [Idle EXCEPT !.at = "dropping"] \in ProcRecords
        BY Records DEF ProcRecords, ProcStates, Syncing
    <2>2. [Idle EXCEPT !.at = "writing", !.left = Mirrored(row)] \in ProcRecords
        BY Records DEF ProcRecords, ProcStates, Syncing, Mirrored, Files
    <2> QED
        BY <1>1, <2>1, <2>2 DEF Lock, TypeOK, dbVars, diskVars
<1>2. CASE EndWriting(p)
    <2>1. [proc[p] EXCEPT !.at = "manifest"] \in ProcRecords
        BY <1>0 DEF ProcRecords, ProcStates, Syncing
    <2> QED
        BY <1>2, <2>1, MovesType DEF EndWriting
<1>3. CASE WriteManifest(p)
    <2>1. [proc[p] EXCEPT !.at = "listing"] \in ProcRecords
        BY <1>0 DEF ProcRecords, ProcStates, Syncing
    <2>2. Listed(p) \subseteq Names
        BY DEF Listed, Mirrored
    <2> QED
        BY <1>3, <2>1, <2>2 DEF WriteManifest, TypeOK, dbVars
<1>4. CASE SyncFails(p)
    BY <1>4, Records DEF SyncFails, Unlock, TypeOK, dbVars, diskVars
<1>5. CASE ListStale(p)
    <2>1. [proc[p] EXCEPT !.at = "purging", !.left = OnDisk \ Mirrored(snapshot[p])] \in ProcRecords
        BY <1>0 DEF ProcRecords, ProcStates, Syncing, OnDisk
    <2> QED
        BY <1>5, <2>1, MovesType DEF ListStale
<1>6. CASE EndPurging(p)
    BY <1>6, Records DEF EndPurging, Unlock, TypeOK, dbVars, diskVars
<1>7. CASE DropManifest(p)
    BY <1>7 DEF DropManifest, TypeOK, dbVars
<1>8. CASE EndDropping(p)
    BY <1>8, Records DEF EndDropping, Unlock, TypeOK, dbVars, diskVars
<1>9. ASSUME NEW f \in Files, WriteFile(p, f) \/ RemoveStale(p, f) \/ DropFile(p, f)
      PROVE  TypeOK'
    <2>2. [proc[p] EXCEPT !.left = @ \ {f}] \in ProcRecords
        BY <1>0 DEF ProcRecords
    <2>3. UNCHANGED disturbed
        BY <1>9 DEF WriteFile, RemoveStale, DropFile
    <2>4. proc' \in [Procs -> ProcRecords]
        BY <1>9, <2>2 DEF WriteFile, RemoveStale, DropFile, TypeOK
    <2>5. file' \in [Files -> Contents \cup {Tombstone, None}]
        <3>1. CASE WriteFile(p, f)
            <4>1. f \in Mirrored(snapshot[p])
                BY <3>1 DEF WriteFile, WritesMirrored
            <4>2. snapshot[p][f[1]].content \in Contents
                BY <4>1 DEF Mirrored, TypeOK, Rows
            <4> QED
                BY <3>1, <4>2 DEF WriteFile, TypeOK
        <3> QED
            BY <1>9, <3>1 DEF RemoveStale, DropFile, TypeOK
    <2> QED
        BY <1>9, <2>3, <2>4, <2>5 DEF WriteFile, RemoveStale, DropFile, TypeOK, dbVars
<1> QED
    BY <1>1, <1>2, <1>3, <1>4, <1>5, <1>6, <1>7, <1>8, <1>9 DEF Sync

(* Every step of a caller, of the agent or a restart keeps the types.      *)
LEMMA TypeStep ==
    ASSUME TypeOK, WritesMirrored, [Next]_vars
    PROVE  TypeOK'
<1>1. ASSUME NEW p \in Procs, Change(p) \/ Ingest(p) \/ Sync(p) PROVE TypeOK'
    BY <1>1, ChangeType, IngestType, SyncType
<1>2. ASSUME NEW n \in AgentNames, NEW c \in Contents \cup {Tombstone}, AgentWrites(n, c)
      PROVE  TypeOK'
    <2>1. n \in Names
        BY NamesAssumption
    <2>2. disturbed' \in [Procs -> SUBSET Names]
        BY <1>2, <2>1 DEF AgentWrites, TypeOK
    <2> QED
        BY <1>2, <2>2 DEF AgentWrites, TypeOK, dbVars
<1>3. CASE Restart
    <2>1. proc' \in [Procs -> ProcRecords] /\ snapshot' \in [Procs -> [Ids -> Rows]]
        BY <1>3, Records DEF Restart
    <2> QED
        BY <1>3, <2>1 DEF Restart, TypeOK, dbVars, diskVars
<1>4. CASE UNCHANGED vars
    BY <1>4 DEF vars, dbVars, diskVars, TypeOK
<1> QED
    BY <1>1, <1>2, <1>3, <1>4 DEF Next

-----------------------------------------------------------------------------
(* The parts of the inductive invariant *)

Holds(p) == proc[p].at \in Syncing      \* syncMu
Owes(p) == \/ proc[p].at \in {"unsynced", "ingested", "batch"}
           \/ proc[p].at = "upserted" /\ Named(proc[p].name) # {}

OneHolder == \A p, q \in Procs : Holds(p) /\ Holds(q) => p = q

(* How far a sync has got.                                                 *)
Content(p, f) == snapshot[p][f[1]].content
SyncProgress ==
    \A p \in Procs :
        /\ proc[p].at = "writing" =>
              \A f \in Mirrored(snapshot[p]) \ proc[p].left : file[f] = Content(p, f)
        /\ proc[p].at \in {"manifest", "listing", "purging"} =>
              \A f \in Mirrored(snapshot[p]) : file[f] = Content(p, f)
        /\ proc[p].at \in {"listing", "purging"} => manifest = Listed(p)
        /\ proc[p].at = "purging" =>
              /\ proc[p].left \cap Mirrored(snapshot[p]) = {}
              /\ \/ behind
                 \/ \A f \in (Ids \X Names) \ Mirrored(snapshot[p]) :
                       file[f] # None => f \in proc[p].left
        /\ proc[p].at = "dropping" => snapshot[p] = NoRows

InStep ==
    /\ \A f \in Ids \X Names :
          file[f] = IF f \in Mirrored(row) THEN row[f[1]].content ELSE None
    /\ manifest = {f[2] : f \in Mirrored(row)}

(* The directory is what the rows say, or someone will see to it: a sync   *)
(* that has read these very rows, or a call that has its sync before it.   *)
Current ==
    \/ behind
    \/ \E p \in Procs : Owes(p)
    \/ \E p \in Procs : Holds(p) /\ snapshot[p] = row
    \/ (\A p \in Procs : ~Holds(p)) /\ InStep

(* Only the agent writes tombstones, and those without an id.              *)
TombstonesAreBare == \A f \in Ids \X Names : file[f] # Tombstone

(* Rows have been given their ids.                                         *)
RowsInserted ==
    /\ \A i \in Ids : i > inserted => row[i] = None
    /\ \A p \in Procs : proc[p].at = "updating" => proc[p].id \in 1..inserted

(* What an ingest knows of the agent's file of an undisturbed name.        *)
AgentFile(n) == file[<<Bare, n>>]
InTable(n) ==
    /\ AgentFile(n) = Tombstone => Named(n) = {}
    /\ AgentFile(n) \in Contents => \E i \in Named(n) : row[i].content = AgentFile(n)
IsParsed(p, n) == proc[p].parsed[n] = [content |-> AgentFile(n), plain |-> TRUE]
Progress(p) ==
    \A n \in Names \ disturbed[p] : AgentFile(n) # None =>
        /\ proc[p].at = "reading" => <<Bare, n>> \in proc[p].left \/ IsParsed(p, n)
        /\ proc[p].at = "batch" =>
              \/ IsParsed(p, n)
              \/ proc[p].parsed[n] = None /\ InTable(n)
              \/ proc[p].failed
        /\ proc[p].at = "ingested" => InTable(n)
IngestProgress == \A p \in Procs : Progress(p)

(* Until the agent's file is read nothing has been parsed that beats it.   *)
ReadOnce(p) ==
    proc[p].at = "reading" =>
        \A n \in Names : <<Bare, n>> \in proc[p].left =>
            LET old == proc[p].parsed[n] IN
            old = None \/ (~old.plain /\ old.content # Tombstone)
ReadsOnce == \A p \in Procs : ReadOnce(p)

-----------------------------------------------------------------------------
(* What steps leave alone *)

OffDisk(p) ==
    /\ UNCHANGED <<diskVars, snapshot>>
    /\ \A q \in Procs : q # p => proc'[q] = proc[q]
    /\ ~Holds(p) /\ ~Holds(p)'
    /\ behind => behind'

(* Changes and ingests neither hold syncMu nor touch the directory.        *)
LEMMA StaysOffDisk ==
    ASSUME TypeOK, NEW p \in Procs, Change(p) \/ Ingest(p)
    PROVE  OffDisk(p)
<1> USE DEF OffDisk, Holds, Syncing, TypeOK
<1>1. ASSUME NEW names, NEW record, Stated(p, names, record) \/ Moves(p, record),
             ~Holds(p), record.at \notin Syncing
      PROVE  OffDisk(p)
    BY <1>1 DEF Stated, Moves
<1>2. Idle.at = "idle" /\ Unsynced.at = "unsynced" /\ proc[p] \in ProcRecords
    BY DEF Idle, Unsynced
<1>3. ASSUME NEW n \in Names, NEW c \in Contents, CreateMemory(p, n, c) PROVE OffDisk(p)
    BY <1>1, <1>2, <1>3 DEF CreateMemory, Serving
<1>4. ASSUME NEW n \in Names, NEW c \in Contents, UpsertByName(p, n, c) PROVE OffDisk(p)
    <2>1. [Idle EXCEPT !.at = "upserted", !.name = n].at = "upserted"
        BY DEF Idle
    <2> QED
        BY <1>1, <1>4, <2>1 DEF UpsertByName, Serving
<1>5. ASSUME NEW n \in Names, NEW c \in Contents, Save(p, n, c) PROVE OffDisk(p)
    BY <1>1, <1>2, <1>5 DEF Save
<1>6. ASSUME NEW i \in Ids, DeleteMemory(p, i) PROVE OffDisk(p)
    BY <1>1, <1>2, <1>6 DEF DeleteMemory, Serving
<1>7. ASSUME NEW i \in Ids, ReadForUpdate(p, i) PROVE OffDisk(p)
    <2>1. [Idle EXCEPT !.at = "updating", !.id = i].at = "updating"
        BY DEF Idle
    <2> QED
        BY <1>1, <1>7, <2>1 DEF ReadForUpdate, Serving
<1>8. CASE ReadBack(p) \/ SaveFails(p)
    BY <1>1, <1>2, <1>8 DEF ReadBack, SaveFails
<1>9. CASE ListFiles(p)
    <2>1. [Idle EXCEPT !.at = "reading", !.left = OnDisk].at = "reading"
        BY DEF Idle
    <2> QED
        BY <1>1, <1>9, <2>1 DEF ListFiles, Serving
<1>10. CASE ReadFile(p)
    <2>1. PICK f, best : Moves(p, [proc[p] EXCEPT !.left = @ \ {f}, !.parsed[f[2]] = best])
        BY <1>10 DEF ReadFile
    <2>2. [proc[p] EXCEPT !.left = @ \ {f}, !.parsed[f[2]] = best].at = proc[p].at
        BY <1>2 DEF ProcRecords
    <2>3. proc[p].at = "reading"
        BY <1>10 DEF ReadFile
    <2> QED
        BY <1>1, <2>1, <2>2, <2>3
<1>11. CASE EndReading(p)
    <2>1. [proc[p] EXCEPT !.at = "batch"].at = "batch"
        BY <1>2 DEF ProcRecords
    <2> QED
        BY <1>2, <1>11, <2>1 DEF EndReading
<1>12. ASSUME NEW n \in Names, IngestRow(p, n) PROVE OffDisk(p)
    <2>1. [proc[p] EXCEPT !.parsed[n] = None].at = proc[p].at
        BY <1>2 DEF ProcRecords
    <2> QED
        BY <1>1, <1>12, <2>1 DEF IngestRow
<1>13. ASSUME NEW n \in Names, IngestRowFails(p, n) PROVE OffDisk(p)
    <2>1. proc'[p].at = proc[p].at
        BY <1>2, <1>13 DEF IngestRowFails, ProcRecords
    <2> QED
        BY <1>13, <2>1 DEF IngestRowFails, diskVars
<1>14. CASE EndBatch(p)
    <2>1. [Idle EXCEPT !.at = "ingested"].at = "ingested"
        BY DEF Idle
    <2> QED
        BY <1>2, <1>14, <2>1 DEF EndBatch
<1> QED
    <2> HIDE DEF OffDisk, Holds, Syncing, TypeOK
    <2>1. CASE Change(p)
        BY <1>3, <1>4, <1>5, <1>6, <1>7, <1>8, <2>1 DEF Change
    <2>2. CASE Ingest(p)
        BY <1>9, <1>10, <1>11, <1>12, <1>13, <1>14, <2>2 DEF Ingest
    <2> QED
        BY <2>1, <2>2

(* A sync leaves the table and the other goroutines alone.                 *)
LEMMA OffTable ==
    ASSUME TypeOK, NEW p \in Procs, Sync(p)
    PROVE  /\ UNCHANGED dbVars
           /\ \A q \in Procs : q # p => proc'[q] = proc[q] /\ snapshot'[q] = snapshot[q]
BY DEF Sync, Lock, EndWriting, WriteManifest, SyncFails, ListStale, EndPurging, DropManifest, EndDropping,
    WriteFile, RemoveStale, DropFile, Moves, Unlock, TypeOK, dbVars

-----------------------------------------------------------------------------
(* Changes and ingests, and the directory *)

(* Whoever changes the table, or had a sync before it, has one before it.  *)
LEMMA ChangesAreOwed ==
    ASSUME TypeOK, NEW p \in Procs, Change(p) \/ Ingest(p)
    PROVE  Owes(p)' \/ behind' \/ (UNCHANGED row /\ ~Owes(p))
<1> DEFINE Goal == Owes(p)' \/ behind' \/ (UNCHANGED row /\ ~Owes(p))
<1> USE DEF Owes, TypeOK
<1>0. /\ Idle.at = "idle" /\ Unsynced.at = "unsynced" /\ Idle.parsed = [n \in Names |-> None]
      /\ proc[p] \in ProcRecords
    BY DEF Idle, Unsynced
<1>1. ASSUME NEW n \in Names, NEW c \in Contents, CreateMemory(p, n, c) PROVE Goal
    BY <1>0, <1>1 DEF CreateMemory, Stated
<1>2. ASSUME NEW n \in Names, NEW c \in Contents, UpsertByName(p, n, c) PROVE Goal
    <2>1. proc'[p].at = "upserted" /\ proc'[p].name = n
        BY <1>2 DEF UpsertByName, Stated, Idle
    <2>2. Named(n)' # {}
        <3>1. CASE Insert(n, c)
            <4>1. inserted + 1 \in Ids
                BY <3>1, MaxRowsAssumption DEF Insert, Ids
            <4>2. row'[inserted + 1].name = n /\ row'[inserted + 1] # None
                BY <3>1, <4>1, NoneAssumption DEF Insert
            <4> QED
                BY <4>1, <4>2 DEF Named
        <3>2. CASE Overwrite(n, c)
            <4>1. PICK i \in Ids : i \in Named(n)
                BY <3>2 DEF Overwrite, Named
            <4>2. row'[i] = [name |-> n, content |-> c]
                BY <3>2, <4>1 DEF Overwrite
            <4>3. row'[i] # None /\ row'[i].name = n
                BY <4>2, NoneAssumption
            <4> QED
                BY <4>1, <4>3 DEF Named
        <3> QED
            BY <1>2, <3>1, <3>2 DEF UpsertByName
    <2> QED
        BY <2>1, <2>2 DEF Named
<1>3. ASSUME NEW n \in Names, NEW c \in Contents, Save(p, n, c) PROVE Goal
    BY <1>0, <1>3 DEF Save, Stated
<1>4. ASSUME NEW i \in Ids, DeleteMemory(p, i) PROVE Goal
    BY <1>0, <1>4 DEF DeleteMemory, Stated
<1>5. ASSUME NEW i \in Ids, ReadForUpdate(p, i) PROVE Goal
    BY <1>5 DEF ReadForUpdate, Moves, Serving, dbVars
<1>6. CASE ReadBack(p)
    BY <1>0, <1>6 DEF ReadBack, Moves, dbVars
<1>7. CASE SaveFails(p)
    BY <1>7 DEF SaveFails, Moves, dbVars
<1>8. CASE ListFiles(p)
    BY <1>8 DEF ListFiles, Moves, Serving, dbVars
<1>9. CASE ReadFile(p)
    BY <1>9 DEF ReadFile, Moves, dbVars
<1>10. CASE EndReading(p)
    BY <1>10 DEF EndReading, dbVars
<1>11. ASSUME NEW n \in Names, IngestRow(p, n) PROVE Goal
    <2>1. proc'[p].at = "batch"
        BY <1>0, <1>11 DEF IngestRow, Stated, ProcRecords
    <2> QED
        BY <2>1
<1>12. ASSUME NEW n \in Names, IngestRowFails(p, n) PROVE Goal
    <2>1. proc'[p].at = "batch"
        BY <1>0, <1>12 DEF IngestRowFails, ProcRecords
    <2> QED
        BY <2>1
<1>13. CASE EndBatch(p)
    <2>1. [Idle EXCEPT !.at = "ingested"].at = "ingested"
        BY DEF Idle
    <2> QED
        BY <1>13, <2>1 DEF EndBatch
<1> QED
    <2> HIDE DEF Owes, TypeOK
    <2>1. CASE Change(p)
        BY <1>1, <1>2, <1>3, <1>4, <1>5, <1>6, <1>7, <2>1 DEF Change
    <2>2. CASE Ingest(p)
        BY <1>8, <1>9, <1>10, <1>11, <1>12, <1>13, <2>2 DEF Ingest
    <2> QED
        BY <2>1, <2>2

(* The parts about the directory and its syncs.                            *)
DiskInv ==
    /\ WritesMirrored
    /\ OneHolder
    /\ SyncProgress
    /\ Current
    /\ ManifestIsBacked

(* Whoever neither holds syncMu nor touches the directory keeps the state  *)
(* of the disk in order, as long as a change leaves a sync owed.           *)
LEMMA DiskOffDisk ==
    ASSUME TypeOK, DiskInv, NEW p \in Procs, Change(p) \/ Ingest(p)
    PROVE  DiskInv'
<1>1. OffDisk(p)
    BY StaysOffDisk
<1>2. UNCHANGED <<file, manifest, torn, snapshot>> /\ (behind => behind')
    BY <1>1 DEF OffDisk, diskVars
<1>3. \A q \in Procs : /\ q # p => proc'[q] = proc[q]
                       /\ Holds(q)' <=> Holds(q)
                       /\ Holds(q) => proc'[q] = proc[q]
    BY <1>1 DEF OffDisk, Holds
<1>4. \A q \in Procs : /\ Mirrored(snapshot[q])' = Mirrored(snapshot[q])
                       /\ Listed(q)' = Listed(q)
                       /\ \A f : Content(q, f)' = Content(q, f)
    BY <1>2 DEF Mirrored, Listed, Content
<1>5. WritesMirrored'
    BY <1>3, <1>4 DEF DiskInv, WritesMirrored, Holds, Syncing
<1>6. OneHolder'
    BY <1>3 DEF DiskInv, OneHolder
<1>7. SyncProgress'
    BY <1>2, <1>3, <1>4 DEF DiskInv, SyncProgress, Holds, Syncing
<1>8. Current'
    <2>1. CASE Owes(p)' \/ behind'
        BY <2>1 DEF Current
    <2>2. CASE UNCHANGED row /\ ~Owes(p) /\ ~behind'
        <3>1. \A q \in Procs : Owes(q) => Owes(q)'
            BY <1>3, <2>2 DEF Owes, Named
        <3>2. InStep => InStep'
            BY <1>2, <2>2 DEF InStep, Mirrored
        <3> QED
            BY <1>2, <1>3, <2>2, <3>1, <3>2 DEF DiskInv, Current
    <2> QED
        BY <2>1, <2>2, ChangesAreOwed
<1>9. ManifestIsBacked'
    BY <1>2 DEF DiskInv, ManifestIsBacked
<1> QED
    BY <1>5, <1>6, <1>7, <1>8, <1>9 DEF DiskInv

-----------------------------------------------------------------------------
(* The steps of a sync, and the directory *)

(* Nobody else holds syncMu: the step of p is all that there is.           *)
Alone(p) == \A q \in Procs : q # p => ~Holds(q) /\ ~Holds(q)'

(* With nobody else at it, only what p is at matters.                      *)
LEMMA DiskAlone ==
    ASSUME NEW p \in Procs, Alone(p),
           (proc[p].at = "writing" => proc[p].left \subseteq Mirrored(snapshot[p]))',
           /\ proc'[p].at = "writing" =>
                 \A f \in Mirrored(snapshot'[p]) \ proc'[p].left : file'[f] = snapshot'[p][f[1]].content
           /\ proc'[p].at \in {"manifest", "listing", "purging"} =>
                 \A f \in Mirrored(snapshot'[p]) : file'[f] = snapshot'[p][f[1]].content
           /\ proc'[p].at \in {"listing", "purging"} => manifest' = Listed(p)'
           /\ proc'[p].at = "purging" =>
                 /\ proc'[p].left \cap Mirrored(snapshot'[p]) = {}
                 /\ \/ behind'
                    \/ \A f \in (Ids \X Names) \ Mirrored(snapshot'[p]) :
                          file'[f] # None => f \in proc'[p].left
           /\ proc'[p].at = "dropping" => snapshot'[p] = NoRows
    PROVE  WritesMirrored' /\ OneHolder' /\ SyncProgress'
<1>1. WritesMirrored'
    BY DEF Alone, Holds, Syncing, WritesMirrored
<1>2. OneHolder'
    BY DEF Alone, OneHolder
<1>3. SyncProgress'
    BY DEF Alone, Holds, Syncing, SyncProgress, Content, Mirrored
<1> QED
    BY <1>1, <1>2, <1>3

(* A holder of syncMu is alone, and so is whoever takes it.                *)
LEMMA SyncsAlone ==
    ASSUME TypeOK, OneHolder, NEW p \in Procs, Sync(p)
    PROVE  Alone(p)
<1>1. \A q \in Procs : q # p => (Holds(q)' <=> Holds(q))
    BY OffTable DEF Holds
<1>2. CASE Holds(p)
    BY <1>1, <1>2 DEF OneHolder, Alone
<1>3. CASE ~Holds(p)
    <2>1. \A q \in Procs : Free(q)
        BY <1>3 DEF Sync, Lock, EndWriting, WriteManifest, SyncFails, ListStale, EndPurging, DropManifest,
            EndDropping, WriteFile, RemoveStale, DropFile, Holds, Syncing
    <2> QED
        BY <1>1, <2>1 DEF Free, Holds, Alone
<1> QED
    BY <1>2, <1>3

(* While p holds syncMu and its snapshot is what it was, the directory     *)
(* stays as much behind the rows as it was.                                *)
LEMMA CurrentKept ==
    ASSUME TypeOK, Current, NEW p \in Procs, Holds(p), Holds(p)', UNCHANGED <<row, snapshot>>,
           \A q \in Procs : q # p => proc'[q] = proc[q], behind => behind'
    PROVE  Current'
<1>1. CASE behind
    BY <1>1 DEF Current
<1>2. ASSUME NEW q \in Procs, Owes(q) PROVE Current'
    <2>1. q # p
        BY <1>2 DEF Owes, Holds, Syncing
    <2>2. Owes(q)'
        BY <1>2, <2>1 DEF Owes, Named
    <2> QED
        BY <2>2 DEF Current
<1>3. ASSUME NEW q \in Procs, Holds(q), snapshot[q] = row PROVE Current'
    <2>1. Holds(q)'
        BY <1>3 DEF Holds
    <2> QED
        BY <1>3, <2>1 DEF Current
<1> QED
    BY <1>1, <1>2, <1>3 DEF Current

(* Taking syncMu starts a sync that has written nothing yet.               *)
LEMMA LockStep ==
    ASSUME TypeOK, DiskInv, NEW p \in Procs, Alone(p), Lock(p)
    PROVE  DiskInv'
<1>1. snapshot'[p] = row
    BY DEF Lock, TypeOK
<1>2. \/ row = NoRows /\ proc'[p].at = "dropping"
      \/ proc'[p].at = "writing" /\ proc'[p].left = Mirrored(row)
    BY DEF Lock, TypeOK, Idle
<1>3. UNCHANGED <<row, file, manifest, torn>>
    BY DEF Lock, dbVars, diskVars
<1>4. WritesMirrored' /\ OneHolder' /\ SyncProgress'
    BY <1>1, <1>2, DiskAlone DEF Mirrored
<1>5. Current'
    BY <1>1, <1>2, <1>3 DEF Current, Holds, Syncing
<1>6. ManifestIsBacked'
    BY <1>3 DEF DiskInv, ManifestIsBacked
<1> QED
    BY <1>4, <1>5, <1>6 DEF DiskInv

(* Writing one row's file leaves the rows still to write one fewer.        *)
LEMMA WriteFileStep ==
    ASSUME TypeOK, DiskInv, NEW p \in Procs, Alone(p), NEW f \in Files, WriteFile(p, f)
    PROVE  DiskInv'
<1>0. proc[p] \in ProcRecords /\ f \in Mirrored(snapshot[p]) /\ proc[p].at = "writing"
    BY DEF WriteFile, TypeOK, DiskInv, WritesMirrored
<1>1. proc'[p].at = "writing" /\ proc'[p].left = proc[p].left \ {f}
    BY <1>0 DEF WriteFile, TypeOK, ProcRecords
<1>2. UNCHANGED <<row, manifest, torn, snapshot, behind>> /\ file' = [file EXCEPT ![f] = Content(p, f)]
    BY DEF WriteFile, dbVars, Content
<1>3. file'[f] = Content(p, f) /\ \A g \in Files : g # f => file'[g] = file[g]
    BY <1>2 DEF TypeOK
<1>4. Content(p, f) # None
    BY <1>0, ContentsAssumption DEF Content, Mirrored, TypeOK, Rows
<1>5. \A g \in Mirrored(snapshot[p]) : g \in Files
    BY DEF Mirrored, Files
<1>6. WritesMirrored' /\ OneHolder' /\ SyncProgress'
    <2>1. \A g \in Mirrored(snapshot'[p]) \ proc'[p].left : file'[g] = snapshot'[p][g[1]].content
        BY <1>0, <1>1, <1>2, <1>3, <1>5 DEF DiskInv, SyncProgress, Content
    <2>2. (proc[p].left \subseteq Mirrored(snapshot[p]))'
        BY <1>0, <1>1, <1>2 DEF DiskInv, WritesMirrored, Mirrored
    <2> QED
        BY <1>1, <2>1, <2>2, DiskAlone
<1>7. Current'
    BY <1>0, <1>1, <1>2, OffTable, CurrentKept DEF DiskInv, Holds, Syncing, Sync
<1>8. ManifestIsBacked'
    <2>1. \A n \in Names, i \in Ids : file[<<i, n>>] # None => file'[<<i, n>>] # None
        BY <1>3, <1>4 DEF Files
    <2> QED
        BY <1>2, <2>1 DEF DiskInv, ManifestIsBacked, TypeOK
<1> QED
    BY <1>6, <1>7, <1>8 DEF DiskInv

(* When the last file is written, every row a sync read has its file.      *)
LEMMA EndWritingStep ==
    ASSUME TypeOK, DiskInv, NEW p \in Procs, Alone(p), EndWriting(p)
    PROVE  DiskInv'
<1>0. proc[p] \in ProcRecords /\ proc[p].at = "writing" /\ proc[p].left = {}
    BY DEF EndWriting, TypeOK
<1>1. proc'[p].at = "manifest"
    BY <1>0 DEF EndWriting, Moves, TypeOK, ProcRecords
<1>2. UNCHANGED <<row, file, manifest, torn, snapshot, behind>>
    BY DEF EndWriting, Moves, dbVars, diskVars
<1>3. WritesMirrored' /\ OneHolder' /\ SyncProgress'
    <2>1. \A g \in Mirrored(snapshot'[p]) : file'[g] = snapshot'[p][g[1]].content
        BY <1>0, <1>2 DEF DiskInv, SyncProgress, Content, Mirrored
    <2> QED
        BY <1>1, <2>1, DiskAlone
<1>4. Current'
    BY <1>0, <1>1, <1>2, OffTable, CurrentKept DEF DiskInv, Holds, Syncing, Sync
<1>5. ManifestIsBacked'
    BY <1>2 DEF DiskInv, ManifestIsBacked
<1> QED
    BY <1>3, <1>4, <1>5 DEF DiskInv

(* The manifest is only replaced when every row it lists has its file.     *)
LEMMA WriteManifestStep ==
    ASSUME TypeOK, DiskInv, NEW p \in Procs, Alone(p), WriteManifest(p)
    PROVE  DiskInv'
<1>0. proc[p] \in ProcRecords /\ proc[p].at = "manifest"
    BY DEF WriteManifest, TypeOK
<1>1. proc'[p].at = "listing"
    BY <1>0 DEF WriteManifest, TypeOK, ProcRecords
<1>2. UNCHANGED <<row, file, snapshot, behind>> /\ manifest' = Listed(p)
    BY DEF WriteManifest, dbVars
<1>3. \A g \in Mirrored(snapshot[p]) : file[g] = Content(p, g) /\ Content(p, g) # None
    <2>1. \A g \in Mirrored(snapshot[p]) : file[g] = Content(p, g)
        BY <1>0 DEF DiskInv, SyncProgress
    <2>2. \A g \in Mirrored(snapshot[p]) : Content(p, g) # None
        BY ContentsAssumption DEF Content, Mirrored, TypeOK, Rows
    <2> QED
        BY <2>1, <2>2
<1>4. WritesMirrored' /\ OneHolder' /\ SyncProgress'
    <2>1. \A g \in Mirrored(snapshot'[p]) : file'[g] = snapshot'[p][g[1]].content
        BY <1>2, <1>3 DEF Content, Mirrored
    <2>2. manifest' = Listed(p)'
        BY <1>2 DEF Listed, Mirrored
    <2> QED
        BY <1>1, <2>1, <2>2, DiskAlone
<1>5. Current'
    BY <1>0, <1>1, <1>2, OffTable, CurrentKept DEF DiskInv, Holds, Syncing, Sync
<1>6. ManifestIsBacked'
    <2>1. ASSUME NEW n \in manifest' PROVE \E i \in Ids : file'[<<i, n>>] # None
        <3>1. PICK g \in Mirrored(snapshot[p]) : g[2] = n
            BY <1>2, <2>1 DEF Listed
        <3>2. g \in Ids \X Names /\ g = <<g[1], n>> /\ g[1] \in Ids
            BY <3>1 DEF Mirrored
        <3>3. file'[g] # None
            BY <1>2, <1>3
        <3> QED
            BY <3>2, <3>3
    <2> QED
        BY <2>1 DEF ManifestIsBacked
<1> QED
    BY <1>4, <1>5, <1>6 DEF DiskInv

(* A sync that fails gives the lock back and leaves a torn directory.      *)
LEMMA SyncFailsStep ==
    ASSUME TypeOK, DiskInv, NEW p \in Procs, Alone(p), SyncFails(p)
    PROVE  DiskInv'
<1>1. proc'[p].at = "idle" /\ behind'
    BY DEF SyncFails, Unlock, TypeOK, Idle
<1>2. UNCHANGED <<file, manifest, torn>>
    BY DEF SyncFails, diskVars
<1>3. WritesMirrored' /\ OneHolder' /\ SyncProgress'
    BY <1>1, DiskAlone
<1> QED
    BY <1>1, <1>2, <1>3 DEF DiskInv, Current, ManifestIsBacked

(* The listing for the purge finds the files that no row read asks for.    *)
LEMMA ListStaleStep ==
    ASSUME TypeOK, DiskInv, NEW p \in Procs, Alone(p), ListStale(p)
    PROVE  DiskInv'
<1>0. proc[p] \in ProcRecords /\ proc[p].at = "listing"
    BY DEF ListStale, TypeOK
<1>1. proc'[p].at = "purging" /\ proc'[p].left = OnDisk \ Mirrored(snapshot[p])
    BY <1>0 DEF ListStale, Moves, TypeOK, ProcRecords
<1>2. UNCHANGED <<row, file, manifest, torn, snapshot, behind>>
    BY DEF ListStale, Moves, dbVars, diskVars
<1>3. WritesMirrored' /\ OneHolder' /\ SyncProgress'
    <2>1. \A g \in Mirrored(snapshot'[p]) : file'[g] = snapshot'[p][g[1]].content
        BY <1>0, <1>2 DEF DiskInv, SyncProgress, Content, Mirrored
    <2>2. manifest' = Listed(p)'
        BY <1>0, <1>2 DEF DiskInv, SyncProgress, Listed, Mirrored
    <2>3. \A g \in (Ids \X Names) \ Mirrored(snapshot'[p]) : file'[g] # None => g \in proc'[p].left
        BY <1>1, <1>2 DEF OnDisk, Files
    <2>4. proc'[p].left \cap Mirrored(snapshot'[p]) = {}
        BY <1>1, <1>2
    <2> QED
        BY <1>1, <2>1, <2>2, <2>3, <2>4, DiskAlone
<1>4. Current'
    BY <1>0, <1>1, <1>2, OffTable, CurrentKept DEF DiskInv, Holds, Syncing, Sync
<1>5. ManifestIsBacked'
    BY <1>2 DEF DiskInv, ManifestIsBacked
<1> QED
    BY <1>3, <1>4, <1>5 DEF DiskInv

(* Removing a stale file takes nothing the manifest lists.                 *)
LEMMA RemoveStaleStep ==
    ASSUME TypeOK, DiskInv, NEW p \in Procs, Alone(p), NEW f \in Files, RemoveStale(p, f)
    PROVE  DiskInv'
<1>0. /\ proc[p] \in ProcRecords /\ proc[p].at = "purging" /\ f \in proc[p].left
      /\ proc[p].left \cap Mirrored(snapshot[p]) = {}
    BY DEF RemoveStale, TypeOK, DiskInv, SyncProgress
<1>1. proc'[p].at = "purging" /\ proc'[p].left = proc[p].left \ {f}
    BY <1>0 DEF RemoveStale, TypeOK, ProcRecords
<1>2. UNCHANGED <<row, manifest, torn, snapshot>>
    BY DEF RemoveStale, dbVars
<1>3. /\ \A g \in Files : g # f => file'[g] = file[g]
      /\ behind => behind'
      /\ behind' \/ file'[f] = None
    BY DEF RemoveStale, TypeOK
<1>4. \A g \in Mirrored(snapshot[p]) : /\ g \in Files /\ g # f
                                       /\ file'[g] = Content(p, g) /\ Content(p, g) # None
    <2>1. \A g \in Mirrored(snapshot[p]) : g \in Files /\ g # f
        BY <1>0 DEF Mirrored, Files
    <2> QED
        BY <1>0, <1>3, <2>1, ContentsAssumption DEF DiskInv, SyncProgress, Content, Mirrored, TypeOK, Rows
<1>5. WritesMirrored' /\ OneHolder' /\ SyncProgress'
    <2>1. \A g \in Mirrored(snapshot'[p]) : file'[g] = snapshot'[p][g[1]].content
        BY <1>2, <1>4 DEF Content, Mirrored
    <2>2. manifest' = Listed(p)'
        BY <1>0, <1>2 DEF DiskInv, SyncProgress, Listed, Mirrored
    <2>3. \/ behind'
          \/ \A g \in (Ids \X Names) \ Mirrored(snapshot'[p]) : file'[g] # None => g \in proc'[p].left
        <3>1. SUFFICES ASSUME ~behind', NEW g \in (Ids \X Names) \ Mirrored(snapshot[p]), file'[g] # None
                       PROVE  g \in proc[p].left \ {f}
            BY <1>1, <1>2
        <3>2. g \in Files /\ g # f /\ file[g] # None /\ ~behind
            BY <1>3, <3>1 DEF Files
        <3> QED
            BY <1>0, <3>1, <3>2 DEF DiskInv, SyncProgress
    <2>4. proc'[p].left \cap Mirrored(snapshot'[p]) = {}
        BY <1>0, <1>1, <1>2
    <2> QED
        BY <1>1, <2>1, <2>2, <2>3, <2>4, DiskAlone
<1>6. Current'
    BY <1>0, <1>1, <1>2, <1>3, OffTable, CurrentKept DEF DiskInv, Holds, Syncing, Sync
<1>7. ManifestIsBacked'
    <2>1. ASSUME NEW n \in manifest' PROVE \E i \in Ids : file'[<<i, n>>] # None
        <3>1. PICK g \in Mirrored(snapshot[p]) : g[2] = n
            BY <1>0, <1>2, <2>1 DEF DiskInv, SyncProgress, Listed
        <3>2. g = <<g[1], n>> /\ g[1] \in Ids
            BY <3>1 DEF Mirrored
        <3> QED
            BY <1>4, <3>2
    <2> QED
        BY <2>1 DEF ManifestIsBacked
<1> QED
    BY <1>5, <1>6, <1>7 DEF DiskInv

(* A sync that has purged the last stale file leaves files and rows equal. *)
LEMMA EndPurgingStep ==
    ASSUME TypeOK, DiskInv, NEW p \in Procs, Alone(p), EndPurging(p)
    PROVE  DiskInv'
<1>0. proc[p].at = "purging" /\ proc[p].left = {}
    BY DEF EndPurging
<1>1. proc'[p].at = "idle" /\ behind' = behind
    BY DEF EndPurging, Unlock, TypeOK, Idle
<1>2. UNCHANGED <<row, file, manifest, torn>>
    BY DEF EndPurging, dbVars, diskVars
<1>3. WritesMirrored' /\ OneHolder' /\ SyncProgress'
    BY <1>1, DiskAlone
<1>4. Current'
    <2>1. ASSUME ~behind, snapshot[p] = row PROVE InStep'
        <3>1. ASSUME NEW f \in Ids \X Names
              PROVE  file[f] = IF f \in Mirrored(row) THEN row[f[1]].content ELSE None
            <4>1. CASE f \in Mirrored(row)
                BY <1>0, <2>1, <4>1 DEF DiskInv, SyncProgress, Content
            <4>2. CASE f \notin Mirrored(row)
                BY <1>0, <2>1, <4>2 DEF DiskInv, SyncProgress
            <4> QED
                BY <4>1, <4>2
        <3>2. manifest = {f[2] : f \in Mirrored(row)}
            BY <1>0, <2>1 DEF DiskInv, SyncProgress, Listed
        <3> QED
            BY <1>2, <3>1, <3>2 DEF InStep, Mirrored
    <2>2. Holds(p) /\ ~Holds(p)'
        BY <1>0, <1>1 DEF Holds, Syncing
    <2>3. \A q \in Procs : ~Holds(q)'
        BY <2>2 DEF Alone
    <2>4. ASSUME NEW q \in Procs, Owes(q) PROVE Current'
        <3>1. q # p
            BY <1>0, <2>4 DEF Owes
        <3>2. Owes(q)'
            BY <1>2, <2>4, <3>1, OffTable DEF Owes, Named, Sync
        <3> QED
            BY <3>2 DEF Current
    <2>5. ASSUME NEW q \in Procs, Holds(q), snapshot[q] = row PROVE Current'
        <3>1. q = p
            BY <2>2, <2>5 DEF Alone
        <3> QED
            BY <1>1, <2>1, <2>3, <2>5, <3>1 DEF Current
    <2> QED
        BY <1>1, <2>2, <2>4, <2>5 DEF DiskInv, Current
<1>5. ManifestIsBacked'
    BY <1>2 DEF DiskInv, ManifestIsBacked
<1> QED
    BY <1>3, <1>4, <1>5 DEF DiskInv

(* A scope without rows loses its files one by one.                        *)
LEMMA DropFileStep ==
    ASSUME TypeOK, DiskInv, NEW p \in Procs, Alone(p), NEW f \in Files, DropFile(p, f)
    PROVE  DiskInv'
<1>0. proc[p].at = "dropping" /\ snapshot[p] = NoRows
    BY DEF DropFile, DiskInv, SyncProgress
<1>1. UNCHANGED <<row, manifest, proc, snapshot, behind>> /\ torn' = (manifest # {})
    BY DEF DropFile, dbVars
<1>2. WritesMirrored' /\ OneHolder' /\ SyncProgress'
    BY <1>0, <1>1, DiskAlone
<1>3. Current'
    BY <1>0, <1>1, CurrentKept DEF DiskInv, Holds, Syncing
<1>4. ManifestIsBacked'
    BY <1>1 DEF ManifestIsBacked
<1> QED
    BY <1>2, <1>3, <1>4 DEF DiskInv

(* A scope without rows loses its manifest too.                            *)
LEMMA DropManifestStep ==
    ASSUME TypeOK, DiskInv, NEW p \in Procs, Alone(p), DropManifest(p)
    PROVE  DiskInv'
<1>0. proc[p].at = "dropping" /\ snapshot[p] = NoRows
    BY DEF DropManifest, DiskInv, SyncProgress
<1>1. UNCHANGED <<row, proc, snapshot, behind>> /\ manifest' = {}
    BY DEF DropManifest, dbVars
<1>2. WritesMirrored' /\ OneHolder' /\ SyncProgress'
    BY <1>0, <1>1, DiskAlone
<1>3. Current'
    BY <1>0, <1>1, CurrentKept DEF DiskInv, Holds, Syncing
<1>4. ManifestIsBacked'
    BY <1>1 DEF ManifestIsBacked
<1> QED
    BY <1>2, <1>3, <1>4 DEF DiskInv

(* A scope whose directory is gone has no rows, or owes a sync.            *)
LEMMA EndDroppingStep ==
    ASSUME TypeOK, DiskInv, NEW p \in Procs, Alone(p), EndDropping(p)
    PROVE  DiskInv'
<1>0. proc[p].at = "dropping" /\ snapshot[p] = NoRows
    BY DEF EndDropping, DiskInv, SyncProgress
<1>1. proc'[p].at = "idle" /\ behind' = (behind \/ OnDisk # {} \/ manifest # {})
    BY DEF EndDropping, Unlock, TypeOK, Idle
<1>2. UNCHANGED <<row, file, manifest, torn>>
    BY DEF EndDropping, dbVars, diskVars
<1>3. WritesMirrored' /\ OneHolder' /\ SyncProgress'
    BY <1>1, DiskAlone
<1>4. Current'
    <2>1. CASE behind'
        BY <2>1 DEF Current
    <2>2. CASE ~behind'
        <3>1. OnDisk = {} /\ manifest = {}
            BY <1>1, <2>2
        <3>2. Holds(p) /\ \A q \in Procs : ~Holds(q)'
            BY <1>0, <1>1 DEF Holds, Syncing, Alone
        <3>3. row = NoRows => InStep'
            <4>1. Mirrored(NoRows) = {}
                BY DEF Mirrored, NoRows
            <4> QED
                BY <1>2, <3>1, <4>1 DEF InStep, OnDisk, Files, Mirrored
        <3>4. ASSUME NEW q \in Procs, Owes(q) PROVE Current'
            <4>1. q # p
                BY <1>0, <3>4 DEF Owes
            <4>2. Owes(q)'
                BY <1>2, <3>4, <4>1, OffTable DEF Owes, Named, Sync
            <4> QED
                BY <4>2 DEF Current
        <3>5. ASSUME NEW q \in Procs, Holds(q), snapshot[q] = row PROVE Current'
            <4>1. q = p
                BY <3>5 DEF Alone
            <4> QED
                BY <1>0, <3>2, <3>3, <3>5, <4>1 DEF Current
        <3> QED
            BY <1>1, <2>2, <3>2, <3>4, <3>5 DEF DiskInv, Current
    <2> QED
        BY <2>1, <2>2
<1>5. ManifestIsBacked'
    BY <1>2 DEF DiskInv, ManifestIsBacked
<1> QED
    BY <1>3, <1>4, <1>5 DEF DiskInv

(* Every step of a sync keeps the state of the disk in order.              *)
LEMMA DiskSync ==
    ASSUME TypeOK, DiskInv, NEW p \in Procs, Sync(p)
    PROVE  DiskInv'
<1>1. Alone(p)
    BY SyncsAlone DEF DiskInv
<1> QED
    BY <1>1, LockStep, WriteFileStep, EndWritingStep, WriteManifestStep, SyncFailsStep, ListStaleStep,
       RemoveStaleStep, EndPurgingStep, DropFileStep, DropManifestStep, EndDroppingStep DEF Sync

(* The agent only writes files without an id.                              *)
LEMMA DiskAgent ==
    ASSUME TypeOK, DiskInv, NEW n \in AgentNames, NEW c, AgentWrites(n, c)
    PROVE  DiskInv'
<1>1. UNCHANGED <<row, manifest, torn, proc, snapshot, behind>>
    BY DEF AgentWrites, dbVars
<1>2. \A f \in Ids \X Names : file'[f] = file[f]
    <2>1. Bare \notin Ids
        BY MaxRowsAssumption DEF Bare, Ids
    <2> QED
        BY <2>1 DEF AgentWrites, TypeOK, Files
<1>3. \A q \in Procs : Mirrored(snapshot[q]) \subseteq Ids \X Names
    BY DEF Mirrored
<1>4. WritesMirrored' /\ OneHolder'
    BY <1>1 DEF DiskInv, WritesMirrored, OneHolder, Holds, Mirrored
<1>5. SyncProgress'
    BY <1>1, <1>2, <1>3 DEF DiskInv, SyncProgress, Content, Listed, Mirrored
<1>6. Current'
    <2>1. InStep => InStep'
        BY <1>1, <1>2 DEF InStep, Mirrored
    <2> QED
        BY <1>1, <2>1 DEF DiskInv, Current, Owes, Holds, Named
<1>7. ManifestIsBacked'
    BY <1>1, <1>2 DEF DiskInv, ManifestIsBacked, TypeOK
<1> QED
    BY <1>4, <1>5, <1>6, <1>7 DEF DiskInv

(* A restart drops every sync halfway; the boot's sync repairs it.         *)
LEMMA DiskRestart ==
    ASSUME TypeOK, DiskInv, Restart
    PROVE  DiskInv'
<1>1. \A q \in Procs : proc'[q].at \in {"idle", "unsynced"}
    BY DEF Restart, Idle, Unsynced
<1>2. proc'[Boot].at = "unsynced" /\ Boot \in Procs
    BY DEF Restart, Unsynced, Idle, Procs
<1>3. UNCHANGED <<file, manifest, torn>>
    BY DEF Restart, diskVars
<1> QED
    BY <1>1, <1>2, <1>3 DEF DiskInv, WritesMirrored, OneHolder, SyncProgress, Current, ManifestIsBacked,
        Holds, Syncing, Owes

(* Every step keeps the state of the disk in order.                        *)
LEMMA DiskStep ==
    ASSUME TypeOK, DiskInv, [Next]_vars
    PROVE  DiskInv'
<1>1. ASSUME NEW p \in Procs, Change(p) \/ Ingest(p) \/ Sync(p) PROVE DiskInv'
    BY <1>1, DiskOffDisk, DiskSync
<1>2. CASE UNCHANGED vars
    <2>1. UNCHANGED vars
        BY <1>2
    <2>2. WritesMirrored' /\ OneHolder' /\ SyncProgress'
        BY <2>1 DEF vars, dbVars, diskVars, DiskInv, WritesMirrored, OneHolder, SyncProgress,
            Holds, Mirrored, Content, Listed
    <2>3. Current'
        BY <2>1 DEF vars, dbVars, diskVars, DiskInv, Current, Holds, Owes, Named, InStep
    <2>4. ManifestIsBacked'
        BY <2>1 DEF vars, dbVars, diskVars, DiskInv, ManifestIsBacked, Holds, Owes, Named
    <2> QED
        BY <2>2, <2>3, <2>4 DEF DiskInv
<1> QED
    BY <1>1, <1>2, DiskAgent, DiskRestart DEF Next

(* An empty directory without a manifest is in order.                      *)
LEMMA DiskInit == Init => DiskInv
<1> SUFFICES ASSUME Init PROVE DiskInv
    OBVIOUS
<1>1. \A q \in Procs : proc[q].at \in {"idle", "unsynced"}
    BY DEF Init, Idle, Unsynced
<1>2. proc[Boot].at = "unsynced" /\ Boot \in Procs
    BY DEF Init, Unsynced, Idle, Procs
<1>3. manifest = {}
    BY DEF Init
<1> QED
    BY <1>1, <1>2, <1>3 DEF DiskInv, WritesMirrored, OneHolder, SyncProgress, Current, ManifestIsBacked,
        Holds, Syncing, Owes

-----------------------------------------------------------------------------
(* Ingests *)

(* The rows of other names are left alone.                                 *)
RowsKept(names) ==
    \A n \in Names \ names :
        Named(n)' = Named(n) /\ \A i \in Named(n) : row'[i] = row[i]

(* A statement that writes the row of one name keeps the contents other    *)
(* goroutines found in the table, unless it disturbs their names.          *)
LEMMA UpsertKeeps ==
    ASSUME TypeOK, RowsInserted, NEW n \in Names, NEW c \in Contents, Insert(n, c) \/ Overwrite(n, c)
    PROVE  /\ RowsKept({n})
           /\ \E i \in Named(n)' : row'[i].content = c
           /\ inserted <= inserted'
           /\ \A i \in Ids : i > inserted' => row'[i] = None
<1>1. CASE Insert(n, c)
    <2> DEFINE new == inserted + 1
    <2>1. new \in Ids /\ row[new] = None /\ inserted' = new
        BY <1>1, MaxRowsAssumption DEF Insert, RowsInserted, TypeOK, Ids
    <2>2. row'[new] = [name |-> n, content |-> c] /\ \A i \in Ids : i # new => row'[i] = row[i]
        BY <1>1, <2>1 DEF Insert, TypeOK
    <2>3. row'[new] # None /\ row'[new].name = n /\ row'[new].content = c
        BY <2>2, NoneAssumption
    <2>4. RowsKept({n})
        BY <2>1, <2>2, <2>3 DEF RowsKept, Named
    <2>5. new \in Named(n)'
        BY <2>1, <2>3 DEF Named
    <2>6. \A i \in Ids : i > new => row'[i] = None
        BY <2>1, <2>2 DEF RowsInserted, TypeOK, Ids
    <2> QED
        BY <2>1, <2>3, <2>4, <2>5, <2>6 DEF TypeOK
<1>2. CASE Overwrite(n, c)
    <2>1. PICK j \in Ids : j \in Named(n)
        BY <1>2 DEF Overwrite, Named
    <2>2. \A i \in Ids : row'[i] = IF i \in Named(n) THEN [name |-> n, content |-> c] ELSE row[i]
        BY <1>2 DEF Overwrite
    <2>3. \A i \in Named(n) : row'[i] # None /\ row'[i].name = n /\ row'[i].content = c
        BY <2>2, NoneAssumption DEF Named
    <2>4. RowsKept({n})
        BY <2>2, <2>3 DEF RowsKept, Named
    <2>5. j \in Named(n)'
        BY <2>1, <2>3 DEF Named
    <2>6. \A i \in Ids : i > inserted => i \notin Named(n)
        BY DEF RowsInserted, Named
    <2> QED
        BY <1>2, <2>1, <2>2, <2>3, <2>4, <2>5, <2>6 DEF Overwrite, RowsInserted, TypeOK
<1> QED
    BY <1>1, <1>2

(* Where neither rows nor the agent's file change, an ingest's state does  *)
(* not either.                                                             *)
LEMMA InTableKept ==
    ASSUME NEW names, RowsKept(names), NEW n \in Names \ names, AgentFile(n)' = AgentFile(n)
    PROVE  InTable(n)' <=> InTable(n)
BY DEF RowsKept, InTable

(* A step that changes rows of names, writes agent files of written and    *)
(* removes any: no other ingest is disturbed further than it says.         *)
LEMMA OthersProgress ==
    ASSUME TypeOK, IngestProgress, NEW names, RowsKept(names), NEW written,
           \A n \in Names \ written : AgentFile(n)' \in {AgentFile(n), None},
           NEW q \in Procs, proc'[q] = proc[q], disturbed[q] \subseteq disturbed'[q],
           names \cap HasWritten(q) \subseteq disturbed'[q],
           written \cap HasRead(q) \subseteq disturbed'[q]
    PROVE  Progress(q)'
<1> SUFFICES ASSUME NEW n \in Names \ disturbed'[q], AgentFile(n)' # None
             PROVE  /\ proc[q].at = "reading" => <<Bare, n>> \in proc[q].left \/ IsParsed(q, n)'
                    /\ proc[q].at = "batch" =>
                          \/ IsParsed(q, n)'
                          \/ proc[q].parsed[n] = None /\ InTable(n)'
                          \/ proc[q].failed
                    /\ proc[q].at = "ingested" => InTable(n)'
    BY DEF Progress
<1>1. CASE n \in written
    BY <1>1 DEF HasRead, Ingesting
<1>2. CASE n \notin written
    <2>1. AgentFile(n)' = AgentFile(n) /\ AgentFile(n) # None
        BY <1>2
    <2>2. IsParsed(q, n)' <=> IsParsed(q, n)
        BY <2>1 DEF IsParsed
    <2>3. n \in HasWritten(q) => (InTable(n)' <=> InTable(n))
        BY <2>1, InTableKept
    <2>4. Progress(q)
        BY DEF IngestProgress
    <2> QED
        BY <2>1, <2>2, <2>3, <2>4 DEF Progress, HasWritten
<1> QED
    BY <1>1, <1>2

(* The parts about the table and its ingests.                              *)
IngestInv ==
    /\ TombstonesAreBare
    /\ RowsInserted
    /\ ReadsOnce
    /\ IngestProgress

UpdatesInserted(p) == proc[p].at = "updating" => proc[p].id \in 1..inserted

(* A statement that goes with its name among the disturbed ones keeps the  *)
(* progress of every ingest.                                               *)
LEMMA StatedIngest ==
    ASSUME TypeOK, IngestInv, NEW p \in Procs, NEW names \in SUBSET Names, NEW record,
           Stated(p, names, record), RowsKept(names),
           inserted' \in 0..MaxRows, inserted <= inserted', \A i \in Ids : i > inserted' => row'[i] = None,
           record.at \notin {"reading", "updating"}, Progress(p)'
    PROVE  IngestInv'
<1>1. UNCHANGED file /\ proc' = [proc EXCEPT ![p] = record]
    BY DEF Stated, diskVars
<1>2. proc'[p] = record /\ \A q \in Procs : q # p => proc'[q] = proc[q]
    BY <1>1 DEF TypeOK
<1>3. TombstonesAreBare'
    BY <1>1 DEF IngestInv, TombstonesAreBare
<1>4. RowsInserted'
    <2>1. ASSUME NEW q \in Procs, proc'[q].at = "updating" PROVE proc'[q].id \in 1..inserted'
        <3>1. q # p /\ proc[q].id \in 1..inserted
            BY <1>2, <2>1 DEF IngestInv, RowsInserted
        <3> QED
            BY <1>2, <3>1 DEF TypeOK
    <2> QED
        BY <2>1 DEF RowsInserted
<1>5. ReadsOnce'
    <2>1. ASSUME NEW q \in Procs PROVE ReadOnce(q)'
        BY <1>2 DEF ReadOnce, IngestInv, ReadsOnce
    <2> QED
        BY <2>1 DEF ReadsOnce
<1>6. IngestProgress'
    <2>1. ASSUME NEW q \in Procs, q # p PROVE Progress(q)'
        <3>1. \A n \in Names \ {} : AgentFile(n)' \in {AgentFile(n), None}
            BY <1>1 DEF AgentFile
        <3>2. /\ disturbed[q] \subseteq disturbed'[q]
              /\ names \cap HasWritten(q) \subseteq disturbed'[q]
              /\ {} \cap HasRead(q) \subseteq disturbed'[q]
            BY <2>1, StatedDisturbs
        <3> QED
            BY <1>2, <2>1, <3>1, <3>2, OthersProgress DEF IngestInv
    <2> QED
        BY <2>1 DEF IngestProgress
<1> QED
    BY <1>3, <1>4, <1>5, <1>6 DEF IngestInv

(* Steps of a goroutine that leave the table, and canonical files that are *)
(* none of the agent's.                                                    *)
LEMMA OtherIngest ==
    ASSUME TypeOK, IngestInv, NEW p \in Procs, UNCHANGED dbVars, TombstonesAreBare',
           \A n \in Names : AgentFile(n)' \in {AgentFile(n), None},
           \A q \in Procs : q # p => proc'[q] = proc[q],
           \A q \in Procs : q # p => disturbed[q] \subseteq disturbed'[q],
           UpdatesInserted(p)', ReadOnce(p)', Progress(p)'
    PROVE  IngestInv'
<1>1. RowsKept({}) /\ \A n \in Names \ {} : AgentFile(n)' \in {AgentFile(n), None}
    BY DEF RowsKept, Named, dbVars
<1>2. RowsInserted'
    BY DEF IngestInv, RowsInserted, UpdatesInserted, dbVars
<1>3. ReadsOnce'
    <2>1. ASSUME NEW q \in Procs PROVE ReadOnce(q)'
        BY DEF ReadOnce, IngestInv, ReadsOnce
    <2> QED
        BY <2>1 DEF ReadsOnce
<1>4. IngestProgress'
    <2>1. ASSUME NEW q \in Procs, q # p PROVE Progress(q)'
        <3>1. {} \cap HasWritten(q) \subseteq disturbed'[q] /\ {} \cap HasRead(q) \subseteq disturbed'[q]
            OBVIOUS
        <3> QED
            BY <1>1, <2>1, <3>1, OthersProgress DEF IngestInv
    <2> QED
        BY <2>1 DEF IngestProgress
<1> QED
    BY <1>2, <1>3, <1>4 DEF IngestInv

(* A step that changes neither table, directory nor what was ingested      *)
(* keeps the progress of every ingest.                                     *)
LEMMA MovesIngest ==
    ASSUME TypeOK, IngestInv, NEW p \in Procs, NEW record, Moves(p, record),
           record.at = "updating" => record.id \in 1..inserted, ReadOnce(p)', Progress(p)'
    PROVE  IngestInv'
<1>1. UNCHANGED <<dbVars, file, disturbed>> /\ proc'[p] = record
    BY DEF Moves, diskVars, TypeOK
<1>2. \A q \in Procs : q # p => proc'[q] = proc[q]
    BY DEF Moves, TypeOK
<1>3. TombstonesAreBare' /\ \A n \in Names : AgentFile(n)' = AgentFile(n)
    BY <1>1 DEF IngestInv, TombstonesAreBare, AgentFile
<1>4. UpdatesInserted(p)'
    BY <1>1 DEF UpdatesInserted, dbVars
<1>5. \A q \in Procs : disturbed[q] \subseteq disturbed'[q]
    BY <1>1
<1> QED
    BY <1>1, <1>2, <1>3, <1>4, <1>5, OtherIngest

(* The changes of operators keep the progress of every ingest.             *)
LEMMA ChangeIngest ==
    ASSUME TypeOK, IngestInv, NEW p \in Procs, Change(p)
    PROVE  IngestInv'
<1>0. Idle.at = "idle" /\ Unsynced.at = "unsynced" /\ proc[p] \in ProcRecords
    BY DEF Idle, Unsynced, TypeOK
<1>1. inserted \in 0..MaxRows /\ \A i \in Ids : i > inserted => row[i] = None
    BY DEF TypeOK, IngestInv, RowsInserted
<1>2. ASSUME NEW names \in SUBSET Names, NEW record, Stated(p, names, record), RowsKept(names),
             record.at \in {"unsynced", "upserted"}, inserted' \in 0..MaxRows,
             inserted <= inserted', \A i \in Ids : i > inserted' => row'[i] = None
      PROVE  IngestInv'
    <2>1. proc'[p] = record
        BY <1>2 DEF Stated, TypeOK
    <2>2. Progress(p)'
        BY <1>2, <2>1 DEF Progress
    <2> QED
        BY <1>2, <2>2, StatedIngest
<1>3. ASSUME NEW record, Moves(p, record), record.at \in {"idle", "unsynced", "updating"},
             record.at = "updating" => record.id \in 1..inserted
      PROVE  IngestInv'
    <2>1. proc'[p] = record
        BY <1>3 DEF Moves, TypeOK
    <2>2. Progress(p)' /\ ReadOnce(p)'
        BY <1>3, <2>1 DEF Progress, ReadOnce
    <2> QED
        BY <1>3, <2>2, MovesIngest
<1>4. ASSUME NEW n \in Names, NEW c \in Contents, CreateMemory(p, n, c) PROVE IngestInv'
    BY <1>0, <1>2, <1>4, UpsertKeeps, InsertType DEF CreateMemory, IngestInv
<1>5. ASSUME NEW n \in Names, NEW c \in Contents, UpsertByName(p, n, c) PROVE IngestInv'
    <2>1. [Idle EXCEPT !.at = "upserted", !.name = n].at = "upserted"
        BY DEF Idle
    <2> QED
        BY <1>2, <1>5, <2>1, UpsertKeeps, InsertType DEF UpsertByName, IngestInv
<1>6. ASSUME NEW n \in Names, NEW c \in Contents, Save(p, n, c) PROVE IngestInv'
    <2> DEFINE i == proc[p].id
               names == {n} \cup {m \in Names : i \in Named(m)}
    <2>1. i \in 1..inserted /\ i \in Ids
        BY <1>1, <1>6, MaxRowsAssumption DEF Save, IngestInv, RowsInserted, Ids
    <2>2. row'[i] = [name |-> n, content |-> c] /\ \A j \in Ids : j # i => row'[j] = row[j]
        BY <1>6, <2>1 DEF Save, TypeOK
    <2>3. row'[i].name = n /\ row'[i] # None
        BY <2>2, NoneAssumption
    <2>4. RowsKept(names)
        BY <2>1, <2>2, <2>3 DEF RowsKept, Named
    <2>5. inserted' = inserted /\ \A j \in Ids : j > inserted' => row'[j] = None
        BY <1>1, <1>6, <2>1, <2>2 DEF Save, Ids
    <2>6. names \in SUBSET Names
        OBVIOUS
    <2>7. Stated(p, names, Unsynced)
        BY <1>6 DEF Save
    <2> HIDE DEF names
    <2> QED
        BY <1>0, <1>1, <1>2, <2>4, <2>5, <2>6, <2>7
<1>7. ASSUME NEW i \in Ids, DeleteMemory(p, i) PROVE IngestInv'
    <2>1. row[i] # None /\ row[i].name \in Names /\ inserted' = inserted
        BY <1>7 DEF DeleteMemory, TypeOK, Rows
    <2>2. row'[i] = None /\ \A j \in Ids : j # i => row'[j] = row[j]
        BY <1>7 DEF DeleteMemory, TypeOK
    <2>3. RowsKept({row[i].name})
        BY <2>1, <2>2 DEF RowsKept, Named
    <2> QED
        BY <1>0, <1>1, <1>2, <1>7, <2>1, <2>2, <2>3 DEF DeleteMemory
<1>8. ASSUME NEW i \in Ids, ReadForUpdate(p, i) PROVE IngestInv'
    <2> DEFINE record == [Idle EXCEPT !.at = "updating", !.id = i]
    <2>1. record.at = "updating" /\ record.id = i
        BY DEF Idle
    <2>2. i \in 1..inserted
        BY <1>1, <1>8, MaxRowsAssumption DEF ReadForUpdate, Ids
    <2>3. Moves(p, record)
        BY <1>8 DEF ReadForUpdate
    <2> HIDE DEF record
    <2> QED
        BY <1>3, <2>1, <2>2, <2>3
<1>9. CASE ReadBack(p) \/ SaveFails(p)
    BY <1>0, <1>3, <1>9 DEF ReadBack, SaveFails
<1> QED
    BY <1>4, <1>5, <1>6, <1>7, <1>8, <1>9 DEF Change

(* What has been parsed is not nothing.                                    *)
LEMMA EntryIsSomething ==
    ASSUME NEW c \in Contents \cup {Tombstone}
    PROVE  [content |-> c, plain |-> TRUE] # None
<1>1. [content |-> c, plain |-> TRUE] \in [content : Contents \cup {Tombstone}, plain : BOOLEAN]
    OBVIOUS
<1> QED
    BY <1>1, NoneAssumption

(* Reading a file takes exactly what the agent has written into it.        *)
LEMMA ReadFileIngest ==
    ASSUME TypeOK, IngestInv, NEW p \in Procs, ReadFile(p)
    PROVE  IngestInv'
<1> DEFINE old(f) == proc[p].parsed[f[2]]
           new(f) == [content |-> file[f], plain |-> f[1] = Bare]
           best(f) == IF file[f] # None /\ Replaces(new(f), old(f)) THEN new(f) ELSE old(f)
           record(f) == [proc[p] EXCEPT !.left = @ \ {f}, !.parsed[f[2]] = best(f)]
<1>0. proc[p] \in ProcRecords /\ proc[p].at = "reading"
    BY DEF ReadFile, TypeOK
<1>1. PICK f \in proc[p].left : Moves(p, record(f))
    BY DEF ReadFile
<1>2. f \in Files /\ f = <<f[1], f[2]>> /\ f[1] \in Ids \cup {Bare} /\ f[2] \in Names
    BY <1>0 DEF ProcRecords, Files
<1>3. /\ record(f).at = "reading"
      /\ record(f).left = proc[p].left \ {f}
      /\ record(f).parsed[f[2]] = best(f)
      /\ \A n \in Names : n # f[2] => record(f).parsed[n] = proc[p].parsed[n]
    <2> HIDE DEF best
    <2> QED
        BY <1>0, <1>2 DEF ProcRecords
<1>4. UNCHANGED <<file, disturbed>> /\ proc'[p] = record(f)
    <2> HIDE DEF record
    <2> QED
        BY <1>1 DEF Moves, TypeOK, diskVars
<1>5. /\ proc'[p].at = "reading"
      /\ proc'[p].left = proc[p].left \ {f}
      /\ proc'[p].parsed[f[2]] = best(f)
      /\ \A n \in Names : n # f[2] => proc'[p].parsed[n] = proc[p].parsed[n]
    <2> HIDE DEF record, best
    <2> QED
        BY <1>3, <1>4
<1>6. f[1] # Bare => f \in Ids \X Names /\ file[f] # Tombstone
    BY <1>2 DEF IngestInv, TombstonesAreBare
<1>7. ReadOnce(p)'
    <2>1. ASSUME NEW n \in Names, <<Bare, n>> \in proc'[p].left
          PROVE  \/ proc'[p].parsed[n] = None
                 \/ ~proc'[p].parsed[n].plain /\ proc'[p].parsed[n].content # Tombstone
        <3>1. <<Bare, n>> \in proc[p].left /\ f # <<Bare, n>>
            BY <1>5, <2>1
        <3>2. \/ proc[p].parsed[n] = None
              \/ ~proc[p].parsed[n].plain /\ proc[p].parsed[n].content # Tombstone
            BY <1>0, <3>1 DEF IngestInv, ReadsOnce, ReadOnce
        <3>3. CASE n # f[2]
            BY <1>5, <3>2, <3>3
        <3>4. CASE n = f[2]
            <4>1. f[1] # Bare
                BY <1>2, <3>1, <3>4
            <4>2. ~new(f).plain /\ new(f).content # Tombstone
                BY <1>6, <4>1
            <4> QED
                BY <1>5, <3>2, <3>4, <4>2
        <3> QED
            BY <3>3, <3>4
    <2> QED
        BY <2>1 DEF ReadOnce
<1>8. Progress(p)'
    <2>1. ASSUME NEW n \in Names \ disturbed[p], AgentFile(n) # None
          PROVE  <<Bare, n>> \in proc'[p].left \/ proc'[p].parsed[n] = [content |-> AgentFile(n), plain |-> TRUE]
        <3>1. <<Bare, n>> \in proc[p].left \/ IsParsed(p, n)
            BY <1>0, <2>1 DEF IngestInv, IngestProgress, Progress
        <3>2. CASE n # f[2]
            BY <1>2, <1>5, <3>1, <3>2 DEF IsParsed
        <3>3. CASE n = f[2] /\ f[1] = Bare
            <4>1. f = <<Bare, n>> /\ new(f) = [content |-> AgentFile(n), plain |-> TRUE] /\ file[f] # None
                BY <1>2, <2>1, <3>3 DEF AgentFile
            <4>2. \/ proc[p].parsed[n] = None
                  \/ ~proc[p].parsed[n].plain /\ proc[p].parsed[n].content # Tombstone
                BY <1>0, <1>1, <4>1 DEF IngestInv, ReadsOnce, ReadOnce
            <4>3. Replaces(new(f), old(f))
                BY <3>3, <4>2 DEF Replaces
            <4> QED
                BY <1>5, <3>3, <4>1, <4>3
        <3>4. CASE n = f[2] /\ f[1] # Bare
            <4>1. CASE <<Bare, n>> \in proc[p].left
                BY <1>2, <1>5, <3>4, <4>1
            <4>2. CASE IsParsed(p, n)
                <5>1. old(f).plain /\ old(f) # None
                    <6>1. AgentFile(n) \in Contents \cup {Tombstone}
                        BY <2>1 DEF AgentFile, TypeOK, Files
                    <6>2. old(f) = [content |-> AgentFile(n), plain |-> TRUE]
                        BY <3>4, <4>2 DEF IsParsed
                    <6>3. [content |-> AgentFile(n), plain |-> TRUE] # None
                        BY <6>1, EntryIsSomething
                    <6> QED
                        BY <6>2, <6>3
                <5>2. ~new(f).plain /\ new(f).content # Tombstone
                    BY <1>6, <3>4
                <5>3. ~Replaces(new(f), old(f))
                    BY <5>1, <5>2 DEF Replaces
                <5> QED
                    BY <1>5, <3>4, <4>2, <5>3 DEF IsParsed
            <4> QED
                BY <3>1, <4>1, <4>2
        <3> QED
            BY <3>2, <3>3, <3>4
    <2> QED
        BY <1>4, <1>5, <2>1 DEF Progress, AgentFile, IsParsed
<1> HIDE DEF record
<1> QED
    BY <1>1, <1>3, <1>7, <1>8, MovesIngest

(* What was read from a file is in the table after its upsert.             *)
LEMMA IngestRowIngest ==
    ASSUME TypeOK, IngestInv, NEW p \in Procs, NEW n \in Names, IngestRow(p, n)
    PROVE  IngestInv'
<1> DEFINE entry == proc[p].parsed[n]
           record == [proc[p] EXCEPT !.parsed[n] = None]
<1>0. proc[p] \in ProcRecords /\ proc[p].at = "batch" /\ entry # None /\ entry \in Parsed
    BY DEF IngestRow, TypeOK, ProcRecords
<1>1. /\ record.at = "batch" /\ record.failed = proc[p].failed
      /\ record.parsed[n] = None
      /\ \A m \in Names : m # n => record.parsed[m] = proc[p].parsed[m]
    BY <1>0 DEF ProcRecords
<1>2. Stated(p, {n}, record)
    BY DEF IngestRow
<1>3. UNCHANGED file /\ proc'[p] = record /\ disturbed'[p] = disturbed[p]
    BY <1>2 DEF Stated, diskVars, TypeOK
<1>4. /\ RowsKept({n}) /\ inserted' \in 0..MaxRows /\ inserted <= inserted'
      /\ \A i \in Ids : i > inserted' => row'[i] = None
      /\ entry.content = Tombstone => Named(n)' = {}
      /\ entry.content # Tombstone => \E i \in Named(n)' : row'[i].content = entry.content
    <2>1. CASE entry.content = Tombstone
        <3>1. inserted' = inserted /\ \A i \in Ids : row'[i] = IF i \in Named(n) THEN None ELSE row[i]
            BY <2>1 DEF IngestRow
        <3>2. RowsKept({n})
            BY <3>1 DEF RowsKept, Named
        <3>3. Named(n)' = {}
            BY <3>1 DEF Named
        <3> QED
            BY <2>1, <3>1, <3>2, <3>3 DEF IngestInv, RowsInserted, TypeOK
    <2>2. CASE entry.content # Tombstone
        <3>1. entry.content \in Contents
            BY <1>0, <2>2 DEF Parsed
        <3>2. Insert(n, entry.content) \/ Overwrite(n, entry.content)
            BY <2>2 DEF IngestRow
        <3> QED
            BY <2>2, <3>1, <3>2, UpsertKeeps, InsertType DEF IngestInv
    <2> QED
        BY <2>1, <2>2
<1>5. \A m \in Names : AgentFile(m)' = AgentFile(m)
    BY <1>3 DEF AgentFile
<1>6. ASSUME NEW m \in Names \ disturbed[p], AgentFile(m) # None
      PROVE  \/ IsParsed(p, m)'
             \/ proc'[p].parsed[m] = None /\ InTable(m)'
             \/ proc'[p].failed
    <2>1. \/ IsParsed(p, m)
          \/ proc[p].parsed[m] = None /\ InTable(m)
          \/ proc[p].failed
        BY <1>0, <1>6 DEF IngestInv, IngestProgress, Progress
    <2>2. CASE m # n
        <3>1. InTable(m)' <=> InTable(m)
            BY <1>4, <1>5, <2>2, InTableKept
        <3>2. IsParsed(p, m)' <=> IsParsed(p, m)
            BY <1>1, <1>3, <1>5, <2>2 DEF IsParsed
        <3> QED
            BY <1>1, <1>3, <2>1, <2>2, <3>1, <3>2
    <2>3. CASE m = n
        <3>1. proc[p].failed => proc'[p].failed
            BY <1>1, <1>3
        <3>2. IsParsed(p, m) => InTable(m)'
            BY <1>4, <1>5, <2>3, ContentsAssumption DEF IsParsed, InTable
        <3>3. proc[p].parsed[m] # None /\ proc'[p].parsed[m] = None
            BY <1>0, <1>1, <1>3, <2>3
        <3> QED
            BY <2>1, <3>1, <3>2, <3>3
    <2> QED
        BY <2>2, <2>3
<1>7. Progress(p)'
    BY <1>1, <1>3, <1>5, <1>6 DEF Progress
<1> HIDE DEF record
<1> QED
    BY <1>1, <1>2, <1>4, <1>7, StatedIngest

(* A failed upsert makes the ingest one that lost something, so nothing is *)
(* claimed of its names.                                                   *)
LEMMA IngestRowFailsIngest ==
    ASSUME TypeOK, IngestInv, NEW p \in Procs, NEW n \in Names, IngestRowFails(p, n)
    PROVE  IngestInv'
<1> DEFINE entry == proc[p].parsed[n]
<1>0. proc[p] \in ProcRecords /\ proc[p].at = "batch"
    BY DEF IngestRowFails, TypeOK
<1>1. /\ proc'[p].at = "batch"
      /\ proc'[p].failed = (proc[p].failed \/ entry.content = Tombstone)
      /\ \A m \in Names : m # n => proc'[p].parsed[m] = proc[p].parsed[m]
      /\ \A q \in Procs : q # p => proc'[q] = proc[q]
    BY <1>0 DEF IngestRowFails, TypeOK, ProcRecords
<1>2. UNCHANGED <<dbVars, file>>
    BY DEF IngestRowFails, diskVars
<1>3. /\ disturbed'[p] = IF entry.content = Tombstone THEN disturbed[p] ELSE disturbed[p] \cup {n}
      /\ \A q \in Procs : q # p => disturbed'[q] = disturbed[q]
    BY DEF IngestRowFails, TypeOK
<1>4. \A m \in Names : /\ AgentFile(m)' = AgentFile(m)
                       /\ InTable(m)' <=> InTable(m)
    BY <1>2 DEF AgentFile, InTable, Named, dbVars
<1>5. ASSUME NEW m \in Names \ disturbed'[p], AgentFile(m) # None
      PROVE  \/ IsParsed(p, m)'
             \/ proc'[p].parsed[m] = None /\ InTable(m)'
             \/ proc'[p].failed
    <2>1. CASE m = n
        BY <1>1, <1>3, <1>5, <2>1
    <2>2. CASE m # n
        <3>1. m \in Names \ disturbed[p]
            BY <1>3, <1>5
        <3>2. \/ IsParsed(p, m)
              \/ proc[p].parsed[m] = None /\ InTable(m)
              \/ proc[p].failed
            BY <1>0, <1>5, <3>1 DEF IngestInv, IngestProgress, Progress
        <3>3. proc'[p].parsed[m] = proc[p].parsed[m] /\ (proc[p].failed => proc'[p].failed)
            BY <1>1, <2>2
        <3> QED
            BY <1>4, <3>2, <3>3 DEF IsParsed
    <2> QED
        BY <2>1, <2>2
<1>6. Progress(p)'
    BY <1>1, <1>4, <1>5 DEF Progress
<1>7. ReadOnce(p)' /\ UpdatesInserted(p)'
    BY <1>1 DEF ReadOnce, UpdatesInserted
<1>8. TombstonesAreBare'
    BY <1>2 DEF IngestInv, TombstonesAreBare
<1> QED
    BY <1>1, <1>2, <1>3, <1>4, <1>6, <1>7, <1>8, OtherIngest

(* Every step of an ingest keeps the progress of all.                      *)
LEMMA IngestIngest ==
    ASSUME TypeOK, IngestInv, NEW p \in Procs, Ingest(p)
    PROVE  IngestInv'
<1>0. proc[p] \in ProcRecords
    BY DEF TypeOK
<1>1. CASE ListFiles(p)
    <2> DEFINE record == [Idle EXCEPT !.at = "reading", !.left = OnDisk]
    <2>1. record.at = "reading" /\ record.left = OnDisk /\ \A n \in Names : record.parsed[n] = None
        BY DEF Idle
    <2>2. Moves(p, record)
        BY <1>1 DEF ListFiles
    <2> HIDE DEF record
    <2>3. proc'[p] = record /\ UNCHANGED <<file, disturbed>>
        BY <2>2 DEF Moves, diskVars, TypeOK
    <2>4. \A n \in Names : AgentFile(n) # None => <<Bare, n>> \in OnDisk
        BY DEF AgentFile, OnDisk, Files
    <2>5. Progress(p)' /\ ReadOnce(p)'
        BY <2>1, <2>3, <2>4 DEF Progress, ReadOnce, AgentFile
    <2> QED
        BY <2>1, <2>2, <2>5, MovesIngest
<1>2. CASE EndReading(p)
    <2>1. /\ \/ proc'[p].at = "idle"
             \/ /\ proc'[p].at = "batch" /\ proc'[p].parsed = proc[p].parsed
                /\ disturbed'[p] = disturbed[p]
          /\ proc[p].at = "reading" /\ proc[p].left = {}
          /\ \A q \in Procs : q # p => proc'[q] = proc[q] /\ disturbed'[q] = disturbed[q]
        BY <1>0, <1>2 DEF EndReading, TypeOK, ProcRecords, Idle
    <2>2. UNCHANGED <<dbVars, file>>
        BY <1>2 DEF EndReading, diskVars
    <2>3. \A n \in Names : AgentFile(n)' = AgentFile(n)
        BY <2>2 DEF AgentFile
    <2>4. Progress(p)'
        BY <2>1, <2>3 DEF IngestInv, IngestProgress, Progress, IsParsed
    <2>5. ReadOnce(p)' /\ UpdatesInserted(p)' /\ TombstonesAreBare'
        BY <2>1, <2>2 DEF ReadOnce, UpdatesInserted, IngestInv, TombstonesAreBare
    <2> QED
        BY <2>1, <2>2, <2>3, <2>4, <2>5, OtherIngest
<1>3. CASE EndBatch(p)
    <2>1. /\ \/ proc'[p].at = "idle"
             \/ /\ proc'[p].at = "ingested" /\ ~proc[p].failed
                /\ disturbed'[p] = disturbed[p]
          /\ proc[p].at = "batch" /\ proc[p].parsed = [n \in Names |-> None]
          /\ \A q \in Procs : q # p => proc'[q] = proc[q] /\ disturbed'[q] = disturbed[q]
        BY <1>0, <1>3 DEF EndBatch, SyncsAfter, TypeOK, Idle
    <2>2. UNCHANGED <<dbVars, file>>
        BY <1>3 DEF EndBatch, diskVars
    <2>3. \A n \in Names : AgentFile(n)' = AgentFile(n) /\ (InTable(n)' <=> InTable(n))
        BY <2>2 DEF AgentFile, InTable, Named, dbVars
    <2>4. Progress(p)'
        <3>1. ASSUME NEW n \in Names \ disturbed[p], AgentFile(n) # None, ~proc[p].failed PROVE InTable(n)
            <4>1. IsParsed(p, n) \/ InTable(n)
                BY <2>1, <3>1 DEF IngestInv, IngestProgress, Progress
            <4>2. AgentFile(n) \in Contents \cup {Tombstone}
                BY <3>1 DEF AgentFile, TypeOK, Files
            <4>3. [content |-> AgentFile(n), plain |-> TRUE] # None
                BY <4>2, EntryIsSomething
            <4> QED
                BY <2>1, <4>1, <4>3 DEF IsParsed
        <3> QED
            BY <2>1, <2>3, <3>1 DEF Progress
    <2>5. ReadOnce(p)' /\ UpdatesInserted(p)' /\ TombstonesAreBare'
        BY <2>1, <2>2 DEF ReadOnce, UpdatesInserted, IngestInv, TombstonesAreBare
    <2> QED
        BY <2>1, <2>2, <2>3, <2>4, <2>5, OtherIngest
<1> QED
    BY <1>1, <1>2, <1>3, ReadFileIngest, IngestRowIngest, IngestRowFailsIngest DEF Ingest

(* A sync removes agent files at most, which disturbs no ingest.           *)
LEMMA SyncIngest ==
    ASSUME TypeOK, WritesMirrored, IngestInv, NEW p \in Procs, Sync(p)
    PROVE  IngestInv'
<1>0. proc[p] \in ProcRecords
    BY DEF TypeOK
<1>1. UNCHANGED dbVars /\ \A q \in Procs : q # p => proc'[q] = proc[q]
    BY OffTable
<1>2. ASSUME TombstonesAreBare', \A n \in Names : AgentFile(n)' \in {AgentFile(n), None},
             \A q \in Procs : q # p => disturbed[q] \subseteq disturbed'[q],
             proc'[p].at \in Syncing \cup {"idle"}
      PROVE  IngestInv'
    <2>1. ReadOnce(p)' /\ UpdatesInserted(p)' /\ Progress(p)'
        BY <1>2 DEF ReadOnce, UpdatesInserted, Progress, Syncing
    <2> QED
        BY <1>1, <1>2, <2>1, OtherIngest
<1>3. ASSUME UNCHANGED file, \A q \in Procs : q # p => disturbed[q] \subseteq disturbed'[q],
             proc'[p].at \in Syncing \cup {"idle"}
      PROVE  IngestInv'
    <2>1. TombstonesAreBare' /\ \A n \in Names : AgentFile(n)' = AgentFile(n)
        BY <1>3 DEF IngestInv, TombstonesAreBare, AgentFile
    <2> QED
        BY <1>2, <1>3, <2>1
<1>4. CASE Lock(p)
    <2>1. proc'[p].at \in Syncing
        BY <1>4 DEF Lock, TypeOK, Idle, Syncing
    <2> QED
        BY <1>3, <1>4, <2>1 DEF Lock, diskVars, TypeOK
<1>5. CASE EndWriting(p) \/ ListStale(p)
    <2>0. proc \in [Procs -> ProcRecords] /\ DOMAIN proc[p] = DOMAIN Idle
        BY DEF TypeOK, ProcRecords, Idle
    <2>1. proc'[p].at \in Syncing
        <3>1. CASE EndWriting(p)
            BY <2>0, <3>1 DEF EndWriting, Moves, Syncing, Idle
        <3>2. CASE ListStale(p)
            BY <2>0, <3>2 DEF ListStale, Moves, Syncing, Idle
        <3> QED
            BY <1>5, <3>1, <3>2
    <2> QED
        BY <1>3, <1>5, <2>1 DEF EndWriting, ListStale, Moves, diskVars
<1>6. CASE WriteManifest(p)
    <2>1. proc'[p].at \in Syncing
        BY <1>0, <1>6 DEF WriteManifest, TypeOK, ProcRecords, Syncing
    <2> QED
        BY <1>3, <1>6, <2>1 DEF WriteManifest
<1>7. CASE SyncFails(p) \/ EndPurging(p) \/ EndDropping(p)
    <2>1. proc'[p].at = "idle"
        BY <1>7 DEF SyncFails, EndPurging, EndDropping, Unlock, TypeOK, Idle
    <2> QED
        BY <1>3, <1>7, <2>1 DEF SyncFails, EndPurging, EndDropping, diskVars, TypeOK
<1>8. CASE DropManifest(p)
    BY <1>3, <1>8 DEF DropManifest, Syncing
<1>9. ASSUME NEW f \in Files, WriteFile(p, f) \/ RemoveStale(p, f) \/ DropFile(p, f)
      PROVE  IngestInv'
    <2>2. UNCHANGED disturbed
        BY <1>9 DEF WriteFile, RemoveStale, DropFile
    <2>3. \A g \in Files : g # f => file'[g] = file[g]
        BY <1>9 DEF WriteFile, RemoveStale, DropFile, TypeOK
    <2>4. file'[f] # Tombstone \/ file'[f] = file[f]
        <3>1. CASE WriteFile(p, f)
            <4>1. f \in Mirrored(snapshot[p])
                BY <3>1 DEF WriteFile, WritesMirrored
            <4>2. snapshot[p][f[1]].content \in Contents
                BY <4>1 DEF Mirrored, TypeOK, Rows
            <4> QED
                BY <3>1, <4>2, ContentsAssumption DEF WriteFile, TypeOK
        <3>2. CASE RemoveStale(p, f) \/ DropFile(p, f)
            BY <3>2, ContentsAssumption DEF RemoveStale, DropFile, TypeOK
        <3> QED
            BY <1>9, <3>1, <3>2
    <2>5. TombstonesAreBare'
        BY <2>3, <2>4 DEF IngestInv, TombstonesAreBare, Files
    <2>6. \A n \in Names : AgentFile(n)' \in {AgentFile(n), None}
        <3>1. \A n \in Names : <<Bare, n>> \in Files /\ <<Bare, n>>[1] \notin Ids
            BY MaxRowsAssumption DEF Files, Bare, Ids
        <3>2. file'[f] = None \/ file'[f] = file[f] \/ f[1] \in Ids
            BY <1>9 DEF WriteFile, WritesMirrored, RemoveStale, DropFile, TypeOK, Mirrored
        <3> QED
            BY <2>3, <3>1, <3>2 DEF AgentFile
    <2>7. proc'[p].at \in Syncing
        BY <1>0, <1>9 DEF WriteFile, RemoveStale, DropFile, TypeOK, ProcRecords, Syncing
    <2> QED
        BY <1>2, <2>2, <2>5, <2>6, <2>7
<1> QED
    BY <1>4, <1>5, <1>6, <1>7, <1>8, <1>9 DEF Sync

(* A file the agent writes during an ingest disturbs its name.             *)
LEMMA AgentIngest ==
    ASSUME TypeOK, IngestInv, NEW n \in AgentNames, NEW c \in Contents \cup {Tombstone}, AgentWrites(n, c)
    PROVE  IngestInv'
<1>1. UNCHANGED <<dbVars, proc>>
    BY DEF AgentWrites
<1>2. \A f \in Files : f # <<Bare, n>> => file'[f] = file[f]
    BY DEF AgentWrites, TypeOK
<1>3. TombstonesAreBare'
    <2>1. \A f \in Ids \X Names : f \in Files /\ f # <<Bare, n>>
        BY MaxRowsAssumption DEF Bare, Ids, Files
    <2> QED
        BY <1>2, <2>1 DEF IngestInv, TombstonesAreBare
<1>4. RowsInserted' /\ ReadsOnce' /\ RowsKept({})
    BY <1>1 DEF IngestInv, RowsInserted, ReadsOnce, ReadOnce, RowsKept, Named, dbVars
<1>5. \A m \in Names \ {n} : AgentFile(m)' \in {AgentFile(m), None}
    BY <1>2 DEF AgentFile, Files
<1>6. IngestProgress'
    <2>1. ASSUME NEW q \in Procs PROVE Progress(q)'
        <3>1. /\ disturbed[q] \subseteq disturbed'[q]
              /\ {} \cap HasWritten(q) \subseteq disturbed'[q]
              /\ {n} \cap HasRead(q) \subseteq disturbed'[q]
            BY DEF AgentWrites
        <3> QED
            BY <1>1, <1>4, <1>5, <3>1, OthersProgress DEF IngestInv
    <2> QED
        BY <2>1 DEF IngestProgress
<1> QED
    BY <1>3, <1>4, <1>6 DEF IngestInv

(* No ingest survives a restart.                                           *)
LEMMA RestartIngest ==
    ASSUME TypeOK, IngestInv, Restart
    PROVE  IngestInv'
<1>1. \A q \in Procs : proc'[q].at \in {"idle", "unsynced"}
    BY DEF Restart, Idle, Unsynced
<1>2. UNCHANGED <<dbVars, file>>
    BY DEF Restart, diskVars
<1> QED
    BY <1>1, <1>2 DEF IngestInv, TombstonesAreBare, RowsInserted, ReadsOnce, ReadOnce, IngestProgress,
        Progress, dbVars

(* Every step keeps the progress of all ingests.                           *)
LEMMA IngestStep ==
    ASSUME TypeOK, WritesMirrored, IngestInv, [Next]_vars
    PROVE  IngestInv'
<1>1. ASSUME NEW p \in Procs, Change(p) \/ Ingest(p) \/ Sync(p) PROVE IngestInv'
    BY <1>1, ChangeIngest, IngestIngest, SyncIngest
<1>2. CASE UNCHANGED vars
    BY <1>2 DEF vars, dbVars, diskVars, IngestInv, TombstonesAreBare, RowsInserted, ReadsOnce, ReadOnce,
        IngestProgress, Progress, IsParsed, InTable, AgentFile, Named
<1> QED
    BY <1>1, <1>2, AgentIngest, RestartIngest DEF Next

(* No ingest is running at the start.                                      *)
LEMMA IngestInit == Init => IngestInv
<1> SUFFICES ASSUME Init PROVE IngestInv
    OBVIOUS
<1>1. \A q \in Procs : proc[q].at \in {"idle", "unsynced"}
    BY DEF Init, Idle, Unsynced
<1>2. \A f \in Ids \X Names : f \in Files /\ file[f] # Tombstone
    BY ContentsAssumption DEF Init, Files
<1>3. \A i \in Ids : row[i] = None
    BY DEF Init, NoRows
<1> QED
    BY <1>1, <1>2, <1>3 DEF IngestInv, TombstonesAreBare, RowsInserted, ReadsOnce, ReadOnce,
        IngestProgress, Progress

-----------------------------------------------------------------------------
(* The theorems *)

MemInv == TypeOK /\ DiskInv /\ IngestInv

(* The inductive invariant of the rows, the directory and the goroutines   *)
(* between them.                                                           *)
THEOREM Invariance == Spec => []MemInv
<1>1. Init => MemInv
    BY TypeInit, DiskInit, IngestInit DEF MemInv
<1>2. MemInv /\ [Next]_vars => MemInv'
    BY TypeStep, DiskStep, IngestStep DEF MemInv, DiskInv
<1> QED
    BY <1>1, <1>2, PTL DEF Spec

(* Every variable stays in its set.                                        *)
THEOREM TypeCorrect == Spec => []TypeOK
<1>1. MemInv => TypeOK
    BY DEF MemInv
<1> QED
    BY <1>1, Invariance, PTL

(* With nothing in progress and nothing failed the directory is what the   *)
(* table says, whatever calls, ingests, syncs and restarts went before.    *)
THEOREM SyncsConverge == Spec => []FilesMatchRows
<1>1. MemInv => FilesMatchRows
    <2> SUFFICES ASSUME MemInv, \A p \in Procs : proc[p].at = "idle", ~behind
                 PROVE  InStep
        BY DEF FilesMatchRows, InStep
    <2>1. \A p \in Procs : ~Owes(p) /\ ~Holds(p)
        BY DEF Owes, Holds, Syncing
    <2> QED
        BY <2>1 DEF MemInv, DiskInv, Current
<1> QED
    BY <1>1, Invariance, PTL

(* MEMORY.md lists no memory whose file is missing, in the middle of any   *)
(* sync and after any failure of one.                                      *)
THEOREM ManifestsAreBacked == Spec => []ManifestIsBacked
<1>1. MemInv => ManifestIsBacked
    BY DEF MemInv, DiskInv
<1> QED
    BY <1>1, Invariance, PTL

(* When an ingest reaches its sync, which purges the agent's files, every   *)
(* such file still there has its say in the table, except for a name whose *)
(* upsert failed, whose file the agent wrote after the ingest had read it, *)
(* or whose row another call changed after the ingest had written it.      *)
(* Syncs, reads and statements of others before that are no exception.     *)
THEOREM UndisturbedIngestsAreExact == Spec => []IngestedBeforePurge
<1>1. MemInv => IngestedBeforePurge
    <2> SUFFICES ASSUME MemInv, NEW p \in Procs, proc[p].at = "ingested", NEW n \in Names \ disturbed[p]
                 PROVE  InTable(n)
        BY DEF IngestedBeforePurge, InTable, AgentFile
    <2>1. CASE AgentFile(n) = None
        BY <2>1, ContentsAssumption DEF InTable
    <2>2. CASE AgentFile(n) # None
        BY <2>2 DEF MemInv, IngestInv, IngestProgress, Progress
    <2> QED
        BY <2>1, <2>2
<1> QED
    BY <1>1, Invariance, PTL

=============================================================================
