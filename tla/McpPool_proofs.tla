--------------------------- MODULE McpPool_proofs ---------------------------
(***************************************************************************)
(* Proofs about McpPool, for every set of callers, any number of           *)
(* connections and any number of attempts.                                 *)
(***************************************************************************)
EXTENDS McpPool, SequenceTheorems, TLAPS

-----------------------------------------------------------------------------
(* The inductive invariant *)

(* A connection that has been established and not inserted is known to its *)
(* maker only.                                                             *)
MadeIsPrivate ==
    \A t \in Callers : pc[t] = "insert" =>
        /\ made[t] \in Conns
        /\ phase[made[t]] \in {"open", "dead"}
        /\ made[t] # entry
        /\ made[t] \notin closing
        /\ \A u \in Callers : at[u] # made[t]
        /\ \A u \in Callers : pc[u] = "insert" /\ u # t => made[u] # made[t]

(* Nobody knows a connection that has not been established.                *)
KnownAreMade ==
    /\ entry # None => phase[entry] # "unused"
    /\ \A c \in closing : phase[c] # "unused"
    /\ \A t \in Callers : at[t] # None => phase[at[t]] # "unused"
    /\ \A t \in Callers : pc[t] \in {"send", "reading"} => at[t] # None
    /\ \A c \in Conns : phase[c] = "unused" => wire[c] = <<>> /\ readers[c] = {}

(* idMu is held by the caller that reads, and by nobody else.              *)
TurnsMatch ==
    /\ \A t \in Callers : pc[t] = "reading" => turn[at[t]] = t
    /\ \A c \in Conns : turn[c] # None => pc[turn[c]] = "reading" /\ at[turn[c]] = c

(* On a running connection that is marked connected the only request under *)
(* way is the one that holds idMu.                                         *)
InStep ==
    \A c \in Conns : connected[c] /\ IsOpen(c) =>
        \/ turn[c] = None /\ wire[c] = <<>> /\ readers[c] = {}
        \/ turn[c] # None /\ wire[c] = <<turn[c]>> /\ readers[c] = {turn[c]}

PoolInv ==
    /\ TypeOK
    /\ MadeIsPrivate
    /\ KnownAreMade
    /\ TurnsMatch
    /\ InStep
    /\ PooledNotClosed
    /\ StoppedPoolEmpty
    /\ RunningIsAccountedFor

-----------------------------------------------------------------------------
(* The invariant holds *)

\* The initial states satisfy the inductive invariant.
LEMMA InitEstablishes == Init => PoolInv
<1> SUFFICES ASSUME Init PROVE PoolInv
    OBVIOUS
<1>1. TypeOK
    <2>1. <<>> \in Seq(Callers)
        BY EmptySeq
    <2>2. 0 \in 0..MaxReconnectAttempts
        BY AttemptsAssumption
    <2> QED
        BY <2>1, <2>2 DEF Init, TypeOK, Phases, Steps
<1>2. MadeIsPrivate /\ KnownAreMade /\ TurnsMatch /\ InStep
    BY DEF Init, MadeIsPrivate, KnownAreMade, TurnsMatch, InStep, IsOpen
<1>3. PooledNotClosed /\ StoppedPoolEmpty /\ RunningIsAccountedFor
    BY DEF Init, PooledNotClosed, StoppedPoolEmpty, RunningIsAccountedFor, IsOpen
<1> QED
    BY <1>1, <1>2, <1>3 DEF PoolInv

\* Every step keeps the inductive invariant.
LEMMA StepPreserves == PoolInv /\ [Next]_vars => PoolInv'
<1> SUFFICES ASSUME PoolInv, [Next]_vars PROVE PoolInv'
    OBVIOUS
<1> USE NoneAssumption DEF PoolInv, TypeOK
<1>1. ASSUME NEW t \in Callers, CallTool(t) PROVE PoolInv'
    <2>1. ASSUME pc[t] = "start",
                 entry # None,
                 at' = [at EXCEPT ![t] = entry],
                 pc' = [pc EXCEPT ![t] = "send"],
                 UNCHANGED <<stopped, entry, hasConfig, evicted, phase, connected, closing, made, attempt, answer, wire, readers, turn>>
          PROVE  PoolInv'
        <3>1. TypeOK'
            BY <2>1 DEF Phases, Steps
        <3>2. MadeIsPrivate'
            BY <2>1 DEF KnownAreMade, PooledNotClosed, MadeIsPrivate
        <3>3. KnownAreMade'
            BY <2>1 DEF IsOpen, MadeIsPrivate, KnownAreMade
        <3>4. TurnsMatch'
            BY <2>1 DEF KnownAreMade, TurnsMatch
        <3>5. InStep'
            BY <2>1 DEF IsOpen, TurnsMatch, KnownAreMade, InStep
        <3>6. PooledNotClosed'
            BY <2>1 DEF MadeIsPrivate, KnownAreMade, PooledNotClosed
        <3>7. StoppedPoolEmpty'
            BY <2>1 DEF StoppedPoolEmpty
        <3>8. RunningIsAccountedFor'
            BY <2>1 DEF IsOpen, KnownAreMade, MadeIsPrivate, RunningIsAccountedFor
        <3> QED
            BY <3>1, <3>2, <3>3, <3>4, <3>5, <3>6, <3>7, <3>8
    <2>2. ASSUME NEW s \in {"get", "done"}, pc[t] = "start",
                 pc' = [pc EXCEPT ![t] = s],
                 UNCHANGED <<stopped, entry, hasConfig, evicted, phase, connected, closing, at, made, attempt, answer, wire, readers, turn>>
          PROVE  PoolInv'
        <3>1. TypeOK'
            BY <2>2 DEF Phases, Steps
        <3>2. MadeIsPrivate'
            BY <2>2 DEF KnownAreMade, PooledNotClosed, MadeIsPrivate
        <3>3. KnownAreMade'
            BY <2>2 DEF IsOpen, MadeIsPrivate, KnownAreMade
        <3>4. TurnsMatch'
            BY <2>2 DEF KnownAreMade, TurnsMatch
        <3>5. InStep'
            BY <2>2 DEF IsOpen, TurnsMatch, KnownAreMade, InStep
        <3>6. PooledNotClosed'
            BY <2>2 DEF MadeIsPrivate, KnownAreMade, PooledNotClosed
        <3>7. StoppedPoolEmpty'
            BY <2>2 DEF StoppedPoolEmpty
        <3>8. RunningIsAccountedFor'
            BY <2>2 DEF IsOpen, KnownAreMade, MadeIsPrivate, RunningIsAccountedFor
        <3> QED
            BY <3>1, <3>2, <3>3, <3>4, <3>5, <3>6, <3>7, <3>8
    <2> QED
        BY <1>1, <2>1, <2>2
           DEF CallTool, Goto, poolVars, connVars, callVars, streamVars
<1>2. ASSUME NEW t \in Callers, RegisterServer(t) PROVE PoolInv'
    <2>1. TypeOK'
        BY <1>2
           DEF RegisterServer, Goto, Phases, Steps, poolVars, connVars,
               callVars, streamVars
    <2>2. MadeIsPrivate'
        BY <1>2
           DEF RegisterServer, Goto, KnownAreMade, PooledNotClosed,
               MadeIsPrivate, poolVars, connVars, callVars, streamVars
    <2>3. KnownAreMade'
        BY <1>2
           DEF RegisterServer, Goto, IsOpen, MadeIsPrivate, KnownAreMade,
               poolVars, connVars, callVars, streamVars
    <2>4. TurnsMatch'
        BY <1>2
           DEF RegisterServer, Goto, KnownAreMade, TurnsMatch, poolVars,
               connVars, callVars, streamVars
    <2>5. InStep'
        BY <1>2
           DEF RegisterServer, Goto, IsOpen, TurnsMatch, KnownAreMade, InStep,
               poolVars, connVars, callVars, streamVars
    <2>6. PooledNotClosed'
        BY <1>2
           DEF RegisterServer, Goto, MadeIsPrivate, KnownAreMade,
               PooledNotClosed, poolVars, connVars, callVars, streamVars
    <2>7. StoppedPoolEmpty'
        BY <1>2
           DEF RegisterServer, Goto, StoppedPoolEmpty, poolVars, connVars,
               callVars, streamVars
    <2>8. RunningIsAccountedFor'
        BY <1>2
           DEF RegisterServer, Goto, IsOpen, KnownAreMade, MadeIsPrivate,
               RunningIsAccountedFor, poolVars, connVars, callVars, streamVars
    <2> QED
        BY <2>1, <2>2, <2>3, <2>4, <2>5, <2>6, <2>7, <2>8
<1>3. ASSUME NEW t \in Callers, Probe(t) PROVE PoolInv'
    <2>1. ASSUME pc[t] = "start",
                 entry # None,
                 at' = [at EXCEPT ![t] = entry],
                 pc' = [pc EXCEPT ![t] = "send"],
                 UNCHANGED <<stopped, entry, hasConfig, evicted, phase, connected, closing, made, attempt, answer, wire, readers, turn>>
          PROVE  PoolInv'
        <3>1. TypeOK'
            BY <2>1 DEF Phases, Steps
        <3>2. MadeIsPrivate'
            BY <2>1 DEF KnownAreMade, PooledNotClosed, MadeIsPrivate
        <3>3. KnownAreMade'
            BY <2>1 DEF IsOpen, MadeIsPrivate, KnownAreMade
        <3>4. TurnsMatch'
            BY <2>1 DEF KnownAreMade, TurnsMatch
        <3>5. InStep'
            BY <2>1 DEF IsOpen, TurnsMatch, KnownAreMade, InStep
        <3>6. PooledNotClosed'
            BY <2>1 DEF MadeIsPrivate, KnownAreMade, PooledNotClosed
        <3>7. StoppedPoolEmpty'
            BY <2>1 DEF StoppedPoolEmpty
        <3>8. RunningIsAccountedFor'
            BY <2>1 DEF IsOpen, KnownAreMade, MadeIsPrivate, RunningIsAccountedFor
        <3> QED
            BY <3>1, <3>2, <3>3, <3>4, <3>5, <3>6, <3>7, <3>8
    <2>2. ASSUME NEW s \in {"get", "done"}, pc[t] = "start",
                 pc' = [pc EXCEPT ![t] = s],
                 UNCHANGED <<stopped, entry, hasConfig, evicted, phase, connected, closing, at, made, attempt, answer, wire, readers, turn>>
          PROVE  PoolInv'
        <3>1. TypeOK'
            BY <2>2 DEF Phases, Steps
        <3>2. MadeIsPrivate'
            BY <2>2 DEF KnownAreMade, PooledNotClosed, MadeIsPrivate
        <3>3. KnownAreMade'
            BY <2>2 DEF IsOpen, MadeIsPrivate, KnownAreMade
        <3>4. TurnsMatch'
            BY <2>2 DEF KnownAreMade, TurnsMatch
        <3>5. InStep'
            BY <2>2 DEF IsOpen, TurnsMatch, KnownAreMade, InStep
        <3>6. PooledNotClosed'
            BY <2>2 DEF MadeIsPrivate, KnownAreMade, PooledNotClosed
        <3>7. StoppedPoolEmpty'
            BY <2>2 DEF StoppedPoolEmpty
        <3>8. RunningIsAccountedFor'
            BY <2>2 DEF IsOpen, KnownAreMade, MadeIsPrivate, RunningIsAccountedFor
        <3> QED
            BY <3>1, <3>2, <3>3, <3>4, <3>5, <3>6, <3>7, <3>8
    <2> QED
        BY <1>3, <2>1, <2>2
           DEF Probe, Goto, poolVars, connVars, callVars, streamVars
<1>4. ASSUME NEW t \in Callers, LookUp(t) PROVE PoolInv'
    <2>1. ASSUME NEW s \in {"done", "backoff"}, pc[t] = "get",
                 pc' = [pc EXCEPT ![t] = s],
                 UNCHANGED <<stopped, entry, hasConfig, evicted, phase, connected, closing, at, made, attempt, answer, wire, readers, turn>>
          PROVE  PoolInv'
        <3>1. TypeOK'
            BY <2>1 DEF Phases, Steps
        <3>2. MadeIsPrivate'
            BY <2>1 DEF KnownAreMade, PooledNotClosed, MadeIsPrivate
        <3>3. KnownAreMade'
            BY <2>1 DEF IsOpen, MadeIsPrivate, KnownAreMade
        <3>4. TurnsMatch'
            BY <2>1 DEF KnownAreMade, TurnsMatch
        <3>5. InStep'
            BY <2>1 DEF IsOpen, TurnsMatch, KnownAreMade, InStep
        <3>6. PooledNotClosed'
            BY <2>1 DEF MadeIsPrivate, KnownAreMade, PooledNotClosed
        <3>7. StoppedPoolEmpty'
            BY <2>1 DEF StoppedPoolEmpty
        <3>8. RunningIsAccountedFor'
            BY <2>1 DEF IsOpen, KnownAreMade, MadeIsPrivate, RunningIsAccountedFor
        <3> QED
            BY <3>1, <3>2, <3>3, <3>4, <3>5, <3>6, <3>7, <3>8
    <2>2. ASSUME NEW s \in {"done", "send"}, pc[t] = "get",
                 entry # None,
                 at' = [at EXCEPT ![t] = entry],
                 pc' = [pc EXCEPT ![t] = s],
                 UNCHANGED <<stopped, entry, hasConfig, evicted, phase, connected, closing, made, attempt, answer, wire, readers, turn>>
          PROVE  PoolInv'
        <3>1. TypeOK'
            BY <2>2 DEF Phases, Steps
        <3>2. MadeIsPrivate'
            BY <2>2 DEF KnownAreMade, PooledNotClosed, MadeIsPrivate
        <3>3. KnownAreMade'
            BY <2>2 DEF IsOpen, MadeIsPrivate, KnownAreMade
        <3>4. TurnsMatch'
            BY <2>2 DEF KnownAreMade, TurnsMatch
        <3>5. InStep'
            BY <2>2 DEF IsOpen, TurnsMatch, KnownAreMade, InStep
        <3>6. PooledNotClosed'
            BY <2>2 DEF MadeIsPrivate, KnownAreMade, PooledNotClosed
        <3>7. StoppedPoolEmpty'
            BY <2>2 DEF StoppedPoolEmpty
        <3>8. RunningIsAccountedFor'
            BY <2>2 DEF IsOpen, KnownAreMade, MadeIsPrivate, RunningIsAccountedFor
        <3> QED
            BY <3>1, <3>2, <3>3, <3>4, <3>5, <3>6, <3>7, <3>8
    <2>3. ASSUME pc[t] = "get",
                 entry' = None,
                 closing' = closing \cup ({entry} \ {None}),
                 pc' = [pc EXCEPT ![t] = "connect"],
                 UNCHANGED <<stopped, hasConfig, evicted, phase, connected, at, made, attempt, answer, wire, readers, turn>>
          PROVE  PoolInv'
        <3>1. TypeOK'
            BY <2>3 DEF Phases, Steps
        <3>2. MadeIsPrivate'
            BY <2>3 DEF KnownAreMade, PooledNotClosed, MadeIsPrivate
        <3>3. KnownAreMade'
            BY <2>3 DEF IsOpen, MadeIsPrivate, KnownAreMade
        <3>4. TurnsMatch'
            BY <2>3 DEF KnownAreMade, TurnsMatch
        <3>5. InStep'
            BY <2>3 DEF IsOpen, TurnsMatch, KnownAreMade, InStep
        <3>6. PooledNotClosed'
            BY <2>3 DEF MadeIsPrivate, KnownAreMade, PooledNotClosed
        <3>7. StoppedPoolEmpty'
            BY <2>3 DEF StoppedPoolEmpty
        <3>8. RunningIsAccountedFor'
            BY <2>3 DEF IsOpen, KnownAreMade, MadeIsPrivate, RunningIsAccountedFor
        <3> QED
            BY <3>1, <3>2, <3>3, <3>4, <3>5, <3>6, <3>7, <3>8
    <2> QED
        BY <1>4, <2>1, <2>2, <2>3
           DEF LookUp, Goto, AfterGet, AfterFailedGet, EntryHealthy, poolVars,
               connVars, callVars, streamVars
<1>5. ASSUME NEW t \in Callers, Establish(t) PROVE PoolInv'
    <2>1. ASSUME NEW c \in Conns, pc[t] = "connect",
                 phase[c] = "unused",
                 phase' = [phase EXCEPT ![c] = "open"],
                 connected' = [connected EXCEPT ![c] = TRUE],
                 made' = [made EXCEPT ![t] = c],
                 pc' = [pc EXCEPT ![t] = "insert"],
                 UNCHANGED <<stopped, entry, hasConfig, evicted, closing, at, attempt, answer, wire, readers, turn>>
          PROVE  PoolInv'
        <3>1. TypeOK'
            BY <2>1 DEF Phases, Steps
        <3>2. MadeIsPrivate'
            BY <2>1 DEF KnownAreMade, PooledNotClosed, MadeIsPrivate
        <3>3. KnownAreMade'
            BY <2>1 DEF IsOpen, MadeIsPrivate, KnownAreMade
        <3>4. TurnsMatch'
            BY <2>1 DEF KnownAreMade, TurnsMatch
        <3>5. InStep'
            BY <2>1 DEF IsOpen, TurnsMatch, KnownAreMade, InStep
        <3>6. PooledNotClosed'
            BY <2>1 DEF MadeIsPrivate, KnownAreMade, PooledNotClosed
        <3>7. StoppedPoolEmpty'
            BY <2>1 DEF StoppedPoolEmpty
        <3>8. RunningIsAccountedFor'
            BY <2>1 DEF IsOpen, KnownAreMade, MadeIsPrivate, RunningIsAccountedFor
        <3> QED
            BY <3>1, <3>2, <3>3, <3>4, <3>5, <3>6, <3>7, <3>8
    <2>2. ASSUME NEW s \in {"done", "backoff"}, pc[t] = "connect",
                 pc' = [pc EXCEPT ![t] = s],
                 UNCHANGED <<stopped, entry, hasConfig, evicted, phase, connected, closing, at, made, attempt, answer, wire, readers, turn>>
          PROVE  PoolInv'
        <3>1. TypeOK'
            BY <2>2 DEF Phases, Steps
        <3>2. MadeIsPrivate'
            BY <2>2 DEF KnownAreMade, PooledNotClosed, MadeIsPrivate
        <3>3. KnownAreMade'
            BY <2>2 DEF IsOpen, MadeIsPrivate, KnownAreMade
        <3>4. TurnsMatch'
            BY <2>2 DEF KnownAreMade, TurnsMatch
        <3>5. InStep'
            BY <2>2 DEF IsOpen, TurnsMatch, KnownAreMade, InStep
        <3>6. PooledNotClosed'
            BY <2>2 DEF MadeIsPrivate, KnownAreMade, PooledNotClosed
        <3>7. StoppedPoolEmpty'
            BY <2>2 DEF StoppedPoolEmpty
        <3>8. RunningIsAccountedFor'
            BY <2>2 DEF IsOpen, KnownAreMade, MadeIsPrivate, RunningIsAccountedFor
        <3> QED
            BY <3>1, <3>2, <3>3, <3>4, <3>5, <3>6, <3>7, <3>8
    <2> QED
        BY <1>5, <2>1, <2>2
           DEF Establish, Goto, AfterFailedGet, poolVars, connVars, callVars,
               streamVars
<1>6. ASSUME NEW t \in Callers, Insert(t) PROVE PoolInv'
    <2>1. ASSUME NEW s \in {"done", "backoff"}, pc[t] = "insert",
                 phase' = Closed({made[t]}),
                 connected' = Disconnected({made[t]}),
                 made' = [made EXCEPT ![t] = None],
                 pc' = [pc EXCEPT ![t] = s],
                 UNCHANGED <<stopped, entry, hasConfig, evicted, closing, at, attempt, answer, wire, readers, turn>>
          PROVE  PoolInv'
        <3>1. TypeOK'
            BY <2>1 DEF Closed, Disconnected, Phases, Steps
        <3>2. MadeIsPrivate'
            BY <2>1 DEF Closed, Disconnected, KnownAreMade, PooledNotClosed,
                   MadeIsPrivate
        <3>3. KnownAreMade'
            BY <2>1 DEF Closed, Disconnected, IsOpen, MadeIsPrivate, KnownAreMade
        <3>4. TurnsMatch'
            BY <2>1 DEF Closed, Disconnected, KnownAreMade, TurnsMatch
        <3>5. InStep'
            BY <2>1 DEF Closed, Disconnected, IsOpen, TurnsMatch, KnownAreMade, InStep
        <3>6. PooledNotClosed'
            BY <2>1 DEF Closed, Disconnected, MadeIsPrivate, KnownAreMade,
                   PooledNotClosed
        <3>7. StoppedPoolEmpty'
            BY <2>1 DEF Closed, Disconnected, StoppedPoolEmpty
        <3>8. RunningIsAccountedFor'
            BY <2>1 DEF Closed, Disconnected, IsOpen, KnownAreMade, MadeIsPrivate,
                   RunningIsAccountedFor
        <3> QED
            BY <3>1, <3>2, <3>3, <3>4, <3>5, <3>6, <3>7, <3>8
    <2>2. ASSUME NEW s \in {"done", "send"}, pc[t] = "insert",
                 entry # None,
                 phase' = Closed({made[t]}),
                 connected' = Disconnected({made[t]}),
                 made' = [made EXCEPT ![t] = None],
                 at' = [at EXCEPT ![t] = entry],
                 pc' = [pc EXCEPT ![t] = s],
                 UNCHANGED <<stopped, entry, hasConfig, evicted, closing, attempt, answer, wire, readers, turn>>
          PROVE  PoolInv'
        <3>1. TypeOK'
            BY <2>2 DEF Closed, Disconnected, Phases, Steps
        <3>2. MadeIsPrivate'
            BY <2>2 DEF Closed, Disconnected, KnownAreMade, PooledNotClosed,
                   MadeIsPrivate
        <3>3. KnownAreMade'
            BY <2>2 DEF Closed, Disconnected, IsOpen, MadeIsPrivate, KnownAreMade
        <3>4. TurnsMatch'
            BY <2>2 DEF Closed, Disconnected, KnownAreMade, TurnsMatch
        <3>5. InStep'
            BY <2>2 DEF Closed, Disconnected, IsOpen, TurnsMatch, KnownAreMade, InStep
        <3>6. PooledNotClosed'
            BY <2>2 DEF Closed, Disconnected, MadeIsPrivate, KnownAreMade,
                   PooledNotClosed
        <3>7. StoppedPoolEmpty'
            BY <2>2 DEF Closed, Disconnected, StoppedPoolEmpty
        <3>8. RunningIsAccountedFor'
            BY <2>2 DEF Closed, Disconnected, IsOpen, KnownAreMade, MadeIsPrivate,
                   RunningIsAccountedFor
        <3> QED
            BY <3>1, <3>2, <3>3, <3>4, <3>5, <3>6, <3>7, <3>8
    <2>3. ASSUME NEW s \in {"done", "send"}, pc[t] = "insert",
                 ~stopped,
                 entry = None,
                 entry' = made[t],
                 hasConfig' = TRUE,
                 made' = [made EXCEPT ![t] = None],
                 at' = [at EXCEPT ![t] = made[t]],
                 pc' = [pc EXCEPT ![t] = s],
                 UNCHANGED <<stopped, evicted, phase, connected, closing, attempt, answer, wire, readers, turn>>
          PROVE  PoolInv'
        <3>1. TypeOK'
            BY <2>3 DEF Phases, Steps
        <3>2. MadeIsPrivate'
            BY <2>3 DEF KnownAreMade, PooledNotClosed, MadeIsPrivate
        <3>3. KnownAreMade'
            BY <2>3 DEF IsOpen, MadeIsPrivate, KnownAreMade
        <3>4. TurnsMatch'
            BY <2>3 DEF KnownAreMade, TurnsMatch
        <3>5. InStep'
            BY <2>3 DEF IsOpen, TurnsMatch, KnownAreMade, InStep
        <3>6. PooledNotClosed'
            BY <2>3 DEF MadeIsPrivate, KnownAreMade, PooledNotClosed
        <3>7. StoppedPoolEmpty'
            BY <2>3 DEF StoppedPoolEmpty
        <3>8. RunningIsAccountedFor'
            BY <2>3 DEF IsOpen, KnownAreMade, MadeIsPrivate, RunningIsAccountedFor
        <3> QED
            BY <3>1, <3>2, <3>3, <3>4, <3>5, <3>6, <3>7, <3>8
    <2> QED
        BY <1>6, <2>1, <2>2, <2>3
           DEF Insert, Goto, AfterGet, AfterFailedGet, CannotInsert, Replaced,
               poolVars, connVars, callVars, streamVars
<1>7. ASSUME NEW t \in Callers, Write(t) PROVE PoolInv'
    <2>1. ASSUME NEW s \in {"done", "backoff"}, pc[t] = "send",
                 pc' = [pc EXCEPT ![t] = s],
                 UNCHANGED <<stopped, entry, hasConfig, evicted, phase, connected, closing, at, made, attempt, answer, wire, readers, turn>>
          PROVE  PoolInv'
        <3>1. TypeOK'
            BY <2>1 DEF Phases, Steps
        <3>2. MadeIsPrivate'
            BY <2>1 DEF KnownAreMade, PooledNotClosed, MadeIsPrivate
        <3>3. KnownAreMade'
            BY <2>1 DEF IsOpen, MadeIsPrivate, KnownAreMade
        <3>4. TurnsMatch'
            BY <2>1 DEF KnownAreMade, TurnsMatch
        <3>5. InStep'
            BY <2>1 DEF IsOpen, TurnsMatch, KnownAreMade, InStep
        <3>6. PooledNotClosed'
            BY <2>1 DEF MadeIsPrivate, KnownAreMade, PooledNotClosed
        <3>7. StoppedPoolEmpty'
            BY <2>1 DEF StoppedPoolEmpty
        <3>8. RunningIsAccountedFor'
            BY <2>1 DEF IsOpen, KnownAreMade, MadeIsPrivate, RunningIsAccountedFor
        <3> QED
            BY <3>1, <3>2, <3>3, <3>4, <3>5, <3>6, <3>7, <3>8
    <2>2. ASSUME NEW c \in Conns, pc[t] = "send",
                 at[t] = c,
                 IsOpen(c),
                 turn[c] = None,
                 turn' = [turn EXCEPT ![c] = t],
                 wire' = [wire EXCEPT ![c] = Append(wire[c], t)],
                 readers' = [readers EXCEPT ![c] = readers[c] \cup {t}],
                 pc' = [pc EXCEPT ![t] = "reading"],
                 UNCHANGED <<stopped, entry, hasConfig, evicted, phase, connected, closing, at, made, attempt, answer>>
          PROVE  PoolInv'
        <3>1. TypeOK'
            BY <2>2 DEF Phases, Steps
        <3>2. MadeIsPrivate'
            BY <2>2 DEF KnownAreMade, PooledNotClosed, MadeIsPrivate
        <3>3. KnownAreMade'
            BY <2>2 DEF IsOpen, MadeIsPrivate, KnownAreMade
        <3>4. TurnsMatch'
            BY <2>2 DEF KnownAreMade, TurnsMatch
        <3>5. InStep'
            <4>1. (wire[c] = <<>> /\ readers[c] = {}) \/ ~connected[c]
                BY <2>2 DEF InStep
            <4>2. Append(<<>>, t) = <<t>>
                OBVIOUS
            <4>3. connected[c] => wire'[c] = <<t>> /\ readers'[c] = {t} /\ turn'[c] = t
                BY <2>2, <4>1, <4>2
            <4>4. \A d \in Conns : d # c => /\ wire'[d] = wire[d] /\ readers'[d] = readers[d]
                                             /\ turn'[d] = turn[d]
                BY <2>2
            <4>5. UNCHANGED <<connected, phase>>
                BY <2>2
            <4>6. \A d \in Conns : IsOpen(d)' = IsOpen(d) /\ connected'[d] = connected[d]
                BY <4>5 DEF IsOpen
            <4>7. ASSUME NEW d \in Conns, connected'[d], IsOpen(d)'
                  PROVE  \/ turn'[d] = None /\ wire'[d] = <<>> /\ readers'[d] = {}
                         \/ turn'[d] # None /\ wire'[d] = <<turn'[d]>> /\ readers'[d] = {turn'[d]}
                <5>1. CASE d = c
                    BY <4>3, <4>6, <4>7, <5>1
                <5>2. CASE d # c
                    BY <4>4, <4>6, <4>7, <5>2 DEF InStep
                <5> QED
                    BY <5>1, <5>2
            <4> QED
                BY <4>7 DEF InStep
        <3>6. PooledNotClosed'
            BY <2>2 DEF MadeIsPrivate, KnownAreMade, PooledNotClosed
        <3>7. StoppedPoolEmpty'
            BY <2>2 DEF StoppedPoolEmpty
        <3>8. RunningIsAccountedFor'
            BY <2>2 DEF IsOpen, KnownAreMade, MadeIsPrivate, RunningIsAccountedFor
        <3> QED
            BY <3>1, <3>2, <3>3, <3>4, <3>5, <3>6, <3>7, <3>8
    <2> QED
        BY <1>7, <2>1, <2>2
           DEF Write, KnownAreMade, Goto, AfterTransient, MayWrite, IsOpen,
               poolVars, connVars, callVars, streamVars
<1>8. ASSUME NEW t \in Callers, Answer(t) PROVE PoolInv'
    <2>1. ASSUME NEW c \in Conns, IsOpen(c),
                 wire[c] # <<>>,
                 t \in readers[c],
                 wire' = [wire EXCEPT ![c] = Tail(wire[c])],
                 readers' = [readers EXCEPT ![c] = readers[c] \ {t}],
                 pc[t] = "reading",
                 at[t] = c,
                 turn' = [turn EXCEPT ![c] = IF turn[c] = t THEN None ELSE turn[c]],
                 answer' = [answer EXCEPT ![t] = Head(wire[c])],
                 pc' = [pc EXCEPT ![t] = "done"],
                 UNCHANGED <<stopped, entry, hasConfig, evicted, phase, connected, closing, at, made, attempt>>
          PROVE  PoolInv'
        <3>1. TypeOK'
            BY <2>1 DEF Phases, Steps
        <3>2. MadeIsPrivate'
            BY <2>1 DEF KnownAreMade, PooledNotClosed, MadeIsPrivate
        <3>3. KnownAreMade'
            BY <2>1 DEF IsOpen, MadeIsPrivate, KnownAreMade
        <3>4. TurnsMatch'
            BY <2>1 DEF KnownAreMade, TurnsMatch
        <3>5. InStep'
            BY <2>1 DEF IsOpen, TurnsMatch, KnownAreMade, InStep
        <3>6. PooledNotClosed'
            BY <2>1 DEF MadeIsPrivate, KnownAreMade, PooledNotClosed
        <3>7. StoppedPoolEmpty'
            BY <2>1 DEF StoppedPoolEmpty
        <3>8. RunningIsAccountedFor'
            BY <2>1 DEF IsOpen, KnownAreMade, MadeIsPrivate, RunningIsAccountedFor
        <3> QED
            BY <3>1, <3>2, <3>3, <3>4, <3>5, <3>6, <3>7, <3>8
    <2>2. ASSUME NEW c \in Conns, NEW s \in {"done", "backoff"}, IsOpen(c),
                 wire[c] # <<>>,
                 t \in readers[c],
                 wire' = [wire EXCEPT ![c] = Tail(wire[c])],
                 readers' = [readers EXCEPT ![c] = readers[c] \ {t}],
                 pc[t] = "reading",
                 at[t] = c,
                 turn' = [turn EXCEPT ![c] = IF turn[c] = t THEN None ELSE turn[c]],
                 pc' = [pc EXCEPT ![t] = s],
                 UNCHANGED <<stopped, entry, hasConfig, evicted, phase, connected, closing, at, made, attempt, answer>>
          PROVE  PoolInv'
        <3>1. TypeOK'
            BY <2>2 DEF Phases, Steps
        <3>2. MadeIsPrivate'
            BY <2>2 DEF KnownAreMade, PooledNotClosed, MadeIsPrivate
        <3>3. KnownAreMade'
            BY <2>2 DEF IsOpen, MadeIsPrivate, KnownAreMade
        <3>4. TurnsMatch'
            BY <2>2 DEF KnownAreMade, TurnsMatch
        <3>5. InStep'
            BY <2>2 DEF IsOpen, TurnsMatch, KnownAreMade, InStep
        <3>6. PooledNotClosed'
            BY <2>2 DEF MadeIsPrivate, KnownAreMade, PooledNotClosed
        <3>7. StoppedPoolEmpty'
            BY <2>2 DEF StoppedPoolEmpty
        <3>8. RunningIsAccountedFor'
            BY <2>2 DEF IsOpen, KnownAreMade, MadeIsPrivate, RunningIsAccountedFor
        <3> QED
            BY <3>1, <3>2, <3>3, <3>4, <3>5, <3>6, <3>7, <3>8
    <2>3. ASSUME NEW c \in Conns, IsOpen(c),
                 wire[c] # <<>>,
                 t \in readers[c],
                 wire' = [wire EXCEPT ![c] = Tail(wire[c])],
                 readers' = [readers EXCEPT ![c] = readers[c] \ {t}],
                 ~(pc[t] = "reading" /\ at[t] = c),
                 UNCHANGED <<stopped, entry, hasConfig, evicted, phase, connected, closing, pc, at, made, attempt, answer, turn>>
          PROVE  PoolInv'
        <3>1. TypeOK'
            BY <2>3 DEF Phases, Steps
        <3>2. MadeIsPrivate'
            BY <2>3 DEF KnownAreMade, PooledNotClosed, MadeIsPrivate
        <3>3. KnownAreMade'
            BY <2>3 DEF IsOpen, MadeIsPrivate, KnownAreMade
        <3>4. TurnsMatch'
            BY <2>3 DEF KnownAreMade, TurnsMatch
        <3>5. InStep'
            BY <2>3 DEF IsOpen, TurnsMatch, KnownAreMade, InStep
        <3>6. PooledNotClosed'
            BY <2>3 DEF MadeIsPrivate, KnownAreMade, PooledNotClosed
        <3>7. StoppedPoolEmpty'
            BY <2>3 DEF StoppedPoolEmpty
        <3>8. RunningIsAccountedFor'
            BY <2>3 DEF IsOpen, KnownAreMade, MadeIsPrivate, RunningIsAccountedFor
        <3> QED
            BY <3>1, <3>2, <3>3, <3>4, <3>5, <3>6, <3>7, <3>8
    <2> QED
        BY <1>8, <2>1, <2>2, <2>3
           DEF Answer, Goto, AfterTransient, Released, IsOpen, poolVars,
               connVars, callVars, streamVars
<1>9. ASSUME NEW t \in Callers, TimeOut(t) PROVE PoolInv'
    <2>1. TypeOK'
        BY <1>9
           DEF TimeOut, Goto, Unhealthy, Released, Phases, Steps, poolVars,
               connVars, callVars, streamVars
    <2>2. MadeIsPrivate'
        BY <1>9
           DEF TimeOut, Goto, Unhealthy, Released, KnownAreMade,
               PooledNotClosed, MadeIsPrivate, poolVars, connVars, callVars,
               streamVars
    <2>3. KnownAreMade'
        BY <1>9
           DEF TimeOut, Goto, Unhealthy, Released, IsOpen, MadeIsPrivate,
               KnownAreMade, poolVars, connVars, callVars, streamVars
    <2>4. TurnsMatch'
        BY <1>9
           DEF TimeOut, Goto, Unhealthy, Released, KnownAreMade, TurnsMatch,
               poolVars, connVars, callVars, streamVars
    <2>5. InStep'
        BY <1>9
           DEF TimeOut, Goto, Unhealthy, Released, IsOpen, TurnsMatch,
               KnownAreMade, InStep, poolVars, connVars, callVars, streamVars
    <2>6. PooledNotClosed'
        BY <1>9
           DEF TimeOut, Goto, Unhealthy, Released, MadeIsPrivate, KnownAreMade,
               PooledNotClosed, poolVars, connVars, callVars, streamVars
    <2>7. StoppedPoolEmpty'
        BY <1>9
           DEF TimeOut, Goto, Unhealthy, Released, StoppedPoolEmpty, poolVars,
               connVars, callVars, streamVars
    <2>8. RunningIsAccountedFor'
        BY <1>9
           DEF TimeOut, Goto, Unhealthy, Released, IsOpen, KnownAreMade,
               MadeIsPrivate, RunningIsAccountedFor, poolVars, connVars,
               callVars, streamVars
    <2> QED
        BY <2>1, <2>2, <2>3, <2>4, <2>5, <2>6, <2>7, <2>8
<1>10. ASSUME NEW t \in Callers, ReadFails(t) PROVE PoolInv'
    <2>1. TypeOK'
        BY <1>10
           DEF ReadFails, Goto, AfterTransient, Released, IsOpen, Phases, Steps,
               poolVars, connVars, callVars, streamVars
    <2>2. MadeIsPrivate'
        BY <1>10
           DEF ReadFails, Goto, AfterTransient, Released, IsOpen, KnownAreMade,
               PooledNotClosed, MadeIsPrivate, poolVars, connVars, callVars,
               streamVars
    <2>3. KnownAreMade'
        BY <1>10
           DEF ReadFails, Goto, AfterTransient, Released, IsOpen, MadeIsPrivate,
               KnownAreMade, poolVars, connVars, callVars, streamVars
    <2>4. TurnsMatch'
        BY <1>10
           DEF ReadFails, Goto, AfterTransient, Released, IsOpen, KnownAreMade,
               TurnsMatch, poolVars, connVars, callVars, streamVars
    <2>5. InStep'
        BY <1>10
           DEF ReadFails, Goto, AfterTransient, Released, IsOpen, TurnsMatch,
               KnownAreMade, InStep, poolVars, connVars, callVars, streamVars
    <2>6. PooledNotClosed'
        BY <1>10
           DEF ReadFails, Goto, AfterTransient, Released, IsOpen, MadeIsPrivate,
               KnownAreMade, PooledNotClosed, poolVars, connVars, callVars,
               streamVars
    <2>7. StoppedPoolEmpty'
        BY <1>10
           DEF ReadFails, Goto, AfterTransient, Released, IsOpen,
               StoppedPoolEmpty, poolVars, connVars, callVars, streamVars
    <2>8. RunningIsAccountedFor'
        BY <1>10
           DEF ReadFails, Goto, AfterTransient, Released, IsOpen, KnownAreMade,
               MadeIsPrivate, RunningIsAccountedFor, poolVars, connVars,
               callVars, streamVars
    <2> QED
        BY <2>1, <2>2, <2>3, <2>4, <2>5, <2>6, <2>7, <2>8
<1>11. ASSUME NEW t \in Callers, GiveUp(t) PROVE PoolInv'
    <2>1. TypeOK'
        BY <1>11
           DEF GiveUp, Goto, Phases, Steps, poolVars, connVars, callVars,
               streamVars
    <2>2. MadeIsPrivate'
        BY <1>11
           DEF GiveUp, Goto, KnownAreMade, PooledNotClosed, MadeIsPrivate,
               poolVars, connVars, callVars, streamVars
    <2>3. KnownAreMade'
        BY <1>11
           DEF GiveUp, Goto, IsOpen, MadeIsPrivate, KnownAreMade, poolVars,
               connVars, callVars, streamVars
    <2>4. TurnsMatch'
        BY <1>11
           DEF GiveUp, Goto, KnownAreMade, TurnsMatch, poolVars, connVars,
               callVars, streamVars
    <2>5. InStep'
        BY <1>11
           DEF GiveUp, Goto, IsOpen, TurnsMatch, KnownAreMade, InStep, poolVars,
               connVars, callVars, streamVars
    <2>6. PooledNotClosed'
        BY <1>11
           DEF GiveUp, Goto, MadeIsPrivate, KnownAreMade, PooledNotClosed,
               poolVars, connVars, callVars, streamVars
    <2>7. StoppedPoolEmpty'
        BY <1>11
           DEF GiveUp, Goto, StoppedPoolEmpty, poolVars, connVars, callVars,
               streamVars
    <2>8. RunningIsAccountedFor'
        BY <1>11
           DEF GiveUp, Goto, IsOpen, KnownAreMade, MadeIsPrivate,
               RunningIsAccountedFor, poolVars, connVars, callVars, streamVars
    <2> QED
        BY <2>1, <2>2, <2>3, <2>4, <2>5, <2>6, <2>7, <2>8
<1>12. ASSUME NEW t \in Callers, Retry(t) PROVE PoolInv'
    <2>1. ASSUME NEW c \in Conns, pc[t] = "backoff",
                 at[t] = c,
                 attempt[t] < MaxReconnectAttempts,
                 attempt' = [attempt EXCEPT ![t] = attempt[t] + 1],
                 pc' = [pc EXCEPT ![t] = "get"],
                 entry' = None,
                 evicted' = evicted \cup ({entry} \ {None, c}),
                 phase' = Closed({c}),
                 connected' = Disconnected({c}),
                 wire' = [wire EXCEPT ![c] = <<>>],
                 readers' = [readers EXCEPT ![c] = {}],
                 UNCHANGED <<stopped, hasConfig, closing, at, made, answer, turn>>
          PROVE  PoolInv'
        <3>1. TypeOK'
            <4>1. attempt[t] + 1 \in 0..MaxReconnectAttempts /\ <<>> \in Seq(Callers)
                BY <2>1, AttemptsAssumption, EmptySeq
            <4> QED
                BY <2>1, <4>1 DEF Phases, Steps, Closed, Disconnected
        <3>2. MadeIsPrivate'
            BY <2>1 DEF Closed, Disconnected, KnownAreMade, PooledNotClosed,
                   MadeIsPrivate
        <3>3. KnownAreMade'
            BY <2>1 DEF Closed, Disconnected, IsOpen, MadeIsPrivate, KnownAreMade
        <3>4. TurnsMatch'
            BY <2>1 DEF Closed, Disconnected, KnownAreMade, TurnsMatch
        <3>5. InStep'
            BY <2>1 DEF Closed, Disconnected, IsOpen, TurnsMatch, KnownAreMade, InStep
        <3>6. PooledNotClosed'
            BY <2>1 DEF Closed, Disconnected, MadeIsPrivate, KnownAreMade,
                   PooledNotClosed
        <3>7. StoppedPoolEmpty'
            BY <2>1 DEF Closed, Disconnected, StoppedPoolEmpty
        <3>8. RunningIsAccountedFor'
            BY <2>1 DEF Closed, Disconnected, IsOpen, KnownAreMade, MadeIsPrivate,
                   RunningIsAccountedFor
        <3> QED
            BY <3>1, <3>2, <3>3, <3>4, <3>5, <3>6, <3>7, <3>8
    <2>2. ASSUME pc[t] = "backoff",
                 attempt[t] < MaxReconnectAttempts,
                 attempt' = [attempt EXCEPT ![t] = attempt[t] + 1],
                 pc' = [pc EXCEPT ![t] = "get"],
                 UNCHANGED <<stopped, entry, hasConfig, evicted, phase, connected, closing, at, made, answer, wire, readers, turn>>
          PROVE  PoolInv'
        <3>1. TypeOK'
            <4>1. attempt[t] + 1 \in 0..MaxReconnectAttempts
                BY <2>2, AttemptsAssumption
            <4> QED
                BY <2>2, <4>1 DEF Phases, Steps
        <3>2. MadeIsPrivate'
            BY <2>2 DEF KnownAreMade, PooledNotClosed, MadeIsPrivate
        <3>3. KnownAreMade'
            BY <2>2 DEF IsOpen, MadeIsPrivate, KnownAreMade
        <3>4. TurnsMatch'
            BY <2>2 DEF KnownAreMade, TurnsMatch
        <3>5. InStep'
            BY <2>2 DEF IsOpen, TurnsMatch, KnownAreMade, InStep
        <3>6. PooledNotClosed'
            BY <2>2 DEF MadeIsPrivate, KnownAreMade, PooledNotClosed
        <3>7. StoppedPoolEmpty'
            BY <2>2 DEF StoppedPoolEmpty
        <3>8. RunningIsAccountedFor'
            BY <2>2 DEF IsOpen, KnownAreMade, MadeIsPrivate, RunningIsAccountedFor
        <3> QED
            BY <3>1, <3>2, <3>3, <3>4, <3>5, <3>6, <3>7, <3>8
    <2> QED
        BY <1>12, <2>1, <2>2
           DEF Retry, Goto, AttemptsLeft, EntryAfterRetry, EndStream, poolVars,
               connVars, callVars, streamVars
<1>13. ASSUME CleanupIdle PROVE PoolInv'
    <2>1. TypeOK'
        BY <1>13
           DEF CleanupIdle, Phases, Steps, poolVars, connVars, callVars,
               streamVars
    <2>2. MadeIsPrivate'
        BY <1>13
           DEF CleanupIdle, KnownAreMade, PooledNotClosed, MadeIsPrivate,
               poolVars, connVars, callVars, streamVars
    <2>3. KnownAreMade'
        BY <1>13
           DEF CleanupIdle, IsOpen, MadeIsPrivate, KnownAreMade, poolVars,
               connVars, callVars, streamVars
    <2>4. TurnsMatch'
        BY <1>13
           DEF CleanupIdle, KnownAreMade, TurnsMatch, poolVars, connVars,
               callVars, streamVars
    <2>5. InStep'
        BY <1>13
           DEF CleanupIdle, IsOpen, TurnsMatch, KnownAreMade, InStep, poolVars,
               connVars, callVars, streamVars
    <2>6. PooledNotClosed'
        BY <1>13
           DEF CleanupIdle, MadeIsPrivate, KnownAreMade, PooledNotClosed,
               poolVars, connVars, callVars, streamVars
    <2>7. StoppedPoolEmpty'
        BY <1>13
           DEF CleanupIdle, StoppedPoolEmpty, poolVars, connVars, callVars,
               streamVars
    <2>8. RunningIsAccountedFor'
        BY <1>13
           DEF CleanupIdle, IsOpen, KnownAreMade, MadeIsPrivate,
               RunningIsAccountedFor, poolVars, connVars, callVars, streamVars
    <2> QED
        BY <2>1, <2>2, <2>3, <2>4, <2>5, <2>6, <2>7, <2>8
<1>14. ASSUME NEW c \in Conns, CloseConn(c) PROVE PoolInv'
    <2>1. TypeOK'
        BY <1>14
           DEF CloseConn, Closed, Disconnected, EndStream, Phases, Steps,
               poolVars, connVars, callVars, streamVars
    <2>2. MadeIsPrivate'
        BY <1>14
           DEF CloseConn, Closed, Disconnected, EndStream, KnownAreMade,
               PooledNotClosed, MadeIsPrivate, poolVars, connVars, callVars,
               streamVars
    <2>3. KnownAreMade'
        BY <1>14
           DEF CloseConn, Closed, Disconnected, EndStream, IsOpen,
               MadeIsPrivate, KnownAreMade, poolVars, connVars, callVars,
               streamVars
    <2>4. TurnsMatch'
        BY <1>14
           DEF CloseConn, Closed, Disconnected, EndStream, KnownAreMade,
               TurnsMatch, poolVars, connVars, callVars, streamVars
    <2>5. InStep'
        BY <1>14
           DEF CloseConn, Closed, Disconnected, EndStream, IsOpen, TurnsMatch,
               KnownAreMade, InStep, poolVars, connVars, callVars, streamVars
    <2>6. PooledNotClosed'
        BY <1>14
           DEF CloseConn, Closed, Disconnected, EndStream, MadeIsPrivate,
               KnownAreMade, PooledNotClosed, poolVars, connVars, callVars,
               streamVars
    <2>7. StoppedPoolEmpty'
        BY <1>14
           DEF CloseConn, Closed, Disconnected, EndStream, StoppedPoolEmpty,
               poolVars, connVars, callVars, streamVars
    <2>8. RunningIsAccountedFor'
        BY <1>14
           DEF CloseConn, Closed, Disconnected, EndStream, IsOpen, KnownAreMade,
               MadeIsPrivate, RunningIsAccountedFor, poolVars, connVars,
               callVars, streamVars
    <2> QED
        BY <2>1, <2>2, <2>3, <2>4, <2>5, <2>6, <2>7, <2>8
<1>15. ASSUME CloseAll PROVE PoolInv'
    <2>1. TypeOK'
        BY <1>15
           DEF CloseAll, Phases, Steps, poolVars, connVars, callVars,
               streamVars
    <2>2. MadeIsPrivate'
        BY <1>15
           DEF CloseAll, KnownAreMade, PooledNotClosed, MadeIsPrivate, poolVars,
               connVars, callVars, streamVars
    <2>3. KnownAreMade'
        BY <1>15
           DEF CloseAll, IsOpen, MadeIsPrivate, KnownAreMade, poolVars,
               connVars, callVars, streamVars
    <2>4. TurnsMatch'
        BY <1>15
           DEF CloseAll, KnownAreMade, TurnsMatch, poolVars, connVars, callVars,
               streamVars
    <2>5. InStep'
        BY <1>15
           DEF CloseAll, IsOpen, TurnsMatch, KnownAreMade, InStep, poolVars,
               connVars, callVars, streamVars
    <2>6. PooledNotClosed'
        BY <1>15
           DEF CloseAll, MadeIsPrivate, KnownAreMade, PooledNotClosed, poolVars,
               connVars, callVars, streamVars
    <2>7. StoppedPoolEmpty'
        BY <1>15
           DEF CloseAll, StoppedPoolEmpty, poolVars, connVars, callVars,
               streamVars
    <2>8. RunningIsAccountedFor'
        BY <1>15
           DEF CloseAll, IsOpen, KnownAreMade, MadeIsPrivate,
               RunningIsAccountedFor, poolVars, connVars, callVars, streamVars
    <2> QED
        BY <2>1, <2>2, <2>3, <2>4, <2>5, <2>6, <2>7, <2>8
<1>16. ASSUME NEW c \in Conns, ServerDies(c) PROVE PoolInv'
    <2>1. TypeOK'
        BY <1>16
           DEF ServerDies, IsOpen, EndStream, Phases, Steps, poolVars, connVars,
               callVars, streamVars
    <2>2. MadeIsPrivate'
        BY <1>16
           DEF ServerDies, IsOpen, EndStream, KnownAreMade, PooledNotClosed,
               MadeIsPrivate, poolVars, connVars, callVars, streamVars
    <2>3. KnownAreMade'
        BY <1>16
           DEF ServerDies, IsOpen, EndStream, MadeIsPrivate, KnownAreMade,
               poolVars, connVars, callVars, streamVars
    <2>4. TurnsMatch'
        BY <1>16
           DEF ServerDies, IsOpen, EndStream, KnownAreMade, TurnsMatch,
               poolVars, connVars, callVars, streamVars
    <2>5. InStep'
        BY <1>16
           DEF ServerDies, IsOpen, EndStream, TurnsMatch, KnownAreMade, InStep,
               poolVars, connVars, callVars, streamVars
    <2>6. PooledNotClosed'
        BY <1>16
           DEF ServerDies, IsOpen, EndStream, MadeIsPrivate, KnownAreMade,
               PooledNotClosed, poolVars, connVars, callVars, streamVars
    <2>7. StoppedPoolEmpty'
        BY <1>16
           DEF ServerDies, IsOpen, EndStream, StoppedPoolEmpty, poolVars,
               connVars, callVars, streamVars
    <2>8. RunningIsAccountedFor'
        BY <1>16
           DEF ServerDies, IsOpen, EndStream, KnownAreMade, MadeIsPrivate,
               RunningIsAccountedFor, poolVars, connVars, callVars, streamVars
    <2> QED
        BY <2>1, <2>2, <2>3, <2>4, <2>5, <2>6, <2>7, <2>8
<1>17. CASE UNCHANGED vars
    BY <1>17 DEF vars, IsOpen, poolVars, connVars, callVars, streamVars,
       MadeIsPrivate, KnownAreMade, TurnsMatch, InStep, PooledNotClosed, StoppedPoolEmpty, RunningIsAccountedFor
<1> QED
    BY <1>1, <1>2, <1>3, <1>4, <1>5, <1>6, <1>7, <1>8, <1>9, <1>10, <1>11, <1>12, <1>13, <1>14, <1>15, <1>16, <1>17 DEF Next, CallerStep

-----------------------------------------------------------------------------
(* The inductive invariant holds throughout.                               *)
THEOREM Invariance == Spec => []PoolInv
BY InitEstablishes, StepPreserves, PTL DEF Spec

-----------------------------------------------------------------------------
(* Safety *)

(* Every variable of the pool stays in its set.                            *)
THEOREM TypeCorrect == Spec => []TypeOK
<1>1. PoolInv => TypeOK
    BY DEF PoolInv
<1> QED
    BY <1>1, Invariance, PTL

(* The map never holds a connection that is closed or about to be.         *)
THEOREM PooledConnectionsAreUsable == Spec => []PooledNotClosed
<1>1. PoolInv => PooledNotClosed
    BY DEF PoolInv
<1> QED
    BY <1>1, Invariance, PTL

(* Nothing comes back into the map of a stopped pool.                      *)
THEOREM ShutdownIsFinal == Spec => []StoppedPoolEmpty
<1>1. PoolInv => StoppedPoolEmpty
    BY DEF PoolInv
<1> QED
    BY <1>1, Invariance, PTL

(* A running subprocess is in the map or with a goroutine that will insert *)
(* or close it, unless the retry of a call took it out of the map.         *)
THEOREM SubprocessesAreAccountedFor == Spec => []RunningIsAccountedFor
<1>1. PoolInv => RunningIsAccountedFor
    BY DEF PoolInv
<1> QED
    BY <1>1, Invariance, PTL

(* A caller answered on a connection marked connected gets its own answer; *)
(* nothing is said of a call that takes an entry no longer marked so.      *)
THEOREM HealthyConnectionsAreInStep == Spec => HealthyAnswersAreOwn
<1>1. ASSUME PoolInv, [Next]_vars, NEW t \in Callers,
             answer'[t] # answer[t], connected[at[t]]
      PROVE  answer'[t] = t
    <2>1. PICK u \in Callers : Answer(u)
        BY <1>1 DEF Next, vars, CallerStep, CallTool, RegisterServer, Probe, LookUp, Establish,
           Insert, Write, TimeOut, ReadFails, GiveUp, Retry, CleanupIdle, CloseConn, CloseAll,
           ServerDies, callVars
    <2>2. PICK c \in Conns :
             /\ IsOpen(c)
             /\ u \in readers[c]
             /\ answer' # answer =>
                   at[u] = c /\ answer' = [answer EXCEPT ![u] = Head(wire[c])]
        BY <2>1 DEF Answer
    <2>3. u = t /\ at[t] = c /\ answer'[t] = Head(wire[c])
        BY <1>1, <2>2 DEF PoolInv, TypeOK
    <2>4. wire[c] = <<t>>
        BY <1>1, <2>2, <2>3 DEF PoolInv, InStep
    <2> QED
        BY <2>3, <2>4
<1>2. PoolInv /\ [Next]_vars =>
          [\A t \in Callers : answer'[t] # answer[t] /\ connected[at[t]] => answer'[t] = t]_vars
    BY <1>1
<1> QED
    BY <1>2, Invariance, PTL DEF Spec, HealthyAnswersAreOwn
=============================================================================
