------------------------------- MODULE McpPool -------------------------------
(***************************************************************************)
(* The gateway's pool of connections to one external MCP server            *)
(* (mcp-gateway/internal/mcpproxy/pool.go).  Instances of different ids    *)
(* share nothing but the stopped flag, so the map of the pool is modelled  *)
(* by its entry for one id.  The transport is stdio: one subprocess per    *)
(* connection, one line written and one line read per request.             *)
(*                                                                         *)
(* Callers are goroutines: tool calls (CallTool, with its retries),        *)
(* registrations (ProxyHandler.registerServer) and probes (the schema      *)
(* refresh and HealthStatus).  Each action is one critical section of p.mu *)
(* or of a connection's idMu, or one wait.                                 *)
(***************************************************************************)
EXTENDS Naturals, Sequences

CONSTANTS
    ToolCalls,              \* CallTool invocations
    Loads,                  \* registerServer invocations
    Probes,                 \* RefreshTools and ping invocations
    MaxConns,               \* bound: connections established in one behaviour
    MaxReconnectAttempts,   \* p.maxReconnectAttempts
    None                    \* no connection, no caller, no answer yet

Callers == ToolCalls \cup Loads \cup Probes
Conns == 1..MaxConns        \* in the order they are established

ASSUME MaxConnsAssumption == MaxConns \in Nat
ASSUME AttemptsAssumption == MaxReconnectAttempts \in Nat
ASSUME NoneAssumption == None \notin Conns \cup Callers
ASSUME KindsAssumption == /\ ToolCalls \cap Loads = {}
                          /\ ToolCalls \cap Probes = {}
                          /\ Loads \cap Probes = {}

VARIABLES
    stopped,    \* p.stopped
    entry,      \* p.connections[id]
    hasConfig,  \* id is a key of p.configs
    phase,      \* the subprocess and conn.closed of each connection
    connected,  \* conn.connected
    closing,    \* connections whose close() has been left to another goroutine
    evicted,    \* history: connections a retry took out of the map
    pc,         \* program counter of each caller
    at,         \* the connection a caller works on
    made,       \* the connection a caller has established and not yet inserted
    attempt,    \* retryWithBackoff's attempt
    wire,       \* requests written to each subprocess and not yet answered
    readers,    \* requests whose read goroutine waits for a line
    turn,       \* holder of conn.idMu: the request being served
    answer      \* whose request the line answered that a caller returned

poolVars == <<stopped, entry, hasConfig, evicted>>
connVars == <<phase, connected, closing>>
callVars == <<pc, at, made, attempt, answer>>
streamVars == <<wire, readers, turn>>
vars == <<poolVars, connVars, callVars, streamVars>>

-----------------------------------------------------------------------------
(* Connections *)

Phases == {"unused", "open", "dead", "closed"}

IsOpen(c) == phase[c] = "open"

\* The entry exists, and conn.connected && !conn.closed.
EntryHealthy == entry # None /\ connected[entry] /\ phase[entry] # "closed"

\* close(): later calls find conn.closed set.
Closed(cs) == [c \in Conns |-> IF c \in cs THEN "closed" ELSE phase[c]]
Disconnected(cs) == [c \in Conns |-> connected[c] /\ c \notin cs]

\* The pipes of an ended subprocess: every read of stdout returns EOF.
EndStream(c) ==
    /\ wire' = [wire EXCEPT ![c] = <<>>]
    /\ readers' = [readers EXCEPT ![c] = {}]

-----------------------------------------------------------------------------
(* Callers *)

Steps == {"start", "get", "connect", "insert", "send", "reading", "backoff", "done"}

Goto(t, step) == pc' = [pc EXCEPT ![t] = step]

TypeOK ==
    /\ stopped \in BOOLEAN
    /\ entry \in Conns \cup {None}
    /\ hasConfig \in BOOLEAN
    /\ evicted \subseteq Conns
    /\ phase \in [Conns -> Phases]
    /\ connected \in [Conns -> BOOLEAN]
    /\ closing \subseteq Conns
    /\ pc \in [Callers -> Steps]
    /\ at \in [Callers -> Conns \cup {None}]
    /\ made \in [Callers -> Conns \cup {None}]
    /\ attempt \in [Callers -> 0..MaxReconnectAttempts]
    /\ wire \in [Conns -> Seq(Callers)]
    /\ readers \in [Conns -> SUBSET Callers]
    /\ turn \in [Conns -> Callers \cup {None}]
    /\ answer \in [Callers -> Callers \cup {None}]

\* NewPool; connections are made on demand.
Init ==
    /\ stopped = FALSE
    /\ entry = None
    /\ hasConfig = FALSE
    /\ evicted = {}
    /\ phase = [c \in Conns |-> "unused"]
    /\ connected = [c \in Conns |-> FALSE]
    /\ closing = {}
    /\ pc = [t \in Callers |-> "start"]
    /\ at = [t \in Callers |-> None]
    /\ made = [t \in Callers |-> None]
    /\ attempt = [t \in Callers |-> 0]
    /\ wire = [c \in Conns |-> <<>>]
    /\ readers = [c \in Conns |-> {}]
    /\ turn = [c \in Conns |-> None]
    /\ answer = [t \in Callers |-> None]

-----------------------------------------------------------------------------
(* Entry points *)

\* CallTool reads the map under the read lock and takes the connection it finds;
\* with no connection but a stored config it reconnects first.  (lastUsed, which
\* every use of a connection sets, is left out: see CleanupIdle.)
CallTool(t) ==
    /\ t \in ToolCalls
    /\ pc[t] = "start"
    /\ \/ /\ entry # None
          /\ at' = [at EXCEPT ![t] = entry]
          /\ Goto(t, "send")
       \/ /\ entry = None
          /\ Goto(t, IF hasConfig THEN "get" ELSE "done")
          /\ UNCHANGED <<at>>
    /\ UNCHANGED <<poolVars, phase, connected, closing, made, attempt, answer, streamVars>>

\* registerServer: GetOrConnect, then the handler's own tool map.
RegisterServer(t) ==
    /\ t \in Loads
    /\ pc[t] = "start"
    /\ Goto(t, "get")
    /\ UNCHANGED <<poolVars, connVars, at, made, attempt, answer, streamVars>>

\* RefreshTools and HealthStatus use the connection they find as it is.
Probe(t) ==
    /\ t \in Probes
    /\ pc[t] = "start"
    /\ \/ /\ entry # None
          /\ at' = [at EXCEPT ![t] = entry]
          /\ Goto(t, "send")
       \/ /\ entry = None
          /\ Goto(t, "done")
          /\ UNCHANGED at
    /\ UNCHANGED <<poolVars, connVars, made, attempt, answer, streamVars>>

-----------------------------------------------------------------------------
(* GetOrConnect *)

AfterGet(t) == IF t \in Loads THEN "done" ELSE "send"
AfterFailedGet(t) == IF t \in Loads THEN "done" ELSE "backoff"

\* The first critical section.
LookUp(t) ==
    /\ pc[t] = "get"
    /\ \/ /\ stopped
          /\ Goto(t, AfterFailedGet(t))
          /\ UNCHANGED <<entry, closing, at>>
       \/ /\ ~stopped
          /\ EntryHealthy
          /\ at' = [at EXCEPT ![t] = entry]
          /\ Goto(t, AfterGet(t))
          /\ UNCHANGED <<entry, closing>>
       \/ /\ ~stopped
          /\ ~EntryHealthy
          /\ entry' = None
          /\ closing' = closing \cup ({entry} \ {None})
          /\ Goto(t, "connect")
          /\ UNCHANGED <<at>>
    /\ UNCHANGED <<stopped, hasConfig, evicted, phase, connected, made, attempt, answer, streamVars>>

\* Without a lock: connectFn and tools/list.  A server that does not start
\* leaves nothing behind and one that does not list its tools is closed.
Establish(t) ==
    /\ pc[t] = "connect"
    /\ \/ /\ \E c \in Conns :
                /\ phase[c] = "unused"
                /\ \A d \in Conns : phase[d] = "unused" => c <= d
                /\ phase' = [phase EXCEPT ![c] = "open"]
                /\ connected' = [connected EXCEPT ![c] = TRUE]
                /\ made' = [made EXCEPT ![t] = c]
          /\ Goto(t, "insert")
       \/ /\ Goto(t, AfterFailedGet(t))
          /\ UNCHANGED <<phase, connected, made>>
    /\ UNCHANGED <<poolVars, closing, at, attempt, answer, streamVars>>

\* What the second critical section decides about the new connection.
CannotInsertUnchecked == FALSE
CannotInsert == stopped
ReplacedUnchecked == FALSE
Replaced == entry # None

Insert(t) ==
    /\ pc[t] = "insert"
    /\ made' = [made EXCEPT ![t] = None]
    /\ \/ /\ CannotInsert
          /\ phase' = Closed({made[t]})
          /\ connected' = Disconnected({made[t]})
          /\ Goto(t, AfterFailedGet(t))
          /\ UNCHANGED <<entry, hasConfig, at>>
       \/ /\ ~CannotInsert /\ Replaced
          /\ phase' = Closed({made[t]})
          /\ connected' = Disconnected({made[t]})
          /\ at' = [at EXCEPT ![t] = entry]
          /\ Goto(t, AfterGet(t))
          /\ UNCHANGED <<entry, hasConfig>>
       \/ /\ ~CannotInsert /\ ~Replaced
          /\ entry' = made[t]
          /\ hasConfig' = TRUE
          /\ at' = [at EXCEPT ![t] = made[t]]
          /\ Goto(t, AfterGet(t))
          /\ UNCHANGED <<phase, connected>>
    /\ UNCHANGED <<stopped, evicted, closing, attempt, answer, streamVars>>

-----------------------------------------------------------------------------
(* sendStdioRequest *)

\* A transient error sends a tool call to its next attempt; probes report it.
AfterTransient(t) == IF t \in ToolCalls THEN "backoff" ELSE "done"

\* The connection's exclusive use: idMu is held from the write to the answer.
MayWriteUnserialised(t, c) == TRUE
MayWrite(t, c) == turn[c] = None

\* The closed check, idMu and the write.
Write(t) ==
    /\ pc[t] = "send"
    /\ LET c == at[t] IN
          \/ /\ phase[c] = "closed"
             /\ Goto(t, AfterTransient(t))
             /\ UNCHANGED <<wire, readers, turn>>
          \/ /\ phase[c] = "dead"
             /\ MayWrite(t, c)
             /\ Goto(t, AfterTransient(t))
             /\ UNCHANGED <<wire, readers, turn>>
          \/ /\ IsOpen(c)
             /\ MayWrite(t, c)
             /\ turn' = [turn EXCEPT ![c] = t]
             /\ wire' = [wire EXCEPT ![c] = Append(@, t)]
             /\ readers' = [readers EXCEPT ![c] = @ \cup {t}]
             /\ Goto(t, "reading")
    /\ UNCHANGED <<poolVars, connVars, at, made, attempt, answer>>

\* The deferred idMu.Unlock of a request that is over.
NotReleased(t) == turn
Released(t) == [turn EXCEPT ![at[t]] = IF @ = t THEN None ELSE @]

\* The subprocess answers its oldest request; some waiting read goroutine gets
\* the line, and its request takes it for its own: response ids are not compared.
\* An answer that reports an error is retried when its text looks transient.
Answer(t) ==
    \E c \in Conns :
        /\ IsOpen(c)
        /\ wire[c] # <<>>
        /\ t \in readers[c]
        /\ wire' = [wire EXCEPT ![c] = Tail(@)]
        /\ readers' = [readers EXCEPT ![c] = @ \ {t}]
        /\ \/ /\ pc[t] = "reading" /\ at[t] = c
              /\ turn' = Released(t)
              /\ \/ /\ answer' = [answer EXCEPT ![t] = Head(wire[c])]
                    /\ Goto(t, "done")
                 \/ /\ Goto(t, AfterTransient(t))
                    /\ UNCHANGED answer
           \/ /\ ~(pc[t] = "reading" /\ at[t] = c)
              /\ UNCHANGED <<turn, answer, pc>>
        /\ UNCHANGED <<poolVars, connVars, at, made, attempt>>

\* The context ends first: the read goroutine stays behind, the connection is
\* marked unhealthy and the caller gets an error that is not retried.
Unhealthy(c) == [connected EXCEPT ![c] = FALSE]

TimeOut(t) ==
    /\ pc[t] = "reading"
    /\ connected' = Unhealthy(at[t])
    /\ turn' = Released(t)
    /\ Goto(t, "done")
    /\ UNCHANGED <<poolVars, phase, closing, at, made, attempt, answer, wire, readers>>

\* The pipe of a subprocess that died or was killed: read from stdout fails.
ReadFails(t) ==
    /\ pc[t] = "reading"
    /\ ~IsOpen(at[t])
    /\ turn' = Released(t)
    /\ Goto(t, AfterTransient(t))
    /\ UNCHANGED <<poolVars, connVars, at, made, attempt, answer, wire, readers>>

-----------------------------------------------------------------------------
(* retryWithBackoff *)

\* The map after a retry's delete: whatever the entry was, it is gone.
EntryAfterRetryKept(t) == entry
EntryAfterRetry(t) == None

\* The context ends during the backoff, or the attempts are used up.
GiveUp(t) ==
    /\ pc[t] = "backoff"
    /\ Goto(t, "done")
    /\ UNCHANGED <<poolVars, connVars, at, made, attempt, answer, streamVars>>

AttemptsLeft(t) == attempt[t] < MaxReconnectAttempts

\* With a connection of its own to give up, a retry deletes the entry and
\* closes that connection before it asks for a new one.
Retry(t) ==
    /\ pc[t] = "backoff"
    /\ AttemptsLeft(t)
    /\ attempt' = [attempt EXCEPT ![t] = @ + 1]
    /\ Goto(t, "get")
    /\ \/ /\ at[t] # None
          /\ entry' = EntryAfterRetry(t)
          /\ evicted' = evicted \cup ({entry} \ {None, at[t]})
          /\ phase' = Closed({at[t]})
          /\ connected' = Disconnected({at[t]})
          /\ EndStream(at[t])
       \/ /\ at[t] = None
          /\ UNCHANGED <<entry, evicted, phase, connected, wire, readers>>
    /\ UNCHANGED <<stopped, hasConfig, closing, at, made, answer, turn>>

-----------------------------------------------------------------------------
(* Background and shutdown *)

\* The pooled connection was last used more than idleTimeout ago: how long
\* callers wait is not bounded from below, so it may have been at any moment.
CleanupIdle ==
    /\ entry # None
    /\ entry' = None
    /\ closing' = closing \cup {entry}
    /\ UNCHANGED <<stopped, hasConfig, evicted, phase, connected, callVars, streamVars>>

\* go conn.close(), and the closes of CloseAll after it released p.mu.
CloseConn(c) ==
    /\ c \in closing
    /\ closing' = closing \ {c}
    /\ phase' = Closed({c})
    /\ connected' = Disconnected({c})
    /\ EndStream(c)
    /\ UNCHANGED <<poolVars, callVars, turn>>

CloseAll ==
    /\ ~stopped
    /\ stopped' = TRUE
    /\ closing' = closing \cup ({entry} \ {None})
    /\ entry' = None
    /\ hasConfig' = FALSE
    /\ UNCHANGED <<evicted, phase, connected, callVars, streamVars>>

\* The external server exits.
ServerDies(c) ==
    /\ IsOpen(c)
    /\ phase' = [phase EXCEPT ![c] = "dead"]
    /\ EndStream(c)
    /\ UNCHANGED <<poolVars, connected, closing, callVars, turn>>

-----------------------------------------------------------------------------
CallerStep(t) ==
    \/ LookUp(t) \/ Establish(t) \/ Insert(t)
    \/ Write(t) \/ TimeOut(t) \/ ReadFails(t)
    \/ GiveUp(t) \/ Retry(t)

Next ==
    \/ \E t \in Callers :
          \/ CallTool(t) \/ RegisterServer(t) \/ Probe(t)
          \/ CallerStep(t)
          \/ Answer(t)
    \/ CleanupIdle \/ CloseAll
    \/ \E c \in Conns : CloseConn(c) \/ ServerDies(c)

Spec == Init /\ [][Next]_vars

\* A caller that began goes on, and every request has a deadline: the server
\* gives a tool call five minutes and a refresh thirty seconds.  Goroutines
\* left to close a connection do so.  Nothing makes an external server answer.
FairSpec ==
    /\ Spec
    /\ \A t \in Callers : WF_vars(CallerStep(t))
    /\ \A c \in Conns : WF_vars(CloseConn(c))

-----------------------------------------------------------------------------
(* Properties *)

\* A connection in the map is one nobody has closed: a caller that takes the
\* entry never starts on a connection another caller is done with.
PooledNotClosed == entry # None => phase[entry] \in {"open", "dead"} /\ entry \notin closing

\* A connection that was being established while CloseAll ran does not come
\* back into the map of a stopped pool.
StoppedPoolEmpty == stopped => entry = None /\ ~hasConfig

\* Every subprocess that is running is in the map, in the hands of the caller
\* that is about to insert it or of a goroutine that will close it -- or a retry
\* of another call took it out of the map, the one way it can be forgotten.
RunningIsAccountedFor ==
    \A c \in Conns : IsOpen(c) =>
        \/ c = entry
        \/ c \in closing
        \/ c \in evicted
        \/ \E t \in Callers : pc[t] = "insert" /\ made[t] = c

\* Callers share one stream and response ids are not compared, yet a caller
\* answered on a connection that is still marked connected gets the answer to
\* its own request: a connection out of step is one marked unhealthy.
HealthyAnswersAreOwn ==
    [][\A t \in Callers :
          answer'[t] # answer[t] /\ connected[at[t]] => answer'[t] = t]_vars

\* A call that began returns, whatever happens to its connection.
CallsReturn == \A t \in Callers : pc[t] # "start" ~> pc[t] = "done"

\* After CloseAll the subprocesses end, those being established included; what
\* is left running is what retries took out of the map.
StoppedPoolDrains ==
    stopped ~> \A c \in Conns : IsOpen(c) => c \in evicted

=============================================================================
