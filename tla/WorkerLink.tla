----------------------------- MODULE WorkerLink -----------------------------
(***************************************************************************)
(* One-shot LLM requests over the agent worker's connection, both ends:    *)
(* OneShotLLM, the connection handler and the pending map of the API       *)
(* (internal/handlers/agent_ws.go), and the reconnecting WebSocket client  *)
(* of the worker (agent-worker/src/ws-client.ts, index.ts,                 *)
(* orchestrator.ts).                                                       *)
(*                                                                         *)
(* The API side is concurrent: an action is one critical section of h.mu   *)
(* or of pendingOneshotMu, one channel operation or one blocking write.    *)
(* The worker side is one event loop: an action is one callback.           *)
(* Connections are numbered in the order the worker dials them.            *)
(***************************************************************************)
EXTENDS Naturals, Sequences

CONSTANTS
    Requests,   \* OneShotLLM calls, one request id each
    MaxConns,   \* bound: connections dialled in one behaviour
    Nobody      \* no request

ASSUME MaxConnsAssumption == MaxConns \in Nat \ {0}
ASSUME NobodyAssumption == Nobody \notin Requests

Conns == 1..MaxConns
NoConn == 0

VARIABLES
    \* API
    slot,       \* h.workerConn
    conn,       \* the HandleWebSocket goroutine of each connection
    mu,         \* the call that holds h.mu across its blocking write
    pending,    \* h.pendingOneshot: the connection of each request's entry
    held,       \* the entry each reader has looked up and not yet signalled
    losing,     \* entries each teardown has deleted and not yet signalled
    call,       \* program counter of each call
    sentOn,     \* the connection each request was written to
    reply,      \* the reply channel of each call
    outcome,    \* what each call returned
    \* worker
    sock,       \* the worker's end of each connection
    ws,         \* this.ws
    up,         \* this.connected
    loop,       \* connectWithRetry running, or monitorConnection's timer
    work,       \* where each request is between the two programs
    frame       \* the connection a response is in flight on

apiVars == <<slot, conn, mu, pending, held, losing>>
callVars == <<call, sentOn, reply, outcome>>
clientVars == <<sock, ws, up, loop>>
workVars == <<work, frame>>
vars == <<apiVars, callVars, clientVars, workVars>>

-----------------------------------------------------------------------------
(* States *)

ConnStates == {"none", "upgraded", "reading", "closed", "leaving", "cleared", "gone"}
SockStates == {"none", "dialling", "open", "ended", "closed"}
CallStates == {"start", "checked", "writing", "waiting", "returned"}
WorkStates == {"unsent", "sent", "working", "done"}

Messages == {"answer", "lost"}
ReplyCapacity == 1      \* make(chan *AgentMessage, 1)

TypeOK ==
    /\ slot \in Conns \cup {NoConn}
    /\ conn \in [Conns -> ConnStates]
    /\ mu \in Requests \cup {Nobody}
    /\ pending \in [Requests -> Conns \cup {NoConn}]
    /\ held \in [Conns -> Requests \cup {Nobody}]
    /\ losing \in [Conns -> SUBSET Requests]
    /\ call \in [Requests -> CallStates]
    /\ sentOn \in [Requests -> Conns \cup {NoConn}]
    /\ reply \in [Requests -> Seq(Messages)]
    /\ \A q \in Requests : Len(reply[q]) <= ReplyCapacity
    /\ outcome \in [Requests -> Messages \cup {"none", "timeout", "refused"}]
    /\ sock \in [Conns -> SockStates]
    /\ ws \in Conns \cup {NoConn}
    /\ up \in BOOLEAN
    /\ loop \in {"connecting", "watching"}
    /\ work \in [Requests -> WorkStates]
    /\ frame \in [Requests -> Conns \cup {NoConn}]

Init ==
    /\ slot = NoConn
    /\ conn = [c \in Conns |-> "none"]
    /\ mu = Nobody
    /\ pending = [q \in Requests |-> NoConn]
    /\ held = [c \in Conns |-> Nobody]
    /\ losing = [c \in Conns |-> {}]
    /\ call = [q \in Requests |-> "start"]
    /\ sentOn = [q \in Requests |-> NoConn]
    /\ reply = [q \in Requests |-> <<>>]
    /\ outcome = [q \in Requests |-> "none"]
    /\ sock = [c \in Conns |-> "none"]
    /\ ws = NoConn
    /\ up = FALSE
    /\ loop = "connecting"
    /\ work = [q \in Requests |-> "unsent"]
    /\ frame = [q \in Requests |-> NoConn]

-----------------------------------------------------------------------------
(* API: the connection handler *)

Upgrade(c) ==
    /\ sock[c] = "dialling"
    /\ conn[c] = "none"
    /\ conn' = [conn EXCEPT ![c] = "upgraded"]
    /\ UNCHANGED <<slot, mu, pending, held, losing, callVars, clientVars, workVars>>

\* The new connection takes the slot; the one it finds there is closed.
TakeSlot(c) ==
    /\ conn[c] = "upgraded"
    /\ mu = Nobody
    /\ conn' = [d \in Conns |->
                  CASE d = c -> "reading"
                    [] d = slot /\ conn[d] = "reading" -> "closed"
                    [] OTHER -> conn[d]]
    /\ slot' = c
    /\ UNCHANGED <<mu, pending, held, losing, callVars, clientVars, workVars>>

\* ReadMessage fails, because either end has closed.  A reader that is in
\* handleMessage gets there first.
LeaveReadLoop(c) ==
    /\ \/ conn[c] = "closed"
       \/ conn[c] = "reading" /\ sock[c] \in {"ended", "closed"}
    /\ held[c] = Nobody
    /\ conn' = [conn EXCEPT ![c] = "leaving"]
    /\ UNCHANGED <<slot, mu, pending, held, losing, callVars, clientVars, workVars>>

\* cleanupWorkerConn up to conn.Close().
ClearSlot(c) ==
    /\ conn[c] = "leaving"
    /\ mu = Nobody
    /\ slot' = IF slot = c THEN NoConn ELSE slot
    /\ conn' = [conn EXCEPT ![c] = "cleared"]
    /\ UNCHANGED <<mu, pending, held, losing, callVars, clientVars, workVars>>

\* The entries failPendingOneshotForConn takes: those of this connection,
\* whoever is in the slot by now.
LostIfUnreplaced(c) == {q \in Requests : pending[q] = c /\ slot = NoConn}
Lost(c) == {q \in Requests : pending[q] = c}

FailPending(c) ==
    /\ conn[c] = "cleared"
    /\ losing' = [losing EXCEPT ![c] = Lost(c)]
    /\ pending' = [q \in Requests |-> IF q \in Lost(c) THEN NoConn ELSE pending[q]]
    /\ conn' = [conn EXCEPT ![c] = "gone"]
    /\ UNCHANGED <<slot, mu, held, callVars, clientVars, workVars>>

\* A non-blocking send: a full channel drops the message, and that of a call
\* that has returned is nobody's.
Offered(q, message) ==
    IF call[q] # "returned" /\ Len(reply[q]) < ReplyCapacity
    THEN Append(reply[q], message)
    ELSE reply[q]

SignalLost(c, q) ==
    /\ q \in losing[c]
    /\ losing' = [losing EXCEPT ![c] = @ \ {q}]
    /\ reply' = [reply EXCEPT ![q] = Offered(q, "lost")]
    /\ UNCHANGED <<slot, conn, mu, pending, held, call, sentOn, outcome, clientVars, workVars>>

\* The entry of the request_id a response carries.
EntryForOldest(q) ==
    LET waiting == {p \in Requests : pending[p] # NoConn}
    IN  IF waiting = {} THEN Nobody ELSE CHOOSE p \in waiting : TRUE
EntryFor(q) == IF pending[q] # NoConn THEN q ELSE Nobody

\* handleOneshotLLMResponse looks the entry up and signals it after the unlock.
LookUpEntry(c, q) ==
    /\ conn[c] = "reading"
    /\ held[c] = Nobody
    /\ frame[q] = c
    /\ frame' = [frame EXCEPT ![q] = NoConn]
    /\ held' = [held EXCEPT ![c] = EntryFor(q)]
    /\ UNCHANGED <<slot, conn, mu, pending, losing, callVars, clientVars, work>>

SignalAnswer(c) ==
    /\ held[c] # Nobody
    /\ reply' = [reply EXCEPT ![held[c]] = Offered(held[c], "answer")]
    /\ held' = [held EXCEPT ![c] = Nobody]
    /\ UNCHANGED <<slot, conn, mu, pending, losing, call, sentOn, outcome, clientVars, workVars>>

-----------------------------------------------------------------------------
(* API: OneShotLLM *)

Returns(q, o) ==
    /\ call' = [call EXCEPT ![q] = "returned"]
    /\ outcome' = [outcome EXCEPT ![q] = o]

\* IsWorkerConnected; the request is built afterwards, without the lock.
CheckWorker(q) ==
    /\ call[q] = "start"
    /\ mu = Nobody
    /\ \/ slot = NoConn /\ Returns(q, "refused")
       \/ slot # NoConn /\ call' = [call EXCEPT ![q] = "checked"] /\ UNCHANGED outcome
    /\ UNCHANGED <<apiVars, sentOn, reply, clientVars, workVars>>

\* Under h.mu: capture the connection, register the entry, begin to write.
Register(q) ==
    /\ call[q] = "checked"
    /\ mu = Nobody
    /\ \/ /\ slot = NoConn
          /\ Returns(q, "refused")
          /\ UNCHANGED <<mu, pending, sentOn>>
       \/ /\ slot # NoConn
          /\ mu' = q
          /\ pending' = [pending EXCEPT ![q] = slot]
          /\ sentOn' = [sentOn EXCEPT ![q] = slot]
          /\ call' = [call EXCEPT ![q] = "writing"]
          /\ UNCHANGED outcome
    /\ UNCHANGED <<slot, conn, held, losing, reply, clientVars, workVars>>

\* The bytes are in the socket, whether or not the peer will read them.
WriteDone(q) ==
    /\ call[q] = "writing"
    /\ mu' = Nobody
    /\ work' = [work EXCEPT ![q] = "sent"]
    /\ call' = [call EXCEPT ![q] = "waiting"]
    /\ UNCHANGED <<slot, conn, pending, held, losing, sentOn, reply, outcome, clientVars, frame>>

\* delete(h.pendingOneshot, requestID), on every way out of a registered call.
Forgotten(q) == [pending EXCEPT ![q] = NoConn]

WriteFails(q) ==
    /\ call[q] = "writing"
    /\ sock[sentOn[q]] # "open"
    /\ mu' = Nobody
    /\ pending' = Forgotten(q)
    /\ Returns(q, "lost")
    /\ UNCHANGED <<slot, conn, held, losing, sentOn, reply, clientVars, workVars>>

ReceiveReply(q) ==
    /\ call[q] = "waiting"
    /\ reply[q] # <<>>
    /\ Returns(q, Head(reply[q]))
    /\ reply' = [reply EXCEPT ![q] = Tail(@)]
    /\ pending' = Forgotten(q)
    /\ UNCHANGED <<slot, conn, mu, held, losing, sentOn, clientVars, workVars>>

TimeOut(q) ==
    /\ call[q] = "waiting"
    /\ Returns(q, "timeout")
    /\ reply' = [reply EXCEPT ![q] = <<>>]
    /\ pending' = Forgotten(q)
    /\ UNCHANGED <<slot, conn, mu, held, losing, sentOn, clientVars, workVars>>

-----------------------------------------------------------------------------
(* Worker: the WebSocket client and its monitor *)

IsConnected == up /\ ws # NoConn /\ sock[ws] = "open"

\* What monitorConnection looks at every five seconds.
MustReconnectNoSocket == ws = NoConn \/ sock[ws] # "open"
MustReconnect == ~IsConnected

\* connect(): a new socket; one attempt at a time.
Dial(c) ==
    /\ loop = "connecting"
    /\ \A d \in Conns : sock[d] # "dialling"
    /\ sock[c] = "none"
    /\ \A d \in Conns : d < c => sock[d] # "none"
    /\ sock' = [sock EXCEPT ![c] = "dialling"]
    /\ UNCHANGED <<apiVars, callVars, ws, up, loop, workVars>>

\* Refused, or terminated by the connect timeout; connectWithRetry goes on.
DialFails(c) ==
    /\ sock[c] = "dialling"
    /\ sock' = [sock EXCEPT ![c] = "ended"]
    /\ UNCHANGED <<apiVars, callVars, ws, up, loop, workVars>>

OnOpen(c) ==
    /\ sock[c] = "dialling"
    /\ conn[c] # "none"
    /\ sock' = [sock EXCEPT ![c] = "open"]
    /\ ws' = c
    /\ up' = TRUE
    /\ loop' = "watching"
    /\ UNCHANGED <<apiVars, callVars, workVars>>

\* The network fails, or the API has closed its end.
Drops(c) ==
    /\ sock[c] = "open"
    /\ sock' = [sock EXCEPT ![c] = "ended"]
    /\ UNCHANGED <<apiVars, callVars, ws, up, loop, workVars>>

\* The close event of any socket of the client, the current one or an older
\* one, clears the flag they share.
OnClose(c) ==
    /\ sock[c] = "ended"
    /\ sock' = [sock EXCEPT ![c] = "closed"]
    /\ up' = FALSE
    /\ UNCHANGED <<apiVars, callVars, ws, loop, workVars>>

\* monitorConnection: reset() terminates the socket, then connectWithRetry.
Reconnect ==
    /\ loop = "watching"
    /\ MustReconnect
    /\ loop' = "connecting"
    /\ up' = FALSE
    /\ ws' = NoConn
    /\ sock' = [c \in Conns |-> IF c = ws /\ sock[c] = "open" THEN "ended" ELSE sock[c]]
    /\ UNCHANGED <<apiVars, callVars, workVars>>

-----------------------------------------------------------------------------
(* Worker: requests *)

\* A message event; what was received before the end is still delivered.
OnMessage(q) ==
    /\ work[q] = "sent"
    /\ sock[sentOn[q]] \in {"open", "ended"}
    /\ work' = [work EXCEPT ![q] = "working"]
    /\ UNCHANGED <<apiVars, callVars, clientVars, frame>>

\* runOneshotLLM settles and respond() sends over whatever socket is current;
\* send() drops the response while the client is not connected.
Respond(q) ==
    /\ work[q] = "working"
    /\ work' = [work EXCEPT ![q] = "done"]
    /\ frame' = IF IsConnected THEN [frame EXCEPT ![q] = ws] ELSE frame
    /\ UNCHANGED <<apiVars, callVars, clientVars>>

-----------------------------------------------------------------------------
CallStep(q) == CheckWorker(q) \/ Register(q) \/ WriteDone(q) \/ WriteFails(q) \/ ReceiveReply(q)

HandlerStep(c) ==
    \/ TakeSlot(c) \/ LeaveReadLoop(c) \/ ClearSlot(c) \/ FailPending(c)
    \/ SignalAnswer(c)
    \/ \E q \in Requests : SignalLost(c, q) \/ LookUpEntry(c, q)

Next ==
    \/ \E q \in Requests : CallStep(q) \/ TimeOut(q) \/ OnMessage(q) \/ Respond(q)
    \/ \E c \in Conns :
          \/ Upgrade(c) \/ HandlerStep(c)
          \/ Dial(c) \/ DialFails(c) \/ OnOpen(c) \/ Drops(c) \/ OnClose(c)
    \/ Reconnect

Spec == Init /\ [][Next]_vars

\* Goroutines and event loops run, blocking writes return, an LLM request of
\* the worker ends (it has a timeout of its own), a dial succeeds or fails,
\* close events arrive and the monitor's timer fires.  An end of a connection the other end has closed is
\* noticed.  Nothing is assumed of the deadline of a call: TimeOut has no
\* fairness, so that it cannot stand in for a reply that never comes.
FairSpec ==
    /\ Spec
    /\ \A q \in Requests : WF_vars(CallStep(q)) /\ WF_vars(OnMessage(q)) /\ WF_vars(Respond(q))
    /\ \A c \in Conns : /\ WF_vars(HandlerStep(c)) /\ WF_vars(OnClose(c))
                       /\ WF_vars(OnOpen(c) \/ DialFails(c))
    /\ \A c \in Conns : WF_vars(conn[c] \notin {"upgraded", "reading"} /\ Drops(c))
    /\ WF_vars(Reconnect)

-----------------------------------------------------------------------------
(* Properties *)

\* An entry is in the pending map only while its call is in progress, whatever
\* order the answer, the teardown, the failed write and the deadline come in:
\* the map does not grow.
NoAbandonedEntry ==
    \A q \in Requests : pending[q] # NoConn => call[q] \in {"writing", "waiting"}

\* A caller waits for a reply only while somebody will still give it one: its
\* entry stands on a connection that is not torn down yet, or a reader or a
\* teardown has taken the entry and is about to signal it.
NoStrandedCall ==
    \A q \in Requests : call[q] = "waiting" /\ reply[q] = <<>> =>
        \/ pending[q] = sentOn[q] /\ conn[sentOn[q]] # "gone"
        \/ \E c \in Conns : q \in losing[c] \/ held[c] = q

\* The pending map and the calls agree: it does not grow, and nobody waits for
\* an entry that no one will signal.
PendingMatchesCalls == NoAbandonedEntry /\ NoStrandedCall

\* A call whose request was written returns without its own deadline, through
\* reconnects, replies over another connection than the request's, replies
\* dropped by a client that took a stale close event for its own, and
\* teardowns that run after a newer connection took the slot.
CallsReturnPromptly ==
    \A q \in Requests : call[q] = "writing" ~> call[q] = "returned"

\* To its callers the link is a remote procedure call that answers each
\* request at most once, and only with the worker's response to it.
CallOutcome(q) ==
    IF call[q] \in {"start", "checked"} THEN "start"
    ELSE IF call[q] # "returned" THEN "asking"
    ELSE IF outcome[q] = "answer" THEN "answer" ELSE "failed"

outcomes == [q \in Requests |-> CallOutcome(q)]
servedRequests == {q \in Requests : work[q] = "done"}

RPC == INSTANCE OneshotRPC WITH
           Requests <- Requests, call <- outcomes, served <- servedRequests

ImplementsRPC == RPC!Spec
=============================================================================
