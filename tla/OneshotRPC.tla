----------------------------- MODULE OneshotRPC -----------------------------
(***************************************************************************)
(* What OneShotLLM promises its callers (internal/handlers/agent_ws.go):   *)
(* a call ends exactly once, in an answer only if the worker has served    *)
(* this very request, and the worker serves a request at most once.  How   *)
(* many connections come and go meanwhile is not visible here.             *)
(***************************************************************************)
CONSTANT Requests

VARIABLES
    call,       \* where each call stands
    served      \* requests the worker has produced a response for

Outcomes == {"answer", "failed"}

Init ==
    /\ call = [q \in Requests |-> "start"]
    /\ served = {}

\* A call is refused without a worker, or its request is on its way.
Ask(q) ==
    /\ call[q] = "start"
    /\ call' = [call EXCEPT ![q] = "asking"]
    /\ UNCHANGED served

\* The worker may serve a request whose caller has given up.
Serve(q) ==
    /\ call[q] # "start"
    /\ q \notin served
    /\ served' = served \cup {q}
    /\ UNCHANGED call

Settle(q) ==
    /\ call[q] \in {"start", "asking"}
    /\ \E o \in Outcomes :
          /\ o = "answer" => call[q] = "asking" /\ q \in served
          /\ call' = [call EXCEPT ![q] = o]
    /\ UNCHANGED served

Next == \E q \in Requests : Ask(q) \/ Serve(q) \/ Settle(q)

Spec == Init /\ [][Next]_<<call, served>>
=============================================================================
