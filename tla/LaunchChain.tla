---------------------------- MODULE LaunchChain ----------------------------
(***************************************************************************)
(* How the agent worker starts, replaces and cancels the sessions of one   *)
(* incident (agent-worker/src/orchestrator.ts, agent-runner.ts).  Sessions *)
(* of one incident share a working directory; different incidents share    *)
(* nothing here.                                                           *)
(*                                                                         *)
(* The worker is one event loop: an action runs from one await to the      *)
(* next.  Launches (new_incident and continue_incident frames) are         *)
(* numbered in the order they arrive; session.prompt and session.abort     *)
(* belong to the agent SDK, and abort() returns when the session is idle.  *)
(***************************************************************************)
EXTENDS Naturals

CONSTANTS
    MaxLaunches,    \* bound: launches that arrive in one behaviour
    Cancels         \* cancel_incident frames

ASSUME MaxLaunchesAssumption == MaxLaunches \in Nat

Launches == 1..MaxLaunches
None == 0                   \* no promise, no session

ASSUME CancelsAssumption == Cancels \cap Nat = {}

VARIABLES
    chain,      \* launchChain.get(incident): the newest launch's promise
    prev,       \* the promise each launch awaits
    resolved,   \* launches whose promise has been resolved
    active,     \* activeSessions.get(incident)
    pc,         \* where each launch stands
    target,     \* the session a launch or a cancel is aborting
    cancel,     \* where each cancel stands
    stuck,      \* sessions whose abort() has thrown
    report      \* how many final frames each launch has sent

vars == <<chain, prev, resolved, active, pc, target, cancel, stuck, report>>

Steps == {"unsent", "queued", "aborting", "bootstrap", "prompting", "idle", "ended"}

TypeOK ==
    /\ chain \in Launches \cup {None}
    /\ prev \in [Launches -> Launches \cup {None}]
    /\ resolved \subseteq Launches
    /\ active \in Launches \cup {None}
    /\ pc \in [Launches -> Steps]
    /\ target \in [Launches \cup Cancels -> Launches \cup {None}]
    /\ cancel \in [Cancels -> {"unsent", "aborting", "done"}]
    /\ stuck \subseteq Launches
    /\ report \in [Launches -> 0..1]

Init ==
    /\ chain = None
    /\ prev = [l \in Launches |-> None]
    /\ resolved = {}
    /\ active = None
    /\ pc = [l \in Launches |-> "unsent"]
    /\ target = [x \in Launches \cup Cancels |-> None]
    /\ cancel = [k \in Cancels |-> "unsent"]
    /\ stuck = {}
    /\ report = [l \in Launches |-> 0]

Running(l) == pc[l] = "prompting"

\* runWithResultHandling sends an error frame or a completed frame.
Reported(l) == [report EXCEPT ![l] = @ + 1]

-----------------------------------------------------------------------------
(* Launches *)

\* handleNewIncident, handleContinueIncident: enterLaunchChain.
Arrive(l) ==
    /\ pc[l] = "unsent"
    /\ \A m \in Launches : m < l => pc[m] # "unsent"
    /\ prev' = [prev EXCEPT ![l] = chain]
    /\ chain' = l
    /\ pc' = [pc EXCEPT ![l] = "queued"]
    /\ UNCHANGED <<resolved, active, target, cancel, stuck, report>>

\* A frame without LLM settings is answered at once and enters no chain.
Reject(l) ==
    /\ pc[l] = "unsent"
    /\ \A m \in Launches : m < l => pc[m] # "unsent"
    /\ pc' = [pc EXCEPT ![l] = "ended"]
    /\ report' = Reported(l)
    /\ UNCHANGED <<chain, prev, resolved, active, target, cancel, stuck>>

\* await prevLaunch
MayProceedUngated(l) == TRUE
MayProceed(l) == prev[l] = None \/ prev[l] \in resolved

\* abortInFlightSession up to its await; without a session there is none.
Proceed(l) ==
    /\ pc[l] = "queued"
    /\ MayProceed(l)
    /\ target' = [target EXCEPT ![l] = active]
    /\ pc' = [pc EXCEPT ![l] = IF active = None THEN "bootstrap" ELSE "aborting"]
    /\ UNCHANGED <<chain, prev, resolved, active, cancel, stuck, report>>

\* The slot after a cancel of session s: only if s is still in it.
AfterCancel(s) == IF active = s THEN None ELSE active

\* runner.cancel returns: the session is idle, or abort() threw and the error
\* was logged.
Aborted(l) ==
    /\ pc[l] = "aborting"
    /\ \/ /\ ~Running(target[l])
          /\ active' = AfterCancel(target[l])
          /\ UNCHANGED stuck
       \/ /\ stuck' = stuck \cup {target[l]}
          /\ UNCHANGED active
    /\ pc' = [pc EXCEPT ![l] = "bootstrap"]
    /\ UNCHANGED <<chain, prev, resolved, target, cancel, report>>

\* createAgentSession succeeded: the session is registered, its promise
\* resolved and its prompt begun before the next await.
Register(l) ==
    /\ pc[l] = "bootstrap"
    /\ active' = l
    /\ resolved' = resolved \cup {l}
    /\ pc' = [pc EXCEPT ![l] = "prompting"]
    /\ UNCHANGED <<chain, prev, target, cancel, stuck, report>>

\* The prompt has run to its end, or an abort reached it.
PromptEnds(l) ==
    /\ pc[l] = "prompting"
    /\ pc' = [pc EXCEPT ![l] = "idle"]
    /\ UNCHANGED <<chain, prev, resolved, active, target, cancel, stuck, report>>

\* launchChain after the finally block of l: deleted only if it is still l's.
ChainAfterUnchecked(l) == None
ChainAfter(l) == IF chain = l THEN None ELSE chain

\* The promises that are resolved once l is over, registered or not.
NotResolvedAfter(l) == resolved
ResolvedAfter(l) == resolved \cup {l}

\* runSession's finally, the final frame, the launch's own finally.
Finish(l) ==
    /\ pc[l] = "idle"
    /\ active' = AfterCancel(l)
    /\ report' = Reported(l)
    /\ resolved' = ResolvedAfter(l)
    /\ chain' = ChainAfter(l)
    /\ pc' = [pc EXCEPT ![l] = "ended"]
    /\ UNCHANGED <<prev, target, cancel, stuck>>

\* The bootstrap throws before the session is registered.
BootstrapFails(l) ==
    /\ pc[l] = "bootstrap"
    /\ report' = Reported(l)
    /\ resolved' = ResolvedAfter(l)
    /\ chain' = ChainAfter(l)
    /\ pc' = [pc EXCEPT ![l] = "ended"]
    /\ UNCHANGED <<prev, active, target, cancel, stuck>>

-----------------------------------------------------------------------------
(* Cancels: handleCancelIncident, outside the chain *)

Cancel(k) ==
    /\ cancel[k] = "unsent"
    /\ target' = [target EXCEPT ![k] = active]
    /\ cancel' = [cancel EXCEPT ![k] = IF active = None THEN "done" ELSE "aborting"]
    /\ UNCHANGED <<chain, prev, resolved, active, pc, stuck, report>>

CancelReturns(k) ==
    /\ cancel[k] = "aborting"
    /\ \/ /\ ~Running(target[k])
          /\ active' = AfterCancel(target[k])
          /\ UNCHANGED stuck
       \/ /\ stuck' = stuck \cup {target[k]}
          /\ UNCHANGED active
    /\ cancel' = [cancel EXCEPT ![k] = "done"]
    /\ UNCHANGED <<chain, prev, resolved, pc, target, report>>

-----------------------------------------------------------------------------
LaunchStep(l) ==
    \/ Proceed(l) \/ Aborted(l) \/ Register(l) \/ BootstrapFails(l)
    \/ PromptEnds(l) \/ Finish(l)

Next ==
    \/ \E l \in Launches : Arrive(l) \/ Reject(l) \/ LaunchStep(l)
    \/ \E k \in Cancels : Cancel(k) \/ CancelReturns(k)

Spec == Init /\ [][Next]_vars

\* The event loop runs every continuation; a prompt ends by itself or because
\* it was aborted.
FairSpec == Spec /\ \A l \in Launches : WF_vars(LaunchStep(l))

-----------------------------------------------------------------------------
(* Properties *)

\* The sessions of an incident never run side by side in its working directory,
\* however launches, bootstraps, endings and cancels overlap -- unless the SDK
\* failed to abort one of them, after which the next launch goes ahead anyway.
OneSessionRuns ==
    \A l, m \in Launches :
        Running(l) /\ Running(m) /\ l # m => l \in stuck \/ m \in stuck

\* A running session is the one a later launch or a cancel will find, unless
\* its abort has failed: neither the end of an older session nor a late cancel
\* of one removes it from the map.
RunningIsTracked ==
    \A l \in Launches : Running(l) /\ l \notin stuck => active = l

\* Replacement goes forward: no launch aborts the session of a newer one.
NewerIsNotAborted == \A l \in Launches : target[l] < l

\* Every launch comes to its end and sends a final frame for its run, so that
\* no run of the API waits on a launch that waits for another: a launch that
\* fails before it registers releases the ones queued behind it.
LaunchesReport == \A l \in Launches : pc[l] = "queued" ~> report[l] = 1
=============================================================================
