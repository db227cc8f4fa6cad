------------------------- MODULE LaunchChain_proofs -------------------------
(***************************************************************************)
(* Proofs about LaunchChain, for any number of launches and any set of     *)
(* cancels.                                                                *)
(***************************************************************************)
EXTENDS LaunchChain, TLAPS

-----------------------------------------------------------------------------
(* The inductive invariant *)

(* In the chain, and its own promise not yet resolved.                     *)
Waiting(l) == pc[l] \in {"queued", "aborting", "bootstrap"}

(* Past the promise of the launch before.                                  *)
Underway(l) == pc[l] \in {"aborting", "bootstrap", "prompting", "idle"} \/ l \in resolved

(* Frames arrive in the order of their numbers.                            *)
ArriveInOrder ==
    \A l, m \in Launches : l < m /\ pc[l] = "unsent" => pc[m] = "unsent"

(* The chain's head covers every launch that waits, and so does the        *)
(* promise of a queued launch for those before it.                         *)
ChainCovers ==
    /\ chain # None => pc[chain] # "unsent"
    /\ \A l \in Launches : Waiting(l) => chain # None /\ l <= chain
    /\ \A l, m \in Launches :
          pc[m] = "queued" /\ Waiting(l) /\ l < m => prev[m] # None /\ l <= prev[m]

(* A launch goes on only when those before it have all settled.            *)
OneAtATime ==
    \A l, m \in Launches : Underway(m) /\ l < m => ~Waiting(l)

(* What has been resolved, registered, reported and aborted.               *)
Bookkeeping ==
    /\ \A l \in resolved : pc[l] \in {"prompting", "idle", "ended"}
    /\ active # None => pc[active] \in {"prompting", "idle"}
    /\ \A l \in Launches : pc[l] # "ended" => report[l] = 0
    /\ \A l \in Launches : pc[l] = "aborting" => target[l] # None
    /\ \A k \in Cancels : cancel[k] = "aborting" => target[k] # None

(* Before a launch registers, the sessions that still run are stuck ones   *)
(* and the one it is aborting.                                             *)
ClearedBeforeRegister ==
    \A l, m \in Launches :
        Running(l) /\ l \notin stuck =>
            /\ pc[m] # "bootstrap"
            /\ pc[m] = "aborting" => target[m] = l

ChainInv ==
    /\ TypeOK
    /\ ArriveInOrder
    /\ ChainCovers
    /\ OneAtATime
    /\ Bookkeeping
    /\ ClearedBeforeRegister
    /\ RunningIsTracked
    /\ NewerIsNotAborted

-----------------------------------------------------------------------------

\* The initial states satisfy the inductive invariant.
LEMMA InitEstablishes == Init => ChainInv
BY MaxLaunchesAssumption, CancelsAssumption
   DEF Init, ChainInv, TypeOK, Steps, Launches, None, ArriveInOrder, ChainCovers, OneAtATime,
       Bookkeeping, ClearedBeforeRegister, RunningIsTracked, NewerIsNotAborted, Waiting,
       Underway, Running

\* Every step keeps the inductive invariant.
LEMMA StepPreserves == ChainInv /\ [Next]_vars => ChainInv'
<1> SUFFICES ASSUME ChainInv, [Next]_vars PROVE ChainInv'
    OBVIOUS
<1> USE MaxLaunchesAssumption, CancelsAssumption
        DEF ChainInv, TypeOK, Steps, Launches, None
<1>1. ASSUME NEW l \in Launches, Arrive(l) PROVE ChainInv'
    BY <1>1 DEF Arrive, ArriveInOrder, ChainCovers, OneAtATime, Bookkeeping,
       ClearedBeforeRegister, RunningIsTracked, NewerIsNotAborted, Waiting, Underway, Running
<1>2. ASSUME NEW l \in Launches, Reject(l) PROVE ChainInv'
    BY <1>2 DEF Reject, Reported, ArriveInOrder, ChainCovers, OneAtATime, Bookkeeping,
       ClearedBeforeRegister, RunningIsTracked, NewerIsNotAborted, Waiting, Underway, Running
<1>3. ASSUME NEW l \in Launches, Proceed(l) PROVE ChainInv'
    <2>0. \A k \in Cancels : k # l
        OBVIOUS
    <2>1. TypeOK'
        BY <1>3 DEF Proceed
    <2>2. ArriveInOrder'
        BY <1>3 DEF Proceed, ArriveInOrder
    <2>3. ChainCovers'
        BY <1>3 DEF Proceed, ChainCovers, Waiting
    <2>4. OneAtATime'
        <3>1. ASSUME NEW k \in Launches, k < l PROVE ~Waiting(k)
            <4> SUFFICES ASSUME Waiting(k) PROVE FALSE
                OBVIOUS
            <4>1. prev[l] # None /\ k <= prev[l]
                BY <1>3, <3>1 DEF Proceed, ChainCovers, Waiting
            <4>2. prev[l] \in resolved /\ Underway(prev[l])
                BY <1>3, <4>1 DEF Proceed, MayProceed, Underway
            <4>3. CASE k = prev[l]
                BY <4>2, <4>3 DEF Waiting, Bookkeeping
            <4>4. CASE k # prev[l]
                BY <4>1, <4>2, <4>4 DEF OneAtATime, TypeOK
            <4> QED
                BY <4>3, <4>4
        <3>2. \A k \in Launches : Waiting(k)' => Waiting(k)
            BY <1>3 DEF Proceed, Waiting
        <3>3. \A k \in Launches : k # l /\ Underway(k)' => Underway(k)
            BY <1>3 DEF Proceed, Underway
        <3> QED
            BY <3>1, <3>2, <3>3 DEF OneAtATime
    <2>5. Bookkeeping'
        BY <1>3, <2>0 DEF Proceed, Bookkeeping
    <2>6. ClearedBeforeRegister'
        BY <1>3 DEF Proceed, RunningIsTracked, ClearedBeforeRegister, Running, Bookkeeping
    <2>7. RunningIsTracked'
        BY <1>3 DEF Proceed, RunningIsTracked, Running, ClearedBeforeRegister
    <2>8. NewerIsNotAborted'
        BY <1>3 DEF Proceed, Waiting, Underway, OneAtATime, Bookkeeping, MayProceed, NewerIsNotAborted
    <2> QED
        BY <2>1, <2>2, <2>3, <2>4, <2>5, <2>6, <2>7, <2>8
<1>4. ASSUME NEW l \in Launches, Aborted(l) PROVE ChainInv'
    <2>1. TypeOK'
        BY <1>4 DEF Aborted, AfterCancel, Bookkeeping
    <2>2. ArriveInOrder'
        BY <1>4 DEF Aborted, ArriveInOrder
    <2>3. ChainCovers'
        BY <1>4 DEF Aborted, ChainCovers, Waiting
    <2>4. OneAtATime'
        BY <1>4 DEF Aborted, OneAtATime, Waiting, Underway
    <2>5. Bookkeeping'
        BY <1>4 DEF Aborted, AfterCancel, Bookkeeping
    <2>6. ClearedBeforeRegister'
        BY <1>4 DEF Aborted, ClearedBeforeRegister, Running, Bookkeeping
    <2>7. RunningIsTracked'
        BY <1>4 DEF Aborted, AfterCancel, RunningIsTracked, Running, ClearedBeforeRegister
    <2>8. NewerIsNotAborted'
        BY <1>4 DEF Aborted, NewerIsNotAborted
    <2> QED
        BY <2>1, <2>2, <2>3, <2>4, <2>5, <2>6, <2>7, <2>8
<1>5. ASSUME NEW l \in Launches, Register(l) PROVE ChainInv'
    BY <1>5 DEF Register, ArriveInOrder, ChainCovers, OneAtATime, Bookkeeping,
       ClearedBeforeRegister, RunningIsTracked, NewerIsNotAborted, Waiting, Underway, Running
<1>6. ASSUME NEW l \in Launches, BootstrapFails(l) PROVE ChainInv'
    <2>1. TypeOK'
        BY <1>6 DEF BootstrapFails, Reported, ResolvedAfter, ChainAfter, Bookkeeping
    <2>2. ArriveInOrder'
        BY <1>6 DEF BootstrapFails, ArriveInOrder
    <2>3. ChainCovers'
        BY <1>6 DEF BootstrapFails, ChainAfter, OneAtATime, Underway, ChainCovers, Waiting
    <2>4. OneAtATime'
        BY <1>6 DEF BootstrapFails, ResolvedAfter, OneAtATime, Waiting, Underway
    <2>5. Bookkeeping'
        BY <1>6 DEF BootstrapFails, Reported, ResolvedAfter, Bookkeeping
    <2>6. ClearedBeforeRegister'
        BY <1>6 DEF BootstrapFails, ClearedBeforeRegister, Running, Bookkeeping
    <2>7. RunningIsTracked'
        BY <1>6 DEF BootstrapFails, RunningIsTracked, Running, ClearedBeforeRegister
    <2>8. NewerIsNotAborted'
        BY <1>6 DEF BootstrapFails, NewerIsNotAborted
    <2> QED
        BY <2>1, <2>2, <2>3, <2>4, <2>5, <2>6, <2>7, <2>8
<1>7. ASSUME NEW l \in Launches, PromptEnds(l) PROVE ChainInv'
    BY <1>7 DEF PromptEnds, ArriveInOrder, ChainCovers, OneAtATime, Bookkeeping,
       ClearedBeforeRegister, RunningIsTracked, NewerIsNotAborted, Waiting, Underway, Running
<1>8. ASSUME NEW l \in Launches, Finish(l) PROVE ChainInv'
    <2>0. report[l] = 0
        BY <1>8 DEF Finish, Bookkeeping
    <2>1. TypeOK'
        BY <1>8, <2>0 DEF Finish, AfterCancel, Reported, ResolvedAfter, ChainAfter
    <2>2. ArriveInOrder'
        BY <1>8 DEF Finish, ArriveInOrder
    <2>3. ChainCovers'
        BY <1>8 DEF Finish, ChainAfter, OneAtATime, Underway, ChainCovers, Waiting
    <2>4. OneAtATime'
        BY <1>8 DEF Finish, ResolvedAfter, OneAtATime, Waiting, Underway
    <2>5. Bookkeeping'
        BY <1>8 DEF Finish, AfterCancel, Reported, ResolvedAfter, Bookkeeping
    <2>6. ClearedBeforeRegister'
        BY <1>8 DEF Finish, ClearedBeforeRegister, Running, Bookkeeping
    <2>7. RunningIsTracked'
        BY <1>8 DEF Finish, AfterCancel, RunningIsTracked, Running, ClearedBeforeRegister
    <2>8. NewerIsNotAborted'
        BY <1>8 DEF Finish, NewerIsNotAborted
    <2> QED
        BY <2>1, <2>2, <2>3, <2>4, <2>5, <2>6, <2>7, <2>8
<1>9. ASSUME NEW k \in Cancels, Cancel(k) PROVE ChainInv'
    <2>0. k \notin Launches
        OBVIOUS
    <2>1. TypeOK'
        BY <1>9, <2>0 DEF Cancel
    <2>2. ArriveInOrder'
        BY <1>9, <2>0 DEF Cancel, ArriveInOrder
    <2>3. ChainCovers'
        BY <1>9, <2>0 DEF Cancel, ChainCovers, Waiting
    <2>4. OneAtATime'
        BY <1>9, <2>0 DEF Cancel, OneAtATime, Waiting, Underway
    <2>5. Bookkeeping'
        BY <1>9, <2>0 DEF Cancel, Bookkeeping
    <2>6. ClearedBeforeRegister'
        BY <1>9, <2>0 DEF Cancel, ClearedBeforeRegister, Running, Bookkeeping
    <2>7. RunningIsTracked'
        BY <1>9, <2>0 DEF Cancel, RunningIsTracked, Running, ClearedBeforeRegister
    <2>8. NewerIsNotAborted'
        BY <1>9, <2>0 DEF Cancel, NewerIsNotAborted
    <2> QED
        BY <2>1, <2>2, <2>3, <2>4, <2>5, <2>6, <2>7, <2>8
<1>10. ASSUME NEW k \in Cancels, CancelReturns(k) PROVE ChainInv'
    <2>0. k \notin Launches
        OBVIOUS
    <2>1. TypeOK'
        BY <1>10, <2>0 DEF CancelReturns, AfterCancel, Bookkeeping
    <2>2. ArriveInOrder'
        BY <1>10, <2>0 DEF CancelReturns, ArriveInOrder
    <2>3. ChainCovers'
        BY <1>10, <2>0 DEF CancelReturns, ChainCovers, Waiting
    <2>4. OneAtATime'
        BY <1>10, <2>0 DEF CancelReturns, OneAtATime, Waiting, Underway
    <2>5. Bookkeeping'
        BY <1>10, <2>0 DEF CancelReturns, AfterCancel, Bookkeeping
    <2>6. ClearedBeforeRegister'
        BY <1>10, <2>0 DEF CancelReturns, ClearedBeforeRegister, Running, Bookkeeping
    <2>7. RunningIsTracked'
        BY <1>10, <2>0 DEF CancelReturns, AfterCancel, RunningIsTracked, Running, ClearedBeforeRegister
    <2>8. NewerIsNotAborted'
        BY <1>10, <2>0 DEF CancelReturns, NewerIsNotAborted
    <2> QED
        BY <2>1, <2>2, <2>3, <2>4, <2>5, <2>6, <2>7, <2>8
<1>11. CASE UNCHANGED vars
    BY <1>11 DEF vars, ArriveInOrder, ChainCovers, OneAtATime, Bookkeeping,
       ClearedBeforeRegister, RunningIsTracked, NewerIsNotAborted, Waiting, Underway, Running
<1> QED
    BY <1>1, <1>2, <1>3, <1>4, <1>5, <1>6, <1>7, <1>8, <1>9, <1>10, <1>11 DEF Next, LaunchStep

-----------------------------------------------------------------------------
(* The inductive invariant holds throughout.                               *)
THEOREM Invariance == Spec => []ChainInv
BY InitEstablishes, StepPreserves, PTL DEF Spec

-----------------------------------------------------------------------------

(* Every variable of the launch chain stays in its set.                    *)
THEOREM TypeCorrect == Spec => []TypeOK
<1>1. ChainInv => TypeOK
    BY DEF ChainInv
<1> QED
    BY <1>1, Invariance, PTL

(* The sessions of an incident never run side by side, unless the SDK      *)
(* failed to abort one of them.                                            *)
THEOREM SessionsAreExclusive == Spec => []OneSessionRuns
<1>1. ChainInv => OneSessionRuns
    BY DEF ChainInv, RunningIsTracked, OneSessionRuns
<1> QED
    BY <1>1, Invariance, PTL

(* A running session is the one a launch or a cancel will find, unless the *)
(* SDK failed to abort it.                                                 *)
THEOREM RunningSessionsAreTracked == Spec => []RunningIsTracked
<1>1. ChainInv => RunningIsTracked
    BY DEF ChainInv
<1> QED
    BY <1>1, Invariance, PTL

(* No launch aborts the session of a newer one.                            *)
THEOREM ReplacementGoesForward == Spec => []NewerIsNotAborted
<1>1. ChainInv => NewerIsNotAborted
    BY DEF ChainInv
<1> QED
    BY <1>1, Invariance, PTL
=============================================================================
