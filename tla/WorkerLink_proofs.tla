-------------------------- MODULE WorkerLink_proofs --------------------------
(***************************************************************************)
(* Proofs about WorkerLink, for every set of requests and any number of    *)
(* connections.                                                            *)
(***************************************************************************)
EXTENDS WorkerLink, SequenceTheorems, TLAPS

-----------------------------------------------------------------------------
(* The inductive invariant *)

(* h.workerConn is a connection whose teardown has not reached it.         *)
SlotIsLive == slot # NoConn => conn[slot] \in {"reading", "leaving"}

(* A teardown takes entries at its end only, so none is forgotten.         *)
TornDownOnce == \A c \in Conns : losing[c] # {} => conn[c] = "gone"

(* From its registration on, a call without a reply has somebody who will  *)
(* give it one.                                                            *)
CallsAreCovered ==
    \A q \in Requests : call[q] \in {"writing", "waiting"} /\ reply[q] = <<>> =>
        \/ /\ pending[q] # NoConn
           /\ pending[q] = sentOn[q]
           /\ conn[sentOn[q]] # "gone"
        \/ \E c \in Conns : q \in losing[c] \/ held[c] = q

(* Answers, on their way and delivered, are the worker's.                  *)
AnswersAreServed ==
    /\ \A q \in Requests : frame[q] # NoConn => work[q] = "done"
    /\ \A c \in Conns : held[c] # Nobody => work[held[c]] = "done"
    /\ \A q \in Requests : reply[q] # <<>> /\ Head(reply[q]) = "answer" => work[q] = "done"

(* The worker sees only what was written.                                  *)
WorkIsSent ==
    \A q \in Requests : work[q] # "unsent" => call[q] \in {"waiting", "returned"}

LinkInv ==
    /\ TypeOK
    /\ SlotIsLive
    /\ TornDownOnce
    /\ NoAbandonedEntry
    /\ CallsAreCovered
    /\ AnswersAreServed
    /\ WorkIsSent

-----------------------------------------------------------------------------
(* The reply channel *)

(* A send leaves the channel as it is or puts its message into an empty    *)
(* one.                                                                    *)
LEMMA OfferedFacts ==
    ASSUME NEW q \in Requests, NEW m \in Messages,
           reply[q] \in Seq(Messages), Len(reply[q]) <= ReplyCapacity
    PROVE  /\ Offered(q, m) \in Seq(Messages)
           /\ Len(Offered(q, m)) <= ReplyCapacity
           /\ \/ Offered(q, m) = reply[q] /\ (call[q] = "returned" \/ reply[q] # <<>>)
              \/ reply[q] = <<>> /\ Offered(q, m) # <<>> /\ Head(Offered(q, m)) = m
<1>1. CASE call[q] # "returned" /\ Len(reply[q]) < ReplyCapacity
    <2>1. Len(reply[q]) = 0
        BY <1>1, LenProperties DEF ReplyCapacity
    <2>2. reply[q] = <<>>
        BY <2>1, EmptySeq
    <2>3. Offered(q, m) = Append(reply[q], m)
        BY <1>1 DEF Offered
    <2> QED
        BY <2>1, <2>2, <2>3, AppendProperties, HeadTailAppend DEF ReplyCapacity
<1>2. CASE ~(call[q] # "returned" /\ Len(reply[q]) < ReplyCapacity)
    <2>1. Offered(q, m) = reply[q]
        BY <1>2 DEF Offered
    <2>2. call[q] = "returned" \/ reply[q] # <<>>
        BY <1>2, EmptySeq DEF ReplyCapacity
    <2> QED
        BY <2>1, <2>2
<1> QED
    BY <1>1, <1>2

(* The channel is empty after a receive.                                   *)
LEMMA ReceivedFacts ==
    ASSUME NEW q \in Requests, reply[q] \in Seq(Messages), Len(reply[q]) <= ReplyCapacity,
           reply[q] # <<>>
    PROVE  Head(reply[q]) \in Messages /\ Tail(reply[q]) = <<>>
<1>1. Len(reply[q]) = 1
    <2>1. Len(reply[q]) \in Nat /\ Len(reply[q]) # 0
        BY EmptySeq
    <2>2. Len(reply[q]) <= 1
        BY DEF ReplyCapacity
    <2> DEFINE n == Len(reply[q])
    <2> HIDE DEF n
    <2>3. n \in Nat /\ n # 0 /\ n <= 1
        BY <2>1, <2>2 DEF n
    <2>4. n = 1
        BY <2>3
    <2> QED
        BY <2>4 DEF n
<1>2. Tail(reply[q]) \in Seq(Messages) /\ Len(Tail(reply[q])) = 0
    BY <1>1, HeadTailProperties
<1> QED
    BY <1>2, EmptySeq, HeadTailProperties

-----------------------------------------------------------------------------
(* The invariant holds *)

\* The initial states satisfy the inductive invariant.
LEMMA InitEstablishes == Init => LinkInv
<1> SUFFICES ASSUME Init PROVE LinkInv
    OBVIOUS
<1>1. TypeOK
    <2>1. <<>> \in Seq(Messages) /\ Len(<<>>) <= ReplyCapacity
        BY EmptySeq DEF ReplyCapacity
    <2> QED
        BY <2>1 DEF Init, TypeOK, Conns, NoConn, ConnStates, SockStates, CallStates, WorkStates
<1>2. SlotIsLive /\ TornDownOnce /\ NoAbandonedEntry /\ CallsAreCovered /\ AnswersAreServed
      /\ WorkIsSent
    BY DEF Init, SlotIsLive, TornDownOnce, NoAbandonedEntry, CallsAreCovered,
       AnswersAreServed, WorkIsSent
<1> QED
    BY <1>1, <1>2 DEF LinkInv

\* Every step keeps the inductive invariant.
LEMMA StepPreserves == LinkInv /\ [Next]_vars => LinkInv'
<1> SUFFICES ASSUME LinkInv, [Next]_vars PROVE LinkInv'
    OBVIOUS
<1> USE MaxConnsAssumption, NobodyAssumption
<1>1. ASSUME NEW c \in Conns, Upgrade(c) PROVE LinkInv'
    <2>1. TypeOK'
        BY <1>1
           DEF LinkInv, Upgrade, TypeOK, apiVars, callVars, clientVars, workVars,
               Conns, NoConn, ConnStates, SockStates, CallStates, WorkStates
    <2>2. SlotIsLive'
        BY <1>1
           DEF LinkInv, Upgrade, TypeOK, SlotIsLive, apiVars, callVars,
               clientVars, workVars, Conns, NoConn
    <2>3. TornDownOnce'
        BY <1>1
           DEF LinkInv, Upgrade, TypeOK, TornDownOnce, apiVars, callVars,
               clientVars, workVars, Conns, NoConn
    <2>4. NoAbandonedEntry'
        BY <1>1
           DEF LinkInv, Upgrade, TypeOK, NoAbandonedEntry, apiVars, callVars,
               clientVars, workVars, Conns, NoConn
    <2>5. CallsAreCovered'
        BY <1>1
           DEF LinkInv, Upgrade, TypeOK, SlotIsLive, TornDownOnce,
               CallsAreCovered, apiVars, callVars, clientVars, workVars, Conns,
               NoConn
    <2>6. AnswersAreServed'
        BY <1>1
           DEF LinkInv, Upgrade, TypeOK, WorkIsSent, AnswersAreServed, apiVars,
               callVars, clientVars, workVars, Conns, NoConn
    <2>7. WorkIsSent'
        BY <1>1
           DEF LinkInv, Upgrade, TypeOK, WorkIsSent, apiVars, callVars,
               clientVars, workVars, Conns, NoConn
    <2> QED
        BY <2>1, <2>2, <2>3, <2>4, <2>5, <2>6, <2>7 DEF LinkInv
<1>2. ASSUME NEW c \in Conns, TakeSlot(c) PROVE LinkInv'
    <2>1. TypeOK'
        BY <1>2
           DEF LinkInv, TakeSlot, TypeOK, apiVars, callVars, clientVars, workVars,
               Conns, NoConn, ConnStates, SockStates, CallStates, WorkStates
    <2>2. SlotIsLive'
        BY <1>2
           DEF LinkInv, TakeSlot, TypeOK, SlotIsLive, apiVars, callVars,
               clientVars, workVars, Conns, NoConn
    <2>3. TornDownOnce'
        BY <1>2
           DEF LinkInv, TakeSlot, TypeOK, TornDownOnce, apiVars, callVars,
               clientVars, workVars, Conns, NoConn
    <2>4. NoAbandonedEntry'
        BY <1>2
           DEF LinkInv, TakeSlot, TypeOK, NoAbandonedEntry, apiVars, callVars,
               clientVars, workVars, Conns, NoConn
    <2>5. CallsAreCovered'
        BY <1>2
           DEF LinkInv, TakeSlot, TypeOK, SlotIsLive, TornDownOnce,
               CallsAreCovered, apiVars, callVars, clientVars, workVars, Conns,
               NoConn
    <2>6. AnswersAreServed'
        BY <1>2
           DEF LinkInv, TakeSlot, TypeOK, WorkIsSent, AnswersAreServed, apiVars,
               callVars, clientVars, workVars, Conns, NoConn
    <2>7. WorkIsSent'
        BY <1>2
           DEF LinkInv, TakeSlot, TypeOK, WorkIsSent, apiVars, callVars,
               clientVars, workVars, Conns, NoConn
    <2> QED
        BY <2>1, <2>2, <2>3, <2>4, <2>5, <2>6, <2>7 DEF LinkInv
<1>3. ASSUME NEW c \in Conns, LeaveReadLoop(c) PROVE LinkInv'
    <2>1. TypeOK'
        BY <1>3
           DEF LinkInv, LeaveReadLoop, TypeOK, apiVars, callVars, clientVars,
               workVars, Conns, NoConn, ConnStates, SockStates, CallStates,
               WorkStates
    <2>2. SlotIsLive'
        BY <1>3
           DEF LinkInv, LeaveReadLoop, TypeOK, SlotIsLive, apiVars, callVars,
               clientVars, workVars, Conns, NoConn
    <2>3. TornDownOnce'
        BY <1>3
           DEF LinkInv, LeaveReadLoop, TypeOK, TornDownOnce, apiVars, callVars,
               clientVars, workVars, Conns, NoConn
    <2>4. NoAbandonedEntry'
        BY <1>3
           DEF LinkInv, LeaveReadLoop, TypeOK, NoAbandonedEntry, apiVars,
               callVars, clientVars, workVars, Conns, NoConn
    <2>5. CallsAreCovered'
        BY <1>3
           DEF LinkInv, LeaveReadLoop, TypeOK, SlotIsLive, TornDownOnce,
               CallsAreCovered, apiVars, callVars, clientVars, workVars, Conns,
               NoConn
    <2>6. AnswersAreServed'
        BY <1>3
           DEF LinkInv, LeaveReadLoop, TypeOK, WorkIsSent, AnswersAreServed,
               apiVars, callVars, clientVars, workVars, Conns, NoConn
    <2>7. WorkIsSent'
        BY <1>3
           DEF LinkInv, LeaveReadLoop, TypeOK, WorkIsSent, apiVars, callVars,
               clientVars, workVars, Conns, NoConn
    <2> QED
        BY <2>1, <2>2, <2>3, <2>4, <2>5, <2>6, <2>7 DEF LinkInv
<1>4. ASSUME NEW c \in Conns, ClearSlot(c) PROVE LinkInv'
    <2>1. TypeOK'
        BY <1>4
           DEF LinkInv, ClearSlot, TypeOK, apiVars, callVars, clientVars,
               workVars, Conns, NoConn, ConnStates, SockStates, CallStates,
               WorkStates
    <2>2. SlotIsLive'
        BY <1>4
           DEF LinkInv, ClearSlot, TypeOK, SlotIsLive, apiVars, callVars,
               clientVars, workVars, Conns, NoConn
    <2>3. TornDownOnce'
        BY <1>4
           DEF LinkInv, ClearSlot, TypeOK, TornDownOnce, apiVars, callVars,
               clientVars, workVars, Conns, NoConn
    <2>4. NoAbandonedEntry'
        BY <1>4
           DEF LinkInv, ClearSlot, TypeOK, NoAbandonedEntry, apiVars, callVars,
               clientVars, workVars, Conns, NoConn
    <2>5. CallsAreCovered'
        BY <1>4
           DEF LinkInv, ClearSlot, TypeOK, SlotIsLive, TornDownOnce,
               CallsAreCovered, apiVars, callVars, clientVars, workVars, Conns,
               NoConn
    <2>6. AnswersAreServed'
        BY <1>4
           DEF LinkInv, ClearSlot, TypeOK, WorkIsSent, AnswersAreServed, apiVars,
               callVars, clientVars, workVars, Conns, NoConn
    <2>7. WorkIsSent'
        BY <1>4
           DEF LinkInv, ClearSlot, TypeOK, WorkIsSent, apiVars, callVars,
               clientVars, workVars, Conns, NoConn
    <2> QED
        BY <2>1, <2>2, <2>3, <2>4, <2>5, <2>6, <2>7 DEF LinkInv
<1>5. ASSUME NEW c \in Conns, FailPending(c) PROVE LinkInv'
    <2>1. TypeOK'
        BY <1>5
           DEF LinkInv, FailPending, Lost, TypeOK, apiVars, callVars, clientVars,
               workVars, Conns, NoConn, ConnStates, SockStates, CallStates,
               WorkStates
    <2>2. SlotIsLive'
        BY <1>5
           DEF LinkInv, FailPending, Lost, TypeOK, SlotIsLive, apiVars, callVars,
               clientVars, workVars, Conns, NoConn
    <2>3. TornDownOnce'
        BY <1>5
           DEF LinkInv, FailPending, Lost, TypeOK, TornDownOnce, apiVars,
               callVars, clientVars, workVars, Conns, NoConn
    <2>4. NoAbandonedEntry'
        BY <1>5
           DEF LinkInv, FailPending, Lost, TypeOK, NoAbandonedEntry, apiVars,
               callVars, clientVars, workVars, Conns, NoConn
    <2>5. CallsAreCovered'
        <3>1. UNCHANGED <<call, reply, held, sentOn>>
            BY <1>5 DEF FailPending, callVars
        <3>2. ASSUME NEW q \in Requests, pending[q] # NoConn, pending[q] = sentOn[q],
                     conn[sentOn[q]] # "gone"
              PROVE  \/ q \in losing'[c]
                     \/ /\ pending'[q] # NoConn
                        /\ pending'[q] = sentOn'[q]
                        /\ conn'[sentOn'[q]] # "gone"
            <4>1. CASE q \in Lost(c)
                BY <1>5, <4>1 DEF LinkInv, FailPending, TypeOK
            <4>2. CASE q \notin Lost(c)
                <5>1. pending'[q] = pending[q] /\ sentOn[q] # c
                    BY <1>5, <3>2, <4>2 DEF FailPending, Lost
                <5>2. sentOn[q] \in Conns /\ conn'[sentOn[q]] = conn[sentOn[q]]
                    BY <1>5, <3>2, <5>1 DEF LinkInv, FailPending, TypeOK
                <5> QED
                    BY <3>1, <3>2, <5>1, <5>2
            <4> QED
                BY <4>1, <4>2
        <3>3. \A d \in Conns : losing[d] \subseteq losing'[d]
            BY <1>5 DEF LinkInv, FailPending, Lost, TypeOK, TornDownOnce
        <3> QED
            BY <3>1, <3>2, <3>3 DEF LinkInv, CallsAreCovered
    <2>6. AnswersAreServed'
        BY <1>5
           DEF LinkInv, FailPending, Lost, TypeOK, WorkIsSent, AnswersAreServed,
               apiVars, callVars, clientVars, workVars, Conns, NoConn
    <2>7. WorkIsSent'
        BY <1>5
           DEF LinkInv, FailPending, Lost, TypeOK, WorkIsSent, apiVars, callVars,
               clientVars, workVars, Conns, NoConn
    <2> QED
        BY <2>1, <2>2, <2>3, <2>4, <2>5, <2>6, <2>7 DEF LinkInv
<1>6. ASSUME NEW c \in Conns, NEW q \in Requests, SignalLost(c, q) PROVE LinkInv'
    <2> "lost" \in Messages
        BY DEF Messages
    <2> reply[q] \in Seq(Messages) /\ Len(reply[q]) <= ReplyCapacity
        BY DEF LinkInv, TypeOK
    <2>0. /\ Offered(q, "lost") \in Seq(Messages)
          /\ Len(Offered(q, "lost")) <= ReplyCapacity
          /\ \/ Offered(q, "lost") = reply[q] /\ (call[q] = "returned" \/ reply[q] # <<>>)
             \/ reply[q] = <<>> /\ Offered(q, "lost") # <<>> /\ Head(Offered(q, "lost")) = "lost"
        BY OfferedFacts
    <2>1. TypeOK'
        BY <1>6, <2>0
           DEF LinkInv, SignalLost, TypeOK, apiVars, callVars, clientVars,
               workVars, Conns, NoConn, ConnStates, SockStates, CallStates,
               WorkStates
    <2>2. SlotIsLive'
        BY <1>6, <2>0
           DEF LinkInv, SignalLost, TypeOK, SlotIsLive, apiVars, callVars,
               clientVars, workVars, Conns, NoConn
    <2>3. TornDownOnce'
        BY <1>6, <2>0
           DEF LinkInv, SignalLost, TypeOK, TornDownOnce, apiVars, callVars,
               clientVars, workVars, Conns, NoConn
    <2>4. NoAbandonedEntry'
        BY <1>6, <2>0
           DEF LinkInv, SignalLost, TypeOK, NoAbandonedEntry, apiVars, callVars,
               clientVars, workVars, Conns, NoConn
    <2>5. CallsAreCovered'
        BY <1>6, <2>0
           DEF LinkInv, SignalLost, TypeOK, SlotIsLive, TornDownOnce,
               CallsAreCovered, apiVars, callVars, clientVars, workVars, Conns,
               NoConn
    <2>6. AnswersAreServed'
        BY <1>6, <2>0
           DEF LinkInv, SignalLost, TypeOK, WorkIsSent, AnswersAreServed, apiVars,
               callVars, clientVars, workVars, Conns, NoConn
    <2>7. WorkIsSent'
        BY <1>6, <2>0
           DEF LinkInv, SignalLost, TypeOK, WorkIsSent, apiVars, callVars,
               clientVars, workVars, Conns, NoConn
    <2> QED
        BY <2>1, <2>2, <2>3, <2>4, <2>5, <2>6, <2>7 DEF LinkInv
<1>7. ASSUME NEW c \in Conns, NEW q \in Requests, LookUpEntry(c, q) PROVE LinkInv'
    <2>1. TypeOK'
        BY <1>7
           DEF LinkInv, LookUpEntry, EntryFor, TypeOK, apiVars, callVars,
               clientVars, workVars, Conns, NoConn, ConnStates, SockStates,
               CallStates, WorkStates
    <2>2. SlotIsLive'
        BY <1>7
           DEF LinkInv, LookUpEntry, EntryFor, TypeOK, SlotIsLive, apiVars,
               callVars, clientVars, workVars, Conns, NoConn
    <2>3. TornDownOnce'
        BY <1>7
           DEF LinkInv, LookUpEntry, EntryFor, TypeOK, TornDownOnce, apiVars,
               callVars, clientVars, workVars, Conns, NoConn
    <2>4. NoAbandonedEntry'
        BY <1>7
           DEF LinkInv, LookUpEntry, EntryFor, TypeOK, NoAbandonedEntry, apiVars,
               callVars, clientVars, workVars, Conns, NoConn
    <2>5. CallsAreCovered'
        <3>1. UNCHANGED <<call, reply, pending, sentOn, conn, losing>>
            BY <1>7 DEF LookUpEntry, callVars
        <3>2. ASSUME NEW d \in Conns, NEW r \in Requests, held[d] = r PROVE held'[d] = r
            <4>1. d # c
                BY <1>7, <3>2, NobodyAssumption DEF LookUpEntry
            <4> QED
                BY <1>7, <3>2, <4>1 DEF LookUpEntry
        <3> QED
            BY <3>1, <3>2 DEF LinkInv, CallsAreCovered
    <2>6. AnswersAreServed'
        BY <1>7
           DEF LinkInv, LookUpEntry, EntryFor, TypeOK, WorkIsSent,
               AnswersAreServed, apiVars, callVars, clientVars, workVars, Conns,
               NoConn
    <2>7. WorkIsSent'
        BY <1>7
           DEF LinkInv, LookUpEntry, EntryFor, TypeOK, WorkIsSent, apiVars,
               callVars, clientVars, workVars, Conns, NoConn
    <2> QED
        BY <2>1, <2>2, <2>3, <2>4, <2>5, <2>6, <2>7 DEF LinkInv
<1>8. ASSUME NEW c \in Conns, SignalAnswer(c) PROVE LinkInv'
    <2> DEFINE q == held[c]
    <2> "answer" \in Messages
        BY DEF Messages
    <2> TypeOK
        BY DEF LinkInv
    <2> q \in Requests
        BY <1>8 DEF SignalAnswer, TypeOK
    <2> HIDE DEF q
    <2> reply[q] \in Seq(Messages) /\ Len(reply[q]) <= ReplyCapacity
        BY DEF TypeOK
    <2>0. /\ Offered(q, "answer") \in Seq(Messages)
          /\ Len(Offered(q, "answer")) <= ReplyCapacity
          /\ \/ Offered(q, "answer") = reply[q] /\ (call[q] = "returned" \/ reply[q] # <<>>)
             \/ reply[q] = <<>> /\ Offered(q, "answer") # <<>> /\ Head(Offered(q, "answer")) = "answer"
        BY OfferedFacts
    <2> USE DEF q
    <2>1. TypeOK'
        BY <1>8, <2>0
           DEF LinkInv, SignalAnswer, TypeOK, apiVars, callVars, clientVars,
               workVars, Conns, NoConn, ConnStates, SockStates, CallStates,
               WorkStates
    <2>2. SlotIsLive'
        BY <1>8, <2>0
           DEF LinkInv, SignalAnswer, TypeOK, SlotIsLive, apiVars, callVars,
               clientVars, workVars, Conns, NoConn
    <2>3. TornDownOnce'
        BY <1>8, <2>0
           DEF LinkInv, SignalAnswer, TypeOK, TornDownOnce, apiVars, callVars,
               clientVars, workVars, Conns, NoConn
    <2>4. NoAbandonedEntry'
        BY <1>8, <2>0
           DEF LinkInv, SignalAnswer, TypeOK, NoAbandonedEntry, apiVars, callVars,
               clientVars, workVars, Conns, NoConn
    <2>5. CallsAreCovered'
        BY <1>8, <2>0
           DEF LinkInv, SignalAnswer, TypeOK, SlotIsLive, TornDownOnce,
               CallsAreCovered, apiVars, callVars, clientVars, workVars, Conns,
               NoConn
    <2>6. AnswersAreServed'
        BY <1>8, <2>0
           DEF LinkInv, SignalAnswer, TypeOK, WorkIsSent, AnswersAreServed,
               apiVars, callVars, clientVars, workVars, Conns, NoConn
    <2>7. WorkIsSent'
        BY <1>8, <2>0
           DEF LinkInv, SignalAnswer, TypeOK, WorkIsSent, apiVars, callVars,
               clientVars, workVars, Conns, NoConn
    <2> QED
        BY <2>1, <2>2, <2>3, <2>4, <2>5, <2>6, <2>7 DEF LinkInv
<1>9. ASSUME NEW q \in Requests, CheckWorker(q) PROVE LinkInv'
    <2>1. TypeOK'
        <3>1. call'[q] \in CallStates /\ outcome'[q] \in Messages \cup {"none", "timeout", "refused"}
            BY <1>9 DEF LinkInv, TypeOK, CheckWorker, Returns, CallStates
        <3>2. /\ call' = [call EXCEPT ![q] = call'[q]]
              /\ outcome' = [outcome EXCEPT ![q] = outcome'[q]]
            BY <1>9 DEF LinkInv, TypeOK, CheckWorker, Returns, CallStates
        <3> QED
            BY <1>9, <3>1, <3>2
               DEF LinkInv, CheckWorker, TypeOK, apiVars, clientVars, workVars
    <2>2. SlotIsLive'
        BY <1>9
           DEF LinkInv, CheckWorker, Returns, TypeOK, SlotIsLive, apiVars,
               callVars, clientVars, workVars, Conns, NoConn
    <2>3. TornDownOnce'
        BY <1>9
           DEF LinkInv, CheckWorker, Returns, TypeOK, TornDownOnce, apiVars,
               callVars, clientVars, workVars, Conns, NoConn
    <2>4. NoAbandonedEntry'
        BY <1>9
           DEF LinkInv, CheckWorker, Returns, TypeOK, NoAbandonedEntry, apiVars,
               callVars, clientVars, workVars, Conns, NoConn
    <2>5. CallsAreCovered'
        <3>1. UNCHANGED <<held, reply, pending, sentOn, conn, losing>>
            BY <1>9 DEF CheckWorker, apiVars
        <3>2. \A r \in Requests : call'[r] \in {"writing", "waiting"} => call[r] = call'[r]
            BY <1>9 DEF CheckWorker, Returns, LinkInv, TypeOK
        <3> QED
            BY <3>1, <3>2 DEF LinkInv, CallsAreCovered
    <2>6. AnswersAreServed'
        BY <1>9
           DEF LinkInv, CheckWorker, Returns, TypeOK, WorkIsSent,
               AnswersAreServed, apiVars, callVars, clientVars, workVars, Conns,
               NoConn
    <2>7. WorkIsSent'
        BY <1>9
           DEF LinkInv, CheckWorker, Returns, TypeOK, WorkIsSent, apiVars,
               callVars, clientVars, workVars, Conns, NoConn
    <2> QED
        BY <2>1, <2>2, <2>3, <2>4, <2>5, <2>6, <2>7 DEF LinkInv
<1>10. ASSUME NEW q \in Requests, Register(q) PROVE LinkInv'
    <2>1. TypeOK'
        <3>1. CASE slot = NoConn
            <4>1. /\ Returns(q, "refused")
                  /\ UNCHANGED <<mu, pending, sentOn, slot, conn, held, losing, reply,
                                 clientVars, workVars>>
                BY <1>10, <3>1 DEF Register
            <4>2. call' \in [Requests -> CallStates] /\ outcome' = [outcome EXCEPT ![q] = "refused"]
                BY <4>1 DEF LinkInv, TypeOK, Returns, CallStates
            <4> QED
                BY <4>1, <4>2 DEF LinkInv, TypeOK, clientVars, workVars
        <3>2. CASE slot # NoConn
            <4>1. /\ mu' = q
                  /\ pending' = [pending EXCEPT ![q] = slot]
                  /\ sentOn' = [sentOn EXCEPT ![q] = slot]
                  /\ call' = [call EXCEPT ![q] = "writing"]
                  /\ UNCHANGED <<slot, conn, held, losing, reply, outcome, clientVars, workVars>>
                BY <1>10, <3>2 DEF Register
            <4>2. slot \in Conns /\ "writing" \in CallStates
                BY <3>2 DEF LinkInv, TypeOK, CallStates
            <4>3. /\ pending' \in [Requests -> Conns \cup {NoConn}]
                  /\ sentOn' \in [Requests -> Conns \cup {NoConn}]
                  /\ call' \in [Requests -> CallStates]
                BY <4>1, <4>2 DEF LinkInv, TypeOK
            <4> QED
                BY <4>1, <4>3 DEF LinkInv, TypeOK, clientVars, workVars
        <3> QED
            BY <3>1, <3>2
    <2>2. SlotIsLive'
        BY <1>10
           DEF LinkInv, Register, Returns, TypeOK, SlotIsLive, apiVars, callVars,
               clientVars, workVars, Conns, NoConn
    <2>3. TornDownOnce'
        BY <1>10
           DEF LinkInv, Register, Returns, TypeOK, TornDownOnce, apiVars,
               callVars, clientVars, workVars, Conns, NoConn
    <2>4. NoAbandonedEntry'
        BY <1>10
           DEF LinkInv, Register, Returns, TypeOK, NoAbandonedEntry, apiVars,
               callVars, clientVars, workVars, Conns, NoConn
    <2>5. CallsAreCovered'
        <3>1. CASE slot = NoConn
            BY <1>10, <3>1 DEF LinkInv, Register, Returns, TypeOK, CallsAreCovered
        <3>2. CASE slot # NoConn
            <4>1. conn[slot] # "gone"
                BY <3>2 DEF LinkInv, SlotIsLive
            <4>2. /\ pending' = [pending EXCEPT ![q] = slot]
                  /\ sentOn' = [sentOn EXCEPT ![q] = slot]
                  /\ call' = [call EXCEPT ![q] = "writing"]
                  /\ UNCHANGED <<conn, held, losing, reply>>
                BY <1>10, <3>2 DEF Register
            <4> QED
                BY <3>2, <4>1, <4>2 DEF LinkInv, TypeOK, CallsAreCovered
        <3> QED
            BY <3>1, <3>2
    <2>6. AnswersAreServed'
        BY <1>10
           DEF LinkInv, Register, Returns, TypeOK, WorkIsSent, AnswersAreServed,
               apiVars, callVars, clientVars, workVars, Conns, NoConn
    <2>7. WorkIsSent'
        BY <1>10
           DEF LinkInv, Register, Returns, TypeOK, WorkIsSent, apiVars, callVars,
               clientVars, workVars, Conns, NoConn
    <2> QED
        BY <2>1, <2>2, <2>3, <2>4, <2>5, <2>6, <2>7 DEF LinkInv
<1>11. ASSUME NEW q \in Requests, WriteDone(q) PROVE LinkInv'
    <2>1. TypeOK'
        BY <1>11
           DEF LinkInv, WriteDone, TypeOK, apiVars, callVars, clientVars,
               workVars, Conns, NoConn, ConnStates, SockStates, CallStates,
               WorkStates
    <2>2. SlotIsLive'
        BY <1>11
           DEF LinkInv, WriteDone, TypeOK, SlotIsLive, apiVars, callVars,
               clientVars, workVars, Conns, NoConn
    <2>3. TornDownOnce'
        BY <1>11
           DEF LinkInv, WriteDone, TypeOK, TornDownOnce, apiVars, callVars,
               clientVars, workVars, Conns, NoConn
    <2>4. NoAbandonedEntry'
        BY <1>11
           DEF LinkInv, WriteDone, TypeOK, NoAbandonedEntry, apiVars, callVars,
               clientVars, workVars, Conns, NoConn
    <2>5. CallsAreCovered'
        BY <1>11
           DEF LinkInv, WriteDone, TypeOK, SlotIsLive, TornDownOnce,
               CallsAreCovered, apiVars, callVars, clientVars, workVars, Conns,
               NoConn
    <2>6. AnswersAreServed'
        <3>1. work[q] = "unsent"
            BY <1>11 DEF LinkInv, WriteDone, WorkIsSent
        <3>2. frame[q] = NoConn /\ \A c \in Conns : held[c] # q
            BY <3>1, NobodyAssumption DEF LinkInv, AnswersAreServed
        <3>3. ~(reply[q] # <<>> /\ Head(reply[q]) = "answer")
            BY <3>1 DEF LinkInv, AnswersAreServed
        <3> QED
            BY <1>11, <3>2, <3>3 DEF LinkInv, WriteDone, TypeOK, AnswersAreServed
    <2>7. WorkIsSent'
        BY <1>11
           DEF LinkInv, WriteDone, TypeOK, WorkIsSent, apiVars, callVars,
               clientVars, workVars, Conns, NoConn
    <2> QED
        BY <2>1, <2>2, <2>3, <2>4, <2>5, <2>6, <2>7 DEF LinkInv
<1>12. ASSUME NEW q \in Requests, WriteFails(q) PROVE LinkInv'
    <2>1. TypeOK'
        BY <1>12
           DEF LinkInv, WriteFails, Returns, Forgotten, TypeOK, clientVars, workVars,
               NoConn, Messages, CallStates
    <2>2. SlotIsLive'
        BY <1>12
           DEF LinkInv, WriteFails, Returns, Forgotten, TypeOK, SlotIsLive,
               apiVars, callVars, clientVars, workVars, Conns, NoConn
    <2>3. TornDownOnce'
        BY <1>12
           DEF LinkInv, WriteFails, Returns, Forgotten, TypeOK, TornDownOnce,
               apiVars, callVars, clientVars, workVars, Conns, NoConn
    <2>4. NoAbandonedEntry'
        BY <1>12
           DEF LinkInv, WriteFails, Returns, Forgotten, TypeOK, NoAbandonedEntry,
               apiVars, callVars, clientVars, workVars, Conns, NoConn
    <2>5. CallsAreCovered'
        BY <1>12
           DEF LinkInv, WriteFails, Returns, Forgotten, TypeOK, SlotIsLive,
               TornDownOnce, CallsAreCovered, apiVars, callVars, clientVars,
               workVars, Conns, NoConn
    <2>6. AnswersAreServed'
        BY <1>12
           DEF LinkInv, WriteFails, Returns, Forgotten, TypeOK, WorkIsSent,
               AnswersAreServed, apiVars, callVars, clientVars, workVars, Conns,
               NoConn
    <2>7. WorkIsSent'
        BY <1>12
           DEF LinkInv, WriteFails, Returns, Forgotten, TypeOK, WorkIsSent,
               apiVars, callVars, clientVars, workVars, Conns, NoConn
    <2> QED
        BY <2>1, <2>2, <2>3, <2>4, <2>5, <2>6, <2>7 DEF LinkInv
<1>13. ASSUME NEW q \in Requests, ReceiveReply(q) PROVE LinkInv'
    <2>0. /\ Head(reply[q]) \in Messages /\ Tail(reply[q]) = <<>>
          /\ <<>> \in Seq(Messages) /\ Len(<<>>) <= ReplyCapacity
        BY <1>13, ReceivedFacts, EmptySeq DEF LinkInv, TypeOK, ReceiveReply, ReplyCapacity
    <2>1. TypeOK'
        BY <1>13, <2>0
           DEF LinkInv, ReceiveReply, Returns, Forgotten, TypeOK, apiVars,
               callVars, clientVars, workVars, Conns, NoConn, ConnStates,
               SockStates, CallStates, WorkStates
    <2>2. SlotIsLive'
        BY <1>13, <2>0
           DEF LinkInv, ReceiveReply, Returns, Forgotten, TypeOK, SlotIsLive,
               apiVars, callVars, clientVars, workVars, Conns, NoConn
    <2>3. TornDownOnce'
        BY <1>13, <2>0
           DEF LinkInv, ReceiveReply, Returns, Forgotten, TypeOK, TornDownOnce,
               apiVars, callVars, clientVars, workVars, Conns, NoConn
    <2>4. NoAbandonedEntry'
        BY <1>13, <2>0
           DEF LinkInv, ReceiveReply, Returns, Forgotten, TypeOK,
               NoAbandonedEntry, apiVars, callVars, clientVars, workVars, Conns,
               NoConn
    <2>5. CallsAreCovered'
        BY <1>13, <2>0
           DEF LinkInv, ReceiveReply, Returns, Forgotten, TypeOK, SlotIsLive,
               TornDownOnce, CallsAreCovered, apiVars, callVars, clientVars,
               workVars, Conns, NoConn
    <2>6. AnswersAreServed'
        BY <1>13, <2>0
           DEF LinkInv, ReceiveReply, Returns, Forgotten, TypeOK, WorkIsSent,
               AnswersAreServed, apiVars, callVars, clientVars, workVars, Conns,
               NoConn
    <2>7. WorkIsSent'
        BY <1>13, <2>0
           DEF LinkInv, ReceiveReply, Returns, Forgotten, TypeOK, WorkIsSent,
               apiVars, callVars, clientVars, workVars, Conns, NoConn
    <2> QED
        BY <2>1, <2>2, <2>3, <2>4, <2>5, <2>6, <2>7 DEF LinkInv
<1>14. ASSUME NEW q \in Requests, TimeOut(q) PROVE LinkInv'
    <2>0. <<>> \in Seq(Messages) /\ Len(<<>>) <= ReplyCapacity
        BY EmptySeq DEF ReplyCapacity
    <2>1. TypeOK'
        BY <1>14, <2>0
           DEF LinkInv, TimeOut, Returns, Forgotten, TypeOK, apiVars, callVars,
               clientVars, workVars, Conns, NoConn, ConnStates, SockStates,
               CallStates, WorkStates
    <2>2. SlotIsLive'
        BY <1>14, <2>0
           DEF LinkInv, TimeOut, Returns, Forgotten, TypeOK, SlotIsLive, apiVars,
               callVars, clientVars, workVars, Conns, NoConn
    <2>3. TornDownOnce'
        BY <1>14, <2>0
           DEF LinkInv, TimeOut, Returns, Forgotten, TypeOK, TornDownOnce,
               apiVars, callVars, clientVars, workVars, Conns, NoConn
    <2>4. NoAbandonedEntry'
        BY <1>14, <2>0
           DEF LinkInv, TimeOut, Returns, Forgotten, TypeOK, NoAbandonedEntry,
               apiVars, callVars, clientVars, workVars, Conns, NoConn
    <2>5. CallsAreCovered'
        BY <1>14, <2>0
           DEF LinkInv, TimeOut, Returns, Forgotten, TypeOK, SlotIsLive,
               TornDownOnce, CallsAreCovered, apiVars, callVars, clientVars,
               workVars, Conns, NoConn
    <2>6. AnswersAreServed'
        BY <1>14, <2>0
           DEF LinkInv, TimeOut, Returns, Forgotten, TypeOK, WorkIsSent,
               AnswersAreServed, apiVars, callVars, clientVars, workVars, Conns,
               NoConn
    <2>7. WorkIsSent'
        BY <1>14, <2>0
           DEF LinkInv, TimeOut, Returns, Forgotten, TypeOK, WorkIsSent, apiVars,
               callVars, clientVars, workVars, Conns, NoConn
    <2> QED
        BY <2>1, <2>2, <2>3, <2>4, <2>5, <2>6, <2>7 DEF LinkInv
<1>15. ASSUME NEW c \in Conns, Dial(c) PROVE LinkInv'
    <2>1. TypeOK'
        BY <1>15
           DEF LinkInv, Dial, TypeOK, apiVars, callVars, clientVars, workVars,
               Conns, NoConn, ConnStates, SockStates, CallStates, WorkStates
    <2>2. SlotIsLive'
        BY <1>15
           DEF LinkInv, Dial, TypeOK, SlotIsLive, apiVars, callVars, clientVars,
               workVars, Conns, NoConn
    <2>3. TornDownOnce'
        BY <1>15
           DEF LinkInv, Dial, TypeOK, TornDownOnce, apiVars, callVars, clientVars,
               workVars, Conns, NoConn
    <2>4. NoAbandonedEntry'
        BY <1>15
           DEF LinkInv, Dial, TypeOK, NoAbandonedEntry, apiVars, callVars,
               clientVars, workVars, Conns, NoConn
    <2>5. CallsAreCovered'
        BY <1>15
           DEF LinkInv, Dial, TypeOK, SlotIsLive, TornDownOnce, CallsAreCovered,
               apiVars, callVars, clientVars, workVars, Conns, NoConn
    <2>6. AnswersAreServed'
        BY <1>15
           DEF LinkInv, Dial, TypeOK, WorkIsSent, AnswersAreServed, apiVars,
               callVars, clientVars, workVars, Conns, NoConn
    <2>7. WorkIsSent'
        BY <1>15
           DEF LinkInv, Dial, TypeOK, WorkIsSent, apiVars, callVars, clientVars,
               workVars, Conns, NoConn
    <2> QED
        BY <2>1, <2>2, <2>3, <2>4, <2>5, <2>6, <2>7 DEF LinkInv
<1>16. ASSUME NEW c \in Conns, DialFails(c) PROVE LinkInv'
    <2>1. TypeOK'
        BY <1>16
           DEF LinkInv, DialFails, TypeOK, apiVars, callVars, clientVars,
               workVars, Conns, NoConn, ConnStates, SockStates, CallStates,
               WorkStates
    <2>2. SlotIsLive'
        BY <1>16
           DEF LinkInv, DialFails, TypeOK, SlotIsLive, apiVars, callVars,
               clientVars, workVars, Conns, NoConn
    <2>3. TornDownOnce'
        BY <1>16
           DEF LinkInv, DialFails, TypeOK, TornDownOnce, apiVars, callVars,
               clientVars, workVars, Conns, NoConn
    <2>4. NoAbandonedEntry'
        BY <1>16
           DEF LinkInv, DialFails, TypeOK, NoAbandonedEntry, apiVars, callVars,
               clientVars, workVars, Conns, NoConn
    <2>5. CallsAreCovered'
        BY <1>16
           DEF LinkInv, DialFails, TypeOK, SlotIsLive, TornDownOnce,
               CallsAreCovered, apiVars, callVars, clientVars, workVars, Conns,
               NoConn
    <2>6. AnswersAreServed'
        BY <1>16
           DEF LinkInv, DialFails, TypeOK, WorkIsSent, AnswersAreServed, apiVars,
               callVars, clientVars, workVars, Conns, NoConn
    <2>7. WorkIsSent'
        BY <1>16
           DEF LinkInv, DialFails, TypeOK, WorkIsSent, apiVars, callVars,
               clientVars, workVars, Conns, NoConn
    <2> QED
        BY <2>1, <2>2, <2>3, <2>4, <2>5, <2>6, <2>7 DEF LinkInv
<1>17. ASSUME NEW c \in Conns, OnOpen(c) PROVE LinkInv'
    <2>1. TypeOK'
        BY <1>17
           DEF LinkInv, OnOpen, TypeOK, apiVars, callVars, clientVars, workVars,
               Conns, NoConn, ConnStates, SockStates, CallStates, WorkStates
    <2>2. SlotIsLive'
        BY <1>17
           DEF LinkInv, OnOpen, TypeOK, SlotIsLive, apiVars, callVars, clientVars,
               workVars, Conns, NoConn
    <2>3. TornDownOnce'
        BY <1>17
           DEF LinkInv, OnOpen, TypeOK, TornDownOnce, apiVars, callVars,
               clientVars, workVars, Conns, NoConn
    <2>4. NoAbandonedEntry'
        BY <1>17
           DEF LinkInv, OnOpen, TypeOK, NoAbandonedEntry, apiVars, callVars,
               clientVars, workVars, Conns, NoConn
    <2>5. CallsAreCovered'
        BY <1>17
           DEF LinkInv, OnOpen, TypeOK, SlotIsLive, TornDownOnce, CallsAreCovered,
               apiVars, callVars, clientVars, workVars, Conns, NoConn
    <2>6. AnswersAreServed'
        BY <1>17
           DEF LinkInv, OnOpen, TypeOK, WorkIsSent, AnswersAreServed, apiVars,
               callVars, clientVars, workVars, Conns, NoConn
    <2>7. WorkIsSent'
        BY <1>17
           DEF LinkInv, OnOpen, TypeOK, WorkIsSent, apiVars, callVars, clientVars,
               workVars, Conns, NoConn
    <2> QED
        BY <2>1, <2>2, <2>3, <2>4, <2>5, <2>6, <2>7 DEF LinkInv
<1>18. ASSUME NEW c \in Conns, Drops(c) PROVE LinkInv'
    <2>1. TypeOK'
        BY <1>18
           DEF LinkInv, Drops, TypeOK, apiVars, callVars, clientVars, workVars,
               Conns, NoConn, ConnStates, SockStates, CallStates, WorkStates
    <2>2. SlotIsLive'
        BY <1>18
           DEF LinkInv, Drops, TypeOK, SlotIsLive, apiVars, callVars, clientVars,
               workVars, Conns, NoConn
    <2>3. TornDownOnce'
        BY <1>18
           DEF LinkInv, Drops, TypeOK, TornDownOnce, apiVars, callVars,
               clientVars, workVars, Conns, NoConn
    <2>4. NoAbandonedEntry'
        BY <1>18
           DEF LinkInv, Drops, TypeOK, NoAbandonedEntry, apiVars, callVars,
               clientVars, workVars, Conns, NoConn
    <2>5. CallsAreCovered'
        BY <1>18
           DEF LinkInv, Drops, TypeOK, SlotIsLive, TornDownOnce, CallsAreCovered,
               apiVars, callVars, clientVars, workVars, Conns, NoConn
    <2>6. AnswersAreServed'
        BY <1>18
           DEF LinkInv, Drops, TypeOK, WorkIsSent, AnswersAreServed, apiVars,
               callVars, clientVars, workVars, Conns, NoConn
    <2>7. WorkIsSent'
        BY <1>18
           DEF LinkInv, Drops, TypeOK, WorkIsSent, apiVars, callVars, clientVars,
               workVars, Conns, NoConn
    <2> QED
        BY <2>1, <2>2, <2>3, <2>4, <2>5, <2>6, <2>7 DEF LinkInv
<1>19. ASSUME NEW c \in Conns, OnClose(c) PROVE LinkInv'
    <2>1. TypeOK'
        BY <1>19
           DEF LinkInv, OnClose, TypeOK, apiVars, callVars, clientVars, workVars,
               Conns, NoConn, ConnStates, SockStates, CallStates, WorkStates
    <2>2. SlotIsLive'
        BY <1>19
           DEF LinkInv, OnClose, TypeOK, SlotIsLive, apiVars, callVars,
               clientVars, workVars, Conns, NoConn
    <2>3. TornDownOnce'
        BY <1>19
           DEF LinkInv, OnClose, TypeOK, TornDownOnce, apiVars, callVars,
               clientVars, workVars, Conns, NoConn
    <2>4. NoAbandonedEntry'
        BY <1>19
           DEF LinkInv, OnClose, TypeOK, NoAbandonedEntry, apiVars, callVars,
               clientVars, workVars, Conns, NoConn
    <2>5. CallsAreCovered'
        BY <1>19
           DEF LinkInv, OnClose, TypeOK, SlotIsLive, TornDownOnce,
               CallsAreCovered, apiVars, callVars, clientVars, workVars, Conns,
               NoConn
    <2>6. AnswersAreServed'
        BY <1>19
           DEF LinkInv, OnClose, TypeOK, WorkIsSent, AnswersAreServed, apiVars,
               callVars, clientVars, workVars, Conns, NoConn
    <2>7. WorkIsSent'
        BY <1>19
           DEF LinkInv, OnClose, TypeOK, WorkIsSent, apiVars, callVars,
               clientVars, workVars, Conns, NoConn
    <2> QED
        BY <2>1, <2>2, <2>3, <2>4, <2>5, <2>6, <2>7 DEF LinkInv
<1>20. ASSUME Reconnect PROVE LinkInv'
    <2>1. TypeOK'
        BY <1>20
           DEF LinkInv, Reconnect, TypeOK, apiVars, callVars, clientVars,
               workVars, Conns, NoConn, ConnStates, SockStates, CallStates,
               WorkStates
    <2>2. SlotIsLive'
        BY <1>20
           DEF LinkInv, Reconnect, TypeOK, SlotIsLive, apiVars, callVars,
               clientVars, workVars, Conns, NoConn
    <2>3. TornDownOnce'
        BY <1>20
           DEF LinkInv, Reconnect, TypeOK, TornDownOnce, apiVars, callVars,
               clientVars, workVars, Conns, NoConn
    <2>4. NoAbandonedEntry'
        BY <1>20
           DEF LinkInv, Reconnect, TypeOK, NoAbandonedEntry, apiVars, callVars,
               clientVars, workVars, Conns, NoConn
    <2>5. CallsAreCovered'
        BY <1>20
           DEF LinkInv, Reconnect, TypeOK, SlotIsLive, TornDownOnce,
               CallsAreCovered, apiVars, callVars, clientVars, workVars, Conns,
               NoConn
    <2>6. AnswersAreServed'
        BY <1>20
           DEF LinkInv, Reconnect, TypeOK, WorkIsSent, AnswersAreServed, apiVars,
               callVars, clientVars, workVars, Conns, NoConn
    <2>7. WorkIsSent'
        BY <1>20
           DEF LinkInv, Reconnect, TypeOK, WorkIsSent, apiVars, callVars,
               clientVars, workVars, Conns, NoConn
    <2> QED
        BY <2>1, <2>2, <2>3, <2>4, <2>5, <2>6, <2>7 DEF LinkInv
<1>21. ASSUME NEW q \in Requests, OnMessage(q) PROVE LinkInv'
    <2>1. TypeOK'
        BY <1>21
           DEF LinkInv, OnMessage, TypeOK, apiVars, callVars, clientVars,
               workVars, Conns, NoConn, ConnStates, SockStates, CallStates,
               WorkStates
    <2>2. SlotIsLive'
        BY <1>21
           DEF LinkInv, OnMessage, TypeOK, SlotIsLive, apiVars, callVars,
               clientVars, workVars, Conns, NoConn
    <2>3. TornDownOnce'
        BY <1>21
           DEF LinkInv, OnMessage, TypeOK, TornDownOnce, apiVars, callVars,
               clientVars, workVars, Conns, NoConn
    <2>4. NoAbandonedEntry'
        BY <1>21
           DEF LinkInv, OnMessage, TypeOK, NoAbandonedEntry, apiVars, callVars,
               clientVars, workVars, Conns, NoConn
    <2>5. CallsAreCovered'
        BY <1>21
           DEF LinkInv, OnMessage, TypeOK, SlotIsLive, TornDownOnce,
               CallsAreCovered, apiVars, callVars, clientVars, workVars, Conns,
               NoConn
    <2>6. AnswersAreServed'
        BY <1>21
           DEF LinkInv, OnMessage, TypeOK, WorkIsSent, AnswersAreServed, apiVars,
               callVars, clientVars, workVars, Conns, NoConn
    <2>7. WorkIsSent'
        BY <1>21
           DEF LinkInv, OnMessage, TypeOK, WorkIsSent, apiVars, callVars,
               clientVars, workVars, Conns, NoConn
    <2> QED
        BY <2>1, <2>2, <2>3, <2>4, <2>5, <2>6, <2>7 DEF LinkInv
<1>22. ASSUME NEW q \in Requests, Respond(q) PROVE LinkInv'
    <2>1. TypeOK'
        BY <1>22
           DEF LinkInv, Respond, IsConnected, TypeOK, apiVars, callVars,
               clientVars, workVars, Conns, NoConn, ConnStates, SockStates,
               CallStates, WorkStates
    <2>2. SlotIsLive'
        BY <1>22
           DEF LinkInv, Respond, IsConnected, TypeOK, SlotIsLive, apiVars,
               callVars, clientVars, workVars, Conns, NoConn
    <2>3. TornDownOnce'
        BY <1>22
           DEF LinkInv, Respond, IsConnected, TypeOK, TornDownOnce, apiVars,
               callVars, clientVars, workVars, Conns, NoConn
    <2>4. NoAbandonedEntry'
        BY <1>22
           DEF LinkInv, Respond, IsConnected, TypeOK, NoAbandonedEntry, apiVars,
               callVars, clientVars, workVars, Conns, NoConn
    <2>5. CallsAreCovered'
        BY <1>22
           DEF LinkInv, Respond, IsConnected, TypeOK, SlotIsLive, TornDownOnce,
               CallsAreCovered, apiVars, callVars, clientVars, workVars, Conns,
               NoConn
    <2>6. AnswersAreServed'
        BY <1>22
           DEF LinkInv, Respond, IsConnected, TypeOK, WorkIsSent,
               AnswersAreServed, apiVars, callVars, clientVars, workVars, Conns,
               NoConn
    <2>7. WorkIsSent'
        BY <1>22
           DEF LinkInv, Respond, IsConnected, TypeOK, WorkIsSent, apiVars,
               callVars, clientVars, workVars, Conns, NoConn
    <2> QED
        BY <2>1, <2>2, <2>3, <2>4, <2>5, <2>6, <2>7 DEF LinkInv
<1>23. CASE UNCHANGED vars
    BY <1>23 DEF LinkInv, vars, apiVars, callVars, clientVars, workVars, TypeOK, SlotIsLive, TornDownOnce, NoAbandonedEntry, CallsAreCovered, AnswersAreServed, WorkIsSent
<1> QED
    BY <1>1, <1>2, <1>3, <1>4, <1>5, <1>6, <1>7, <1>8, <1>9, <1>10, <1>11, <1>12, <1>13, <1>14, <1>15, <1>16, <1>17, <1>18, <1>19, <1>20, <1>21, <1>22, <1>23 DEF Next, CallStep, HandlerStep

-----------------------------------------------------------------------------
(* The inductive invariant holds throughout.                               *)
THEOREM Invariance == Spec => []LinkInv
BY InitEstablishes, StepPreserves, PTL DEF Spec

-----------------------------------------------------------------------------
(* Safety *)

(* Every variable of the link stays in its set.                            *)
THEOREM TypeCorrect == Spec => []TypeOK
<1>1. LinkInv => TypeOK
    BY DEF LinkInv
<1> QED
    BY <1>1, Invariance, PTL

(* The pending map holds entries of calls in progress only, and a waiting  *)
(* caller always has somebody left to wake it.                             *)
THEOREM CallersAreCovered == Spec => []PendingMatchesCalls
<1>1. LinkInv => PendingMatchesCalls
    BY DEF LinkInv, CallsAreCovered, PendingMatchesCalls, NoStrandedCall
<1> QED
    BY <1>1, Invariance, PTL

-----------------------------------------------------------------------------
(* Refinement *)

(* The steps of the abstract specification, in the terms of this one.      *)
LEMMA AskStep ==
    ASSUME NEW q \in Requests, CallOutcome(q) = "start",
           outcomes' = [outcomes EXCEPT ![q] = "asking"], UNCHANGED servedRequests
    PROVE  RPC!Next
BY DEF RPC!Next, RPC!Ask, outcomes

\* Serving a request for the first time is the abstract Serve.
LEMMA ServeStep ==
    ASSUME NEW q \in Requests, CallOutcome(q) # "start", q \notin servedRequests,
           servedRequests' = servedRequests \cup {q}, UNCHANGED outcomes
    PROVE  RPC!Next
BY DEF RPC!Next, RPC!Serve, outcomes

\* Returning from a call is the abstract Settle.
LEMMA SettleStep ==
    ASSUME NEW q \in Requests, CallOutcome(q) \in {"start", "asking"},
           NEW o \in {"answer", "failed"},
           o = "answer" => CallOutcome(q) = "asking" /\ q \in servedRequests,
           outcomes' = [outcomes EXCEPT ![q] = o], UNCHANGED servedRequests
    PROVE  RPC!Next
BY DEF RPC!Next, RPC!Settle, RPC!Outcomes, outcomes

(* To its callers the link is a remote procedure call: every step answers, *)
(* fails or serves one request as OneshotRPC allows, or is not visible.    *)
THEOREM Refinement == Spec => ImplementsRPC
<1>1. Init => RPC!Init
    BY DEF Init, RPC!Init, outcomes, servedRequests, CallOutcome
<1>2. LinkInv /\ [Next]_vars => [RPC!Next]_<<outcomes, servedRequests>>
    <2> SUFFICES ASSUME LinkInv, [Next]_vars
                 PROVE  RPC!Next \/ UNCHANGED <<outcomes, servedRequests>>
        OBVIOUS
    <2> DEFINE Same == UNCHANGED <<outcomes, servedRequests>>
    <2>0. TypeOK
        BY DEF LinkInv
    <2>1. ASSUME UNCHANGED <<call, outcome, work>> PROVE Same
        BY <2>1 DEF outcomes, servedRequests, CallOutcome
    <2>2. ASSUME NEW q \in Requests, CheckWorker(q) PROVE RPC!Next \/ Same
        <3>1. CASE slot = NoConn
            <4>1. CallOutcome(q) = "start" /\ UNCHANGED servedRequests
                BY <2>2 DEF CheckWorker, CallOutcome, servedRequests, workVars
            <4>2. outcomes' = [outcomes EXCEPT ![q] = "failed"]
                BY <2>0, <2>2, <3>1 DEF CheckWorker, Returns, outcomes, CallOutcome, TypeOK
            <4> QED
                BY <4>1, <4>2, SettleStep
        <3>2. CASE slot # NoConn
            BY <2>0, <2>2, <3>2
               DEF CheckWorker, workVars, outcomes, servedRequests, CallOutcome, TypeOK
        <3> QED
            BY <3>1, <3>2
    <2>3. ASSUME NEW q \in Requests, Register(q) PROVE RPC!Next
        <3>1. CallOutcome(q) = "start" /\ UNCHANGED servedRequests
            BY <2>3 DEF Register, CallOutcome, servedRequests, workVars
        <3>2. CASE slot = NoConn
            <4>1. outcomes' = [outcomes EXCEPT ![q] = "failed"]
                BY <2>0, <2>3, <3>2 DEF Register, Returns, outcomes, CallOutcome, TypeOK
            <4> QED
                BY <3>1, <4>1, SettleStep
        <3>3. CASE slot # NoConn
            <4>1. outcomes' = [outcomes EXCEPT ![q] = "asking"]
                BY <2>0, <2>3, <3>3 DEF Register, outcomes, CallOutcome, TypeOK
            <4> QED
                BY <3>1, <4>1, AskStep
        <3> QED
            BY <3>2, <3>3
    <2>4. ASSUME NEW q \in Requests, WriteDone(q) PROVE Same
        <3>1. work[q] = "unsent"
            BY <2>4 DEF LinkInv, WorkIsSent, WriteDone
        <3>2. UNCHANGED servedRequests
            BY <2>0, <2>4, <3>1 DEF WriteDone, servedRequests, TypeOK
        <3>3. UNCHANGED outcomes
            BY <2>0, <2>4 DEF WriteDone, outcomes, CallOutcome, TypeOK
        <3> QED
            BY <3>2, <3>3
    <2>5. ASSUME NEW q \in Requests, WriteFails(q) \/ TimeOut(q) PROVE RPC!Next
        <3>1. CallOutcome(q) = "asking" /\ UNCHANGED servedRequests
            BY <2>5 DEF WriteFails, TimeOut, CallOutcome, servedRequests, workVars
        <3>2. outcomes' = [outcomes EXCEPT ![q] = "failed"]
            BY <2>0, <2>5 DEF WriteFails, TimeOut, Returns, outcomes, CallOutcome, TypeOK
        <3> QED
            BY <3>1, <3>2, SettleStep
    <2>6. ASSUME NEW q \in Requests, ReceiveReply(q) PROVE RPC!Next
        <3> DEFINE o == IF Head(reply[q]) = "answer" THEN "answer" ELSE "failed"
        <3>1. CallOutcome(q) = "asking" /\ UNCHANGED servedRequests
            BY <2>6 DEF ReceiveReply, CallOutcome, servedRequests, workVars
        <3>2. o = "answer" => q \in servedRequests
            BY <2>6 DEF LinkInv, AnswersAreServed, ReceiveReply, servedRequests
        <3>3. outcomes' = [outcomes EXCEPT ![q] = o]
            BY <2>0, <2>6 DEF ReceiveReply, Returns, outcomes, CallOutcome, TypeOK
        <3> QED
            BY <3>1, <3>2, <3>3, SettleStep
    <2>7. ASSUME NEW q \in Requests, OnMessage(q) PROVE Same
        BY <2>0, <2>7
           DEF OnMessage, callVars, outcomes, servedRequests, CallOutcome, TypeOK
    <2>8. ASSUME NEW q \in Requests, Respond(q) PROVE RPC!Next
        <3>1. CallOutcome(q) # "start"
            BY <2>8 DEF LinkInv, WorkIsSent, Respond, CallOutcome
        <3>2. q \notin servedRequests /\ servedRequests' = servedRequests \cup {q}
            BY <2>0, <2>8 DEF Respond, servedRequests, TypeOK
        <3>3. UNCHANGED outcomes
            BY <2>8 DEF Respond, callVars, outcomes, CallOutcome
        <3> QED
            BY <3>1, <3>2, <3>3, ServeStep
    <2>9. \/ UNCHANGED <<call, outcome, work>>
          \/ \E q \in Requests :
                \/ CheckWorker(q) \/ Register(q) \/ WriteDone(q) \/ WriteFails(q)
                \/ ReceiveReply(q) \/ TimeOut(q) \/ OnMessage(q) \/ Respond(q)
        BY DEF Next, vars, CallStep, HandlerStep, callVars, workVars, Upgrade, TakeSlot,
           LeaveReadLoop, ClearSlot, FailPending, SignalLost, LookUpEntry, SignalAnswer,
           Dial, DialFails, OnOpen, Drops, OnClose, Reconnect
    <2> QED
        BY <2>1, <2>2, <2>3, <2>4, <2>5, <2>6, <2>7, <2>8, <2>9
<1> QED
    BY <1>1, <1>2, Invariance, PTL DEF Spec, ImplementsRPC, RPC!Spec
=============================================================================
