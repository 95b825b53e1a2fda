-------------------------- MODULE MyAckProcessorProofs --------------------------
(***************************************************************************)
(* What TLAPS proves of MyAckProcessor, for any set of loops and pushers   *)
(* and any bound on the futures.  The class repeats MyTaskProcessor, and   *)
(* so the proofs repeat nothing: every step of the ack thread is a step of *)
(* MyTaskProcessor or FlushThrows, the one way out it has and the other    *)
(* has not, and the invariants of MyTaskProcessorProofs survive both.      *)
(***************************************************************************)
EXTENDS MyAckProcessor, MyTaskProcessorProofs, FiniteSetTheorems

allVars == <<vars, ackVars>>

\* No task is 0: a number, which every leaf below may see.
USE DEF NoTask

\* The ack thread adds one step to those of MyTaskProcessor.
LEMMA AckStepIs ==
    ASSUME [AckNext]_allVars
    PROVE  [Next]_vars \/ \E l \in Loops : FlushThrows(l)
<1> USE DEF allVars, ackVars
<1>1. CASE AckCall \/ AckOwnerStep \/ \E p \in Pushers : AckPusherStep(p)
  BY <1>1 DEF AckCall, AckOwnerStep, AckPusherStep, Next
<1>2. ASSUME NEW l \in Loops,
             AckLoopStep(l) \/ LoopSpuriousWakeup(l)
      PROVE  [Next]_vars \/ FlushThrows(l)
  BY <1>2 DEF AckLoopStep, LoopOnly, SendAck, SkipAck, FlushTimeout, LoopStep,
              Next
<1>3. ASSUME NEW n \in Futures, Settle(n) PROVE UNCHANGED vars
  BY <1>3 DEF Settle
<1> QED
  BY <1>1, <1>2, <1>3 DEF AckNext, AckStep

\* The invariants of MyTaskProcessor, in one step.
LEMMA InvsNext ==
    ASSUME ~RestartWhileRunning, Invs, [Next]_vars
    PROVE  Invs'
BY TypeInvNext, ControlInvNext, OrderNext DEF Invs, ControlInv

\* A loop that throws out of Flush has put its future down, and has ended.
LEMMA FlushThrowsKeepsInvs ==
    ASSUME Invs, NEW l \in Loops, FlushThrows(l)
    PROVE  Invs'
<1> USE DEF Invs, FlushThrows, Goto, queueVars, ownerVars, pushVars
<1>1. TypeInv'
  <2> USE DEF TypeInv, TypeOK, QueueTypeOK, HeldWhileRunning
  <2>1. held[l] \in Task
    BY DEF Running, Task
  <2>2. done' \in Seq(Task)
    BY <2>1, AppendProperties DEF Finish
  <2> QED
    BY <2>2 DEF Finish, LoopPC, OwnerPC, PusherPC, Running, Exited
<1>2. ControlInv'
  BY DEF ControlInv, OnlyOwnedLoopRuns, OwnerInv, TypeInv, TypeOK, Free, Exited,
         Running
<1>3. ExactlyOnceInOrder'
  BY FinishKeepsOrder DEF ControlInv, Running
<1> QED
  BY <1>1, <1>2, <1>3

\* The invariants of MyTaskProcessor hold of the ack thread.
LEMMA AckInvsNext ==
    ASSUME ~RestartWhileRunning, Invs, [AckNext]_allVars
    PROVE  Invs'
BY AckStepIs, InvsNext, FlushThrowsKeepsInvs

-----------------------------------------------------------------------------
(* Every future there is has a number in 1..MaxTasks.                      *)

Enqueuing == {p \in Pushers : pusher[p] = "enqueue"}

\* The bound of the model, with the pushes that are on their way: there may be
\* any number of pushers, but only so many have passed the test.
WithinBound ==
    /\ IsFiniteSet(Enqueuing)
    /\ pushed + Cardinality(Enqueuing) <= MaxTasks

\* PushAccept counts the pusher in, and PushEnqueue turns it into a task.
LEMMA WithinBoundPush ==
    ASSUME TypeInv, WithinBound, NEW p \in Pushers,
           PushAccept(p) \/ PushEnqueue(p)
    PROVE  WithinBound'
<1> USE MaxTasksAssumption DEF TypeInv, TypeOK, WithinBound
<1>1. Cardinality(Enqueuing) \in Nat
  BY FS_CardinalityType
<1>2. CASE PushAccept(p)
  <2>1. Enqueuing' = Enqueuing \cup {p} /\ p \notin Enqueuing
    BY <1>2 DEF PushAccept, Enqueuing
  <2>2. /\ IsFiniteSet(Enqueuing')
        /\ Cardinality(Enqueuing') = Cardinality(Enqueuing) + 1
    BY <2>1, FS_AddElement
  <2>3. pushed' = pushed /\ pushed + Cardinality(Enqueuing) < MaxTasks
    BY <1>2 DEF PushAccept, Enqueuing
  <2> QED
    BY <1>1, <2>2, <2>3
<1>3. CASE PushEnqueue(p)
  <2>1. Enqueuing' = Enqueuing \ {p} /\ p \in Enqueuing
    BY <1>3 DEF PushEnqueue, Enqueuing
  <2>2. /\ IsFiniteSet(Enqueuing')
        /\ Cardinality(Enqueuing') = Cardinality(Enqueuing) - 1
    BY <2>1, FS_RemoveElement
  <2>3. pushed' = pushed + 1
    BY <1>3 DEF PushEnqueue
  <2> QED
    BY <1>1, <2>2, <2>3
<1> QED
  BY <1>2, <1>3

\* No other step counts.
LEMMA WithinBoundNext ==
    ASSUME TypeInv, WithinBound, [AckNext]_allVars
    PROVE  WithinBound'
<1>1. CASE UNCHANGED <<Enqueuing, pushed>>
  BY <1>1 DEF WithinBound
<1>2. CASE UNCHANGED vars \/ \E l \in Loops : FlushThrows(l)
  BY <1>1, <1>2 DEF vars, pushVars, Enqueuing, FlushThrows
<1>3. CASE Start \/ (\E flush \in BOOLEAN : StopCall(flush)) \/ OwnerStep
  BY <1>1, <1>3 DEF Start, StopCall, OwnerStep, StopFlushFlag, StopBreakWait,
                    StopNotifyAll, Join, pushVars, Enqueuing
<1>4. ASSUME NEW p \in Pushers, PushAccept(p) \/ PusherStep(p)
      PROVE  WithinBound'
  <2>1. CASE PushNotify(p)
    BY <1>1, <2>1 DEF PushNotify, Enqueuing, TypeInv, TypeOK
  <2> QED
    BY <1>4, <2>1, WithinBoundPush DEF PusherStep
<1>5. ASSUME NEW l \in Loops, LoopStep(l) \/ LoopSpuriousWakeup(l)
      PROVE  WithinBound'
  <2>1. UNCHANGED pushVars
    BY <1>5 DEF LoopStep, LoopEnter, LoopWhile, LoopWaitBlock, LoopWaitTake,
                LoopWaitBroken, RunTask, LoopFlushTest, FlushWhile, FlushPop,
                LoopSpuriousWakeup
  <2> QED
    BY <1>1, <2>1 DEF pushVars, Enqueuing
<1> QED
  BY <1>2, <1>3, <1>4, <1>5, AckStepIs DEF Next

\* The future in the hand of a loop, and those it is done with, are futures.
LEMMA FuturesInHand ==
    ASSUME Invs, WithinBound
    PROVE  /\ \A l \in Loops : held[l] # NoTask =>
                 held[l] = Len(done) + 1 /\ held[l] \in Futures
           /\ \A i \in 1..Len(done) : done[i] = i /\ i \in Futures
<1> USE MaxTasksAssumption
    DEF Invs, TypeInv, TypeOK, QueueTypeOK, ExactlyOnceInOrder, Futures
<1>1. Len(done) \in Nat /\ Len(items) \in Nat /\ InHand \in {0, 1}
  BY LenProperties DEF InHand
<1>2. pushed <= MaxTasks
  BY FS_CardinalityType DEF WithinBound
<1>3. ASSUME NEW l \in Loops, held[l] # NoTask
      PROVE  held[l] = Len(done) + 1 /\ held[l] \in Futures
  <2>1. InHand = 1
    BY <1>3 DEF InHand
  <2> QED
    BY <1>1, <1>2, <1>3, <2>1
<1>4. ASSUME NEW i \in 1..Len(done)
      PROVE  done[i] = i /\ i \in Futures
  BY <1>1, <1>2
<1> QED
  BY <1>3, <1>4

-----------------------------------------------------------------------------
(* The acks.                                                               *)

\* What the ack thread has acknowledged it is done with; the rest of
\* AcksFollowHandlers and the types of the ack thread's own state.
AckInv ==
    /\ outcome \in [Futures -> {"pending", "ok", "threw"}]
    /\ acked \in Seq(Futures)
    /\ aborted \in BOOLEAN
    /\ \A i \in 1..Len(acked) : acked[i] <= Len(done)
    /\ AcksFollowHandlers
    /\ NoPendingFutureDropped

\* All that holds, together.
AckInvs == Invs /\ WithinBound /\ AckInv

\* At first nothing was enqueued, run or acknowledged.
LEMMA AckInvsInit == AckInit => AckInvs
<1> SUFFICES ASSUME AckInit PROVE AckInvs
  OBVIOUS
<1>1. Init /\ done = <<>> /\ acked = <<>>
  BY DEF AckInit, Init
<1>2. TypeInv /\ ControlInv
  BY <1>1, TypeInvInit, ControlInvInit
<1>3. ExactlyOnceInOrder
  <2>1. InHand = 0 /\ Len(done) = 0 /\ Len(items) = 0 /\ pushed = 0
    BY <1>1, EmptySeq DEF Init, QueueInit, InHand
  <2>2. \A l \in Loops : held[l] = NoTask
    BY <1>1 DEF Init
  <2> QED
    BY <2>1, <2>2 DEF ExactlyOnceInOrder
<1>4. WithinBound
  <2>1. Enqueuing = {} /\ pushed = 0
    BY <1>1 DEF Init, Enqueuing
  <2> QED
    BY <2>1, FS_EmptySet, MaxTasksAssumption DEF WithinBound
<1>5. AckInv
  <2>1. Len(done) = 0 /\ Len(acked) = 0 /\ acked \in Seq(Futures)
    BY <1>1, EmptySeq
  <2>2. /\ outcome \in [Futures -> {"pending", "ok", "threw"}]
        /\ aborted \in BOOLEAN
    BY DEF AckInit
  <2>3. AcksFollowHandlers /\ NoPendingFutureDropped
    BY <2>1 DEF AcksFollowHandlers, NoPendingFutureDropped
  <2> QED
    BY <2>1, <2>2, <2>3 DEF AckInv
<1> QED
  BY <1>2, <1>3, <1>4, <1>5 DEF AckInvs, Invs

\* What a step does to the futures: one is settled, one is finished, or nothing.
LEMMA AckStepOnFutures ==
    ASSUME [AckNext]_allVars
    PROVE  \/ UNCHANGED <<done, ackVars>>
           \/ UNCHANGED <<done, acked, outcome>> /\ aborted' = TRUE
           \/ \E n \in Futures : Settle(n)
           \/ /\ UNCHANGED outcome
              /\ \E l \in Loops : SendAck(l) \/ SkipAck(l) \/ FlushThrows(l)
<1> USE DEF allVars, ackVars
<1>1. CASE UNCHANGED allVars
  BY <1>1 DEF vars, loopVars
<1>2. ASSUME AckCall \/ AckOwnerStep \/ \E p \in Pushers : AckPusherStep(p)
      PROVE  UNCHANGED <<done, acked, aborted>>
  BY <1>2 DEF AckCall, AckOwnerStep, AckPusherStep, Start, StopCall, OwnerStep,
              StopFlushFlag, StopBreakWait, StopNotifyAll, Join, PushAccept,
              PusherStep, PushEnqueue, PushNotify, loopVars
<1>3. ASSUME NEW l \in Loops, LoopOnly(l)
      PROVE  UNCHANGED <<done, acked, aborted>>
  BY <1>3 DEF LoopOnly, LoopEnter, LoopWhile, LoopWaitBlock, LoopWaitTake,
              LoopWaitBroken, LoopFlushTest, FlushWhile, FlushPop, loopVars
<1>4. ASSUME NEW l \in Loops, FlushTimeout(l)
      PROVE  UNCHANGED <<done, acked>> /\ aborted' = TRUE
  BY <1>4 DEF FlushTimeout, vars, loopVars
<1>5. CASE AckStep /\ UNCHANGED outcome
  <2>1. CASE AckCall \/ AckOwnerStep \/ \E p \in Pushers : AckPusherStep(p)
    BY <1>2, <1>5, <2>1
  <2>2. CASE \E l \in Loops : AckLoopStep(l)
    <3>1. PICK l \in Loops : AckLoopStep(l)
      BY <2>2
    <3>2. CASE LoopOnly(l)
      <4>1. UNCHANGED <<done, acked, aborted>>
        BY <1>3, <3>2
      <4> QED
        BY <1>5, <4>1
    <3>3. CASE FlushTimeout(l)
      BY <1>4, <1>5, <3>3
    <3>4. CASE SendAck(l) \/ SkipAck(l) \/ FlushThrows(l)
      BY <1>5, <3>4
    <3> QED
      BY <3>1, <3>2, <3>3, <3>4 DEF AckLoopStep
  <2>3. CASE \E l \in Loops : /\ LoopSpuriousWakeup(l)
                              /\ UNCHANGED <<acked, aborted>>
    BY <1>5, <2>3 DEF LoopSpuriousWakeup, loopVars
  <2> QED
    BY <1>5, <2>1, <2>2, <2>3 DEF AckStep
<1> QED
  BY <1>1, <1>5 DEF AckNext

\* A future that is settled stays as it is.
LEMMA SettleKeepsAckInv ==
    ASSUME AckInvs, NEW n \in Futures, Settle(n)
    PROVE  AckInv'
<1> USE DEF AckInvs, AckInv, Settle
<1>1. UNCHANGED <<done, acked, aborted>>
  BY DEF vars, loopVars
<1>2. outcome' \in [Futures -> {"pending", "ok", "threw"}]
  OBVIOUS
<1>3. \A m \in Futures : outcome[m] # "pending" => outcome'[m] = outcome[m]
  OBVIOUS
<1>4. \A i \in 1..Len(acked) : acked[i] \in Futures
  BY ElementOfSeq
<1>5. \A i \in 1..Len(done) : done[i] \in Futures
  BY FuturesInHand
<1>6. AcksFollowHandlers'
  BY <1>1, <1>3, <1>4 DEF AcksFollowHandlers
<1>7. NoPendingFutureDropped'
  BY <1>1, <1>3, <1>5 DEF NoPendingFutureDropped
<1> QED
  BY <1>1, <1>2, <1>6, <1>7

\* The future in hand is the next after all that the loop is done with, and so
\* after all that were acknowledged; its handler has ended.
LEMMA FinishKeepsAckInv ==
    ASSUME AckInvs, UNCHANGED outcome, NEW l \in Loops,
           SendAck(l) \/ SkipAck(l) \/ FlushThrows(l)
    PROVE  AckInv'
<1> USE DEF AckInvs, AckInv
<1>1. /\ pc[l] \in Running /\ Finish(l) /\ outcome[held[l]] # "pending"
      /\ UNCHANGED aborted
      /\ \/ UNCHANGED acked
         \/ outcome[held[l]] = "ok" /\ acked' = Append(acked, held[l])
  BY DEF SendAck, SkipAck, FlushThrows, RunTask, Settled, Goto, Running
<1>2. held[l] = Len(done) + 1 /\ held[l] \in Futures
  BY <1>1, FuturesInHand DEF Invs, TypeInv, HeldWhileRunning
<1>3. Len(done) \in Nat /\ Len(acked) \in Nat /\ done \in Seq(Task)
  BY LenProperties DEF Invs, TypeInv, TypeOK
<1>4. held[l] \in Task
  BY <1>2, MaxTasksAssumption DEF Futures, Task
<1>5. /\ Len(done') = Len(done) + 1
      /\ \A i \in 1..Len(done) : done'[i] = done[i]
      /\ done'[Len(done) + 1] = held[l]
  BY <1>1, <1>3, <1>4, AppendProperties DEF Finish
<1>6. NoPendingFutureDropped'
  <2> SUFFICES ASSUME NEW i \in 1..Len(done') PROVE outcome[done'[i]] # "pending"
    BY DEF NoPendingFutureDropped
  <2>1. i = Len(done) + 1 \/ i \in 1..Len(done)
    BY <1>3, <1>5
  <2> QED
    BY <1>1, <1>5, <2>1 DEF NoPendingFutureDropped
<1>7. \A i \in 1..Len(acked) : acked[i] \in Futures /\ acked[i] \in Nat
  BY ElementOfSeq, MaxTasksAssumption DEF Futures
<1>8. CASE UNCHANGED acked
  <2>1. \A i \in 1..Len(acked) : acked[i] <= Len(done')
    BY <1>3, <1>5, <1>7
  <2>2. AcksFollowHandlers'
    BY <1>8 DEF AcksFollowHandlers
  <2> QED
    BY <1>1, <1>6, <1>8, <2>1, <2>2
<1>9. CASE outcome[held[l]] = "ok" /\ acked' = Append(acked, held[l])
  <2>1. /\ acked' \in Seq(Futures)
        /\ Len(acked') = Len(acked) + 1
        /\ \A i \in 1..Len(acked) : acked'[i] = acked[i]
        /\ acked'[Len(acked) + 1] = Len(done) + 1
    BY <1>2, <1>9, AppendProperties
  <2>2. \A i \in 1..Len(acked') : i = Len(acked) + 1 \/ i \in 1..Len(acked)
    BY <1>3, <2>1
  <2>3. \A i \in 1..Len(acked') : acked'[i] <= Len(done')
    BY <1>3, <1>5, <1>7, <2>1, <2>2
  <2>4. \A i \in 1..Len(acked') : outcome[acked'[i]] = "ok"
    BY <1>2, <1>9, <2>1, <2>2 DEF AcksFollowHandlers
  <2>5. ASSUME NEW i \in 1..Len(acked'), NEW j \in 1..Len(acked'), i < j
        PROVE  acked'[i] < acked'[j]
    <3>1. i \in 1..Len(acked)
      BY <1>3, <2>1, <2>5
    <3>2. CASE j \in 1..Len(acked)
      BY <2>1, <2>5, <3>1, <3>2 DEF AcksFollowHandlers
    <3>3. CASE j = Len(acked) + 1
      BY <1>3, <1>7, <2>1, <3>1, <3>3
    <3> QED
      BY <2>2, <3>2, <3>3
  <2>6. AcksFollowHandlers'
    BY <2>4, <2>5 DEF AcksFollowHandlers
  <2> QED
    BY <1>1, <1>6, <2>1, <2>3, <2>6
<1> QED
  BY <1>1, <1>8, <1>9

\* Everything together is inductive.
LEMMA AckInvsAreInductive ==
    ASSUME ~RestartWhileRunning, AckInvs, [AckNext]_allVars
    PROVE  AckInvs'
<1>1. Invs' /\ WithinBound'
  BY AckInvsNext, WithinBoundNext DEF AckInvs, Invs
<1>2. AckInv'
  <2>1. CASE UNCHANGED <<done, ackVars>>
    BY <2>1 DEF ackVars, AckInvs, AckInv, AcksFollowHandlers,
                NoPendingFutureDropped
  <2>2. CASE UNCHANGED <<done, acked, outcome>> /\ aborted' = TRUE
    BY <2>2 DEF AckInvs, AckInv, AcksFollowHandlers, NoPendingFutureDropped
  <2> QED
    BY <2>1, <2>2, AckStepOnFutures, SettleKeepsAckInv, FinishKeepsAckInv
<1> QED
  BY <1>1, <1>2 DEF AckInvs

\* So it holds in every reachable state.
LEMMA AckInvsHold ==
    ASSUME ~RestartWhileRunning
    PROVE  AckSpec => []AckInvs
<1>1. AckInvs /\ [AckNext]_allVars => AckInvs'
  BY AckInvsAreInductive
<1> QED
  BY <1>1, AckInvsInit, PTL DEF AckSpec, allVars

\* The types of the ack thread: what it acknowledges is a future it was given,
\* however Wait and Pop hand the futures out.
THEOREM AckTypeCorrect ==
    ASSUME ~RestartWhileRunning
    PROVE  AckSpec => []AckTypeOK
<1>1. AckInvs => AckTypeOK
  BY DEF AckInvs, AckInv, AckTypeOK, Invs, TypeInv
<1> QED
  BY <1>1, AckInvsHold, PTL

\* A message is acknowledged at most once, in its turn, and only if its handler
\* returned, whenever the handlers end and however often the owner stops and
\* resumes the thread.
THEOREM AcksAreEarned ==
    ASSUME ~RestartWhileRunning
    PROVE  AckSpec => []AcksFollowHandlers
<1>1. AckInvs => AcksFollowHandlers
  BY DEF AckInvs, AckInv
<1> QED
  BY <1>1, AckInvsHold, PTL

\* No future leaves the thread while its handler runs.
THEOREM FuturesAreWaitedFor ==
    ASSUME ~RestartWhileRunning
    PROVE  AckSpec => []NoPendingFutureDropped
<1>1. AckInvs => NoPendingFutureDropped
  BY DEF AckInvs, AckInv
<1> QED
  BY <1>1, AckInvsHold, PTL

\* Seen from the outside the ack thread is the service MyTaskProcessor is, also
\* when a send throws out of Flush: the future in hand is then finished.
THEOREM AckServiceImplemented ==
    ASSUME ~RestartWhileRunning
    PROVE  AckSpec => ImplementsService
<1>1. ASSUME Invs, NEW l \in Loops, FlushThrows(l)
      PROVE  [Service!Next]_Service!vars
  <2>1. l = handle /\ l # NoLoop /\ held[l] # NoTask
    BY <1>1, NoLoopAssumption
       DEF FlushThrows, Goto, Invs, TypeInv, HeldWhileRunning, Running, Free,
           Exited, ControlInv, OnlyOwnedLoopRuns
  <2>2. Service!Finish
    BY <1>1, <2>1 DEF FlushThrows, Finish, Service!Finish, Invs, TypeInv, TypeOK,
                      ownerVars, pushVars
  <2> QED
    BY <2>2 DEF Service!Next
<1>2. AckInvs /\ [AckNext]_allVars => [Service!Next]_Service!vars
  BY <1>1, AckStepIs, ServiceNext DEF AckInvs
<1>3. AckInit => Service!Init
  BY ServiceInit DEF AckInit
<1> QED
  BY <1>2, <1>3, AckInvsHold, PTL
     DEF AckSpec, allVars, ImplementsService, Service!Spec
=============================================================================
