------------------------- MODULE MyTaskProcessorProofs -------------------------
(***************************************************************************)
(* What TLAPS proves of MyTaskProcessor, for any set of loops and pushers  *)
(* and any bound on the tasks.                                             *)
(***************************************************************************)
EXTENDS MyTaskProcessor, SequenceTheorems, TLAPS

\* A loop holds a task exactly while it is inside task().
HeldWhileRunning == \A l \in Loops : held[l] # NoTask <=> pc[l] \in Running

TypeInv == TypeOK /\ HeldWhileRunning

\* No task is 0: a number, which every leaf below may see.
USE DEF NoTask

\* Initially everything has its type, and no loop holds a task.
LEMMA TypeInvInit == Init => TypeInv
<1> SUFFICES ASSUME Init PROVE TypeInv
  OBVIOUS
<1> USE DEF Init, QueueInit, LoopPC, OwnerPC, PusherPC, Exited, Running
<1>1. QueueTypeOK(Task) /\ done \in Seq(Task)
  BY EmptySeq DEF QueueTypeOK
<1>2. pc \in [Loops -> LoopPC] /\ held \in [Loops -> Nat]
  OBVIOUS
<1>3. HeldWhileRunning
  BY DEF HeldWhileRunning
<1> QED
  BY <1>1, <1>2, <1>3 DEF TypeInv, TypeOK

\* Start and the steps of Stop keep the types, and take no task.
LEMMA TypeInvOwner ==
    ASSUME TypeInv,
           Start \/ (\E flush \in BOOLEAN : StopCall(flush)) \/ OwnerStep
    PROVE  TypeInv'
<1> USE DEF TypeInv, TypeOK, QueueTypeOK, HeldWhileRunning, LoopPC, OwnerPC,
            PusherPC, Running, Exited, queueVars, loopVars, pushVars
<1>1. CASE Start
  <2>1. PICK l \in Loops : /\ Free(l) /\ l # handle
                           /\ pc' = [pc EXCEPT ![l] = "launched"]
                           /\ handle' = l
    BY <1>1 DEF Start
  <2>2. held[l] = 0
    BY <2>1 DEF Free
  <2> QED
    BY <1>1, <2>1, <2>2 DEF Start
<1>2. CASE \E flush \in BOOLEAN : StopCall(flush)
  BY <1>2 DEF StopCall
<1>3. CASE OwnerStep
  BY <1>3 DEF OwnerStep, StopFlushFlag, StopBreakWait, StopNotifyAll, Join,
              BreakWait, NotifyAll
<1> QED
  BY <1>1, <1>2, <1>3

\* The steps of Push keep the types, and touch no task in hand.
LEMMA TypeInvPusher ==
    ASSUME TypeInv,
           NEW p \in Pushers,
           PushAccept(p) \/ PusherStep(p)
    PROVE  TypeInv'
<1> USE DEF TypeInv, TypeOK, QueueTypeOK, HeldWhileRunning, LoopPC, OwnerPC,
            PusherPC, queueVars, loopVars, ownerVars
<1>1. CASE PushAccept(p)
  BY <1>1 DEF PushAccept
<1>2. CASE PushEnqueue(p)
  <2>1. pushed + 1 \in Task
    BY DEF Task
  <2>2. items' \in Seq(Task)
    BY <1>2, <2>1, AppendProperties DEF PushEnqueue, Push
  <2> QED
    BY <1>2, <2>2 DEF PushEnqueue, Push
<1>3. CASE PushNotify(p)
  BY <1>3 DEF PushNotify, NotifyOne
<1> QED
  BY <1>1, <1>2, <1>3 DEF PusherStep

\* The steps of ProcessLoop and Flush keep the types: a task is taken on the way
\* into task(), and put down on the way out.
LEMMA TypeInvLoop ==
    ASSUME TypeInv,
           NEW l \in Loops,
           LoopStep(l) \/ LoopSpuriousWakeup(l)
    PROVE  TypeInv'
<1> USE DEF TypeInv, TypeOK, QueueTypeOK, HeldWhileRunning, LoopPC, OwnerPC,
            PusherPC, Running, Exited, queueVars, loopVars, ownerVars, pushVars,
            Goto
<1>1. CASE LoopEnter(l) \/ LoopWhile(l) \/ LoopFlushTest(l) \/ FlushWhile(l)
  BY <1>1, ZenonT(40) DEF LoopEnter, LoopWhile, LoopFlushTest, FlushWhile
<1>2. CASE LoopWaitBlock(l)
  BY <1>2 DEF LoopWaitBlock, WaitTest, WaitSleep
<1>3. CASE LoopWaitTake(l)
  <2>1. Head(items) \in Task /\ items' \in Seq(Task)
    BY <1>3, HeadTailProperties DEF LoopWaitTake, WaitTake, Wanted
  <2>2. Head(items) \in Nat /\ Head(items) # NoTask
    BY <2>1 DEF Task
  <2> QED
    BY <1>3, <2>1, <2>2 DEF LoopWaitTake, WaitTake
<1>4. CASE LoopWaitBroken(l)
  BY <1>4 DEF LoopWaitBroken, WaitBroken
<1>5. CASE RunTask(l)
  <2>1. held[l] \in Task
    BY <1>5 DEF RunTask, Task
  <2>2. done' \in Seq(Task)
    BY <1>5, <2>1, AppendProperties DEF RunTask, Finish
  <2> QED
    BY <1>5, <2>2, ZenonT(40) DEF RunTask, Finish
<1>6. CASE FlushPop(l)
  <2>1. Head(items) \in Task /\ items' \in Seq(Task)
    BY <1>6, HeadTailProperties DEF FlushPop, Pop, Empty
  <2>2. Head(items) \in Nat /\ Head(items) # NoTask
    BY <2>1 DEF Task
  <2> QED
    BY <1>6, <2>1, <2>2 DEF FlushPop, Pop
<1>7. CASE LoopSpuriousWakeup(l)
  BY <1>7 DEF LoopSpuriousWakeup, SpuriousWakeup
<1> QED
  BY <1>1, <1>2, <1>3, <1>4, <1>5, <1>6, <1>7 DEF LoopStep

\* The type invariant is inductive.
LEMMA TypeInvNext == TypeInv /\ [Next]_vars => TypeInv'
<1> SUFFICES ASSUME TypeInv, [Next]_vars PROVE TypeInv'
  OBVIOUS
<1>1. CASE UNCHANGED vars
  BY <1>1 DEF TypeInv, TypeOK, QueueTypeOK, HeldWhileRunning, vars, queueVars,
              loopVars, ownerVars, pushVars
<1> QED
  BY <1>1, TypeInvOwner, TypeInvPusher, TypeInvLoop DEF Next

\* Type correctness, whether or not Start may be called while the loop runs.
THEOREM TypeCorrect == Spec => []TypeOK
<1>1. TypeInv => TypeOK
  BY DEF TypeInv
<1> QED
  BY <1>1, TypeInvInit, TypeInvNext, PTL DEF Spec

-----------------------------------------------------------------------------
(* One loop at a time.                                                     *)

\* Why a stopped processor has no loop: the owner joins the loop its handle
\* stands for, and while it is idle nobody has told that loop to stop.
OwnerInv ==
    /\ owner # "idle" => handle # NoLoop /\ joined = handle
    /\ owner = "idle" /\ handle # NoLoop =>
          /\ shouldRun /\ ~flushRequested /\ ~breakWait
          /\ pc[handle] \in {"launched", "while", "wait", "run"}

ControlInv == OnlyOwnedLoopRuns /\ OwnerInv

\* Initially there is no loop and the owner is idle.
LEMMA ControlInvInit == Init => ControlInv
BY DEF Init, ControlInv, OnlyOwnedLoopRuns, OwnerInv, Free

\* Start launches a loop when there is none, and Stop forgets one that returned.
LEMMA ControlInvOwner ==
    ASSUME ~RestartWhileRunning, TypeInv, ControlInv,
           Start \/ (\E flush \in BOOLEAN : StopCall(flush)) \/ OwnerStep
    PROVE  ControlInv'
<1> USE NoLoopAssumption
    DEF ControlInv, OnlyOwnedLoopRuns, OwnerInv, TypeInv, TypeOK, QueueTypeOK,
        Free, Exited, LoopPC, OwnerPC, Running, queueVars, loopVars, pushVars
<1>1. CASE Start
  <2>1. handle = NoLoop /\ \A l \in Loops : Free(l)
    BY <1>1 DEF Start
  <2> QED
    BY <1>1, <2>1 DEF Start
<1>2. CASE \E flush \in BOOLEAN : StopCall(flush)
  BY <1>2 DEF StopCall
<1>3. CASE StopFlushFlag \/ StopBreakWait \/ StopNotifyAll
  BY <1>3 DEF StopFlushFlag, StopBreakWait, StopNotifyAll, BreakWait, NotifyAll
<1>4. CASE Join
  BY <1>4 DEF Join
<1> QED
  BY <1>1, <1>2, <1>3, <1>4 DEF OwnerStep

\* A push touches neither the owner nor a loop.
LEMMA ControlInvPusher ==
    ASSUME TypeInv, ControlInv,
           NEW p \in Pushers,
           PushAccept(p) \/ PusherStep(p)
    PROVE  ControlInv'
BY DEF ControlInv, OnlyOwnedLoopRuns, OwnerInv, Free, PusherStep, PushAccept,
       PushEnqueue, PushNotify, Push, NotifyOne, queueVars, loopVars, ownerVars

\* A loop that moves is the one of the handle, and it leaves its while only when
\* Stop has cleared _shouldRun or broken the wait.
LEMMA ControlInvLoop ==
    ASSUME TypeInv, ControlInv,
           NEW l \in Loops,
           LoopStep(l) \/ LoopSpuriousWakeup(l)
    PROVE  ControlInv'
<1> USE DEF ControlInv, OnlyOwnedLoopRuns, OwnerInv, TypeInv, TypeOK,
            QueueTypeOK, Free, Exited, LoopPC, Running, Goto,
            queueVars, ownerVars, loopVars, pushVars
<1>1. CASE LoopEnter(l)
  BY <1>1 DEF LoopEnter
<1>2. CASE LoopWhile(l)
  BY <1>2 DEF LoopWhile
<1>3. CASE LoopFlushTest(l) \/ FlushWhile(l)
  BY <1>3 DEF LoopFlushTest, FlushWhile
<1>4. CASE LoopWaitBlock(l) \/ LoopSpuriousWakeup(l)
  BY <1>4 DEF LoopWaitBlock, WaitTest, WaitSleep, LoopSpuriousWakeup,
              SpuriousWakeup
<1>5. CASE LoopWaitTake(l)
  BY <1>5 DEF LoopWaitTake, WaitTake
<1>6. CASE LoopWaitBroken(l)
  BY <1>6 DEF LoopWaitBroken, WaitBroken
<1>7. CASE RunTask(l)
  BY <1>7 DEF RunTask, Finish
<1>8. CASE FlushPop(l)
  BY <1>8 DEF FlushPop, Pop
<1> QED
  BY <1>1, <1>2, <1>3, <1>4, <1>5, <1>6, <1>7, <1>8 DEF LoopStep

\* The invariant about who runs is inductive, given the types.
LEMMA ControlInvNext ==
    ASSUME ~RestartWhileRunning, TypeInv, ControlInv, [Next]_vars
    PROVE  ControlInv'
<1>1. CASE UNCHANGED vars
  BY <1>1 DEF ControlInv, OnlyOwnedLoopRuns, OwnerInv, Free, vars, queueVars,
              loopVars, ownerVars
<1>2. CASE Start \/ (\E flush \in BOOLEAN : StopCall(flush)) \/ OwnerStep
  BY <1>2, ControlInvOwner
<1>3. CASE \E p \in Pushers : PushAccept(p) \/ PusherStep(p)
  BY <1>3, ControlInvPusher
<1>4. CASE \E l \in Loops : LoopStep(l) \/ LoopSpuriousWakeup(l)
  BY <1>4, ControlInvLoop
<1> QED
  BY <1>1, <1>2, <1>3, <1>4 DEF Next

\* Both hold in every reachable state.
LEMMA TypeAndControl ==
    ASSUME ~RestartWhileRunning
    PROVE  Spec => [](TypeInv /\ ControlInv)
<1>1. Init => TypeInv /\ ControlInv
  BY TypeInvInit, ControlInvInit
<1>2. (TypeInv /\ ControlInv) /\ [Next]_vars => (TypeInv /\ ControlInv)'
  <2> SUFFICES ASSUME TypeInv, ControlInv, [Next]_vars
               PROVE  TypeInv' /\ ControlInv'
    OBVIOUS
  <2> QED
    BY TypeInvNext, ControlInvNext
<1> QED
  BY <1>1, <1>2, PTL DEF Spec

\* Once Stop has returned no loop is left, and there is never a second one.
THEOREM OneLoopAtATime ==
    ASSUME ~RestartWhileRunning
    PROVE  Spec => []OnlyOwnedLoopRuns
<1>1. ControlInv => OnlyOwnedLoopRuns
  BY DEF ControlInv
<1> QED
  BY <1>1, TypeAndControl, PTL

-----------------------------------------------------------------------------
(* Every task once, in order.                                              *)

\* With one loop, what is in hand is what that loop holds.
LEMMA InHandOfLoop ==
    ASSUME TypeInv, OnlyOwnedLoopRuns, NEW l \in Loops, ~Free(l)
    PROVE  /\ InHand = (IF held[l] # NoTask THEN 1 ELSE 0)
           /\ \A m \in Loops \ {l} : held[m] = NoTask
BY DEF InHand, OnlyOwnedLoopRuns, TypeInv, HeldWhileRunning, Running, Free,
       Exited

\* The step of WaitTake and of FlushPop: the head of the queue goes in hand.
LEMMA TakeKeepsOrder ==
    ASSUME TypeInv, OnlyOwnedLoopRuns, ExactlyOnceInOrder,
           NEW l \in Loops, ~Free(l), pc[l] \notin Running,
           items # <<>>,
           items' = Tail(items),
           held' = [held EXCEPT ![l] = Head(items)],
           UNCHANGED <<done, pushed>>
    PROVE  ExactlyOnceInOrder'
<1> USE DEF TypeInv, TypeOK, QueueTypeOK
<1>1. held[l] = NoTask /\ \A m \in Loops \ {l} : held[m] = NoTask
  BY InHandOfLoop DEF HeldWhileRunning
<1>2. InHand = 0
  BY <1>1, InHandOfLoop
<1>3. Len(items) \in Nat \ {0} /\ Head(items) = items[1]
  BY EmptySeq
<1>4. /\ Head(items) = Len(done) + 1
      /\ \A i \in 1..Len(items) : items[i] = Len(done) + i
      /\ pushed = Len(done) + Len(items)
  BY <1>2, <1>3 DEF ExactlyOnceInOrder
<1>5. /\ Len(items') = Len(items) - 1
      /\ \A i \in 1..Len(items') : items'[i] = items[i + 1]
  BY HeadTailProperties
<1>6. held'[l] = Len(done) + 1 /\ \A m \in Loops \ {l} : held'[m] = NoTask
  BY <1>1, <1>4
<1>7. InHand' = 1
  BY <1>6 DEF InHand
<1> QED
  BY <1>3, <1>4, <1>5, <1>6, <1>7 DEF ExactlyOnceInOrder

\* The end of task(): what was in hand is finished.
LEMMA FinishKeepsOrder ==
    ASSUME TypeInv, OnlyOwnedLoopRuns, ExactlyOnceInOrder,
           NEW l \in Loops, pc[l] \in Running, Finish(l),
           UNCHANGED <<items, pushed>>
    PROVE  ExactlyOnceInOrder'
<1> USE DEF TypeInv, TypeOK, QueueTypeOK
<1>1. held[l] # NoTask /\ ~Free(l)
  BY DEF HeldWhileRunning, Running, Free, Exited
<1>2. InHand = 1 /\ \A m \in Loops \ {l} : held[m] = NoTask
  BY <1>1, InHandOfLoop
<1>3. held[l] = Len(done) + 1 /\ held[l] \in Task
  BY <1>1 DEF ExactlyOnceInOrder, Task
<1>4. /\ Len(done') = Len(done) + 1
      /\ \A i \in 1..Len(done) : done'[i] = done[i]
      /\ done'[Len(done) + 1] = Len(done) + 1
  BY <1>3, AppendProperties DEF Finish
<1>5. \A m \in Loops : held'[m] = NoTask
  BY <1>2 DEF Finish
<1>6. InHand' = 0
  BY <1>5 DEF InHand
<1>7. /\ \A i \in 1..Len(done) : done[i] = i
      /\ \A i \in 1..Len(items) : items[i] = Len(done) + 1 + i
      /\ pushed = Len(done) + 1 + Len(items)
  BY <1>2 DEF ExactlyOnceInOrder
<1>8. \A i \in 1..Len(done') : done'[i] = i
  <2> TAKE i \in 1..Len(done')
  <2>1. i = Len(done) + 1 \/ i \in 1..Len(done)
    BY <1>4, LenProperties
  <2> QED
    BY <2>1, <1>4, <1>7
<1> QED
  BY <1>4, <1>5, <1>6, <1>7, <1>8 DEF ExactlyOnceInOrder

\* A push appends the next number.
LEMMA PushKeepsOrder ==
    ASSUME TypeInv, ExactlyOnceInOrder, NEW p \in Pushers, PushEnqueue(p)
    PROVE  ExactlyOnceInOrder'
<1> USE DEF TypeInv, TypeOK, QueueTypeOK
<1>1. pushed + 1 \in Task
  BY DEF Task
<1>2. /\ Len(items') = Len(items) + 1
      /\ \A i \in 1..Len(items) : items'[i] = items[i]
      /\ items'[Len(items) + 1] = pushed + 1
  BY <1>1, AppendProperties DEF PushEnqueue, Push
<1>3. UNCHANGED <<held, done>> /\ pushed' = pushed + 1
  BY DEF PushEnqueue, loopVars
<1>4. InHand' = InHand /\ InHand \in {0, 1}
  BY <1>3 DEF InHand
<1>5. Len(done) \in Nat /\ Len(items) \in Nat
  BY LenProperties
<1>6. /\ pushed = Len(done) + InHand + Len(items)
      /\ \A i \in 1..Len(items) : items[i] = Len(done) + InHand + i
  BY DEF ExactlyOnceInOrder
<1>7. pushed' = Len(done) + InHand + Len(items')
  BY <1>2, <1>3, <1>4, <1>5, <1>6
<1>8. \A i \in 1..Len(items') : items'[i] = Len(done) + InHand + i
  <2> TAKE i \in 1..Len(items')
  <2>1. CASE i = Len(items) + 1
    BY <2>1, <1>2, <1>4, <1>5, <1>6
  <2>2. CASE i \in 1..Len(items)
    BY <2>2, <1>2, <1>6
  <2> QED
    BY <2>1, <2>2, <1>2, <1>5
<1> QED
  BY <1>3, <1>4, <1>7, <1>8 DEF ExactlyOnceInOrder

\* No other step touches the tasks.
LEMMA OtherStepsKeepOrder ==
    ASSUME ExactlyOnceInOrder, UNCHANGED <<items, held, done, pushed>>
    PROVE  ExactlyOnceInOrder'
BY DEF ExactlyOnceInOrder, InHand

\* Each step keeps the tasks in order: it takes one, runs one, pushes one, or leaves
\* them alone.
LEMMA OrderNext ==
    ASSUME TypeInv, OnlyOwnedLoopRuns, ExactlyOnceInOrder, [Next]_vars
    PROVE  ExactlyOnceInOrder'
<1> USE DEF queueVars, loopVars, ownerVars, pushVars
<1>1. CASE UNCHANGED vars
  BY <1>1, OtherStepsKeepOrder DEF vars
<1>2. CASE Start \/ (\E flush \in BOOLEAN : StopCall(flush)) \/ OwnerStep
  BY <1>2, OtherStepsKeepOrder
     DEF Start, StopCall, OwnerStep, StopFlushFlag, StopBreakWait,
         StopNotifyAll, Join, BreakWait, NotifyAll
<1>3. ASSUME NEW p \in Pushers, PushAccept(p) \/ PusherStep(p)
      PROVE  ExactlyOnceInOrder'
  BY <1>3, PushKeepsOrder, OtherStepsKeepOrder
     DEF PusherStep, PushAccept, PushNotify, NotifyOne
<1>4. ASSUME NEW l \in Loops, LoopStep(l) \/ LoopSpuriousWakeup(l)
      PROVE  ExactlyOnceInOrder'
  <2>1. CASE LoopWaitTake(l)
    BY <2>1, TakeKeepsOrder
       DEF LoopWaitTake, WaitTake, Wanted, Goto, Free, Exited, Running
  <2>2. CASE FlushPop(l)
    BY <2>2, TakeKeepsOrder
       DEF FlushPop, Pop, Empty, Goto, Free, Exited, Running
  <2>3. CASE RunTask(l)
    BY <2>3, FinishKeepsOrder DEF RunTask, Goto, Running
  <2>4. CASE LoopWaitBlock(l) \/ LoopSpuriousWakeup(l) \/ LoopWaitBroken(l)
    BY <2>4, OtherStepsKeepOrder
       DEF LoopWaitBlock, WaitTest, WaitSleep, LoopSpuriousWakeup,
           SpuriousWakeup, LoopWaitBroken, WaitBroken
  <2>5. CASE LoopEnter(l) \/ LoopWhile(l) \/ LoopFlushTest(l) \/ FlushWhile(l)
    BY <2>5, OtherStepsKeepOrder
       DEF LoopEnter, LoopWhile, LoopFlushTest, FlushWhile
  <2> QED
    BY <1>4, <2>1, <2>2, <2>3, <2>4, <2>5 DEF LoopStep
<1> QED
  BY <1>1, <1>2, <1>3, <1>4 DEF Next

\* Every accepted task is run at most once and in the order of the pushes, in
\* however many sessions: nothing is lost, repeated or overtaken.
THEOREM TasksOnceInOrder ==
    ASSUME ~RestartWhileRunning
    PROVE  Spec => []ExactlyOnceInOrder
<1>1. Init => ExactlyOnceInOrder
  <2> SUFFICES ASSUME Init PROVE ExactlyOnceInOrder
    OBVIOUS
  <2>1. InHand = 0 /\ Len(done) = 0 /\ Len(items) = 0 /\ pushed = 0
    BY EmptySeq DEF Init, QueueInit, InHand
  <2>2. \A l \in Loops : held[l] = NoTask
    BY DEF Init
  <2> QED
    BY <2>1, <2>2 DEF ExactlyOnceInOrder
<1>2. TypeInv /\ ControlInv /\ ExactlyOnceInOrder /\ [Next]_vars
         => ExactlyOnceInOrder'
  BY OrderNext DEF ControlInv
<1> QED
  BY <1>1, <1>2, TypeAndControl, PTL DEF Spec

-----------------------------------------------------------------------------
(* A flush that comes to its end.                                          *)

FlushInv == FlushRunsWhatWasOwed /\ owed <= pushed

Invs == TypeInv /\ ControlInv /\ ExactlyOnceInOrder

\* What has been proved so far, in every reachable state.
LEMMA InvsHold ==
    ASSUME ~RestartWhileRunning
    PROVE  Spec => []Invs
BY TypeAndControl, TasksOnceInOrder, PTL DEF Invs

\* The pcs and the queue decide PopFindsTask: only the one loop shrinks the queue.
LEMMA PopFindsTaskNext ==
    ASSUME Invs, PopFindsTask, [Next]_vars
    PROVE  PopFindsTask'
<1> USE DEF Invs, TypeInv, TypeOK, QueueTypeOK, PopFindsTask, Empty, queueVars,
            loopVars, ownerVars, pushVars
<1>1. CASE UNCHANGED vars
  BY <1>1 DEF vars
<1>2. CASE Start
  BY <1>2 DEF Start
<1>3. CASE (\E flush \in BOOLEAN : StopCall(flush)) \/ OwnerStep
  BY <1>3 DEF StopCall, OwnerStep, StopFlushFlag, StopBreakWait, StopNotifyAll,
              Join, BreakWait, NotifyAll
<1>4. ASSUME NEW p \in Pushers, PushAccept(p) \/ PusherStep(p)
      PROVE  PopFindsTask'
  <2>1. CASE PushEnqueue(p)
    <3>1. pushed + 1 \in Task
      BY DEF Task
    <3>2. Len(items') = Len(items) + 1 /\ Len(items) \in Nat
      BY <2>1, <3>1, AppendProperties, LenProperties DEF PushEnqueue, Push
    <3>3. items' # <<>>
      BY <3>2, EmptySeq
    <3> QED
      BY <3>3
  <2> QED
    BY <1>4, <2>1 DEF PusherStep, PushAccept, PushNotify, NotifyOne
<1>5. ASSUME NEW l \in Loops, LoopStep(l) \/ LoopSpuriousWakeup(l)
      PROVE  PopFindsTask'
  <2> USE DEF Goto
  <2>1. CASE LoopWaitTake(l) \/ FlushPop(l)
    <3>1. \A m \in Loops \ {l} : pc[m] # "pop"
      BY <2>1 DEF LoopWaitTake, FlushPop, ControlInv, OnlyOwnedLoopRuns, Free,
                  Exited
    <3> QED
      BY <2>1, <3>1 DEF LoopWaitTake, FlushPop
  <2>2. CASE FlushWhile(l)
    BY <2>2 DEF FlushWhile
  <2>3. CASE LoopEnter(l) \/ LoopWhile(l) \/ LoopFlushTest(l) \/ RunTask(l)
    BY <2>3 DEF LoopEnter, LoopWhile, LoopFlushTest, RunTask
  <2>4. CASE LoopWaitBlock(l) \/ LoopWaitBroken(l) \/ LoopSpuriousWakeup(l)
    BY <2>4 DEF LoopWaitBlock, WaitTest, WaitSleep, LoopWaitBroken, WaitBroken,
                LoopSpuriousWakeup, SpuriousWakeup
  <2> QED
    BY <1>5, <2>1, <2>2, <2>3, <2>4 DEF LoopStep
<1> QED
  BY <1>1, <1>2, <1>3, <1>4, <1>5 DEF Next

\* Pop never meets an empty queue, although Flush tests it without the mutex.
THEOREM FlushNeverPopsEmptyQueue ==
    ASSUME ~RestartWhileRunning
    PROVE  Spec => []PopFindsTask
<1>1. Init => PopFindsTask
  BY DEF Init, PopFindsTask
<1>2. Invs /\ PopFindsTask /\ [Next]_vars => PopFindsTask'
  BY PopFindsTaskNext
<1> QED
  BY <1>1, <1>2, InvsHold, PTL DEF Spec

\* Each step keeps what a flush has run ahead of what it owed.
LEMMA FlushInvNext ==
    ASSUME ~RestartWhileRunning, Invs, FlushInv, [Next]_vars
    PROVE  FlushInv'
<1> USE DEF Invs, TypeInv, TypeOK, QueueTypeOK, FlushInv, FlushRunsWhatWasOwed,
            queueVars, loopVars, ownerVars, pushVars
<1>0. Len(done) \in Nat /\ Len(items) \in Nat
  BY LenProperties
<1>1. CASE UNCHANGED vars
  BY <1>1 DEF vars
<1>2. CASE Start
  BY <1>2 DEF Start
<1>3. CASE \E flush \in BOOLEAN : StopCall(flush)
  <2>1. handle \in Loops /\ pc[handle] # "flushed"
    BY <1>3 DEF StopCall, ControlInv, OwnerInv
  <2> QED
    BY <1>3, <2>1 DEF StopCall
<1>4. CASE OwnerStep
  BY <1>4, NoLoopAssumption
     DEF OwnerStep, StopFlushFlag, StopBreakWait, StopNotifyAll, Join,
         BreakWait, NotifyAll
<1>5. ASSUME NEW p \in Pushers, PushAccept(p) \/ PusherStep(p)
      PROVE  FlushInv'
  BY <1>5 DEF PusherStep, PushAccept, PushEnqueue, PushNotify, Push, NotifyOne
<1>6. ASSUME NEW l \in Loops, LoopStep(l) \/ LoopSpuriousWakeup(l)
      PROVE  FlushInv'
  <2> USE DEF Goto
  <2>1. CASE FlushWhile(l)
    <3>1. CASE Empty
      <4>1. InHand = 0
        BY <2>1, InHandOfLoop
           DEF FlushWhile, ControlInv, HeldWhileRunning, Running, Free, Exited
      <4>2. Len(done) >= owed
        BY <3>1, <4>1, <1>0, EmptySeq DEF ExactlyOnceInOrder, Empty
      <4> QED
        BY <2>1, <4>2 DEF FlushWhile
    <3>2. CASE ~Empty
      BY <2>1, <3>2 DEF FlushWhile
    <3> QED
      BY <3>1, <3>2
  <2>2. CASE RunTask(l)
    <3>1. Len(done') = Len(done) + 1
      BY <2>2, AppendProperties
         DEF RunTask, Finish, HeldWhileRunning, Running, Task
    <3> QED
      BY <2>2, <3>1, <1>0 DEF RunTask, Finish
  <2>3. CASE LoopEnter(l) \/ LoopWhile(l) \/ LoopFlushTest(l)
    BY <2>3 DEF LoopEnter, LoopWhile, LoopFlushTest
  <2>4. CASE LoopWaitBlock(l) \/ LoopWaitBroken(l) \/ LoopSpuriousWakeup(l)
    BY <2>4 DEF LoopWaitBlock, WaitTest, WaitSleep, LoopWaitBroken, WaitBroken,
                LoopSpuriousWakeup, SpuriousWakeup
  <2>5. CASE LoopWaitTake(l) \/ FlushPop(l)
    BY <2>5 DEF LoopWaitTake, WaitTake, FlushPop, Pop
  <2> QED
    BY <1>6, <2>1, <2>2, <2>3, <2>4, <2>5 DEF LoopStep
<1> QED
  BY <1>1, <1>2, <1>3, <1>4, <1>5, <1>6 DEF Next

\* A loop that ends after a flush has run all that Stop(true) found enqueued.
\* (Stop(true) may also end without a flush, if the loop left its while before
\* Stop had stored _flushRequested; then it ends as "unflushed".)
THEOREM FlushIsComplete ==
    ASSUME ~RestartWhileRunning
    PROVE  Spec => []FlushRunsWhatWasOwed
<1>1. Init => FlushInv
  BY DEF Init, FlushInv, FlushRunsWhatWasOwed
<1>2. Invs /\ FlushInv /\ [Next]_vars => FlushInv'
  BY FlushInvNext
<1>3. FlushInv => FlushRunsWhatWasOwed
  BY DEF FlushInv
<1> QED
  BY <1>1, <1>2, <1>3, InvsHold, PTL DEF Spec

-----------------------------------------------------------------------------
(* The processor implements SerialTaskService.                             *)

\* The processor begins as the service does.
LEMMA ServiceInit == Init => Service!Init
BY DEF Init, Service!Init

\* Opening and closing a session.
LEMMA ServiceOwner ==
    ASSUME ~RestartWhileRunning, Invs,
           Start \/ (\E flush \in BOOLEAN : StopCall(flush)) \/ OwnerStep
    PROVE  [Service!Next]_Service!vars
<1> USE DEF Invs, TypeInv, TypeOK, queueVars, loopVars, pushVars, Service!vars
<1>1. CASE Start
  <2>1. PICK l \in Loops : Free(l) /\ handle' = l
    BY <1>1 DEF Start
  <2>2. held'[l] = NoTask /\ l # NoLoop /\ handle = NoLoop
    BY <1>1, <2>1, NoLoopAssumption
       DEF Start, HeldWhileRunning, Free, Running, Exited
  <2>3. Service!Open
    BY <1>1, <2>1, <2>2 DEF Start, Service!Open
  <2> QED
    BY <2>3 DEF Service!Next
<1>2. CASE \E flush \in BOOLEAN : StopCall(flush)
  BY <1>2 DEF StopCall
<1>3. CASE StopFlushFlag \/ StopBreakWait \/ StopNotifyAll
  BY <1>3 DEF StopFlushFlag, StopBreakWait, StopNotifyAll
<1>4. CASE Join
  <2>1. handle \in Loops /\ handle # NoLoop /\ joined = handle
    BY <1>4 DEF Join, ControlInv, OwnerInv
  <2>2. held[handle] = NoTask
    BY <1>4, <2>1 DEF Join, HeldWhileRunning, Running, Exited
  <2>3. Service!Close
    BY <1>4, <2>1, <2>2 DEF Join, Service!Close
  <2> QED
    BY <2>3 DEF Service!Next
<1> QED
  BY <1>1, <1>2, <1>3, <1>4 DEF OwnerStep

\* A push is an Accept when it enqueues, and else no step of the service.
LEMMA ServicePusher ==
    ASSUME NEW p \in Pushers, PushAccept(p) \/ PusherStep(p)
    PROVE  [Service!Next]_Service!vars
<1> USE DEF queueVars, loopVars, ownerVars, Service!vars
<1>1. CASE PushEnqueue(p)
  <2>1. Service!Accept
    BY <1>1 DEF PushEnqueue, Service!Accept
  <2> QED
    BY <2>1 DEF Service!Next
<1>2. CASE PushAccept(p) \/ PushNotify(p)
  BY <1>2 DEF PushAccept, PushNotify
<1> QED
  BY <1>1, <1>2 DEF PusherStep

\* Taking a task off the queue begins it.
LEMMA ServiceBegin ==
    ASSUME Invs, NEW l \in Loops, l = handle, ~Free(l), held[l] = NoTask,
           items # <<>>,
           held' = [held EXCEPT ![l] = Head(items)],
           UNCHANGED <<handle, pushed, done>>
    PROVE  Service!Begin
<1> USE DEF Invs, TypeInv, TypeOK, QueueTypeOK
<1>1. InHand = 0
  BY InHandOfLoop DEF ControlInv
<1>2. Len(items) \in Nat \ {0} /\ Head(items) = items[1] /\ Len(done) \in Nat
  BY EmptySeq, LenProperties
<1>3. Head(items) = Len(done) + 1 /\ Len(done) < pushed
  BY <1>1, <1>2 DEF ExactlyOnceInOrder
<1> QED
  BY <1>3, NoLoopAssumption DEF Service!Begin

\* A loop's step is a Begin, a Finish, or no step of the service.
LEMMA ServiceLoop ==
    ASSUME Invs, NEW l \in Loops, LoopStep(l) \/ LoopSpuriousWakeup(l)
    PROVE  [Service!Next]_Service!vars
<1> USE DEF Invs, TypeInv, TypeOK, QueueTypeOK, queueVars, ownerVars, pushVars,
            Service!vars, Goto
<1>1. CASE LoopWaitTake(l) \/ FlushPop(l)
  <2>1. /\ ~Free(l) /\ l = handle /\ held[l] = NoTask
        /\ items # <<>>
        /\ held' = [held EXCEPT ![l] = Head(items)]
        /\ UNCHANGED <<handle, pushed, done>>
    BY <1>1 DEF LoopWaitTake, WaitTake, Wanted, FlushPop, Pop, Empty,
                HeldWhileRunning, Running, Free, Exited, ControlInv,
                OnlyOwnedLoopRuns
  <2> QED
    BY <2>1, ServiceBegin DEF Service!Next
<1>2. CASE RunTask(l)
  <2>1. l = handle /\ l # NoLoop /\ held[l] # NoTask
    BY <1>2, NoLoopAssumption
       DEF RunTask, Finish, HeldWhileRunning, Running, Free, Exited, ControlInv,
           OnlyOwnedLoopRuns
  <2>2. Service!Finish
    BY <1>2, <2>1 DEF RunTask, Finish, Service!Finish
  <2> QED
    BY <2>2 DEF Service!Next
<1>3. CASE LoopEnter(l) \/ LoopWhile(l) \/ LoopFlushTest(l) \/ FlushWhile(l)
  BY <1>3 DEF LoopEnter, LoopWhile, LoopFlushTest, FlushWhile
<1>4. CASE LoopWaitBlock(l) \/ LoopWaitBroken(l) \/ LoopSpuriousWakeup(l)
  BY <1>4 DEF LoopWaitBlock, LoopWaitBroken, LoopSpuriousWakeup, loopVars
<1> QED
  BY <1>1, <1>2, <1>3, <1>4 DEF LoopStep

\* Every step of the processor is a step of the service, or none.
LEMMA ServiceNext ==
    ASSUME ~RestartWhileRunning, Invs, [Next]_vars
    PROVE  [Service!Next]_Service!vars
<1>1. CASE UNCHANGED vars
  BY <1>1 DEF vars, loopVars, ownerVars, pushVars, Service!vars
<1>2. CASE Start \/ (\E flush \in BOOLEAN : StopCall(flush)) \/ OwnerStep
  BY <1>2, ServiceOwner
<1>3. CASE \E p \in Pushers : PushAccept(p) \/ PusherStep(p)
  BY <1>3, ServicePusher
<1>4. CASE \E l \in Loops : LoopStep(l) \/ LoopSpuriousWakeup(l)
  BY <1>4, ServiceLoop
<1> QED
  BY <1>1, <1>2, <1>3, <1>4 DEF Next

\* Step by step the processor is the serial, ordered, once-only service.
THEOREM ServiceImplemented ==
    ASSUME ~RestartWhileRunning
    PROVE  Spec => ImplementsService
<1>1. Invs /\ [Next]_vars => [Service!Next]_Service!vars
  BY ServiceNext
<1> QED
  BY <1>1, ServiceInit, InvsHold, PTL
     DEF Spec, ImplementsService, Service!Spec
=============================================================================
