---------------------------- MODULE MyTaskProcessor ----------------------------
(***************************************************************************)
(* MyAMQP/MyTaskProcessor: one thread, the loop, runs the packaged tasks   *)
(* that other threads push.  An owner (the thread inside MyAMQPClientImpl's *)
(* SubscribeToReceive or Close) starts and stops it.                       *)
(*                                                                         *)
(* A task is the number of its push: the first task ever enqueued is 1.    *)
(* pushed, done and owed are history variables: the code keeps none of     *)
(* them, and no guard but the bound MaxTasks reads them.                   *)
(***************************************************************************)
EXTENDS MyReceiveTaskQueue, FiniteSets

CONSTANTS Pushers,              \* the threads that call Push
          MaxTasks,             \* a bound of the model: tasks ever accepted
          RestartWhileRunning   \* may Start be called when the loop runs?

ASSUME MaxTasksAssumption == MaxTasks \in Nat
ASSUME RestartAssumption == RestartWhileRunning \in BOOLEAN

VARIABLES shouldRun,       \* _shouldRun
          flushRequested,  \* _flushRequested
          handle,          \* _loopHandle: the loop it stands for; NoLoop: not valid
          pc,              \* where each loop is in ProcessLoop and Flush
          held,            \* the task a loop took off the queue; 0: none
          owner,           \* where the owner is in Start or Stop
          flushArg,        \* the argument of Stop
          joined,          \* the loop the owner blocks on
          pusher,          \* where each pusher is in Push
          pushed,          \* history: how many tasks were enqueued
          done,            \* history: the tasks that were run, in that order
          owed             \* history: pushed, when Stop was last called

loopVars == <<pc, held, done>>
ownerVars == <<shouldRun, flushRequested, handle, owner, flushArg, joined, owed>>
pushVars == <<pusher, pushed>>
vars == <<queueVars, loopVars, ownerVars, pushVars>>

NoTask == 0
Task == Nat \ {NoTask}

\* How ProcessLoop can end: the early return -1, the end without a flush, the
\* end after one, and an exception, which only MyAckProcessor's tasks throw.
Exited == {"aborted", "unflushed", "flushed", "threw"}

Running == {"run", "flushRun"}   \* inside task()

LoopPC == {"none", "launched", "while", "wait", "flushTest", "flush", "pop"}
            \cup Running \cup Exited

OwnerPC == {"idle", "flushFlag", "breakWait", "notifyAll", "join"}

PusherPC == {"idle", "enqueue", "notify"}

\* The types of the processor's state.  A loop that took an item off the queue
\* got a task, never a number that stands for none: the history is a sequence of
\* tasks whatever Wait and Pop return.
TypeOK ==
    /\ QueueTypeOK(Task)
    /\ shouldRun \in BOOLEAN
    /\ flushRequested \in BOOLEAN
    /\ handle \in Loops \cup {NoLoop}
    /\ pc \in [Loops -> LoopPC]
    /\ held \in [Loops -> Nat]
    /\ owner \in OwnerPC
    /\ flushArg \in BOOLEAN
    /\ joined \in Loops \cup {NoLoop}
    /\ pusher \in [Pushers -> PusherPC]
    /\ pushed \in Nat
    /\ done \in Seq(Task)
    /\ owed \in Nat

Init ==
    /\ QueueInit
    /\ shouldRun = FALSE
    /\ flushRequested = FALSE
    /\ handle = NoLoop
    /\ pc = [l \in Loops |-> "none"]
    /\ held = [l \in Loops |-> NoTask]
    /\ owner = "idle"
    /\ flushArg = FALSE
    /\ joined = NoLoop
    /\ pusher = [p \in Pushers |-> "idle"]
    /\ pushed = 0
    /\ done = <<>>
    /\ owed = 0

-----------------------------------------------------------------------------
(* The owner.                                                              *)

\* A thread that has not been launched, or whose loop returned.
Free(l) == pc[l] \in {"none"} \cup Exited

\* Start stores its flags and then launches the loop.  No other thread can
\* tell the stores apart: a pusher that sees _shouldRun early enqueues a task
\* the loop would find anyway.  Assigning to a valid _loopHandle destroys the
\* old future, and that blocks until the old loop returns.
Start ==
    /\ owner = "idle"
    /\ handle = NoLoop \/ RestartWhileRunning
    /\ shouldRun' = TRUE
    /\ flushRequested' = FALSE
    /\ breakWait' = FALSE
    /\ \E l \in Loops :
          /\ Free(l) /\ l # handle
          /\ pc' = [pc EXCEPT ![l] = "launched"]
          /\ handle' = l
    /\ joined' = handle
    /\ owner' = IF handle = NoLoop THEN "idle" ELSE "join"
    /\ UNCHANGED <<items, mutex, waiting, held, done, flushArg, owed, pushVars>>

\* Stop returns at once when there is no loop; else it first clears _shouldRun.
StopCall(flush) ==
    /\ owner = "idle"
    /\ handle # NoLoop
    /\ shouldRun' = FALSE
    /\ flushArg' = flush
    /\ joined' = handle
    /\ owed' = pushed
    /\ owner' = "flushFlag"
    /\ UNCHANGED <<queueVars, loopVars, pushVars, flushRequested, handle>>

StopFlushFlag ==
    /\ owner = "flushFlag"
    /\ flushRequested' = flushArg
    /\ owner' = "breakWait"
    /\ UNCHANGED <<queueVars, loopVars, pushVars, shouldRun, handle, flushArg,
                   joined, owed>>

StopBreakWait ==
    /\ owner = "breakWait"
    /\ BreakWait
    /\ owner' = "notifyAll"
    /\ UNCHANGED <<loopVars, pushVars, shouldRun, flushRequested, handle,
                   flushArg, joined, owed>>

StopNotifyAll ==
    /\ owner = "notifyAll"
    /\ NotifyAll
    /\ owner' = "join"
    /\ UNCHANGED <<loopVars, pushVars, shouldRun, flushRequested, handle,
                   flushArg, joined, owed>>

\* Mutant: Stop does not wait for the loop to return.
JoinWithoutWaiting ==
    /\ owner = "join"
    /\ handle' = IF handle = joined THEN NoLoop ELSE handle
    /\ joined' = NoLoop
    /\ owner' = "idle"
    /\ UNCHANGED <<queueVars, loopVars, pushVars, shouldRun, flushRequested,
                   flushArg, owed>>

\* _loopHandle.get(), or the destructor of a replaced future, returns.
Join ==
    /\ owner = "join"
    /\ pc[joined] \in Exited
    /\ handle' = IF handle = joined THEN NoLoop ELSE handle
    /\ joined' = NoLoop
    /\ owner' = "idle"
    /\ UNCHANGED <<queueVars, loopVars, pushVars, shouldRun, flushRequested,
                   flushArg, owed>>

OwnerStep == StopFlushFlag \/ StopBreakWait \/ StopNotifyAll \/ Join

-----------------------------------------------------------------------------
(* The pushers.                                                            *)

\* Push finds _shouldRun set and will enqueue.  A Push that finds it clear
\* returns false and changes nothing.
PushAccept(p) ==
    /\ pusher[p] = "idle"
    /\ shouldRun
    /\ pushed + Cardinality({q \in Pushers : pusher[q] = "enqueue"}) < MaxTasks
    /\ pusher' = [pusher EXCEPT ![p] = "enqueue"]
    /\ UNCHANGED <<queueVars, loopVars, ownerVars, pushed>>

PushEnqueue(p) ==
    /\ pusher[p] = "enqueue"
    /\ Push(pushed + 1)
    /\ pushed' = pushed + 1
    /\ pusher' = [pusher EXCEPT ![p] = "notify"]
    /\ UNCHANGED <<loopVars, ownerVars>>

PushNotify(p) ==
    /\ pusher[p] = "notify"
    /\ NotifyOne
    /\ pusher' = [pusher EXCEPT ![p] = "idle"]
    /\ UNCHANGED <<loopVars, ownerVars, pushed>>

PusherStep(p) == PushEnqueue(p) \/ PushNotify(p)

-----------------------------------------------------------------------------
(* The loop.                                                               *)

Goto(l, from, to) ==
    /\ pc[l] = from
    /\ pc' = [pc EXCEPT ![l] = to]

LoopEnter(l) ==
    /\ Goto(l, "launched", IF shouldRun THEN "while" ELSE "aborted")
    /\ UNCHANGED <<queueVars, held, done, ownerVars, pushVars>>

LoopWhile(l) ==
    /\ Goto(l, "while", IF shouldRun THEN "wait" ELSE "flushTest")
    /\ UNCHANGED <<queueVars, held, done, ownerVars, pushVars>>

LoopWaitBlock(l) ==
    /\ pc[l] = "wait"
    /\ WaitTest(l) \/ WaitSleep(l)
    /\ UNCHANGED <<loopVars, ownerVars, pushVars>>

\* Mutant: the item is removed from the queue and never moved out.
LoopWaitTakeDrops(l) ==
    /\ WaitTake(l)
    /\ Goto(l, "wait", "run")
    /\ UNCHANGED <<held, done, ownerVars, pushVars>>

LoopWaitTake(l) ==
    /\ WaitTake(l)
    /\ Goto(l, "wait", "run")
    /\ held' = [held EXCEPT ![l] = Head(items)]
    /\ UNCHANGED <<done, ownerVars, pushVars>>

LoopWaitBroken(l) ==
    /\ WaitBroken(l)
    /\ Goto(l, "wait", "flushTest")
    /\ UNCHANGED <<held, done, ownerVars, pushVars>>

LoopSpuriousWakeup(l) ==
    /\ SpuriousWakeup(l)
    /\ UNCHANGED <<loopVars, ownerVars, pushVars>>

Finish(l) ==
    /\ done' = Append(done, held[l])
    /\ held' = [held EXCEPT ![l] = NoTask]

\* task() returns.  It never throws: an exception goes to the task's future.
RunTask(l) ==
    /\ Goto(l, "run", "while") \/ Goto(l, "flushRun", "flush")
    /\ Finish(l)
    /\ UNCHANGED <<queueVars, ownerVars, pushVars>>

\* Mutant: the flush is a do-while.
LoopFlushTestPopsFirst(l) ==
    /\ Goto(l, "flushTest", IF flushRequested THEN "pop" ELSE "unflushed")
    /\ UNCHANGED <<queueVars, held, done, ownerVars, pushVars>>

LoopFlushTest(l) ==
    /\ Goto(l, "flushTest", IF flushRequested THEN "flush" ELSE "unflushed")
    /\ UNCHANGED <<queueVars, held, done, ownerVars, pushVars>>

\* Mutant: the flush leaves the last task.
FlushWhileLeavesLast(l) ==
    /\ Goto(l, "flush", IF Len(items) <= 1 THEN "flushed" ELSE "pop")
    /\ UNCHANGED <<queueVars, held, done, ownerVars, pushVars>>

FlushWhile(l) ==
    /\ Goto(l, "flush", IF Empty THEN "flushed" ELSE "pop")
    /\ UNCHANGED <<queueVars, held, done, ownerVars, pushVars>>

\* Pop throws when the queue is empty; PopFindsTask says that it never is.
FlushPop(l) ==
    /\ Pop
    /\ Goto(l, "pop", "flushRun")
    /\ held' = [held EXCEPT ![l] = Head(items)]
    /\ UNCHANGED <<done, ownerVars, pushVars>>

LoopStep(l) ==
    \/ LoopEnter(l) \/ LoopWhile(l)
    \/ LoopWaitBlock(l) \/ LoopWaitTake(l) \/ LoopWaitBroken(l)
    \/ RunTask(l)
    \/ LoopFlushTest(l) \/ FlushWhile(l) \/ FlushPop(l)

-----------------------------------------------------------------------------
Next ==
    \/ Start
    \/ \E flush \in BOOLEAN : StopCall(flush)
    \/ OwnerStep
    \/ \E p \in Pushers : PushAccept(p) \/ PusherStep(p)
    \/ \E l \in Loops : LoopStep(l) \/ LoopSpuriousWakeup(l)

Spec == Init /\ [][Next]_vars

\* Every thread that can take a step is scheduled, and a pusher that keeps
\* asking for the mutex gets it.  Nobody has to call Start, Stop or Push, and
\* no spurious wake-up has to happen.
FairSpec ==
    /\ Spec
    /\ WF_vars(OwnerStep)
    /\ \A p \in Pushers : SF_vars(PusherStep(p))
    /\ \A l \in Loops : WF_vars(LoopStep(l))

-----------------------------------------------------------------------------
(* What must hold.                                                         *)

\* How many tasks are off the queue but not finished.
InHand == IF \E l \in Loops : held[l] # NoTask THEN 1 ELSE 0

\* Every task whose Push returned true is run at most once, and the tasks are
\* run in the order of their pushes, across any number of stops, flushes and
\* restarts: the finished tasks, the task in hand and the queue are always the
\* sequence 1, 2, ..., pushed cut in three.
ExactlyOnceInOrder ==
    /\ \A i \in 1..Len(done) : done[i] = i
    /\ \A l \in Loops : held[l] # NoTask => held[l] = Len(done) + 1
    /\ \A i \in 1..Len(items) : items[i] = Len(done) + InHand + i
    /\ pushed = Len(done) + InHand + Len(items)

\* Once Stop has returned no loop is left that could run a task or touch the
\* queue, and no two loops ever run: MyAMQPClientImpl frees what the tasks
\* capture as soon as Stop returns.
OnlyOwnedLoopRuns == \A l \in Loops : ~Free(l) => l = handle

\* Flush tests the queue without the mutex and pops it in a second step: the
\* queue is not empty when it pops, so Pop does not throw in the loop.
PopFindsTask == (\E l \in Loops : pc[l] = "pop") => ~Empty

\* A loop that came to the end of its flush has run every task that was
\* enqueued before Stop was called (MyTaskProcessor.cpp:94-104).
FlushRunsWhatWasOwed ==
    \A l \in Loops : pc[l] = "flushed" /\ l = handle => Len(done) >= owed

\* Stop returns, or its loop sleeps for ever on an empty queue: the wake-up
\* BreakWait loses is the only way Stop can hang.
StopReturnsOrSleepsForever ==
    []<>(owner = "idle") \/ <>[](waiting = {joined} /\ Empty)

\* While nobody stops the processor every accepted task is run: the
\* notify_one of Push, outside the mutex, never leaves a task behind.
AcceptedTaskRuns ==
    \A n \in 1..MaxTasks : pushed >= n ~> Len(done) >= n \/ ~shouldRun

\* What the processor is to its clients: see SerialTaskService.
Service == INSTANCE SerialTaskService WITH
    open <- handle # NoLoop,
    current <- IF handle = NoLoop THEN NoTask ELSE held[handle],
    accepted <- pushed,
    finished <- done

\* The processor implements the service: a session is open while the handle is
\* valid, and the task of the session is the one its loop holds.
ImplementsService == Service!Spec

-----------------------------------------------------------------------------
(* What the repository says and the code does not do.                      *)

\* README.md:69: a waiter tests its predicate and unlocks the mutex "in one
\* atomic operation", so BreakWait always ends the wait and Stop returns.
StopReturns == owner # "idle" ~> owner = "idle"
=============================================================================
