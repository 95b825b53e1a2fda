-------------------------- MODULE MyReceiveTaskQueue --------------------------
(***************************************************************************)
(* The thread safe queue every processor of the client is built on         *)
(* (MyAMQP/MyReceiveTaskQueue.h, .cpp).  This module has no Next of its    *)
(* own: it holds the queue's state and one action per critical section,    *)
(* and the processors that own a queue conjoin these actions with their    *)
(* own program counters.                                                   *)
(*                                                                         *)
(* Grain of atomicity.  A lock_guard section is one action, because no     *)
(* step of another thread can be seen inside it.  Wait is the exception:   *)
(* it tests its predicate with the mutex held and goes to sleep in a later *)
(* step, and BreakWait writes the flag the predicate reads WITHOUT taking  *)
(* the mutex, so the test and the sleep are two actions here.              *)
(***************************************************************************)
EXTENDS Naturals, Sequences

CONSTANTS Loops,    \* the threads that call Wait
          NoLoop    \* "no thread": the value of a free mutex

ASSUME NoLoopAssumption == NoLoop \notin Loops

VARIABLES items,      \* _itemQueue
          breakWait,  \* _breakWait
          mutex,      \* the loop that holds _mutex across its predicate test
          waiting     \* the loops asleep on _conditional

queueVars == <<items, breakWait, mutex, waiting>>

QueueInit ==
    /\ items = <<>>
    /\ breakWait = FALSE
    /\ mutex = NoLoop
    /\ waiting = {}

QueueTypeOK(Item) ==
    /\ items \in Seq(Item)
    /\ breakWait \in BOOLEAN
    /\ mutex \in Loops \cup {NoLoop}
    /\ waiting \subseteq Loops

-----------------------------------------------------------------------------
\* Mutants of Push: it takes no lock; it queues last in, first out.
PushUnlocked(item) ==
    /\ items' = Append(items, item)
    /\ UNCHANGED <<breakWait, mutex, waiting>>

PushFront(item) ==
    /\ mutex = NoLoop
    /\ items' = <<item>> \o items
    /\ UNCHANGED <<breakWait, mutex, waiting>>

\* The locked half of Push: the item is appended with the mutex held.
Push(item) ==
    /\ mutex = NoLoop
    /\ items' = Append(items, item)
    /\ UNCHANGED <<breakWait, mutex, waiting>>

\* Mutant: Push forgets to notify.
NotifyNobody == UNCHANGED queueVars

\* notify_one, after the mutex was released: it wakes one sleeper, if any.
NotifyOne ==
    /\ \/ waiting = {} /\ UNCHANGED waiting
       \/ \E l \in waiting : waiting' = waiting \ {l}
    /\ UNCHANGED <<items, breakWait, mutex>>

\* The predicate of Wait, written once because Wait evaluates it on entry
\* and again after every wake-up.
Wanted == items # <<>> \/ breakWait

\* Wait takes the mutex and finds its predicate false; it still holds the mutex.
WaitTest(l) ==
    /\ mutex = NoLoop
    /\ l \notin waiting
    /\ ~Wanted
    /\ mutex' = l
    /\ UNCHANGED <<items, breakWait, waiting>>

\* condition_variable::wait: release the mutex and block, in one step.
WaitSleep(l) ==
    /\ mutex = l
    /\ mutex' = NoLoop
    /\ waiting' = waiting \cup {l}
    /\ UNCHANGED <<items, breakWait>>

\* Wait returns true: the predicate held, the wait was not broken.
WaitTake(l) ==
    /\ mutex = NoLoop
    /\ l \notin waiting
    /\ Wanted
    /\ ~breakWait
    /\ items' = Tail(items)
    /\ UNCHANGED <<breakWait, mutex, waiting>>

\* Wait returns false: the wait was broken, whatever the queue holds.
WaitBroken(l) ==
    /\ mutex = NoLoop
    /\ l \notin waiting
    /\ Wanted
    /\ breakWait
    /\ UNCHANGED queueVars

\* A condition variable may wake its waiter for no reason; Wait tests again.
SpuriousWakeup(l) ==
    /\ l \in waiting
    /\ waiting' = waiting \ {l}
    /\ UNCHANGED <<items, breakWait, mutex>>

\* BreakWait is two steps, neither of which takes the mutex.
BreakWait ==
    /\ breakWait' = TRUE
    /\ UNCHANGED <<items, mutex, waiting>>

NotifyAll ==
    /\ waiting' = {}
    /\ UNCHANGED <<items, breakWait, mutex>>

\* Empty reads the queue without the mutex.
Empty == items = <<>>

\* Mutant: Pop reads the front and forgets to remove it.
PopKeeps ==
    /\ mutex = NoLoop
    /\ ~Empty
    /\ UNCHANGED queueVars

\* Pop, of a queue that is not empty.
Pop ==
    /\ mutex = NoLoop
    /\ ~Empty
    /\ items' = Tail(items)
    /\ UNCHANGED <<breakWait, mutex, waiting>>
=============================================================================
