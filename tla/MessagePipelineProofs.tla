------------------------- MODULE MessagePipelineProofs -------------------------
(***************************************************************************)
(* What TLAPS proves of MessagePipeline, for any set of loops and pushers  *)
(* and any bounds: that no pause loses a future, that a flush never waits  *)
(* for a task that can still run, and that an ack is sent on the channel   *)
(* of its message.                                                         *)
(*                                                                         *)
(* The calls that are left of the client's call say which of the two       *)
(* processors has a loop, and what each loop may find there.               *)
(***************************************************************************)
EXTENDS MessagePipeline, FiniteSetTheorems, SequenceTheorems, TLAPS

\* No task is 0: a number, which every leaf below may see.
USE DEF R!NoTask, A!NoTask

Subscribing == {<<"startReceive", "startAck", "consume">>, <<"startAck", "consume">>,
                <<"consume">>}
Pausing == {<<"pauseRead", "stopAck", "stopReceive">>, <<"stopAck", "stopReceive">>,
            <<"stopReceive">>}
Resuming == {<<"startAck", "startReceive", "resumeRead">>, <<"startReceive", "resumeRead">>,
             <<"resumeRead">>}
Flushing == {<<"stopReceive", "stopAck", "disconnect">>, <<"stopAck", "disconnect">>}
Dropping == {<<"stopAck", "stopReceive", "disconnect">>, <<"stopReceive", "disconnect">>}
Closing == Flushing \cup Dropping \cup {<<"disconnect">>}

CallLists == {<<>>} \cup Subscribing \cup Pausing \cup Resuming \cup Closing

-----------------------------------------------------------------------------
(* The client.                                                             *)

\* A processor that is stopped, or is being stopped, and one that runs.
RStarted == rHandle # NoLoop /\ rOwner = "idle"
AStarted == handle # NoLoop /\ owner = "idle"

\* What is done and what is left of the call say which processor runs.
CallsInv ==
    /\ calls \in CallLists
    /\ subscribed \in BOOLEAN /\ reading \in BOOLEAN /\ open \in BOOLEAN
    /\ flush \in BOOLEAN
    /\ ~open => /\ calls = <<>> /\ ~subscribed /\ ~reading
                /\ handle = NoLoop /\ owner = "idle"
    /\ open /\ ~subscribed => reading
    /\ calls \in Subscribing => ~subscribed
    /\ calls \in Pausing => subscribed /\ ~flush
    /\ calls \in {<<"stopAck", "stopReceive">>, <<"stopReceive">>} \cup Resuming
          => subscribed /\ ~reading
    /\ calls = <<"pauseRead", "stopAck", "stopReceive">> => reading
    /\ calls \in Dropping => ~flush

\* Where the receive processor must run, and where it must not.
ReceiveInv ==
    /\ calls \in Pausing \cup {<<"startAck", "consume">>, <<"consume">>, <<"resumeRead">>}
          => RStarted
    /\ calls \in {<<"startReceive", "startAck", "consume">>,
                  <<"startAck", "startReceive", "resumeRead">>,
                  <<"startReceive", "resumeRead">>,
                  <<"stopAck", "disconnect">>, <<"disconnect">>}
          => ~RStarted
    /\ calls = <<>> => (RStarted <=> subscribed /\ reading)

\* The same for the ack processor.
AckInv ==
    /\ calls \in {<<"consume">>, <<"pauseRead", "stopAck", "stopReceive">>,
                  <<"stopAck", "stopReceive">>, <<"startReceive", "resumeRead">>,
                  <<"resumeRead">>}
          => AStarted
    /\ calls \in {<<"startReceive", "startAck", "consume">>, <<"startAck", "consume">>,
                  <<"stopReceive">>, <<"startAck", "startReceive", "resumeRead">>,
                  <<"stopReceive", "disconnect">>, <<"disconnect">>}
          => ~AStarted
    /\ calls = <<>> => (AStarted <=> subscribed /\ reading)

-----------------------------------------------------------------------------
(* The two processors.                                                     *)

\* No loop runs but the one that the handle stands for, and the owner waits for
\* that one.
RLoopsInv ==
    /\ \A l \in Loops : ~R!Free(l) => l = rHandle
    /\ \A l \in Loops : rHeld[l] # 0 <=> rPc[l] \in R!Running
    /\ rOwner # "idle" => rHandle # NoLoop /\ rJoined = rHandle

ALoopsInv ==
    /\ \A l \in Loops : ~A!Free(l) => l = handle
    /\ \A l \in Loops : held[l] # 0 <=> pc[l] \in A!Running
    /\ owner # "idle" => handle # NoLoop /\ joined = handle
    /\ handle # NoLoop => last = handle

\* A loop that nobody stops goes on, and one flushes only if it was told to: by a
\* Close, which has stopped the receive processor before.
FlushInv ==
    /\ AStarted => /\ shouldRun /\ ~breakWait /\ ~flushRequested
                   /\ pc[handle] \in {"launched", "while", "wait", "run"}
    /\ owner = "flushFlag" => ~flushRequested
    /\ handle # NoLoop /\ flushRequested => flushArg
    /\ owner # "idle" /\ flushArg => rHandle = NoLoop
    /\ \A l \in Loops : pc[l] \in {"flush", "pop", "flushRun"} => flushRequested

\* A flush leaves only what was pushed after its Stop began.
OwedInv ==
    /\ owed <= pushed
    /\ last # NoLoop /\ pc[last] = "flushed" => \A i \in 1..Len(items) : items[i] > owed

-----------------------------------------------------------------------------
(* The messages.                                                           *)

\* One pusher is in Push, and all others are not.
OnePusher(f) ==
    \E p \in Pushers : f[p] # "idle" /\ \A q \in Pushers : q # p => f[q] = "idle"
NoPusher(f) == \A p \in Pushers : f[p] = "idle"

\* The task of the message that is delivered is in the queue; its future is not yet.
TaskIsIn == \/ delivering \in {"ack", "future"}
            \/ delivering = "receive" /\ \E p \in Pushers : rPusher[p] = "notify"
FutureIsDue == /\ TaskIsIn
               /\ delivering = "future" => \E p \in Pushers : pusher[p] = "enqueue"

\* The request processor delivers one message at a time.
DeliverInv ==
    /\ delivering \in {"idle", "receive", "ack", "future"}
    /\ IF delivering = "receive" THEN OnePusher(rPusher) ELSE NoPusher(rPusher)
    /\ IF delivering = "future" THEN OnePusher(pusher) ELSE NoPusher(pusher)
    /\ delivering # "idle" => subscribed /\ reading
    /\ TaskIsIn => rPushed > 0 /\ deliveredOn[rPushed] = channel
    /\ rPushed <= MaxTasks /\ pushed <= MaxTasks
    /\ \A p \in Pushers : /\ rPusher[p] = "enqueue" => rPushed < MaxTasks
                          /\ pusher[p] = "enqueue" => pushed < MaxTasks

\* On the first channel, before it is closed, every message that the receive
\* processor got is one that the ack processor gets, in that order.
PausesInv ==
    /\ channel = 0 => ~open /\ rPushed = 0 /\ pushed = 0
    /\ channel = 1 /\ open /\ calls \notin Closing =>
          /\ rPushed = Len(taskOf) + (IF FutureIsDue THEN 1 ELSE 0)
          /\ \A n \in 1..Len(taskOf) : taskOf[n] = n

\* A message whose handler has not ended is in the queue of the receive processor,
\* or in the hand of its loop.
ResultInv ==
    /\ \A i \in 1..Len(rItems) : rItems[i] <= rPushed
    /\ \A l \in Loops : rHeld[l] <= rPushed
    /\ \A n \in 1..rPushed : result[n] = "pending" =>
          \/ \E i \in 1..Len(rItems) : rItems[i] = n
          \/ \E l \in Loops : rHeld[l] = n

\* A future that is still to be acknowledged came from this channel, or a Close
\* has left it.
Own(f) == f \in left \/ (open /\ deliveredOn[taskOf[f]] = channel)
OwnInv ==
    /\ \A i \in 1..Len(items) : items[i] <= pushed /\ Own(items[i])
    /\ \A l \in Loops : held[l] # 0 => held[l] <= pushed /\ Own(held[l])

-----------------------------------------------------------------------------
(* The sequences of calls.                                                 *)

\* The first and the rest of short sequences.
LEMMA ShortSequences ==
    ASSUME NEW a, NEW b, NEW c
    PROVE  /\ Head(<<a, b, c>>) = a /\ Tail(<<a, b, c>>) = <<b, c>>
           /\ Head(<<a, b>>) = a /\ Tail(<<a, b>>) = <<b>>
           /\ Head(<<a>>) = a /\ Tail(<<a>>) = <<>>
           /\ <<a, b>> \o <<c>> = <<a, b, c>>
<1> DEFINE S == {a, b, c}
<1> DEFINE s == <<a, b, c>>
<1> DEFINE t == <<b, c>>
<1>1. /\ s \in Seq(S) /\ Len(s) = 3 /\ s[1] = a /\ s[2] = b /\ s[3] = c /\ s # <<>>
      /\ t \in Seq(S) /\ Len(t) = 2 /\ t[1] = b /\ t[2] = c
  OBVIOUS
<1> HIDE DEF s, t, S
<1>2. Head(s) = a
  BY <1>1, HeadTailProperties
<1>3. Tail(s) = t
  <2> DEFINE r == Tail(s)
  <2>1. /\ r \in Seq(S) /\ Len(r) = Len(s) - 1
        /\ \A i \in 1..Len(r) : r[i] = s[i + 1]
    BY <1>1, HeadTailProperties
  <2> HIDE DEF r
  <2>2. Len(r) = 2 /\ \A i \in 1..2 : r[i] = t[i]
    BY <1>1, <2>1
  <2>3. r = t
    BY <1>1, <2>1, <2>2, SeqEqual
  <2> QED
    BY <2>3 DEF r
<1>4. <<a, b>> \o <<c>> = s
  <2> DEFINE u == <<a, b>>
  <2> DEFINE v == <<c>>
  <2>1. /\ u \in Seq(S) /\ Len(u) = 2 /\ u[1] = a /\ u[2] = b
        /\ v \in Seq(S) /\ Len(v) = 1 /\ v[1] = c
    BY DEF S
  <2> HIDE DEF u, v
  <2>2. /\ u \o v \in Seq(S) /\ Len(u \o v) = Len(u) + Len(v)
        /\ \A i \in 1..Len(u) + Len(v) :
              (u \o v)[i] = IF i <= Len(u) THEN u[i] ELSE v[i - Len(u)]
    BY <2>1, ConcatProperties
  <2>3. Len(u \o v) = 3 /\ \A i \in 1..3 : (u \o v)[i] = s[i]
    BY <1>1, <2>1, <2>2
  <2>4. u \o v = s
    BY <1>1, <2>2, <2>3, SeqEqual
  <2> QED
    BY <2>4 DEF u, v
<1> QED
  BY <1>2, <1>3, <1>4 DEF s, t

\* What a call does next, and what is left of it then.
LEMMA NextOfCall ==
    ASSUME NEW c \in CallLists, c # <<>>
    PROVE  \/ c = <<"startReceive", "startAck", "consume">>
              /\ Head(c) = "startReceive" /\ Tail(c) = <<"startAck", "consume">>
           \/ c = <<"startAck", "consume">>
              /\ Head(c) = "startAck" /\ Tail(c) = <<"consume">>
           \/ c = <<"consume">> /\ Head(c) = "consume" /\ Tail(c) = <<>>
           \/ c = <<"pauseRead", "stopAck", "stopReceive">>
              /\ Head(c) = "pauseRead" /\ Tail(c) = <<"stopAck", "stopReceive">>
           \/ c = <<"stopAck", "stopReceive">>
              /\ Head(c) = "stopAck" /\ Tail(c) = <<"stopReceive">>
           \/ c = <<"stopReceive">> /\ Head(c) = "stopReceive" /\ Tail(c) = <<>>
           \/ c = <<"startAck", "startReceive", "resumeRead">>
              /\ Head(c) = "startAck" /\ Tail(c) = <<"startReceive", "resumeRead">>
           \/ c = <<"startReceive", "resumeRead">>
              /\ Head(c) = "startReceive" /\ Tail(c) = <<"resumeRead">>
           \/ c = <<"resumeRead">> /\ Head(c) = "resumeRead" /\ Tail(c) = <<>>
           \/ c = <<"stopReceive", "stopAck", "disconnect">>
              /\ Head(c) = "stopReceive" /\ Tail(c) = <<"stopAck", "disconnect">>
           \/ c = <<"stopAck", "disconnect">>
              /\ Head(c) = "stopAck" /\ Tail(c) = <<"disconnect">>
           \/ c = <<"stopAck", "stopReceive", "disconnect">>
              /\ Head(c) = "stopAck" /\ Tail(c) = <<"stopReceive", "disconnect">>
           \/ c = <<"stopReceive", "disconnect">>
              /\ Head(c) = "stopReceive" /\ Tail(c) = <<"disconnect">>
           \/ c = <<"disconnect">> /\ Head(c) = "disconnect" /\ Tail(c) = <<>>
<1>1. /\ Head(<<"startReceive", "startAck", "consume">>) = "startReceive"
      /\ Tail(<<"startReceive", "startAck", "consume">>) = <<"startAck", "consume">>
      /\ Head(<<"startAck", "consume">>) = "startAck"
      /\ Tail(<<"startAck", "consume">>) = <<"consume">>
      /\ Head(<<"consume">>) = "consume" /\ Tail(<<"consume">>) = <<>>
  BY ShortSequences
<1>2. /\ Head(<<"pauseRead", "stopAck", "stopReceive">>) = "pauseRead"
      /\ Tail(<<"pauseRead", "stopAck", "stopReceive">>) = <<"stopAck", "stopReceive">>
      /\ Head(<<"stopAck", "stopReceive">>) = "stopAck"
      /\ Tail(<<"stopAck", "stopReceive">>) = <<"stopReceive">>
      /\ Head(<<"stopReceive">>) = "stopReceive" /\ Tail(<<"stopReceive">>) = <<>>
  BY ShortSequences
<1>3. /\ Head(<<"startAck", "startReceive", "resumeRead">>) = "startAck"
      /\ Tail(<<"startAck", "startReceive", "resumeRead">>) = <<"startReceive", "resumeRead">>
      /\ Head(<<"startReceive", "resumeRead">>) = "startReceive"
      /\ Tail(<<"startReceive", "resumeRead">>) = <<"resumeRead">>
      /\ Head(<<"resumeRead">>) = "resumeRead" /\ Tail(<<"resumeRead">>) = <<>>
  BY ShortSequences
<1>4. /\ Head(<<"stopReceive", "stopAck", "disconnect">>) = "stopReceive"
      /\ Tail(<<"stopReceive", "stopAck", "disconnect">>) = <<"stopAck", "disconnect">>
      /\ Head(<<"stopAck", "disconnect">>) = "stopAck"
      /\ Tail(<<"stopAck", "disconnect">>) = <<"disconnect">>
      /\ Head(<<"disconnect">>) = "disconnect" /\ Tail(<<"disconnect">>) = <<>>
  BY ShortSequences
<1>5. /\ Head(<<"stopAck", "stopReceive", "disconnect">>) = "stopAck"
      /\ Tail(<<"stopAck", "stopReceive", "disconnect">>) = <<"stopReceive", "disconnect">>
      /\ Head(<<"stopReceive", "disconnect">>) = "stopReceive"
      /\ Tail(<<"stopReceive", "disconnect">>) = <<"disconnect">>
      /\ Head(<<"disconnect">>) = "disconnect" /\ Tail(<<"disconnect">>) = <<>>
  BY ShortSequences
<1>6. CASE c \in Subscribing \cup Pausing
  BY <1>1, <1>2, <1>6 DEF Subscribing, Pausing
<1>7. CASE c \in Resuming
  BY <1>3, <1>7 DEF Resuming
<1>8. CASE c \in Closing
  BY <1>4, <1>5, <1>8 DEF Flushing, Dropping, Closing
<1> QED
  BY <1>6, <1>7, <1>8 DEF CallLists

\* The calls are calls.
LEMMA CallsAreCalls == CallLists \subseteq Seq(Call)
BY DEF CallLists, Subscribing, Pausing, Resuming, Flushing, Dropping, Closing, Call

-----------------------------------------------------------------------------
(* The receive processor.                                                  *)

RInv == R!TypeOK /\ RLoopsInv

\* Nothing of the receive processor changes.
LEMMA RFrame ==
    ASSUME RInv, UNCHANGED rVars
    PROVE  RInv' /\ (RStarted' <=> RStarted)
BY DEF RInv, RLoopsInv, RStarted, rVars, R!TypeOK, R!QueueTypeOK, R!Free, R!Running

\* Stop goes on: the processor was not running for its client, and will not be.
LEMMA ROwner ==
    ASSUME RInv, R!OwnerStep
    PROVE  /\ RInv' /\ ~RStarted /\ ~RStarted'
           /\ UNCHANGED <<rItems, rPc, rHeld, rDone, rPusher, rPushed>>
           /\ rHandle = NoLoop => rHandle' = NoLoop
<1> USE DEF RInv, RLoopsInv, RStarted, R!TypeOK, R!QueueTypeOK, R!OwnerPC, R!Free,
            R!Exited, R!Running, R!queueVars, R!loopVars, R!pushVars
<1>1. CASE R!StopFlushFlag \/ R!StopBreakWait \/ R!StopNotifyAll
  BY <1>1 DEF R!StopFlushFlag, R!StopBreakWait, R!StopNotifyAll, R!BreakWait, R!NotifyAll
<1>2. CASE R!Join
  BY <1>2 DEF R!Join
<1> QED
  BY <1>1, <1>2 DEF R!OwnerStep

\* Start of a processor that does not run.
LEMMA RStart ==
    ASSUME RInv, R!Start, ~RStarted
    PROVE  /\ RInv' /\ RStarted'
           /\ UNCHANGED <<rItems, rHeld, rDone, rPusher, rPushed>>
<1> USE ThreadsAssumption
    DEF RInv, RLoopsInv, RStarted, R!TypeOK, R!QueueTypeOK, R!OwnerPC, R!LoopPC, R!Free,
        R!Exited, R!Running, R!pushVars
<1>1. PICK l \in Loops : /\ R!Free(l) /\ l # rHandle
                         /\ rPc' = [rPc EXCEPT ![l] = "launched"]
                         /\ rHandle' = l
  BY DEF R!Start
<1>2. rHandle = NoLoop /\ rHeld[l] = 0
  BY <1>1 DEF R!Start
<1>3. R!TypeOK'
  BY <1>1 DEF R!Start
<1>4. RLoopsInv' /\ RStarted'
  BY <1>1, <1>2 DEF R!Start
<1> QED
  BY <1>3, <1>4 DEF R!Start

\* Stop begins.
LEMMA RStop ==
    ASSUME RInv, NEW f \in BOOLEAN, R!StopCall(f)
    PROVE  /\ RInv' /\ ~RStarted'
           /\ UNCHANGED <<rItems, rPc, rHeld, rDone, rPusher, rPushed>>
BY DEF RInv, RLoopsInv, RStarted, R!TypeOK, R!QueueTypeOK, R!OwnerPC, R!Free, R!Exited,
       R!Running, R!StopCall, R!queueVars, R!loopVars, R!pushVars

\* The steps of Push.
LEMMA RPush ==
    ASSUME RInv, NEW p \in Pushers,
           R!PushAccept(p) \/ R!PushEnqueue(p) \/ R!PushNotify(p)
    PROVE  RInv' /\ UNCHANGED <<rHandle, rOwner, rPc, rHeld, rDone>>
<1> USE DEF RInv, RLoopsInv, R!TypeOK, R!QueueTypeOK, R!PusherPC, R!Free, R!Running,
            R!queueVars, R!loopVars, R!ownerVars
<1>1. CASE R!PushAccept(p)
  BY <1>1 DEF R!PushAccept
<1>2. CASE R!PushEnqueue(p)
  <2>1. rPushed + 1 \in R!Task
    BY DEF R!Task
  <2>2. rItems' \in Seq(R!Task)
    BY <1>2, <2>1, AppendProperties DEF R!PushEnqueue, R!Push
  <2> QED
    BY <1>2, <2>2 DEF R!PushEnqueue, R!Push
<1>3. CASE R!PushNotify(p)
  BY <1>3 DEF R!PushNotify, R!NotifyOne
<1> QED
  BY <1>1, <1>2, <1>3

\* What the loop does with the task it holds and with the queue: it takes the first
\* item, comes to the end of its task, or does neither.
RTakes(l) ==
    /\ rItems # <<>> /\ rItems' = Tail(rItems) /\ rHeld[l] = 0
    /\ rHeld' = [rHeld EXCEPT ![l] = Head(rItems)] /\ rDone' = rDone
RFinishes(l) ==
    /\ rHeld[l] # 0 /\ rDone' # rDone
    /\ rHeld' = [rHeld EXCEPT ![l] = 0] /\ rItems' = rItems
RNeither == rHeld' = rHeld /\ rDone' = rDone /\ rItems' = rItems

\* Each step of the loop is one of the three.
LEMMA RLoop ==
    ASSUME RInv, NEW l \in Loops, R!LoopStep(l) \/ R!LoopSpuriousWakeup(l)
    PROVE  /\ RInv' /\ UNCHANGED <<rHandle, rOwner, rPusher, rPushed>>
           /\ RTakes(l) \/ RFinishes(l) \/ RNeither
<1> USE DEF RInv, RLoopsInv, R!TypeOK, R!QueueTypeOK, R!LoopPC, R!Free, R!Running,
            R!Exited, R!Goto, R!queueVars, R!loopVars, R!ownerVars, R!pushVars,
            RTakes, RFinishes, RNeither
<1>1. CASE R!LoopEnter(l) \/ R!LoopWhile(l) \/ R!LoopFlushTest(l) \/ R!FlushWhile(l)
  BY <1>1, ZenonT(40) DEF R!LoopEnter, R!LoopWhile, R!LoopFlushTest, R!FlushWhile
<1>2. CASE R!LoopWaitBlock(l)
  BY <1>2 DEF R!LoopWaitBlock, R!WaitTest, R!WaitSleep
<1>3. CASE R!LoopWaitBroken(l)
  BY <1>3 DEF R!LoopWaitBroken, R!WaitBroken
<1>4. CASE R!LoopSpuriousWakeup(l)
  BY <1>4 DEF R!LoopSpuriousWakeup, R!SpuriousWakeup
<1>5. CASE R!LoopWaitTake(l)
  <2>1. rItems # <<>>
    BY <1>5 DEF R!LoopWaitTake, R!WaitTake, R!Wanted
  <2>2. Head(rItems) \in R!Task /\ rItems' \in Seq(R!Task)
    BY <1>5, <2>1, HeadTailProperties DEF R!LoopWaitTake, R!WaitTake
  <2>3. Head(rItems) \in Nat /\ Head(rItems) # 0
    BY <2>2 DEF R!Task
  <2> QED
    BY <1>5, <2>1, <2>2, <2>3 DEF R!LoopWaitTake, R!WaitTake
<1>6. CASE R!FlushPop(l)
  <2>1. rItems # <<>>
    BY <1>6 DEF R!FlushPop, R!Pop, R!Empty
  <2>2. Head(rItems) \in R!Task /\ rItems' \in Seq(R!Task)
    BY <1>6, <2>1, HeadTailProperties DEF R!FlushPop, R!Pop
  <2>3. Head(rItems) \in Nat /\ Head(rItems) # 0
    BY <2>2 DEF R!Task
  <2> QED
    BY <1>6, <2>1, <2>2, <2>3 DEF R!FlushPop, R!Pop
<1>7. CASE R!RunTask(l)
  <2>1. rHeld[l] \in R!Task
    BY <1>7 DEF R!RunTask, R!Task
  <2>2. rDone' = Append(rDone, rHeld[l]) /\ rHeld' = [rHeld EXCEPT ![l] = 0]
    BY <1>7 DEF R!RunTask, R!Finish
  <2>3. rDone' \in Seq(R!Task) /\ Len(rDone') = Len(rDone) + 1 /\ Len(rDone) \in Nat
    BY <2>1, <2>2, AppendProperties
  <2>4. rDone' # rDone
    BY <2>3
  <2> QED
    BY <1>7, <2>1, <2>2, <2>3, <2>4, ZenonT(40) DEF R!RunTask
<1> QED
  BY <1>1, <1>2, <1>3, <1>4, <1>5, <1>6, <1>7 DEF R!LoopStep

-----------------------------------------------------------------------------
(* The ack processor, with the loop that was started last for it.          *)

AProcessor ==
    A!TypeOK /\ last \in Loops \cup {NoLoop} /\ ALoopsInv /\ FlushInv /\ OwedInv

\* The receive processor stays stopped while the ack processor flushes.
StaysStopped == owner # "idle" /\ rHandle = NoLoop => rHandle' = NoLoop

\* Nothing of the ack processor changes.
LEMMA AFrame ==
    ASSUME AProcessor, UNCHANGED <<ackProcessorVars, last>>, StaysStopped
    PROVE  AProcessor' /\ (AStarted' <=> AStarted)
<1> USE DEF AProcessor, ackProcessorVars
<1>1. A!TypeOK'
  BY DEF A!TypeOK, A!QueueTypeOK
<1>2. ALoopsInv' /\ FlushInv' /\ OwedInv' /\ (AStarted' <=> AStarted)
  BY DEF ALoopsInv, FlushInv, OwedInv, AStarted, StaysStopped, A!Free, A!Running
<1> QED
  BY <1>1, <1>2

\* Stop goes on.
LEMMA AOwner ==
    ASSUME AProcessor, A!OwnerStep, UNCHANGED <<rHandle, last>>
    PROVE  /\ AProcessor' /\ ~AStarted /\ ~AStarted'
           /\ UNCHANGED <<items, pc, held, pusher, pushed>>
           /\ handle = NoLoop => handle' = NoLoop
<1> USE DEF AProcessor, ALoopsInv, FlushInv, OwedInv, AStarted, A!TypeOK, A!QueueTypeOK,
            A!OwnerPC, A!Free, A!Exited, A!Running, A!queueVars, A!loopVars, A!pushVars
<1>1. CASE A!StopFlushFlag
  BY <1>1 DEF A!StopFlushFlag
<1>2. CASE A!StopBreakWait
  BY <1>2 DEF A!StopBreakWait, A!BreakWait
<1>3. CASE A!StopNotifyAll
  BY <1>3 DEF A!StopNotifyAll, A!NotifyAll
<1>4. CASE A!Join
  BY <1>4 DEF A!Join
<1> QED
  BY <1>1, <1>2, <1>3, <1>4 DEF A!OwnerStep

\* Start of a processor that does not run.
LEMMA AStart ==
    ASSUME AProcessor, A!Start, ~AStarted, last' = handle', UNCHANGED rHandle
    PROVE  /\ AProcessor' /\ AStarted'
           /\ UNCHANGED <<items, held, pusher, pushed>>
<1> USE ThreadsAssumption
    DEF AProcessor, A!TypeOK, A!QueueTypeOK, A!OwnerPC, A!LoopPC, A!Free, A!Exited,
        A!Running, A!pushVars
<1>1. PICK l \in Loops : /\ A!Free(l) /\ l # handle
                         /\ pc' = [pc EXCEPT ![l] = "launched"]
                         /\ handle' = l
  BY DEF A!Start
<1>2. /\ handle = NoLoop /\ \A m \in Loops : A!Free(m)
      /\ owner' = "idle" /\ pc'[l] = "launched" /\ held[l] = 0
  BY <1>1, ZenonT(40) DEF A!Start, AStarted, ALoopsInv
<1>3. A!TypeOK' /\ last' \in Loops
  BY <1>1 DEF A!Start
<1>4. ALoopsInv' /\ AStarted'
  BY <1>1, <1>2 DEF A!Start, ALoopsInv, AStarted
<1>5. FlushInv'
  BY <1>1, <1>2 DEF A!Start, FlushInv, AStarted
<1>6. OwedInv'
  BY <1>1, <1>2 DEF A!Start, OwedInv
<1> QED
  BY <1>3, <1>4, <1>5, <1>6 DEF A!Start

\* Stop begins; to flush, when the receive processor has been stopped.
LEMMA AStop ==
    ASSUME AProcessor, NEW f \in BOOLEAN, A!StopCall(f), f => rHandle = NoLoop,
           UNCHANGED <<rHandle, last>>
    PROVE  /\ AProcessor' /\ ~AStarted'
           /\ UNCHANGED <<items, pc, held, pusher, pushed>>
<1> USE DEF AProcessor, A!TypeOK, A!QueueTypeOK, A!OwnerPC, A!queueVars, A!loopVars,
            A!pushVars
<1>1. AStarted /\ last = handle /\ pc[last] # "flushed" /\ ~flushRequested
  BY DEF A!StopCall, ALoopsInv, FlushInv, AStarted
<1>2. A!TypeOK' /\ ALoopsInv' /\ ~AStarted'
  BY DEF A!StopCall, ALoopsInv, AStarted, A!Free, A!Exited, A!Running
<1>3. FlushInv'
  BY <1>1 DEF A!StopCall, FlushInv, AStarted
<1>4. OwedInv'
  BY <1>1 DEF A!StopCall, OwedInv
<1> QED
  BY <1>2, <1>3, <1>4 DEF A!StopCall

\* The steps of Push: what is pushed is not owed to a Stop that has begun.
LEMMA APush ==
    ASSUME AProcessor, NEW p \in Pushers, UNCHANGED <<rHandle, last>>,
           A!PushAccept(p) \/ A!PushEnqueue(p) \/ A!PushNotify(p)
    PROVE  AProcessor' /\ UNCHANGED <<handle, owner, pc, held>>
<1> USE DEF AProcessor, ALoopsInv, FlushInv, OwedInv, AStarted, A!TypeOK, A!QueueTypeOK,
            A!PusherPC, A!Free, A!Running, A!queueVars, A!loopVars, A!ownerVars
<1>1. CASE A!PushAccept(p)
  BY <1>1 DEF A!PushAccept
<1>2. CASE A!PushEnqueue(p)
  <2>1. pushed + 1 \in A!Task
    BY DEF A!Task
  <2>2. /\ items' \in Seq(A!Task) /\ Len(items') = Len(items) + 1 /\ Len(items) \in Nat
        /\ \A i \in 1..Len(items) : items'[i] = items[i]
        /\ items'[Len(items) + 1] = pushed + 1
    BY <1>2, <2>1, AppendProperties DEF A!PushEnqueue, A!Push
  <2>3. OwedInv'
    BY <1>2, <2>2 DEF A!PushEnqueue, A!Push
  <2>4. A!TypeOK'
    BY <1>2, <2>2 DEF A!PushEnqueue, A!Push
  <2>5. ALoopsInv' /\ FlushInv'
    BY <1>2 DEF A!PushEnqueue, A!Push
  <2> QED
    BY <1>2, <2>3, <2>4, <2>5 DEF A!PushEnqueue
<1>3. CASE A!PushNotify(p)
  BY <1>3 DEF A!PushNotify, A!NotifyOne
<1> QED
  BY <1>1, <1>2, <1>3

\* What the loop does with the future it holds, with the queue and with the acks.
ATakes(l) ==
    /\ items # <<>> /\ items' = Tail(items) /\ held[l] = 0
    /\ held' = [held EXCEPT ![l] = Head(items)]
    /\ acked' = acked /\ aborted' = aborted
AFinishes(l) ==
    /\ held[l] # 0 /\ items' = items /\ held' = [held EXCEPT ![l] = 0]
    /\ acked' = acked \/ acked' = Append(acked, held[l])
    /\ aborted' = aborted
ATimesOut(l) ==
    /\ pc[l] = "flushRun" /\ ~A!Settled(l)
    /\ items' = items /\ held' = held /\ acked' = acked /\ aborted' = TRUE
ANeither == items' = items /\ held' = held /\ acked' = acked /\ aborted' = aborted

\* An item is taken off the queue.
LEMMA ATake ==
    ASSUME AProcessor, items # <<>>, items' = Tail(items)
    PROVE  /\ Head(items) \in A!Task /\ Head(items) \in Nat /\ Head(items) # 0
           /\ items' \in Seq(A!Task)
           /\ \A i \in 1..Len(items') : \E j \in 1..Len(items) : items'[i] = items[j]
<1>1. /\ items \in Seq(A!Task) /\ Head(items) \in A!Task /\ items' \in Seq(A!Task)
      /\ Len(items') = Len(items) - 1
      /\ \A i \in 1..Len(items') : items'[i] = items[i + 1]
  BY HeadTailProperties DEF AProcessor, A!TypeOK, A!QueueTypeOK
<1>2. Len(items) \in Nat
  BY <1>1, LenProperties
<1>3. ASSUME NEW i \in 1..Len(items')
      PROVE  \E j \in 1..Len(items) : items'[i] = items[j]
  BY <1>1, <1>2, <1>3
<1> QED
  BY <1>1, <1>3 DEF A!Task

\* Each step of the loop is one of the four.
LEMMA ALoop ==
    ASSUME AProcessor, NEW l \in Loops, UNCHANGED <<rHandle, last>>,
           \/ A!AckLoopStep(l)
           \/ A!LoopSpuriousWakeup(l) /\ UNCHANGED <<acked, aborted>>
    PROVE  /\ AProcessor' /\ UNCHANGED <<handle, owner, pusher, pushed, owed>>
           /\ ATakes(l) \/ AFinishes(l) \/ ATimesOut(l) \/ ANeither
<1> USE DEF A!Goto, A!queueVars, A!loopVars, A!ownerVars, A!pushVars, A!Running, A!Exited,
            A!TypeOK, A!QueueTypeOK, A!LoopPC, A!Free
<1>0. l = handle \/ A!Free(l)
  BY DEF AProcessor, ALoopsInv
<1>1. CASE /\ A!LoopEnter(l) \/ A!LoopWhile(l) \/ A!LoopFlushTest(l) \/ A!FlushWhile(l)
           /\ UNCHANGED <<acked, aborted>>
  <2>1. /\ UNCHANGED <<items, breakWait, mutex, waiting, held, done, shouldRun,
                       flushRequested, handle, owner, flushArg, joined, owed, pusher, pushed>>
        /\ l = handle /\ pc[l] \notin A!Running
        /\ \E x \in A!LoopPC : /\ pc' = [pc EXCEPT ![l] = x] /\ x \notin A!Running
                               /\ AStarted => x \in {"while", "wait"}
                               /\ x \in {"flush", "pop"} => flushRequested
                               /\ x = "flushed" => items = <<>>
    BY <1>0, <1>1 DEF A!LoopEnter, A!LoopWhile, A!LoopFlushTest, A!FlushWhile, A!Empty,
                      AProcessor, FlushInv, AStarted
  <2>2. A!TypeOK' /\ ALoopsInv'
    BY <2>1 DEF AProcessor, ALoopsInv
  <2>3. FlushInv'
    BY <2>1 DEF AProcessor, FlushInv, ALoopsInv, AStarted
  <2>4. OwedInv'
    BY <2>1 DEF AProcessor, OwedInv
  <2> QED
    BY <1>1, <2>1, <2>2, <2>3, <2>4 DEF AProcessor, ANeither
<1>2. CASE /\ \/ A!LoopWaitBlock(l) \/ A!LoopWaitBroken(l) \/ A!LoopSpuriousWakeup(l)
           /\ UNCHANGED <<acked, aborted>>
  <2>1. /\ UNCHANGED <<items, breakWait, held, done, shouldRun,
                       flushRequested, handle, owner, flushArg, joined, owed, pusher, pushed>>
        /\ mutex' \in Loops \cup {NoLoop} /\ waiting' \subseteq Loops
        /\ \/ pc' = pc
           \/ /\ pc[l] = "wait" /\ pc' = [pc EXCEPT ![l] = "flushTest"]
              /\ l = handle /\ ~AStarted
    BY <1>0, <1>2 DEF A!LoopWaitBlock, A!WaitTest, A!WaitSleep, A!LoopWaitBroken,
                      A!WaitBroken, A!LoopSpuriousWakeup, A!SpuriousWakeup, AProcessor,
                      FlushInv
  <2>2. A!TypeOK' /\ ALoopsInv'
    BY <2>1 DEF AProcessor, ALoopsInv
  <2>3. FlushInv' /\ OwedInv'
    BY <2>1 DEF AProcessor, FlushInv, OwedInv, AStarted
  <2> QED
    BY <1>2, <2>1, <2>2, <2>3 DEF AProcessor, ANeither
<1>3. CASE (A!LoopWaitTake(l) \/ A!FlushPop(l)) /\ UNCHANGED <<acked, aborted>>
  <2>1. /\ UNCHANGED <<breakWait, mutex, waiting, done, shouldRun,
                       flushRequested, handle, owner, flushArg, joined, owed, pusher, pushed>>
        /\ items # <<>> /\ items' = Tail(items)
        /\ held' = [held EXCEPT ![l] = Head(items)]
        /\ \/ pc[l] = "wait" /\ pc' = [pc EXCEPT ![l] = "run"]
           \/ pc[l] = "pop" /\ pc' = [pc EXCEPT ![l] = "flushRun"]
    BY <1>3 DEF A!LoopWaitTake, A!WaitTake, A!Wanted, A!FlushPop, A!Pop, A!Empty, AProcessor
  <2>2. /\ Head(items) \in Nat /\ Head(items) # 0 /\ items' \in Seq(A!Task)
        /\ \A i \in 1..Len(items') : \E j \in 1..Len(items) : items'[i] = items[j]
    BY <2>1, ATake
  <2>3. l = handle /\ held[l] = 0 /\ A!TypeOK'
    BY <1>0, <2>1, <2>2 DEF AProcessor, ALoopsInv
  <2>4. ALoopsInv'
    BY <2>1, <2>2, <2>3 DEF AProcessor, ALoopsInv
  <2>5. FlushInv'
    BY <2>1, <2>3 DEF AProcessor, FlushInv, AStarted
  <2>6. OwedInv'
    BY <2>1, <2>2 DEF AProcessor, OwedInv
  <2> QED
    BY <1>3, <2>1, <2>3, <2>4, <2>5, <2>6 DEF AProcessor, ATakes
<1>4. CASE A!SendAck(l) \/ A!SkipAck(l) \/ A!FlushThrows(l)
  <2>1. /\ UNCHANGED <<items, breakWait, mutex, waiting, shouldRun, flushRequested, handle,
                       owner, flushArg, joined, owed, pusher, pushed, aborted>>
        /\ held' = [held EXCEPT ![l] = 0] /\ done' = Append(done, held[l])
        /\ acked' = acked \/ acked' = Append(acked, held[l])
        /\ \/ pc[l] = "run" /\ pc' = [pc EXCEPT ![l] = "while"]
           \/ pc[l] = "flushRun" /\ pc' = [pc EXCEPT ![l] = "flush"]
           \/ pc[l] = "flushRun" /\ pc' = [pc EXCEPT ![l] = "threw"]
    BY <1>4 DEF A!SendAck, A!SkipAck, A!FlushThrows, A!RunTask, A!Finish
  <2>2. l = handle /\ held[l] # 0 /\ held[l] \in A!Task
    BY <1>0, <2>1 DEF AProcessor, ALoopsInv, A!Task
  <2>3. done' \in Seq(A!Task)
    BY <2>1, <2>2, AppendProperties DEF AProcessor
  <2>4. A!TypeOK'
    BY <2>1, <2>3 DEF AProcessor
  <2>5. ALoopsInv'
    BY <2>1, <2>2 DEF AProcessor, ALoopsInv
  <2>6. FlushInv'
    BY <2>1, <2>2 DEF AProcessor, FlushInv, AStarted
  <2>7. OwedInv'
    BY <2>1 DEF AProcessor, OwedInv
  <2> QED
    BY <2>1, <2>2, <2>4, <2>5, <2>6, <2>7 DEF AProcessor, AFinishes
<1>5. CASE A!FlushTimeout(l)
  <2>1. UNCHANGED <<ackProcessorVars, last, rHandle, acked>>
    BY <1>5 DEF A!FlushTimeout, A!vars, ackProcessorVars
  <2>2. AProcessor'
    BY <2>1, AFrame DEF StaysStopped
  <2> QED
    BY <1>5, <2>1, <2>2 DEF A!FlushTimeout, ATimesOut, ackProcessorVars
<1> QED
  BY <1>1, <1>2, <1>3, <1>4, <1>5 DEF A!AckLoopStep, A!LoopOnly

-----------------------------------------------------------------------------
(* The composition.                                                        *)

\* The types of the messages and of the histories.
MessageTypes ==
    /\ channel \in 0..MaxChannels /\ pauses \in 0..MaxPauses
    /\ result \in [Tasks -> {"pending", "ok", "threw"}]
    /\ taskOf \in Seq(Tasks) /\ Len(taskOf) = pushed
    /\ \A f \in 1..Len(taskOf) : taskOf[f] <= rPushed
    /\ deliveredOn \in Seq(1..channel) /\ Len(deliveredOn) = rPushed
    /\ ackedOn \in Seq(1..channel) /\ Len(ackedOn) = Len(acked)
    /\ acked \in Seq(Tasks) /\ aborted \in BOOLEAN
    /\ left \subseteq 1..pushed

ClientInv == CallsInv /\ ReceiveInv /\ AckInv

MessageInv == MessageTypes /\ DeliverInv /\ PausesInv /\ ResultInv /\ OwnInv

\* All that holds, together.
PipelineInv ==
    RInv /\ AProcessor /\ ClientInv /\ MessageInv /\ FlushTimesOutOnlyIfStranded

\* The client makes no step, and its processors run as they did.
LEMMA ClientFrame ==
    ASSUME ClientInv, UNCHANGED clientVars, RStarted' <=> RStarted, AStarted' <=> AStarted,
           handle = NoLoop /\ owner = "idle" => handle' = NoLoop /\ owner' = "idle"
    PROVE  ClientInv'
BY DEF ClientInv, CallsInv, ReceiveInv, AckInv, clientVars

\* What the messages are made of.
messages == <<delivering, result, taskOf, deliveredOn, ackedOn, left, acked,
              rItems, rHeld, rPusher, rPushed, items, held, pusher, pushed>>

\* Nothing of the messages changes, nor does what is said of them; but the client may
\* go on with a call.
LEMMA MessageFrame ==
    ASSUME MessageInv, UNCHANGED <<messages, aborted, channel, pauses, subscribed, reading,
                                   open>>,
           calls \in Closing => calls' \in Closing
    PROVE  MessageInv'
<1> USE DEF MessageInv, messages
<1>1. MessageTypes' /\ ResultInv' /\ OwnInv'
  BY DEF MessageTypes, ResultInv, OwnInv, Own
<1>2. DeliverInv' /\ PausesInv'
  BY DEF DeliverInv, PausesInv, OnePusher, NoPusher, TaskIsIn, FutureIsDue
<1> QED
  BY <1>1, <1>2

\* A step that does not fail the assertion.
LEMMA StillRunning ==
    ASSUME ~aborted, aborted' = aborted
    PROVE  FlushTimesOutOnlyIfStranded'
BY DEF FlushTimesOutOnlyIfStranded

-----------------------------------------------------------------------------
(* The steps of the client.                                                *)

\* Open finds no message under way, and leaves none to the new channel.
LEMMA OpenStep ==
    ASSUME PipelineInv, ~aborted, Open
    PROVE  PipelineInv'
<1> USE DEF Open, messageVars, aVars
<1>1. RInv' /\ (RStarted' <=> RStarted)
  BY RFrame DEF PipelineInv
<1>2. AProcessor' /\ (AStarted' <=> AStarted)
  BY AFrame DEF PipelineInv, StaysStopped, rVars
<1>3. ClientInv'
  BY <1>1, <1>2 DEF PipelineInv, ClientInv, CallsInv, ReceiveInv, AckInv, CallLists,
        Subscribing, Pausing, Resuming, Flushing, Dropping, Closing, ackProcessorVars,
        AStarted
<1>4. /\ ~open /\ delivering = "idle" /\ ~subscribed /\ calls = <<>>
      /\ channel' = channel + 1 /\ channel \in Nat
      /\ UNCHANGED <<messages, aborted, pauses, calls, subscribed>>
  BY DEF PipelineInv, ClientInv, CallsInv, MessageInv, DeliverInv, MessageTypes, messages,
         rVars, ackProcessorVars
<1>5. MessageTypes'
  <2>1. 1..channel \subseteq 1..channel'
    BY <1>4
  <2>2. deliveredOn \in Seq(1..channel') /\ ackedOn \in Seq(1..channel')
    BY <2>1, SeqMonotonic DEF PipelineInv, MessageInv, MessageTypes
  <2>3. channel' \in 0..MaxChannels
    BY <1>4, BoundsAssumption DEF PipelineInv, MessageInv, MessageTypes
  <2> QED
    BY <1>4, <2>2, <2>3 DEF PipelineInv, MessageInv, MessageTypes, messages
<1>6. DeliverInv'
  BY <1>4 DEF PipelineInv, MessageInv, DeliverInv, OnePusher, NoPusher, TaskIsIn, messages
<1>7. PausesInv'
  <2>1. ~FutureIsDue'
    BY <1>4 DEF FutureIsDue, TaskIsIn, messages
  <2>2. CASE channel = 0
    BY <1>4, <2>1, <2>2 DEF PipelineInv, MessageInv, PausesInv, MessageTypes, messages
  <2>3. CASE channel # 0
    BY <1>4, <2>3 DEF PausesInv
  <2> QED
    BY <2>2, <2>3
<1>8. ResultInv' /\ OwnInv'
  BY <1>4 DEF PipelineInv, MessageInv, ResultInv, OwnInv, Own, messages
<1> QED
  BY <1>1, <1>2, <1>3, <1>5, <1>6, <1>7, <1>8, StillRunning DEF PipelineInv, MessageInv

\* The other calls of the client: each finds the processors as it expects them.
LEMMA CallStep ==
    ASSUME PipelineInv, ~aborted,
           \/ SubscribeToReceive \/ Pause \/ Resume \/ \E f \in BOOLEAN : Close(f)
    PROVE  PipelineInv'
<1>1. /\ UNCHANGED <<rVars, aVars, messageVars, channel, subscribed, reading, open>>
      /\ calls = <<>> /\ open
      /\ \/ /\ calls' = <<"startReceive", "startAck", "consume">>
            /\ ~subscribed /\ flush' = flush /\ pauses' = pauses
         \/ /\ calls' = <<"pauseRead", "stopAck", "stopReceive">>
            /\ subscribed /\ reading /\ flush' = FALSE
            /\ pauses < MaxPauses /\ pauses' = pauses + 1
         \/ /\ calls' = <<"startAck", "startReceive", "resumeRead">>
            /\ subscribed /\ ~reading /\ flush' = flush /\ pauses' = pauses
         \/ /\ calls' = <<"stopReceive", "stopAck", "disconnect">>
            /\ flush' = TRUE /\ pauses' = pauses
         \/ /\ calls' = <<"stopAck", "stopReceive", "disconnect">>
            /\ flush' = FALSE /\ pauses' = pauses
  <2>1. CASE SubscribeToReceive \/ Pause \/ Resume
    BY <2>1 DEF SubscribeToReceive, Pause, Resume, Paused, PipelineInv, ClientInv, CallsInv
  <2>2. ASSUME NEW f \in BOOLEAN, Close(f)
        PROVE  /\ UNCHANGED <<rVars, aVars, messageVars, channel, subscribed, reading, open,
                              pauses>>
               /\ calls = <<>> /\ open
               /\ \/ flush' = TRUE /\ calls' = <<"stopReceive", "stopAck", "disconnect">>
                  \/ flush' = FALSE /\ calls' = <<"stopAck", "stopReceive", "disconnect">>
    <3>1. /\ <<"stopReceive", "stopAck">> \o <<"disconnect">>
                = <<"stopReceive", "stopAck", "disconnect">>
          /\ <<"stopAck", "stopReceive">> \o <<"disconnect">>
                = <<"stopAck", "stopReceive", "disconnect">>
      BY ShortSequences, ZenonT(40)
    <3>2. CASE f = TRUE
      BY <2>2, <3>1, <3>2, Zenon DEF Close
    <3>3. CASE f = FALSE
      BY <2>2, <3>1, <3>3, Zenon DEF Close
    <3> QED
      BY <3>2, <3>3
  <2> QED
    BY <2>1, <2>2
<1>2. RInv' /\ (RStarted' <=> RStarted)
  BY <1>1, RFrame DEF PipelineInv
<1>3. AProcessor' /\ (AStarted' <=> AStarted)
  BY <1>1, AFrame DEF PipelineInv, StaysStopped, rVars, aVars, messageVars
<1>4. ClientInv'
  <2> USE DEF Subscribing, Pausing, Resuming, Flushing, Dropping, Closing
  <2>1. CallsInv'
    <3>1. /\ subscribed' \in BOOLEAN /\ reading' \in BOOLEAN /\ open' = TRUE /\ open = TRUE
          /\ flush' \in BOOLEAN /\ (~subscribed' => reading')
      BY <1>1 DEF PipelineInv, ClientInv, CallsInv
    <3>2. CASE calls' = <<"startReceive", "startAck", "consume">>
      BY <1>1, <3>1, <3>2 DEF CallsInv, CallLists
    <3>3. CASE calls' = <<"pauseRead", "stopAck", "stopReceive">>
      BY <1>1, <3>1, <3>3 DEF CallsInv, CallLists
    <3>4. CASE calls' = <<"startAck", "startReceive", "resumeRead">>
      BY <1>1, <3>1, <3>4 DEF CallsInv, CallLists
    <3>5. CASE calls' = <<"stopReceive", "stopAck", "disconnect">>
      BY <1>1, <3>1, <3>5 DEF CallsInv, CallLists
    <3>6. CASE calls' = <<"stopAck", "stopReceive", "disconnect">>
      BY <1>1, <3>1, <3>6 DEF CallsInv, CallLists
    <3> QED
      BY <1>1, <3>2, <3>3, <3>4, <3>5, <3>6
  <2>2. ReceiveInv' /\ AckInv'
    BY <1>1, <1>2, <1>3 DEF PipelineInv, ClientInv, ReceiveInv, AckInv
  <2> QED
    BY <2>1, <2>2 DEF ClientInv
<1>5. MessageInv'
  <2>1. calls \notin Closing
    BY <1>1 DEF Flushing, Dropping, Closing
  <2>2. UNCHANGED <<messages, aborted, channel, subscribed, reading, open>>
    BY <1>1 DEF messages, rVars, aVars, ackProcessorVars, messageVars
  <2>3. pauses' \in 0..MaxPauses
    BY <1>1, BoundsAssumption DEF PipelineInv, MessageInv, MessageTypes
  <2>4. MessageTypes' /\ ResultInv' /\ OwnInv'
    BY <2>2, <2>3 DEF PipelineInv, MessageInv, MessageTypes, ResultInv, OwnInv, Own, messages
  <2>5. DeliverInv' /\ PausesInv'
    BY <2>1, <2>2 DEF PipelineInv, MessageInv, DeliverInv, PausesInv, OnePusher, NoPusher,
                      TaskIsIn, FutureIsDue, messages
  <2> QED
    BY <2>4, <2>5 DEF MessageInv
<1>6. aborted' = aborted
  BY <1>1 DEF aVars
<1> QED
  BY <1>2, <1>3, <1>4, <1>5, <1>6, StillRunning DEF PipelineInv

\* A call goes on: the processor that it started runs, and the one it stopped does
\* not, or not for long.
LEMMA CallGoesOn ==
    ASSUME ClientInv, calls # <<>>, calls' = Tail(calls),
           UNCHANGED <<flush, subscribed, reading, open>>,
           \/ Head(calls) = "startReceive" /\ RStarted' /\ (AStarted' <=> AStarted)
           \/ Head(calls) = "stopReceive" /\ ~RStarted' /\ (AStarted' <=> AStarted)
           \/ Head(calls) = "startAck" /\ (RStarted' <=> RStarted) /\ AStarted'
           \/ Head(calls) = "stopAck" /\ (RStarted' <=> RStarted) /\ ~AStarted'
    PROVE  ClientInv' /\ (calls \in Closing => calls' \in Closing)
<1>0. calls \in CallLists
  BY DEF ClientInv, CallsInv
<1> USE DEF CallLists, Subscribing, Pausing, Resuming, Flushing, Dropping, Closing
<1>1. CASE Head(calls) = "startReceive"
  <2>1. CASE /\ calls = <<"startReceive", "startAck", "consume">>
             /\ calls' = <<"startAck", "consume">>
    <3>1. CallsInv'
      BY <1>1, <2>1 DEF ClientInv, CallsInv
    <3>2. ReceiveInv' /\ AckInv'
      BY <1>1, <2>1 DEF ClientInv, CallsInv, ReceiveInv, AckInv
    <3> QED
      BY <2>1, <3>1, <3>2 DEF ClientInv
  <2>2. CASE /\ calls = <<"startReceive", "resumeRead">>
             /\ calls' = <<"resumeRead">>
    <3>1. CallsInv'
      BY <1>1, <2>2 DEF ClientInv, CallsInv
    <3>2. ReceiveInv' /\ AckInv'
      BY <1>1, <2>2 DEF ClientInv, CallsInv, ReceiveInv, AckInv
    <3> QED
      BY <2>2, <3>1, <3>2 DEF ClientInv
  <2> QED
    BY <1>0, <1>1, <2>1, <2>2, NextOfCall
<1>2. CASE Head(calls) = "stopReceive"
  <2>1. CASE /\ calls = <<"stopReceive">>
             /\ calls' = <<>>
    <3>1. CallsInv'
      BY <1>2, <2>1 DEF ClientInv, CallsInv
    <3>2. ReceiveInv' /\ AckInv'
      BY <1>2, <2>1 DEF ClientInv, CallsInv, ReceiveInv, AckInv
    <3> QED
      BY <2>1, <3>1, <3>2 DEF ClientInv
  <2>2. CASE /\ calls = <<"stopReceive", "stopAck", "disconnect">>
             /\ calls' = <<"stopAck", "disconnect">>
    <3>1. CallsInv'
      BY <1>2, <2>2 DEF ClientInv, CallsInv
    <3>2. ReceiveInv' /\ AckInv'
      BY <1>2, <2>2 DEF ClientInv, CallsInv, ReceiveInv, AckInv
    <3> QED
      BY <2>2, <3>1, <3>2 DEF ClientInv
  <2>3. CASE /\ calls = <<"stopReceive", "disconnect">>
             /\ calls' = <<"disconnect">>
    <3>1. CallsInv'
      BY <1>2, <2>3 DEF ClientInv, CallsInv
    <3>2. ReceiveInv' /\ AckInv'
      BY <1>2, <2>3 DEF ClientInv, CallsInv, ReceiveInv, AckInv
    <3> QED
      BY <2>3, <3>1, <3>2 DEF ClientInv
  <2> QED
    BY <1>0, <1>2, <2>1, <2>2, <2>3, NextOfCall
<1>3. CASE Head(calls) = "startAck"
  <2>1. CASE /\ calls = <<"startAck", "consume">>
             /\ calls' = <<"consume">>
    <3>1. CallsInv'
      BY <1>3, <2>1 DEF ClientInv, CallsInv
    <3>2. ReceiveInv' /\ AckInv'
      BY <1>3, <2>1 DEF ClientInv, CallsInv, ReceiveInv, AckInv
    <3> QED
      BY <2>1, <3>1, <3>2 DEF ClientInv
  <2>2. CASE /\ calls = <<"startAck", "startReceive", "resumeRead">>
             /\ calls' = <<"startReceive", "resumeRead">>
    <3>1. CallsInv'
      BY <1>3, <2>2 DEF ClientInv, CallsInv
    <3>2. ReceiveInv' /\ AckInv'
      BY <1>3, <2>2 DEF ClientInv, CallsInv, ReceiveInv, AckInv
    <3> QED
      BY <2>2, <3>1, <3>2 DEF ClientInv
  <2> QED
    BY <1>0, <1>3, <2>1, <2>2, NextOfCall
<1>4. CASE Head(calls) = "stopAck"
  <2>1. CASE /\ calls = <<"stopAck", "stopReceive">>
             /\ calls' = <<"stopReceive">>
    <3>1. CallsInv'
      BY <1>4, <2>1 DEF ClientInv, CallsInv
    <3>2. ReceiveInv' /\ AckInv'
      BY <1>4, <2>1 DEF ClientInv, CallsInv, ReceiveInv, AckInv
    <3> QED
      BY <2>1, <3>1, <3>2 DEF ClientInv
  <2>2. CASE /\ calls = <<"stopAck", "disconnect">>
             /\ calls' = <<"disconnect">>
    <3>1. CallsInv'
      BY <1>4, <2>2 DEF ClientInv, CallsInv
    <3>2. ReceiveInv' /\ AckInv'
      BY <1>4, <2>2 DEF ClientInv, CallsInv, ReceiveInv, AckInv
    <3> QED
      BY <2>2, <3>1, <3>2 DEF ClientInv
  <2>3. CASE /\ calls = <<"stopAck", "stopReceive", "disconnect">>
             /\ calls' = <<"stopReceive", "disconnect">>
    <3>1. CallsInv'
      BY <1>4, <2>3 DEF ClientInv, CallsInv
    <3>2. ReceiveInv' /\ AckInv'
      BY <1>4, <2>3 DEF ClientInv, CallsInv, ReceiveInv, AckInv
    <3> QED
      BY <2>3, <3>1, <3>2 DEF ClientInv
  <2> QED
    BY <1>0, <1>4, <2>1, <2>2, <2>3, NextOfCall
<1> QED
  BY <1>1, <1>2, <1>3, <1>4

\* The client starts and stops its processors.
LEMMA StartOrStopStep ==
    ASSUME PipelineInv, ~aborted, StartOrStop
    PROVE  PipelineInv'
<1> USE DEF PipelineInv
<1>1. /\ calls # <<>> /\ calls' = Tail(calls) /\ rOwner = "idle" /\ owner = "idle"
      /\ UNCHANGED <<flush, subscribed, reading, open, channel, pauses, delivering, result,
                     taskOf, deliveredOn, ackedOn, left, acked, aborted>>
  BY DEF StartOrStop, Calls, aVars
<1>2. /\ CallsInv /\ ReceiveInv /\ AckInv /\ calls \in CallLists
  BY DEF ClientInv, CallsInv
<1> USE DEF Subscribing, Pausing, Resuming, Flushing, Dropping, Closing
<1>3. CASE Head(calls) \in {"startReceive", "stopReceive"} /\ UNCHANGED <<aVars, last>>
  <2>1. /\ RInv' /\ UNCHANGED <<rItems, rHeld, rPusher, rPushed>>
        /\ Head(calls) = "startReceive" => RStarted'
        /\ Head(calls) = "stopReceive" => ~RStarted'
    <3>1. CASE Head(calls) = "startReceive"
      <4>1. ~RStarted
        BY <1>1, <1>2, <3>1, NextOfCall DEF ReceiveInv
      <4>2. R!Start
        BY <3>1 DEF StartOrStop, Calls
      <4> QED
        BY <3>1, <4>1, <4>2, RStart
    <3>2. CASE Head(calls) = "stopReceive"
      <4>1. R!StopCall(flush) \/ (rHandle = NoLoop /\ UNCHANGED rVars)
        BY <3>2 DEF StartOrStop, Calls
      <4>2. CASE R!StopCall(flush)
        BY <1>2, <3>2, <4>2, RStop DEF CallsInv
      <4>3. CASE rHandle = NoLoop /\ UNCHANGED rVars
        BY <3>2, <4>3, RFrame DEF rVars, RStarted
      <4> QED
        BY <4>1, <4>2, <4>3
    <3> QED
      BY <1>3, <3>1, <3>2
  <2>2. AProcessor' /\ (AStarted' <=> AStarted)
    BY <1>1, <1>3, AFrame DEF aVars, StaysStopped
  <2>3. ClientInv' /\ (calls \in Closing => calls' \in Closing)
    BY <1>1, <1>3, <2>1, <2>2, CallGoesOn
  <2>4. MessageInv'
    BY <1>1, <1>3, <2>1, <2>3, MessageFrame DEF messages, aVars, ackProcessorVars
  <2> QED
    BY <1>1, <2>1, <2>2, <2>3, <2>4, StillRunning
<1>4. CASE Head(calls) \in {"startAck", "stopAck"} /\ UNCHANGED <<rVars, acked, aborted>>
  <2>1. /\ AProcessor' /\ UNCHANGED <<items, held, pusher, pushed>>
        /\ Head(calls) = "startAck" => AStarted'
        /\ Head(calls) = "stopAck" => ~AStarted'
    <3>1. CASE Head(calls) = "startAck"
      <4>1. ~AStarted
        BY <1>1, <1>2, <3>1, NextOfCall DEF AckInv
      <4>2. A!Start /\ last' = handle' /\ UNCHANGED rHandle
        BY <1>4, <3>1 DEF StartOrStop, Calls, rVars
      <4> QED
        BY <3>1, <4>1, <4>2, AStart
    <3>2. CASE Head(calls) = "stopAck"
      <4>1. \/ A!StopCall(flush) /\ UNCHANGED <<rHandle, last>>
            \/ handle = NoLoop /\ UNCHANGED <<ackProcessorVars, last, rHandle>>
        BY <1>4, <3>2 DEF StartOrStop, Calls, rVars
      <4>2. flush => rHandle = NoLoop
        BY <1>1, <1>2, <3>2, NextOfCall DEF CallsInv, ReceiveInv, RStarted
      <4>3. CASE A!StopCall(flush) /\ UNCHANGED <<rHandle, last>>
        BY <1>2, <3>2, <4>2, <4>3, AStop DEF CallsInv
      <4>4. CASE handle = NoLoop /\ UNCHANGED <<ackProcessorVars, last, rHandle>>
        BY <3>2, <4>4, AFrame DEF ackProcessorVars, AStarted, StaysStopped
      <4> QED
        BY <4>1, <4>3, <4>4
    <3> QED
      BY <1>4, <3>1, <3>2
  <2>2. RInv' /\ (RStarted' <=> RStarted)
    BY <1>4, RFrame
  <2>3. ClientInv' /\ (calls \in Closing => calls' \in Closing)
    BY <1>1, <1>4, <2>1, <2>2, CallGoesOn
  <2>4. MessageInv'
    BY <1>1, <1>4, <2>1, <2>3, MessageFrame DEF messages, rVars
  <2> QED
    BY <1>1, <2>1, <2>2, <2>3, <2>4, StillRunning
<1> QED
  BY <1>3, <1>4 DEF StartOrStop, Calls

\* The channel gets its receive handler, its read loop is paused, and resumed.
LEMMA ReadStep ==
    ASSUME PipelineInv, ~aborted, Consume \/ PauseRead \/ ResumeRead
    PROVE  PipelineInv'
<1> USE DEF PipelineInv
<1>1. /\ calls # <<>> /\ calls' = Tail(calls)
      /\ UNCHANGED <<rVars, aVars, last, flush, open, channel, pauses, delivering, result,
                     taskOf, deliveredOn, ackedOn, left>>
      /\ \/ Head(calls) = "consume" /\ subscribed' = TRUE /\ reading' = reading
         \/ /\ Head(calls) = "pauseRead" /\ delivering = "idle"
            /\ reading' = FALSE /\ subscribed' = subscribed
         \/ Head(calls) = "resumeRead" /\ reading' = TRUE /\ subscribed' = subscribed
  BY DEF Consume, PauseRead, ResumeRead, Calls
<1>2. RInv' /\ (RStarted' <=> RStarted)
  BY <1>1, RFrame
<1>3. AProcessor' /\ (AStarted' <=> AStarted)
  BY <1>1, AFrame DEF aVars, rVars, StaysStopped
<1>4. ClientInv' /\ calls \notin Closing
  <2> USE DEF CallLists, Subscribing, Pausing, Resuming, Flushing, Dropping, Closing
  <2>1. calls \in CallLists /\ handle' = handle /\ owner' = owner
    BY <1>1 DEF ClientInv, CallsInv, aVars, ackProcessorVars
  <2>2. \/ /\ calls = <<"consume">> /\ calls' = <<>>
           /\ subscribed' = TRUE /\ reading' = reading
        \/ /\ calls = <<"pauseRead", "stopAck", "stopReceive">>
           /\ calls' = <<"stopAck", "stopReceive">>
           /\ reading' = FALSE /\ subscribed' = subscribed
        \/ /\ calls = <<"resumeRead">> /\ calls' = <<>>
           /\ reading' = TRUE /\ subscribed' = subscribed
    BY <1>1, <2>1, NextOfCall
  <2>3. CASE /\ calls = <<"consume">> /\ calls' = <<>>
             /\ subscribed' = TRUE /\ reading' = reading
    <3>1. CallsInv'
      BY <1>1, <2>1, <2>3 DEF ClientInv, CallsInv, ReceiveInv
    <3>2. ReceiveInv' /\ AckInv' /\ calls \notin Closing
      BY <1>2, <1>3, <2>3 DEF ClientInv, CallsInv, ReceiveInv, AckInv
    <3> QED
      BY <3>1, <3>2 DEF ClientInv
  <2>4. CASE /\ calls = <<"pauseRead", "stopAck", "stopReceive">>
             /\ calls' = <<"stopAck", "stopReceive">>
             /\ reading' = FALSE /\ subscribed' = subscribed
    <3>1. CallsInv'
      <4>1. /\ calls' = <<"stopAck", "stopReceive">>
            /\ subscribed' = TRUE /\ reading' = FALSE /\ open' = TRUE /\ flush' = FALSE
        BY <1>1, <2>4 DEF ClientInv, CallsInv
      <4> QED
        BY ONLY <4>1 DEF CallsInv, CallLists, Subscribing, Pausing, Resuming, Flushing,
                         Dropping, Closing
    <3>2. ReceiveInv' /\ AckInv' /\ calls \notin Closing
      BY <1>2, <1>3, <2>4 DEF ClientInv, CallsInv, ReceiveInv, AckInv
    <3> QED
      BY <3>1, <3>2 DEF ClientInv
  <2>5. CASE /\ calls = <<"resumeRead">> /\ calls' = <<>>
             /\ reading' = TRUE /\ subscribed' = subscribed
    <3>1. CallsInv'
      BY <1>1, <2>1, <2>5 DEF ClientInv, CallsInv, ReceiveInv
    <3>2. ReceiveInv' /\ AckInv' /\ calls \notin Closing
      BY <1>2, <1>3, <2>5 DEF ClientInv, CallsInv, ReceiveInv, AckInv
    <3> QED
      BY <3>1, <3>2 DEF ClientInv
  <2> QED
    BY <2>2, <2>3, <2>4, <2>5
<1>5. UNCHANGED <<messages, aborted, open, channel, pauses>>
  BY <1>1 DEF messages, rVars, aVars, ackProcessorVars
<1>6. MessageTypes' /\ ResultInv' /\ OwnInv'
  BY <1>5 DEF MessageInv, MessageTypes, ResultInv, OwnInv, Own, messages
<1>7. DeliverInv' /\ PausesInv'
  BY <1>1, <1>4, <1>5 DEF MessageInv, DeliverInv, PausesInv, OnePusher, NoPusher, TaskIsIn,
                          FutureIsDue, messages
<1> QED
  BY <1>2, <1>3, <1>4, <1>5, <1>6, <1>7, StillRunning DEF MessageInv

\* The channel is closed: what is in the queue of the ack processor is left to the
\* next one, and no loop holds a future.
LEMMA DisconnectStep ==
    ASSUME PipelineInv, ~aborted, Disconnect
    PROVE  PipelineInv'
<1> USE DEF PipelineInv
<1>1. /\ calls # <<>> /\ calls' = Tail(calls) /\ Head(calls) = "disconnect"
      /\ rOwner = "idle" /\ owner = "idle" /\ delivering = "idle"
      /\ UNCHANGED <<rVars, aVars, last, flush, channel, pauses, delivering, result,
                     taskOf, deliveredOn, ackedOn>>
      /\ open' = FALSE /\ reading' = FALSE /\ subscribed' = FALSE
      /\ left' = left \cup {f \in {items[i] : i \in DOMAIN items} :
                               last # NoLoop /\ pc[last] = "flushed" => f > owed}
  BY DEF Disconnect, Calls
<1>2. calls = <<"disconnect">> /\ calls' = <<>> /\ ~RStarted /\ ~AStarted
  BY <1>1, NextOfCall DEF ClientInv, CallsInv, ReceiveInv, AckInv
<1>3. handle = NoLoop /\ rHandle = NoLoop
  BY <1>1, <1>2 DEF RStarted, AStarted
<1>4. RInv' /\ (RStarted' <=> RStarted)
  BY <1>1, RFrame
<1>5. AProcessor' /\ (AStarted' <=> AStarted)
  BY <1>1, AFrame DEF aVars, rVars, StaysStopped
<1>6. ClientInv'
  <2>1. CallsInv'
    <3>1. /\ handle' = NoLoop /\ owner' = "idle" /\ flush' \in BOOLEAN /\ calls' = <<>>
          /\ open' = FALSE /\ reading' = FALSE /\ subscribed' = FALSE
      BY <1>1, <1>2, <1>3 DEF ClientInv, CallsInv, aVars, ackProcessorVars
    <3> QED
      BY ONLY <3>1 DEF CallsInv, CallLists, Subscribing, Pausing, Resuming,
                              Flushing, Dropping, Closing
  <2>2. ReceiveInv' /\ AckInv'
    BY <1>1, <1>2, <1>4, <1>5 DEF ReceiveInv, AckInv, Subscribing, Pausing, Resuming,
                                  Flushing, Dropping, Closing
  <2> QED
    BY <2>1, <2>2 DEF ClientInv
<1>7. \A i \in 1..Len(items) : items[i] \in left' /\ items[i] \in 1..pushed
  <2>1. items \in Seq(A!Task)
    BY DEF AProcessor, A!TypeOK, A!QueueTypeOK
  <2>2. ASSUME NEW i \in 1..Len(items)
        PROVE  items[i] \in left' /\ items[i] \in 1..pushed
    <3>1. i \in DOMAIN items /\ items[i] \in Nat /\ items[i] # 0
      BY <2>1 DEF A!Task
    <3>2. last # NoLoop /\ pc[last] = "flushed" => items[i] > owed
      BY DEF AProcessor, OwedInv
    <3>3. items[i] <= pushed /\ pushed \in Nat
      BY DEF MessageInv, OwnInv, AProcessor, A!TypeOK
    <3> QED
      BY <1>1, <3>1, <3>2, <3>3
  <2> QED
    BY <2>2
<1>8. MessageTypes' /\ ResultInv'
  <2>1. left' \subseteq 1..pushed
    <3>1. ASSUME NEW f \in left' PROVE f \in 1..pushed
      <4>1. CASE f \in left
        BY <4>1 DEF MessageInv, MessageTypes
      <4>2. CASE f \notin left
        <5>1. PICK i \in DOMAIN items : f = items[i]
          BY <1>1, <4>2
        <5>2. i \in 1..Len(items)
          BY <5>1 DEF AProcessor, A!TypeOK, A!QueueTypeOK
        <5> QED
          BY <1>7, <5>1, <5>2
      <4> QED
        BY <4>1, <4>2
    <3> QED
      BY <3>1
  <2> QED
    BY <1>1, <2>1 DEF MessageInv, MessageTypes, ResultInv, rVars, aVars, ackProcessorVars
<1>9. OwnInv'
  <2>1. \A l \in Loops : held[l] = 0
    BY <1>3, ThreadsAssumption DEF AProcessor, ALoopsInv, A!Free, A!Running, A!Exited
  <2> QED
    BY <1>1, <1>7, <2>1 DEF MessageInv, OwnInv, Own, aVars, ackProcessorVars
<1>10. DeliverInv' /\ PausesInv'
  BY <1>1 DEF MessageInv, DeliverInv, PausesInv, OnePusher, NoPusher, TaskIsIn, rVars, aVars,
              ackProcessorVars
<1>11. aborted' = aborted
  BY <1>1 DEF aVars
<1> QED
  BY <1>4, <1>5, <1>6, <1>8, <1>9, <1>10, <1>11, StillRunning DEF MessageInv

\* The owners of the processors go on with their Stops.
LEMMA OwnerStepsStep ==
    ASSUME PipelineInv, ~aborted, OwnerSteps
    PROVE  PipelineInv'
<1> USE DEF PipelineInv
<1>1. /\ UNCHANGED <<clientVars, messageVars, acked, aborted>>
      /\ \/ R!OwnerStep /\ UNCHANGED aVars
         \/ A!OwnerStep /\ UNCHANGED rVars
  BY DEF OwnerSteps, A!AckOwnerStep, aVars
<1>2. CASE R!OwnerStep /\ UNCHANGED aVars
  <2>1. /\ RInv' /\ (RStarted' <=> RStarted) /\ UNCHANGED <<rItems, rHeld, rPusher, rPushed>>
        /\ rHandle = NoLoop => rHandle' = NoLoop
    BY <1>2, ROwner
  <2>2. AProcessor' /\ (AStarted' <=> AStarted)
    BY <1>1, <1>2, <2>1, AFrame DEF aVars, messageVars, StaysStopped
  <2>3. ClientInv'
    BY <1>1, <1>2, <2>1, <2>2, ClientFrame DEF aVars, ackProcessorVars
  <2>4. MessageInv'
    BY <1>1, <1>2, <2>1, MessageFrame DEF messages, messageVars, clientVars, aVars,
                                          ackProcessorVars
  <2> QED
    BY <1>1, <2>1, <2>2, <2>3, <2>4, StillRunning
<1>3. CASE A!OwnerStep /\ UNCHANGED rVars
  <2>1. RInv' /\ (RStarted' <=> RStarted)
    BY <1>3, RFrame
  <2>2. /\ AProcessor' /\ (AStarted' <=> AStarted) /\ UNCHANGED <<items, held, pusher, pushed>>
        /\ handle = NoLoop /\ owner = "idle" => handle' = NoLoop /\ owner' = "idle"
    <3>1. owner # "idle"
      BY <1>3 DEF A!OwnerStep, A!StopFlushFlag, A!StopBreakWait, A!StopNotifyAll, A!Join
    <3> QED
      BY <1>1, <1>3, <3>1, AOwner DEF messageVars, rVars
  <2>3. ClientInv'
    BY <1>1, <2>1, <2>2, ClientFrame
  <2>4. MessageInv'
    BY <1>1, <1>3, <2>2, MessageFrame DEF messages, messageVars, clientVars, rVars
  <2> QED
    BY <1>1, <2>1, <2>2, <2>3, <2>4, StillRunning
<1> QED
  BY <1>1, <1>2, <1>3

-----------------------------------------------------------------------------
(* The delivery of a message.                                              *)

\* A step of the receive handler that leaves the client alone.
LEMMA DeliverFrame ==
    ASSUME PipelineInv, ~aborted, aborted' = aborted, UNCHANGED clientVars,
           RInv', UNCHANGED <<rHandle, rOwner>>,
           AProcessor', UNCHANGED <<handle, owner>>, MessageInv'
    PROVE  PipelineInv'
<1>1. ClientInv'
  BY ClientFrame DEF PipelineInv, RStarted, AStarted
<1> QED
  BY <1>1, StillRunning DEF PipelineInv

\* While a message is delivered there is a channel.
LEMMA DeliverOnChannel ==
    ASSUME PipelineInv, delivering # "idle"
    PROVE  open /\ subscribed /\ reading /\ channel \in 1..channel
<1>1. open /\ subscribed /\ reading
  BY DEF PipelineInv, MessageInv, DeliverInv, ClientInv, CallsInv
<1>2. channel \in Nat /\ channel # 0
  BY <1>1, BoundsAssumption DEF PipelineInv, MessageInv, MessageTypes, PausesInv
<1> QED
  BY <1>1, <1>2

\* The receive processor accepts a task.
LEMMA DeliverTaskStep ==
    ASSUME PipelineInv, ~aborted, NEW p \in Pushers, DeliverTask(p)
    PROVE  PipelineInv'
<1> USE DEF PipelineInv
<1>1. /\ delivering = "idle" /\ delivering' = "receive" /\ subscribed /\ reading
      /\ R!PushAccept(p)
      /\ UNCHANGED <<aVars, clientVars, result, taskOf, deliveredOn, ackedOn, last, left>>
  BY DEF DeliverTask
<1>2. RInv' /\ UNCHANGED <<rHandle, rOwner, rHeld>>
  BY <1>1, RPush
<1>3. AProcessor'
  BY <1>1, <1>2, AFrame DEF aVars, StaysStopped
<1>4. /\ rPusher' = [rPusher EXCEPT ![p] = "enqueue"] /\ rItems' = rItems
      /\ rPushed' = rPushed /\ DOMAIN rPusher = Pushers
  BY <1>1 DEF R!PushAccept, R!queueVars, RInv, R!TypeOK
<1>5. UNCHANGED <<aborted, acked, items, held, pusher, pushed, calls, channel, pauses,
                  subscribed, reading, open>>
  BY <1>1 DEF aVars, ackProcessorVars, clientVars
<1>6. rPushed < MaxTasks
  <2> DEFINE Q == {q \in Pushers : rPusher[q] = "enqueue"}
  <2>1. Q = {}
    BY <1>1 DEF MessageInv, DeliverInv, NoPusher
  <2>2. R!Cardinality(Q) = 0
    <3>1. Cardinality(Q) = 0
      BY <2>1, FS_EmptySet
    <3> QED
      BY <3>1 DEF R!Cardinality, Cardinality
  <2>3. rPushed + R!Cardinality(Q) < MaxTasks /\ rPushed \in Nat
    BY <1>1 DEF R!PushAccept, RInv, R!TypeOK
  <2> QED
    BY <2>2, <2>3
<1>7. MessageTypes' /\ ResultInv' /\ OwnInv'
  BY <1>1, <1>2, <1>4, <1>5 DEF MessageInv, MessageTypes, ResultInv, OwnInv, Own
<1>8. DeliverInv'
  <2>1. OnePusher(rPusher') /\ ~TaskIsIn'
    BY <1>1, <1>4 DEF MessageInv, DeliverInv, NoPusher, OnePusher, TaskIsIn
  <2>2. NoPusher(pusher')
    BY <1>1, <1>5 DEF MessageInv, DeliverInv
  <2> QED
    BY <1>1, <1>4, <1>5, <1>6, <2>1, <2>2 DEF MessageInv, DeliverInv, NoPusher
<1>9. PausesInv'
  <2>1. ~FutureIsDue /\ ~FutureIsDue'
    BY <1>1, <1>4 DEF MessageInv, DeliverInv, NoPusher, FutureIsDue, TaskIsIn
  <2> QED
    BY <1>1, <1>4, <1>5, <2>1 DEF MessageInv, PausesInv
<1> QED
  BY <1>1, <1>2, <1>3, <1>5, <1>7, <1>8, <1>9, DeliverFrame
  DEF MessageInv, aVars, ackProcessorVars

\* Its task is appended to the queue: the message has been delivered.
LEMMA TaskEnqueuedStep ==
    ASSUME PipelineInv, ~aborted, NEW p \in Pushers, DeliverTaskPush(p), R!PushEnqueue(p)
    PROVE  PipelineInv'
<1> USE DEF PipelineInv
<1>1. /\ delivering = "receive" /\ delivering' = "receive" /\ rPusher[p] = "enqueue"
      /\ deliveredOn' = Append(deliveredOn, channel)
      /\ rItems' = Append(rItems, rPushed + 1)
      /\ rPushed' = rPushed + 1
      /\ rPusher' = [rPusher EXCEPT ![p] = "notify"] /\ DOMAIN rPusher = Pushers
      /\ UNCHANGED <<aVars, clientVars, result, taskOf, ackedOn, last, left>>
  BY DEF DeliverTaskPush, R!PushEnqueue, R!PushNotify, R!Push, RInv, R!TypeOK
<1>2. RInv' /\ UNCHANGED <<rHandle, rOwner, rHeld>>
  BY RPush
<1>3. AProcessor'
  BY <1>1, <1>2, AFrame DEF aVars, StaysStopped
<1>4. UNCHANGED <<aborted, acked, items, held, pusher, pushed, calls, channel, pauses,
                  subscribed, reading, open>>
  BY <1>1 DEF aVars, ackProcessorVars, clientVars
<1>5. /\ rPushed \in Nat /\ pushed \in Nat /\ rPushed < MaxTasks /\ MaxTasks \in Nat
      /\ open /\ subscribed /\ reading /\ channel \in 1..channel
  BY <1>1, BoundsAssumption, DeliverOnChannel
  DEF MessageInv, DeliverInv, RInv, R!TypeOK, AProcessor, A!TypeOK
<1>6. /\ deliveredOn' \in Seq(1..channel) /\ Len(deliveredOn') = rPushed'
      /\ \A n \in 1..rPushed : deliveredOn'[n] = deliveredOn[n]
      /\ deliveredOn'[rPushed'] = channel
  BY <1>1, <1>5, AppendProperties DEF MessageInv, MessageTypes
<1>7. /\ Len(rItems) \in Nat /\ Len(rItems') = Len(rItems) + 1
      /\ \A i \in 1..Len(rItems) : rItems'[i] = rItems[i]
      /\ rItems'[Len(rItems) + 1] = rPushed + 1
  <2>1. rItems \in Seq(R!Task) /\ rPushed + 1 \in R!Task
    BY <1>5 DEF RInv, R!TypeOK, R!QueueTypeOK, R!Task
  <2> QED
    BY <1>1, <2>1, AppendProperties
<1>8. MessageTypes'
  <2>1. \A f \in 1..Len(taskOf) : taskOf[f] \in Nat
    BY <1>5 DEF MessageInv, MessageTypes, Tasks
  <2> QED
    BY <1>1, <1>4, <1>5, <1>6, <2>1, SMTT(30) DEF MessageInv, MessageTypes
<1>9. DeliverInv'
  <2>1. OnePusher(rPusher')
    BY <1>1 DEF MessageInv, DeliverInv, OnePusher
  <2>2. NoPusher(pusher') /\ \A q \in Pushers : pusher'[q] # "enqueue"
    BY <1>1, <1>4 DEF MessageInv, DeliverInv, NoPusher
  <2>3. \A q \in Pushers : rPusher'[q] # "enqueue"
    BY <1>1 DEF MessageInv, DeliverInv, OnePusher
  <2>4. pushed' <= MaxTasks
    BY <1>4 DEF MessageInv, DeliverInv
  <2> QED
    BY <1>1, <1>4, <1>5, <1>6, <2>1, <2>2, <2>3, <2>4 DEF DeliverInv
<1>10. PausesInv'
  <2>1. ~FutureIsDue
    BY <1>1 DEF MessageInv, DeliverInv, OnePusher, FutureIsDue, TaskIsIn
  <2>2. FutureIsDue'
    BY <1>1 DEF FutureIsDue, TaskIsIn
  <2>3. Len(taskOf) \in Nat
    BY <1>5 DEF MessageInv, MessageTypes
  <2>4. CASE channel = 1 /\ open /\ calls \notin Closing
    BY <1>1, <1>4, <1>5, <2>1, <2>2, <2>3, <2>4 DEF MessageInv, PausesInv
  <2> QED
    BY <1>4, <1>5, <2>4 DEF PausesInv
<1>11. ResultInv'
  <2>1. ASSUME NEW i \in 1..Len(rItems') PROVE rItems'[i] <= rPushed'
    <3>1. CASE i \in 1..Len(rItems)
      <4>1. rItems[i] \in Nat /\ rItems[i] <= rPushed
        BY <3>1 DEF MessageInv, ResultInv, RInv, R!TypeOK, R!QueueTypeOK, R!Task
      <4> QED
        BY <1>1, <1>5, <1>7, <3>1, <4>1
    <3>2. CASE i = Len(rItems) + 1
      BY <1>1, <1>5, <1>7, <3>2
    <3> QED
      BY <1>7, <3>1, <3>2
  <2>2. ASSUME NEW l \in Loops PROVE rHeld'[l] <= rPushed'
    <3>1. rHeld[l] \in Nat /\ rHeld[l] <= rPushed
      BY DEF MessageInv, ResultInv, RInv, R!TypeOK
    <3> QED
      BY <1>1, <1>2, <1>5, <3>1
  <2>3. ASSUME NEW n \in 1..rPushed', result'[n] = "pending"
        PROVE  \/ \E i \in 1..Len(rItems') : rItems'[i] = n
               \/ \E l \in Loops : rHeld'[l] = n
    <3>1. CASE n \in 1..rPushed
      <4>1. result[n] = "pending"
        BY <1>1, <2>3
      <4>2. CASE \E l \in Loops : rHeld[l] = n
        BY <1>2, <4>2
      <4>3. CASE \E i \in 1..Len(rItems) : rItems[i] = n
        BY <1>7, <4>3
      <4> QED
        BY <3>1, <4>1, <4>2, <4>3 DEF MessageInv, ResultInv
    <3>2. CASE n = rPushed + 1
      BY <1>7, <3>2
    <3> QED
      BY <1>1, <1>5, <3>1, <3>2
  <2> QED
    BY <2>1, <2>2, <2>3 DEF ResultInv
<1>12. OwnInv'
  <2>1. ASSUME NEW f \in Nat \ {0}, f <= pushed, Own(f) PROVE Own(f)'
    <3>1. taskOf[f] \in 1..rPushed
      BY <1>5, <2>1 DEF MessageInv, MessageTypes, Tasks
    <3> QED
      BY <1>1, <1>4, <1>6, <2>1, <3>1 DEF Own
  <2>2. /\ \A i \in 1..Len(items) : items[i] \in Nat \ {0}
        /\ \A l \in Loops : held[l] # 0 => held[l] \in Nat \ {0}
    BY DEF AProcessor, A!TypeOK, A!QueueTypeOK, A!Task
  <2>3. ASSUME NEW i \in 1..Len(items) PROVE items[i] <= pushed /\ Own(items[i])'
    <3>1. items[i] \in Nat \ {0} /\ items[i] <= pushed /\ Own(items[i])
      BY <2>2 DEF MessageInv, OwnInv
    <3>2. PICK f \in Nat \ {0} : f = items[i] /\ f = items'[i]
      BY <1>4, <3>1
    <3> QED
      BY <1>4, <2>1, <3>1, <3>2 DEF Own
  <2>4. ASSUME NEW l \in Loops, held[l] # 0 PROVE held[l] <= pushed /\ Own(held[l])'
    <3>1. held[l] \in Nat \ {0} /\ held[l] <= pushed /\ Own(held[l])
      BY <2>2, <2>4 DEF MessageInv, OwnInv
    <3>2. PICK f \in Nat \ {0} : f = held[l] /\ f = held'[l]
      BY <1>4, <3>1
    <3> QED
      BY <1>4, <2>1, <3>1, <3>2 DEF Own
  <2> QED
    BY <1>4, <2>3, <2>4 DEF OwnInv, Own
<1> QED
  BY <1>1, <1>2, <1>3, <1>4, <1>8, <1>9, <1>10, <1>11, <1>12, DeliverFrame
  DEF MessageInv, aVars, ackProcessorVars

\* Push notifies the loop, and the handler goes on to the ack processor.
LEMMA TaskNotifiedStep ==
    ASSUME PipelineInv, ~aborted, NEW p \in Pushers, DeliverTaskPush(p), R!PushNotify(p)
    PROVE  PipelineInv'
<1> USE DEF PipelineInv
<1>1. /\ delivering = "receive" /\ delivering' = "ack" /\ rPusher[p] = "notify"
      /\ rPusher' = [rPusher EXCEPT ![p] = "idle"] /\ DOMAIN rPusher = Pushers
      /\ UNCHANGED <<aVars, clientVars, result, taskOf, deliveredOn, ackedOn, last, left,
                     rItems, rPushed>>
  BY DEF DeliverTaskPush, R!PushEnqueue, R!PushNotify, R!NotifyOne, RInv, R!TypeOK
<1>2. RInv' /\ UNCHANGED <<rHandle, rOwner, rHeld>>
  BY RPush
<1>3. AProcessor'
  BY <1>1, <1>2, AFrame DEF aVars, StaysStopped
<1>4. UNCHANGED <<aborted, acked, items, held, pusher, pushed, calls, channel, pauses,
                  subscribed, reading, open>>
  BY <1>1 DEF aVars, ackProcessorVars, clientVars
<1>5. MessageTypes' /\ ResultInv' /\ OwnInv'
  BY <1>1, <1>2, <1>4 DEF MessageInv, MessageTypes, ResultInv, OwnInv, Own
<1>6. TaskIsIn /\ TaskIsIn' /\ FutureIsDue /\ FutureIsDue'
  BY <1>1 DEF TaskIsIn, FutureIsDue
<1>7. DeliverInv'
  <2>1. NoPusher(rPusher')
    BY <1>1 DEF MessageInv, DeliverInv, OnePusher, NoPusher
  <2>2. NoPusher(pusher')
    BY <1>1, <1>4 DEF MessageInv, DeliverInv
  <2> QED
    BY <1>1, <1>4, <1>6, <2>1, <2>2 DEF MessageInv, DeliverInv, NoPusher
<1>8. PausesInv'
  BY <1>1, <1>4, <1>6 DEF MessageInv, PausesInv
<1> QED
  BY <1>1, <1>2, <1>3, <1>4, <1>5, <1>7, <1>8, DeliverFrame
  DEF MessageInv, aVars, ackProcessorVars

\* The ack processor accepts the future.  It could only drop one that is delivered
\* while a Close stops it.
LEMMA DeliverFutureStep ==
    ASSUME PipelineInv, ~aborted, NEW p \in Pushers, DeliverFuture(p)
    PROVE  PipelineInv'
<1> USE DEF PipelineInv
<1>1. /\ delivering = "ack"
      /\ UNCHANGED <<rVars, acked, aborted, clientVars, result, taskOf, deliveredOn, ackedOn,
                     last, left>>
  BY DEF DeliverFuture
<1>2. RInv' /\ UNCHANGED <<rHandle, rOwner, rItems, rHeld, rPushed, rPusher>>
  BY <1>1, RFrame DEF rVars
<1>3. UNCHANGED <<calls, channel, pauses, subscribed, reading, open>>
  BY <1>1 DEF clientVars
<1>4. NoPusher(rPusher) /\ NoPusher(pusher) /\ TaskIsIn /\ FutureIsDue
  BY <1>1 DEF MessageInv, DeliverInv, TaskIsIn, FutureIsDue
<1>5. CASE A!PushAccept(p) /\ delivering' = "future"
  <2>1. /\ pusher' = [pusher EXCEPT ![p] = "enqueue"] /\ DOMAIN pusher = Pushers
        /\ UNCHANGED <<items, pushed>>
    BY <1>5 DEF A!PushAccept, A!queueVars, AProcessor, A!TypeOK
  <2>2. AProcessor' /\ UNCHANGED <<handle, owner, held>>
    BY <1>1, <1>2, <1>5, APush
  <2>3. pushed < MaxTasks
    <3> DEFINE Q == {q \in Pushers : pusher[q] = "enqueue"}
    <3>1. Q = {}
      BY <1>4 DEF NoPusher
    <3>2. A!Cardinality(Q) = 0
      <4>1. Cardinality(Q) = 0
        BY <3>1, FS_EmptySet
      <4> QED
        BY <4>1 DEF A!Cardinality, Cardinality
    <3>3. pushed + A!Cardinality(Q) < MaxTasks /\ pushed \in Nat
      BY <1>5 DEF A!PushAccept, AProcessor, A!TypeOK
    <3> QED
      BY <3>2, <3>3
  <2>4. MessageTypes' /\ ResultInv' /\ OwnInv'
    BY <1>1, <1>2, <1>3, <2>1, <2>2 DEF MessageInv, MessageTypes, ResultInv, OwnInv, Own
  <2>5. TaskIsIn' /\ FutureIsDue'
    BY <1>5, <2>1 DEF TaskIsIn, FutureIsDue
  <2>6. DeliverInv'
    <3>1. OnePusher(pusher') /\ NoPusher(rPusher')
      BY <1>2, <1>4, <2>1 DEF OnePusher, NoPusher
    <3> QED
      BY <1>1, <1>2, <1>3, <1>4, <1>5, <2>1, <2>3, <2>5, <3>1
      DEF MessageInv, DeliverInv, NoPusher
  <2>7. PausesInv'
    BY <1>1, <1>2, <1>3, <1>4, <2>1, <2>5 DEF MessageInv, PausesInv
  <2> QED
    BY <1>1, <1>2, <2>2, <2>4, <2>6, <2>7, DeliverFrame DEF MessageInv
<1>6. CASE ~shouldRun /\ delivering' = "idle" /\ UNCHANGED ackProcessorVars
  <2>1. AProcessor' /\ UNCHANGED <<handle, owner, items, held, pusher, pushed>>
    BY <1>1, <1>2, <1>6, AFrame DEF ackProcessorVars, StaysStopped
  <2>2. MessageTypes' /\ ResultInv' /\ OwnInv'
    BY <1>1, <1>2, <1>3, <2>1 DEF MessageInv, MessageTypes, ResultInv, OwnInv, Own
  <2>3. DeliverInv'
    BY <1>1, <1>2, <1>3, <1>4, <1>6, <2>1 DEF MessageInv, DeliverInv, NoPusher, TaskIsIn
  <2>4. calls \in Closing
    <3>1. ~AStarted /\ subscribed /\ reading
      BY <1>1, <1>6 DEF AProcessor, FlushInv, MessageInv, DeliverInv
    <3>2. calls # <<>> /\ calls # <<"pauseRead", "stopAck", "stopReceive">>
      BY <3>1 DEF ClientInv, AckInv
    <3>3. /\ calls \notin Subscribing /\ calls \notin Resuming
          /\ calls \notin {<<"stopAck", "stopReceive">>, <<"stopReceive">>}
      BY <3>1 DEF ClientInv, CallsInv
    <3>4. calls \in CallLists
      BY DEF ClientInv, CallsInv
    <3> QED
      BY ONLY <3>2, <3>3, <3>4 DEF CallLists, Pausing
  <2>5. PausesInv'
    BY <1>1, <1>2, <1>3, <2>1, <2>4 DEF MessageInv, PausesInv
  <2> QED
    BY <1>1, <1>2, <2>1, <2>2, <2>3, <2>5, DeliverFrame DEF MessageInv
<1> QED
  BY <1>5, <1>6 DEF DeliverFuture

\* The future of the message is appended to the queue of the ack processor.
LEMMA FutureEnqueuedStep ==
    ASSUME PipelineInv, ~aborted, NEW p \in Pushers, DeliverFuturePush(p), A!PushEnqueue(p)
    PROVE  PipelineInv'
<1> USE DEF PipelineInv
<1>1. /\ delivering = "future" /\ delivering' = "future" /\ pusher[p] = "enqueue"
      /\ taskOf' = Append(taskOf, rPushed)
      /\ items' = Append(items, pushed + 1) /\ pushed' = pushed + 1
      /\ pusher' = [pusher EXCEPT ![p] = "notify"] /\ DOMAIN pusher = Pushers
      /\ UNCHANGED <<rVars, acked, aborted, clientVars, result, deliveredOn, ackedOn, last,
                     left>>
  BY DEF DeliverFuturePush, A!PushEnqueue, A!PushNotify, A!Push, AProcessor, A!TypeOK
<1>2. RInv' /\ UNCHANGED <<rHandle, rOwner, rItems, rHeld, rPushed, rPusher>>
  BY <1>1, RFrame DEF rVars
<1>3. AProcessor' /\ UNCHANGED <<handle, owner, held>>
  BY <1>1, <1>2, APush
<1>4. UNCHANGED <<calls, channel, pauses, subscribed, reading, open>>
  BY <1>1 DEF clientVars
<1>5. /\ rPushed \in Nat /\ pushed \in Nat /\ pushed < MaxTasks /\ MaxTasks \in Nat
      /\ rPushed \in Tasks /\ deliveredOn[rPushed] = channel /\ open
  BY <1>1, BoundsAssumption, DeliverOnChannel
  DEF MessageInv, DeliverInv, TaskIsIn, RInv, R!TypeOK, AProcessor, A!TypeOK, Tasks
<1>6. /\ taskOf \in Seq(Tasks) /\ Len(taskOf) = pushed
      /\ taskOf' \in Seq(Tasks) /\ Len(taskOf') = pushed'
      /\ \A f \in 1..pushed : taskOf'[f] = taskOf[f]
      /\ taskOf'[pushed'] = rPushed
  BY <1>1, <1>5, AppendProperties DEF MessageInv, MessageTypes
<1>7. /\ Len(items) \in Nat /\ Len(items') = Len(items) + 1
      /\ \A i \in 1..Len(items) : items'[i] = items[i] /\ items[i] \in Nat \ {0}
      /\ items'[Len(items) + 1] = pushed + 1
  <2>1. items \in Seq(A!Task) /\ pushed + 1 \in A!Task
    BY <1>5 DEF AProcessor, A!TypeOK, A!QueueTypeOK, A!Task
  <2>2. /\ Len(items) \in Nat /\ Len(items') = Len(items) + 1
        /\ \A i \in 1..Len(items) : items'[i] = items[i]
        /\ items'[Len(items) + 1] = pushed + 1
    BY <1>1, <2>1, AppendProperties
  <2> QED
    BY <2>1, <2>2 DEF A!Task
<1>8. MessageTypes'
  <2>1. \A f \in 1..Len(taskOf') : taskOf'[f] <= rPushed'
    <3>1. ASSUME NEW f \in 1..Len(taskOf') PROVE taskOf'[f] <= rPushed
      <4>1. CASE f \in 1..pushed
        BY <1>6, <4>1 DEF MessageInv, MessageTypes
      <4>2. CASE f = pushed'
        BY <1>5, <1>6, <4>2
      <4> QED
        BY <1>1, <1>5, <1>6, <4>1, <4>2
    <3> QED
      BY <1>2, <3>1
  <2>2. left' \subseteq 1..pushed'
    BY <1>1, <1>5 DEF MessageInv, MessageTypes
  <2> QED
    BY <1>1, <1>2, <1>4, <1>6, <2>1, <2>2 DEF MessageInv, MessageTypes
<1>9. DeliverInv'
  <2>1. OnePusher(pusher') /\ \A q \in Pushers : pusher'[q] # "enqueue"
    BY <1>1 DEF MessageInv, DeliverInv, OnePusher
  <2>2. NoPusher(rPusher')
    BY <1>1, <1>2 DEF MessageInv, DeliverInv
  <2>3. pushed' <= MaxTasks
    BY <1>1, <1>5
  <2> QED
    BY <1>1, <1>2, <1>4, <1>5, <2>1, <2>2, <2>3 DEF MessageInv, DeliverInv, NoPusher, Tasks
<1>10. PausesInv'
  <2>1. FutureIsDue
    BY <1>1 DEF FutureIsDue, TaskIsIn
  <2>2. ~FutureIsDue'
    BY <1>1 DEF MessageInv, DeliverInv, OnePusher, FutureIsDue
  <2>3. channel # 0
    BY <1>5 DEF MessageInv, PausesInv
  <2>4. CASE channel = 1 /\ open /\ calls \notin Closing
    <3>1. rPushed = pushed + 1 /\ \A n \in 1..pushed : taskOf[n] = n
      BY <1>6, <2>1, <2>4 DEF MessageInv, PausesInv
    <3>2. rPushed' = Len(taskOf') /\ \A n \in 1..Len(taskOf') : taskOf'[n] = n
      BY <1>1, <1>2, <1>5, <1>6, <3>1
    <3> QED
      BY <1>4, <1>5, <1>6, <2>2, <2>3, <3>2 DEF PausesInv
  <2> QED
    BY <1>4, <2>3, <2>4 DEF PausesInv
<1>11. ResultInv'
  BY <1>1, <1>2 DEF MessageInv, ResultInv
<1>12. OwnInv'
  <2>1. ASSUME NEW f \in 1..pushed', f = pushed' \/ Own(f) PROVE Own(f)'
    BY <1>1, <1>4, <1>5, <1>6, <2>1 DEF Own
  <2>2. ASSUME NEW i \in 1..Len(items')
        PROVE  \E f \in 1..pushed' : f = items'[i] /\ Own(f)'
    <3>1. CASE i \in 1..Len(items)
      <4>1. items[i] \in 1..pushed' /\ Own(items[i])
        BY <1>1, <1>5, <1>7, <3>1 DEF MessageInv, OwnInv
      <4>2. PICK f \in 1..pushed' : f = items[i] /\ Own(f)
        BY <4>1
      <4> QED
        BY <1>7, <2>1, <3>1, <4>2
    <3>2. CASE i = Len(items) + 1
      <4>1. PICK f \in 1..pushed' : f = pushed'
        BY <1>1, <1>5
      <4> QED
        BY <1>1, <1>7, <2>1, <3>2, <4>1
    <3> QED
      BY <1>7, <3>1, <3>2
  <2>3. ASSUME NEW l \in Loops, held'[l] # 0
        PROVE  \E f \in 1..pushed' : f = held'[l] /\ Own(f)'
    <3>1. held[l] \in 1..pushed' /\ Own(held[l])
      BY <1>1, <1>3, <1>5, <2>3 DEF MessageInv, OwnInv, AProcessor, A!TypeOK
    <3>2. PICK f \in 1..pushed' : f = held[l] /\ Own(f)
      BY <3>1
    <3> QED
      BY <1>3, <2>1, <3>2
  <2>4. ASSUME NEW i \in 1..Len(items')
        PROVE  /\ items'[i] <= pushed'
               /\ \/ items'[i] \in left'
                  \/ open' /\ deliveredOn'[taskOf'[items'[i]]] = channel'
    <3>1. PICK f \in 1..pushed' : f = items'[i] /\ Own(f)'
      BY <2>2
    <3>2. f <= pushed'
      BY <1>1, <1>5
    <3>3. f \in left' \/ (open' /\ deliveredOn'[taskOf'[f]] = channel')
      BY <3>1, Zenon DEF Own
    <3> QED
      BY <3>1, <3>2, <3>3, Zenon
  <2>5. ASSUME NEW l \in Loops, held'[l] # 0
        PROVE  /\ held'[l] <= pushed'
               /\ \/ held'[l] \in left'
                  \/ open' /\ deliveredOn'[taskOf'[held'[l]]] = channel'
    <3>1. PICK f \in 1..pushed' : f = held'[l] /\ Own(f)'
      BY <2>3, <2>5
    <3>2. f <= pushed'
      BY <1>1, <1>5
    <3>3. f \in left' \/ (open' /\ deliveredOn'[taskOf'[f]] = channel')
      BY <3>1, Zenon DEF Own
    <3> QED
      BY <3>1, <3>2, <3>3, Zenon
  <2> QED
    BY <2>4, <2>5, Zenon DEF OwnInv, Own
<1> QED
  BY <1>1, <1>2, <1>3, <1>8, <1>9, <1>10, <1>11, <1>12, DeliverFrame DEF MessageInv

\* Push notifies the loop, and the handler returns.
LEMMA FutureNotifiedStep ==
    ASSUME PipelineInv, ~aborted, NEW p \in Pushers, DeliverFuturePush(p), A!PushNotify(p)
    PROVE  PipelineInv'
<1> USE DEF PipelineInv
<1>1. /\ delivering = "future" /\ delivering' = "idle" /\ pusher[p] = "notify"
      /\ pusher' = [pusher EXCEPT ![p] = "idle"] /\ DOMAIN pusher = Pushers
      /\ UNCHANGED <<rVars, acked, aborted, clientVars, result, taskOf, deliveredOn, ackedOn,
                     last, left, items, pushed>>
  BY DEF DeliverFuturePush, A!PushEnqueue, A!PushNotify, A!NotifyOne, AProcessor, A!TypeOK
<1>2. RInv' /\ UNCHANGED <<rHandle, rOwner, rItems, rHeld, rPushed, rPusher>>
  BY <1>1, RFrame DEF rVars
<1>3. AProcessor' /\ UNCHANGED <<handle, owner, held>>
  BY <1>1, <1>2, APush
<1>4. UNCHANGED <<calls, channel, pauses, subscribed, reading, open>>
  BY <1>1 DEF clientVars
<1>5. MessageTypes' /\ ResultInv' /\ OwnInv'
  BY <1>1, <1>2, <1>3, <1>4 DEF MessageInv, MessageTypes, ResultInv, OwnInv, Own
<1>6. ~FutureIsDue /\ ~FutureIsDue' /\ ~TaskIsIn'
  BY <1>1 DEF MessageInv, DeliverInv, OnePusher, TaskIsIn, FutureIsDue
<1>7. DeliverInv'
  <2>1. NoPusher(pusher')
    BY <1>1 DEF MessageInv, DeliverInv, OnePusher, NoPusher
  <2>2. NoPusher(rPusher')
    BY <1>1, <1>2 DEF MessageInv, DeliverInv
  <2> QED
    BY <1>1, <1>2, <1>6, <2>1, <2>2 DEF MessageInv, DeliverInv, NoPusher
<1>8. PausesInv'
  BY <1>1, <1>2, <1>4, <1>6 DEF MessageInv, PausesInv
<1> QED
  BY <1>1, <1>2, <1>3, <1>5, <1>7, <1>8, DeliverFrame DEF MessageInv

-----------------------------------------------------------------------------
(* The loops.                                                              *)

\* What is taken off a queue is its first item, and the others stay.
LEMMA TakesFirst ==
    ASSUME NEW S, NEW s \in Seq(S), s # <<>>, NEW t, t = Tail(s)
    PROVE  /\ Head(s) = s[1] /\ 1 \in 1..Len(s)
           /\ \A i \in 1..Len(t) : i + 1 \in 1..Len(s) /\ t[i] = s[i + 1]
           /\ \A j \in 1..Len(s) : j # 1 => j - 1 \in 1..Len(t) /\ t[j - 1] = s[j]
<1>1. /\ Head(s) = s[1] /\ Len(t) = Len(s) - 1 /\ \A i \in 1..Len(t) : t[i] = s[i + 1]
      /\ Len(s) \in Nat
  BY HeadTailProperties, LenProperties
<1>2. Len(s) # 0
  BY EmptySeq
<1>3. \A j \in 1..Len(s) : j # 1 => j - 1 \in 1..Len(t) /\ t[j - 1] = s[j]
  <2>1. ASSUME NEW j \in 1..Len(s), j # 1
        PROVE  j - 1 \in 1..Len(t) /\ t[j - 1] = s[j]
    <3>1. j - 1 \in 1..Len(t)
      BY <1>1, <2>1
    <3>2. t[j - 1] = s[(j - 1) + 1]
      BY <1>1, <3>1
    <3> QED
      BY <3>1, <3>2
  <2> QED
    BY <2>1
<1> QED
  BY <1>1, <1>2, <1>3

\* A task is run, and its message has its result; a message without one is where
\* it was, or has moved from the queue to the hand of the loop.
LEMMA ReceiveLoopStep ==
    ASSUME PipelineInv, ~aborted, NEW l \in Loops, ReceiveLoop(l)
    PROVE  PipelineInv'
<1> USE DEF PipelineInv
<1>1. /\ R!LoopStep(l)
      /\ \/ rDone' = rDone /\ result' = result
         \/ /\ rDone' # rDone
            /\ \E o \in {"ok", "threw"} : result' = [result EXCEPT ![rHeld[l]] = o]
      /\ UNCHANGED <<aVars, clientVars, delivering, taskOf, deliveredOn, ackedOn, last, left>>
  BY DEF ReceiveLoop
<1>2. /\ RInv' /\ UNCHANGED <<rHandle, rOwner, rPusher, rPushed>>
      /\ RTakes(l) \/ RFinishes(l) \/ RNeither
  BY <1>1, RLoop
<1>3. AProcessor'
  BY <1>1, <1>2, AFrame DEF aVars, StaysStopped
<1>4. UNCHANGED <<aborted, acked, items, held, pusher, pushed, handle, owner, calls, channel,
                  pauses, subscribed, reading, open>>
  BY <1>1 DEF aVars, ackProcessorVars, clientVars
<1>5. MessageTypes'
  <2>1. result' \in [Tasks -> {"pending", "ok", "threw"}]
    BY <1>1 DEF MessageInv, MessageTypes
  <2> QED
    BY <1>1, <1>2, <1>4, <2>1 DEF MessageInv, MessageTypes
<1>6. DeliverInv' /\ PausesInv'
  BY <1>1, <1>2, <1>4 DEF MessageInv, DeliverInv, PausesInv, OnePusher, NoPusher, TaskIsIn,
                          FutureIsDue
<1>7. OwnInv'
  BY <1>1, <1>4 DEF MessageInv, OwnInv, Own
<1>8. ResultInv'
  <2>1. CASE RTakes(l)
    <3>1. /\ rItems \in Seq(R!Task) /\ rItems # <<>> /\ rItems' = Tail(rItems)
          /\ rHeld[l] = 0 /\ rHeld' = [rHeld EXCEPT ![l] = Head(rItems)]
          /\ rHeld \in [Loops -> Nat] /\ rPushed \in Nat /\ result' = result
      BY <1>1, <2>1 DEF RTakes, RInv, R!TypeOK, R!QueueTypeOK
    <3>2. /\ Head(rItems) = rItems[1] /\ 1 \in 1..Len(rItems)
          /\ \A i \in 1..Len(rItems') : /\ i + 1 \in 1..Len(rItems)
                                        /\ rItems'[i] = rItems[i + 1]
          /\ \A j \in 1..Len(rItems) : j # 1 => /\ j - 1 \in 1..Len(rItems')
                                                /\ rItems'[j - 1] = rItems[j]
      BY <3>1, TakesFirst
    <3>3. \A i \in 1..Len(rItems') : rItems'[i] <= rPushed'
      BY <1>2, <3>2 DEF MessageInv, ResultInv
    <3>4. \A m \in Loops : rHeld'[m] <= rPushed'
      BY <1>2, <3>1, <3>2 DEF MessageInv, ResultInv
    <3>5. ASSUME NEW n \in 1..rPushed', result'[n] = "pending"
          PROVE  \/ \E i \in 1..Len(rItems') : rItems'[i] = n
                 \/ \E m \in Loops : rHeld'[m] = n
      <4>1. CASE \E m \in Loops : rHeld[m] = n
        BY <1>2, <3>1, <4>1
      <4>2. CASE \E i \in 1..Len(rItems) : rItems[i] = n
        <5>1. PICK j \in 1..Len(rItems) : rItems[j] = n
          BY <4>2
        <5>2. CASE j = 1
          BY <3>1, <3>2, <5>1, <5>2
        <5>3. CASE j # 1
          BY <3>2, <5>1, <5>3
        <5> QED
          BY <5>2, <5>3
      <4>3. result[n] = "pending" /\ n \in 1..rPushed
        BY <1>2, <3>1, <3>5
      <4> QED
        BY <4>1, <4>2, <4>3 DEF MessageInv, ResultInv
    <3> QED
      BY <3>3, <3>4, <3>5 DEF ResultInv
  <2>2. CASE RFinishes(l)
    <3>1. /\ rHeld[l] # 0 /\ rHeld' = [rHeld EXCEPT ![l] = 0] /\ rItems' = rItems
          /\ rHeld \in [Loops -> Nat] /\ rPushed \in Nat
          /\ \E o \in {"ok", "threw"} : result' = [result EXCEPT ![rHeld[l]] = o]
          /\ DOMAIN result = Tasks /\ rPushed <= MaxTasks /\ MaxTasks \in Nat
      BY <1>1, <2>2, BoundsAssumption
      DEF RFinishes, RInv, R!TypeOK, MessageInv, MessageTypes, DeliverInv
    <3>2. \A m \in Loops : rHeld'[m] <= rPushed'
      BY <1>2, <3>1 DEF MessageInv, ResultInv
    <3>3. ASSUME NEW n \in 1..rPushed', result'[n] = "pending"
          PROVE  \/ \E i \in 1..Len(rItems') : rItems'[i] = n
                 \/ \E m \in Loops : rHeld'[m] = n
      <4>1. n \in 1..rPushed /\ n \in Tasks /\ n # rHeld[l] /\ result[n] = "pending"
        BY <1>2, <3>1, <3>3 DEF Tasks
      <4>2. CASE \E m \in Loops : rHeld[m] = n
        BY <3>1, <4>1, <4>2
      <4> QED
        BY <3>1, <4>1, <4>2 DEF MessageInv, ResultInv
    <3> QED
      BY <1>2, <3>1, <3>2, <3>3 DEF MessageInv, ResultInv
  <2>3. CASE RNeither
    BY <1>1, <1>2, <2>3 DEF RNeither, MessageInv, ResultInv
  <2> QED
    BY <1>2, <2>1, <2>2, <2>3
<1> QED
  BY <1>1, <1>2, <1>3, <1>4, <1>5, <1>6, <1>7, <1>8, DeliverFrame DEF MessageInv

\* A flush that finds its future pending waits for one whose task nobody can run:
\* the receive processor has been stopped, and holds no task.
LEMMA OnlyStrandedTimesOut ==
    ASSUME PipelineInv, NEW l \in Loops, ATimesOut(l)
    PROVE  /\ rHandle = NoLoop /\ held[l] # 0
           /\ \E i \in 1..Len(rItems) : rItems[i] = taskOf[held[l]]
<1> USE DEF PipelineInv
<1>1. pc[l] = "flushRun" /\ ~A!Settled(l)
  BY DEF ATimesOut
<1>2. /\ held[l] # 0 /\ l = handle /\ l # NoLoop /\ flushRequested
  BY <1>1, ThreadsAssumption
  DEF AProcessor, ALoopsInv, FlushInv, A!Running, A!Free, A!Exited
<1>3. rHandle = NoLoop
  BY <1>2 DEF AProcessor, FlushInv, AStarted
<1>4. /\ pushed \in Nat /\ rPushed \in Nat /\ held[l] \in 1..pushed /\ pushed <= MaxTasks
      /\ taskOf \in Seq(Tasks) /\ Len(taskOf) = pushed
  BY <1>2, BoundsAssumption
  DEF AProcessor, A!TypeOK, RInv, R!TypeOK, MessageInv, OwnInv, DeliverInv, MessageTypes
<1>5. held[l] \in DOMAIN taskOf /\ held[l] \in Tasks /\ taskOf[held[l]] \in 1..rPushed
  BY <1>4, BoundsAssumption, SMTT(30) DEF MessageInv, MessageTypes, Tasks
<1>6. result[taskOf[held[l]]] = "pending"
  <2>1. Outcome[held[l]] = "pending"
    BY <1>1 DEF A!Settled
  <2> QED
    BY <1>5, <2>1 DEF Outcome
<1>7. \A m \in Loops : rHeld[m] = 0
  BY <1>3, ThreadsAssumption DEF RInv, RLoopsInv, R!Free, R!Running, R!Exited
<1> QED
  BY <1>2, <1>3, <1>5, <1>6, <1>7 DEF MessageInv, ResultInv

\* A future is taken, acknowledged, skipped, or waited for in vain.
LEMMA AckLoopStep ==
    ASSUME PipelineInv, ~aborted, NEW l \in Loops, AckLoop(l)
    PROVE  PipelineInv'
<1> USE DEF PipelineInv
<1>1. /\ A!AckLoopStep(l)
      /\ \/ acked' = acked /\ ackedOn' = ackedOn
         \/ acked' # acked /\ ackedOn' = Append(ackedOn, channel)
      /\ UNCHANGED <<rVars, clientVars, delivering, result, taskOf, deliveredOn, last, left>>
  BY DEF AckLoop
<1>2. RInv' /\ UNCHANGED <<rHandle, rOwner, rItems, rHeld, rPushed, rPusher>>
  BY <1>1, RFrame DEF rVars
<1>3. /\ AProcessor' /\ UNCHANGED <<handle, owner, pusher, pushed>>
      /\ ATakes(l) \/ AFinishes(l) \/ ATimesOut(l) \/ ANeither
  BY <1>1, <1>2, ALoop
<1>4. UNCHANGED <<calls, channel, pauses, subscribed, reading, open>>
  BY <1>1 DEF clientVars
<1>5. ClientInv'
  BY <1>1, <1>2, <1>3, ClientFrame DEF RStarted, AStarted
<1>6. DeliverInv' /\ PausesInv' /\ ResultInv'
  BY <1>1, <1>2, <1>3, <1>4 DEF MessageInv, DeliverInv, PausesInv, ResultInv, OnePusher,
                                NoPusher, TaskIsIn, FutureIsDue
<1>7. MessageTypes'
  <2>1. aborted' \in BOOLEAN
    BY <1>3 DEF ATakes, AFinishes, ATimesOut, ANeither, MessageInv, MessageTypes
  <2>2. /\ acked' \in Seq(Tasks) /\ ackedOn' \in Seq(1..channel)
        /\ Len(ackedOn') = Len(acked')
    <3>1. CASE acked' = acked
      BY <1>1, <3>1 DEF MessageInv, MessageTypes
    <3>2. CASE acked' # acked
      <4>1. /\ held[l] # 0 /\ acked' = Append(acked, held[l])
            /\ ackedOn' = Append(ackedOn, channel)
        BY <1>1, <1>3, <3>2 DEF ATakes, AFinishes, ATimesOut, ANeither
      <4>2. handle # NoLoop
        BY <4>1, ThreadsAssumption DEF AProcessor, ALoopsInv, A!Free, A!Running, A!Exited
      <4>3. channel \in 1..channel
        BY <4>2, BoundsAssumption
        DEF ClientInv, CallsInv, MessageInv, PausesInv, MessageTypes
      <4>4. held[l] \in Tasks
        BY <4>1, BoundsAssumption
        DEF MessageInv, OwnInv, DeliverInv, AProcessor, A!TypeOK, Tasks
      <4> QED
        BY <4>1, <4>3, <4>4, AppendProperties DEF MessageInv, MessageTypes
    <3> QED
      BY <3>1, <3>2
  <2> QED
    BY <1>1, <1>2, <1>3, <1>4, <2>1, <2>2 DEF MessageInv, MessageTypes
<1>8. OwnInv'
  <2>1. UNCHANGED <<left, open, deliveredOn, taskOf, channel, pushed>>
    BY <1>1, <1>3, <1>4
  <2>2. CASE ATakes(l)
    <3>1. /\ items \in Seq(A!Task) /\ items # <<>> /\ items' = Tail(items)
          /\ held' = [held EXCEPT ![l] = Head(items)] /\ held \in [Loops -> Nat]
      BY <2>2 DEF ATakes, AProcessor, A!TypeOK, A!QueueTypeOK
    <3>2. /\ Head(items) = items[1] /\ 1 \in 1..Len(items)
          /\ \A i \in 1..Len(items') : /\ i + 1 \in 1..Len(items)
                                       /\ items'[i] = items[i + 1]
      BY <3>1, TakesFirst
    <3>3. \A i \in 1..Len(items) : items[i] <= pushed /\ Own(items[i])
      BY DEF MessageInv, OwnInv
    <3>4. \A i \in 1..Len(items') : items'[i] <= pushed' /\ Own(items[i + 1])
      BY <2>1, <3>2, <3>3
    <3>5. \A m \in Loops : held'[m] # 0 => held'[m] <= pushed' /\ Own(held'[m])
      BY <2>1, <3>1, <3>2, <3>3 DEF MessageInv, OwnInv
    <3> QED
      BY <2>1, <3>2, <3>4, <3>5 DEF OwnInv, Own
  <2>3. CASE AFinishes(l)
    BY <2>1, <2>3 DEF AFinishes, MessageInv, OwnInv, Own, AProcessor, A!TypeOK
  <2>4. CASE ATimesOut(l) \/ ANeither
    BY <2>1, <2>4 DEF ATimesOut, ANeither, MessageInv, OwnInv, Own
  <2> QED
    BY <1>3, <2>2, <2>3, <2>4
<1>9. FlushTimesOutOnlyIfStranded'
  <2>1. CASE ATimesOut(l)
    <3>1. /\ rHandle' = NoLoop /\ held'[l] # 0
          /\ \E i \in 1..Len(rItems') : rItems'[i] = taskOf'[held'[l]]
      BY <1>1, <1>2, <2>1, OnlyStrandedTimesOut DEF ATimesOut
    <3>2. DOMAIN rItems' = 1..Len(rItems')
      BY <1>2 DEF RInv, R!TypeOK, R!QueueTypeOK
    <3> QED
      BY <3>1, <3>2 DEF FlushTimesOutOnlyIfStranded
  <2>2. CASE aborted' = aborted
    BY <2>2, StillRunning
  <2> QED
    BY <1>3, <2>1, <2>2 DEF ATakes, AFinishes, ANeither
<1> QED
  BY <1>2, <1>3, <1>5, <1>6, <1>7, <1>8, <1>9 DEF MessageInv

\* A sleeper wakes for no reason.
LEMMA SpuriousWakeupsStep ==
    ASSUME PipelineInv, ~aborted, NEW l \in Loops, SpuriousWakeups(l)
    PROVE  PipelineInv'
<1> USE DEF PipelineInv
<1>1. UNCHANGED <<clientVars, messageVars>>
  BY DEF SpuriousWakeups
<1>2. CASE R!LoopSpuriousWakeup(l) /\ UNCHANGED aVars
  <2>1. RInv' /\ UNCHANGED <<rHandle, rOwner, rItems, rHeld, rPusher, rPushed>>
    BY <1>2, RLoop DEF R!LoopSpuriousWakeup, R!SpuriousWakeup, R!loopVars, R!pushVars
  <2>2. AProcessor'
    BY <1>1, <1>2, <2>1, AFrame DEF aVars, messageVars, StaysStopped
  <2>3. MessageInv'
    BY <1>1, <1>2, <2>1, MessageFrame DEF messages, messageVars, clientVars, aVars,
                                          ackProcessorVars
  <2> QED
    BY <1>1, <1>2, <2>1, <2>2, <2>3, DeliverFrame DEF aVars, ackProcessorVars
<1>3. CASE A!LoopSpuriousWakeup(l) /\ UNCHANGED <<rVars, acked, aborted>>
  <2>1. RInv' /\ UNCHANGED <<rHandle, rOwner, rItems, rHeld, rPusher, rPushed>>
    BY <1>3, RFrame DEF rVars
  <2>2. AProcessor' /\ UNCHANGED <<handle, owner, items, held, pusher, pushed>>
    BY <1>1, <1>3, <2>1, ALoop
    DEF messageVars, A!LoopSpuriousWakeup, A!SpuriousWakeup, A!loopVars, A!pushVars
  <2>3. MessageInv'
    BY <1>1, <1>3, <2>1, <2>2, MessageFrame DEF messages, messageVars, clientVars
  <2> QED
    BY <1>1, <1>3, <2>1, <2>2, <2>3, DeliverFrame
<1> QED
  BY <1>2, <1>3 DEF SpuriousWakeups

-----------------------------------------------------------------------------
(* The theorems.                                                           *)

\* All that holds, holds initially.
LEMMA PipelineInit == Init => PipelineInv
<1> SUFFICES ASSUME Init PROVE PipelineInv
  OBVIOUS
<1> USE DEF Init
<1>1. RInv
  <2>1. R!TypeOK
    <3> USE DEF R!Init, R!QueueInit, R!OwnerPC, R!LoopPC, R!PusherPC
    <3>1. R!QueueTypeOK(R!Task) /\ rDone \in Seq(R!Task)
      BY EmptySeq DEF R!QueueTypeOK
    <3>2. rPc \in [Loops -> R!LoopPC] /\ rHeld \in [Loops -> Nat]
      OBVIOUS
    <3> QED
      BY <3>1, <3>2 DEF R!TypeOK
  <2>2. RLoopsInv
    BY DEF R!Init, RLoopsInv, R!Free, R!Running
  <2> QED
    BY <2>1, <2>2 DEF RInv
<1>2. AProcessor
  <2>1. A!TypeOK
    <3> USE DEF A!Init, A!QueueInit, A!OwnerPC, A!LoopPC, A!PusherPC
    <3>1. A!QueueTypeOK(A!Task) /\ done \in Seq(A!Task)
      BY EmptySeq DEF A!QueueTypeOK
    <3>2. pc \in [Loops -> A!LoopPC] /\ held \in [Loops -> Nat]
      OBVIOUS
    <3> QED
      BY <3>1, <3>2 DEF A!TypeOK
  <2>2. ALoopsInv /\ FlushInv /\ OwedInv
    BY DEF A!Init, ALoopsInv, FlushInv, OwedInv, AStarted, A!Free, A!Running
  <2> QED
    BY <2>1, <2>2 DEF AProcessor
<1>3. ClientInv
  BY DEF ClientInv, CallsInv, ReceiveInv, AckInv, RStarted, AStarted, CallLists, Subscribing,
         Pausing, Resuming, Flushing, Dropping, Closing, R!Init, A!Init
<1>4. MessageTypes
  <2>1. /\ taskOf \in Seq(Tasks) /\ Len(taskOf) = 0 /\ acked \in Seq(Tasks) /\ Len(acked) = 0
        /\ deliveredOn \in Seq(1..channel) /\ Len(deliveredOn) = 0
        /\ ackedOn \in Seq(1..channel) /\ Len(ackedOn) = 0
    <3>1. /\ taskOf = <<>> /\ acked = <<>> /\ deliveredOn = <<>> /\ ackedOn = <<>>
      OBVIOUS
    <3> QED
      BY ONLY <3>1, EmptySeq
  <2>2. pushed = 0 /\ rPushed = 0 /\ aborted = FALSE /\ left = {}
    BY DEF R!Init, A!Init
  <2>3. channel = 0 /\ pauses = 0 /\ result = [n \in Tasks |-> "pending"]
    OBVIOUS
  <2>4. channel \in 0..MaxChannels /\ pauses \in 0..MaxPauses
    BY ONLY <2>3, BoundsAssumption
  <2>5. result \in [Tasks -> {"pending", "ok", "threw"}]
    BY ONLY <2>3
  <2> QED
    <3>1. \A f \in 1..Len(taskOf) : taskOf[f] <= rPushed
      BY ONLY <2>1
    <3>2. Len(taskOf) = pushed /\ Len(deliveredOn) = rPushed /\ Len(ackedOn) = Len(acked)
      BY ONLY <2>1, <2>2
    <3>3. left \subseteq 1..pushed /\ aborted \in BOOLEAN
      BY ONLY <2>2
    <3> QED
      BY ONLY <2>1, <2>4, <2>5, <3>1, <3>2, <3>3, Zenon DEF MessageTypes
<1>5. DeliverInv /\ PausesInv
  BY BoundsAssumption DEF DeliverInv, PausesInv, OnePusher, NoPusher, TaskIsIn, FutureIsDue,
                          R!Init, A!Init
<1>6. ResultInv /\ OwnInv
  BY DEF ResultInv, OwnInv, R!Init, R!QueueInit, A!Init, A!QueueInit
<1> QED
  BY <1>1, <1>2, <1>3, <1>4, <1>5, <1>6
  DEF PipelineInv, MessageInv, FlushTimesOutOnlyIfStranded

\* Every step keeps it.
LEMMA PipelineNext == PipelineInv /\ [Next]_vars => PipelineInv'
<1> SUFFICES ASSUME PipelineInv, [Next]_vars PROVE PipelineInv'
  OBVIOUS
<1>1. CASE Next
  <2>1. ~aborted
    BY <1>1 DEF Next
  <2>2. CASE ClientCall
    BY <2>1, <2>2, OpenStep, CallStep DEF ClientCall
  <2>3. CASE ClientStep
    BY <2>1, <2>3, StartOrStopStep, ReadStep, DisconnectStep, OwnerStepsStep DEF ClientStep
  <2>4. ASSUME NEW p \in Pushers, DeliverTask(p) \/ DeliverStep(p) PROVE PipelineInv'
    <3>1. CASE DeliverTask(p)
      BY <2>1, <3>1, DeliverTaskStep
    <3>2. CASE DeliverTaskPush(p)
      BY <2>1, <3>2, TaskEnqueuedStep, TaskNotifiedStep DEF DeliverTaskPush
    <3>3. CASE DeliverFuture(p)
      BY <2>1, <3>3, DeliverFutureStep
    <3>4. CASE DeliverFuturePush(p)
      BY <2>1, <3>4, FutureEnqueuedStep, FutureNotifiedStep DEF DeliverFuturePush
    <3> QED
      BY <2>4, <3>1, <3>2, <3>3, <3>4 DEF DeliverStep
  <2>5. ASSUME NEW l \in Loops, ReceiveLoop(l) \/ AckLoop(l) \/ SpuriousWakeups(l)
        PROVE  PipelineInv'
    BY <2>1, <2>5, ReceiveLoopStep, AckLoopStep, SpuriousWakeupsStep
  <2> QED
    BY <1>1, <2>2, <2>3, <2>4, <2>5 DEF Next
<1>2. CASE UNCHANGED vars
  <2>1. UNCHANGED <<rVars, aVars, clientVars, messageVars>>
    BY <1>2 DEF vars
  <2>2. RInv' /\ UNCHANGED <<rHandle, rOwner, rItems, rHeld, rPusher, rPushed>>
    BY <2>1, RFrame DEF PipelineInv, rVars
  <2>3. AProcessor' /\ UNCHANGED <<handle, owner, items, held, pusher, pushed>>
    BY <2>1, <2>2, AFrame DEF PipelineInv, aVars, ackProcessorVars, messageVars, StaysStopped
  <2>4. ClientInv'
    BY <2>1, <2>2, <2>3, ClientFrame DEF PipelineInv, RStarted, AStarted
  <2>5. MessageInv'
    BY <2>1, <2>2, <2>3, MessageFrame DEF PipelineInv, messages, messageVars, clientVars, aVars
  <2>6. FlushTimesOutOnlyIfStranded'
    BY <2>1 DEF PipelineInv, FlushTimesOutOnlyIfStranded, rVars, aVars, ackProcessorVars,
                messageVars
  <2> QED
    BY <2>2, <2>3, <2>4, <2>5, <2>6 DEF PipelineInv
<1> QED
  BY <1>1, <1>2

\* So it always holds.
LEMMA PipelineInvariant == Spec => []PipelineInv
BY PipelineInit, PipelineNext, PTL DEF Spec

\* The variables of the composition have their types, whatever the calls and the
\* messages are: no future is pushed without its task, so that the histories are as
\* long as the processors say.
THEOREM PipelineTypeCorrect == Spec => []TypeOK
<1>1. PipelineInv => TypeOK
  <2> SUFFICES ASSUME PipelineInv PROVE TypeOK
    OBVIOUS
  <2> USE DEF PipelineInv
  <2>1. R!TypeOK /\ A!TypeOK
    BY DEF RInv, AProcessor
  <2>2. MessageTypes /\ delivering \in {"idle", "receive", "ack", "future"}
    BY DEF MessageInv, DeliverInv
  <2>3. A!Futures = Tasks
    BY DEF A!Futures, Tasks
  <2>4. Outcome \in [Tasks -> {"pending", "ok", "threw"}]
    <3>1. \A f \in DOMAIN taskOf : result[taskOf[f]] \in {"pending", "ok", "threw"}
      BY <2>2 DEF MessageTypes
    <3> QED
      BY <3>1 DEF Outcome
  <2>5. A!AckTypeOK
    BY <2>1, <2>2, <2>3, <2>4 DEF A!AckTypeOK, MessageTypes
  <2>6. calls \in Seq(Call)
    BY CallsAreCalls DEF ClientInv, CallsInv
  <2>7. {flush, subscribed, reading, open} \subseteq BOOLEAN
    BY DEF ClientInv, CallsInv
  <2>8. left \subseteq DOMAIN taskOf
    BY <2>2 DEF MessageTypes
  <2>9. last \in Loops \cup {NoLoop}
    BY DEF AProcessor
  <2> QED
    BY <2>1, <2>2, <2>5, <2>6, <2>7, <2>8, <2>9 DEF TypeOK, MessageTypes
<1> QED
  BY <1>1, PipelineInvariant, PTL

\* However often the first channel is paused and resumed, and whatever the two
\* processors do meanwhile, every message it delivered has its future in the ack
\* processor, in the order of the deliveries (Pause and Resume of
\* MyAMQPClientImpl).
THEOREM NoPauseDropsAFuture == Spec => []PauseDropsNoFuture
<1>1. PipelineInv => PauseDropsNoFuture
  <2> SUFFICES ASSUME PipelineInv, calls = <<>>, channel = 1, open, delivering = "idle"
               PROVE  taskOf = [n \in 1..rPushed |-> n]
    BY DEF PauseDropsNoFuture
  <2>1. ~FutureIsDue
    BY DEF FutureIsDue, TaskIsIn
  <2>2. calls \notin Closing
    BY DEF Flushing, Dropping, Closing
  <2>3. rPushed = Len(taskOf) /\ \A n \in 1..Len(taskOf) : taskOf[n] = n
    BY <2>1, <2>2 DEF PipelineInv, MessageInv, PausesInv, MessageTypes
  <2>4. taskOf \in [1..Len(taskOf) -> Tasks]
    BY LenProperties DEF PipelineInv, MessageInv, MessageTypes
  <2> QED
    BY <2>3, <2>4
<1> QED
  BY <1>1, PipelineInvariant, PTL

\* The assertion in the ack processor's Flush fails only for a future whose task
\* lies in the queue of a receive processor that has been stopped: a Close that
\* flushes never waits for a task that could still run (MyAMQPClientImpl::Close,
\* which stops the receive processor first).
THEOREM FlushIsStrandedOnly == Spec => []FlushTimesOutOnlyIfStranded
<1>1. PipelineInv => FlushTimesOutOnlyIfStranded
  BY DEF PipelineInv
<1> QED
  BY <1>1, PipelineInvariant, PTL

\* Only the loop of the ack processor sends an ack.
LEMMA AckLoopAcks ==
    ASSUME Next, acked' # acked
    PROVE  \E l \in Loops : AckLoop(l)
<1>1. CASE ClientCall
  BY <1>1 DEF ClientCall, Open, SubscribeToReceive, Pause, Resume, Close, aVars
<1>2. CASE ClientStep
  BY <1>2 DEF ClientStep, StartOrStop, Consume, PauseRead, ResumeRead, Disconnect, OwnerSteps,
              A!AckOwnerStep, aVars
<1>3. ASSUME NEW p \in Pushers, DeliverTask(p) \/ DeliverStep(p) PROVE acked' = acked
  BY <1>3 DEF DeliverTask, DeliverStep, DeliverTaskPush, DeliverFuture, DeliverFuturePush,
              aVars
<1>4. ASSUME NEW l \in Loops, ReceiveLoop(l) \/ SpuriousWakeups(l) PROVE acked' = acked
  BY <1>4 DEF ReceiveLoop, SpuriousWakeups, aVars
<1> QED
  BY <1>1, <1>2, <1>3, <1>4 DEF Next

\* An ack is sent while the client has a channel, and on the channel that delivered
\* its message, but for the futures that a Close left behind without owing them.
THEOREM AcksStayOnTheirChannel == Spec => AcksOnOwnChannel
<1> DEFINE Acks ==
      \A i \in DOMAIN acked' \ DOMAIN acked :
         open /\ (ackedOn'[i] = deliveredOn[taskOf[acked'[i]]] \/ acked'[i] \in left)
<1>1. PipelineInv /\ [Next]_vars => [Acks]_vars
  <2> SUFFICES ASSUME PipelineInv, Next PROVE Acks
    OBVIOUS
  <2>1. CASE acked' = acked
    BY <2>1
  <2>2. CASE acked' # acked
    <3>1. PICK l \in Loops : AckLoop(l)
      BY <2>2, AckLoopAcks
    <3>2. /\ A!AckLoopStep(l) /\ ackedOn' = Append(ackedOn, channel)
          /\ UNCHANGED <<rHandle, last>>
      BY <2>2, <3>1 DEF AckLoop, rVars
    <3>3. held[l] # 0 /\ acked' = Append(acked, held[l])
      BY <2>2, <3>2, ALoop DEF PipelineInv, ATakes, AFinishes, ATimesOut, ANeither
    <3>4. open
      <4>1. handle # NoLoop
        BY <3>3, ThreadsAssumption
        DEF PipelineInv, AProcessor, ALoopsInv, A!Free, A!Running, A!Exited
      <4> QED
        BY <4>1 DEF PipelineInv, ClientInv, CallsInv
    <3>5. held[l] \in left \/ deliveredOn[taskOf[held[l]]] = channel
      BY <3>3 DEF PipelineInv, MessageInv, OwnInv, Own
    <3>6. /\ acked \in Seq(Tasks) /\ ackedOn \in Seq(1..channel) /\ Len(ackedOn) = Len(acked)
          /\ held[l] \in Tasks /\ channel \in 1..channel
      <4>1. channel \in 1..channel
        BY <3>4, BoundsAssumption DEF PipelineInv, MessageInv, PausesInv, MessageTypes
      <4>2. held[l] \in Tasks
        BY <3>3, BoundsAssumption
        DEF PipelineInv, MessageInv, OwnInv, DeliverInv, AProcessor, A!TypeOK, Tasks
      <4> QED
        BY <4>1, <4>2 DEF PipelineInv, MessageInv, MessageTypes
    <3>7. /\ DOMAIN acked = 1..Len(acked) /\ Len(acked) \in Nat
          /\ DOMAIN acked' = 1..Len(acked) + 1
          /\ acked'[Len(acked) + 1] = held[l] /\ ackedOn'[Len(acked) + 1] = channel
      <4>1. /\ acked' \in Seq(Tasks) /\ Len(acked') = Len(acked) + 1
            /\ acked'[Len(acked) + 1] = held[l]
        BY <3>3, <3>6, AppendProperties
      <4>2. ackedOn'[Len(ackedOn) + 1] = channel
        BY <3>2, <3>6, AppendProperties
      <4> QED
        BY <3>6, <4>1, <4>2, LenProperties
    <3>8. DOMAIN acked' \ DOMAIN acked = {Len(acked) + 1}
      BY <3>7
    <3> QED
      BY <3>4, <3>5, <3>7, <3>8
  <2> QED
    BY <2>1, <2>2
<1> QED
  BY <1>1, PipelineInvariant, PTL DEF Spec, AcksOnOwnChannel
================================================================================
