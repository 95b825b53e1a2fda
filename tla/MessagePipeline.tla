---------------------------- MODULE MessagePipeline ----------------------------
(***************************************************************************)
(* The path of a message through MyAMQPClientImpl with threaded receive:   *)
(* the thread of the request processor, inside the library's parse, pushes *)
(* the task that calls the user's handler to the receive processor and its *)
(* future to the ack processor, which acknowledges the message when the    *)
(* future has its tag.  The client's thread starts, pauses, resumes and    *)
(* closes all of it, one call after another.                               *)
(*                                                                         *)
(* Composition of MyTaskProcessor (R, variables with an r) and             *)
(* MyAckProcessor (A).  Their pushers are one thread and their owners too, *)
(* and what settles the futures of A is the tasks that R runs.             *)
(***************************************************************************)
EXTENDS Naturals, Sequences

CONSTANTS Loops, NoLoop, Pushers, MaxTasks, RestartWhileRunning,
          MaxChannels,  \* a bound of the model: channels opened
          MaxPauses     \* a bound of the model: calls of Pause

ASSUME ThreadsAssumption == NoLoop \notin Loops
ASSUME BoundsAssumption ==
    MaxTasks \in Nat /\ MaxChannels \in Nat /\ MaxPauses \in Nat

VARIABLES
    \* _receiveTaskProcessor
    rItems, rBreakWait, rMutex, rWaiting, rShouldRun, rFlushRequested, rHandle,
    rPc, rHeld, rOwner, rFlushArg, rJoined, rPusher, rPushed, rDone, rOwed,
    \* _ackProcessor
    items, breakWait, mutex, waiting, shouldRun, flushRequested, handle,
    pc, held, owner, flushArg, joined, pusher, pushed, done, owed,
    acked, aborted,
    \* the client
    calls,       \* what is left to do of the call it is in
    flush,       \* the argument of the Stops that Close or Pause calls
    subscribed,  \* has _channel the receive handler?
    reading,     \* does the read loop run?
    channel,     \* the channels opened so far
    open,        \* is there a _channel?
    pauses,      \* history: calls of Pause
    delivering,  \* where the request processor is in the receive handler
    \* the messages: the n-th is the one of the n-th task of R
    result,      \* what its handler did: "pending", "ok", "threw"
    taskOf,      \* taskOf[f]: the message of the f-th future pushed to A
    deliveredOn, \* history: the channel each message came from
    ackedOn,     \* history: the channel each ack was sent on
    last,        \* history: the loop that was started last for A
    left         \* history: the futures a Close left in the queue and need not
                 \* have flushed

clientVars == <<calls, flush, subscribed, reading, channel, open, pauses>>
messageVars == <<delivering, result, taskOf, deliveredOn, ackedOn, last, left>>

R == INSTANCE MyTaskProcessor WITH
    items <- rItems, breakWait <- rBreakWait, mutex <- rMutex,
    waiting <- rWaiting, shouldRun <- rShouldRun,
    flushRequested <- rFlushRequested, handle <- rHandle, pc <- rPc,
    held <- rHeld, owner <- rOwner, flushArg <- rFlushArg, joined <- rJoined,
    pusher <- rPusher, pushed <- rPushed, done <- rDone, owed <- rOwed

Tasks == 1..MaxTasks

\* A future shares its state with its task.
Outcome == [f \in Tasks |-> IF f \in DOMAIN taskOf THEN result[taskOf[f]]
                            ELSE "pending"]

A == INSTANCE MyAckProcessor WITH outcome <- Outcome

rVars == <<rItems, rBreakWait, rMutex, rWaiting, rShouldRun, rFlushRequested,
           rHandle, rPc, rHeld, rOwner, rFlushArg, rJoined, rPusher, rPushed,
           rDone, rOwed>>
ackProcessorVars == <<items, breakWait, mutex, waiting, shouldRun, flushRequested,
                      handle, pc, held, owner, flushArg, joined, pusher, pushed,
                      done, owed>>
aVars == <<ackProcessorVars, acked, aborted>>
vars == <<rVars, aVars, clientVars, messageVars>>

Call == {"startReceive", "startAck", "stopReceive", "stopAck", "consume",
         "pauseRead", "resumeRead", "disconnect"}

\* The types of the client's variables, and as many channels in the histories as
\* there are messages and acks: CreateThreadedMessageCallback pushes one future
\* per task at the most.
TypeOK ==
    /\ R!TypeOK
    /\ A!AckTypeOK
    /\ calls \in Seq(Call)
    /\ {flush, subscribed, reading, open} \subseteq BOOLEAN
    /\ channel \in 0..MaxChannels
    /\ pauses \in 0..MaxPauses
    /\ delivering \in {"idle", "receive", "ack", "future"}
    /\ result \in [Tasks -> {"pending", "ok", "threw"}]
    /\ taskOf \in Seq(Tasks) /\ Len(taskOf) = pushed
    /\ deliveredOn \in Seq(1..channel) /\ Len(deliveredOn) = rPushed
    /\ ackedOn \in Seq(1..channel) /\ Len(ackedOn) = Len(acked)
    /\ last \in Loops \cup {NoLoop}
    /\ left \subseteq DOMAIN taskOf

Init ==
    /\ R!Init
    /\ A!Init /\ acked = <<>> /\ aborted = FALSE
    /\ calls = <<>>
    /\ flush = FALSE /\ subscribed = FALSE /\ reading = FALSE /\ open = FALSE
    /\ channel = 0 /\ pauses = 0
    /\ delivering = "idle"
    /\ result = [n \in Tasks |-> "pending"]
    /\ taskOf = <<>> /\ deliveredOn = <<>> /\ ackedOn = <<>>
    /\ last = NoLoop /\ left = {}

-----------------------------------------------------------------------------
(* The client.  A call is the sequence of what it does.                    *)

Paused == open /\ subscribed /\ ~reading

\* Open, of a closed client: the Close it begins with finds nothing to do.
Open ==
    /\ calls = <<>>
    /\ ~open /\ channel < MaxChannels
    /\ open' = TRUE
    /\ channel' = channel + 1
    /\ reading' = TRUE
    /\ UNCHANGED <<rVars, aVars, messageVars, calls, flush, subscribed, pauses>>

SubscribeToReceive ==
    /\ calls = <<>>
    /\ open /\ ~subscribed
    /\ calls' = <<"startReceive", "startAck", "consume">>
    /\ UNCHANGED <<rVars, aVars, messageVars, flush, subscribed, reading, channel,
                   open, pauses>>

\* Mutant: the processors are stopped under the read loop.
PauseStopsAckFirst ==
    /\ calls = <<>>
    /\ subscribed /\ reading /\ pauses < MaxPauses
    /\ calls' = <<"stopAck", "pauseRead", "stopReceive">>
    /\ pauses' = pauses + 1
    /\ flush' = FALSE
    /\ UNCHANGED <<rVars, aVars, messageVars, subscribed, reading, channel, open>>

Pause ==
    /\ calls = <<>>
    /\ subscribed /\ reading /\ pauses < MaxPauses
    /\ calls' = <<"pauseRead", "stopAck", "stopReceive">>
    /\ pauses' = pauses + 1
    /\ flush' = FALSE
    /\ UNCHANGED <<rVars, aVars, messageVars, subscribed, reading, channel, open>>

\* Mutant: Resume forgets the ack processor.
ResumeForgetsAck ==
    /\ calls = <<>>
    /\ Paused
    /\ calls' = <<"startReceive", "resumeRead">>
    /\ UNCHANGED <<rVars, aVars, messageVars, flush, subscribed, reading, channel,
                   open, pauses>>

Resume ==
    /\ calls = <<>>
    /\ Paused
    /\ calls' = <<"startAck", "startReceive", "resumeRead">>
    /\ UNCHANGED <<rVars, aVars, messageVars, flush, subscribed, reading, channel,
                   open, pauses>>

\* Mutant: both kinds of Close stop the ack processor first.
CloseStopsAckFirst(f) ==
    /\ calls = <<>>
    /\ open
    /\ flush' = f
    /\ calls' = <<"stopAck", "stopReceive", "disconnect">>
    /\ UNCHANGED <<rVars, aVars, messageVars, subscribed, reading, channel, open,
                   pauses>>

\* Mutant: the channel is closed before its processors are stopped.
CloseDisconnectsFirst(f) ==
    /\ calls = <<>>
    /\ open
    /\ flush' = f
    /\ calls' = <<"disconnect", "stopReceive", "stopAck">>
    /\ UNCHANGED <<rVars, aVars, messageVars, subscribed, reading, channel, open,
                   pauses>>

\* A flush runs all tasks before it waits for their futures; a Close that does
\* not flush stops the ack processor, which may wait for a task, first.  A flush of
\* the acks that throws leaves Close before it disconnects; the consumer then ends
\* (Consumer/main.cpp:310), and the Close of the client's destructor, which finds
\* both processors stopped, comes to the same "disconnect".
Close(f) ==
    /\ calls = <<>>
    /\ open
    /\ flush' = f
    /\ calls' = (IF f THEN <<"stopReceive", "stopAck">>
                      ELSE <<"stopAck", "stopReceive">>) \o <<"disconnect">>
    /\ UNCHANGED <<rVars, aVars, messageVars, subscribed, reading, channel, open,
                   pauses>>

\* The next of the calls; it returned when both processors' owners are idle.
Calls(call) ==
    /\ calls # <<>> /\ Head(calls) = call
    /\ rOwner = "idle" /\ owner = "idle"
    /\ calls' = Tail(calls)
    /\ UNCHANGED <<delivering, result, taskOf, deliveredOn, ackedOn, flush, channel,
                   pauses>>

\* Stop of a processor whose loop was waited for before returns at once.
StartOrStop ==
    /\ \/ /\ \/ Calls("startReceive") /\ R!Start
             \/ Calls("stopReceive") /\ R!StopCall(flush)
             \/ Calls("stopReceive") /\ rHandle = NoLoop /\ UNCHANGED rVars
          /\ UNCHANGED <<aVars, last>>
       \/ /\ \/ Calls("startAck") /\ A!Start /\ last' = handle'
             \/ Calls("stopAck") /\ A!StopCall(flush) /\ UNCHANGED last
             \/ Calls("stopAck") /\ handle = NoLoop
                                 /\ UNCHANGED <<ackProcessorVars, last>>
          /\ UNCHANGED <<rVars, acked, aborted>>
    /\ UNCHANGED <<subscribed, reading, open, left>>

\* The request processor registers the receive handler.
Consume ==
    /\ Calls("consume")
    /\ subscribed' = TRUE
    /\ UNCHANGED <<rVars, aVars, reading, open, last, left>>

\* The read loop is waited for, and it waits for the parse it is in.
PauseRead ==
    /\ Calls("pauseRead")
    /\ delivering = "idle"
    /\ reading' = FALSE
    /\ UNCHANGED <<rVars, aVars, subscribed, open, last, left>>

ResumeRead ==
    /\ Calls("resumeRead")
    /\ reading' = TRUE
    /\ UNCHANGED <<rVars, aVars, subscribed, open, last, left>>

\* The connection is closed, the read loop waited for, and _channel reset.
Disconnect ==
    /\ Calls("disconnect")
    /\ delivering = "idle"
    /\ reading' = FALSE
    /\ open' = FALSE
    /\ subscribed' = FALSE
    /\ left' = left \cup {f \in {items[i] : i \in DOMAIN items} :
                             last # NoLoop /\ pc[last] = "flushed" => f > owed}
    /\ UNCHANGED <<rVars, aVars, last>>

OwnerSteps ==
    /\ \/ R!OwnerStep /\ UNCHANGED aVars
       \/ A!AckOwnerStep /\ UNCHANGED rVars
    /\ UNCHANGED <<clientVars, messageVars>>

ClientStep ==
    StartOrStop \/ Consume \/ PauseRead \/ ResumeRead \/ Disconnect \/ OwnerSteps

-----------------------------------------------------------------------------
(* The receive handler, on the thread of the request processor.            *)

\* A message arrives, and the receive processor accepts its task.  One that it
\* does not accept is as if it had not arrived: nobody will acknowledge it.
DeliverTask(p) ==
    /\ delivering = "idle"
    /\ subscribed /\ reading
    /\ R!PushAccept(p)
    /\ delivering' = "receive"
    /\ UNCHANGED <<aVars, clientVars, result, taskOf, deliveredOn, ackedOn, last, left>>

DeliverTaskPush(p) ==
    /\ delivering = "receive"
    /\ \/ R!PushEnqueue(p) /\ deliveredOn' = Append(deliveredOn, channel)
                           /\ UNCHANGED delivering
       \/ R!PushNotify(p) /\ delivering' = "ack" /\ UNCHANGED deliveredOn
    /\ UNCHANGED <<aVars, clientVars, result, taskOf, ackedOn, last, left>>

\* The ack processor accepts the future, or drops it because it was stopped.
DeliverFuture(p) ==
    /\ delivering = "ack"
    /\ \/ A!PushAccept(p) /\ delivering' = "future"
       \/ ~shouldRun /\ delivering' = "idle" /\ UNCHANGED ackProcessorVars
    /\ UNCHANGED <<rVars, acked, aborted, clientVars, result, taskOf,
                   deliveredOn, ackedOn, last, left>>

DeliverFuturePush(p) ==
    /\ delivering = "future"
    /\ \/ A!PushEnqueue(p) /\ taskOf' = Append(taskOf, rPushed)
                           /\ UNCHANGED delivering
       \/ A!PushNotify(p) /\ delivering' = "idle" /\ UNCHANGED taskOf
    /\ UNCHANGED <<rVars, acked, aborted, clientVars, result, deliveredOn, ackedOn,
                   last, left>>

DeliverStep(p) ==
    DeliverTaskPush(p) \/ DeliverFuture(p) \/ DeliverFuturePush(p)

-----------------------------------------------------------------------------
(* The loops.                                                              *)

\* A task is DeliverMessage: the future gets the tag, or what the handler threw.
ReceiveLoop(l) ==
    /\ R!LoopStep(l)
    /\ \/ rDone' = rDone /\ UNCHANGED result
       \/ /\ rDone' # rDone
          /\ \E o \in {"ok", "threw"} : result' = [result EXCEPT ![rHeld[l]] = o]
    /\ UNCHANGED <<aVars, clientVars, delivering, taskOf, deliveredOn, ackedOn,
                   last, left>>

\* AckMessage has the request processor send the ack, between two parses.
AckLoop(l) ==
    /\ A!AckLoopStep(l)
    /\ \/ acked' = acked /\ UNCHANGED ackedOn
       \/ /\ acked' # acked
          /\ delivering = "idle"
          /\ ackedOn' = Append(ackedOn, channel)
    /\ UNCHANGED <<rVars, clientVars, delivering, result, taskOf, deliveredOn,
                   last, left>>

SpuriousWakeups(l) ==
    /\ \/ R!LoopSpuriousWakeup(l) /\ UNCHANGED aVars
       \/ A!LoopSpuriousWakeup(l) /\ UNCHANGED <<rVars, acked, aborted>>
    /\ UNCHANGED <<clientVars, messageVars>>

-----------------------------------------------------------------------------
ClientCall ==
    \/ Open \/ SubscribeToReceive \/ Pause \/ Resume
    \/ \E f \in BOOLEAN : Close(f)

Next ==
    /\ ~aborted
    /\ \/ ClientCall
       \/ ClientStep
       \/ \E p \in Pushers : DeliverTask(p) \/ DeliverStep(p)
       \/ \E l \in Loops : ReceiveLoop(l) \/ AckLoop(l) \/ SpuriousWakeups(l)

Spec == Init /\ [][Next]_vars

\* The threads are scheduled, the user's handler and the request processor come
\* to an end, the mutexes of the queues are not kept from the request processor,
\* and what was paused is resumed (Consumer/main.cpp asks for it, :197).
FairSpec ==
    /\ Spec
    /\ WF_vars(~aborted /\ ClientStep)
    /\ WF_vars(~aborted /\ Resume)
    /\ \A p \in Pushers : SF_vars(~aborted /\ DeliverStep(p))
    /\ \A l \in Loops : /\ WF_vars(~aborted /\ ReceiveLoop(l))
                        /\ SF_vars(~aborted /\ AckLoop(l))

-----------------------------------------------------------------------------
(* What must hold.                                                         *)

\* However often a channel is paused and resumed, the future of every message
\* it delivered reaches the ack processor: Pause waits for the read loop first,
\* so that no message falls between the stops of the two processors.
PauseDropsNoFuture ==
    /\ calls = <<>> /\ channel = 1 /\ open
    /\ delivering = "idle"
    => taskOf = [n \in 1..rPushed |-> n]

\* The assertion of the ack processor's Flush fails only for a message whose
\* task was left in the queue of a receive processor that had been stopped:
\* Close(true) never waits for a future whose task could still run.
FlushTimesOutOnlyIfStranded ==
    aborted => /\ rHandle = NoLoop
               /\ \E l \in Loops, i \in DOMAIN rItems :
                     held[l] # 0 /\ rItems[i] = taskOf[held[l]]

\* A message that was accepted before or between any number of pauses is
\* acknowledged in the end, or not for a reason: its handler threw, the ack was
\* refused, the client closed, or a call sleeps for ever for a lost wake-up.
MessagesSurvivePauses ==
    \/ \A n \in Tasks :
          n \in DOMAIN deliveredOn /\ deliveredOn[n] = channel /\ open
             ~> \/ ~open \/ \E i \in DOMAIN calls : calls[i] = "disconnect"
                \/ aborted
                \/ \E i \in DOMAIN done : taskOf[done[i]] = n
    \/ <>[](rWaiting = {rJoined} /\ rItems = <<>>)
    \/ <>[](waiting = {joined} /\ items = <<>>)

\* An ack is sent while there is a channel to send it on, and on the channel that
\* delivered the message, unless a Close left it in the queue for the next Open.
\* A loop that comes to its flush leaves only what was pushed after its Stop
\* began.  A loop that has not begun when it is stopped, or that looks at
\* _flushRequested before Stop has set it, does not flush, even for Close(true).
AcksOnOwnChannel ==
    [][\A i \in DOMAIN acked' \ DOMAIN acked :
          open /\ (ackedOn'[i] = deliveredOn[taskOf[acked'[i]]] \/ acked'[i] \in left)]_vars
=============================================================================
