# A verification of the AMQP example clients

The repository is a pair of AMQP clients, a sender and a consumer, built as an
exercise in C++11 threads, over the Copernica AMQP-CPP library, which it
contains. Three things are worth verifying in it: how the client's threads pass
work to each other (three queues, four loops, a socket, and an object that
opens, pauses, resumes and closes all of them); how the library keeps the
channels of a connection in step with a server that answers when it likes; and
how the consumer's main thread, interrupted by signals, drives the client. The
modules in this directory model that, TLC checks them on small instances, and
TLAPS proves the safety properties of the processors, the buffer, the connection,
the client and the consumer, and the library's order of frames, for every instance.
`PROJECT.json` says which lines each definition translates.

## 1. Inventory

Paths are relative to the repository's root.

| Component | State | Operations | Threads |
|---|---|---|---|
| `MyAMQP/MyReceiveTaskQueue` | `_itemQueue`, `_breakWait`, mutex, condition variable | `Push`, `Wait`, `BreakWait`, `Reset`, `Empty`, `Pop` | all |
| `MyAMQP/MyTaskProcessor` | a queue of tasks, `_shouldRun`, `_flushRequested`, `_loopHandle` | `Start`, `Stop(flush)`, `Push`, loop, flush | owner, pusher, its loop |
| `MyAMQP/MyAckProcessor` | the same, over futures, and `_ackHandler` | `Start`, `Resume`, `Stop(flush)`, `Push`, loop, flush | owner, pusher, its loop |
| `MyAMQP/MyRequestProcessor` | the same, without a flush | `Start`, `Stop`, `Push`, loop | client, read loop, ack loop, its loop |
| `MyAMQP/MyAMQPCircularBuffer` | `_buffer`, `_startIndex`, `_count` | `AppendBack`, `ConsumeFront`, `Get` | read loop |
| `MyNetworkConnection/MyUnixNetworkConnection` | two sockets, `DataConnectionOpen`, `ControlUnblockFlagged` | `Connect`, `Disconnect`, `Read`, `UnblockRead`, `ResumeRead`, `WriteAll` | owner, read loop |
| `MyAMQP/MyAMQPBufferedConnection` | the two above, `_readShouldRun`, `_readLoopHandle` | `Open`, `Close`, `PauseReadLoop`, `ResumeReadLoop`, loop | owner, read loop |
| `MyAMQP/MyAMQPClientImpl` (and `MyAMQPClient`, its facade) | all of the above, the library's connection and channel, flags under `_mutex` | `Open`, `Close`, `CreateHelloQueue`, `SendHelloWorld`, `SubscribeToReceive`, `Pause`, `Resume`, the library's callbacks | client and all loops |
| `MyAMQP/MyCompletionNotifier`, `MyCompletionCallbacks` | weak pointers to the user's handlers | create, subscribe, notify | client, read loop |
| `AMQPSTL`: fields and frames | an `OutBuffer` being filled, a `ReceivedFrame` being read | `size`, `fill` and the constructors of every class; `Frame::buffer`, `ReceivedFrame::process` | request processor |
| `AMQPSTL`: `ChannelImpl`, `Deferred*` | `_state`, `_synchronous`, `_queue`, the chain of callbacks, `_message` | declare, bind, publish, consume, get, ack, close, ..., `onSynchronized`, `reportSuccess`, `reportError`, `reportMessage` | request processor |
| `AMQPSTL`: `ConnectionImpl` | `_state`, `_closed`, `_channels`, `_nextFreeChannel`, `_queue` | `add`, `remove`, `parse`, `send`, `close`, `setConnected`, `reportError` | request processor |
| `Consumer/main.cpp` | flags, `benchmarkMutex`, `benchmarkCondition` | main loop, handlers of signals, messages and errors | main, receive loop, read loop |
| `Sender/main.cpp` | none | open, create, send, close | main |
| `MyUtilities` | signal table, stopwatch, keyboard | install, dispatch | main |

How they interact. The read loop blocks in `Read`, appends what arrived to the
buffer, and has it parsed by a task that it pushes to the request processor and
waits for: every call of the library, which has no thread and is not thread
safe, is such a task. Inside the parse the library dispatches frames to
channels, answers the server, and calls back: it opens the channel, tells that a
queue is bound, or delivers a message. A message becomes a task of the receive
processor, which calls the user's handler, and the future of that task goes to
the ack processor, which waits for it and pushes the ack to the request
processor. The client's thread starts and stops these loops, and waits for the
library's answers with `_mutex` and a condition variable. In the consumer that
thread is the main thread, and signal handlers call `Pause` on top of it.

What is hard, by component, and what makes it correct:

- *Queue.* `BreakWait` does not take the mutex; `notify_one` is called after the
  mutex was released; `Empty` is read without it. Correct: no item is lost, no
  wake-up is lost, `Pop` never meets an empty queue.
- *Task processor.* `Push` races with `Stop`, `Stop` stores two flags one after
  the other, tasks survive into the next session. Correct: each accepted task
  runs at most once and in order, one at a time, never outside a session.
- *Ack processor.* Its items settle at any time, fail, or never settle. Correct:
  an ack for a message, once, in order, and only after its handler returned.
- *Connection and buffer.* Another thread closes the descriptors under a `Read`;
  a pause may leave a datagram behind. Correct: the parser sees the stream as
  the server sent it, and `Close` and `Pause` return.
- *Client.* It stops loops that wait for each other, in an order that depends on
  what is flushed. Correct: no message is lost by a pause, no loop is left when
  `Close` returns, no call waits for ever, the library has one user at a time.
- *Fields and frames.* Each class computes its size in one place, writes itself
  in a second and reads itself in a third. Correct: the three agree, and a
  stream that is cut anywhere gives the same frames.
- *Channel and connection.* A channel may have one unanswered synchronous frame;
  what is called meanwhile queues up in the channel, and what is called before
  the handshake is over queues up in the connection; a get is answered by
  several frames; channels and the connection end from both sides. Correct:
  frames, messages and outcomes keep their order, each answer reaches the request
  it belongs to, and a close comes to its end.
- *Consumer.* Handlers run between any two instructions of the main thread, with
  its mutex held or not, and cannot take it. Correct: what a Ctrl-C paused is
  resumed, a reload reopens, a quit ends the program, a failure is noticed.

The hazards are listed with their lines in `PROJECT.json`.

## 2. The modules

| Module | Models | Used by |
|---|---|---|
| `MyReceiveTaskQueue` | the queue: one action per critical section, no `Next` | `MyTaskProcessor` (EXTENDS) |
| `SerialTaskService` | abstract: what a task processor promises | `MyTaskProcessor` (refinement) |
| `MyTaskProcessor` | the processor with its owner and pushers | `MyAckProcessor`, `MessagePipeline` |
| `MyAckProcessor` | the same loop over futures | `MessagePipeline` |
| `MyAMQPCircularBuffer` | the buffer's indices and storage, no `Next` | `MyAMQPBufferedConnection` |
| `MyUnixNetworkConnection` | sockets, `Read` and `Disconnect`, no `Next` | `MyAMQPBufferedConnection` |
| `MyAMQPBufferedConnection` | read loop, owner and server over the two above | |
| `MessagePipeline` | the receive and the ack processor composed, driven by the client's calls | |
| `MyAMQPClientImpl` | open, use and close: client, request processor, read loop, server | |
| `AMQPFields` | the field types: size, fill, receive | `FrameCodec` |
| `AMQPFrames` | every frame class as a record: identifiers, sizes, members, virtual functions | `FrameCodec`, `ChannelImpl` |
| `FrameCodec` | a stream of frames: written member by member, cut, parsed | |
| `ChannelImpl` | a channel and its deferred results as operators on a record | `ConnectionImpl` |
| `RequestService` | abstract: what a channel promises of its requests | `ConnectionImpl` (refinement) |
| `ConnectionImpl` | a connection, its channels, the application and the server | |
| `ConsumerMain` | the consumer's main thread, its signal handlers, its message and error handlers | |
| `ConnectionRequestsProofs` | that `ConnectionImpl` implements `RequestService` (section 5) | |
| `*Proofs` | the proofs about the module of that name (section 5) | |
| `MC*` | instances for TLC | the `.cfg` files |

**Grain.** A step is what no other thread can see inside of: a `lock_guard`
section, a store to an atomic, a blocking call that returns. `Wait` is split,
because it tests its predicate with the mutex held and `BreakWait` writes the
flag without it: `WaitTest` finds the predicate false and keeps the mutex,
`WaitSleep` releases it and joins the wait set. `Stop` is five steps (clear
`_shouldRun`, store `_flushRequested`, store `_breakWait`, notify, join), and
`Push` three. `Start` is one: a thread that sees one of its stores
early can do nothing that it could not do a moment later. The library has no
thread: a call of the application is one step of `ConnectionImpl`, and a frame
that `parse()` processes is another.

**MyTaskProcessor.** A thread has a program counter: `owner` for the one that
calls `Start` and `Stop`, `pusher[p]` for `Push`, `pc[l]` for the loop. `handle`
is `_loopHandle`, a task is the number of its push. `pushed`, `done` and `owed`
are history. `RestartWhileRunning` says whether `Start` may be called when the
handle is valid; the code does not test it, and relies on its callers.

**MyAckProcessor** adds `outcome`, what each future will give, set by the
environment at any time or never, and replaces the run of a task: `SendAck`,
`SkipAck` (the exception is logged), `FlushThrows` (a network exception, of
the send or of the user's handler, leaves `Flush`) and `FlushTimeout` (five seconds,
then `assert(false)`, after which the model stops).

**MyAMQPBufferedConnection.** `rd` is where the read loop is, through `Read` and
the parse; `owner` is where `Open`, `Close` or `PauseReadLoop` is. A byte is the
pair of its connection and its number. `Disconnect` is four steps of the owner
against `Read`'s eight, so that the flag, the datagram and the close of the
descriptors each fall between any two steps of the reader. A signal may interrupt
a `select` (`SelectInterrupted`), which makes `Read` throw. The parser consumes
whole frames and leaves at most `MaxRemainder` bytes.

**MessagePipeline** instantiates `MyTaskProcessor` as `R` and `MyAckProcessor` as
`A`, with two sets of variables. The future of `A` takes its outcome from the
task of `R` (`Outcome`). A call of the client is the sequence of what it does to
the parts (`calls`): that is where the order of the stops in `Close` and `Pause`
is. The loop of the request processor appears as `delivering`: an ack is sent,
and the read loop joined, only between two deliveries. `left` is history: the
futures that a `Close` may leave in the queue for the next `Open`. What it may leave
depends on how the loop ended that was started last, which `last` remembers after
its handle was given up. A `Close` whose flush throws goes on to `disconnect`, because
the consumer ends then and the client's destructor closes it again.

**MyAMQPClientImpl** has the request processor as a queue served in order by
one thread. That is what `SerialTaskService` promises of the same loop, and the
one thing it does not promise is added: a `Stop` whose wake-up is lost leaves the
loop `"asleep"`. A parse request is the frame that it parses; callbacks of the
library are what these frames do. The server answers what it was asked for, in
any order, with errors, or not at all, gives the connection up with an error
frame, or hangs up. A wait of five seconds ends at any time, by its condition or
by its timeout. `onError` calls `_bufferedConnection.Close()` on the thread of
the request processor; if the client's thread is already in `get()` of the same
handle the outcome depends on the standard library, and the model allows both.

**AMQPFields, AMQPFrames, FrameCodec.** A field is its type and its value; `Size`,
`Fill` and `Receive` are what the class computes, writes and reads. A frame class
is a record whose members `octets` and `lengths` come from its constructor,
`fill` from its `fill()` and `receive` from its receiving constructor; a base class
is an operator and a derived class an `EXCEPT`, as the classes are. The library
takes part in only one direction for most classes, and the other one is the
server's: `FrameCodec` takes the server to be built from the library's classes,
so a script of frames runs in either direction. Octets arrive in the pieces
that `Pieces` allows, and `parse()` takes what is whole.

**ChannelImpl and ConnectionImpl.** `conn` is the `ConnectionImpl` object, a channel
in it a record with `_state`, `_synchronous`, its queue, the requests whose
`Deferred` waits and the message under way. The operators of `ChannelImpl` give the
channel after a method and the frames it hands on; those of `ConnectionImpl` pass
them to the server or queue them. `process()` of the frame classes is chosen by
the `process` member of `AMQPFrames`, so that a class that does not override it
ends the connection. A call from within a callback comes out as a call between
two frames. The server is external: it answers what the library sends it, in
order, delivers to consumers, finds or does not find a message for a get, and
closes a channel or the connection at any time. `performed` and `delivered` are
its history.

**ConsumerMain.** `todo` is what is left to do of the main thread's stack, its own
steps and those of the handlers parked on top of them; a signal puts its
handler's steps in front. A handler runs with its own signal blocked and no other,
because `sa_mask` is empty. Signals run on the main thread, as the comment at
`main.cpp:194` says. Of the client there is what the main thread can wait for, or
start twice: the loops of the two processors, the request processor, the read loop and
its handle. A `get()` of a future gives the handle up before it waits, so that a
handler that stops the same loop on top of it finds nothing to stop. `flushOnClose`
is any value.

The calls that hold a mutex of the client are cut into `part`s, and `HeldIn` lists
what the main thread holds in each: `_mutex` of the client in `CreateHelloQueue` and in
the wait for the closed channel, and the mutex of the request queue while a request
is pushed. `CreateHelloQueue` has five parts: the wait for the channel, the `Push` of
its request under `_mutex`, the wait for the result under `_mutex`, the wait for the
bound queue, and the return. The read loop has the other half: a parse is a request,
so it needs the request queue (`Parse`, or `ParseRefused` if the request processor does
not run yet), and it may come to a callback that locks `_mutex` (`"callback"`). So a
Ctrl-C can find the main thread with any of three mutexes held while the loop that
`Pause` waits for wants it. What makes the server answer, and the ways a call of the
client can fail, are the subject of `MyAMQPClientImpl`; here an answer needs a read
loop that runs (`Answered`).

Left out everywhere: what is printed, exit codes, the names of queues and
exchanges, and the contents of messages but where `FrameCodec` carries them.

## 3. The runs

| Run | Instance | What it shows |
|---|---|---|
| `task_processor` | 2 loops, 2 pushers, 3 tasks | exactly once and in order, one loop, no empty pop, flushes complete, implements the service, accepted tasks run, `Stop` hangs only by a lost wake-up |
| `ack_processor` | 1 loop, 2 pushers, 3 futures | acks follow handlers, no pending future is dropped, `Stop` returns but for three named reasons |
| `buffered_connection` | 2 connections of 3 bytes, storage of 4 | the stream arrives in order, the loop fails only for a reason, calls return, data is read |
| `pipeline` | 1 message, 2 channels, 2 pauses | a pause drops no future, a flush times out only for a stranded task, acks stay on their own channel but for two named ways, a message survives pauses |
| `client` | 2 opens, 1 bind each | a closed client is quiet, the library has one user, flags are fresh, calls return or a named cycle has closed |
| `frame_codec` | every frame class, field type and property, in pieces of 3 or up to 64 octets | a frame fills the buffer its constructor announced, what is sent is received, only what was not agreed on is rejected, no frame waits for octets that never come |
| `library` | 2 channels, 4 calls and events, 8 methods | one synchronous frame at a time, frames and messages in order, implements the requests' service, a close completes, requests settle |
| `consumer` | 2 signals, 1 message after others | a halted consumer has been asked to resume, a failure is noticed, loops are doubled only after a reload; quit and reload happen and the Ctrl-C handler returns, but for the named ways |
| `lost_wakeup` | 2 loops, 1 pusher, 1 task | **violation** of `StopReturns` |
| `stranded_reader` | 1 open | **violation** of `NeverStranded` |
| `close_in_handshake` | 1 channel, 1 input | **violation** of `DelayedCloseCompletes` |
| `handler_needs_no_lock` | 1 signal, 1 message | **violation** of `HandlerNeedsNoLock` |

**Why the bounds are enough.** Two loops are what a restart needs, because the
thread of a session is never used again before it ended. Two pushers are what
contention in `Push` needs (the read loop and an ack loop push to the request
processor; the other two processors have one pusher each). Three tasks give a
task that is done, one in hand and one in the queue at once. Three bytes per
connection, read at most two at a time, give a part of a frame that stays while
more arrives; two connections give an `Open` after a `Close`; the storage of four
bytes is small enough to meet its limit. Two opens are one reopening, in the
client and in the pipeline. The number of stops, starts and pauses in
`task_processor`, `ack_processor` and `buffered_connection` is not bounded,
except by `MaxControl` stale datagrams, and the number of closes not in any run.

`frame_codec` gives each frame class the least, a usual and a large value of
every member, with two members of a frame never alike; tables are nested and
hold every type; messages are published around the size of one chunk; and four
streams break what was agreed. Pieces of 3 octets end in every part of a frame's
header over the length of a stream, pieces of up to 64 hold several frames.

In `library` two channels are what mixing up answers needs. `MCMethods` has one
method for each way through `ChannelImpl`: a request with a count in its answer
(`declareQueue`), the three with a `Deferred` of their own, the one whose frame is
not synchronous (`recover`), a message in parts, and the frames without an
answer; the other methods differ in the frame they send, which `RequestFrame`
names. Four inputs let a channel have a request under way, one that waits, a
message of the server and a close at once.

In `consumer` two signals are one in the handler of the other, or in the reopening that
it asked for. One message is enough because the stopwatch of an earlier one may be
running at the start (`Init`), so that the message "end" has its effect. Larger
instances were checked once, too slow for the run: the safety properties with three
signals and two messages, `QuitHappens` and `PauseReturns` with one signal and three
messages. No run uses symmetry, because most of them check liveness.

**Deadlock** is checked in `task_processor` and `lost_wakeup`. The other
configurations switch it off: a client may stay closed when its opens are used
up, a stream and a connection come to their end, the consumer exits, and the
program has stopped when an assertion failed.

**Fairness.** Every thread of the program that can take a step is scheduled (WF).
A thread that waits for a mutex that others take again and again gets it (SF on
the pushers, on the requests of the client and on the ack loop, which the
request processor serves between two deliveries). Nobody has to call anything:
there is no fairness on `Start`, `Stop`, `Push` or the client's calls, except on
`Resume` in `pipeline`, because the consumer asks to resume after each
pause (`Consumer/main.cpp:197`). A handler need not end in `MyAckProcessor`; it
does in `MessagePipeline`. The server owes nothing to the client; in
`ConnectionImpl` it answers what it has read (`Server`), because whether a close or
a request ends depends on it, and what arrives is given to `parse()`. It need not
send anything unasked. In `ConsumerMain` the user answers the prompt of Ctrl-C;
no signal, message or error has to come.

Each property of a passing run has a mutant, defined next to the definition it
changes and marked as one, which makes the run fail.

## 4. What the runs found

Four runs end in a violation of what the repository says:

- **Lost wake-up** (`MyReceiveTaskQueue.cpp:53`). `BreakWait` stores its flag and
  notifies without the mutex. Between the predicate test and the sleep of `Wait`
  both go unseen, and `Stop` blocks for ever on its loop.
  `StopReturnsOrSleepsForever` shows that there is no other way.
- **Stranded read loop** (`MyAMQPClientImpl.cpp:225-231`). `Open` starts the read
  loop and logs in before it starts the request processor. If the server is
  faster, the parse is refused and the read loop waits for it for ever. The same
  can happen to the `Close` after an `Open` that failed to log in.
- **Close in the handshake** (`AMQPSTL/src/connectionimpl.cpp:288`). `close()` says
  that it is delayed until the handshake is over, and sets a flag which makes
  `send()` refuse the frames of the handshake. Neither ever ends.
- **A handler that needs the lock** (`Consumer/main.cpp:160`). The Ctrl-C handler
  takes no lock, because the main thread below it may hold one, but calls `Pause`,
  which waits for a loop whose handler takes it. That is so of `benchmarkMutex`, of
  the client's `_mutex` in `CreateHelloQueue` (`MyAMQPClientImpl.cpp:66`, `:92`) and in the
  wait for the closed channel (`:417`), and of the mutex of the request queue.

Others are exceptions written into properties that pass. They say what the code
does not promise, and that it fails in no other way:

- **A flush that times out** (`FlushTimesOutOnlyIfStranded`). A task can be left in
  the queue of the stopped receive processor although `Close(true)` flushes it: by
  a `Push` that tested `_shouldRun` before `Stop` and enqueued after the loop had
  ended, or because the loop saw `_shouldRun` clear before `_flushRequested` was
  stored (`MyTaskProcessor.cpp:45-46`). The flush of the acks then waits for its
  future and fails its assertion (`MyAckProcessor.cpp:117`).
- **Acks on the next channel** (`AcksOnOwnChannel`). What a `Close` leaves queued is
  run and acknowledged on the channel of the next `Open`. `Close(false)` leaves it
  by design; `Close(true)` of a paused client does, because a processor without
  a loop flushes nothing, and so does one whose loop has not begun or looks at
  `_flushRequested` too early.
- **Cycles of the client** (`CallsReturnUnlessCycle`). `CreateHelloQueue` waits for
  its request with `_mutex` held, and a callback before it in the queue waits for
  `_mutex` (`MyAMQPClientImpl.cpp:92`). `onError` closes the buffered connection on
  the thread of the request processor, and so waits for the read loop, which
  waits for the request that runs `onError` (`:167`): a server that refuses the
  login is enough.
- **The library destroyed in use** (`LibrarySerialisedUnlessTimedOut`). After the
  five seconds of `CloseAmqpChannel` the library's objects are destroyed, whether or
  not the request that uses them has run.
- **Two loops** (`OnlyOwnedLoopRuns`), which TLC refutes when `RestartWhileRunning`
  is TRUE. `RestartsOnlyAfterReload` says when the consumer comes to it: a Ctrl-C
  after the test of `resumeRequested` and before the end of a reopening. The next
  `Resume` then starts the ack processor a second time, and waits for the first loop.
- **A frame across connections** (`StreamInOrder`). `Open` does not reset the buffer,
  and the rest of a frame of one connection stands before the bytes of the next.
- **A stuck channel** (`CloseCompletes`, `RequestsSettle`). `BasicNackFrame` inherits
  `synchronous()` and has no answer: after a reject of several messages everything
  on its channel waits, and with it the end of the connection.
- **Erased requests** (`ResumeIsAskedFor`, `ReloadHappens`). A Ctrl-C between
  `Resume()` and `resumeRequested = false` (`main.cpp:294-295`) pauses the client and
  has its request erased; a SIGHUP while the client reopens is forgotten.
- **Missed notification** (`QuitHappens`). A handler that runs between the predicate
  and the sleep of the wait notifies nobody.
- **A Ctrl-C handler that does not return** (`PauseReturns`), and with it a quit or a
  reload that does not happen. `Deadlock` names the mutexes above, and
  `CreateHelloQueue` behind a callback that wants its `_mutex`; `LostWakeup` is the
  first finding, in a `Stop` of any of the three processors; `Stranded` is the second,
  when a `Pause` waits for a read loop whose parse was refused in a reopening.
- **A half-done close** (`Throw`). A network error in the flush of the acks leaves
  `Close` (`MyAckProcessor.cpp:133`, `MyAMQPClientImpl.cpp:247`), and ends the consumer.
- **A reader interrupted** (`FailsForAReason`). A signal that reaches the read loop ends
  its `select`, which is taken for an error of the connection.
- **Errors unheard** (`FailureIsNoticed`). The completion callbacks that the `Open` of
  a reload returns are dropped (`main.cpp:301`), so that nobody hears of an error
  afterwards.

## 5. The proofs

Every theorem is proved for all values of the constants that satisfy the named
assumptions of the modules: `NoLoop` is no loop, `RestartWhileRunning` a
Boolean, `AppendMax` positive, the bounds and what a server agrees to as the greatest
channel are natural numbers, and bytes of every connection are bytes
(`ByteAssumption`). The theorems on the task processor but the first, and those on the
ack processor, assume `~RestartWhileRunning` besides: the
code starts a processor only after it stopped it. Those on `MessagePipeline` need
no such assumption, because there it is the client that makes the calls, and its
part of the invariant says that none restarts a processor that runs.

| Module | Theorem | States |
|---|---|---|
| `MyTaskProcessorProofs` | `TypeCorrect` | `Spec => []TypeOK`, with restarts too |
| | `OneLoopAtATime` | `[]OnlyOwnedLoopRuns` |
| | `TasksOnceInOrder` | `[]ExactlyOnceInOrder` |
| | `FlushNeverPopsEmptyQueue` | `[]PopFindsTask` |
| | `FlushIsComplete` | `[]FlushRunsWhatWasOwed` |
| | `ServiceImplemented` | `Spec => ImplementsService` |
| `MyAckProcessorProofs` | `AckTypeCorrect` | `AckSpec => []AckTypeOK` |
| | `AcksAreEarned` | `[]AcksFollowHandlers` |
| | `FuturesAreWaitedFor` | `[]NoPendingFutureDropped` |
| | `AckServiceImplemented` | `AckSpec => ImplementsService` |
| `MyAMQPBufferedConnectionProofs` | `AppendBackAppends` | what `Get` shows is followed by the new bytes |
| | `ConsumeFrontRemoves` | exactly the front goes |
| | `ConnectionTypeCorrect` | `Spec => []TypeOK` |
| | `LoopFailsForAReason` | `Spec => FailsForAReason` |
| | `StreamArrivesInOrder` | `[]StreamInOrder` |
| `MessagePipelineProofs` | `PipelineTypeCorrect` | `Spec => []TypeOK` |
| | `NoPauseDropsAFuture` | `[]PauseDropsNoFuture` |
| | `FlushIsStrandedOnly` | `[]FlushTimesOutOnlyIfStranded` |
| | `AcksStayOnTheirChannel` | `Spec => AcksOnOwnChannel` |
| `MyAMQPClientImplProofs` | `ClientTypeCorrect` | `Spec => []TypeOK` |
| | `ClientClosedIsQuiet` | `[]ClosedIsQuiet` |
| | `LibraryIsSerialised` | `[]LibrarySerialisedUnlessTimedOut` |
| | `FlagsAreOfThisConnection` | `[]FlagsAreFresh` |
| `ConsumerMainProofs` | `ReaderFailureIsNoticed` | `[]FailureIsNoticed` |
| | `HaltedIsAskedToResume` | `[]ResumeIsAskedFor` |
| | `RestartsAreLate` | `[]RestartsOnlyAfterReload` |
| `ConnectionImplProofs` | `InvInvariant` | `Spec => []Inv`, with the types |
| | `FramesInOrderInvariant` | `[]FramesInOrder` |
| `ConnectionRequestsProofs` | `RequestInvInvariant` | `Spec => []RequestInv` |
| | `RequestsImplemented` | `Spec => ImplementsRequests` |

None of these invariants is inductive as it stands. What each needs, and why:

**Task processor.** The argument goes in layers, each of which uses those before it.
`TypeInv` is
`TypeOK` with `HeldWhileRunning`: a loop holds a task exactly while it is inside
`task()`. `ControlInv` is `OnlyOwnedLoopRuns` with `OwnerInv`, which says why a
stopped processor has no loop: an owner that is not idle joins the loop its
handle stands for, and while it is idle nobody has told that loop to stop.
`OnlyOwnedLoopRuns` is not inductive without it, since the owner could join
another loop; and `ExactlyOnceInOrder` is not inductive without both, since two
loops could hold the same place in the order. Given both,
`ExactlyOnceInOrder` is inductive by itself: a take moves the border between the
queue and the hand, the end of a task the border between the hand and what is
done, a push the end of the queue. `PopFindsTask` needs only that no second loop
takes from the queue between the test and the pop. `FlushIsComplete` needs
`FlushInv`: `owed` is never more than what was pushed, and a flush ends on an
empty queue, so that all that was pushed is done. The refinement maps a take to
`Begin`, the end of a task to `Finish`, an enqueue to `Accept`, `Start` to `Open`
and `Join` to `Close`; it needs that a loop that is joined holds no task.

**Ack processor.** Every step of its loop is one of `MyTaskProcessor` or
`FlushThrows` (`AckStepIs`), so the invariants above are not proved again: it is
proved that `FlushThrows` keeps them. That the futures pushed stay within the bound
(`WithinBound`) counts the pushers between accept and enqueue, by the theorems on
finite sets. `AckInv` adds that what was acknowledged is among what is done, settled
and in order; it needs `ExactlyOnceInOrder`, which is why a future in hand is
greater than every one acknowledged.

**Connection.** The buffer is used through its two theorems only. `OwnerInv` says
which of the flags and sockets each step of `Close` and `Pause` has already dealt with:
a reader whose descriptor is gone has been told to stop. `StreamInv` adds to
`StreamInOrder` that all bytes are of a connection that was opened and number no
more than were sent, which orders the bytes of one connection behind those of the one
before. The steps are cuts and joins of one sequence - sent, in the socket, in the
buffer, parsed - and use `CutInTwo` and `MoveBorder`.

**Pipeline.** `PipelineInv` follows the client's calls: `calls` is one of fifteen
lists, and each says which of the processors is started (`ReceiveInv`, `AckInv`) and
what the client's flags are (`CallsInv`). A processor that is started goes on, and a
loop of the ack processor flushes only if the client told it to, which it does
after the receive processor has been stopped (`FlushInv`): that, with the fact that a
message without a result is in the queue of the receive processor or in its hand
(`ResultInv`), is `FlushTimesOutOnlyIfStranded`. `PausesInv` counts: on the first
channel, before a `Close`, the messages delivered are the futures pushed, and one more
between the push of a task and the push of its future; the ack processor never
refuses that one, since a delivery holds up `PauseRead`, and what is
left of the call says that it runs. `OwnInv` says of which channel each
future in the queue is: the open one, or one that a `Close` left; it needs `OwedInv`,
that a loop that flushed leaves only what came after its `Stop`.

**Client.** `ClientInv` says where everything that is under way can be: each of the
client's requests at most once, and only while its thread waits for it (`OnceInv`,
`RequestsInv`); a parse only while the read loop waits (`ReaderInv`); the loops
according to the call (`LoopsInv`); and the frames that will set a flag only while
their channel is open (`ChannelInv`). `ClosedIsQuiet` and `FlagsAreFresh` are facts of
a single state of these; that they survive a reopening is in the clauses on
`"resetFlags"` and `"connect"`.

**Consumer.** What is left to do of the main thread is cut in three: the handlers on
top (`h`), the call of the client under them (`o`), and the main loop (`b`). The
invariant says of each part what leads to what: a handler that stops a loop later
requests a resume and has paused before (`HandlerInv`), a call that stops a loop
starts it later (`CallInv`), and a client that is halted will be restarted by `o`, or a
resume was requested and not yet answered, or it was erased (`HaltInv`). A signal
between any two steps is then the concatenation of one more handler to `h`. For the
failure of the read loop, `ErrorInv` and `MutexInv` say that the wait cannot begin
between the store of `breakWait` and its notification.

The restarts have an invariant of their own, `LoopsInv`, which cuts the call of the
client once more: into what a closing has left (`u`, which only stops) and what comes
after it (`w`, one of the thirteen lists that a resume or a reopening goes through,
`ResumeLists` and `ReopenLists`). A reopening starts only what `u` will have stopped, or
has (`ReopenInv`); a handler stops both processors, the ack processor first, before it
makes its request (`StopInv`). So a request that waits finds no loop unless a reopening
came after it was made, and then the Ctrl-C was late (`AskedInv`, `LateInv`); and it
never finds a receive loop without an ack loop, unless a handler is about to stop
it. That order is why the resume gets stuck on the second ack loop, waiting for
the first, before it can start a receive loop twice (`ResumeInv`).

**Library.** A frame that a channel accepted is in one of three places: given to
`onData`, in the queue of the connection, which keeps what is sent during the
handshake, or in the queue of the channel, where it waits for the answer to a
synchronous frame. `Order` says that the frames of an open channel in these places,
joined in that order, are what it accepted, in the order of the calls; of a channel
that is gone, the first two are a prefix of it. The first half of `FramesInOrder`
follows at once, and the second, that a connection that said `ConnectionClose` left
nothing behind, from `Quiet`: the queue of the connection is empty from its handshake
on, and no channel waits once it is closing. `Quiet` is not inductive alone, because a
frame of the server can free a channel, or send an answer, behind a close; so
`NothingBehind` says that the server says nothing behind its own close but the answer
to ours, `NothingLeft` that a closed connection has nothing else to process, and
`Handshake` that nothing of a channel is said, by either side, before the connection is
open. The lemmas go from the inside out: what `OfChannel` makes of a concatenation;
what the methods of a channel leave of its order; what `Give` and `GiveBuffers` do with
the frames that come out; what each handler of a frame does; then one lemma for each
action. `OfChannel` is a recursive function; that it exists, and what it makes of a
concatenation, is proved by induction over the set of the lengths for which it holds
(`SetInduction`).

**Requests.** An answer of the server carries no number, and the library gives it to
the oldest `Deferred` of the channel (`channelimpl.h:591`). That this is the right one
is what `RequestsImplemented` says: the outcomes of a channel come in the order of its
requests, each once, and a success only after the server has carried out that request.
It takes an invariant on each side of the wire and one that ties them.

- *The channel* (`Promises`). The outcomes and what the callbacks still wait for are,
  one behind the other, the requests that were made (`Kept`), and these begin with
  the accepted frames that ask for something. Until the channel can accept nothing any
  more the two are the same, and none of the callbacks belongs to a call that failed
  when it was made (`Owes`); otherwise a failed call could stand before one whose
  answer is coming.
- *The server* (`HasRead`). What the library sent is what the server has read, `r`,
  and what is on the wire. What the server has performed of a channel begins the
  requests in `r`, and is all of them while the channel is open and the connection
  not over. With `FramesInOrder`, what it reads next is what the channel was asked next:
  a step of the server is `Perform`.
- *Between them* (`Answering`). The outcomes of a channel and the answers on their way
  to it are together no more than the requests performed, and a `ChannelCloseOK`
  counts for one more unless a `ChannelClose` of the server is ahead of it, which
  fails whatever waits. So the outcome of the answer that comes first is due.

A frame of the server then settles the oldest request, or fails all of them, or
settles nothing (`ParseFrameSettles`), which is `Settle`; a call of the application is
`Accept`; nothing else changes what `RequestService` sees.

Only model-checked, and why: all liveness and the fairness conditions, which are out
of the prover's reach; the findings, which are violations; `OneAtATime`
and `MessagesInOrder` of `ConnectionImpl`, which need besides to which frame under way
each answer belongs, and to which message the frames of its parts (section 7); and those of
`FrameCodec`, because it and `AMQPFields` follow the nesting of tables by RECURSIVE
operators, which the prover cannot use.

## 6. What is not modelled

- `WriteAll` (`MyUnixNetworkConnection.cp:165`), which sends its buffer from the
  start again after a partial send. No other thread sees its loop.
- Receive without threads (`CreateInlineMessageCallback`), and the sender, a
  sequence of calls that `MyAMQPClientImpl` allows.
- Handlers that run on another thread than the main one, and that a signal so
  delivered to the read loop ends its `select` in `ConsumerMain` too, where it is an
  error like others (`NotifyError`); installing and removing handlers; the daemon.
- In `ConsumerMain`, the `Close` of the buffered connection by `onError` on the thread of
  the request processor, which waits for the read loop and so for itself: it is a
  cycle of `MyAMQPClientImpl`, with no signal in it.
- The mutexes of the run-time library, those of its allocator, streams and futures,
  which a handler may find held beneath it.
- In `MessagePipeline`, the client that a half-done `Close` leaves until the destructor
  closes it again.
- Data races: the callbacks that `Open` replaces under the read loop, and the flags
  of the consumer, which are read without the mutex as if they were atomic.
- `NotifyExit` of the completion notifier, which nobody subscribes to.
- Descriptors that leak: `Close` of a paused connection, `ControlFdPair[1]`.
- The destructors, which call `Close` or `Stop` and swallow what they throw, and in
  the library the objects that are destroyed by a callback (`Monitor`).
- In the library: `Float` and `Double`; a `ShortString` of more than 255 octets; a
  type in a table that the library does not know; sizes near 2^32; identifiers of
  channels that wrap; `noWait`, which the library never sets.
- Stopwatch, keyboard, options, network utilities, accessors and output to
  streams: nothing is shared or ordered.

## 7. Plan

Done first, because every other part stands on it: the queue and the task
processor with their proofs; then the ack processor, the buffer and the
connection, their composition in `MessagePipeline`, and the life of the client;
then the library, from its fields to its connection, and the consumer; then the
proofs about the client's side, and about the order of the library's frames and of the
outcomes of its requests. Next, in this order:

1. The rest of the proofs about the library: `OneAtATime`, for which the invariant has
   to say which frame under way each answer belongs to, and `MessagesInOrder`, the same
   for the parts of a message.
2. `WriteAll` in `MyUnixNetworkConnection`, with a reference definition of what
   should reach the server.
3. Inline receive in `MessagePipeline`, with `SubscribeToReceive` as a request.
4. An abstract reliable stream that `MyAMQPBufferedConnection` implements, and an
   abstract at-most-once acknowledgement that `MessagePipeline` implements.
