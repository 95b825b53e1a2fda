------------------------------ MODULE ConsumerMain ------------------------------
(***************************************************************************)
(* Consumer/main.cpp, a client that receives until it is told to stop: the *)
(* main thread, which waits on benchmarkCondition and then resumes, reopens *)
(* or closes the client; the signal handlers, which run on the main thread *)
(* between any two of its steps; the loop of the receive processor, which  *)
(* runs messageHandler; and the read loop, which runs errorHandler.        *)
(*                                                                         *)
(* What is left of the program on the main thread's stack is the sequence  *)
(* todo of its steps, and a signal puts the steps of its handler before    *)
(* them.  Of the client there is what these threads wait for: its loops,   *)
(* and the mutexes the main thread holds in the parts of a call.  What the *)
(* loops do with messages is the subject of MessagePipeline, and how the   *)
(* calls wait for the server and for requests that of MyAMQPClientImpl.    *)
(* The locks of the run-time library, those of its allocator, streams and  *)
(* futures, are not there.                                                 *)
(***************************************************************************)
EXTENDS Naturals, Sequences

CONSTANTS MaxSignals,  \* a bound of the model: signals caught
          MaxMessages  \* a bound of the model: messages received

ASSUME BoundsAssumption == MaxSignals \in Nat /\ MaxMessages \in Nat

VARIABLES
    todo,       \* the steps left to the main thread, its own and a handler's
    mutex,      \* who holds benchmarkMutex
    waiting,    \* is the main thread on benchmarkCondition's list?
    breakWait, isEndMessage, resumeRequested, caughtReload,
    stopwatch,  \* benchmarkStopwatch.IsRunning()
    client,     \* [pauseClient,
                \*  loops: the loops of the receive and of the ack processor,
                \*  handle: is the read loop's handle valid?
                \*  requests: does the request processor run?
                \*  part: the part of a call that the main thread is in,
                \*  holds: the mutexes of the client that it holds there,
                \*  subscribed: are the callbacks of this Open subscribed to?]
    reader,     \* where the read loop is
    handler,    \* where messageHandler is
    signals,    \* history: the signals caught
    messages,   \* history: the messages received
    reloadOwed, \* history: no reopening has begun since the last SIGHUP
    missed,     \* history: a handler ran between the predicate and the sleep
    erased,     \* history: requests made before the flag of an earlier one was reset
    early       \* history: a Ctrl-C came too late for the resume before a reopening

flags == <<breakWait, isEndMessage, stopwatch, resumeRequested, caughtReload>>
threads == <<reader, handler>>
history == <<signals, messages, reloadOwed, missed, erased, early>>
shared == <<mutex, waiting, flags, threads, history>>
vars == <<todo, client, shared>>

Processor == {"receive", "ack"}
Signal == {"INT", "HUP", "TERM"}
None == "none"

Occurs(step) == \E i \in DOMAIN todo : todo[i] = step

\* A signal is blocked while its own handler runs, not while another's does.
Returning(sig) == CASE sig = "INT" -> "returnINT"
                    [] sig = "HUP" -> "returnHUP"
                    [] OTHER -> "returnTERM"
Masked(sig) == Occurs(Returning(sig))

Reopening == Occurs("clearReload")
Ended == todo = <<>>

\* The client as Open and OpenQueueForReceive leave it, before any signal; a first
\* message may have been handled, and have started the stopwatch.
Init ==
    /\ todo = <<"top">>
    /\ mutex = None /\ waiting = FALSE
    /\ breakWait = FALSE /\ isEndMessage = FALSE /\ stopwatch \in BOOLEAN
    /\ resumeRequested = FALSE /\ caughtReload = FALSE
    /\ client = [pauseClient |-> FALSE, loops |-> [receive |-> 1, ack |-> 1],
                 handle |-> TRUE, requests |-> TRUE, part |-> 1, holds |-> {},
                 subscribed |-> TRUE]
    /\ reader = "running" /\ handler = "idle"
    /\ signals = 0 /\ messages = 0
    /\ reloadOwed = FALSE /\ missed = FALSE /\ erased = {} /\ early = FALSE

At(step) == todo # <<>> /\ Head(todo) = step
Then(steps) == todo' = steps \o Tail(todo)

-----------------------------------------------------------------------------
(* Calls of the client, in steps that a signal can come between.           *)

Stop == [ack |-> "stopAck", receive |-> "stopReceive"]
Start == [ack |-> "startAck", receive |-> "startReceive"]
Old == [ack |-> "oldAck", receive |-> "oldReceive"]  \* the loop that Start replaces

\* Mutant: Close leaves the ack processor to its destructor
CloseClientForgetsAck(flush) ==
    <<Stop.receive, "closeConnection", "closeReader", "stopRequests">>

CloseClient(flush) ==
    (IF flush THEN <<Stop.receive, Stop.ack, "closeChannel">>
              ELSE <<Stop.ack, Stop.receive, "closeConnection">>)
    \o <<"closeReader", "stopRequests">>

OpenQueueForReceive == <<"createQueue", Start.receive, Start.ack, "consume">>

Pause == <<"pauseFlag", "pauseReader", Stop.ack, Stop.receive>>

Resume == IF client.pauseClient THEN <<Start.ack, Start.receive, "startReader">> ELSE <<>>

\* What Stop waits for: the task being run, an ack under way, or for ever, if the
\* loop was about to sleep and BreakWait came in between.
Awaited == [ack |-> {<<>>, <<"joinAck">>, <<"lost">>},
            receive |-> {<<"joinReceive">>, <<"lost">>}]

\* Stop of a processor: a handle that is waited for is not valid any more, so
\* that a Stop within the wait returns at once.
StopProcessor(p) ==
    /\ At(Stop[p])
    /\ \E ends \in IF client.loops[p] > 0 THEN Awaited[p] ELSE {<<>>} : Then(ends)
    /\ client' = [client EXCEPT !.loops[p] = 0]
    /\ UNCHANGED shared

\* Start replaces the handle of a loop that was not stopped, and the future of
\* an async that is destroyed waits for its end.
StartProcessor(p) ==
    /\ At(Start[p])
    /\ Then(IF client.loops[p] = 0 THEN <<>> ELSE <<Old[p]>>)
    /\ client' = [client EXCEPT !.loops[p] = @ + 1]
    /\ UNCHANGED shared

\* Both PauseReadLoop and Close wait for the read loop.
StopReader(step) ==
    /\ At(step)
    /\ Then(IF client.handle THEN <<"joinReader">> ELSE <<>>)
    /\ client' = [client EXCEPT !.handle = FALSE]
    /\ UNCHANGED shared

\* The ends that are waited for: of the task being run, of an ack, which is a
\* request like others, of the read loop, and of an old loop, which ends when the
\* Stop of a handler ends both.
Join ==
    /\ \/ At("joinReceive") /\ handler = "idle"
       \/ At("joinAck") /\ "queue" \notin client.holds
       \/ At("joinReader") /\ reader = None
       \/ At(Old.ack) /\ client.loops.ack = 0
       \/ At(Old.receive) /\ client.loops.receive = 0 /\ handler = "idle"
    /\ Then(<<>>)
    /\ UNCHANGED <<client, shared>>

\* ResumeReadLoop, after Connect when the client opens.
StartReader(step) ==
    /\ At(step)
    /\ Then(<<>>)
    /\ client' = [client EXCEPT !.handle = TRUE]
    /\ reader' = IF client.handle THEN reader ELSE "running"
    /\ UNCHANGED <<mutex, waiting, flags, handler, history>>

PauseFlag ==
    /\ At("pauseFlag")
    /\ Then(<<>>)
    /\ client' = [client EXCEPT !.pauseClient = TRUE]
    /\ UNCHANGED shared

\* Open ends with new completion callbacks, which the main thread discards: it
\* subscribed to those of the first Open.
CreateCompletionCallbacks ==
    /\ At("newCallbacks")
    /\ Then(<<>>)
    /\ client' = [client EXCEPT !.subscribed = FALSE]
    /\ UNCHANGED shared

\* Start and Stop of the request processor, whose Stop may lose its wake-up too.
StartRequests ==
    /\ At("startRequests")
    /\ Then(<<>>)
    /\ client' = [client EXCEPT !.requests = TRUE]
    /\ UNCHANGED shared

StopRequests ==
    /\ At("stopRequests")
    /\ \E ends \in IF client.requests THEN {<<>>, <<"lost">>} ELSE {<<>>} : Then(ends)
    /\ client' = [client EXCEPT !.requests = FALSE]
    /\ UNCHANGED shared

\* The calls that hold a mutex, and what they hold in each of their parts: _mutex of
\* the client, and that of the request queue while a request is pushed on it.
\* CreateHelloQueue waits for the channel, pushes its request, waits for its result
\* and for the queue; a Close that flushes pushes a request, looks whether the
\* channel is finalized and waits for it, and pushes one to close the connection,
\* which it leaves out if the channel took too long.
HeldIn == [createQueue |-> <<{}, {"client", "queue"}, {"client"}, {}, {"client"}>>,
           consume |-> <<{}, {"queue"}>>,
           closeChannel |-> <<{}, {"queue"}, {"client"}, {}, {"client"}, {"queue"}>>,
           closeConnection |-> <<{}, {"queue"}>>]

\* CreateHelloQueue goes on when the server has answered, which takes a read loop,
\* and when the request is done.  That may be behind a parse whose callback wants
\* _mutex; a callback that comes after the request is taken to come later.
Answered ==
    /\ client.part \in {1, 4} => reader \in {"running", "parse", "callback"}
    /\ client.part = 3 => reader # "callback"

\* A request that is not accepted is not waited for.
HasPart(step) == client.part < Len(HeldIn[step]) /\ client.requests

NextPart(step) ==
    /\ At(step)
    /\ step = "createQueue" => Answered
    /\ HasPart(step)
    /\ client' = [client EXCEPT !.part = @ + 1, !.holds = HeldIn[step][client.part + 1]]
    /\ UNCHANGED <<todo, shared>>

EndCall(step) ==
    /\ At(step)
    /\ step = "createQueue" => Answered
    /\ ~HasPart(step)
    /\ Then(<<>>)
    /\ client' = [client EXCEPT !.part = 1, !.holds = {}]
    /\ UNCHANGED shared

\* What throws ends the program: no connection, or none any more for the login or
\* for a request, or no answer in time; and a network error in the flush of the
\* acks, which leaves Close where it would go on with the channel.  The callbacks
\* and the signal handlers are destroyed, and then the client, which closes itself.
Throw ==
    /\ \/ At("connect") \/ At("startRequests")
       \/ At("closeChannel") /\ client.part = 1
       \/ At("createQueue") /\ client.part \in {1, 4}
       \/ At("createQueue") /\ client.part = 3 /\ Answered
       \/ At("consume") /\ client.part = 2
    /\ todo' = CloseClient(FALSE) \o <<"unwound">>
    /\ client' = [client EXCEPT !.subscribed = FALSE, !.part = 1, !.holds = {}]
    /\ UNCHANGED shared

RequestStep ==
    \/ CreateCompletionCallbacks \/ StartRequests \/ StopRequests
    \/ \E step \in DOMAIN HeldIn : EndCall(step)

ClientStep ==
    \/ \E p \in Processor : StopProcessor(p) \/ StartProcessor(p)
    \/ Join \/ PauseFlag
    \/ \E step \in {"pauseReader", "closeReader"} : StopReader(step)
    \/ \E step \in {"startReader", "connect"} : StartReader(step)
    \/ RequestStep \/ Throw
    \/ \E step \in DOMAIN HeldIn : NextPart(step)

-----------------------------------------------------------------------------
(* The main thread.                                                        *)

Top ==
    /\ At("top")
    /\ \/ ~breakWait /\ Then(<<"lock", "test">>)
       \/ breakWait /\ \E flush \in BOOLEAN : Then(CloseClient(flush) \o <<"end">>)
    /\ UNCHANGED <<client, shared>>

Lock ==
    /\ At("lock")
    /\ mutex = None
    /\ mutex' = "main"
    /\ Then(<<>>)
    /\ UNCHANGED <<waiting, flags, client, threads, history>>

\* Mutant: the predicate does not ask for a reload
WakesForgetsReload == (isEndMessage /\ stopwatch) \/ breakWait \/ resumeRequested

Wakes == (isEndMessage /\ stopwatch) \/ breakWait \/ resumeRequested \/ caughtReload

\* The predicate of the wait.
Test ==
    /\ At("test")
    /\ Then(IF Wakes THEN <<"tally">> ELSE <<"sleep">>)
    /\ UNCHANGED <<client, shared>>

Sleep ==
    /\ At("sleep")
    /\ Then(<<"asleep">>)
    /\ waiting' = TRUE
    /\ mutex' = None
    /\ UNCHANGED <<flags, client, threads, history>>

Wake ==
    /\ At("asleep")
    /\ ~waiting /\ mutex = None
    /\ mutex' = "main"
    /\ Then(<<"test">>)
    /\ UNCHANGED <<waiting, flags, client, threads, history>>

SpuriousWakeup ==
    /\ At("asleep")
    /\ waiting
    /\ waiting' = FALSE
    /\ UNCHANGED <<todo, mutex, flags, client, threads, history>>

\* Mutant: the tally resets the request as well
TallyResetsAll ==
    /\ At("tally")
    /\ Then(<<"unlock", "checkResume">>)
    /\ isEndMessage' = FALSE /\ stopwatch' = FALSE /\ resumeRequested' = FALSE
    /\ UNCHANGED <<mutex, waiting, breakWait, caughtReload, client, threads, history>>

\* The tally of the messages, under the mutex.
Tally ==
    /\ At("tally")
    /\ Then(<<"unlock", "checkResume">>)
    /\ isEndMessage' = FALSE /\ stopwatch' = FALSE
    /\ UNCHANGED <<mutex, waiting, breakWait, resumeRequested, caughtReload, client,
                   threads, history>>

Unlock ==
    /\ At("unlock")
    /\ Then(<<>>)
    /\ mutex' = None
    /\ UNCHANGED <<waiting, flags, client, threads, history>>

CheckResume ==
    /\ At("checkResume")
    /\ Then((IF resumeRequested THEN Resume \o <<"clearResume">> ELSE <<>>)
            \o <<"checkReload">>)
    /\ UNCHANGED <<client, shared>>

ClearResume ==
    /\ At("clearResume")
    /\ Then(<<>>)
    /\ resumeRequested' = FALSE
    /\ UNCHANGED <<mutex, waiting, breakWait, isEndMessage, stopwatch, caughtReload,
                   client, threads, history>>

Reopen(flush) ==
    CloseClient(flush) \o CloseClient(FALSE)
    \o <<"connect", "startRequests", "newCallbacks">> \o OpenQueueForReceive \o <<"clearReload">>

\* Open begins with a Close of its own.
CheckReload ==
    /\ At("checkReload")
    /\ \/ ~caughtReload /\ Then(<<"top">>) /\ UNCHANGED reloadOwed
       \/ /\ caughtReload
          /\ \E flush \in BOOLEAN : Then(Reopen(flush) \o <<"top">>)
          /\ reloadOwed' = FALSE
    /\ UNCHANGED <<mutex, waiting, flags, client, threads, signals, messages, missed,
                   erased, early>>

ClearReload ==
    /\ At("clearReload")
    /\ Then(<<>>)
    /\ caughtReload' = FALSE
    /\ UNCHANGED <<mutex, waiting, breakWait, isEndMessage, stopwatch, resumeRequested,
                   client, threads, history>>

End ==
    /\ \/ At("end") \/ At("unwound")
    /\ Then(<<>>)
    /\ UNCHANGED <<client, shared>>

MainStep ==
    \/ Top \/ Lock \/ Test \/ Sleep \/ Wake \/ Tally \/ Unlock
    \/ CheckResume \/ ClearResume \/ CheckReload \/ ClearReload \/ End

-----------------------------------------------------------------------------
(* The signal handlers, on the main thread.                                *)

\* Mutant: the Ctrl-C handler locks the mutex for its request
HandleLocks(sig) ==
    CASE sig = "INT" -> Pause \o <<"option", "lock", "requestResume", "unlock", "notify">>
      [] sig = "HUP" -> <<"requestReload", "notify">>
      [] OTHER -> <<"notify">>

\* The handler that is installed for a signal.  That of SIGTERM sets a flag that
\* nobody reads, and notifies.
Handle(sig) ==
    CASE sig = "INT" -> Pause \o <<"option", "requestResume", "notify">>
      [] sig = "HUP" -> <<"requestReload", "notify">>
      [] OTHER -> <<"notify">>

\* The main thread parks itself wherever it is.
UnixSignalHandler(sig) ==
    /\ signals < MaxSignals
    /\ ~Ended /\ ~Occurs("unwound") /\ ~At("end")
    /\ ~Masked(sig)
    /\ todo' = Handle(sig) \o <<Returning(sig)>> \o todo
    /\ signals' = signals + 1
    /\ missed' = (missed \/ Occurs("sleep"))
    /\ early' = (early \/ (sig = "INT" /\ (Reopening \/ Occurs("checkReload"))))
    /\ UNCHANGED <<mutex, waiting, flags, client, threads, messages, reloadOwed, erased>>

\* The user answers: terminate, quit, or go on with one delay or another.
Option ==
    /\ At("option")
    /\ Then(<<>>)
    /\ breakWait' \in {breakWait, TRUE}
    /\ UNCHANGED <<mutex, waiting, isEndMessage, stopwatch, resumeRequested,
                   caughtReload, client, threads, history>>

\* A request is erased if the main thread has yet to reset the flag for one that
\* it has carried out, and is not if it has not begun to.
RequestResume ==
    /\ At("requestResume")
    /\ Then(<<>>)
    /\ resumeRequested' = TRUE
    /\ erased' = IF Occurs("clearResume") THEN erased \cup {"INT"} ELSE erased \ {"INT"}
    /\ UNCHANGED <<mutex, waiting, breakWait, isEndMessage, stopwatch, caughtReload,
                   client, threads, signals, messages, reloadOwed, missed, early>>

RequestReload ==
    /\ At("requestReload")
    /\ Then(<<>>)
    /\ caughtReload' = TRUE
    /\ reloadOwed' = TRUE
    /\ erased' = IF Reopening THEN erased \cup {"HUP"} ELSE erased \ {"HUP"}
    /\ UNCHANGED <<mutex, waiting, breakWait, isEndMessage, stopwatch, resumeRequested,
                   client, threads, signals, messages, missed, early>>

Notify ==
    /\ At("notify")
    /\ Then(<<>>)
    /\ waiting' = FALSE
    /\ UNCHANGED <<mutex, flags, client, threads, history>>

Return ==
    /\ \E sig \in Signal : At(Returning(sig))
    /\ Then(<<>>)
    /\ UNCHANGED <<client, shared>>

HandlerStep ==
    Option \/ RequestResume \/ RequestReload \/ Notify \/ Return

-----------------------------------------------------------------------------
(* messageHandler, on the thread of the receive processor.                 *)

\* The next task of the queue, where there may be messages of before, also when it
\* is flushed and when a Stop comes too late for it.
Receive ==
    /\ handler = "idle"
    /\ client.loops.receive > 0 \/ Occurs("joinReceive")
    /\ messages < MaxMessages
    /\ messages' = messages + 1
    /\ \E m \in {"plain", "end", "goodbye"} : handler' = m
    /\ UNCHANGED <<todo, mutex, waiting, flags, client, reader, signals, reloadOwed,
                   missed, erased, early>>

MessageLocked ==
    /\ handler \in {"plain", "end", "goodbye"}
    /\ mutex = None
    /\ mutex' = "messages"
    /\ handler' = "locked"
    /\ isEndMessage' = (handler = "end")
    /\ stopwatch' = (stopwatch \/ handler # "end")
    /\ breakWait' = (breakWait \/ handler = "goodbye")
    /\ UNCHANGED <<todo, waiting, resumeRequested, caughtReload, client, reader, history>>

MessageUnlocked ==
    /\ handler = "locked"
    /\ mutex' = None
    /\ handler' = "notify"
    /\ UNCHANGED <<todo, waiting, flags, client, reader, history>>

\* Mutant: only the message end is notified
MessageNotifiesEnd ==
    /\ handler = "notify"
    /\ handler' = "idle"
    /\ waiting' = (waiting /\ ~(isEndMessage /\ stopwatch))
    /\ UNCHANGED <<todo, mutex, flags, client, reader, history>>

\* The flags are read after the mutex was released.
MessageNotifies ==
    /\ handler = "notify"
    /\ handler' = "idle"
    /\ waiting' = (waiting /\ ~((isEndMessage /\ stopwatch) \/ breakWait))
    /\ UNCHANGED <<todo, mutex, flags, client, reader, history>>

MessageStep == MessageLocked \/ MessageUnlocked \/ MessageNotifies

-----------------------------------------------------------------------------
(* The read loop, and errorHandler on its thread.                          *)

\* OnNetworkRead has what was read parsed by a request, for which the mutex of the
\* request queue is wanted, and in which the library calls back.
Parse ==
    /\ reader = "running" /\ client.requests
    /\ reader' = "parse"
    /\ UNCHANGED <<todo, mutex, waiting, flags, client, handler, history>>

\* The request processor does not run yet: the parse is not accepted, and its
\* result is waited for.
ParseRefused ==
    /\ reader = "running" /\ ~client.requests
    /\ reader' = "refused"
    /\ UNCHANGED <<todo, mutex, waiting, flags, client, handler, history>>

ReadsOn == IF client.handle THEN "running" ELSE None

\* A parse whose callbacks want no mutex, or one that comes to a callback of the
\* client's.
Parsed ==
    /\ reader = "parse"
    /\ "queue" \notin client.holds
    /\ reader' \in {ReadsOn, "callback"}
    /\ UNCHANGED <<todo, mutex, waiting, flags, client, handler, history>>

CalledBack ==
    /\ reader = "callback"
    /\ "client" \notin client.holds
    /\ reader' = ReadsOn
    /\ UNCHANGED <<todo, mutex, waiting, flags, client, handler, history>>

\* NotifyError, of a Read or a parse that throws: nobody hears of it but a
\* subscriber.
NotifyError ==
    /\ reader = "running"
    /\ reader' = IF client.subscribed THEN "error" ELSE None
    /\ UNCHANGED <<todo, mutex, waiting, flags, client, handler, history>>

\* The loop sees that its handle is waited for.
ReaderExits ==
    /\ reader = "running" /\ ~client.handle
    /\ reader' = None
    /\ UNCHANGED <<todo, mutex, waiting, flags, client, handler, history>>

\* Mutant: errorHandler sets the flag without the mutex
ErrorLockedWithout ==
    /\ reader = "error"
    /\ reader' = "notify"
    /\ breakWait' = TRUE
    /\ UNCHANGED <<todo, mutex, waiting, isEndMessage, stopwatch, resumeRequested,
                   caughtReload, client, handler, history>>

ErrorLocked ==
    /\ reader = "error"
    /\ mutex = None
    /\ reader' = "locked"
    /\ mutex' = "reader"
    /\ breakWait' = TRUE
    /\ UNCHANGED <<todo, waiting, isEndMessage, stopwatch, resumeRequested, caughtReload,
                   client, handler, history>>

ErrorUnlocked ==
    /\ reader = "locked"
    /\ reader' = "notify"
    /\ mutex' = None
    /\ UNCHANGED <<todo, waiting, flags, client, handler, history>>

ErrorNotifies ==
    /\ reader = "notify"
    /\ reader' = None
    /\ waiting' = FALSE
    /\ UNCHANGED <<todo, mutex, flags, client, handler, history>>

ReaderStep ==
    \/ Parsed \/ CalledBack \/ ReaderExits
    \/ ErrorLocked \/ ErrorUnlocked \/ ErrorNotifies

-----------------------------------------------------------------------------
Next ==
    \/ MainStep \/ ClientStep \/ HandlerStep \/ SpuriousWakeup
    \/ \E sig \in Signal : UnixSignalHandler(sig)
    \/ Receive \/ MessageStep
    \/ Parse \/ ParseRefused \/ NotifyError \/ ReaderStep

Spec == Init /\ [][Next]_vars

\* The threads are scheduled and the user answers.
FairSpec ==
    /\ Spec
    /\ WF_vars(MainStep \/ ClientStep \/ HandlerStep)
    /\ WF_vars(MessageStep)
    /\ WF_vars(ReaderStep)

-----------------------------------------------------------------------------
(* What must hold.                                                         *)

Halted == client.loops.receive = 0 \/ client.loops.ack = 0 \/ ~client.handle

\* A Pause waits on top of a mutex that the main thread holds for a thread that wants
\* it: benchmarkMutex, _mutex of the client or that of its request queue.  And
\* CreateHelloQueue waits for a request behind a callback that wants its _mutex.
Deadlock ==
    \/ /\ mutex = "main"
       /\ \/ At("joinReceive") /\ handler \in {"plain", "end", "goodbye"}
          \/ At("joinReader") /\ reader = "error"
    \/ /\ "client" \in client.holds
       /\ reader = "callback" /\ (At("joinReader") \/ At("createQueue"))
    \/ /\ "queue" \in client.holds
       /\ (At("joinReader") /\ reader = "parse") \/ At("joinAck")

\* The main thread waits for a loop that did not hear of its Stop.
LostWakeup == Occurs("lost")

\* The read loop waits for a request that was not accepted.
Stranded == reader = "refused"

\* Resume waits for the end of a loop that nobody stopped.
Stuck == \E p \in Processor : client.loops[p] = 2

\* A consumer that sleeps with its client halted, by a Ctrl-C at any moment of
\* any of its steps, has been asked to resume it, unless the request was erased
\* by the reset of an earlier one (main.cpp:295).
ResumeIsAskedFor ==
    At("asleep") /\ waiting /\ Halted => resumeRequested \/ "INT" \in erased

\* A consumer whose read loop has failed does not sleep on: errorHandler and the
\* wait agree on the mutex.  After a SIGHUP nobody subscribed (main.cpp:301).
FailureIsNoticed ==
    At("asleep") /\ waiting /\ client.handle /\ reader = None => ~client.subscribed

\* Two loops of a processor run only if a Ctrl-C came after the main thread asked
\* whether to resume and before it had reopened: the Resume that the Ctrl-C asks
\* for then starts what the reopening has started.
RestartsOnlyAfterReload ==
    \A p \in Processor : client.loops[p] > 1 => early /\ p = "ack" /\ client.loops[p] = 2

\* Terminate, quit, the message goodbye and an error end the program, unless a
\* signal deadlocks it or finds it between the predicate and the sleep, or it waits
\* for a loop that nobody stopped, that did not hear of it, or that is stranded.
QuitHappens ==
    breakWait ~> Ended \/ Deadlock \/ missed \/ Stuck \/ LostWakeup \/ Stranded

\* A SIGHUP makes the consumer reopen its client, from the beginning; but for the
\* cases above, one that comes while it is reopening is forgotten (main.cpp:304).
ReloadHappens ==
    reloadOwed ~> \/ ~reloadOwed \/ "HUP" \in erased
                  \/ Ended \/ Deadlock \/ missed \/ Stuck \/ LostWakeup \/ Stranded

\* A Ctrl-C handler comes to its end, wherever the signal found the main thread, but
\* for three ways: the main thread holds a mutex that a thread it waits for wants,
\* benchmarkMutex, or _mutex or the request queue's in a call of the client
\* (MyAMQPClientImpl.cpp:66, :417); a Stop loses its wake-up; and the read loop was
\* started before the request processor (MyAMQPClientImpl.cpp:225-231).
PauseReturns == Masked("INT") ~> ~Masked("INT") \/ Deadlock \/ LostWakeup \/ Stranded

-----------------------------------------------------------------------------
(* What the repository says and the code does not do.                      *)

\* main.cpp:194-196: restarting "is done in the main line of execution on the
\* main thread, so we signal without the lock here (in case lock was taken just
\* before sigtramp)": a handler does not wait for what the main thread holds.  That
\* a Stop or a Start may hang without a mutex is another matter.
HandlerNeedsNoLock == Masked("INT") ~> ~Masked("INT") \/ LostWakeup \/ Stranded
=============================================================================
