---------------------------- MODULE MyAMQPClientImpl ----------------------------
(***************************************************************************)
(* How the threads of MyAMQP/MyAMQPClientImpl wait for each other when the *)
(* client is opened, used and closed:                                      *)
(*   - the client's thread, which calls Open, CreateHelloQueue,            *)
(*     SendHelloWorld and Close, one after another;                        *)
(*   - the request processor, the only thread that may call the Copernica  *)
(*     library, and that runs the library's callbacks;                     *)
(*   - the read loop, which has each piece of data parsed by a request and *)
(*     waits for it;                                                       *)
(*   - the server, external.                                               *)
(*                                                                         *)
(* The request processor is the same loop over the same queue as           *)
(* MyTaskProcessor, which implements SerialTaskService; here it is that    *)
(* service, a queue run in order by one thread, that a Stop may find asleep *)
(* for ever (StopReturns of MyTaskProcessor).  A request that parses is    *)
(* the frame it parses.  The messages and their two processors are the     *)
(* subject of MessagePipeline.                                             *)
(***************************************************************************)
EXTENDS Naturals, Sequences, FiniteSets

CONSTANTS MaxOpens,  \* a bound of the model: calls of Open
          MaxBinds   \* a bound of the model: calls of CreateHelloQueue per Open

ASSUME BoundsAssumption == MaxOpens \in Nat /\ MaxBinds \in Nat

VARIABLES
    main,       \* where the client's thread is
    op,         \* the call it is in
    flush,      \* the argument of Close
    answered,   \* is the future of its last request ready?
    mutex,      \* does the client's thread hold _mutex?
    channelOpen, channelInError, queueReady, channelFinalized,
    channel,    \* is there a _channel?
    connection, \* is there an _amqpConnection?
    accepting,  \* _requestProcessor._shouldRun
    alive,      \* _requestProcessor._loopHandle.valid()
    queue,      \* the requests that wait
    request,    \* the request being run
    reader,     \* where the read loop is
    handle,     \* _readLoopHandle.valid()
    socket,     \* is the connection open?
    incoming,   \* the frames on the socket
    replies,    \* what the server has yet to answer
    hungUp,     \* the server closed the connection
    opens,      \* history: calls of Open
    binds,      \* history: calls of CreateHelloQueue since the last Open
    timedOut,   \* history: a Close did not wait for its channel to be closed
    bound       \* history: the queue was bound on this connection

mains == <<main, op, flush>>
flags == <<channelOpen, channelInError, queueReady, channelFinalized>>
library == <<channel, connection>>
requests == <<accepting, alive, queue, request, answered>>
reads == <<reader, handle>>
server == <<socket, incoming, replies, hungUp>>
history == <<opens, binds, timedOut, bound>>
locked == <<mutex, flags>>
vars == <<mains, locked, library, requests, reads,
          server, history>>

None == "none"

\* Frames whose callback takes _mutex.
Callback == {"channelReady", "channelError", "bound", "channelClosed",
             "connectionError"}

\* What the read loop has parsed: a frame, or nothing, once it was disconnected.
Parse == Callback \cup {"connected", "nothing"}

Request == {"bind", "publish", "closeChannel", "closeConnection"}

MainPC == {"idle", "closeChannel", "waitFinalized", "closeConnection", "getClose",
           "closeReader", "joinReader", "reset", "stopRequests", "joinRequests",
           "resetFlags", "connect", "login", "startRequests",
           "waitChannel", "bind", "getBind", "waitQueue", "getPublish"}

\* The truth values.
FlagsOK ==
    /\ {flush, answered, mutex} \subseteq BOOLEAN
    /\ {channelOpen, channelInError, queueReady, channelFinalized} \subseteq BOOLEAN
    /\ {channel, connection, accepting, alive, handle} \subseteq BOOLEAN
    /\ {socket, hungUp, timedOut, bound} \subseteq BOOLEAN

\* What waits, runs and is on its way.
WorkOK ==
    /\ queue \in Seq(Parse \cup Request)
    /\ request \in Parse \cup Request \cup {None, "joinReader", "asleep"}
    /\ reader \in {None, "reading", "waiting", "exited"}
    /\ incoming \in Seq(Parse) /\ replies \subseteq Parse

\* The client's thread; nobody but its own calls holds _mutex for long, and of all
\* its calls only CreateHelloQueue keeps it while it waits.
CallsOK ==
    /\ main \in MainPC /\ op \in {None, "open", "close", "create", "publish"}
    /\ mutex <=> main \in {"bind", "getBind"}
    /\ opens \in 0..MaxOpens /\ binds \in 0..MaxBinds

TypeOK == FlagsOK /\ WorkOK /\ CallsOK

Init ==
    /\ main = "idle" /\ op = None /\ flush = FALSE /\ answered = FALSE
    /\ mutex = FALSE
    /\ channelOpen = FALSE /\ channelInError = FALSE
    /\ queueReady = FALSE /\ channelFinalized = FALSE
    /\ channel = FALSE /\ connection = FALSE
    /\ accepting = FALSE /\ alive = FALSE /\ queue = <<>> /\ request = None
    /\ reader = None /\ handle = FALSE
    /\ socket = FALSE /\ incoming = <<>> /\ replies = {} /\ hungUp = FALSE
    /\ opens = 0 /\ binds = 0 /\ timedOut = FALSE /\ bound = FALSE

-----------------------------------------------------------------------------
(* Close, and the Close(false) that Open begins with.                      *)

GoTo(from, to) ==
    /\ main = from
    /\ main' = to
    /\ UNCHANGED <<op, flush>>

\* The client's thread stops the request processor itself, so that what it
\* pushes between Start and Stop is accepted.
PushRequest(r) ==
    /\ accepting
    /\ queue' = Append(queue, r)
    /\ answered' = FALSE
    /\ UNCHANGED <<accepting, alive, request>>

Call(name, f) ==
    /\ main = "idle"
    /\ main' = "closeChannel"
    /\ op' = name
    /\ flush' = f

OpenCall ==
    /\ Call("open", FALSE)
    /\ opens < MaxOpens
    /\ opens' = opens + 1
    /\ binds' = 0
    /\ UNCHANGED <<locked, library, requests, reads, server, timedOut, bound>>

CloseCall ==
    /\ \E f \in BOOLEAN : Call("close", f)
    /\ UNCHANGED <<locked, library, requests, reads, server, history>>

\* CloseAmqpChannel, if there is a channel to flush.
CloseChannel ==
    /\ \/ /\ channel /\ flush
          /\ GoTo("closeChannel", "waitFinalized")
          /\ PushRequest("closeChannel")
       \/ /\ ~(channel /\ flush /\ accepting)
          /\ GoTo("closeChannel", "closeConnection")
          /\ UNCHANGED requests
    /\ UNCHANGED <<locked, library, reads, server, history>>

\* Mutant: CloseAmqpChannel waits as long as it takes.
WaitFinalizedForEver ==
    /\ channelFinalized
    /\ GoTo("waitFinalized", "closeConnection")
    /\ UNCHANGED <<locked, library, requests, reads, server, history>>

\* The channel was finalized, or five seconds are over: then CloseAmqpChannel
\* throws, and CloseAmqpConnection is not called.
WaitFinalized ==
    /\ \/ /\ channelFinalized
          /\ GoTo("waitFinalized", "closeConnection")
          /\ UNCHANGED timedOut
       \/ /\ ~channelFinalized
          /\ GoTo("waitFinalized", "closeReader")
          /\ timedOut' = TRUE
    /\ UNCHANGED <<locked, library, requests, reads, server, opens, binds, bound>>

CloseConnection ==
    /\ \/ /\ GoTo("closeConnection", "getClose")
          /\ PushRequest("closeConnection")
       \/ /\ ~accepting
          /\ GoTo("closeConnection", "closeReader")
          /\ UNCHANGED requests
    /\ UNCHANGED <<locked, library, reads, server, history>>

\* Mutant: CloseAmqpConnection pushes its request and does not wait for it.
GetCloseSkipped ==
    /\ GoTo("getClose", "closeReader")
    /\ UNCHANGED <<locked, library, requests, reads, server, history>>

GetClose ==
    /\ answered
    /\ GoTo("getClose", "closeReader")
    /\ UNCHANGED <<locked, library, requests, reads, server, history>>

\* _bufferedConnection.Close: disconnect, and wait for the read loop.
CloseReader ==
    /\ GoTo("closeReader", IF handle THEN "joinReader" ELSE "reset")
    /\ socket' = (socket /\ ~handle)
    /\ UNCHANGED <<locked, library, requests, reads, incoming, replies, hungUp,
                   history>>

\* Mutant: the read loop is told to stop and not waited for.
JoinReaderSkipped ==
    /\ GoTo("joinReader", "reset")
    /\ handle' = FALSE
    /\ UNCHANGED <<locked, library, requests, reader, server, history>>

JoinReader ==
    /\ reader = "exited"
    /\ GoTo("joinReader", "reset")
    /\ handle' = FALSE
    /\ UNCHANGED <<locked, library, requests, reader, server, history>>

\* _channel and _amqpConnection are destroyed, by the client's thread.
Reset ==
    /\ GoTo("reset", "stopRequests")
    /\ channel' = FALSE /\ connection' = FALSE
    /\ UNCHANGED <<locked, requests, reads, server, history>>

Closed == IF op = "open" THEN "resetFlags" ELSE "idle"

\* _requestProcessor.Stop; it returns at once if there is no loop.  The wake-up
\* of a loop that is about to sleep is lost, and then it sleeps for ever.
StopRequests ==
    /\ GoTo("stopRequests", IF alive THEN "joinRequests" ELSE Closed)
    /\ accepting' = (accepting /\ ~alive)
    /\ \/ UNCHANGED request
       \/ /\ alive /\ request = None /\ queue = <<>>
          /\ request' = "asleep"
    /\ UNCHANGED <<locked, library, alive, queue, answered, reads, server,
                   history>>

JoinRequests ==
    /\ request = None
    /\ GoTo("joinRequests", Closed)
    /\ alive' = FALSE
    /\ UNCHANGED <<locked, library, accepting, queue, request, answered, reads,
                   server, history>>

-----------------------------------------------------------------------------
(* The rest of Open.                                                       *)

\* Mutant: the flags are not reset.
ResetFlagsSkipped ==
    /\ GoTo("resetFlags", "connect")
    /\ UNCHANGED <<locked, library, requests, reads, server, history>>

ResetFlags ==
    /\ GoTo("resetFlags", "connect")
    /\ channelOpen' = FALSE /\ channelInError' = FALSE
    /\ queueReady' = FALSE /\ channelFinalized' = FALSE
    /\ UNCHANGED <<mutex, library, requests, reads, server, history>>

\* _bufferedConnection.Open connects and launches the read loop, or it throws.
OpenReader ==
    /\ \/ /\ GoTo("connect", "login")
          /\ socket' = TRUE /\ incoming' = <<>> /\ replies' = {} /\ hungUp' = FALSE
          /\ reader' = "reading" /\ handle' = TRUE
          /\ bound' = FALSE
       \/ /\ GoTo("connect", "idle")
          /\ UNCHANGED <<server, reads, bound>>
    /\ UNCHANGED <<locked, library, requests, opens, binds, timedOut>>

\* The library's connection object sends the first bytes of the protocol, from
\* its constructor; when it cannot send them Open throws, and the read loop runs.
Login ==
    /\ \/ /\ GoTo("login", "startRequests")
          /\ connection' = TRUE
          /\ replies' = {"connected"}
       \/ /\ hungUp
          /\ GoTo("login", "idle")
          /\ UNCHANGED <<connection, replies>>
    /\ UNCHANGED <<locked, channel, requests, reads, socket, incoming, hungUp,
                   history>>

StartRequests ==
    /\ GoTo("startRequests", "idle")
    /\ accepting' = TRUE
    /\ alive' = TRUE
    /\ UNCHANGED <<locked, library, queue, request, answered, reads, server,
                   history>>

-----------------------------------------------------------------------------
(* CreateHelloQueue and SendHelloWorld.                                    *)

CreateHelloQueue ==
    /\ main = "idle" /\ accepting
    /\ binds < MaxBinds
    /\ binds' = binds + 1
    /\ main' = "waitChannel"
    /\ op' = "create"
    /\ UNCHANGED <<flush, locked, library, requests, reads, server, opens,
                   timedOut, bound>>

\* The channel is open, and CreateHelloQueue goes on with _mutex held; or it
\* throws, because the channel is in error or five seconds are over.
WaitChannel ==
    /\ \/ /\ channelOpen /\ ~channelInError
          /\ GoTo("waitChannel", "bind")
          /\ mutex' = TRUE
       \/ /\ ~channelOpen \/ channelInError
          /\ GoTo("waitChannel", "idle")
          /\ UNCHANGED mutex
    /\ UNCHANGED <<flags, library, requests, reads, server, history>>

\* BindAmqpQueueToExchange: the request is pushed and its future waited for.
Bind ==
    /\ GoTo("bind", "getBind")
    /\ PushRequest("bind")
    /\ UNCHANGED <<locked, library, reads, server, history>>

\* It returns, or throws what the send threw, and _mutex is released either way.
GetBind ==
    /\ answered
    /\ \/ GoTo("getBind", "waitQueue")
       \/ hungUp /\ GoTo("getBind", "idle")
    /\ mutex' = FALSE
    /\ UNCHANGED <<flags, library, requests, reads, server, history>>

\* The queue is ready, or five seconds are over.
WaitQueue ==
    /\ GoTo("waitQueue", "idle")
    /\ UNCHANGED <<locked, library, requests, reads, server, history>>

SendHelloWorld ==
    /\ main = "idle" /\ queueReady /\ channel
    /\ main' = "getPublish"
    /\ op' = "publish"
    /\ PushRequest("publish")
    /\ UNCHANGED <<flush, locked, library, reads, server, history>>

GetPublish ==
    /\ answered
    /\ GoTo("getPublish", "idle")
    /\ UNCHANGED <<locked, library, requests, reads, server, history>>

MainStep ==
    \/ CloseChannel \/ WaitFinalized \/ CloseConnection \/ GetClose
    \/ CloseReader \/ JoinReader \/ Reset \/ StopRequests \/ JoinRequests
    \/ ResetFlags \/ OpenReader \/ Login \/ StartRequests
    \/ WaitChannel \/ Bind \/ GetBind \/ WaitQueue \/ GetPublish

-----------------------------------------------------------------------------
(* The request processor.                                                  *)

\* The loop takes the next request.  It may do so after Stop cleared _shouldRun,
\* when it was in Wait and Stop had not come to BreakWait.
TakeRequest ==
    /\ alive
    /\ accepting \/ main = "joinRequests"
    /\ request = None /\ queue # <<>>
    /\ request' = Head(queue)
    /\ queue' = Tail(queue)
    /\ UNCHANGED <<mains, locked, library, accepting, alive, answered, reads,
                   server, history>>

\* A parse is over: the read loop reads on, unless it was disconnected, or the
\* parse had something to send to a server that hung up, and threw.
Parsed ==
    /\ request' = None
    /\ \/ reader' = IF socket THEN "reading" ELSE "exited"
       \/ hungUp /\ reader' = "exited"
    /\ UNCHANGED <<accepting, alive, queue, answered, handle>>

\* The login succeeded; onConnected makes the channel and asks to open it.
RunConnected ==
    /\ request = "connected"
    /\ Parsed
    /\ \/ /\ channel' = TRUE
          /\ replies' = replies \cup {"channelReady"}
       \/ hungUp /\ UNCHANGED <<channel, replies>>
    /\ UNCHANGED <<mains, locked, connection, socket, incoming, hungUp, history>>

RunNothing ==
    /\ request = "nothing"
    /\ Parsed
    /\ UNCHANGED <<mains, locked, library, server, history>>

\* The lambdas the client gave to the library take _mutex, set a flag and notify.
RunCallback ==
    /\ request \in Callback \ {"connectionError"}
    /\ ~mutex
    /\ channelOpen' = (request = "channelReady" \/ (channelOpen /\ request # "channelError"))
    /\ channelInError' = (request = "channelError" \/ channelInError)
    /\ queueReady' = (request = "bound" \/ queueReady)
    /\ channelFinalized' = (request = "channelClosed" \/ channelFinalized)
    /\ bound' = (request = "bound" \/ bound)
    /\ Parsed
    /\ UNCHANGED <<mains, mutex, library, server, opens, binds, timedOut>>

\* The library reports an error of the connection to the channel, if there is
\* one, and to onError, which closes _bufferedConnection: it disconnects and then
\* waits for the read loop, which waits for this request.  No step leads out; but
\* if the client's thread waits in get() of the same handle, then the handle may be
\* invalid already (it is in libc++), and onError returns.
RunConnectionError ==
    /\ request = "connectionError"
    /\ ~mutex \/ ~channel
    /\ channelOpen' = (channelOpen /\ ~channel)
    /\ channelInError' = (channelInError \/ channel)
    /\ socket' = FALSE
    /\ \/ request' = "joinReader" /\ UNCHANGED <<accepting, alive, queue, answered, reads>>
       \/ main = "joinReader" /\ Parsed
    /\ UNCHANGED <<mains, mutex, queueReady, channelFinalized, library, incoming,
                   replies, hungUp, history>>

\* A request of the client's thread ends, by an exception if it cannot send.
\* Nobody waits for the future of the one that closes the channel.
RunRequest ==
    /\ request \in Request
    /\ request' = None
    /\ answered' = (answered \/ request # "closeChannel")
    /\ replies' = CASE request = "bind" -> replies \cup {"bound"}
                    [] request = "closeChannel" -> replies \cup {"channelClosed"}
                    [] OTHER -> replies
    /\ UNCHANGED <<mains, locked, library, accepting, alive, queue, reads,
                   socket, incoming, hungUp, history>>

RequestStep ==
    \/ TakeRequest
    \/ RunConnected \/ RunNothing \/ RunCallback \/ RunConnectionError \/ RunRequest

-----------------------------------------------------------------------------
(* The read loop.                                                          *)

\* OnNetworkRead of what Read returned.  Nobody looks at whether the push was
\* accepted: the read loop waits for the future in any case.
OnNetworkRead(frame) ==
    /\ reader = "reading"
    /\ reader' = "waiting"
    /\ queue' = IF accepting THEN Append(queue, frame) ELSE queue
    /\ UNCHANGED <<mains, locked, library, accepting, alive, request, answered,
                   handle, socket, replies, hungUp, history>>

ReadFrame ==
    /\ socket /\ incoming # <<>>
    /\ OnNetworkRead(Head(incoming))
    /\ incoming' = Tail(incoming)

\* Read returns no data when it finds the connection closed by another thread.
ReadNothing ==
    /\ ~socket
    /\ OnNetworkRead("nothing")
    /\ UNCHANGED incoming

\* Read throws when the server hung up, and the loop notifies the error.
ReadFails ==
    /\ reader = "reading"
    /\ socket /\ incoming = <<>> /\ hungUp
    /\ reader' = "exited"
    /\ UNCHANGED <<mains, locked, library, requests, handle, server, history>>

ReaderStep == ReadFrame \/ ReadNothing \/ ReadFails

-----------------------------------------------------------------------------
(* The server.                                                             *)

ServerSends(frame) ==
    /\ socket /\ ~hungUp
    /\ incoming' = Append(incoming, frame)
    /\ UNCHANGED <<mains, locked, library, requests, reads, socket, hungUp,
                   history>>

\* It answers, in any order, a channel request perhaps with an error.
ServerReplies ==
    \E r \in replies :
        /\ \/ ServerSends(r)
           \/ r \in {"channelReady", "bound"} /\ ServerSends("channelError")
        /\ replies' = replies \ {r}

\* It gives the connection up, once it was asked for: with a frame or without.
ServerGivesUp ==
    \/ /\ connection
       /\ ~\E i \in DOMAIN incoming : incoming[i] = "connectionError"
       /\ ServerSends("connectionError")
       /\ UNCHANGED replies
    \/ /\ socket /\ ~hungUp
       /\ hungUp' = TRUE
       /\ UNCHANGED <<mains, locked, library, requests, reads, socket, incoming,
                      replies, history>>

-----------------------------------------------------------------------------
Next ==
    \/ OpenCall \/ CloseCall \/ CreateHelloQueue \/ SendHelloWorld
    \/ MainStep
    \/ RequestStep
    \/ ReaderStep
    \/ ServerReplies \/ ServerGivesUp

Spec == Init /\ [][Next]_vars

\* The client's threads are scheduled, five seconds come to an end, and _mutex is
\* not kept from the request processor.  The server owes nothing.
FairSpec ==
    /\ Spec
    /\ WF_vars(MainStep)
    /\ SF_vars(RequestStep)
    /\ WF_vars(ReaderStep)

-----------------------------------------------------------------------------
(* What must hold.                                                         *)

\* When Close has returned, also the one in Open, the client has no thread left, and no request that
\* points into the stack of a call waits for the next Open: MyAMQPClientImpl may
\* be destroyed.  A Close that gave up on its channel may leave its request.
ClosedIsQuiet ==
    main = "resetFlags" \/ (main = "idle" /\ op = "close") =>
        /\ reader \in {None, "exited"} /\ ~handle
        /\ ~alive /\ request = None
        /\ queue = <<>> \/ timedOut

\* While the client's thread makes or destroys the library's objects no request
\* uses them (CloseAmqpConnection: "API Calls to the Copernica library are not
\* thread safe"), unless CloseAmqpChannel gave up on the request it had pushed.
LibrarySerialisedUnlessTimedOut ==
    main \in {"login", "reset"} => request = None \/ timedOut

\* What the flags say is true of this connection, not of an earlier one: the
\* request to bind finds a channel, and a ready queue was bound.
FlagsAreFresh ==
    /\ request = "bind" => channel
    /\ queueReady /\ main = "idle" /\ accepting => bound

\* The read loop waits for a request that was not accepted.
Stranded ==
    /\ reader = "waiting"
    /\ request \notin Parse \cup {"joinReader"}
    /\ \A i \in DOMAIN queue : queue[i] \notin Parse

\* CreateHelloQueue, with _mutex, waits for a request behind a callback that
\* waits for _mutex.
MutexCycle == mutex /\ request \in Callback

\* onError waits for the read loop, which waits for onError.
SelfJoin == request = "joinReader"

\* Every call returns, however little the server answers, except by one of the
\* three ways in which threads of the client wait for each other, or because Stop
\* lost its wake-up.
CallsReturnUnlessCycle ==
    \/ []<>(main = "idle")
    \/ <>[]Stranded \/ <>[]MutexCycle \/ <>[]SelfJoin \/ <>[](request = "asleep")

-----------------------------------------------------------------------------
(* What the repository says and the code does not do.                      *)

\* README.md:60: "When the queue reader pops the task from its queue and executes it
\* the sender waiting on the future will get notified": the read loop does not
\* wait for a task that was never queued.
NeverStranded == ~Stranded
=============================================================================
