----------------------------- MODULE ConnectionImpl -----------------------------
(***************************************************************************)
(* A connection of the AMQP-CPP library with its channels, the application *)
(* that calls their methods, and the server.  The library has no thread of *)
(* its own: it runs inside the application's calls and inside parse(), so  *)
(* a call is one step and so is a frame that parse() processes.  A call    *)
(* made from within a callback comes out as a call between two frames.     *)
(* No object is destroyed while one of its methods runs (the Monitors of   *)
(* the library are left out).                                              *)
(*                                                                         *)
(* conn is the ConnectionImpl object: state, closed, channels, attached    *)
(* (the keys of _channels), nextFreeChannel, maxChannels and queue; wire   *)
(* holds the frames given to onData that the server has not read.  sent,   *)
(* told are histories: all frames given to onData, and the calls of the    *)
(* ConnectionHandler.                                                      *)
(***************************************************************************)
EXTENDS ChannelImpl, FiniteSets

CONSTANTS
    Methods,     \* the methods of Channel that the application calls
    ChannelMax,  \* the channel-max of the server's Tune; 0: no limit
    MaxChannels, \* bound on the channels the application attaches
    MaxInputs    \* bound on the channels attached, the calls on them and what
                 \* the server does unasked, together

ASSUME ParametersAssumption ==
    /\ ChannelMax \in Nat /\ MaxChannels \in Nat /\ MaxInputs \in Nat

VARIABLES
    conn,
    toClient,    \* frames on their way to the library
    batch,       \* how many whole frames the buffer given to parse() still has
    partial,     \* does that buffer end in the middle of a frame?
    calls,       \* the application's calls so far
    server,      \* per channel "closed", "open" or "closing"; 0: itself
    gone,        \* the server has sent ConnectionClose or ConnectionCloseOK
    events,      \* what the server has done unasked so far
    performed,   \* history: per channel, the calls the server has answered
    delivered    \* history: per channel, <<message, body parts>> of the server

serverVars == <<server, gone, events, performed, delivered>>
vars == <<conn, toClient, batch, partial, calls, serverVars>>

Ids == 1..MaxChannels
Frame_(name, channel, id) == [name |-> name, channel |-> channel, id |-> id]
Created == DOMAIN conn.channels

InputLeft == Cardinality(Created) + calls + events < MaxInputs

----------------------------------------------------------------------------
\* ConnectionImpl::send(Frame) refuses a frame, or gives it to onData or to
\* the queue.
Taken(k, frame) ==
    /\ k.state \notin {"closing", "closed"}
    /\ k.closed => Frames[frame.name].partOfShutdown

OnData(k, frames) == [k EXCEPT !.wire = @ \o frames, !.sent = @ \o frames]

Out(k, frame) ==
    IF ~Taken(k, frame) THEN k
    ELSE IF \/ k.state = "connected" /\ k.queue = <<>>
            \/ Frames[frame.name].partOfHandshake
    THEN OnData(k, <<frame>>)
    ELSE [k EXCEPT !.queue = Append(@, frame)]

\* ConnectionImpl::send(OutBuffer), for frames that waited in a channel.
OutBuffers(k, frames) ==
    IF k.state # "connected" THEN k
    ELSE IF k.queue = <<>> THEN OnData(k, frames)
    ELSE [k EXCEPT !.queue = @ \o frames]

\* A channel after one of its methods, whose frames Taken() has let through
\* and send(Frame) now gives to onData or to the queue: none of a channel is
\* part of the handshake.
Give(k, c, r) ==
    LET set == [k EXCEPT !.channels[c] = r.ch]
    IN  IF k.state = "connected" /\ k.queue = <<>> THEN OnData(set, r.frames)
        ELSE [set EXCEPT !.queue = @ \o r.frames]

\* A channel after a frame was processed, whose frames had waited in it.
GiveBuffers(k, c, r) == OutBuffers([k EXCEPT !.channels[c] = r.ch], r.frames)

\* add(): the next id that no channel has, or 0.
AddChannel(k) ==
    IF k.maxChannels > 0 /\ Cardinality(k.attached) >= k.maxChannels THEN 0
    ELSE CHOOSE id \in Ids \cup {MaxChannels + 1} :
            /\ id >= k.nextFreeChannel /\ id \notin k.attached
            /\ \A n \in k.nextFreeChannel..(id - 1) : n \in k.attached

\* The connection with the channel that got id c, and the keys it then has.
Added(k, c, ch, attached) ==
    [k EXCEPT !.attached = attached, !.nextFreeChannel = c + 1,
              !.channels = [d \in DOMAIN @ \cup {c} |->
                                IF d = c THEN ch ELSE @[d]]]

\* remove()
RemoveChannel(k, c) == [k EXCEPT !.attached = @ \ {c}]

AnyWaiting(k) == \E c \in k.attached : Waiting(k.channels[c])

\* sendClose()
SendClose(k) == [Out(k, Frame_("ConnectionClose", 0, 0))
                 EXCEPT !.state = "closing"]

\* reportError() of the connection: all its channels fail and are removed.
ReportConnectionError(k) ==
    [k EXCEPT !.state = "closed", !.attached = {},
              !.channels = [c \in DOMAIN @ |->
                    IF c \in k.attached THEN ReportError(@[c]) ELSE @[c]],
              !.told = Append(@, "onError")]

\* Mutant: what was queued during the handshake is dropped
SetConnectedDropsQueue(k) ==
    LET open == [k EXCEPT !.state = "connected", !.queue = <<>>,
                          !.told = Append(@, "onConnected")]
    IN  IF open.closed /\ ~AnyWaiting(open) THEN SendClose(open) ELSE open

\* setConnected(): what was queued during the handshake is flushed.
SetConnected(k) ==
    LET open == [OnData(k, k.queue)
                 EXCEPT !.state = "connected", !.queue = <<>>,
                        !.told = Append(@, "onConnected")]
    IN  IF open.closed /\ ~AnyWaiting(open) THEN SendClose(open) ELSE open

----------------------------------------------------------------------------
\* process() OF THE FRAME CLASSES, those of the connection first.
ProcessStart(k) ==
    Out([k EXCEPT !.state = IF @ = "protocol" THEN "handshake" ELSE @],
        Frame_("ConnectionStartOK", 0, 0))

ProcessTune(k) ==
    Out(Out([k EXCEPT !.maxChannels = ChannelMax],
            Frame_("ConnectionTuneOK", 0, 0)),
        Frame_("ConnectionOpen", 0, 0))

ProcessConnectionClose(k) ==
    ReportConnectionError(Out(k, Frame_("ConnectionCloseOK", 0, 0)))

ProcessConnectionCloseOK(k) ==
    [k EXCEPT !.state = "closed", !.told = Append(@, "onClosed")]

ProcessConnection(k, frame) ==
    LET process == Frames[frame.name].process IN
    CASE process = "start" -> ProcessStart(k)
      [] process = "tune" -> ProcessTune(k)
      [] process = "connected" -> SetConnected(k)
      [] process = "connectionError" -> ProcessConnectionClose(k)
      [] process = "connectionClosed" -> ProcessConnectionCloseOK(k)
      [] process = "heartbeat" -> Out(k, frame)
      [] process = "unimplemented" -> ReportConnectionError(k)

\* The answers that come with a count of messages.
WithCount == {"BasicGetOK", "QueuePurgeOK", "QueueDeleteOK"}

Reported(k, frame) ==
    ReportSuccess(k.channels[frame.channel], frame.name \in WithCount)

ProcessSuccess(k, frame) ==
    GiveBuffers(k, frame.channel, OnSynchronized(Reported(k, frame)))

\* BasicRecover is not a synchronous frame, so its answer frees no buffer.
ProcessRecoverOK(k, frame) ==
    [k EXCEPT !.channels[frame.channel] = Reported(k, frame)]

\* Mutant: the answer to a BasicGet ends with its first frame
ProcessGetOKEnds(k, frame) ==
    GiveBuffers(k, frame.channel,
                OnSynchronized(SetMessage(Reported(k, frame), frame.id, "")))

ProcessGetOK(k, frame) ==
    [k EXCEPT !.channels[frame.channel] =
        SetMessage(Reported(k, frame), frame.id, "")]

ProcessDeliver(k, frame) ==
    [k EXCEPT !.channels[frame.channel] = SetMessage(@, frame.id, "tag")]

ProcessChannelClose(k, c) ==
    RemoveChannel([Out(k, Frame_("ChannelCloseOK", c, 0))
                   EXCEPT !.channels[c] = ReportError(@)], c)

ProcessChannelCloseOK(k, c) ==
    RemoveChannel([k EXCEPT !.channels[c] = ReportClosed(@)], c)

ProcessChannel(k, frame) ==
    LET c == frame.channel
        ch == k.channels[c]
        process == Frames[frame.name].process
    IN
    CASE process = "ready" -> GiveBuffers(k, c, OnSynchronized(ch))
      [] process = "success" -> ProcessSuccess(k, frame)
      [] process = "recovered" -> ProcessRecoverOK(k, frame)
      [] process = "got" -> ProcessGetOK(k, frame)
      [] process = "delivered" -> ProcessDeliver(k, frame)
      [] process = "header" -> GiveBuffers(k, c, ProcessHeader(ch, frame.size))
      [] process = "body" -> GiveBuffers(k, c, ProcessBody(ch, frame.size))
      [] process = "channelClosed" -> ProcessChannelCloseOK(k, c)
      [] process = "channelError" -> ProcessChannelClose(k, c)

\* A frame for a channel that is gone is ignored, but a close is answered.
Process(k, frame) ==
    IF \/ Frames[frame.name].classID = 10 \/ Frames[frame.name].type \in {4, 8}
       \/ Frames[frame.name].process = "unimplemented"
    THEN ProcessConnection(k, frame)
    ELSE IF frame.channel \in k.attached THEN ProcessChannel(k, frame)
    ELSE IF frame.name = "ChannelClose"
    THEN Out(k, Frame_("ChannelCloseOK", frame.channel, 0))
    ELSE k

----------------------------------------------------------------------------
Init ==
    /\ conn = OnData([state |-> "protocol", closed |-> FALSE, channels |-> <<>>,
                     attached |-> {}, nextFreeChannel |-> 1, maxChannels |-> 0,
                     queue |-> <<>>, wire |-> <<>>, sent |-> <<>>,
                     told |-> <<>>],
                    <<Frame_("ProtocolHeader", 0, 0)>>)
    /\ toClient = <<>> /\ batch = 0 /\ partial = FALSE
    /\ calls = 0 /\ events = 0
    /\ server = [c \in Ids \cup {0} |-> IF c = 0 THEN "open" ELSE "closed"]
    /\ gone = FALSE
    /\ performed = [c \in Ids |-> <<>>]
    /\ delivered = [c \in Ids |-> <<>>]

----------------------------------------------------------------------------
\* THE APPLICATION

\* The constructor of Channel: attach().  Where add() returns 0 the channel
\* is closed from the start and the connection does not know of it.
Attach ==
    /\ Cardinality(Created) < MaxChannels /\ InputLeft
    /\ \E c \in {AddChannel(conn)} :
          /\ c # 0
          /\ LET open == Frame_("ChannelOpen", c, 0)
             IN  \E r \in {Send(NewChannel, open, Taken(conn, open))} :
                    conn' = IF r.ok
                            THEN Give(Added(conn, c, NewChannel,
                                            conn.attached \cup {c}), c, r)
                            ELSE Added(conn, c, ReportError(r.ch),
                                       conn.attached)
    /\ UNCHANGED <<toClient, batch, partial, calls, serverVars>>

\* One of the application's calls on a channel, which leaves r.
Called(c, r) ==
    /\ calls' = calls + 1
    /\ conn' = Give(conn, c, r)
    /\ UNCHANGED <<toClient, batch, partial, serverVars>>

\* A method that returns a Deferred.
CallRequest(c, method) ==
    /\ InputLeft
    /\ LET frame == Frame_(RequestFrame[method], c, calls + 1)
       IN  \E r \in {Request(conn.channels[c], method, frame,
                            Taken(conn, frame))} : Called(c, r)

CallPublish(c) ==
    /\ InputLeft
    /\ \E r \in {Publish(conn.channels[c], c, calls + 1,
                        Taken(conn, Frame_("BasicPublish", c, calls + 1)))} :
          Called(c, r)

\* ack and reject
CallSettle(c, method) ==
    /\ InputLeft
    /\ LET frame == Frame_(SettleFrame[method], c, calls + 1)
       IN  \E r \in {Send(conn.channels[c], frame, Taken(conn, frame))} :
              Called(c, r)

CallCloseChannel(c) ==
    /\ InputLeft
    /\ LET frame == Frame_("ChannelClose", c, calls + 1)
       IN  \E r \in {CloseChannel(conn.channels[c], frame,
                                 Taken(conn, frame))} : Called(c, r)

\* ConnectionImpl::close(): every channel is closed, with _closed already
\* set, and ConnectionClose is sent unless a channel is waiting.
CallClose ==
    /\ InputLeft
    /\ ~conn.closed
    /\ calls' = calls + 1
    /\ LET closing(c) ==
              CloseChannel(conn.channels[c],
                           Frame_("ChannelClose", c, calls + 1), FALSE).ch
       IN  \E k \in {[conn EXCEPT !.closed = TRUE,
                                  !.channels = [c \in Created |->
                                        IF c \in conn.attached
                                        THEN closing(c) ELSE @[c]]]} :
              conn' = IF k.state = "connected" /\ ~AnyWaiting(k)
                      THEN SendClose(k) ELSE k
    /\ UNCHANGED <<toClient, batch, partial, serverVars>>

\* The application gives parse() a buffer with the next n frames, which may
\* end inside the frame behind them.  A closed connection takes nothing.
Parse ==
    /\ batch = 0 /\ conn.state # "closed"
    /\ \E n \in 1..Len(toClient), p \in BOOLEAN :
          /\ p => n < Len(toClient)
          /\ batch' = n
          /\ partial' = p
    /\ UNCHANGED <<conn, toClient, calls, serverVars>>

\* The end of parse(), which it does not reach after a partial frame.
EndOfParse(k) ==
    IF k.closed /\ k.state = "connected" /\ ~AnyWaiting(k)
    THEN SendClose(k) ELSE k

\* Mutant: parse() never looks whether it was the last answer
ParseFrameNoClose ==
    /\ batch > 0
    /\ \E k \in {Process(conn, Head(toClient))} : conn' = k
    /\ toClient' = Tail(toClient)
    /\ batch' = IF Frames[Head(toClient).name].process = "unimplemented"
                THEN 0 ELSE batch - 1
    /\ UNCHANGED <<partial, calls, serverVars>>

\* The loop of parse() processes the next frame, whatever became of the
\* connection; an exception ends it.
ParseFrame ==
    /\ batch > 0
    /\ \E k \in {Process(conn, Head(toClient))} :
          conn' = IF batch = 1 /\ ~partial THEN EndOfParse(k) ELSE k
    /\ toClient' = Tail(toClient)
    /\ batch' = IF Frames[Head(toClient).name].process = "unimplemented"
                THEN 0 ELSE batch - 1
    /\ UNCHANGED <<partial, calls, serverVars>>

----------------------------------------------------------------------------
\* THE SERVER (outside the repository)

Reply ==
    [ProtocolHeader |-> "ConnectionStart", ConnectionStartOK |-> "ConnectionTune",
     ConnectionOpen |-> "ConnectionOpenOK", ChannelOpen |-> "ChannelOpenOK",
     ChannelFlow |-> "ChannelFlowOK", TransactionSelect |-> "TransactionSelectOK",
     TransactionCommit |-> "TransactionCommitOK",
     TransactionRollback |-> "TransactionRollbackOK",
     ExchangeDeclare |-> "ExchangeDeclareOK", ExchangeBind |-> "ExchangeBindOK",
     ExchangeUnbind |-> "ExchangeUnbindOK", ExchangeDelete |-> "ExchangeDeleteOK",
     QueueDeclare |-> "QueueDeclareOK", QueueBind |-> "QueueBindOK",
     QueueUnbind |-> "QueueUnbindOK", QueuePurge |-> "QueuePurgeOK",
     QueueDelete |-> "QueueDeleteOK", BasicQos |-> "BasicQosOK",
     BasicConsume |-> "BasicConsumeOK", BasicCancel |-> "BasicCancelOK",
     BasicGet |-> "BasicGetEmpty", BasicRecover |-> "BasicRecoverOK"]

\* The frames of a message whose body comes in n parts.
Content(name, c, id, n) ==
    <<Frame_(name, c, id),
      [name |-> "BasicHeader", channel |-> c, id |-> id, size |-> n]>>
    \o [m \in 1..n |-> [name |-> "Body", channel |-> c, id |-> id, size |-> 1]]

NextFrame == Head(conn.wire)
ReadFrame == conn' = [conn EXCEPT !.wire = Tail(@)]

\* The server answers a frame, or has nothing to answer.
ServerAnswers ==
    /\ conn.wire # <<>> /\ ~gone
    /\ LET frame == NextFrame
           c == frame.channel
       IN  /\ frame.name # "ChannelOpen" => server[c] = "open"
           /\ frame.name \notin {"ConnectionClose", "ChannelClose"}
           /\ toClient' = IF frame.name \in DOMAIN Reply
                          THEN Append(toClient,
                                      Frame_(Reply[frame.name], c, frame.id))
                          ELSE toClient
           /\ server' = IF frame.name = "ChannelOpen"
                        THEN [server EXCEPT ![c] = "open"] ELSE server
           /\ performed' = IF c # 0 /\ frame.name \in DOMAIN Reply
                              /\ frame.name # "ChannelOpen"
                           THEN [performed EXCEPT ![c] = Append(@, frame.id)]
                           ELSE performed
    /\ ReadFrame
    /\ UNCHANGED <<batch, partial, calls, gone, events, delivered>>

\* A get that finds a message.
ServerGets ==
    /\ conn.wire # <<>> /\ ~gone /\ InputLeft
    /\ LET frame == NextFrame
           c == frame.channel
       IN  /\ frame.name = "BasicGet" /\ server[c] = "open"
           /\ \E n \in 0..2 :
                 /\ toClient' = toClient
                                \o Content("BasicGetOK", c, events + 1, n)
                 /\ delivered' = [delivered EXCEPT
                                     ![c] = Append(@, <<events + 1, n>>)]
           /\ performed' = [performed EXCEPT ![c] = Append(@, frame.id)]
    /\ events' = events + 1
    /\ ReadFrame
    /\ UNCHANGED <<batch, partial, calls, server, gone>>

\* ChannelClose is answered; after the server's own one, and after the end
\* of the connection, everything but the closes is dropped.
ServerCloses ==
    /\ conn.wire # <<>>
    /\ LET frame == NextFrame
           c == frame.channel
       IN  \/ /\ frame.name = "ConnectionClose"
              /\ toClient' = Append(toClient, Frame_("ConnectionCloseOK", 0, 0))
              /\ gone' = TRUE
              /\ UNCHANGED <<server, performed>>
           \/ /\ frame.name = "ChannelClose" /\ ~gone
              /\ toClient' = Append(toClient,
                                    Frame_("ChannelCloseOK", c, frame.id))
              /\ performed' = IF server[c] = "open"
                              THEN [performed EXCEPT ![c] = Append(@, frame.id)]
                              ELSE performed
              /\ server' = IF server[c] = "open"
                           THEN [server EXCEPT ![c] = "closed"] ELSE server
              /\ UNCHANGED gone
           \/ /\ frame.name = "ChannelCloseOK" /\ ~gone
              /\ server' = [server EXCEPT ![c] = "closed"]
              /\ UNCHANGED <<toClient, gone, performed>>
           \/ /\ \/ gone /\ frame.name # "ConnectionClose"
                 \/ /\ server[c] # "open"
                    /\ frame.name \notin {"ChannelOpen", "ChannelClose",
                                           "ChannelCloseOK"}
              /\ UNCHANGED <<toClient, server, gone, performed>>
    /\ ReadFrame
    /\ UNCHANGED <<batch, partial, calls, events, delivered>>

\* What the server does unasked: it delivers to a consumer, closes a channel
\* or the connection, or sends a frame the library has no process() for.
Consuming(c) ==
    LET answered(method) ==
            {n \in 1..Len(conn.sent) :
                /\ conn.sent[n].name = RequestFrame[method]
                /\ conn.sent[n].channel = c
                /\ conn.sent[n].id \in ToSet(performed[c])}
    IN  \E n \in answered("consume") : \A m \in answered("cancel") : m < n

ServerSends ==
    /\ InputLeft /\ ~gone
    /\ events' = events + 1
    /\ \/ \E c \in Ids, n \in 0..2 :
             /\ server[c] = "open" /\ Consuming(c)
             /\ toClient' = toClient \o Content("BasicDeliver", c, events + 1, n)
             /\ delivered' = [delivered EXCEPT ![c] = Append(@, <<events + 1, n>>)]
             /\ UNCHANGED <<server, gone>>
       \/ \E c \in Ids :
             /\ server[c] = "open"
             /\ toClient' = Append(toClient, Frame_("ChannelClose", c, 0))
             /\ server' = [server EXCEPT ![c] = "closing"]
             /\ UNCHANGED <<gone, delivered>>
       \/ \E c \in Ids :
             /\ server[c] = "open"
             /\ toClient' = Append(toClient, Frame_("ChannelFlow", c, 0))
             /\ UNCHANGED <<server, gone, delivered>>
       \/ /\ toClient' = Append(toClient, Frame_("Heartbeat", 0, 0))
          /\ UNCHANGED <<server, gone, delivered>>
       \/ /\ toClient' = Append(toClient, Frame_("ConnectionClose", 0, 0))
          /\ gone' = TRUE
          /\ UNCHANGED <<server, delivered>>
    /\ UNCHANGED <<conn, batch, partial, calls, performed>>

----------------------------------------------------------------------------
Application ==
    \/ Attach
    \/ \E c \in Created :
          \/ \E method \in Methods \cap DOMAIN RequestFrame :
                CallRequest(c, method)
          \/ "publish" \in Methods /\ CallPublish(c)
          \/ \E method \in Methods \cap DOMAIN SettleFrame :
                CallSettle(c, method)
          \/ CallCloseChannel(c)
    \/ CallClose

Server == ServerAnswers \/ ServerGets \/ ServerCloses

Next == Application \/ Parse \/ ParseFrame \/ Server \/ ServerSends

\* The server answers, the network delivers and the application goes on
\* giving parse() what arrives.
Fairness == WF_vars(Parse) /\ WF_vars(ParseFrame) /\ WF_vars(Server)

Spec == Init /\ [][Next]_vars /\ Fairness

----------------------------------------------------------------------------
\* The frames of a channel, without the answer to the server's close.
OfChannel(frames, c) ==
    LET of[n \in 0..Len(frames)] ==
            IF n = 0 THEN <<>>
            ELSE IF frames[n].channel = c /\ frames[n].name # "ChannelCloseOK"
            THEN Append(of[n - 1], frames[n])
            ELSE of[n - 1]
    IN  of[Len(frames)]

\* The answers that end a synchronous request of channel c are on their way.
AnswerDue(c) ==
    \/ \E f \in ToSet(toClient) :
          /\ f.channel = c
          /\ Frames[f.name].process \in {"ready", "success", "got",
                                         "channelClosed"}
    \/ conn.channels[c].message.consumer = ""

\* After a synchronous frame no more frames are sent on its channel until the
\* answer to it was processed (methodframe.h, synchronous()), the content of
\* a get included, whatever was queued before, during or after the handshake.
OneAtATime ==
    \A c \in conn.attached :
        LET frames == OfChannel(conn.wire, c)
        IN  /\ \A n \in 1..Len(frames) :
                  Synchronous(frames[n]) => n = Len(frames)
            /\ AnswerDue(c) => frames = <<>>

\* The frames that a channel accepted leave in the order of the calls, the
\* parts of a message together, and when the library sends ConnectionClose
\* none of a channel that is still open is left behind: not in the queue of
\* the channel, and not in the one that the handshake held up.
FramesInOrder ==
    \A c \in Created :
        LET sent == OfChannel(conn.sent, c)
            accepted == conn.channels[c].accepted
        IN  /\ IsPrefix(sent, accepted)
            /\ conn.state = "closing" /\ c \in conn.attached => sent = accepted

\* The consumer is given every message of its channel whole, once, and in the
\* order of the server, whether it was delivered or asked for with get, and
\* however the calls of the application fall between its parts.
MessagesInOrder ==
    /\ \A c \in Created : IsPrefix(conn.channels[c].reported, delivered[c])
    /\ \A c \in conn.attached :
          (batch = 0 /\ toClient = <<>>)
            => conn.channels[c].reported = delivered[c]

\* RequestService is what the Deferred objects promise.
Requests == [c \in Ids |-> IF c \in Created
                           THEN conn.channels[c].requests ELSE <<>>]
Outcomes == [c \in Ids |-> IF c \in Created
                           THEN conn.channels[c].outcomes ELSE <<>>]

Abstract == INSTANCE RequestService
            WITH Channels <- Ids, requests <- Requests, outcomes <- Outcomes

\* Every request has one outcome, in the order of the calls, and a success is
\* only reported for what the server has done: no answer reaches the Deferred
\* of another request.
ImplementsRequests == Abstract!Spec

\* A reject of several messages is sent as a BasicNack, whose frame is
\* synchronous and has no answer: its channel waits for ever.
Stuck(c) ==
    /\ conn.channels[c].synchronous
    /\ OfChannel(conn.sent, c) # <<>>
    /\ Last(OfChannel(conn.sent, c)).name = "BasicNack"
AnyStuck == \E c \in Created : Stuck(c)

\* The frames of the handshake are refused once close() was called.
HandshakeCut ==
    conn.closed /\ conn.state \in {"protocol", "handshake"}

\* A connection that was closed by the application after its handshake comes
\* to its end, unless a channel is stuck.
CloseCompletes ==
    (conn.closed /\ conn.state = "connected")
        ~> (conn.state = "closed" \/ AnyStuck)

\* What close() says: it is delayed until the handshake is done.
DelayedCloseCompletes == conn.closed ~> conn.state = "closed"

\* Every request comes to its outcome, unless its channel is stuck, the
\* handshake was cut, or the channel was closed already when it was made.
RequestsSettle ==
    \A c \in Ids, n \in 1..MaxInputs :
        Len(Requests[c]) >= n
            ~> \/ Len(Outcomes[c]) >= n
               \/ AnyStuck \/ HandshakeCut
               \/ c \in Created /\ conn.channels[c].state = "closed"
=============================================================================
