------------------------------ MODULE ChannelImpl ------------------------------
(***************************************************************************)
(* A channel of the AMQP-CPP library: ChannelImpl and its Deferred         *)
(* objects.  A channel is a record, every method an operator that returns  *)
(* what the method leaves: the channel, the frames it gave to the          *)
(* connection, and the value it returned.                                  *)
(*                                                                         *)
(* A frame is [name, channel, id]: id is the number of the call it belongs *)
(* to, or of the message.  The chain from _oldestCallback to               *)
(* _newestCallback is the sequence callbacks of Deferred objects.          *)
(* accepted, requests, outcomes and reported are histories.                *)
(***************************************************************************)
EXTENDS AMQPFrames, SequencesExt

\* frame.synchronous(); the library sends every noWait as false.
Synchronous(frame) == Frames[frame.name].synchronous # "never"

NoMessage == [id |-> 0, consumer |-> "none", bodySize |-> 0, received |-> 0]

\* A channel when attach() has found an id for it.
NewChannel ==
    [state |-> "connected", synchronous |-> FALSE, queue |-> <<>>,
     callbacks |-> <<>>, consumers |-> {}, message |-> NoMessage,
     accepted |-> <<>>, requests |-> <<>>, outcomes |-> <<>>,
     reported |-> <<>>]

Waiting(ch) == ch.synchronous \/ ch.queue # <<>>

Result(ok, ch, frames) == [ok |-> ok, ch |-> ch, frames |-> frames]

----------------------------------------------------------------------------
\* SENDING.  taken says whether ConnectionImpl::send accepts a frame now.

\* Mutant: the queue is not looked at: a frame overtakes those that wait
SendOvertakes(ch, frame, taken) ==
    IF ch.state = "closed" THEN Result(FALSE, ch, <<>>)
    ELSE IF ch.state = "closing" THEN Result(TRUE, ch, <<>>)
    ELSE IF ch.synchronous /\ Synchronous(frame)
    THEN Result(TRUE, [ch EXCEPT !.queue = Append(@, frame),
                                 !.accepted = Append(@, frame)], <<>>)
    ELSE IF ~taken THEN Result(FALSE, ch, <<>>)
    ELSE Result(TRUE, [ch EXCEPT !.synchronous = Synchronous(frame),
                                 !.accepted = Append(@, frame)], <<frame>>)

Send(ch, frame, taken) ==
    IF ch.state = "closed" THEN Result(FALSE, ch, <<>>)
    ELSE IF ch.state = "closing" THEN Result(TRUE, ch, <<>>)
    ELSE IF Waiting(ch)
    THEN Result(TRUE, [ch EXCEPT !.queue = Append(@, frame),
                                 !.accepted = Append(@, frame)], <<>>)
    ELSE IF ~taken THEN Result(FALSE, ch, <<>>)
    ELSE Result(TRUE, [ch EXCEPT !.synchronous = Synchronous(frame),
                                 !.accepted = Append(@, frame)], <<frame>>)

\* The next send of a method, unless one before it failed.
AndSend(r, frame, taken) ==
    IF ~r.ok THEN r
    ELSE LET s == Send(r.ch, frame, taken)
         IN  [s EXCEPT !.frames = r.frames \o @]

\* onSynchronized(): what waits is sent up to the next synchronous frame.
OnSynchronized(ch) ==
    LET ends == {n \in 1..Len(ch.queue) : Synchronous(ch.queue[n])}
        n == IF ends = {} THEN Len(ch.queue)
             ELSE CHOOSE m \in ends : \A k \in ends : m <= k
    IN  Result(TRUE,
               [ch EXCEPT !.synchronous = ends # {},
                          !.queue = SubSeq(@, n + 1, Len(@))],
               SubSeq(ch.queue, 1, n))

----------------------------------------------------------------------------
\* REQUESTS.  The frame a method sends and the Deferred class it returns.
RequestFrame ==
    [pause |-> "ChannelFlow", resume |-> "ChannelFlow",
     startTransaction |-> "TransactionSelect",
     commitTransaction |-> "TransactionCommit",
     rollbackTransaction |-> "TransactionRollback",
     declareExchange |-> "ExchangeDeclare", bindExchange |-> "ExchangeBind",
     unbindExchange |-> "ExchangeUnbind", removeExchange |-> "ExchangeDelete",
     declareQueue |-> "QueueDeclare", bindQueue |-> "QueueBind",
     unbindQueue |-> "QueueUnbind", purgeQueue |-> "QueuePurge",
     removeQueue |-> "QueueDelete", setQos |-> "BasicQos",
     consume |-> "BasicConsume", cancel |-> "BasicCancel",
     get |-> "BasicGet", recover |-> "BasicRecover"]

\* What a DeferredConsumer, DeferredCancel and DeferredGet does of its own.
Deferred(method, id, failed) ==
    [id |-> id, failed |-> failed,
     class |-> IF method \in {"consume", "cancel", "get"} THEN method
                                                           ELSE "plain"]

\* push(deferred)
Push(ch, deferred) ==
    [ch EXCEPT !.callbacks = Append(@, deferred),
               !.requests = IF deferred.failed THEN @ ELSE Append(@, deferred.id)]

\* push(frame), and declareQueue, consume, get and the others that build
\* their Deferred themselves.
Request(ch, method, frame, taken) ==
    LET s == Send(ch, frame, taken)
    IN  [s EXCEPT !.ch = Push(s.ch, Deferred(method, frame.id, ~s.ok))]

\* close()
CloseChannel(ch, frame, taken) ==
    IF ch.state # "connected"
    THEN Result(TRUE,
                Push(ch, Deferred("close", frame.id, ch.state = "closing")),
                <<>>)
    ELSE LET r == Request(ch, "close", frame, taken)
         IN  IF r.ok THEN [r EXCEPT !.ch.state = "closing"] ELSE r

\* publish(): method, header and body, of one chunk here.
Publish(ch, channel, id, taken) ==
    LET part(name) == [name |-> name, channel |-> channel, id |-> id]
        method == Send(ch, part("BasicPublish"), taken)
        header == AndSend(method, part("BasicHeader"), taken)
    IN  AndSend(header, part("Body"), taken)

\* ack() and reject(): the frame, without a Deferred.
SettleFrame ==
    [ack |-> "BasicAck", reject |-> "BasicReject",
     rejectMultiple |-> "BasicNack"]

----------------------------------------------------------------------------
\* OUTCOMES

\* Mutant: the Deferred stays the oldest
ReportSuccessKeeps(ch, withCount) ==
    IF ch.callbacks = <<>> THEN ch
    ELSE [ch EXCEPT !.outcomes = Append(@, <<Head(ch.callbacks).id, "success">>)]

\* reportSuccess(): the oldest Deferred, with what its class adds: a consumer
\* is installed under its tag, a canceled one is uninstalled, a get that has
\* a message (it comes with a count) installs a consumer without a tag.
ReportSuccess(ch, withCount) ==
    IF ch.callbacks = <<>> THEN ch
    ELSE LET oldest == Head(ch.callbacks)
         IN  [ch EXCEPT
                !.callbacks = Tail(@),
                !.outcomes = Append(@, <<oldest.id, "success">>),
                !.consumers =
                    CASE oldest.class = "consume" -> @ \cup {"tag"}
                      [] oldest.class = "cancel" -> @ \ {"tag"}
                      [] oldest.class = "get" /\ withCount -> @ \cup {""}
                      [] OTHER -> @]

\* The values of g at the elements of s that are in its domain, in order.
Picked(s, g) ==
    LET of[n \in 0..Len(s)] ==
            IF n = 0 THEN <<>>
            ELSE IF s[n] \in DOMAIN g THEN Append(of[n - 1], g[s[n]])
            ELSE of[n - 1]
    IN  of[Len(s)]

\* The errors of a chain.  A Deferred that had failed when it was made fails
\* again, and nobody asks for its outcome.
Failures(callbacks) ==
    Picked(callbacks, [d \in {d \in ToSet(callbacks) : ~d.failed} |->
                          <<d.id, "error">>])

\* reportError(): every Deferred of the chain fails; what was queued is gone.
ReportError(ch) ==
    [ch EXCEPT !.state = "closed", !.synchronous = FALSE, !.queue = <<>>,
               !.callbacks = <<>>,
               !.outcomes = @ \o Failures(ch.callbacks)]

\* reportClosed()
ReportClosed(ch) ==
    ReportError(ReportSuccess([ch EXCEPT !.state = "closed",
                                         !.synchronous = FALSE], FALSE))

----------------------------------------------------------------------------
\* MESSAGES

\* reportMessage(): a message without a consumer tag was asked for with get,
\* and its end is the end of the answer.  One whose consumer is gone stays.
ReportMessage(ch) ==
    LET r == IF ch.message.consumer = "" THEN OnSynchronized(ch)
                                         ELSE Result(TRUE, ch, <<>>)
        done == [r.ch EXCEPT !.reported = Append(@, <<ch.message.id,
                                                      ch.message.received>>),
                             !.consumers = @ \ ({""} \cap {ch.message.consumer}),
                             !.message = NoMessage]
    IN  IF ch.message.consumer \notin ch.consumers THEN r
        ELSE [r EXCEPT !.ch = done]

\* message(frame): a new message takes the place of the last.
SetMessage(ch, id, consumer) ==
    [ch EXCEPT !.message = [id |-> id, consumer |-> consumer,
                            bodySize |-> 0, received |-> 0]]

\* BasicHeaderFrame::process
ProcessHeader(ch, bodySize) ==
    IF ch.message = NoMessage THEN Result(FALSE, ch, <<>>)
    ELSE LET sized == [ch EXCEPT !.message.bodySize = bodySize]
         IN  IF bodySize = 0 THEN ReportMessage(sized)
                             ELSE Result(TRUE, sized, <<>>)

\* MessageImpl::append: no more than what is missing of the body is taken.
AppendBody(message, size) ==
    [message EXCEPT !.received = IF @ + size > message.bodySize
                                 THEN message.bodySize ELSE @ + size]

\* Mutant: the message is complete one part early
ProcessBodyEarly(ch, size) ==
    IF ch.message = NoMessage THEN Result(FALSE, ch, <<>>)
    ELSE LET more == [ch EXCEPT !.message = AppendBody(@, size)]
         IN  IF more.message.received + 1 < more.message.bodySize
             THEN Result(TRUE, more, <<>>)
             ELSE ReportMessage(more)

\* BodyFrame::process
ProcessBody(ch, size) ==
    IF ch.message = NoMessage THEN Result(FALSE, ch, <<>>)
    ELSE LET more == [ch EXCEPT !.message = AppendBody(@, size)]
         IN  IF more.message.received < more.message.bodySize
             THEN Result(TRUE, more, <<>>)
             ELSE ReportMessage(more)
=============================================================================
