------------------------- MODULE MyAMQPClientImplProofs -------------------------
(***************************************************************************)
(* What TLAPS proves of MyAMQPClientImpl, for any number of opens and of    *)
(* calls of CreateHelloQueue: the types, that a closed client is quiet,    *)
(* that the library has one user at a time, and that the flags are those   *)
(* of the connection they are read on.                                     *)
(***************************************************************************)
EXTENDS MyAMQPClientImpl, SequenceTheorems, TLAPS

\* A request waits or runs.
Queued(r) == \E i \in 1..Len(queue) : queue[i] = r
InFlight(r) == request = r \/ Queued(r)

\* The server's word on its way to the client.
Coming(frame) ==
    \/ frame \in replies
    \/ \E i \in 1..Len(incoming) : incoming[i] = frame
    \/ InFlight(frame)

\* Two requests of which there is one at a time: the read loop's, and each of the
\* client's, but for the close of a channel, which a timeout may leave behind.
Alike(a, b, late) ==
    \/ a \in Parse \cup {"joinReader"} /\ b \in Parse \cup {"joinReader"}
    \/ a = b /\ a \in Request /\ (a = "closeChannel" => ~late)

\* No two requests under way are alike.
OnceInv ==
    /\ \A i, j \in 1..Len(queue) : Alike(queue[i], queue[j], timedOut) => i = j
    /\ \A i \in 1..Len(queue) : ~Alike(request, queue[i], timedOut)

\* The read loop exists while its handle is valid, and waits while it has a parse
\* under way.
ReaderInv ==
    /\ ~handle => reader \in {None, "exited"}
    /\ request \in Parse \cup {"joinReader"} => reader = "waiting"
    /\ \A r \in Parse : Queued(r) => reader = "waiting"

\* When the two loops are there, and what call the client's thread is in.
LoopsInv ==
    /\ accepting => alive
    /\ request # None => alive
    /\ main = "joinRequests" => ~accepting
    /\ request = "asleep" => main = "joinRequests"
    /\ main \in {"resetFlags", "connect", "login", "startRequests"}
          => ~alive /\ op = "open"
    /\ main \in {"reset", "stopRequests", "joinRequests", "resetFlags", "connect"}
          => ~handle
    /\ main \in {"login", "startRequests"} => handle
    /\ main = "idle" /\ op = "close" => ~alive /\ ~handle
    /\ accepting /\ main \notin {"reset", "stopRequests"} => handle
    /\ main \in {"waitChannel", "bind", "getBind", "waitQueue"}
          => accepting /\ op = "create"
    /\ main = "getPublish" => accepting /\ op = "publish"

\* A request of the client's thread is under way only while that thread waits for
\* it; the exception is the close of a channel that came too late.
RequestsInv ==
    /\ InFlight("bind") => main = "getBind" /\ ~answered
    /\ InFlight("publish") => main = "getPublish" /\ ~answered
    /\ InFlight("closeConnection") => main = "getClose" /\ ~answered
    /\ InFlight("closeChannel") =>
          \/ timedOut
          \/ main = "waitFinalized" /\ ~channelFinalized /\ ~Coming("channelClosed")

\* What the flags, and the frames that will set them, say of the channel.
ChannelInv ==
    /\ channel => handle \/ main = "reset"
    /\ handle /\ (channelOpen \/ Coming("channelReady")) => channel
    /\ main \in {"bind", "getBind"} => channel
    /\ main = "connect" => ~channelOpen /\ ~queueReady /\ ~channelFinalized
    /\ queueReady => bound
    /\ handle /\ (channelFinalized \/ Coming("channelClosed")) =>
          \/ timedOut
          \/ main \in {"waitFinalized", "closeConnection", "getClose",
                       "closeReader", "joinReader"}

ClientInv ==
    TypeOK /\ OnceInv /\ ReaderInv /\ LoopsInv /\ RequestsInv /\ ChannelInv

-----------------------------------------------------------------------------
(* The queue.                                                              *)

\* What Append does to what is queued.
LEMMA AppendQueued ==
    ASSUME NEW S, queue \in Seq(S), NEW e \in S, queue' = Append(queue, e)
    PROVE  /\ Len(queue) \in Nat /\ Len(queue') = Len(queue) + 1
           /\ \A i \in 1..Len(queue) : queue'[i] = queue[i]
           /\ queue'[Len(queue) + 1] = e
           /\ \A r : Queued(r)' <=> Queued(r) \/ r = e
<1>1. /\ Len(queue) \in Nat /\ Len(queue') = Len(queue) + 1
      /\ \A i \in 1..Len(queue) : queue'[i] = queue[i]
      /\ queue'[Len(queue) + 1] = e
  BY AppendProperties, LenProperties
<1>2. \A r : Queued(r)' <=> Queued(r) \/ r = e
  <2>1. \A i : i \in 1..Len(queue') <=> i \in 1..Len(queue) \/ i = Len(queue) + 1
    BY <1>1
  <2> QED
    BY <1>1, <2>1 DEF Queued
<1> QED
  BY <1>1, <1>2

\* What taking the head does to it.
LEMMA TailQueued ==
    ASSUME NEW S, queue \in Seq(S), queue # <<>>, queue' = Tail(queue)
    PROVE  /\ Len(queue') \in Nat /\ Len(queue) = Len(queue') + 1
           /\ \A i \in 1..Len(queue') : queue'[i] = queue[i + 1]
           /\ queue[1] = Head(queue) /\ Head(queue) \in S
           /\ \A r : Queued(r) <=> Queued(r)' \/ r = Head(queue)
<1>1. /\ Len(queue') \in Nat /\ Len(queue) = Len(queue') + 1
      /\ \A i \in 1..Len(queue') : queue'[i] = queue[i + 1]
      /\ queue[1] = Head(queue) /\ Head(queue) \in S
  BY HeadTailProperties, LenProperties, EmptySeq
<1>2. \A r : Queued(r) <=> Queued(r)' \/ r = Head(queue)
  <2> TAKE r
  <2>1. ASSUME Queued(r) PROVE Queued(r)' \/ r = Head(queue)
    <3>1. PICK i \in 1..Len(queue) : queue[i] = r
      BY <2>1 DEF Queued
    <3>2. CASE i = 1
      BY <1>1, <3>1, <3>2
    <3>3. CASE i # 1
      <4>1. i - 1 \in 1..Len(queue') /\ queue'[i - 1] = r
        BY <1>1, <3>1, <3>3
      <4> QED
        BY <4>1 DEF Queued
    <3> QED
      BY <3>2, <3>3
  <2>2. ASSUME Queued(r)' PROVE Queued(r)
    <3>1. PICK i \in 1..Len(queue') : queue'[i] = r
      BY <2>2 DEF Queued
    <3>2. i + 1 \in 1..Len(queue) /\ queue[i + 1] = r
      BY <1>1, <3>1
    <3> QED
      BY <3>2 DEF Queued
  <2>3. Queued(Head(queue))
    <3>1. 1 \in 1..Len(queue)
      BY <1>1
    <3> QED
      BY <1>1, <3>1 DEF Queued
  <2> QED
    BY <2>1, <2>2, <2>3
<1> QED
  BY <1>1, <1>2

\* It does not matter which of two requests is named first.
LEMMA AlikeIsSymmetric ==
    \A a, b, late : Alike(a, b, late) <=> Alike(b, a, late)
BY DEF Alike

\* A request that is like none under way keeps OnceInv.
LEMMA AppendKeepsOnce ==
    ASSUME TypeOK, OnceInv, NEW e \in Parse \cup Request,
           queue' = Append(queue, e),
           ~Alike(request, e, timedOut),
           \A i \in 1..Len(queue) : ~Alike(queue[i], e, timedOut),
           UNCHANGED <<request, timedOut>>
    PROVE  OnceInv'
<1>1. /\ Len(queue) \in Nat /\ Len(queue') = Len(queue) + 1
      /\ \A i \in 1..Len(queue) : queue'[i] = queue[i]
      /\ queue'[Len(queue) + 1] = e
  BY AppendQueued DEF TypeOK, WorkOK
<1>2. \A i \in 1..Len(queue') : i \in 1..Len(queue) \/ i = Len(queue) + 1
  BY <1>1
<1>3. \A i \in 1..Len(queue') : ~Alike(request', queue'[i], timedOut')
  BY <1>1, <1>2 DEF OnceInv
<1>4. ASSUME NEW i \in 1..Len(queue'), NEW j \in 1..Len(queue'),
             Alike(queue'[i], queue'[j], timedOut')
      PROVE  i = j
  <2>1. CASE i \in 1..Len(queue) /\ j \in 1..Len(queue)
    BY <1>1, <1>4, <2>1 DEF OnceInv
  <2>2. CASE i = Len(queue) + 1 /\ j \in 1..Len(queue)
    BY <1>1, <1>4, <2>2, AlikeIsSymmetric
  <2>3. CASE i \in 1..Len(queue) /\ j = Len(queue) + 1
    BY <1>1, <1>4, <2>3
  <2> QED
    BY <1>2, <2>1, <2>2, <2>3
<1> QED
  BY <1>3, <1>4 DEF OnceInv

\* TakeRequest moves one, and keeps OnceInv.
LEMMA TakeKeepsOnce ==
    ASSUME TypeOK, OnceInv, TakeRequest
    PROVE  OnceInv'
<1>1. /\ Len(queue') \in Nat /\ Len(queue) = Len(queue') + 1
      /\ \A i \in 1..Len(queue') : queue'[i] = queue[i + 1]
      /\ queue[1] = Head(queue)
  BY TailQueued DEF TypeOK, WorkOK, TakeRequest
<1>2. \A i \in 1..Len(queue') : i + 1 \in 1..Len(queue) /\ i + 1 # 1
  BY <1>1
<1>3. request' = queue[1] /\ 1 \in 1..Len(queue) /\ timedOut' = timedOut
  BY <1>1 DEF TakeRequest, history
<1>4. \A i \in 1..Len(queue') : ~Alike(request', queue'[i], timedOut')
  BY <1>1, <1>2, <1>3 DEF OnceInv
<1>5. ASSUME NEW i \in 1..Len(queue'), NEW j \in 1..Len(queue'),
             Alike(queue'[i], queue'[j], timedOut')
      PROVE  i = j
  <2>1. i + 1 = j + 1
    BY <1>1, <1>2, <1>3, <1>5 DEF OnceInv
  <2> QED
    BY <1>1, <2>1
<1> QED
  BY <1>4, <1>5 DEF OnceInv

-----------------------------------------------------------------------------
(* The types.                                                              *)

\* Initially nothing is open.
LEMMA TypeOKInit == Init => TypeOK
<1> SUFFICES ASSUME Init PROVE TypeOK
  OBVIOUS
<1> USE BoundsAssumption DEF Init
<1>1. queue \in Seq(Parse \cup Request) /\ incoming \in Seq(Parse)
  BY EmptySeq
<1>2. opens \in 0..MaxOpens /\ binds \in 0..MaxBinds
  OBVIOUS
<1> QED
  BY <1>1, <1>2 DEF TypeOK, FlagsOK, WorkOK, CallsOK, MainPC

\* The calls, and the steps of Close.
LEMMA TypeOKClose ==
    ASSUME TypeOK,
           \/ OpenCall \/ CloseCall \/ CreateHelloQueue \/ SendHelloWorld
           \/ CloseChannel \/ WaitFinalized \/ CloseConnection \/ GetClose
           \/ CloseReader \/ JoinReader \/ Reset \/ StopRequests \/ JoinRequests
    PROVE  TypeOK'
<1> USE BoundsAssumption
    DEF TypeOK, FlagsOK, WorkOK, CallsOK, MainPC, mains, flags, library, requests, reads, server, history,
        locked, GoTo
<1>1. ASSUME NEW r \in Request, PushRequest(r)
      PROVE  /\ queue' \in Seq(Parse \cup Request)
             /\ answered' = FALSE
             /\ UNCHANGED <<accepting, alive, request>>
  BY <1>1, AppendProperties DEF PushRequest
<1>2. CASE OpenCall
  <2>1. opens' \in 0..MaxOpens /\ binds' \in 0..MaxBinds
    BY <1>2 DEF OpenCall
  <2> QED
    BY <1>2, <2>1 DEF OpenCall, Call
<1>3. CASE CloseCall
  BY <1>3 DEF CloseCall, Call
<1>4. CASE CreateHelloQueue
  BY <1>4 DEF CreateHelloQueue
<1>5. CASE SendHelloWorld
  BY <1>1, <1>5 DEF SendHelloWorld, Request
<1>6. CASE CloseChannel
  BY <1>1, <1>6 DEF CloseChannel, Request
<1>7. CASE WaitFinalized
  BY <1>7 DEF WaitFinalized
<1>8. CASE CloseConnection
  BY <1>1, <1>8 DEF CloseConnection, Request
<1>9. CASE GetClose
  BY <1>9 DEF GetClose
<1>10. CASE CloseReader
  BY <1>10 DEF CloseReader
<1>11. CASE JoinReader
  BY <1>11 DEF JoinReader
<1>12. CASE Reset
  BY <1>12 DEF Reset
<1>13. CASE StopRequests
  BY <1>13 DEF StopRequests, Closed
<1>14. CASE JoinRequests
  BY <1>14 DEF JoinRequests, Closed
<1> QED
  BY <1>2, <1>3, <1>4, <1>5, <1>6, <1>7, <1>8, <1>9, <1>10, <1>11, <1>12, <1>13,
     <1>14

\* The rest of Open, of CreateHelloQueue and of SendHelloWorld.
LEMMA TypeOKOpen ==
    ASSUME TypeOK,
           \/ ResetFlags \/ OpenReader \/ Login \/ StartRequests
           \/ WaitChannel \/ Bind \/ GetBind \/ WaitQueue \/ GetPublish
    PROVE  TypeOK'
<1> USE BoundsAssumption
    DEF TypeOK, FlagsOK, WorkOK, CallsOK, MainPC, mains, flags, library, requests, reads, server, history,
        locked, GoTo
<1>1. CASE ResetFlags
  BY <1>1 DEF ResetFlags
<1>2. CASE OpenReader
  BY <1>2, EmptySeq DEF OpenReader
<1>3. CASE Login
  BY <1>3 DEF Login, Parse
<1>4. CASE StartRequests
  BY <1>4 DEF StartRequests
<1>5. CASE WaitChannel
  <2>1. CASE GoTo("waitChannel", "bind") /\ mutex' = TRUE
    BY <1>5, <2>1 DEF WaitChannel
  <2>2. CASE GoTo("waitChannel", "idle") /\ UNCHANGED mutex
    BY <1>5, <2>2 DEF WaitChannel
  <2> QED
    BY <1>5, <2>1, <2>2 DEF WaitChannel
<1>6. CASE Bind
  <2>1. queue' \in Seq(Parse \cup Request)
    BY <1>6, AppendProperties DEF Bind, PushRequest, Request
  <2> QED
    BY <1>6, <2>1 DEF Bind, PushRequest
<1>7. CASE GetBind
  BY <1>7 DEF GetBind
<1>8. CASE WaitQueue \/ GetPublish
  BY <1>8 DEF WaitQueue, GetPublish
<1> QED
  BY <1>1, <1>2, <1>3, <1>4, <1>5, <1>6, <1>7, <1>8

\* The request processor, the read loop and the server.
LEMMA TypeOKOthers ==
    ASSUME TypeOK, RequestStep \/ ReaderStep \/ ServerReplies \/ ServerGivesUp
    PROVE  TypeOK'
<1> USE BoundsAssumption
    DEF TypeOK, FlagsOK, WorkOK, CallsOK, MainPC, mains, flags, library, requests, reads, server, history,
        locked
<1>1. CASE TakeRequest
  <2>1. Head(queue) \in Parse \cup Request /\ queue' \in Seq(Parse \cup Request)
    BY <1>1, HeadTailProperties DEF TakeRequest
  <2> QED
    BY <1>1, <2>1 DEF TakeRequest
<1>2. CASE RunConnected
  BY <1>2, ZenonT(40) DEF RunConnected, Parsed, Parse, Callback
<1>3. CASE RunNothing
  BY <1>3 DEF RunNothing, Parsed
<1>4. CASE RunCallback
  BY <1>4 DEF RunCallback, Parsed
<1>5. CASE RunConnectionError
  BY <1>5, ZenonT(40) DEF RunConnectionError, Parsed
<1>6. CASE RunRequest
  <2>1. replies' \subseteq Parse
    BY <1>6 DEF RunRequest, Parse, Callback
  <2> QED
    BY <1>6, <2>1 DEF RunRequest
<1>7. ASSUME NEW frame \in Parse, OnNetworkRead(frame), incoming' \in Seq(Parse)
      PROVE  TypeOK'
  <2>1. queue' \in Seq(Parse \cup Request)
    BY <1>7, AppendProperties DEF OnNetworkRead
  <2> QED
    BY <1>7, <2>1 DEF OnNetworkRead
<1>8. CASE ReadFrame
  BY <1>7, <1>8, HeadTailProperties DEF ReadFrame
<1>9. CASE ReadNothing
  BY <1>7, <1>9 DEF ReadNothing, Parse
<1>10. CASE ReadFails
  BY <1>10 DEF ReadFails
<1>11. ASSUME NEW frame \in Parse, ServerSends(frame), replies' \subseteq Parse
       PROVE  TypeOK'
  <2>1. incoming' \in Seq(Parse)
    BY <1>11, AppendProperties DEF ServerSends
  <2> QED
    BY <1>11, <2>1 DEF ServerSends
<1>12. CASE ServerReplies
  <2>1. "channelError" \in Parse
    BY DEF Parse, Callback
  <2> QED
    BY <1>11, <1>12, <2>1 DEF ServerReplies
<1>13. CASE ServerGivesUp
  <2>1. "connectionError" \in Parse
    BY DEF Parse, Callback
  <2>2. CASE ServerSends("connectionError") /\ UNCHANGED replies
    BY <1>11, <2>1, <2>2
  <2>3. CASE /\ hungUp' = TRUE
             /\ UNCHANGED <<mains, locked, library, requests, reads, socket,
                            incoming, replies, history>>
    BY <2>3
  <2> QED
    BY <1>13, <2>2, <2>3 DEF ServerGivesUp
<1> QED
  BY <1>1, <1>2, <1>3, <1>4, <1>5, <1>6, <1>8, <1>9, <1>10, <1>12, <1>13
     DEF RequestStep, ReaderStep

\* The type invariant is inductive.
LEMMA TypeOKNext == TypeOK /\ [Next]_vars => TypeOK'
<1>1. ASSUME TypeOK, UNCHANGED vars PROVE TypeOK'
  BY <1>1 DEF TypeOK, FlagsOK, WorkOK, CallsOK, vars, mains, flags, library, requests, reads, server,
              history, locked
<1> QED
  BY <1>1, TypeOKClose, TypeOKOpen, TypeOKOthers DEF Next, MainStep

\* The types; among them that of all its calls only CreateHelloQueue keeps _mutex
\* while it waits.
THEOREM ClientTypeCorrect == Spec => []TypeOK
BY TypeOKInit, TypeOKNext, PTL DEF Spec

-----------------------------------------------------------------------------
(* The other invariants.                                                   *)

\* A step that touches neither the queue nor the request that runs.
LEMMA WorkUntouched ==
    ASSUME UNCHANGED <<queue, request>>
    PROVE  /\ \A r : Queued(r)' <=> Queued(r)
           /\ \A r : InFlight(r)' <=> InFlight(r)
BY DEF Queued, InFlight

\* A Close that gave up makes fewer requests alike.
LEMMA OnceUntouched ==
    ASSUME OnceInv, UNCHANGED <<queue, request>>, timedOut => timedOut'
    PROVE  OnceInv'
<1>1. \A a, b : Alike(a, b, timedOut') => Alike(a, b, timedOut)
  BY DEF Alike
<1> QED
  BY <1>1 DEF OnceInv

\* A step of the client's thread, or of the read loop, that leaves all work as it is.
LEMMA QuietStep ==
    ASSUME ClientInv, UNCHANGED <<queue, request, incoming, replies>>,
           \/ OpenCall \/ CloseCall \/ CreateHelloQueue
           \/ CloseChannel \/ WaitFinalized \/ CloseConnection \/ GetClose
           \/ CloseReader \/ JoinReader \/ Reset \/ StopRequests \/ JoinRequests
           \/ ResetFlags \/ Login \/ StartRequests
           \/ WaitChannel \/ GetBind \/ WaitQueue \/ GetPublish \/ ReadFails
    PROVE  ReaderInv' /\ LoopsInv' /\ RequestsInv' /\ ChannelInv'
<1> USE DEF ClientInv, TypeOK, FlagsOK, WorkOK, CallsOK, MainPC,
        ReaderInv, LoopsInv, RequestsInv, ChannelInv,
        mains, flags, library, requests, reads, server, history, locked, GoTo
<1>1. /\ \A r : Queued(r)' <=> Queued(r)
      /\ \A r : InFlight(r)' <=> InFlight(r)
  BY WorkUntouched
<1>2. \A f : Coming(f)' <=> Coming(f)
  BY <1>1 DEF Coming
<1>3. CASE OpenCall
  BY <1>1, <1>2, <1>3 DEF OpenCall, Call
<1>4. CASE CloseCall
  BY <1>1, <1>2, <1>4 DEF CloseCall, Call
<1>5. CASE CreateHelloQueue
  BY <1>1, <1>2, <1>5 DEF CreateHelloQueue
<1>6. CASE CloseChannel
  BY <1>1, <1>2, <1>6 DEF CloseChannel, PushRequest
<1>7. CASE WaitFinalized
  BY <1>1, <1>2, <1>7 DEF WaitFinalized
<1>8. CASE CloseConnection
  BY <1>1, <1>2, <1>8 DEF CloseConnection, PushRequest
<1>9. CASE GetClose
  BY <1>1, <1>2, <1>9 DEF GetClose
<1>10. CASE CloseReader
  BY <1>1, <1>2, <1>10 DEF CloseReader
<1>11. CASE JoinReader
  BY <1>1, <1>2, <1>11 DEF JoinReader
<1>12. CASE Reset
  BY <1>1, <1>2, <1>12 DEF Reset
<1>13. CASE StopRequests
  BY <1>1, <1>2, <1>13 DEF StopRequests, Closed
<1>14. CASE JoinRequests
  BY <1>1, <1>2, <1>14 DEF JoinRequests, Closed, None
<1>15. CASE ResetFlags
  BY <1>1, <1>2, <1>15 DEF ResetFlags
<1>17. CASE Login
  BY <1>1, <1>2, <1>17 DEF Login
<1>18. CASE StartRequests
  BY <1>1, <1>2, <1>18 DEF StartRequests
<1>19. CASE WaitChannel
  BY <1>1, <1>2, <1>19 DEF WaitChannel
<1>20. CASE GetBind
  BY <1>1, <1>2, <1>20 DEF GetBind
<1>21. CASE WaitQueue \/ GetPublish
  BY <1>1, <1>2, <1>21 DEF WaitQueue, GetPublish
<1>22. CASE ReadFails
  BY <1>1, <1>2, <1>22 DEF ReadFails
<1> QED
  BY <1>3, <1>4, <1>5, <1>6, <1>7, <1>8, <1>9, <1>10, <1>11, <1>12, <1>13,
     <1>14, <1>15, <1>17, <1>18, <1>19, <1>20, <1>21, <1>22

\* A new connection starts with nothing under way.
LEMMA OpenReaderStep ==
    ASSUME ClientInv, OpenReader
    PROVE  ReaderInv' /\ LoopsInv' /\ RequestsInv' /\ ChannelInv'
<1> USE DEF ClientInv, TypeOK, FlagsOK, WorkOK, CallsOK, MainPC,
        ReaderInv, LoopsInv, RequestsInv, ChannelInv,
        mains, flags, library, requests, reads, server, history, locked, GoTo
<1>1. /\ \A r : Queued(r)' <=> Queued(r)
      /\ \A r : InFlight(r)' <=> InFlight(r)
  BY WorkUntouched DEF OpenReader
<1>2. \A r \in Parse : ~InFlight(r)
  BY DEF InFlight, OpenReader, None
<1>3. "channelReady" \in Parse /\ "channelClosed" \in Parse
  BY DEF Parse, Callback
<1>4. CASE /\ GoTo("connect", "login")
           /\ handle' = TRUE /\ reader' = "reading"
           /\ incoming' = <<>> /\ replies' = {}
  <2>1. \A f \in Parse : ~Coming(f)'
    <3>1. Len(incoming') = 0
      BY <1>4
    <3> QED
      BY <1>1, <1>2, <1>4, <3>1 DEF Coming
  <2>2. ReaderInv' /\ LoopsInv'
    BY <1>1, <1>2, <1>4 DEF OpenReader, InFlight
  <2>3. RequestsInv'
    BY <1>1, <1>3, <1>4, <2>1 DEF OpenReader
  <2>4. ChannelInv'
    BY <1>1, <1>3, <1>4, <2>1 DEF OpenReader
  <2> QED
    BY <2>2, <2>3, <2>4
<1>5. CASE GoTo("connect", "idle") /\ UNCHANGED <<server, reads, bound>>
  <2>1. \A f : Coming(f)' <=> Coming(f)
    BY <1>1, <1>5 DEF Coming
  <2> QED
    BY <1>1, <1>5, <2>1 DEF OpenReader
<1> QED
  BY <1>4, <1>5 DEF OpenReader

\* A successful login asks the server for its answer.
LEMMA LoginStep ==
    ASSUME ClientInv, Login
    PROVE  ReaderInv' /\ LoopsInv' /\ RequestsInv' /\ ChannelInv'
<1> USE DEF ClientInv, TypeOK, FlagsOK, WorkOK, CallsOK, MainPC,
        ReaderInv, LoopsInv, RequestsInv, ChannelInv,
        mains, flags, library, requests, reads, server, history, locked, GoTo
<1>1. /\ \A r : Queued(r)' <=> Queued(r)
      /\ \A r : InFlight(r)' <=> InFlight(r)
  BY WorkUntouched DEF Login
<1>2. \A f \in {"channelReady", "channelClosed"} : Coming(f)' => Coming(f)
  BY <1>1 DEF Login, Coming
<1> QED
  BY <1>1, <1>2 DEF Login

\* The client's thread pushes a request and waits for it.
LEMMA PushStep ==
    ASSUME ClientInv, NEW r \in Request, PushRequest(r),
           UNCHANGED <<locked, library, reads, server, history>>,
           \/ r = "bind" /\ Bind
           \/ r = "publish" /\ SendHelloWorld
           \/ r = "closeChannel" /\ CloseChannel /\ channel /\ flush
           \/ r = "closeConnection" /\ CloseConnection /\ main' = "getClose"
    PROVE  ClientInv'
<1> USE DEF ClientInv, mains, flags, library, requests, reads, server, history,
        locked, GoTo
<1>1. TypeOK'
  BY TypeOKClose, TypeOKOpen
<1>2. queue' = Append(queue, r) /\ answered' = FALSE
      /\ accepting /\ UNCHANGED <<accepting, alive, request>>
  BY DEF PushRequest
<1>3. \A x : Queued(x)' <=> Queued(x) \/ x = r
  BY <1>2, AppendQueued DEF TypeOK, WorkOK, Request
<1>4. \A x : InFlight(x)' <=> InFlight(x) \/ x = r
  BY <1>2, <1>3 DEF InFlight
<1>5. r \notin Parse
  BY DEF Request, Parse, Callback
<1>6. \A f \in Parse : Coming(f)' <=> Coming(f)
  BY <1>4, <1>5 DEF Coming
<1>7. ~InFlight(r) \/ (r = "closeChannel" /\ timedOut)
  BY DEF RequestsInv, Bind, SendHelloWorld, CloseChannel, CloseConnection
<1>8. OnceInv'
  <2>1. r # "joinReader" /\ r \in Parse \cup Request
    BY DEF Request
  <2>2. ~Alike(request, r, timedOut)
    BY <1>5, <1>7, <2>1 DEF Alike, InFlight
  <2>3. \A i \in 1..Len(queue) : ~Alike(queue[i], r, timedOut)
    BY <1>5, <1>7, <2>1 DEF Alike, InFlight, Queued
  <2> QED
    BY <1>2, <2>1, <2>2, <2>3, AppendKeepsOnce
<1>9. ReaderInv' /\ LoopsInv'
  BY <1>2, <1>3, <1>5
     DEF ReaderInv, LoopsInv, Bind, SendHelloWorld, CloseChannel, CloseConnection
<1>10. RequestsInv' /\ ChannelInv'
  <2>1. "channelReady" \in Parse /\ "channelClosed" \in Parse
    BY DEF Parse, Callback
  <2>2. CASE r = "bind" /\ Bind
    BY <1>2, <1>4, <1>6, <2>1, <2>2 DEF RequestsInv, ChannelInv, Bind
  <2>3. CASE r = "publish" /\ SendHelloWorld
    BY <1>2, <1>4, <1>6, <2>1, <2>3 DEF RequestsInv, ChannelInv, SendHelloWorld
  <2>4. CASE r = "closeChannel" /\ CloseChannel /\ channel /\ flush
    BY <1>2, <1>4, <1>6, <2>1, <2>4
       DEF RequestsInv, ChannelInv, LoopsInv, CloseChannel, TypeOK, CallsOK
  <2>5. CASE r = "closeConnection" /\ CloseConnection /\ main' = "getClose"
    BY <1>2, <1>4, <1>6, <2>1, <2>5 DEF RequestsInv, ChannelInv, CloseConnection
  <2> QED
    BY <2>2, <2>3, <2>4, <2>5
<1> QED
  BY <1>1, <1>8, <1>9, <1>10

\* What runs has no like in the queue.
LEMMA RunningIsAlone ==
    ASSUME TypeOK, OnceInv
    PROVE  /\ request \in Parse => \A r \in Parse : ~Queued(r)
           /\ request \in Request /\ (request = "closeChannel" => ~timedOut)
                 => ~Queued(request)
BY DEF OnceInv, Alike, Queued

\* When what runs ends, or becomes the wait for the read loop, OnceInv is kept.
LEMMA EndKeepsOnce ==
    ASSUME TypeOK, OnceInv, UNCHANGED <<queue, timedOut>>,
           \/ request' \in {None, "asleep"}
           \/ request \in Parse /\ request' = "joinReader"
    PROVE  OnceInv'
<1>1. CASE request' \in {None, "asleep"}
  <2>1. \A x, late : ~Alike(request', x, late)
    BY <1>1 DEF Alike, Parse, Callback, Request, None
  <2> QED
    BY <2>1 DEF OnceInv
<1>2. CASE request \in Parse /\ request' = "joinReader"
  <2>1. \A x, late : Alike(request', x, late) => Alike(request, x, late)
    BY <1>2 DEF Alike, Request
  <2> QED
    BY <2>1 DEF OnceInv
<1> QED
  BY <1>1, <1>2

\* The loop that a Stop finds asleep had nothing to do.
LEMMA AsleepStep ==
    ASSUME ClientInv, StopRequests, request' # request
    PROVE  ClientInv'
<1> USE DEF ClientInv, GoTo, library, reads, server, history, locked, flags
<1>1. /\ alive /\ request = None /\ request' = "asleep"
      /\ main = "stopRequests" /\ main' = "joinRequests" /\ op' = op
      /\ UNCHANGED <<locked, library, alive, queue, answered, reads, server, history>>
      /\ accepting' = FALSE
  BY DEF StopRequests, TypeOK, FlagsOK
<1>2. TypeOK'
  BY TypeOKClose
<1>3. OnceInv'
  BY <1>1, EndKeepsOnce
<1>4. /\ \A r : Queued(r)' <=> Queued(r)
      /\ \A r \in Parse \cup Request : InFlight(r)' => InFlight(r)
  BY <1>1 DEF Queued, InFlight, Parse, Callback, Request
<1>5. \A f \in Parse : Coming(f)' => Coming(f)
  BY <1>1, <1>4 DEF Coming
<1>6. /\ {"channelReady", "channelClosed"} \subseteq Parse
      /\ {"bind", "publish", "closeChannel", "closeConnection"} \subseteq Request
      /\ "asleep" \notin Parse
  BY DEF Parse, Callback, Request
<1>7. ReaderInv' /\ LoopsInv'
  BY <1>1, <1>4, <1>6 DEF ReaderInv, LoopsInv
<1>8. RequestsInv' /\ ChannelInv'
  BY <1>1, <1>4, <1>5, <1>6 DEF RequestsInv, ChannelInv
<1> QED
  BY <1>2, <1>3, <1>7, <1>8

\* What was queued runs.
LEMMA TakeStep ==
    ASSUME ClientInv, TakeRequest
    PROVE  ClientInv'
<1> USE DEF ClientInv, mains, library, reads, server, history, locked, flags
<1>1. TypeOK'
  BY TypeOKOthers DEF RequestStep
<1>2. OnceInv'
  BY TakeKeepsOnce
<1>3. /\ request' \in Parse \cup Request /\ Queued(request')
      /\ \A r : Queued(r)' => Queued(r)
  BY TailQueued DEF TakeRequest, TypeOK, WorkOK
<1>4. \A r : InFlight(r)' => InFlight(r)
  BY <1>3 DEF InFlight
<1>5. \A f : Coming(f)' => Coming(f)
  BY <1>4 DEF Coming, TakeRequest
<1>6. "joinReader" \notin Parse \cup Request /\ "asleep" \notin Parse \cup Request
  BY DEF Parse, Callback, Request
<1>7. ReaderInv' /\ LoopsInv'
  BY <1>3, <1>6 DEF TakeRequest, ReaderInv, LoopsInv
<1>8. RequestsInv' /\ ChannelInv'
  BY <1>4, <1>5 DEF TakeRequest, RequestsInv, ChannelInv
<1> QED
  BY <1>1, <1>2, <1>7, <1>8

\* A parse ends: its callback has set what it sets, and the read loop goes on, or
\* onError waits for it.
LEMMA ParseStep ==
    ASSUME ClientInv, RunConnected \/ RunNothing \/ RunCallback \/ RunConnectionError
    PROVE  ClientInv'
<1> USE DEF ClientInv, mains, library, requests, reads, server, history, locked, flags
<1>1. TypeOK'
  BY TypeOKOthers DEF RequestStep
<1>2. /\ request \in Parse
      /\ UNCHANGED <<queue, timedOut, incoming, mains, mutex, connection, handle,
                     accepting, alive, answered>>
      /\ \/ request' = None
         \/ request' = "joinReader" /\ reader' = reader
  BY DEF RunConnected, RunNothing, RunCallback, RunConnectionError, Parsed, Parse,
         Callback
<1>3. OnceInv'
  BY <1>2, EndKeepsOnce
<1>4. /\ \A r : Queued(r)' <=> Queued(r)
      /\ \A r \in Parse : ~Queued(r)
  BY <1>2, RunningIsAlone DEF Queued
<1>5. /\ {"channelReady", "channelClosed"} \subseteq Parse
      /\ {"bind", "publish", "closeChannel", "closeConnection"} \subseteq Request
      /\ None \notin Parse \cup Request
      /\ "joinReader" \notin Parse \cup Request
      /\ None \notin {"joinReader", "asleep"}
  BY DEF Parse, Callback, Request, None
<1>6. \A r \in Parse \cup Request : InFlight(r)' => InFlight(r)
  BY <1>2, <1>4, <1>5 DEF InFlight
<1>7. reader = "waiting" /\ handle /\ alive
  BY <1>2, <1>5 DEF ReaderInv, LoopsInv, None
<1>8. ReaderInv' /\ LoopsInv'
  BY <1>2, <1>4, <1>5, <1>7 DEF ReaderInv, LoopsInv
<1>9. /\ ~Coming("channelClosed")' \/ Coming("channelClosed")
      /\ ~Coming("channelReady")' \/ Coming("channelReady") \/ channel'
      /\ channelFinalized' => channelFinalized \/ Coming("channelClosed")
      /\ channelOpen' => channelOpen \/ Coming("channelReady")
      /\ queueReady' => bound'
      /\ channel => channel'
      /\ channel' => channel \/ handle
  <2>1. \A f \in Parse : Coming(f)' => Coming(f) \/ f \in replies'
    BY <1>2, <1>6 DEF Coming
  <2>2. \A f \in replies : Coming(f)
    BY DEF Coming
  <2>3. Coming(request)
    BY DEF Coming, InFlight
  <2>4. CASE RunConnected
    BY <1>5, <1>7, <2>1, <2>2, <2>4
       DEF RunConnected, TypeOK, FlagsOK, ChannelInv
  <2>5. CASE RunNothing
    BY <1>5, <2>1, <2>2, <2>5 DEF RunNothing, ChannelInv
  <2>6. CASE RunCallback
    BY <1>5, <2>1, <2>2, <2>3, <2>6 DEF RunCallback, ChannelInv
  <2>7. CASE RunConnectionError
    BY <1>5, <2>1, <2>2, <2>7 DEF RunConnectionError, ChannelInv
  <2> QED
    BY <2>4, <2>5, <2>6, <2>7
<1>10. RequestsInv'
  BY <1>2, <1>5, <1>6, <1>9 DEF RequestsInv
<1>11. ChannelInv'
  <2>1. main # "connect"
    BY <1>7 DEF LoopsInv
  <2> QED
    BY <1>2, <1>7, <1>9, <2>1 DEF ChannelInv
<1> QED
  BY <1>1, <1>3, <1>8, <1>10, <1>11

\* A request of the client's thread ends, and has no like left in the queue.
LEMMA RequestEndStep ==
    ASSUME ClientInv, RunRequest
    PROVE  ClientInv'
<1> USE DEF ClientInv, mains, library, requests, reads, server, history, locked, flags
<1>1. TypeOK'
  BY TypeOKOthers DEF RequestStep
<1>2. /\ request \in Request /\ request' = None
      /\ UNCHANGED <<queue, timedOut, incoming, mains, locked, library, reads,
                     accepting, alive>>
  BY DEF RunRequest
<1>3. OnceInv'
  BY <1>2, EndKeepsOnce
<1>4. /\ \A r : Queued(r)' <=> Queued(r)
      /\ (request = "closeChannel" => ~timedOut) => ~Queued(request)
  BY <1>2, RunningIsAlone DEF Queued
<1>5. /\ {"channelReady", "channelClosed"} \subseteq Parse
      /\ {"bind", "publish", "closeChannel", "closeConnection"} \subseteq Request
      /\ None \notin Parse \cup Request
      /\ None \notin {"joinReader", "asleep"}
      /\ Parse \cap Request = {}
  BY DEF Parse, Callback, Request, None
<1>6. \A r \in Parse \cup Request : InFlight(r)' <=> Queued(r)
  BY <1>2, <1>4, <1>5 DEF InFlight
<1>7. \A r \in Parse \cup Request : InFlight(r)' => InFlight(r)
  BY <1>6 DEF InFlight
<1>8. ReaderInv' /\ LoopsInv'
  BY <1>2, <1>4, <1>5 DEF ReaderInv, LoopsInv
<1>9. /\ Coming("channelReady")' => Coming("channelReady")
      /\ Coming("channelClosed")'
            => Coming("channelClosed") \/ request = "closeChannel"
  BY <1>2, <1>5, <1>7 DEF Coming, RunRequest
<1>10. RequestsInv'
  <2>1. InFlight(request)
    BY DEF InFlight
  <2>2. CASE request = "closeChannel"
    <3>1. answered' <=> answered
      BY <2>2 DEF RunRequest
    <3>2. ~Queued(request) \/ timedOut
      BY <1>4
    <3> QED
      BY <1>2, <1>5, <1>6, <1>7, <2>2, <3>1, <3>2 DEF RequestsInv
  <2>3. CASE request # "closeChannel"
    <3>1. ~Queued(request)
      BY <1>4, <2>3
    <3>2. request = "bind" \/ request = "publish" \/ request = "closeConnection"
      BY <1>2, <2>3 DEF Request
    <3>3. ~InFlight("bind")' /\ ~InFlight("publish")' /\ ~InFlight("closeConnection")'
      BY <1>5, <1>6, <1>7, <2>1, <3>1, <3>2 DEF RequestsInv
    <3> QED
      BY <1>2, <1>5, <1>7, <1>9, <2>3, <3>3 DEF RequestsInv
  <2> QED
    BY <2>2, <2>3
<1>11. ChannelInv'
  <2>1. request = "closeChannel" => timedOut \/ main = "waitFinalized"
    BY DEF RequestsInv, InFlight
  <2> QED
    BY <1>2, <1>9, <2>1 DEF ChannelInv, RunRequest
<1> QED
  BY <1>1, <1>3, <1>8, <1>10, <1>11

\* The read loop pushes what it read, and waits.
LEMMA ReadStep ==
    ASSUME ClientInv, ReadFrame \/ ReadNothing
    PROVE  ClientInv'
<1> USE DEF ClientInv, mains, library, history, locked, flags
<1>1. TypeOK'
  BY TypeOKOthers DEF ReaderStep
<1>2. PICK frame \in Parse :
         /\ OnNetworkRead(frame)
         /\ \/ frame = "nothing" /\ UNCHANGED incoming
            \/ incoming # <<>> /\ frame = Head(incoming) /\ incoming' = Tail(incoming)
  <2>1. "nothing" \in Parse
    BY DEF Parse
  <2>2. incoming # <<>> => Head(incoming) \in Parse
    BY HeadTailProperties DEF TypeOK, WorkOK
  <2> QED
    BY <2>1, <2>2 DEF ReadFrame, ReadNothing
<1>3. /\ reader = "reading" /\ reader' = "waiting" /\ handle
      /\ request' = request
      /\ queue' = queue \/ queue' = Append(queue, frame)
  BY <1>2 DEF OnNetworkRead, ReaderInv, None
<1>4. /\ request \notin Parse \cup {"joinReader"}
      /\ \A r \in Parse : ~Queued(r)
  BY <1>3 DEF ReaderInv
<1>5. OnceInv'
  <2>1. CASE queue' = queue
    BY <1>2, <1>3, <2>1, OnceUntouched DEF OnNetworkRead
  <2>2. CASE queue' = Append(queue, frame)
    <3>1. frame \notin Request
      BY DEF Parse, Callback, Request
    <3>2. ~Alike(request, frame, timedOut)
      BY <1>4, <3>1 DEF Alike
    <3>3. \A i \in 1..Len(queue) : ~Alike(queue[i], frame, timedOut)
      <4>1. TAKE i \in 1..Len(queue)
      <4>2. queue[i] \in Parse \cup Request
        BY ElementOfSeq DEF TypeOK, WorkOK
      <4>3. queue[i] \notin Parse
        BY <1>4 DEF Queued
      <4>4. "joinReader" \notin Request
        BY DEF Request
      <4> QED
        BY <3>1, <4>2, <4>3, <4>4 DEF Alike
    <3> QED
      BY <1>2, <1>3, <2>2, <3>2, <3>3, AppendKeepsOnce DEF OnNetworkRead
  <2> QED
    BY <1>3, <2>1, <2>2
<1>6. \A r : InFlight(r)' => InFlight(r) \/ r = frame
  <2>1. \A r : Queued(r)' => Queued(r) \/ r = frame
    <3>1. CASE queue' = queue
      BY <3>1 DEF Queued
    <3>2. CASE queue' = Append(queue, frame)
      BY <3>2, AppendQueued DEF TypeOK, WorkOK
    <3> QED
      BY <1>3, <3>1, <3>2
  <2> QED
    BY <1>3, <2>1 DEF InFlight
<1>7. \A r \in Request : InFlight(r)' => InFlight(r)
  BY <1>6 DEF Parse, Callback, Request
<1>8. \A f \in {"channelReady", "channelClosed"} : Coming(f)' => Coming(f)
  <2>1. TAKE f \in {"channelReady", "channelClosed"}
  <2>2. CASE frame = "nothing" /\ UNCHANGED incoming
    BY <1>2, <1>6, <2>2 DEF Coming, OnNetworkRead
  <2>3. CASE incoming # <<>> /\ frame = Head(incoming) /\ incoming' = Tail(incoming)
    <3>1. /\ Len(incoming') \in Nat /\ Len(incoming) = Len(incoming') + 1
          /\ \A i \in 1..Len(incoming') : incoming'[i] = incoming[i + 1]
          /\ frame = incoming[1]
      BY <2>3, HeadTailProperties, LenProperties, EmptySeq DEF TypeOK, WorkOK
    <3>2. \A i \in 1..Len(incoming') : i + 1 \in 1..Len(incoming)
      BY <3>1
    <3>3. 1 \in 1..Len(incoming)
      BY <3>1
    <3> QED
      BY <1>2, <1>6, <3>1, <3>2, <3>3 DEF Coming, OnNetworkRead
  <2> QED
    BY <1>2, <2>2, <2>3
<1>9. ReaderInv' /\ LoopsInv'
  BY <1>2, <1>3, <1>4 DEF ReaderInv, LoopsInv, OnNetworkRead, None
<1>10. {"bind", "publish", "closeChannel", "closeConnection"} \subseteq Request
  BY DEF Request
<1>11. RequestsInv' /\ ChannelInv'
  BY <1>2, <1>7, <1>8, <1>10 DEF RequestsInv, ChannelInv, OnNetworkRead
<1> QED
  BY <1>1, <1>5, <1>9, <1>11

\* The server makes no request, and opens or closes no channel unasked.
LEMMA ServerStep ==
    ASSUME ClientInv, ServerReplies \/ ServerGivesUp
    PROVE  ClientInv'
<1> USE DEF ClientInv, mains, library, requests, reads, history, locked, flags
<1>1. TypeOK'
  BY TypeOKOthers
<1>2. /\ UNCHANGED <<mains, locked, library, requests, reads, history>>
      /\ \/ \E f \in Parse :
               /\ incoming' = Append(incoming, f) /\ replies' \subseteq replies
               /\ f \in replies \cup {"channelError", "connectionError"}
         \/ UNCHANGED <<incoming, replies>>
  <2>1. {"channelError", "connectionError"} \subseteq Parse /\ replies \subseteq Parse
    BY DEF TypeOK, WorkOK, Parse, Callback
  <2> QED
    BY <2>1 DEF ServerReplies, ServerGivesUp, ServerSends, server
<1>3. /\ \A r : Queued(r)' <=> Queued(r)
      /\ \A r : InFlight(r)' <=> InFlight(r)
  BY <1>2, WorkUntouched
<1>4. OnceInv'
  BY <1>2, OnceUntouched
<1>5. \A f \in {"channelReady", "channelClosed"} : Coming(f)' => Coming(f)
  <2>1. TAKE f \in {"channelReady", "channelClosed"}
  <2>2. CASE UNCHANGED <<incoming, replies>>
    BY <1>3, <2>2 DEF Coming
  <2>3. ASSUME NEW g \in Parse, incoming' = Append(incoming, g), replies' \subseteq replies,
               g \in replies \cup {"channelError", "connectionError"}
        PROVE  Coming(f)' => Coming(f)
    <3>1. /\ Len(incoming) \in Nat /\ Len(incoming') = Len(incoming) + 1
          /\ \A i \in 1..Len(incoming) : incoming'[i] = incoming[i]
          /\ incoming'[Len(incoming) + 1] = g
      BY <2>3, AppendProperties, LenProperties DEF TypeOK, WorkOK
    <3>2. \A i \in 1..Len(incoming') : i \in 1..Len(incoming) \/ i = Len(incoming) + 1
      BY <3>1
    <3> QED
      BY <1>3, <2>3, <3>1, <3>2 DEF Coming
  <2> QED
    BY <1>2, <2>2, <2>3
<1>6. ReaderInv' /\ LoopsInv' /\ RequestsInv' /\ ChannelInv'
  BY <1>2, <1>3, <1>5 DEF ReaderInv, LoopsInv, RequestsInv, ChannelInv
<1> QED
  BY <1>1, <1>4, <1>6

\* Initially nothing is under way.
LEMMA ClientInvInit == Init => ClientInv
<1> SUFFICES ASSUME Init PROVE ClientInv
  OBVIOUS
<1>1. TypeOK
  BY TypeOKInit
<1>2. Len(queue) = 0 /\ Len(incoming) = 0 /\ replies = {}
  BY DEF Init
<1>3. None \notin Parse \cup Request /\ None \notin {"joinReader", "asleep"}
  BY DEF None, Parse, Callback, Request
<1>4. /\ {"channelReady", "channelClosed"} \subseteq Parse
      /\ {"bind", "publish", "closeChannel", "closeConnection"} \subseteq Request
  BY DEF Parse, Callback, Request
<1>5. /\ \A r : ~Queued(r)
      /\ \A r \in Parse \cup Request : ~InFlight(r)
      /\ \A f \in Parse : ~Coming(f)
  BY <1>2, <1>3 DEF Init, Queued, InFlight, Coming
<1>6. OnceInv
  BY <1>2 DEF OnceInv
<1>7. ReaderInv /\ LoopsInv
  BY <1>3, <1>5 DEF Init, ReaderInv, LoopsInv, None
<1>8. RequestsInv /\ ChannelInv
  BY <1>4, <1>5 DEF Init, RequestsInv, ChannelInv
<1> QED
  BY <1>1, <1>6, <1>7, <1>8 DEF ClientInv

\* Every step of every thread keeps what relates them.
LEMMA ClientInvNext == ClientInv /\ [Next]_vars => ClientInv'
<1> SUFFICES ASSUME ClientInv, [Next]_vars PROVE ClientInv'
  OBVIOUS
<1> USE DEF mains, flags, library, requests, reads, server, history, locked, GoTo
<1>1. CASE UNCHANGED vars
  BY <1>1 DEF ClientInv, TypeOK, FlagsOK, WorkOK, CallsOK, OnceInv, ReaderInv, LoopsInv,
              RequestsInv, ChannelInv, Coming, InFlight, Queued, vars
<1>2. ASSUME UNCHANGED <<queue, request, incoming, replies>>,
             timedOut => timedOut', TypeOK',
             \/ OpenCall \/ CloseCall \/ CreateHelloQueue
             \/ CloseChannel \/ WaitFinalized \/ CloseConnection \/ GetClose
             \/ CloseReader \/ JoinReader \/ Reset \/ StopRequests \/ JoinRequests
             \/ ResetFlags \/ StartRequests
             \/ WaitChannel \/ GetBind \/ WaitQueue \/ GetPublish \/ ReadFails
      PROVE  ClientInv'
  BY <1>2, QuietStep, OnceUntouched DEF ClientInv
<1>3. TypeOK'
  BY TypeOKNext DEF ClientInv
<1>4. CASE OpenCall \/ CloseCall \/ CreateHelloQueue
  BY <1>2, <1>3, <1>4 DEF OpenCall, CloseCall, CreateHelloQueue
<1>5. CASE SendHelloWorld
  BY <1>5, PushStep DEF SendHelloWorld, Request
<1>6. CASE CloseChannel
  BY <1>2, <1>3, <1>6, PushStep DEF CloseChannel, Request
<1>7. CASE WaitFinalized
  BY <1>2, <1>3, <1>7 DEF WaitFinalized
<1>8. CASE CloseConnection
  BY <1>2, <1>3, <1>8, PushStep DEF CloseConnection, Request
<1>9. CASE GetClose \/ CloseReader \/ JoinReader \/ Reset \/ JoinRequests
  BY <1>2, <1>3, <1>9 DEF GetClose, CloseReader, JoinReader, Reset, JoinRequests
<1>10. CASE StopRequests
  BY <1>2, <1>3, <1>10, AsleepStep DEF StopRequests
<1>11. CASE ResetFlags \/ StartRequests
  BY <1>2, <1>3, <1>11 DEF ResetFlags, StartRequests
<1>12. CASE OpenReader
  BY <1>3, <1>12, OpenReaderStep, OnceUntouched DEF OpenReader, ClientInv
<1>13. CASE Login
  BY <1>3, <1>13, LoginStep, OnceUntouched DEF Login, ClientInv
<1>14. CASE WaitChannel \/ GetBind \/ WaitQueue \/ GetPublish \/ ReadFails
  BY <1>2, <1>3, <1>14 DEF WaitChannel, GetBind, WaitQueue, GetPublish, ReadFails
<1>15. CASE Bind
  BY <1>15, PushStep DEF Bind, Request
<1>16. CASE RequestStep
  BY <1>16, TakeStep, ParseStep, RequestEndStep DEF RequestStep
<1>17. CASE ReadFrame \/ ReadNothing
  BY <1>17, ReadStep
<1>18. CASE ServerReplies \/ ServerGivesUp
  BY <1>18, ServerStep
<1> QED
  BY <1>1, <1>4, <1>5, <1>6, <1>7, <1>8, <1>9, <1>10, <1>11, <1>12, <1>13, <1>14,
     <1>15, <1>16, <1>17, <1>18 DEF Next, MainStep, ReaderStep

\* ClientInv holds of every state.
LEMMA ClientInvariant == Spec => []ClientInv
BY ClientInvInit, ClientInvNext, PTL DEF Spec

-----------------------------------------------------------------------------
(* The theorems.                                                           *)

\* A closed client has no thread left and, unless its Close gave up on the channel,
\* no request that points into the stack of a call (MyAMQPClientImpl.cpp, Close).
THEOREM ClientClosedIsQuiet == Spec => []ClosedIsQuiet
<1>1. ClientInv => ClosedIsQuiet
  <2> SUFFICES ASSUME ClientInv,
                      \/ main = "resetFlags"
                      \/ main = "idle" /\ op = "close"
               PROVE  /\ reader \in {None, "exited"} /\ ~handle
                      /\ ~alive /\ request = None
                      /\ queue = <<>> \/ timedOut
    BY DEF ClosedIsQuiet
  <2> USE DEF ClientInv
  <2>1. ~handle /\ ~alive /\ request = None /\ reader \in {None, "exited"}
    BY DEF LoopsInv, ReaderInv
  <2>2. ASSUME queue # <<>>, ~timedOut PROVE FALSE
    <3>1. queue \in Seq(Parse \cup Request) /\ Len(queue) \in Nat /\ Len(queue) # 0
      BY <2>2, EmptySeq, LenProperties DEF TypeOK, WorkOK
    <3>2. 1 \in 1..Len(queue)
      BY <3>1
    <3>3. queue[1] \in Parse \cup Request /\ Queued(queue[1])
      BY <3>1, <3>2, ElementOfSeq DEF Queued
    <3>4. queue[1] \notin Parse
      BY <2>1, <3>3 DEF ReaderInv, None
    <3> QED
      BY <2>2, <3>3, <3>4 DEF RequestsInv, InFlight, Request
  <2> QED
    BY <2>1, <2>2
<1> QED
  BY <1>1, ClientInvariant, PTL

\* The library has one user at a time ("API Calls to the Copernica library are not
\* thread safe"), unless CloseAmqpChannel gave up on the request it had pushed.
THEOREM LibraryIsSerialised == Spec => []LibrarySerialisedUnlessTimedOut
<1>1. ClientInv => LibrarySerialisedUnlessTimedOut
  <2> SUFFICES ASSUME ClientInv, main \in {"login", "reset"}, request # None, ~timedOut
               PROVE  FALSE
    BY DEF LibrarySerialisedUnlessTimedOut
  <2> USE DEF ClientInv
  <2>1. main = "reset" /\ ~handle
    BY DEF LoopsInv
  <2>2. request \notin Parse \cup {"joinReader", "asleep"}
    BY <2>1 DEF ReaderInv, LoopsInv, None
  <2> QED
    BY <2>1, <2>2 DEF RequestsInv, InFlight, TypeOK, WorkOK, Request
<1> QED
  BY <1>1, ClientInvariant, PTL

\* The flags that CreateHelloQueue and SendHelloWorld go by speak of the connection
\* that is open, whatever an earlier one left behind.
THEOREM FlagsAreOfThisConnection == Spec => []FlagsAreFresh
<1>1. ClientInv => FlagsAreFresh
  BY DEF ClientInv, FlagsAreFresh, RequestsInv, ChannelInv, InFlight
<1> QED
  BY <1>1, ClientInvariant, PTL
=============================================================================
