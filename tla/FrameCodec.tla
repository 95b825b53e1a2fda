----------------------------- MODULE FrameCodec -----------------------------
(***************************************************************************)
(* A stream of frames between the AMQP-CPP library and the server.         *)
(* Frame::buffer() (frame.h) allocates an OutBuffer of totalSize() octets  *)
(* and lets fill() add the members one by one; the octets travel in pieces *)
(* of any size; ConnectionImpl::parse() recognises, constructs and         *)
(* dispatches the frames out of what has arrived so far (ReceivedFrame).   *)
(*                                                                         *)
(* The server is outside the repository: it is taken to build its frames   *)
(* with the library's own sending constructors and to read with its        *)
(* receiving ones, so a script runs in either direction.                   *)
(***************************************************************************)
EXTENDS AMQPFrames, AMQPFields, FiniteSets

CONSTANTS
    Scripts,  \* the streams: [to, maxFrame, frames], "client" being the library
    Pieces    \* the numbers of octets that may arrive together

VARIABLES
    to,       \* who parses: "client" (the library) or "server"
    maxFrame, \* ConnectionImpl::_maxFrame of the parser
    unsent,   \* frames not yet given to Frame::buffer()
    out,      \* the OutBuffer under construction, or NoBuffer
    wire,     \* octets sent and not yet arrived
    buffer,   \* octets arrived and not yet processed by parse()
    sent,     \* history: frames handed to the network
    received, \* history: frames constructed and processed by the parser
    state     \* "open", or "closed" once parse() has reported an error

vars == <<to, maxFrame, unsent, out, wire, buffer, sent, received, state>>

NoBuffer == [capacity |-> 0, octets |-> <<>>, left |-> <<>>, frame |-> <<>>]

----------------------------------------------------------------------------
\* MetaData (metadata.h): its value is the function of the properties set.
PropertyType ==
    [p \in {"expiration", "replyTo", "correlationID", "contentEncoding",
            "contentType", "clusterID", "appID", "userID", "typeName",
            "messageID"} |-> "ShortString"]
    @@ [p \in {"priority", "deliveryMode"} |-> "UOctet"]
    @@ ("headers" :> "Table") @@ ("timestamp" :> "Timestamp")

\* The bit of _bools1 or _bools2 that has...() reads and set...() sets.
PropertyBit ==
    [expiration |-> <<1, 0>>, replyTo |-> <<1, 1>>, correlationID |-> <<1, 2>>,
     priority |-> <<1, 3>>, deliveryMode |-> <<1, 4>>, headers |-> <<1, 5>>,
     contentEncoding |-> <<1, 6>>, contentType |-> <<1, 7>>,
     clusterID |-> <<2, 2>>, appID |-> <<2, 3>>, userID |-> <<2, 4>>,
     typeName |-> <<2, 5>>, timestamp |-> <<2, 6>>, messageID |-> <<2, 7>>]

Bools(n, metadata) ==
    MapThenSumSet(LAMBDA p : 2^PropertyBit[p][2],
                  {p \in DOMAIN metadata : PropertyBit[p][1] = n})

\* Mutant: the flag octets not counted
MetaDataSizeWithoutFlags(metadata) ==
    MapThenSumSet(LAMBDA p : Size(PropertyType[p], metadata[p]),
                  DOMAIN metadata)

MetaDataSize(metadata) ==
    2 + MapThenSumSet(LAMBDA p : Size(PropertyType[p], metadata[p]),
                      DOMAIN metadata)

FillOrder == <<"contentType", "contentEncoding", "headers", "deliveryMode",
               "priority", "correlationID", "replyTo", "expiration",
               "messageID", "timestamp", "typeName", "userID", "appID",
               "clusterID">>

MetaDataFill(metadata) ==
    FoldLeft(LAMBDA octets, p : octets \o Fill(PropertyType[p], metadata[p]),
             <<Bools(1, metadata), Bools(2, metadata)>>,
             SelectSeq(FillOrder, LAMBDA p : p \in DOMAIN metadata))

\* Mutant: two properties read in the order of their bits
ReceiveOrderOfBits ==
    <<"contentType", "contentEncoding", "headers", "deliveryMode",
      "priority", "correlationID", "replyTo", "expiration", "messageID",
      "timestamp", "userID", "typeName", "appID", "clusterID">>

ReceiveOrder == <<"contentType", "contentEncoding", "headers", "deliveryMode",
                  "priority", "correlationID", "replyTo", "expiration",
                  "messageID", "timestamp", "typeName", "userID", "appID",
                  "clusterID">>

MetaDataReceive(octets, skip) ==
    LET bools == NextOctets(octets, skip, 2)
        has(p) == (bools.value[PropertyBit[p][1]] \div 2^PropertyBit[p][2]) % 2
                  = 1
        read(r, p) ==
            AndThen(r, LAMBDA before :
            AndThen(Receive(PropertyType[p], octets, before.skip), LAMBDA field :
                Read(before.value @@ (p :> field.value), field.skip)))
    IN  IF ~bools.ok THEN bools
        ELSE FoldLeft(read, Read(<<>>, bools.skip),
                      SelectSeq(ReceiveOrder, has))

----------------------------------------------------------------------------
\* A frame in flight is [name, channel, values], values for the members of
\* its own class.

\* What a constructor counts for a member: length() of a string or payload,
\* size() of a Table or of an Envelope.
Length(type, value) ==
    CASE type \in {"ShortString", "LongString", "Data"} -> Len(value)
      [] type = "Table" -> Size("Table", value)
      [] type = "MetaData" -> MetaDataSize(value)

PayloadSize(frame) ==
    LET class == Frames[frame.name]
        type(m) == (CHOOSE field \in ToSet(class.fill) : field[2] = m)[1]
    IN  class.octets + MapThenSumSet(LAMBDA m : Length(type(m), frame.values[m]),
                                     class.lengths)

TotalSize(frame) ==
    IF frame.name = "ProtocolHeader" THEN PayloadSize(frame)
                                     ELSE PayloadSize(frame) + 7 + 1

\* The octets fill() adds for one member.
MemberOctets(frame, field) ==
    LET class == Frames[frame.name]
        head == [frameType |-> class.type, frameChannel |-> frame.channel,
                 frameSize |-> PayloadSize(frame), classID |-> class.classID,
                 methodID |-> class.methodID, end |-> 206]
        value == (frame.values @@ head)[field[2]]
    IN  IF field[1] = "MetaData" THEN MetaDataFill(value)
                                 ELSE Fill(field[1], value)

\* ChannelImpl::publish: the method, the header, and the body in chunks no
\* larger than maxPayload() of the connection.
Publish(channel, method, metadata, body, maxPayload) ==
    LET chunks == (Len(body) + maxPayload - 1) \div maxPayload
        chunk(i) == SubSeq(body, (i - 1) * maxPayload + 1,
                           IF i < chunks THEN i * maxPayload ELSE Len(body))
    IN  <<[name |-> "BasicPublish", channel |-> channel, values |-> method],
          [name |-> "BasicHeader", channel |-> channel,
           values |-> [weight |-> 0, bodySize |-> Len(body),
                       metadata |-> metadata]]>>
        \o [i \in 1..chunks |-> [name |-> "Body", channel |-> channel,
                                 values |-> [payload |-> chunk(i)]]]

----------------------------------------------------------------------------
\* Mutant: the end marker not counted as part of the frame
RecognisedLate(octets) ==
    LET size == Number("ULong", SubSeq(octets, 4, 7)) IN
    IF Len(octets) < 8 THEN "partial"
    ELSE IF maxFrame > 0 /\ size > maxFrame - 8 THEN "error"
    ELSE IF Len(octets) <= size + 8 THEN "partial"
    ELSE IF octets[size + 8] # 206 THEN "error"
    ELSE "complete"

\* RECEIVING.  ReceivedFrame's constructor: a frame is "complete" once all of
\* it has arrived, "partial" before, and an error when it is larger than the
\* limit or does not end in 206 (-50 as a signed char).  Type 0 is "partial".
Recognised(octets) ==
    LET size == Number("ULong", SubSeq(octets, 4, 7)) IN
    IF Len(octets) < 8 THEN "partial"
    ELSE IF maxFrame > 0 /\ size > maxFrame - 8 THEN "error"
    ELSE IF Len(octets) < size + 8 THEN "partial"
    ELSE IF octets[size + 8] # 206 THEN "error"
    ELSE IF octets[1] = 0 THEN "partial"
    ELSE "complete"

\* The switches of receivedframe.cpp: the class to construct.
ProcessConnectionFrame ==
    10 :> "ConnectionStart" @@ 11 :> "ConnectionStartOK"
    @@ 20 :> "ConnectionSecure" @@ 21 :> "ConnectionSecureOK"
    @@ 30 :> "ConnectionTune" @@ 31 :> "ConnectionTuneOK"
    @@ 40 :> "ConnectionOpen" @@ 41 :> "ConnectionOpenOK"
    @@ 50 :> "ConnectionClose" @@ 51 :> "ConnectionCloseOK"

ProcessChannelFrame ==
    10 :> "ChannelOpen" @@ 11 :> "ChannelOpenOK" @@ 20 :> "ChannelFlow"
    @@ 21 :> "ChannelFlowOK" @@ 40 :> "ChannelClose" @@ 41 :> "ChannelCloseOK"

\* Mutant: the reply to an unbind under the number after its request
ProcessExchangeFrameInSequence ==
    10 :> "ExchangeDeclare" @@ 11 :> "ExchangeDeclareOK"
    @@ 20 :> "ExchangeDelete" @@ 21 :> "ExchangeDeleteOK"
    @@ 30 :> "ExchangeBind" @@ 31 :> "ExchangeBindOK"
    @@ 40 :> "ExchangeUnbind" @@ 41 :> "ExchangeUnbindOK"

ProcessExchangeFrame ==
    10 :> "ExchangeDeclare" @@ 11 :> "ExchangeDeclareOK"
    @@ 20 :> "ExchangeDelete" @@ 21 :> "ExchangeDeleteOK"
    @@ 30 :> "ExchangeBind" @@ 31 :> "ExchangeBindOK"
    @@ 40 :> "ExchangeUnbind" @@ 51 :> "ExchangeUnbindOK"

ProcessQueueFrame ==
    10 :> "QueueDeclare" @@ 11 :> "QueueDeclareOK" @@ 20 :> "QueueBind"
    @@ 21 :> "QueueBindOK" @@ 30 :> "QueuePurge" @@ 31 :> "QueuePurgeOK"
    @@ 40 :> "QueueDelete" @@ 41 :> "QueueDeleteOK" @@ 50 :> "QueueUnbind"
    @@ 51 :> "QueueUnbindOK"

ProcessBasicFrame ==
    10 :> "BasicQos" @@ 11 :> "BasicQosOK" @@ 20 :> "BasicConsume"
    @@ 21 :> "BasicConsumeOK" @@ 30 :> "BasicCancel" @@ 31 :> "BasicCancelOK"
    @@ 40 :> "BasicPublish" @@ 50 :> "BasicReturn" @@ 60 :> "BasicDeliver"
    @@ 70 :> "BasicGet" @@ 71 :> "BasicGetOK" @@ 72 :> "BasicGetEmpty"
    @@ 80 :> "BasicAck" @@ 90 :> "BasicReject" @@ 100 :> "BasicRecoverAsync"
    @@ 110 :> "BasicRecover" @@ 111 :> "BasicRecoverOK" @@ 120 :> "BasicNack"

ProcessTransactionFrame ==
    10 :> "TransactionSelect" @@ 11 :> "TransactionSelectOK"
    @@ 20 :> "TransactionCommit" @@ 21 :> "TransactionCommitOK"
    @@ 30 :> "TransactionRollback" @@ 31 :> "TransactionRollbackOK"

ProcessMethodFrame ==
    10 :> ProcessConnectionFrame @@ 20 :> ProcessChannelFrame
    @@ 40 :> ProcessExchangeFrame @@ 50 :> ProcessQueueFrame
    @@ 60 :> ProcessBasicFrame @@ 90 :> ProcessTransactionFrame

ProcessHeaderFrame == 60 :> "BasicHeader"

\* The number of octets read before the class's own constructor, and its
\* name; "unrecognized" where a switch falls through and throws.
Dispatch(octets) ==
    LET id(n) == Number("UShort", SubSeq(octets, n, n + 1))
        unrecognized == Read("unrecognized", 7)
    IN  CASE octets[1] = 1 ->
                IF /\ id(8) \in DOMAIN ProcessMethodFrame
                   /\ id(10) \in DOMAIN ProcessMethodFrame[id(8)]
                THEN Read(ProcessMethodFrame[id(8)][id(10)], 11)
                ELSE unrecognized
          [] octets[1] = 2 ->
                IF id(8) \in DOMAIN ProcessHeaderFrame
                THEN Read(ProcessHeaderFrame[id(8)], 9)
                ELSE unrecognized
          [] octets[1] = 3 -> Read("Body", 7)
          [] octets[1] \in {4, 8} -> Read("Heartbeat", 7)
          [] OTHER -> unrecognized

\* The receiving constructor of a class: its members in order, the first
\* read out of range throws.
Construct(class, octets, skip) ==
    LET payload == Number("ULong", SubSeq(octets, 4, 7))
        next(type, from) ==
            CASE type = "MetaData" -> MetaDataReceive(octets, from)
              [] type = "Data" -> NextOctets(octets, from, payload)
              [] OTHER -> Receive(type, octets, from)
        read(r, field) ==
            AndThen(r, LAMBDA before :
            AndThen(next(field[1], before.skip), LAMBDA member :
                Read(before.value @@ (field[2] :> member.value), member.skip)))
    IN  FoldLeft(read, Read(<<>>, skip), class.receive)

----------------------------------------------------------------------------
Init ==
    /\ \E script \in Scripts :
          /\ to = script.to
          /\ maxFrame = script.maxFrame
          /\ unsent = script.frames
    /\ out = NoBuffer
    /\ wire = <<>> /\ buffer = <<>>
    /\ sent = <<>> /\ received = <<>>
    /\ state = "open"

\* Frame::buffer() allocates the OutBuffer and calls fill().
NewBuffer ==
    /\ out = NoBuffer /\ unsent # <<>>
    /\ LET frame == Head(unsent)
           class == Frames[frame.name]
           end == IF class.needsSeparator THEN <<UOctet("end")>> ELSE <<>>
       IN  out' = [capacity |-> TotalSize(frame), octets |-> <<>>,
                   left |-> class.fill \o end, frame |-> frame]
    /\ unsent' = Tail(unsent)
    /\ UNCHANGED <<to, maxFrame, wire, buffer, sent, received, state>>

\* OutBuffer::add of the next member: nothing looks at the capacity.
AddMember ==
    /\ out # NoBuffer /\ out.left # <<>>
    /\ out' = [out EXCEPT
                  !.octets = @ \o MemberOctets(out.frame, Head(out.left)),
                  !.left = Tail(@)]
    /\ UNCHANGED <<to, maxFrame, unsent, wire, buffer, sent, received, state>>

\* The buffer is complete and handed to ConnectionHandler::onData.
OnData ==
    /\ out # NoBuffer /\ out.left = <<>>
    /\ wire' = wire \o out.octets
    /\ sent' = Append(sent, out.frame)
    /\ out' = NoBuffer
    /\ UNCHANGED <<to, maxFrame, unsent, buffer, received, state>>

\* The network delivers the next octets.
Arrive ==
    /\ wire # <<>>
    /\ \E piece \in Pieces :
          LET n == IF piece < Len(wire) THEN piece ELSE Len(wire)
          IN  /\ buffer' = buffer \o SubSeq(wire, 1, n)
              /\ wire' = SubSeq(wire, n + 1, Len(wire))
    /\ UNCHANGED <<to, maxFrame, unsent, out, sent, received, state>>

\* One round of the loop of ConnectionImpl::parse that finds a whole frame.
\* The library's process() throws for a class that does not override it.
ParseFrame ==
    /\ state = "open" /\ buffer # <<>> /\ Recognised(buffer) = "complete"
    /\ LET class == Dispatch(buffer)
           size == Number("ULong", SubSeq(buffer, 4, 7)) + 8
           read == IF class.value = "unrecognized" THEN OutOfRange
                   ELSE Construct(Frames[class.value], buffer, class.skip)
           handled == /\ read.ok
                      /\ to = "client" => Frames[class.value].process
                                            # "unimplemented"
       IN  IF handled
           THEN /\ received' = Append(received,
                        [name |-> class.value,
                         channel |-> Number("UShort", SubSeq(buffer, 2, 3)),
                         values |-> read.value])
                /\ buffer' = SubSeq(buffer, size + 1, Len(buffer))
                /\ UNCHANGED state
           ELSE /\ state' = "closed"
                /\ UNCHANGED <<received, buffer>>
    /\ UNCHANGED <<to, maxFrame, unsent, out, wire, sent>>

\* The constructor of ReceivedFrame throws; parse() reports the error.
ParseError ==
    /\ state = "open" /\ buffer # <<>> /\ Recognised(buffer) = "error"
    /\ state' = "closed"
    /\ UNCHANGED <<to, maxFrame, unsent, out, wire, buffer, sent, received>>

Next == NewBuffer \/ AddMember \/ OnData \/ Arrive \/ ParseFrame \/ ParseError

Spec == Init /\ [][Next]_vars

----------------------------------------------------------------------------
TypeOK ==
    /\ to \in {"client", "server"} /\ maxFrame \in Nat
    /\ \A f \in ToSet(unsent \o sent \o received) : f.name \in DOMAIN Frames
    /\ \A octet \in ToSet(wire \o buffer \o out.octets) : octet \in 0..255
    /\ state \in {"open", "closed"}

\* The members that fill() adds never run past the end of the OutBuffer that
\* was allocated from the size the constructor announced, and they fill it:
\* the two computations, in the constructor of every frame class and in the
\* size() and fill() of every field, agree.
FillsItsBuffer ==
    out # NoBuffer => /\ Len(out.octets) <= out.capacity
                      /\ out.left = <<>> => Len(out.octets) = out.capacity

\* However the octets are cut into pieces, parse() constructs the frames that
\* were sent, of the same classes, with the same members, in the same order:
\* a partial frame is never consumed and a whole one is consumed exactly.
ReceivedAsSent == IsPrefix(received, sent)

\* What the two sides have agreed on: no frame above the negotiated limit, and
\* towards the library only classes whose process() it overrides (a server
\* that refuses the version answers with a protocol header, which is none).
Agreed(frame) ==
    /\ maxFrame = 0 \/ TotalSize(frame) <= maxFrame
    /\ to = "client" => Frames[frame.name].process # "unimplemented"

\* parse() reports a protocol error exactly at the first frame that is not
\* agreed on: none is out of range, badly ended or unrecognised because of
\* the way the other side wrote it, and none above the limit gets through.
OnlyUnagreedRejected ==
    /\ \A n \in 1..Len(received) : Agreed(sent[n])
    /\ state = "closed" =>
          /\ Len(received) < Len(sent)
          /\ ~Agreed(sent[Len(received) + 1])

\* Once every octet has arrived and parse() has nothing more to take, every
\* frame handed to the network has been processed, unless an error ended the
\* stream: no frame waits for octets that never come.
EveryFrameArrives ==
    /\ unsent = <<>> /\ out = NoBuffer /\ wire = <<>> /\ state = "open"
    /\ buffer = <<>> \/ Recognised(buffer) = "partial"
    => received = sent /\ buffer = <<>>
=============================================================================
