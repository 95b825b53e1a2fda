----------------------------- MODULE AMQPFrames -----------------------------
(***************************************************************************)
(* The frame classes of the AMQP-CPP library (AMQPSTL/src/*frame.h).  A    *)
(* class is a record                                                       *)
(*   type, classID, methodID   what identifies the frame on the wire,      *)
(*   octets, lengths           the payload size its constructor announces: *)
(*                             a number plus the sizes of some members,    *)
(*   fill                      the members fill() adds, in order,          *)
(*   receive                   the members its receiving constructor       *)
(*                             reads, in order,                            *)
(*   synchronous, partOfHandshake, partOfShutdown, needsSeparator          *)
(*                             the virtual functions of frame.h,           *)
(*   process                   the process() it overrides, named for what  *)
(*                             it does; "unimplemented" throws.            *)
(* A base class is an operator, an override an EXCEPT.  fill and receive   *)
(* are kept apart because the library writes them in two places.           *)
(***************************************************************************)
EXTENDS Integers, Sequences

\* A member of a frame and the field type it is declared with.
UOctet(member) == <<"UOctet", member>>
Short(member) == <<"Short", member>>
UShort(member) == <<"UShort", member>>
Long(member) == <<"Long", member>>
ULong(member) == <<"ULong", member>>
LongLong(member) == <<"LongLong", member>>
ULongLong(member) == <<"ULongLong", member>>
ShortString(member) == <<"ShortString", member>>
LongString(member) == <<"LongString", member>>
BooleanSet(member) == <<"BooleanSet", member>>
Table(member) == <<"Table", member>>
MetaData(member) == <<"MetaData", member>>
Data(member) == <<"Data", member>>

----------------------------------------------------------------------------
\* THE BASE CLASSES
Frame(fill, receive) ==
    [type |-> 0, classID |-> 0, methodID |-> 0, octets |-> 0, lengths |-> {},
     fill |-> fill, receive |-> receive, synchronous |-> "never",
     partOfHandshake |-> FALSE, partOfShutdown |-> FALSE,
     needsSeparator |-> TRUE, process |-> "unimplemented"]

ExtFrame(type, octets, lengths, fill, receive) ==
    [Frame(<<UOctet("frameType"), UShort("frameChannel"), ULong("frameSize")>> \o fill,
           receive)
     EXCEPT !.type = type, !.octets = octets, !.lengths = lengths]

MethodFrame(classID, methodID, octets, lengths, fill, receive) ==
    [ExtFrame(1, octets + 4, lengths,
              <<UShort("classID"), UShort("methodID")>> \o fill, receive)
     EXCEPT !.classID = classID, !.methodID = methodID,
            !.synchronous = "always"]

HeaderFrame(classID, octets, lengths, fill, receive) ==
    [ExtFrame(2, octets + 2, lengths, <<UShort("classID")>> \o fill, receive)
     EXCEPT !.classID = classID]

ConnectionFrame(methodID, octets, lengths, fill, receive) ==
    MethodFrame(10, methodID, octets, lengths, fill, receive)
ChannelFrame(methodID, octets, lengths, fill, receive) ==
    MethodFrame(20, methodID, octets, lengths, fill, receive)
ExchangeFrame(methodID, octets, lengths, fill, receive) ==
    MethodFrame(40, methodID, octets, lengths, fill, receive)
QueueFrame(methodID, octets, lengths, fill, receive) ==
    MethodFrame(50, methodID, octets, lengths, fill, receive)
BasicFrame(methodID, octets, lengths, fill, receive) ==
    MethodFrame(60, methodID, octets, lengths, fill, receive)
TransactionFrame(methodID, octets, lengths, fill, receive) ==
    MethodFrame(90, methodID, octets, lengths, fill, receive)

\* The protocol header opens the stream: no type, no end marker.
ProtocolHeaderFrame ==
    [Frame(<<Data("protocol"), UOctet("protocolIDMajor"),
             UOctet("protocolIDMinor"), UOctet("revision")>>,
           <<Data("protocol"), UOctet("protocolIDMajor"),
             UOctet("protocolIDMinor"), UOctet("revision")>>)
     EXCEPT !.octets = 8, !.partOfHandshake = TRUE, !.needsSeparator = FALSE]

----------------------------------------------------------------------------
\* CONNECTION
ConnectionStartFrame ==
    [ConnectionFrame(10, 10, {"properties", "mechanisms", "locales"},
         <<UOctet("major"), UOctet("minor"), Table("properties"),
           LongString("mechanisms"), LongString("locales")>>,
         <<UOctet("major"), UOctet("minor"), Table("properties"),
           LongString("mechanisms"), LongString("locales")>>)
     EXCEPT !.process = "start"]

ConnectionStartOKFrame ==
    [ConnectionFrame(11, 6, {"properties", "mechanism", "response", "locale"},
         <<Table("properties"), ShortString("mechanism"),
           LongString("response"), ShortString("locale")>>,
         <<Table("properties"), ShortString("mechanism"),
           LongString("response"), ShortString("locale")>>)
     EXCEPT !.partOfHandshake = TRUE]

ConnectionSecureFrame ==
    ConnectionFrame(20, 4, {"challenge"},
        <<LongString("challenge")>>,
        <<LongString("challenge")>>)

ConnectionSecureOKFrame ==
    ConnectionFrame(21, 4, {"response"},
        <<LongString("response")>>,
        <<LongString("response")>>)

ConnectionTuneFrame ==
    [ConnectionFrame(30, 8, {},
         <<UShort("channels"), ULong("frameMax"), UShort("heartbeat")>>,
         <<UShort("channels"), ULong("frameMax"), UShort("heartbeat")>>)
     EXCEPT !.process = "tune"]

ConnectionTuneOKFrame ==
    [ConnectionFrame(31, 8, {},
         <<UShort("channels"), ULong("frameMax"), UShort("heartbeat")>>,
         <<UShort("channels"), ULong("frameMax"), UShort("heartbeat")>>)
     EXCEPT !.partOfHandshake = TRUE]

ConnectionOpenFrame ==
    [ConnectionFrame(40, 3, {"vhost"},
         <<ShortString("vhost"), ShortString("deprecatedCapabilities"),
           BooleanSet("deprecatedInsist")>>,
         <<ShortString("vhost"), ShortString("deprecatedCapabilities"),
           BooleanSet("deprecatedInsist")>>)
     EXCEPT !.partOfHandshake = TRUE]

ConnectionOpenOKFrame ==
    [ConnectionFrame(41, 1, {},
         <<ShortString("deprecatedKnownHosts")>>,
         <<ShortString("deprecatedKnownHosts")>>)
     EXCEPT !.process = "connected"]

ConnectionCloseFrame ==
    [ConnectionFrame(50, 7, {"text"},
         <<UShort("code"), ShortString("text"), UShort("failingClass"),
           UShort("failingMethod")>>,
         <<UShort("code"), ShortString("text"), UShort("failingClass"),
           UShort("failingMethod")>>)
     EXCEPT !.partOfShutdown = TRUE, !.process = "connectionError"]

ConnectionCloseOKFrame ==
    [ConnectionFrame(51, 0, {}, <<>>, <<>>)
     EXCEPT !.process = "connectionClosed"]

----------------------------------------------------------------------------
\* CHANNEL
ChannelOpenFrame ==
    ChannelFrame(10, 1, {},
        <<ShortString("unused")>>,
        <<ShortString("unused")>>)

ChannelOpenOKFrame ==
    [ChannelFrame(11, 4, {},
         <<LongString("unused")>>,
         <<LongString("unused")>>)
     EXCEPT !.process = "ready"]

ChannelFlowFrame ==
    ChannelFrame(20, 1, {},
        <<BooleanSet("active")>>,
        <<BooleanSet("active")>>)

ChannelFlowOKFrame ==
    [ChannelFrame(21, 1, {},
         <<BooleanSet("active")>>,
         <<BooleanSet("active")>>)
     EXCEPT !.process = "success"]

ChannelCloseFrame ==
    [ChannelFrame(40, 7, {"text"},
         <<Short("code"), ShortString("text"), Short("failingClass"),
           Short("failingMethod")>>,
         <<Short("code"), ShortString("text"), Short("failingClass"),
           Short("failingMethod")>>)
     EXCEPT !.process = "channelError"]

ChannelCloseOKFrame ==
    [ChannelFrame(41, 0, {}, <<>>, <<>>)
     EXCEPT !.process = "channelClosed"]

----------------------------------------------------------------------------
\* EXCHANGE
ExchangeDeclareFrame ==
    [ExchangeFrame(10, 5, {"name", "type", "arguments"},
         <<UShort("deprecated"), ShortString("name"), ShortString("type"),
           BooleanSet("bools"), Table("arguments")>>,
         <<UShort("deprecated"), ShortString("name"), ShortString("type"),
           BooleanSet("bools"), Table("arguments")>>)
     EXCEPT !.synchronous = "unless noWait"]

ExchangeDeclareOKFrame ==
    [ExchangeFrame(11, 0, {}, <<>>, <<>>)
     EXCEPT !.process = "success"]

ExchangeDeleteFrame ==
    [ExchangeFrame(20, 4, {"name"},
         <<UShort("deprecated"), ShortString("name"), BooleanSet("bools")>>,
         <<UShort("deprecated"), ShortString("name"), BooleanSet("bools")>>)
     EXCEPT !.synchronous = "unless noWait"]

ExchangeDeleteOKFrame ==
    [ExchangeFrame(21, 0, {}, <<>>, <<>>)
     EXCEPT !.process = "success"]

ExchangeBindFrame ==
    [ExchangeFrame(30, 6, {"destination", "source", "routingKey", "arguments"},
         <<UShort("reserved"), ShortString("destination"),
           ShortString("source"), ShortString("routingKey"),
           BooleanSet("bools"), Table("arguments")>>,
         <<UShort("reserved"), ShortString("destination"),
           ShortString("source"), ShortString("routingKey"),
           BooleanSet("bools"), Table("arguments")>>)
     EXCEPT !.synchronous = "unless noWait"]

ExchangeBindOKFrame ==
    [ExchangeFrame(31, 0, {}, <<>>, <<>>)
     EXCEPT !.process = "success"]

ExchangeUnbindFrame ==
    [ExchangeFrame(40, 6, {"destination", "source", "routingKey", "arguments"},
         <<UShort("reserved"), ShortString("destination"),
           ShortString("source"), ShortString("routingKey"),
           BooleanSet("bools"), Table("arguments")>>,
         <<UShort("reserved"), ShortString("destination"),
           ShortString("source"), ShortString("routingKey"),
           BooleanSet("bools"), Table("arguments")>>)
     EXCEPT !.synchronous = "unless noWait"]

ExchangeUnbindOKFrame ==
    [ExchangeFrame(51, 0, {}, <<>>, <<>>)
     EXCEPT !.process = "success"]

----------------------------------------------------------------------------
\* QUEUE
QueueDeclareFrame ==
    [QueueFrame(10, 4, {"name", "arguments"},
         <<Short("deprecated"), ShortString("name"), BooleanSet("bools"),
           Table("arguments")>>,
         <<Short("deprecated"), ShortString("name"), BooleanSet("bools"),
           Table("arguments")>>)
     EXCEPT !.synchronous = "unless noWait"]

QueueDeclareOKFrame ==
    [QueueFrame(11, 9, {"name"},
         <<ShortString("name"), Long("messageCount"), Long("consumerCount")>>,
         <<ShortString("name"), Long("messageCount"), Long("consumerCount")>>)
     EXCEPT !.process = "success"]

QueueBindFrame ==
    [QueueFrame(20, 6, {"name", "exchange", "routingKey", "arguments"},
         <<UShort("deprecated"), ShortString("name"),
           ShortString("exchange"), ShortString("routingKey"),
           BooleanSet("noWait"), Table("arguments")>>,
         <<UShort("deprecated"), ShortString("name"),
           ShortString("exchange"), ShortString("routingKey"),
           BooleanSet("noWait"), Table("arguments")>>)
     EXCEPT !.synchronous = "unless noWait"]

QueueBindOKFrame ==
    [QueueFrame(21, 0, {}, <<>>, <<>>)
     EXCEPT !.process = "success"]

QueuePurgeFrame ==
    [QueueFrame(30, 4, {"name"},
         <<Short("deprecated"), ShortString("name"), BooleanSet("noWait")>>,
         <<Short("deprecated"), ShortString("name"), BooleanSet("noWait")>>)
     EXCEPT !.synchronous = "unless noWait"]

QueuePurgeOKFrame ==
    [QueueFrame(31, 4, {},
         <<Long("messageCount")>>,
         <<Long("messageCount")>>)
     EXCEPT !.process = "success"]

QueueDeleteFrame ==
    [QueueFrame(40, 4, {"name"},
         <<Short("deprecated"), ShortString("name"), BooleanSet("bools")>>,
         <<Short("deprecated"), ShortString("name"), BooleanSet("bools")>>)
     EXCEPT !.synchronous = "unless noWait"]

QueueDeleteOKFrame ==
    [QueueFrame(41, 4, {},
         <<Long("messageCount")>>,
         <<Long("messageCount")>>)
     EXCEPT !.process = "success"]

QueueUnbindFrame ==
    QueueFrame(50, 5, {"name", "exchange", "routingKey", "arguments"},
        <<Short("deprecated"), ShortString("name"), ShortString("exchange"),
          ShortString("routingKey"), Table("arguments")>>,
        <<Short("deprecated"), ShortString("name"), ShortString("exchange"),
          ShortString("routingKey"), Table("arguments")>>)

QueueUnbindOKFrame ==
    [QueueFrame(51, 0, {}, <<>>, <<>>)
     EXCEPT !.process = "success"]

----------------------------------------------------------------------------
\* BASIC
BasicQosFrame ==
    BasicFrame(10, 7, {},
        <<Long("prefetchSize"), Short("prefetchCount"),
          BooleanSet("global")>>,
        <<Long("prefetchSize"), Short("prefetchCount"),
          BooleanSet("global")>>)

BasicQosOKFrame ==
    [BasicFrame(11, 0, {}, <<>>, <<>>)
     EXCEPT !.process = "success"]

BasicConsumeFrame ==
    [BasicFrame(20, 5, {"queueName", "consumerTag", "filter"},
         <<UShort("deprecated"), ShortString("queueName"),
           ShortString("consumerTag"), BooleanSet("bools"), Table("filter")>>,
         <<UShort("deprecated"), ShortString("queueName"),
           ShortString("consumerTag"), BooleanSet("bools"), Table("filter")>>)
     EXCEPT !.synchronous = "unless noWait"]

BasicConsumeOKFrame ==
    [BasicFrame(21, 1, {"consumerTag"},
         <<ShortString("consumerTag")>>,
         <<ShortString("consumerTag")>>)
     EXCEPT !.process = "success"]

BasicCancelFrame ==
    [BasicFrame(30, 2, {"consumerTag"},
         <<ShortString("consumerTag"), BooleanSet("noWait")>>,
         <<ShortString("consumerTag"), BooleanSet("noWait")>>)
     EXCEPT !.synchronous = "unless noWait"]

BasicCancelOKFrame ==
    [BasicFrame(31, 1, {"consumerTag"},
         <<ShortString("consumerTag")>>,
         <<ShortString("consumerTag")>>)
     EXCEPT !.process = "success"]

BasicPublishFrame ==
    [BasicFrame(40, 5, {"exchange", "routingKey"},
         <<Short("deprecated"), ShortString("exchange"),
           ShortString("routingKey"), BooleanSet("bools")>>,
         <<Short("deprecated"), ShortString("exchange"),
           ShortString("routingKey"), BooleanSet("bools")>>)
     EXCEPT !.synchronous = "never"]

BasicReturnFrame ==
    [BasicFrame(50, 5, {"replyText", "exchange", "routingKey"},
         <<Short("replyCode"), ShortString("replyText"),
           ShortString("exchange"), ShortString("routingKey")>>,
         <<Short("replyCode"), ShortString("replyText"),
           ShortString("exchange"), ShortString("routingKey")>>)
     EXCEPT !.synchronous = "never", !.process = "ignored"]

BasicDeliverFrame ==
    [BasicFrame(60, 12, {"consumerTag", "exchange", "routingKey"},
         <<ShortString("consumerTag"), ULongLong("deliveryTag"),
           BooleanSet("redelivered"), ShortString("exchange"),
           ShortString("routingKey")>>,
         <<ShortString("consumerTag"), ULongLong("deliveryTag"),
           BooleanSet("redelivered"), ShortString("exchange"),
           ShortString("routingKey")>>)
     EXCEPT !.synchronous = "never", !.process = "delivered"]

BasicGetFrame ==
    BasicFrame(70, 4, {"queue"},
        <<UShort("deprecated"), ShortString("queue"), BooleanSet("noAck")>>,
        <<UShort("deprecated"), ShortString("queue"), BooleanSet("noAck")>>)

BasicGetOKFrame ==
    [BasicFrame(71, 15, {"exchange", "routingKey"},
         <<ULongLong("deliveryTag"), BooleanSet("redelivered"),
           ShortString("exchange"), ShortString("routingKey"),
           ULong("messageCount")>>,
         <<ULongLong("deliveryTag"), BooleanSet("redelivered"),
           ShortString("exchange"), ShortString("routingKey"),
           ULong("messageCount")>>)
     EXCEPT !.process = "got"]

BasicGetEmptyFrame ==
    [BasicFrame(72, 1, {},
         <<ShortString("deprecated")>>,
         <<ShortString("deprecated")>>)
     EXCEPT !.process = "success"]

BasicAckFrame ==
    [BasicFrame(80, 9, {},
         <<ULongLong("deliveryTag"), BooleanSet("multiple")>>,
         <<ULongLong("deliveryTag"), BooleanSet("multiple")>>)
     EXCEPT !.synchronous = "never"]

BasicRejectFrame ==
    [BasicFrame(90, 9, {},
         <<LongLong("deliveryTag"), BooleanSet("requeue")>>,
         <<LongLong("deliveryTag"), BooleanSet("requeue")>>)
     EXCEPT !.synchronous = "never"]

BasicRecoverAsyncFrame ==
    [BasicFrame(100, 1, {},
         <<BooleanSet("requeue")>>,
         <<BooleanSet("requeue")>>)
     EXCEPT !.synchronous = "never"]

BasicRecoverFrame ==
    [BasicFrame(110, 1, {},
         <<BooleanSet("requeue")>>,
         <<BooleanSet("requeue")>>)
     EXCEPT !.synchronous = "never"]

BasicRecoverOKFrame ==
    [BasicFrame(111, 0, {}, <<>>, <<>>)
     EXCEPT !.process = "recovered"]

BasicNackFrame ==
    BasicFrame(120, 9, {},
        <<ULongLong("deliveryTag"), BooleanSet("bits")>>,
        <<ULongLong("deliveryTag"), BooleanSet("bits")>>)

----------------------------------------------------------------------------
\* TRANSACTION
TransactionSelectFrame ==
    TransactionFrame(10, 0, {}, <<>>, <<>>)

TransactionSelectOKFrame ==
    [TransactionFrame(11, 0, {}, <<>>, <<>>)
     EXCEPT !.process = "success"]

TransactionCommitFrame ==
    TransactionFrame(20, 0, {}, <<>>, <<>>)

TransactionCommitOKFrame ==
    [TransactionFrame(21, 0, {}, <<>>, <<>>)
     EXCEPT !.process = "success"]

TransactionRollbackFrame ==
    TransactionFrame(30, 0, {}, <<>>, <<>>)

TransactionRollbackOKFrame ==
    [TransactionFrame(31, 0, {}, <<>>, <<>>)
     EXCEPT !.process = "success"]

----------------------------------------------------------------------------
\* CONTENT AND HEARTBEAT
BasicHeaderFrame ==
    [HeaderFrame(60, 10, {"metadata"},
         <<UShort("weight"), ULongLong("bodySize"), MetaData("metadata")>>,
         <<UShort("weight"), ULongLong("bodySize"), MetaData("metadata")>>)
     EXCEPT !.process = "header"]

BodyFrame ==
    [ExtFrame(3, 0, {"payload"},
         <<Data("payload")>>,
         <<Data("payload")>>)
     EXCEPT !.process = "body"]

HeartbeatFrame ==
    [ExtFrame(8, 0, {}, <<>>, <<>>)
     EXCEPT !.process = "heartbeat"]

----------------------------------------------------------------------------
\* The classes by name.
Frames ==
    [ConnectionStart |-> ConnectionStartFrame,
     ConnectionStartOK |-> ConnectionStartOKFrame,
     ConnectionSecure |-> ConnectionSecureFrame,
     ConnectionSecureOK |-> ConnectionSecureOKFrame,
     ConnectionTune |-> ConnectionTuneFrame,
     ConnectionTuneOK |-> ConnectionTuneOKFrame,
     ConnectionOpen |-> ConnectionOpenFrame,
     ConnectionOpenOK |-> ConnectionOpenOKFrame,
     ConnectionClose |-> ConnectionCloseFrame,
     ConnectionCloseOK |-> ConnectionCloseOKFrame,
     ChannelOpen |-> ChannelOpenFrame,
     ChannelOpenOK |-> ChannelOpenOKFrame,
     ChannelFlow |-> ChannelFlowFrame,
     ChannelFlowOK |-> ChannelFlowOKFrame,
     ChannelClose |-> ChannelCloseFrame,
     ChannelCloseOK |-> ChannelCloseOKFrame,
     ExchangeDeclare |-> ExchangeDeclareFrame,
     ExchangeDeclareOK |-> ExchangeDeclareOKFrame,
     ExchangeDelete |-> ExchangeDeleteFrame,
     ExchangeDeleteOK |-> ExchangeDeleteOKFrame,
     ExchangeBind |-> ExchangeBindFrame,
     ExchangeBindOK |-> ExchangeBindOKFrame,
     ExchangeUnbind |-> ExchangeUnbindFrame,
     ExchangeUnbindOK |-> ExchangeUnbindOKFrame,
     QueueDeclare |-> QueueDeclareFrame,
     QueueDeclareOK |-> QueueDeclareOKFrame,
     QueueBind |-> QueueBindFrame,
     QueueBindOK |-> QueueBindOKFrame,
     QueuePurge |-> QueuePurgeFrame,
     QueuePurgeOK |-> QueuePurgeOKFrame,
     QueueDelete |-> QueueDeleteFrame,
     QueueDeleteOK |-> QueueDeleteOKFrame,
     QueueUnbind |-> QueueUnbindFrame,
     QueueUnbindOK |-> QueueUnbindOKFrame,
     BasicQos |-> BasicQosFrame,
     BasicQosOK |-> BasicQosOKFrame,
     BasicConsume |-> BasicConsumeFrame,
     BasicConsumeOK |-> BasicConsumeOKFrame,
     BasicCancel |-> BasicCancelFrame,
     BasicCancelOK |-> BasicCancelOKFrame,
     BasicPublish |-> BasicPublishFrame,
     BasicReturn |-> BasicReturnFrame,
     BasicDeliver |-> BasicDeliverFrame,
     BasicGet |-> BasicGetFrame,
     BasicGetOK |-> BasicGetOKFrame,
     BasicGetEmpty |-> BasicGetEmptyFrame,
     BasicAck |-> BasicAckFrame,
     BasicReject |-> BasicRejectFrame,
     BasicRecoverAsync |-> BasicRecoverAsyncFrame,
     BasicRecover |-> BasicRecoverFrame,
     BasicRecoverOK |-> BasicRecoverOKFrame,
     BasicNack |-> BasicNackFrame,
     TransactionSelect |-> TransactionSelectFrame,
     TransactionSelectOK |-> TransactionSelectOKFrame,
     TransactionCommit |-> TransactionCommitFrame,
     TransactionCommitOK |-> TransactionCommitOKFrame,
     TransactionRollback |-> TransactionRollbackFrame,
     TransactionRollbackOK |-> TransactionRollbackOKFrame,
     BasicHeader |-> BasicHeaderFrame,
     Body |-> BodyFrame,
     Heartbeat |-> HeartbeatFrame,
     ProtocolHeader |-> ProtocolHeaderFrame]
=============================================================================
