------------------------ MODULE MyAMQPBufferedConnection ------------------------
(***************************************************************************)
(* MyAMQP/MyAMQPBufferedConnection: a thread, the read loop, that moves     *)
(* bytes from the socket to the buffer and shows the buffer to the parser,  *)
(* and the owner that opens, pauses, resumes and closes it (the thread      *)
(* inside MyAMQPClientImpl's Open, Close, Pause or Resume).                 *)
(***************************************************************************)
EXTENDS MyAMQPCircularBuffer, MyUnixNetworkConnection

CONSTANTS AppendMax,     \* amountToAppendFromRead
          MaxRemainder,  \* the parser leaves at most this much: part of a frame
          MaxConn,       \* a bound of the model: connections
          MaxSent,       \* a bound of the model: bytes sent per connection
          MaxControl     \* a bound of the model: stale control datagrams

ASSUME AppendAssumption == AppendMax \in Nat \ {0}
ASSUME BoundsAssumption == {MaxRemainder, MaxConn, MaxSent, MaxControl} \subseteq Nat
ASSUME ByteAssumption == (1..MaxConn) \X (1..MaxSent) \subseteq Byte

VARIABLES shouldRun,  \* _readShouldRun
          handle,     \* is _readLoopHandle valid?
          owner,      \* where the owner is
          op,         \* the call it is in
          sent,       \* history: bytes the server sent on this connection
          parsed      \* history: the bytes the parser consumed, in order

connVars == <<shouldRun, handle, owner, op, sent, parsed>>
vars == <<bufferVars, netVars, readVars, connVars>>

OwnerPC == {"idle", "connect", "resume", "unblockFlag", "unblockSend",
            "closeFds", "join"}

\* How the read loop can end: told to, or by an exception, which it reports.
Returned == {"exited", "failed"}

ReaderPC == {"none", "while", "testOpen", "select", "selected", "control", "flag",
             "recv", "parse"} \cup Returned

\* The types, and that the indices of the buffer stay within its storage: what
\* AppendBack and ConsumeFront write and read is there.
TypeOK ==
    /\ BufferOK
    /\ {dataOpen, fdOpen, unblock, hostClosed, shouldRun, handle} \subseteq BOOLEAN
    /\ conn \in 0..MaxConn /\ sent \in 0..MaxSent
    /\ control \in 0..MaxControl + 1
    /\ {incoming, parsed} \subseteq Seq(Byte)
    /\ rd \in ReaderPC /\ readSet \subseteq {"control", "data", "failed"}
    /\ owner \in OwnerPC /\ op \in {"none", "open", "close", "pause"}

Init ==
    /\ BufferInit
    /\ NetInit
    /\ shouldRun = FALSE
    /\ handle = FALSE
    /\ owner = "idle"
    /\ op = "none"
    /\ sent = 0
    /\ parsed = <<>>

-----------------------------------------------------------------------------
(* The owner.                                                              *)

\* Close, or the Close that Open begins with.  Nobody resets the buffer.
CloseCall ==
    /\ owner = "idle"
    /\ handle
    /\ shouldRun' = FALSE
    /\ DisconnectFlag
    /\ owner' = "unblockFlag"
    /\ \/ op' = "close"
       \/ op' = "open" /\ conn < MaxConn
    /\ UNCHANGED <<bufferVars, handle, sent, parsed>>

\* Open, when Close has nothing to do.
OpenCall ==
    /\ owner = "idle"
    /\ ~handle
    /\ conn < MaxConn
    /\ owner' = "connect"
    /\ op' = "open"
    /\ UNCHANGED <<bufferVars, netVars, readVars, shouldRun, handle, sent, parsed>>

PauseCall ==
    /\ owner = "idle"
    /\ handle
    /\ control < MaxControl
    /\ shouldRun' = FALSE
    /\ owner' = "unblockFlag"
    /\ op' = "pause"
    /\ UNCHANGED <<bufferVars, netVars, readVars, handle, sent, parsed>>

\* ResumeReadLoop of a paused connection: the consumer resumes what it paused,
\* before anything else is done with the client (Consumer/main.cpp:292-295).
ResumeCall ==
    /\ owner = "idle"
    /\ ~handle
    /\ fdOpen
    /\ owner' = "resume"
    /\ UNCHANGED <<bufferVars, netVars, readVars, shouldRun, handle, op, sent, parsed>>

OwnerUnblockFlag ==
    /\ owner = "unblockFlag"
    /\ UnblockFlag
    /\ owner' = "unblockSend"
    /\ UNCHANGED <<bufferVars, shouldRun, handle, op, sent, parsed>>

\* Mutant: Pause disconnects as Close does.
OwnerUnblockSendCloses ==
    /\ owner = "unblockSend"
    /\ UnblockSend
    /\ owner' = "closeFds"
    /\ UNCHANGED <<bufferVars, shouldRun, handle, op, sent, parsed>>

OwnerUnblockSend ==
    /\ owner = "unblockSend"
    /\ UnblockSend
    /\ owner' = IF op = "pause" THEN "join" ELSE "closeFds"
    /\ UNCHANGED <<bufferVars, shouldRun, handle, op, sent, parsed>>

OwnerCloseFds ==
    /\ owner = "closeFds"
    /\ CloseFds
    /\ owner' = "join"
    /\ UNCHANGED <<bufferVars, shouldRun, handle, op, sent, parsed>>

OwnerJoin ==
    /\ owner = "join"
    /\ rd \in Returned
    /\ handle' = FALSE
    /\ owner' = IF op = "open" THEN "connect" ELSE "idle"
    /\ UNCHANGED <<bufferVars, netVars, readVars, shouldRun, op, sent, parsed>>

OwnerConnect ==
    /\ owner = "connect"
    /\ Connect
    /\ sent' = 0
    /\ owner' = "resume"
    /\ UNCHANGED <<bufferVars, shouldRun, handle, op, parsed>>

\* The flags are set and the loop is launched; nobody runs who could tell apart.
OwnerResume ==
    /\ owner = "resume"
    /\ ResumeRead
    /\ shouldRun' = TRUE
    /\ handle' = TRUE
    /\ rd' = "while"
    /\ owner' = "idle"
    /\ UNCHANGED <<bufferVars, readSet, op, sent, parsed>>

OwnerStep ==
    \/ OwnerUnblockFlag \/ OwnerUnblockSend \/ OwnerCloseFds
    \/ OwnerJoin \/ OwnerConnect \/ OwnerResume

-----------------------------------------------------------------------------
(* The read loop.                                                          *)

\* The test of the while, and of AppendBack, which throws before it reads.
LoopWhile ==
    /\ rd = "while"
    /\ rd' = IF ~shouldRun THEN "exited"
             ELSE IF StorageRequired(AppendMax) > Limit THEN "failed"
             ELSE "testOpen"
    /\ UNCHANGED <<bufferVars, netVars, readSet, connVars>>

LoopSelect ==
    /\ TestOpen \/ Select \/ AfterSelect \/ RecvControl \/ SpuriousControl
    /\ UNCHANGED <<bufferVars, connVars>>

\* Read hands n bytes to AppendBack, which made room for AppendMax of them.
LoopReadData ==
    /\ \E n \in 1..AppendMax :
          /\ RecvData(n)
          /\ AppendBack(SubSeq(incoming, 1, n), AppendMax)
    /\ rd' = "parse"
    /\ readSet' = {}
    /\ UNCHANGED connVars

LoopReadNothing ==
    /\ ReadReturnsNothing
    /\ AppendBack(<<>>, AppendMax)
    /\ rd' = "parse"
    /\ readSet' = {}
    /\ UNCHANGED connVars

LoopReadThrows ==
    /\ SelectFails \/ RecvFails \/ RecvControlFails
    /\ AppendBack(<<>>, AppendMax)
    /\ rd' = "failed"
    /\ readSet' = {}
    /\ UNCHANGED connVars

LoopInterrupted ==
    /\ SelectInterrupted
    /\ UNCHANGED <<bufferVars, connVars>>

\* The parser consumes whole frames, and the buffer what the parser consumed.
LoopParse ==
    /\ rd = "parse"
    /\ \E n \in 0..count :
          /\ count - n <= MaxRemainder
          /\ ConsumeFront(n)
          /\ parsed' = parsed \o SubSeq(Get, 1, n)
    /\ rd' = "while"
    /\ UNCHANGED <<netVars, readSet, shouldRun, handle, owner, op, sent>>

ReaderStep ==
    \/ LoopWhile \/ LoopSelect
    \/ LoopReadData \/ LoopReadNothing \/ LoopReadThrows
    \/ LoopParse

-----------------------------------------------------------------------------
ServerStep ==
    \/ /\ sent < MaxSent
       /\ ServerSend(sent + 1)
       /\ sent' = sent + 1
       /\ UNCHANGED <<bufferVars, shouldRun, handle, owner, op, parsed>>
    \/ ServerClose /\ UNCHANGED <<bufferVars, connVars>>

Next ==
    \/ CloseCall \/ OpenCall \/ PauseCall \/ ResumeCall
    \/ OwnerStep
    \/ ReaderStep \/ LoopInterrupted
    \/ ServerStep

Spec == Init /\ [][Next]_vars

\* Both threads are scheduled, and the parser returns.
FairSpec == Spec /\ WF_vars(OwnerStep) /\ WF_vars(ReaderStep)

-----------------------------------------------------------------------------
(* What must hold.                                                         *)

\* All the bytes the server sent, in the order in which they were or will be
\* parsed: those consumed, those in the buffer, those on the socket.
Stream == parsed \o Get \o incoming

\* b comes right after a on the same connection, or begins a later one.
Follows(a, b) ==
    \/ b[1] = a[1] /\ b[2] = a[2] + 1
    \/ b[1] > a[1] /\ b[2] = 1

\* No byte is lost, repeated or moved on its way to the parser, however often
\* the loop is paused and resumed ("without losing any messages"): only a close
\* drops bytes, and then all from some point on.
StreamInOrder ==
    /\ \A i \in 1..Len(Stream) - 1 : Follows(Stream[i], Stream[i + 1])
    /\ fdOpen /\ sent > 0 => /\ Stream # <<>>
                             /\ Stream[Len(Stream)] = <<conn, sent>>

\* The read loop reports an error only if there is one: the host closed the
\* connection, the buffer is at its limit, the client disconnects under a Read that
\* has chosen the control socket, or a signal interrupted its select.  No pause and
\* no resume makes it fail.
FailsForAReason ==
    [][rd # "failed" /\ rd' = "failed" =>
          \/ hostClosed \/ ~dataOpen \/ StorageRequired(AppendMax) > Limit
          \/ readSet = {"failed"}]_vars

\* Close, Pause and Open return: UnblockRead always ends a blocked select.
OwnerReturns == owner # "idle" ~> owner = "idle"

\* A datagram left over from an earlier pause does not keep data from being read.
DataIsRead ==
    incoming # <<>> ~> incoming = <<>> \/ ~shouldRun \/ rd = "failed"
=============================================================================
