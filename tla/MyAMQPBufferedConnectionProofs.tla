--------------------- MODULE MyAMQPBufferedConnectionProofs ---------------------
(***************************************************************************)
(* What TLAPS proves of MyAMQPBufferedConnection, for any storage, any      *)
(* chunks and any number of connections, bytes and stale datagrams: the    *)
(* types, that the parser sees the stream in order, and that the read loop *)
(* fails only for a reason.  The buffer is used through the two theorems   *)
(* about its methods and nothing else.                                     *)
(***************************************************************************)
EXTENDS MyAMQPBufferedConnection, SequenceTheorems, TLAPS

-----------------------------------------------------------------------------
(* MyAMQPCircularBuffer: what its two methods do to the bytes the parser   *)
(* sees, for any storage, any indices and any chunk.  The buffer is a FIFO *)
(* queue of bytes, and its indices stay inside the storage.                *)

\* The part of a sequence of bytes that starts after index a and is n long.
LEMMA PartIsSeq ==
    ASSUME NEW s \in Seq(Byte), NEW a \in Nat, NEW n \in Nat, a + n <= Len(s)
    PROVE  /\ [i \in 1..n |-> s[a + i]] \in Seq(Byte)
           /\ Len([i \in 1..n |-> s[a + i]]) = n
<1>1. \A i \in 1..n : s[a + i] \in Byte
  BY ElementOfSeq, LenProperties
<1> QED
  BY <1>1, IsASeq

\* What Get shows is a sequence of bytes, as long as Count says.
LEMMA GetIsSeq ==
    ASSUME BufferOK
    PROVE  Get \in Seq(Byte) /\ Len(Get) = count
BY PartIsSeq, SMTT(30) DEF BufferOK, Get

\* AppendBack: the storage stays large enough, and the parser will see what it
\* saw before followed by exactly the bytes that were read.
THEOREM AppendBackAppends ==
    ASSUME BufferOK,
           NEW maxLen \in Nat, NEW bytes \in Seq(Byte), Len(bytes) <= maxLen,
           AppendBack(bytes, maxLen)
    PROVE  BufferOK' /\ Get' = Get \o bytes
<1> DEFINE size == IF maxLen > AvailableForAppend
                   THEN StorageRequired(maxLen) ELSE Len(storage)
<1> USE DEF BufferOK, End
<1>1. Len(bytes) \in Nat /\ Len(storage) \in Nat
  BY LenProperties
<1>2. size \in Nat /\ End + Len(bytes) <= size /\ Len(storage) <= size
  BY <1>1 DEF AvailableForAppend, StorageRequired
<1>3. storage' = [i \in 1..size |->
                     IF i \in End + 1..End + Len(bytes) THEN bytes[i - End]
                     ELSE IF i <= Len(storage) THEN storage[i] ELSE Fill]
  BY DEF AppendBack
<1>4. count' = count + Len(bytes) /\ startIndex' = startIndex
  BY DEF AppendBack
<1>5. \A i \in 1..size :
         (IF i \in End + 1..End + Len(bytes) THEN bytes[i - End]
          ELSE IF i <= Len(storage) THEN storage[i] ELSE Fill) \in Byte
  <2> TAKE i \in 1..size
  <2>1. CASE i \in End + 1..End + Len(bytes)
    <3>1. i - End \in 1..Len(bytes)
      BY <2>1, <1>1
    <3> QED
      BY <2>1, <3>1, ElementOfSeq
  <2>2. CASE i \notin End + 1..End + Len(bytes) /\ i <= Len(storage)
    BY <2>2, <1>1, <1>2, ElementOfSeq
  <2>3. CASE i \notin End + 1..End + Len(bytes) /\ ~(i <= Len(storage))
    BY <2>3, FillAssumption
  <2> QED
    BY <2>1, <2>2, <2>3
<1> HIDE DEF size
<1>6. storage' \in Seq(Byte) /\ Len(storage') = size
  BY <1>2, <1>3, <1>5, IsASeq
<1>7. BufferOK'
  BY <1>1, <1>2, <1>4, <1>6
<1>8. /\ Get \in Seq(Byte) /\ Len(Get) = count
      /\ Get' \in Seq(Byte) /\ Len(Get') = count'
  <2>1. Get \in Seq(Byte) /\ Len(Get) = count
    BY GetIsSeq
  <2>2. Get' \in Seq(Byte) /\ Len(Get') = count'
    BY <1>7, PartIsSeq, SMTT(30) DEF Get
  <2> QED
    BY <2>1, <2>2
<1>9. \A i \in 1..count' : Get'[i] = (Get \o bytes)[i]
  <2> TAKE i \in 1..count'
  <2>1. Get'[i] = storage'[startIndex + i] /\ startIndex + i \in 1..size
    BY <1>1, <1>2, <1>4 DEF Get
  <2>2. CASE i \in 1..count
    <3>1. Get'[i] = storage[startIndex + i]
      BY <2>1, <2>2, <1>1, <1>3
    <3>2. (Get \o bytes)[i] = Get[i]
      BY <2>2, <1>8, ConcatProperties
    <3> QED
      BY <3>1, <3>2, <2>2 DEF Get
  <2>3. CASE i \in count + 1..count + Len(bytes)
    <3>1. Get'[i] = bytes[i - count]
      BY <2>1, <2>3, <1>1, <1>3
    <3>2. (Get \o bytes)[i] = bytes[i - count]
      BY <2>3, <1>1, <1>8, ConcatProperties
    <3> QED
      BY <3>1, <3>2
  <2>4. i \in 1..count \/ i \in count + 1..count + Len(bytes)
    <3>1. i \in 1..count + Len(bytes) /\ count \in Nat
      BY <1>4
    <3> QED
      BY <3>1, <1>1
  <2> QED
    BY <2>2, <2>3, <2>4
<1>10. Get \o bytes \in Seq(Byte) /\ Len(Get \o bytes) = count'
  <2>1. /\ Get \o bytes \in Seq(Byte)
        /\ Len(Get \o bytes) = Len(Get) + Len(bytes)
    BY <1>8, ConcatProperties
  <2> QED
    BY <2>1, <1>4, <1>8
<1>11. Get' = Get \o bytes
  BY <1>8, <1>9, <1>10, SeqEqual
<1> QED
  BY <1>7, <1>11

\* ConsumeFront: the parser will see what it saw before without its first bytes,
\* whether or not the indices wrapped.
THEOREM ConsumeFrontRemoves ==
    ASSUME BufferOK, NEW bytes \in Nat, ConsumeFront(bytes)
    PROVE  /\ BufferOK'
           /\ Len(Get') = Len(Get) - bytes
           /\ \A i \in 1..Len(Get') : Get'[i] = Get[bytes + i]
<1> USE DEF BufferOK, ConsumeFront
<1>1. Len(storage) \in Nat
  BY LenProperties
<1>2. BufferOK'
  BY <1>1
<1>3. Len(Get) = count /\ Len(Get') = count'
  BY <1>2, PartIsSeq, SMTT(30) DEF Get
<1>4. \A i \in 1..count' : Get'[i] = Get[bytes + i]
  BY <1>1 DEF Get
<1> QED
  BY <1>2, <1>3, <1>4

-----------------------------------------------------------------------------
(* Sequences that are cut and joined.                                      *)

\* A sequence is its first n elements and the rest.
LEMMA CutInTwo ==
    ASSUME NEW S, NEW s \in Seq(S), NEW n \in 0..Len(s)
    PROVE  /\ SubSeq(s, 1, n) \in Seq(S)
           /\ Len(SubSeq(s, 1, n)) = n
           /\ SubSeq(s, n + 1, Len(s)) \in Seq(S)
           /\ s = SubSeq(s, 1, n) \o SubSeq(s, n + 1, Len(s))
<1>1. Len(s) \in Nat
  BY LenProperties
<1>2. \A i \in 1..Len(s) : s[i] \in S
  BY ElementOfSeq
<1>3. SubSeq(s, 1, n) \in Seq(S) /\ Len(SubSeq(s, 1, n)) = n
  BY <1>1, <1>2, SubSeqProperties
<1>4. SubSeq(s, n + 1, Len(s)) \in Seq(S)
  BY <1>1, <1>2, SubSeqProperties
<1>5. SubSeq(s, 1, n) \o SubSeq(s, n + 1, Len(s)) = SubSeq(s, 1, Len(s))
  <2>1. /\ 1 \in 1..Len(s) + 1
        /\ n \in 1 - 1..Len(s)
        /\ Len(s) \in n..Len(s)
    BY <1>1
  <2> QED
    BY <2>1, ConcatAdjacentSubSeq
<1> QED
  BY <1>3, <1>4, <1>5, SubSeqFull

\* Moving the first n elements of the third part of a sequence to the second, or
\* of the second to the first, leaves the sequence as it is.
LEMMA MoveBorder ==
    ASSUME NEW S, NEW s \in Seq(S), NEW t \in Seq(S), NEW n \in 0..Len(t)
    PROVE  (s \o SubSeq(t, 1, n)) \o SubSeq(t, n + 1, Len(t)) = s \o t
<1> DEFINE a == SubSeq(t, 1, n)
           b == SubSeq(t, n + 1, Len(t))
<1>1. a \in Seq(S) /\ b \in Seq(S) /\ t = a \o b
  BY CutInTwo
<1> HIDE DEF a, b
<1>2. (s \o a) \o b = s \o (a \o b)
  BY <1>1, ConcatAssociative, SMTT(30)
<1>3. (s \o a) \o b = s \o t
  BY <1>1, <1>2
<1> QED
  BY <1>3 DEF a, b

\* What follows the first n elements, given by its elements.
LEMMA RestIs ==
    ASSUME NEW S, NEW s \in Seq(S), NEW t \in Seq(S), NEW n \in 0..Len(s),
           Len(t) = Len(s) - n,
           \A i \in 1..Len(t) : t[i] = s[n + i]
    PROVE  t = SubSeq(s, n + 1, Len(s))
<1> DEFINE r == SubSeq(s, n + 1, Len(s))
<1>1. Len(s) \in Nat /\ \A i \in 1..Len(s) : s[i] \in S
  BY LenProperties, ElementOfSeq
<1>2. /\ r \in Seq(S)
      /\ Len(r) = Len(s) - n
      /\ \A i \in 1..Len(s) - n : r[i] = s[n + i]
  <2>1. /\ r \in Seq(S)
        /\ Len(r) = IF n + 1 <= Len(s) THEN Len(s) - (n + 1) + 1 ELSE 0
        /\ \A i \in 1..Len(s) - (n + 1) + 1 : r[i] = s[n + 1 + i - 1]
    BY <1>1, SubSeqProperties
  <2> QED
    BY <1>1, <2>1
<1> HIDE DEF r
<1>3. \A i \in 1..Len(t) : t[i] = r[i]
  BY <1>1, <1>2
<1>4. t = r
  BY <1>2, <1>3, SeqEqual
<1> QED
  BY <1>4 DEF r

-----------------------------------------------------------------------------
(* The types, and where the owner and the reader can be together.          *)

\* While the owner connects or resumes there is no read loop; a close has cleared
\* the flag before it closes the descriptors; and a datagram that the reader
\* goes for is there, unless the descriptors were closed under it.
OwnerInv ==
    /\ ~handle => rd \in {"none"} \cup Returned
    /\ owner \in {"connect", "resume"} => ~handle
    /\ owner = "connect" => op = "open"
    /\ owner = "closeFds" => op # "pause"
    /\ owner \in {"unblockFlag", "unblockSend", "closeFds"} /\ op # "pause"
          => ~dataOpen
    /\ op = "open" /\ owner \notin {"idle", "resume"} => conn < MaxConn
    /\ owner \in {"unblockFlag", "unblockSend"} /\ op = "pause"
          => control < MaxControl
    /\ owner # "closeFds" => control <= MaxControl
    /\ fdOpen => conn # 0
    /\ dataOpen => fdOpen
    /\ fdOpen /\ (rd = "control" \/ (rd = "selected" /\ "control" \in readSet))
          => control # 0

ConnInv == TypeOK /\ OwnerInv

\* The bounds are numbers, one by one.
LEMMA BoundsAreNumbers ==
    MaxConn \in Nat /\ MaxSent \in Nat /\ MaxControl \in Nat
BY BoundsAssumption

\* At first nothing was called.
LEMMA ConnInvInit == Init => ConnInv
<1> SUFFICES ASSUME Init PROVE ConnInv
  OBVIOUS
<1> USE BoundsAreNumbers DEF Init, NetInit, BufferInit
<1>1. BufferOK /\ {incoming, parsed} \subseteq Seq(Byte)
  BY EmptySeq DEF BufferOK
<1>2. TypeOK
  <2>1. conn \in 0..MaxConn /\ sent \in 0..MaxSent /\ control \in 0..MaxControl + 1
    OBVIOUS
  <2> QED
    BY <1>1, <2>1 DEF TypeOK, ReaderPC, Returned, OwnerPC
<1>3. OwnerInv
  BY DEF OwnerInv, Returned
<1> QED
  BY <1>2, <1>3 DEF ConnInv

\* The owner's calls and steps.
LEMMA ConnInvOwner ==
    ASSUME ConnInv,
           CloseCall \/ OpenCall \/ PauseCall \/ ResumeCall \/ OwnerStep
    PROVE  ConnInv'
<1> USE BoundsAreNumbers
    DEF ConnInv, OwnerInv, TypeOK, OwnerPC, ReaderPC, Returned, bufferVars,
        netVars, readVars
<1>1. BufferOK'
  <2>1. UNCHANGED bufferVars
    BY DEF CloseCall, OpenCall, PauseCall, ResumeCall, OwnerStep,
           OwnerUnblockFlag, OwnerUnblockSend, OwnerCloseFds, OwnerJoin,
           OwnerConnect, OwnerResume
  <2> QED
    BY <2>1 DEF BufferOK
<1>2. <<>> \in Seq(Byte)
  BY EmptySeq
<1>3. CASE CloseCall
  BY <1>1, <1>3 DEF CloseCall, DisconnectFlag
<1>4. CASE OpenCall
  BY <1>1, <1>4 DEF OpenCall
<1>5. CASE PauseCall
  BY <1>1, <1>5 DEF PauseCall
<1>6. CASE ResumeCall
  BY <1>1, <1>6 DEF ResumeCall
<1>7. CASE OwnerUnblockFlag
  BY <1>1, <1>7 DEF OwnerUnblockFlag, UnblockFlag
<1>8. CASE OwnerUnblockSend
  BY <1>1, <1>8 DEF OwnerUnblockSend, UnblockSend
<1>9. CASE OwnerCloseFds
  <2> USE <1>9 DEF OwnerCloseFds, CloseFds
  <2>1. {incoming', parsed'} \subseteq Seq(Byte)
    BY <1>2
  <2>2. {dataOpen', fdOpen', unblock', hostClosed', shouldRun', handle'}
           \subseteq BOOLEAN
    OBVIOUS
  <2>3. TypeOK'
    BY <1>1, <2>1, <2>2
  <2>4. OwnerInv'
    OBVIOUS
  <2> QED
    BY <2>3, <2>4
<1>10. CASE OwnerJoin
  BY <1>1, <1>10 DEF OwnerJoin
<1>11. CASE OwnerConnect
  <2> USE <1>11 DEF OwnerConnect, Connect
  <2>1. conn < MaxConn /\ conn' \in 1..MaxConn
    OBVIOUS
  <2>2. {incoming', parsed'} \subseteq Seq(Byte)
    BY <1>2
  <2>3. {dataOpen', fdOpen', unblock', hostClosed', shouldRun', handle'}
           \subseteq BOOLEAN
    OBVIOUS
  <2>4. TypeOK'
    BY <1>1, <2>1, <2>2, <2>3
  <2>5. OwnerInv'
    BY <2>1
  <2> QED
    BY <2>4, <2>5
<1>12. CASE OwnerResume
  BY <1>1, <1>12 DEF OwnerResume, ResumeRead
<1> QED
  BY <1>3, <1>4, <1>5, <1>6, <1>7, <1>8, <1>9, <1>10, <1>11, <1>12 DEF OwnerStep

\* The steps of the read loop up to the recv.
LEMMA ConnInvSelect ==
    ASSUME ConnInv, LoopWhile \/ LoopSelect \/ LoopInterrupted
    PROVE  ConnInv'
<1> USE BoundsAreNumbers
    DEF ConnInv, OwnerInv, TypeOK, OwnerPC, ReaderPC, Returned, bufferVars,
        netVars, connVars
<1>1. BufferOK'
  BY DEF LoopWhile, LoopSelect, LoopInterrupted, BufferOK
<1>2. CASE LoopWhile
  BY <1>1, <1>2 DEF LoopWhile
<1>3. CASE TestOpen /\ UNCHANGED connVars
  BY <1>1, <1>3 DEF TestOpen
<1>4. CASE Select /\ UNCHANGED connVars
  BY <1>1, <1>4 DEF Select, Readable
<1>5. CASE AfterSelect /\ UNCHANGED connVars
  BY <1>1, <1>5 DEF AfterSelect
<1>6. CASE RecvControl /\ UNCHANGED connVars
  <2> USE <1>6 DEF RecvControl
  <2>1. control # 0 /\ control' \in 0..MaxControl + 1 /\ control' <= control
    OBVIOUS
  <2>2. TypeOK'
    BY <1>1, <2>1
  <2>3. OwnerInv'
    BY <2>1
  <2> QED
    BY <2>2, <2>3
<1>7. CASE SpuriousControl /\ UNCHANGED connVars
  BY <1>1, <1>7 DEF SpuriousControl
<1>8. CASE SelectInterrupted /\ UNCHANGED connVars
  BY <1>1, <1>8 DEF SelectInterrupted
<1> QED
  BY <1>2, <1>3, <1>4, <1>5, <1>6, <1>7, <1>8 DEF LoopSelect, LoopInterrupted

\* What recv takes is of the right type, and fits what AppendBack made room for.
LEMMA RecvTakes ==
    ASSUME ConnInv, NEW n \in 1..AppendMax, RecvData(n)
    PROVE  /\ n \in 0..Len(incoming)
           /\ SubSeq(incoming, 1, n) \in Seq(Byte)
           /\ Len(SubSeq(incoming, 1, n)) <= AppendMax
           /\ incoming' \in Seq(Byte)
<1>1. incoming \in Seq(Byte) /\ n \in 0..Len(incoming)
  BY AppendAssumption, LenProperties DEF ConnInv, TypeOK, RecvData
<1> QED
  BY <1>1, CutInTwo, AppendAssumption DEF RecvData

\* The steps of the read loop that change the buffer.
LEMMA ConnInvRead ==
    ASSUME ConnInv,
           LoopReadData \/ LoopReadNothing \/ LoopReadThrows \/ LoopParse
    PROVE  ConnInv'
<1> USE BoundsAreNumbers
    DEF ConnInv, OwnerInv, TypeOK, OwnerPC, ReaderPC, Returned, netVars, connVars
<1>1. CASE LoopReadData
  <2>1. PICK n \in 1..AppendMax :
             RecvData(n) /\ AppendBack(SubSeq(incoming, 1, n), AppendMax)
    BY <1>1 DEF LoopReadData
  <2>2. BufferOK' /\ incoming' \in Seq(Byte)
    BY <2>1, RecvTakes, AppendBackAppends, AppendAssumption
  <2> QED
    BY <1>1, <2>1, <2>2 DEF LoopReadData, RecvData
<1>2. CASE LoopReadNothing \/ LoopReadThrows
  <2>1. AppendBack(<<>>, AppendMax)
    BY <1>2 DEF LoopReadNothing, LoopReadThrows
  <2>2. BufferOK'
    <3>1. <<>> \in Seq(Byte) /\ Len(<<>>) <= AppendMax
      BY EmptySeq, AppendAssumption
    <3> QED
      BY <2>1, <3>1, AppendBackAppends, AppendAssumption
  <2> QED
    BY <1>2, <2>2 DEF LoopReadNothing, LoopReadThrows, ReadReturnsNothing,
                      SelectFails, RecvFails, RecvControlFails
<1>3. CASE LoopParse
  <2>1. PICK n \in 0..count : /\ ConsumeFront(n)
                              /\ parsed' = parsed \o SubSeq(Get, 1, n)
    BY <1>3 DEF LoopParse
  <2>2. BufferOK'
    BY <2>1, ConsumeFrontRemoves DEF BufferOK
  <2>3. Get \in Seq(Byte) /\ Len(Get) = count
    BY LenProperties, PartIsSeq DEF Get, BufferOK
  <2>4. parsed' \in Seq(Byte)
    BY <2>1, <2>3, CutInTwo, ConcatProperties
  <2> QED
    BY <1>3, <2>2, <2>4 DEF LoopParse
<1> QED
  BY <1>1, <1>2, <1>3

\* The server's steps.
LEMMA ConnInvServer ==
    ASSUME ConnInv, ServerStep
    PROVE  ConnInv'
<1> USE BoundsAreNumbers
    DEF ConnInv, OwnerInv, TypeOK, OwnerPC, ReaderPC, Returned, bufferVars,
        connVars, readVars
<1>1. BufferOK'
  BY DEF ServerStep, BufferOK
<1>2. CASE /\ sent < MaxSent /\ ServerSend(sent + 1) /\ sent' = sent + 1
           /\ UNCHANGED <<bufferVars, shouldRun, handle, owner, op, parsed>>
  <2>1. conn \in 1..MaxConn /\ sent + 1 \in 1..MaxSent
    BY <1>2 DEF ServerSend
  <2>2. <<conn, sent + 1>> \in Byte
    BY <2>1, ByteAssumption
  <2>3. incoming' \in Seq(Byte)
    BY <1>2, <2>2, AppendProperties DEF ServerSend
  <2> QED
    BY <1>1, <1>2, <2>3 DEF ServerSend
<1>3. CASE ServerClose /\ UNCHANGED <<bufferVars, connVars>>
  BY <1>1, <1>3 DEF ServerClose
<1> QED
  BY <1>2, <1>3 DEF ServerStep

\* The invariant is inductive.
LEMMA ConnInvNext == ConnInv /\ [Next]_vars => ConnInv'
<1> SUFFICES ASSUME ConnInv, [Next]_vars PROVE ConnInv'
  OBVIOUS
<1>1. CASE UNCHANGED vars
  BY <1>1 DEF ConnInv, OwnerInv, TypeOK, BufferOK, vars, bufferVars, netVars,
              readVars, connVars
<1> QED
  BY <1>1, ConnInvOwner, ConnInvSelect, ConnInvRead, ConnInvServer
     DEF Next, ReaderStep

\* The types, and that AppendBack and ConsumeFront stay inside the storage,
\* whatever the sizes of the chunks and of the frames are.
THEOREM ConnectionTypeCorrect == Spec => []TypeOK
<1>1. ConnInv => TypeOK
  BY DEF ConnInv
<1> QED
  BY <1>1, ConnInvInit, ConnInvNext, PTL DEF Spec

\* The read loop reports an error only if the host has closed, the client
\* disconnects, the buffer is full, or a signal interrupted its select: the
\* descriptors are never closed under a Read of a connection that is meant to stay.
THEOREM LoopFailsForAReason == Spec => FailsForAReason
<1>1. ConnInv /\ [Next]_vars
         => [rd # "failed" /\ rd' = "failed" =>
                \/ hostClosed \/ ~dataOpen \/ StorageRequired(AppendMax) > Limit
                \/ readSet = {"failed"}]_vars
  <2> SUFFICES ASSUME ConnInv, Next, rd # "failed", rd' = "failed"
               PROVE  \/ hostClosed \/ ~dataOpen
                      \/ StorageRequired(AppendMax) > Limit
                      \/ readSet = {"failed"}
    OBVIOUS
  <2>0. StorageRequired(AppendMax) \in Nat /\ Limit \in Nat
    BY AppendAssumption, LimitAssumption
       DEF ConnInv, TypeOK, BufferOK, StorageRequired, End
  <2>1. CASE LoopReadThrows
    BY <2>1 DEF LoopReadThrows, SelectFails, RecvFails, RecvControlFails, ConnInv, OwnerInv
  <2>2. CASE LoopWhile
    BY <2>0, <2>2 DEF LoopWhile
  <2>3. CASE LoopSelect \/ LoopInterrupted \/ LoopReadData \/ LoopReadNothing \/ LoopParse
    BY <2>3 DEF LoopSelect, TestOpen, Select, AfterSelect, RecvControl,
                SpuriousControl, LoopInterrupted, SelectInterrupted, LoopReadData,
                LoopReadNothing, LoopParse
  <2>4. CASE CloseCall \/ OpenCall \/ PauseCall \/ ResumeCall \/ OwnerStep
    BY <2>4 DEF CloseCall, OpenCall, PauseCall, ResumeCall, OwnerStep,
                OwnerUnblockFlag, OwnerUnblockSend, OwnerCloseFds, OwnerJoin,
                OwnerConnect, OwnerResume, DisconnectFlag, UnblockFlag,
                UnblockSend, CloseFds, Connect, readVars
  <2>5. CASE ServerStep
    BY <2>5 DEF ServerStep, ServerSend, ServerClose, readVars
  <2> QED
    BY <2>1, <2>2, <2>3, <2>4, <2>5 DEF Next, ReaderStep
<1> QED
  BY <1>1, ConnInvInit, ConnInvNext, PTL DEF Spec, FailsForAReason

-----------------------------------------------------------------------------
(* The stream.                                                             *)

\* The bytes of the stream come from this connection or an earlier one, and as
\* long as nothing was sent on this one, from an earlier one.
BytesOfConnections ==
    \A i \in 1..Len(Stream) :
        /\ Stream[i][1] \in 1..conn
        /\ fdOpen /\ sent = 0 => Stream[i][1] # conn

StreamInv == StreamInOrder /\ BytesOfConnections

\* The three parts of the stream are sequences of bytes, and so is the stream.
LEMMA StreamParts ==
    ASSUME ConnInv
    PROVE  /\ parsed \in Seq(Byte) /\ Get \in Seq(Byte) /\ incoming \in Seq(Byte)
           /\ Len(Get) = count
           /\ parsed \o Get \in Seq(Byte)
           /\ Stream \in Seq(Byte)
           /\ Len(Stream) \in Nat
<1>1. parsed \in Seq(Byte) /\ incoming \in Seq(Byte)
  BY DEF ConnInv, TypeOK
<1>2. Get \in Seq(Byte) /\ Len(Get) = count
  BY GetIsSeq DEF ConnInv, TypeOK
<1>3. parsed \o Get \in Seq(Byte) /\ (parsed \o Get) \o incoming \in Seq(Byte)
  BY <1>1, <1>2, ConcatProperties
<1> QED
  BY <1>1, <1>2, <1>3, LenProperties DEF Stream

\* recv moves bytes from the socket to the buffer.
LEMMA ReadKeepsStream ==
    ASSUME ConnInv, LoopReadData
    PROVE  Stream' = Stream
<1>1. PICK n \in 1..AppendMax :
           RecvData(n) /\ AppendBack(SubSeq(incoming, 1, n), AppendMax)
  BY DEF LoopReadData
<1>2. Get' = Get \o SubSeq(incoming, 1, n)
  BY <1>1, RecvTakes, AppendBackAppends, AppendAssumption DEF ConnInv, TypeOK
<1>3. incoming' = SubSeq(incoming, n + 1, Len(incoming)) /\ parsed' = parsed
  BY <1>1 DEF RecvData, LoopReadData, connVars
<1>4. n \in 0..Len(incoming) /\ SubSeq(incoming, 1, n) \in Seq(Byte)
  BY <1>1, RecvTakes
<1> DEFINE a == SubSeq(incoming, 1, n)
           b == SubSeq(incoming, n + 1, Len(incoming))
<1>5. Stream' = (parsed \o (Get \o a)) \o b
  BY <1>2, <1>3 DEF Stream
<1>6. a \in Seq(Byte)
  BY <1>4
<1>7. ((parsed \o Get) \o a) \o b = (parsed \o Get) \o incoming
  BY <1>4, StreamParts, MoveBorder
<1> HIDE DEF a, b
<1>8. parsed \in Seq(Byte) /\ Get \in Seq(Byte)
  BY StreamParts
<1>9. parsed \o (Get \o a) = (parsed \o Get) \o a
  BY <1>6, <1>8, ConcatAssociative, SMTT(30)
<1> QED
  BY <1>5, <1>7, <1>9 DEF Stream

\* A read that brings nothing makes room and no more.
LEMMA EmptyReadKeepsStream ==
    ASSUME ConnInv, LoopReadNothing \/ LoopReadThrows
    PROVE  Stream' = Stream
<1>1. AppendBack(<<>>, AppendMax) /\ UNCHANGED <<parsed, incoming>>
  BY DEF LoopReadNothing, LoopReadThrows, ReadReturnsNothing, SelectFails,
         RecvFails, RecvControlFails, netVars, connVars
<1>2. <<>> \in Seq(Byte) /\ Len(<<>>) <= AppendMax /\ AppendMax \in Nat
  BY EmptySeq, AppendAssumption
<1>3. Get' = Get \o <<>>
  BY <1>1, <1>2, AppendBackAppends DEF ConnInv, TypeOK
<1>4. Get' = Get
  BY <1>3, StreamParts, ConcatEmptySeq
<1> QED
  BY <1>1, <1>4 DEF Stream

\* The parser moves bytes from the buffer to what it has parsed.
LEMMA ParseKeepsStream ==
    ASSUME ConnInv, LoopParse
    PROVE  Stream' = Stream
<1>1. PICK n \in 0..count : /\ ConsumeFront(n)
                            /\ parsed' = parsed \o SubSeq(Get, 1, n)
  BY DEF LoopParse
<1>2. incoming' = incoming
  BY DEF LoopParse, netVars
<1>3. n \in 0..Len(Get) /\ Len(Get) \in Nat
  BY StreamParts, LenProperties
<1>4. /\ BufferOK'
      /\ Len(Get') = Len(Get) - n
      /\ \A i \in 1..Len(Get') : Get'[i] = Get[n + i]
  BY <1>1, <1>3, ConsumeFrontRemoves DEF ConnInv, TypeOK
<1>5. Get' \in Seq(Byte)
  BY <1>4, LenProperties, PartIsSeq DEF BufferOK, Get
<1>6. Get' = SubSeq(Get, n + 1, Len(Get))
  BY <1>3, <1>4, <1>5, StreamParts, RestIs
<1>7. parsed' \o Get' = parsed \o Get
  BY <1>1, <1>3, <1>6, StreamParts, MoveBorder
<1> QED
  BY <1>2, <1>7 DEF Stream

\* When the stream stays, so does what is said of it.
LEMMA SameStream ==
    ASSUME StreamInv, UNCHANGED <<Stream, conn, fdOpen, sent>>
    PROVE  StreamInv'
BY DEF StreamInv, StreamInOrder, BytesOfConnections, Follows

\* A byte sent comes after all others: it is the next one of this connection, or
\* its first.
LEMMA SendKeepsOrder ==
    ASSUME ConnInv, StreamInv, sent < MaxSent, ServerSend(sent + 1),
           sent' = sent + 1, UNCHANGED <<bufferVars, parsed>>
    PROVE  StreamInv'
<1> DEFINE b == <<conn, sent + 1>>
           n == Len(Stream)
<1>1. /\ fdOpen /\ fdOpen' /\ conn' = conn
      /\ incoming' = Append(incoming, b)
  BY DEF ServerSend
<1>2. conn \in 1..MaxConn /\ sent \in Nat /\ sent + 1 \in 1..MaxSent
  BY <1>1, BoundsAreNumbers DEF ConnInv, OwnerInv, TypeOK
<1>3. b \in Byte
  BY <1>2, ByteAssumption
<1>4. b[1] = conn /\ b[2] = sent + 1
  OBVIOUS
<1> HIDE DEF b
<1>5. Stream' = Append(Stream, b)
  <2>1. Get' = Get /\ parsed' = parsed
    BY DEF bufferVars, Get
  <2>2. incoming' = incoming \o <<b>> /\ <<b>> \in Seq(Byte)
    BY <1>1, <1>3, StreamParts, AppendIsConcat
  <2>3. Stream' = (parsed \o Get) \o (incoming \o <<b>>)
    BY <2>1, <2>2 DEF Stream
  <2> DEFINE kept == parsed \o Get
             one == <<b>>
  <2>4. kept \in Seq(Byte) /\ incoming \in Seq(Byte) /\ one \in Seq(Byte)
    BY <2>2, StreamParts
  <2>5. Stream' = kept \o (incoming \o one)
    BY <2>3
  <2> HIDE DEF kept, one
  <2>6. kept \o (incoming \o one) = (kept \o incoming) \o one
    BY <2>4, ConcatAssociative, SMTT(30)
  <2>7. Stream' = Stream \o <<b>>
    BY <2>5, <2>6 DEF kept, one, Stream
  <2> QED
    BY <1>3, <2>7, StreamParts, AppendIsConcat
<1>6. /\ Stream' # <<>>
      /\ Len(Stream') = n + 1
      /\ \A i \in 1..n : Stream'[i] = Stream[i]
      /\ Stream'[n + 1] = b
  <2> DEFINE s == Stream
             t == Stream'
  <2>1. s \in Seq(Byte) /\ t = Append(s, b) /\ n = Len(s)
    BY <1>5, StreamParts
  <2> HIDE DEF n, s, t
  <2>2. /\ t # <<>> /\ Len(t) = n + 1
        /\ \A i \in 1..n : t[i] = s[i]
        /\ t[n + 1] = b
    BY ONLY <1>3, <2>1, AppendProperties
  <2> QED
    BY <2>2 DEF s, t
<1>7. n \in Nat
  BY StreamParts
<1> HIDE DEF n
<1>8. ASSUME n # 0 PROVE Follows(Stream[n], b)
  <2>1. CASE sent > 0
    <3>1. Stream[n] = <<conn, sent>>
      BY <1>1, <2>1 DEF StreamInv, StreamInOrder, n
    <3> QED
      BY <1>4, <3>1 DEF Follows
  <2>2. CASE sent = 0
    <3>1. Stream[n][1] \in 1..conn /\ Stream[n][1] # conn
      BY <1>1, <1>7, <1>8, <2>2 DEF StreamInv, BytesOfConnections, n
    <3> QED
      BY <1>2, <1>4, <2>2, <3>1 DEF Follows
  <2> QED
    BY <1>2, <2>1, <2>2
<1>9. \A i \in 1..Len(Stream') - 1 : Follows(Stream'[i], Stream'[i + 1])
  <2> TAKE i \in 1..Len(Stream') - 1
  <2>1. i \in 1..n
    BY <1>6, <1>7
  <2>2. CASE i = n
    BY <1>6, <1>7, <1>8, <2>1, <2>2
  <2>3. CASE i # n
    <3>1. i \in 1..n - 1 /\ i + 1 \in 1..n
      BY <1>7, <2>1, <2>3
    <3>2. Follows(Stream[i], Stream[i + 1])
      BY <3>1 DEF StreamInv, StreamInOrder, n
    <3> QED
      BY <1>6, <2>1, <3>1, <3>2
  <2> QED
    BY <2>2, <2>3
<1>10. Stream'[Len(Stream')] = <<conn', sent'>>
  BY <1>1, <1>6 DEF b
<1>11. BytesOfConnections'
  <2> SUFFICES ASSUME NEW i \in 1..Len(Stream')
               PROVE  Stream'[i][1] \in 1..conn'
    BY <1>2 DEF BytesOfConnections
  <2>1. i \in 1..n \/ i = n + 1
    BY <1>6, <1>7
  <2> QED
    BY <1>1, <1>2, <1>4, <1>6, <2>1 DEF StreamInv, BytesOfConnections, n
<1> QED
  BY <1>6, <1>9, <1>10, <1>11 DEF StreamInv, StreamInOrder

\* What closes the descriptors, or opens new ones, drops the bytes on the socket,
\* which are the last of the stream.
LEMMA DropKeepsOrder ==
    ASSUME ConnInv, StreamInv, UNCHANGED <<bufferVars, parsed>>,
           incoming' = <<>>,
           \/ fdOpen' = FALSE /\ conn' = conn
           \/ sent' = 0 /\ conn' = conn + 1
    PROVE  StreamInv'
<1> DEFINE kept == parsed \o Get
<1>1. kept \in Seq(Byte) /\ Len(kept) \in Nat /\ Stream = kept \o incoming
  BY StreamParts, LenProperties DEF Stream
<1>2. Stream' = kept
  <2>1. Get' = Get /\ parsed' = parsed
    BY DEF bufferVars, Get
  <2>2. Stream' = kept \o <<>>
    BY <2>1 DEF Stream
  <2> QED
    BY <1>1, <2>2, ConcatEmptySeq
<1> HIDE DEF kept
<1>3. /\ Len(kept) <= Len(Stream)
      /\ \A i \in 1..Len(kept) : kept[i] = Stream[i]
  <2>1. Len(incoming) \in Nat
    BY StreamParts, LenProperties
  <2> QED
    BY <1>1, <2>1, StreamParts, ConcatProperties
<1>4. Len(Stream) \in Nat /\ conn \in Nat
  BY StreamParts DEF ConnInv, TypeOK
<1>5. ~(fdOpen' /\ sent' > 0)
  OBVIOUS
<1>6. StreamInOrder'
  <2> SUFFICES ASSUME NEW i \in 1..Len(kept) - 1
               PROVE  Follows(kept[i], kept[i + 1])
    BY <1>2, <1>5 DEF StreamInOrder
  <2>1. /\ i \in 1..Len(kept) /\ i + 1 \in 1..Len(kept)
        /\ i \in 1..Len(Stream) - 1
    BY <1>1, <1>3, <1>4
  <2> QED
    BY <1>3, <2>1 DEF StreamInv, StreamInOrder
<1>7. BytesOfConnections'
  <2> SUFFICES ASSUME NEW i \in 1..Len(kept)
               PROVE  /\ kept[i][1] \in 1..conn'
                      /\ fdOpen' => kept[i][1] # conn'
    BY <1>2 DEF BytesOfConnections
  <2>1. i \in 1..Len(Stream) /\ kept[i][1] \in 1..conn
    BY <1>1, <1>3, <1>4 DEF StreamInv, BytesOfConnections
  <2> QED
    BY <1>4, <2>1
<1> QED
  BY <1>6, <1>7 DEF StreamInv

\* Each step moves a border of the stream, adds at its end, or cuts its end off.
LEMMA StreamInvNext ==
    ASSUME ConnInv, StreamInv, [Next]_vars
    PROVE  StreamInv'
<1>1. CASE UNCHANGED <<bufferVars, parsed, incoming, conn, fdOpen, sent>>
  <2>1. UNCHANGED <<Stream, conn, fdOpen, sent>>
    BY <1>1 DEF bufferVars, Stream, Get
  <2> QED
    BY <2>1, SameStream
<1>2. CASE UNCHANGED vars
  BY <1>1, <1>2 DEF vars, bufferVars, netVars, connVars
<1>3. CASE CloseCall \/ OpenCall \/ PauseCall \/ ResumeCall
  BY <1>1, <1>3 DEF CloseCall, OpenCall, PauseCall, ResumeCall, DisconnectFlag,
                    netVars
<1>4. CASE OwnerUnblockFlag \/ OwnerUnblockSend \/ OwnerJoin \/ OwnerResume
  BY <1>1, <1>4 DEF OwnerUnblockFlag, OwnerUnblockSend, OwnerJoin, OwnerResume,
                    UnblockFlag, UnblockSend, ResumeRead, netVars
<1>5. CASE OwnerCloseFds \/ OwnerConnect
  BY <1>5, DropKeepsOrder DEF OwnerCloseFds, OwnerConnect, CloseFds, Connect
<1>6. CASE LoopWhile \/ LoopSelect \/ LoopInterrupted
  BY <1>1, <1>6 DEF LoopWhile, LoopSelect, TestOpen, Select, AfterSelect,
                    RecvControl, SpuriousControl, LoopInterrupted, SelectInterrupted,
                    netVars, connVars
<1>7. CASE LoopReadData \/ LoopReadNothing \/ LoopReadThrows \/ LoopParse
  <2>1. Stream' = Stream
    BY <1>7, ReadKeepsStream, EmptyReadKeepsStream, ParseKeepsStream
  <2>2. UNCHANGED <<conn, fdOpen, sent>>
    BY <1>7 DEF LoopReadData, LoopReadNothing, LoopReadThrows, LoopParse,
                RecvData, ReadReturnsNothing, SelectFails, RecvFails, RecvControlFails,
                netVars, connVars
  <2> QED
    BY <2>1, <2>2, SameStream
<1>8. CASE ServerStep
  <2>1. CASE ServerClose /\ UNCHANGED <<bufferVars, connVars>>
    BY <1>1, <2>1 DEF ServerClose, connVars
  <2> QED
    BY <1>8, <2>1, SendKeepsOrder DEF ServerStep
<1> QED
  BY <1>2, <1>3, <1>4, <1>5, <1>6, <1>7, <1>8 DEF Next, OwnerStep, ReaderStep

\* The parser sees every byte once and in the order in which the server sent it,
\* through any number of pauses, and a close drops only the end of the stream.
THEOREM StreamArrivesInOrder == Spec => []StreamInOrder
<1>1. Init => StreamInv
  <2> SUFFICES ASSUME Init PROVE StreamInv
    OBVIOUS
  <2>1. parsed = <<>> /\ incoming = <<>> /\ Len(Get) = 0 /\ ~fdOpen
    <3>1. ConnInv /\ count = 0
      BY ConnInvInit DEF Init, BufferInit
    <3> QED
      BY <3>1, StreamParts DEF Init, NetInit
  <2>2. Len(Stream) = 0
    <3>1. ConnInv
      BY ConnInvInit
    <3>2. /\ Len(parsed \o Get) = 0
          /\ Len((parsed \o Get) \o incoming) = 0
      BY <2>1, <3>1, StreamParts, ConcatProperties, EmptySeq
    <3> QED
      BY <3>2 DEF Stream
  <2> QED
    BY <2>1, <2>2 DEF StreamInv, StreamInOrder, BytesOfConnections
<1>2. ConnInv /\ StreamInv /\ [Next]_vars => StreamInv'
  BY StreamInvNext
<1>3. StreamInv => StreamInOrder
  BY DEF StreamInv
<1> QED
  BY <1>1, <1>2, <1>3, ConnInvInit, ConnInvNext, PTL DEF Spec
=============================================================================
