-------------------------- MODULE MyAMQPCircularBuffer --------------------------
(***************************************************************************)
(* The read buffer (MyAMQP/MyAMQPCircularBuffer).  Bytes are appended after *)
(* the ones that wait for the parser and consumed from the front; the       *)
(* indices go back to the start of the storage only when everything was     *)
(* consumed.  One thread uses it, the read loop, so each method is one step. *)
(*                                                                         *)
(* No Next: the read loop of MyAMQPBufferedConnection calls the actions.   *)
(***************************************************************************)
EXTENDS Naturals, Sequences

CONSTANTS Byte,    \* what a byte of the storage can be
          Fill,    \* what resize fills new storage with
          Limit    \* max_size() of the storage

ASSUME FillAssumption == Fill \in Byte
ASSUME LimitAssumption == Limit \in Nat

VARIABLES storage,     \* _buffer
          startIndex,  \* _startIndex
          count        \* _count

bufferVars == <<storage, startIndex, count>>

BufferInit ==
    /\ storage = <<>>
    /\ startIndex = 0
    /\ count = 0

\* Nothing is ever read or written outside of the storage.
BufferOK ==
    /\ storage \in Seq(Byte)
    /\ startIndex \in Nat
    /\ count \in Nat
    /\ startIndex + count <= Len(storage)

-----------------------------------------------------------------------------
\* What Get and Count show to the parser.
Get == [i \in 1..count |-> storage[startIndex + i]]

End == startIndex + count

AvailableForAppend == Len(storage) - End

StorageRequired(maxLen) == End + maxLen

\* The read function stored bytes, of which there are at most maxLen, after End.
\* When the required storage exceeds the limit AppendBack throws before it reads.
AppendBack(bytes, maxLen) ==
    /\ StorageRequired(maxLen) <= Limit
    /\ storage' = [i \in 1..(IF maxLen > AvailableForAppend
                             THEN StorageRequired(maxLen) ELSE Len(storage)) |->
                      IF i \in End + 1..End + Len(bytes) THEN bytes[i - End]
                      ELSE IF i <= Len(storage) THEN storage[i] ELSE Fill]
    /\ count' = count + Len(bytes)
    /\ UNCHANGED startIndex

\* Mutant: the indices wrap although bytes are left.
ConsumeFrontWraps(bytes) ==
    /\ bytes <= count
    /\ count' = count - bytes
    /\ startIndex' = 0
    /\ UNCHANGED storage

\* The parser never consumes more than it was shown, so ConsumeFront never throws.
ConsumeFront(bytes) ==
    /\ bytes <= count
    /\ count' = count - bytes
    /\ startIndex' = IF bytes = count THEN 0 ELSE startIndex + bytes
    /\ UNCHANGED storage
=============================================================================
