------------------------ MODULE MyUnixNetworkConnection ------------------------
(***************************************************************************)
(* The socket to the server and the pair of control sockets that wakes a   *)
(* blocked Read (MyNetworkConnection/MyUnixNetworkConnection).  The reader *)
(* runs Read while another thread disconnects, so the steps of each that   *)
(* the other can see are actions of their own.  No Next: the threads are   *)
(* those of MyAMQPBufferedConnection, and rd is where the reader is.       *)
(*                                                                         *)
(* A byte is <<c, n>>: the n-th byte the server sent on connection c.      *)
(***************************************************************************)
EXTENDS Naturals, Sequences

VARIABLES conn,         \* how many times Connect was called
          dataOpen,     \* DataConnectionOpen
          fdOpen,       \* are DataSocketFd and ControlFdPair[0] open?
          unblock,      \* ControlUnblockFlagged
          control,      \* datagrams waiting on ControlFdPair[0]
          incoming,     \* bytes waiting on DataSocketFd
          hostClosed,   \* the server closed the connection
          rd,           \* where the reader is
          readSet       \* ReadSet after select: a subset of {"control", "data"}, or
                        \* {"failed"}, of a select that returned -1

netVars == <<conn, dataOpen, fdOpen, unblock, control, incoming, hostClosed>>
readVars == <<rd, readSet>>

NetInit ==
    /\ conn = 0
    /\ dataOpen = FALSE
    /\ fdOpen = FALSE
    /\ unblock = FALSE
    /\ control = 0
    /\ incoming = <<>>
    /\ hostClosed = FALSE
    /\ rd = "none"
    /\ readSet = {}

-----------------------------------------------------------------------------
(* The server, external to the code.                                       *)

ServerSend(n) ==
    /\ fdOpen /\ ~hostClosed
    /\ incoming' = Append(incoming, <<conn, n>>)
    /\ UNCHANGED <<conn, dataOpen, fdOpen, unblock, control, hostClosed, readVars>>

ServerClose ==
    /\ fdOpen /\ ~hostClosed
    /\ hostClosed' = TRUE
    /\ UNCHANGED <<conn, dataOpen, fdOpen, unblock, control, incoming, readVars>>

-----------------------------------------------------------------------------
(* The thread that opens, closes, pauses and resumes.                      *)

\* New sockets.  Those of a connection nobody disconnected are leaked.
Connect ==
    /\ conn' = conn + 1
    /\ control' = 0
    /\ incoming' = <<>>
    /\ hostClosed' = FALSE
    /\ fdOpen' = TRUE
    /\ dataOpen' = TRUE
    /\ UNCHANGED <<unblock, readVars>>

\* Disconnect: clear the flag, UnblockRead, close the descriptors.
DisconnectFlag ==
    /\ dataOpen' = FALSE
    /\ UNCHANGED <<conn, fdOpen, unblock, control, incoming, hostClosed, readVars>>

UnblockFlag ==
    /\ unblock' = TRUE
    /\ UNCHANGED <<conn, dataOpen, fdOpen, control, incoming, hostClosed, readVars>>

\* Mutant: the flag is all there is to UnblockRead.
UnblockSendsNothing == UNCHANGED <<netVars, readVars>>

UnblockSend ==
    /\ control' = control + 1
    /\ UNCHANGED <<conn, dataOpen, fdOpen, unblock, incoming, hostClosed, readVars>>

CloseFds ==
    /\ fdOpen' = FALSE
    /\ control' = 0
    /\ incoming' = <<>>
    /\ UNCHANGED <<conn, dataOpen, unblock, hostClosed, readVars>>

ResumeRead ==
    /\ unblock' = FALSE
    /\ UNCHANGED <<conn, dataOpen, fdOpen, control, incoming, hostClosed>>

-----------------------------------------------------------------------------
(* The reader.                                                             *)

\* Read returns 0 without data: the connection is closed, or UnblockRead asked.
ReadReturnsNothing ==
    /\ \/ rd \in {"testOpen", "selected"} /\ ~dataOpen
       \/ rd = "flag" /\ unblock
       \/ rd = "recv" /\ ~dataOpen /\ incoming = <<>>
    /\ UNCHANGED netVars

Readable == (IF control > 0 THEN {"control"} ELSE {})
              \cup (IF incoming # <<>> \/ hostClosed THEN {"data"} ELSE {})

\* The while of Read.
TestOpen ==
    /\ rd = "testOpen"
    /\ dataOpen
    /\ rd' = "select"
    /\ UNCHANGED <<netVars, readSet>>

\* Mutant: FD_SET is done once, so select watches what it last returned.
SelectKeepsSet ==
    /\ rd = "select"
    /\ LET watched == IF readSet = {} THEN Readable ELSE Readable \cap readSet
       IN  /\ watched # {} \/ ~fdOpen
           /\ readSet' = watched
    /\ rd' = "selected"
    /\ UNCHANGED netVars

\* select returns when a socket is readable, or fails on a closed descriptor, which
\* was closed after DataConnectionOpen was cleared.
Select ==
    /\ rd = "select"
    /\ Readable # {} \/ ~fdOpen
    /\ readSet' = Readable
    /\ rd' = "selected"
    /\ UNCHANGED netVars

\* A signal that reaches the reader ends its select with EINTR.
SelectInterrupted ==
    /\ rd = "select"
    /\ readSet' = {"failed"}
    /\ rd' = "selected"
    /\ UNCHANGED netVars

\* The connection is open, and select has failed: Read throws.
SelectFails ==
    /\ rd = "selected"
    /\ dataOpen
    /\ readSet = {"failed"}
    /\ UNCHANGED netVars

\* DataConnectionOpen is tested once more; control goes before data.
AfterSelect ==
    /\ rd = "selected"
    /\ dataOpen
    /\ readSet # {"failed"}
    /\ rd' = IF "control" \in readSet THEN "control" ELSE "recv"
    /\ UNCHANGED <<netVars, readSet>>

RecvControl ==
    /\ rd = "control"
    /\ fdOpen
    /\ control' = control - 1
    /\ rd' = "flag"
    /\ UNCHANGED <<conn, dataOpen, fdOpen, unblock, incoming, hostClosed, readSet>>

\* Disconnect closed the control socket after the flag was tested: Read throws.
RecvControlFails ==
    /\ rd = "control"
    /\ ~fdOpen
    /\ UNCHANGED netVars

\* The control datagram of a pause that data had already ended is ignored.
SpuriousControl ==
    /\ rd = "flag"
    /\ ~unblock
    /\ rd' = IF "data" \in readSet THEN "recv" ELSE "testOpen"
    /\ UNCHANGED <<netVars, readSet>>

\* recv takes the first n of the bytes that wait.
RecvData(n) ==
    /\ rd = "recv"
    /\ n <= Len(incoming)
    /\ incoming' = SubSeq(incoming, n + 1, Len(incoming))
    /\ UNCHANGED <<conn, dataOpen, fdOpen, unblock, control, hostClosed>>

\* The host closed the connection, and all it sent was read: Read throws.
RecvFails ==
    /\ rd = "recv"
    /\ dataOpen
    /\ incoming = <<>> /\ hostClosed
    /\ UNCHANGED netVars
=============================================================================
