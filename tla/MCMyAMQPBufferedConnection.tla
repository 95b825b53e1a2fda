----------------------- MODULE MCMyAMQPBufferedConnection -----------------------
\* MyAMQPBufferedConnection for TLC: every byte the server can send, and a fill.
EXTENDS MyAMQPBufferedConnection

MCFill == <<0, 0>>
MCByte == {MCFill} \cup ((1..MaxConn) \X (1..MaxSent))
=============================================================================
