---------------------------- MODULE MCMyAckProcessor ----------------------------
\* MyAckProcessor for TLC: threads are model values.
EXTENDS MyAckProcessor
=============================================================================
