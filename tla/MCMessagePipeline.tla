--------------------------- MODULE MCMessagePipeline ---------------------------
\* MessagePipeline for TLC: threads are model values.
EXTENDS MessagePipeline
=============================================================================
