--------------------------- MODULE MCMyTaskProcessor ---------------------------
\* MyTaskProcessor for TLC: threads are model values.  They are interchangeable,
\* but the runs check liveness too, where symmetry reduction is not sound.
EXTENDS MyTaskProcessor
=============================================================================
