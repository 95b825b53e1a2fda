-------------------------- MODULE MCMyAMQPClientImpl --------------------------
\* MyAMQPClientImpl for TLC; see the .cfg files for the bound.
EXTENDS MyAMQPClientImpl
=============================================================================
