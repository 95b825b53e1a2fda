---------------------------- MODULE MCConnectionImpl ----------------------------
\* One method for each way through the code, on two channels.
EXTENDS ConnectionImpl

MCMethods == {"declareQueue", "consume", "cancel", "get", "recover", "publish",
              "ack", "rejectMultiple"}
=============================================================================
