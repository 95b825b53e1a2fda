----------------------------- MODULE MCConsumerMain -----------------------------
(* The bounds of ConsumerMain are given by the .cfg files.                 *)
EXTENDS ConsumerMain
=============================================================================
