-------------------------- MODULE MCQueueShutdown ---------------------------
(* The end of a queue with up to four values.                               *)
EXTENDS QueueShutdown
=============================================================================
