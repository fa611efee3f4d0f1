----------------------- MODULE MCMultiThreadSingleQueue ---------------------
(* The queue with two values and a few calls of Push.                      *)
EXTENDS MultiThreadSingleQueue
=============================================================================
