----------------------------- MODULE MCProgram ------------------------------
(* The whole program, on the smallest numbers of clients, bytes, lines and  *)
(* messages with which the threads meet.                                   *)
EXTENDS Program
=============================================================================
