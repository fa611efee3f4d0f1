------------------------- MODULE MCStandaloneTunnel -------------------------
(* The stand-alone program with two or three clients.                       *)
EXTENDS StandaloneTunnel
=============================================================================
