---------------------------- MODULE MCTcpTunnel -----------------------------
(* The tunnel thread with its queue, on small numbers of sessions, bytes    *)
(* and messages.                                                           *)
EXTENDS TcpTunnel
=============================================================================
