------------------------- MODULE MCWebsocketServer --------------------------
(* Two connections, which differ in nothing but their names.                *)
EXTENDS WebsocketServer, TLC

Symmetry == Permutations(Conns) \cup Permutations(Broadcasters)
=============================================================================
