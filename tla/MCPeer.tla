--------------------------------- MODULE MCPeer ---------------------------------
(* Two retry threads for Peer: the server has sent two addresses.          *)
EXTENDS Peer

CONSTANTS c1, c2
=============================================================================
