--------------------------- MODULE MCBridgeConnection ---------------------------
(* BridgeConnection with three sockets: the current one, one still closing, *)
(* and one to connect with.                                                 *)
EXTENDS BridgeConnection
=============================================================================
