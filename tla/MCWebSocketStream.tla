------------------------- MODULE MCWebSocketStream -------------------------
(* An instance of WebSocketStream for TLC. *)
EXTENDS WebSocketStream
=============================================================================
