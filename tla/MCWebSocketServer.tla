-------------------------- MODULE MCWebSocketServer --------------------------
(* Instances of WebSocketServer for TLC. *)
EXTENDS WebSocketServer

\* Everyone is heard by everyone.
Everyone == {[broadcast |-> TRUE, readAll |-> TRUE, nClientMax |-> 2]}
\* Or one client at a time is heard and answered.
BothModes == Everyone \cup
  {[broadcast |-> FALSE, readAll |-> FALSE, nClientMax |-> 1]}

\* Clients are interchangeable.
Symmetry == Permutations(Clients)
=============================================================================
