-------------------------- MODULE MCMavlinkStream --------------------------
(* An instance of MavlinkStream for TLC. *)
EXTENDS MavlinkStream

\* A clock that may stand still while messages are queued.
CoarseClock == 1 .. 3
=============================================================================
