-------------------------- MODULE MCDataObjStream --------------------------
(* Instances of DataObjStream for TLC. *)
EXTENDS DataObjStream

\* The clock of the build may stand still between two readings, or move.
CoarseClock == {0, 1}
\* A clock that moves at every reading.
FineClock == {1}
=============================================================================
