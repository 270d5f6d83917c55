----------------------------- MODULE MCInstance -----------------------------
(* Instances of Instance for TLC. *)
EXTENDS Instance

\* 1 joins its worker when it is deleted, 2 joins its two when it is stopped, 3 is
\* a protocol whose reader wakes its writer (_RTCMcast), and 4 has one worker that
\* nobody waits for; all of them call each other.
ReaderWakesWriter == {<<3, 3>>}
Everyone == Modules \X Modules
TheJoiningWritersLook == {<<1, 1>>, <<2, 1>>}
\* A tree of two transforms, 2 the parent of 1, and an autopilot, 3, whose worker
\* sets the pose of 2 and so wakes 1; the worker of 2 then finds its pose as it is.
SetterWakesChild == {<<3, 1>>}
TreeAndSetter == {<<1, 2>>, <<2, 1>>, <<3, 2>>}
TransformsLook == {<<1, 1>>, <<2, 1>>}
=============================================================================
