------------------------------ MODULE PacketLog ------------------------------
(***************************************************************************)
(* What DataObjStream promises to producers and readers: a log of elements *)
(* in arrival order, of which the newest Capacity since the last clear are *)
(* retained.  A read delivers every retained element that the reader has   *)
(* not been given yet, in arrival order, and each element at most once.    *)
(***************************************************************************)
EXTENDS Integers, FiniteSetsExt, Sequences

CONSTANTS Readers, Capacity

VARIABLES
  log,    \* every element ever added, in arrival order
  base,   \* elements up to here were discarded by a clear
  pos,    \* for each reader, how many elements it is past
  out     \* what each reader's last read delivered

vars == <<log, base, pos, out>>

Init ==
  /\ log = <<>>
  /\ base = 0
  /\ pos = [r \in Readers |-> 0]
  /\ out = [r \in Readers |-> <<>>]

\* A batch is appended: the log grows and keeps what it had.
Add ==
  /\ Len(log') > Len(log)
  /\ SubSeq(log', 1, Len(log)) = log
  /\ UNCHANGED <<base, pos, out>>

\* The first element a read of r may deliver follows this one.
From(r) == Max({pos[r], base, Len(log) - Capacity})

Read(r) ==
  /\ out' = [out EXCEPT ![r] = SubSeq(log, From(r) + 1, Len(log))]
  /\ pos' = [pos EXCEPT ![r] = IF From(r) < Len(log) THEN Len(log) ELSE @]
  /\ UNCHANGED <<log, base>>

Clear ==
  /\ base' = Len(log)
  /\ UNCHANGED <<log, pos, out>>

Next == Add \/ Clear \/ \E r \in Readers : Read(r)

Spec == Init /\ [][Next]_vars
=============================================================================
