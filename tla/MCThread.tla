------------------------------ MODULE MCThread ------------------------------
(* Instance of Thread for TLC: the owner of a module, another thread that
   resumes and pauses it, and a parent that calls catchUp. *)
EXTENDS Thread
====
