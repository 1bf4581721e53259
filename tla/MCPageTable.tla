---------------------------- MODULE MCPageTable ----------------------------
(***************************************************************************)
(* A bounded instance of PageTable for TLC: two processes, three levels of *)
(* two entries, so four pages of user and four of kernel space.            *)
(***************************************************************************)
EXTENDS PageTable

CONSTANTS p1, p2

Procs == {p1, p2}
============================================================================
