------------------------------ MODULE MCSched ------------------------------
(* An instance of Sched and SchedBypass for TLC. *)
EXTENDS SchedBypass, TLC

CONSTANTS p1, p2, p3, p4, p5, p6

\* Four processes share the top level, one more than a queue can hold, p5 is below
\* them, and p6 has the first priority that no level corresponds to.
FourOnTop == p1 :> 0 @@ p2 :> 0 @@ p3 :> 0 @@ p4 :> 0 @@ p5 :> 1 @@ p6 :> 2
============================================================================
