------------------------------ MODULE MCOsSim ------------------------------
(* Instances of OsSim for TLC. *)
EXTENDS OsSim, TLC

CONSTANTS p1, p2, p3

\* Three processes; the second has a level of its own above the others.  One may
\* be empty, and each may need more than one quantum.
ThreeOrder == <<p1, p2, p3>>
ThreePrio  == p1 :> 1 @@ p2 :> 0 @@ p3 :> 1
ThreeSizes == p1 :> {0, 2} @@ p2 :> {1, 2} @@ p3 :> {1, 2}

\* A single process.
OneOrder == <<p1>>
OnePrio  == p1 :> 0
OneSize  == p1 :> {2}
============================================================================
