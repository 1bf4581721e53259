---------------------------- MODULE MCVmRegions ----------------------------
(***************************************************************************)
(* A bounded instance of VmRegions for TLC.                                *)
(***************************************************************************)
EXTENDS VmRegions, TLC

OneHeap == {[procs |-> 1, symbols |-> 3, size |-> 3, heap |-> 8]}

Symmetry == Permutations(Rgid)
============================================================================
