---------------------------- MODULE MCKernelMem ----------------------------
(***************************************************************************)
(* Bounded instances of KernelMem for TLC.                                 *)
(***************************************************************************)
EXTENDS KernelMem, TLC

\* A pool of two pages.
TwoPagePool == {[procs |-> 2, symbols |-> 2, size |-> 0, heap |-> 0,
                 frames |-> 3, ksize |-> 2, pool |-> 4, align |-> 1 .. 2]}

\* Two processes that use both kinds of memory.
BothKinds == {[procs |-> 2, symbols |-> 2, size |-> 3, heap |-> 4,
               frames |-> 3, ksize |-> 4, pool |-> 2, align |-> 1 .. 2]}

Symmetry == Permutations(Proc) \cup Permutations(Rgid)
============================================================================
