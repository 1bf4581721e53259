----------------------------- MODULE MCCopyMem -----------------------------
(***************************************************************************)
(* Bounded instances of CopyMem for TLC: one heap with three symbols, two  *)
(* processes that share kernel memory, two processes that store into the   *)
(* memory they have, and one that also has pools of several slots.         *)
(***************************************************************************)
EXTENDS CopyMem, TLC

OneHeap ==
  [procs |-> 1, symbols |-> 3, size |-> 3, heap |-> 6,
   frames |-> 0, ksize |-> 0, pool |-> 0, align |-> {}, copy |-> 0, value |-> {0}]

KernelOnly ==
  [procs |-> 2, symbols |-> 2, size |-> 0, heap |-> 0,
   frames |-> 4, ksize |-> 4, pool |-> 4, align |-> 1 .. 2, copy |-> 0, value |-> {0}]

SmallStores ==
  [procs |-> 2, symbols |-> 2, size |-> 2, heap |-> 2,
   frames |-> 2, ksize |-> 2, pool |-> 2, align |-> {2}, copy |-> 2, value |-> {0, 1}]

SlotStores == [SmallStores EXCEPT !.procs = 1, !.align = 1 .. 2, !.pool = 4]

Instances == {OneHeap, KernelOnly, SmallStores, SlotStores}

Symmetry == Permutations(Proc) \cup Permutations(Rgid)
============================================================================
