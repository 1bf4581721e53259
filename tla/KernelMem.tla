----------------------------- MODULE KernelMem -----------------------------
(***************************************************************************)
(* Kernel memory of libmem.c: kmalloc regions and cache pools, taken from  *)
(* RAM as runs of contiguous frames that one page table, shared by every   *)
(* process, maps at KMEM_VADDR_BASE plus the frame's own number.  Every    *)
(* operation holds mmvm_lock from its first change to its last, so it is   *)
(* one step.  Frames of user pages belong to module Paging.                *)
(***************************************************************************)
EXTENDS VmRegions, MemPhy, Functions

CONSTANTS
  PoolId,    \* indices of kcpooltbl
  NULL       \* no pool

\* A cache pool, and the list its slab is in.
PoolRecord ==
  [size : Nat, align : Nat, storage : Nat, alloc_size : Nat, slot_count : Nat, free_count : Nat,
   slab : {"empty", "partial", "full"}]

ASSUME KernelAssumption ==
  /\ KBASE > PAGESZ
  /\ NULL \notin PoolRecord
  /\ \A b \in Bounds :
       /\ b.frames \in Nat /\ b.ksize \in Nat
       /\ b.pool \in Nat /\ b.align \subseteq Nat \ {0}

VARIABLES
  free_fp,   \* mram->free_fp_list: nodes for each frame
  used_fp,   \* mram->used_fp_list: nodes for each frame
  kpt,       \* kernel pages present in the page table
  held,      \* frames of RAM that back user pages
  kcpooltbl, \* the cache pools of each process
  given,     \* history: frames each process asked for and has not given back
  strayed    \* history: a process has ended that had taken a late slot

ramVars == <<free_fp, used_fp, kpt, held, given, strayed>>
kernelVars == <<vars, ramVars, kcpooltbl>>

Frame == Frames(bounds.frames)

kernel_vaddr_from_fpn(f) == KBASE + f * PAGESZ

kernel_fpn_from_vaddr(a) == (a - KBASE) \div PAGESZ

is_kernel_vaddr_range(rg) == rg.s >= KBASE /\ rg.e > rg.s
----------------------------------------------------------------------------
(* Contiguous frames.                                                      *)

\* The free nodes sorted by frame number.
SortedFree(list) ==
  LET free_frames == {f \in Frame : IsFree(list, f)}
  IN  CHOOSE s \in [1 .. Cardinality(free_frames) -> free_frames] :
        \A i, j \in DOMAIN s : i < j => s[i] < s[j]

\* The run of consecutive frames that ends at position i of the sorted nodes
\* also counts the node before a gap.
RunLengths_gap(s) ==
  LET run[i \in DOMAIN s] == IF i > 1 /\ s[i] <= s[i - 1] + 2 THEN run[i - 1] + 1 ELSE 1
  IN  run

\* run, at every position of the scan.
RunLengths(s) ==
  LET run[i \in DOMAIN s] == IF i > 1 /\ s[i] = s[i - 1] + 1 THEN run[i - 1] + 1 ELSE 1
  IN  run

\* The scan stops where a run first has n frames.
Stops(list, n) == {i \in DOMAIN SortedFree(list) : RunLengths(SortedFree(list))[i] = n}

CanAllocate(list, n) == n > 0 /\ Stops(list, n) # {}

\* The first frame kernel_allocate_contiguous_frames() returns.
kernel_allocate_contiguous_frames(list, n) ==
  LET stop == CHOOSE i \in Stops(list, n) : \A j \in Stops(list, n) : i <= j
  IN  SortedFree(list)[stop - n + 1]

\* The frames of n pages from the address on.
Pages(a, n) == kernel_fpn_from_vaddr(a) .. kernel_fpn_from_vaddr(a) + n - 1

\* The frames move to the used list and are not mapped.
kernel_alloc_contiguous_region_unmapped(p, size, a) ==
  LET n == PAGE_ALIGNSZ(size) \div PAGESZ
  IN  /\ CanAllocate(free_fp, n)
      /\ a = kernel_vaddr_from_fpn(kernel_allocate_contiguous_frames(free_fp, n))
      /\ free_fp' = [f \in Frame |-> IF f \in Pages(a, n) THEN free_fp[f] - 1 ELSE free_fp[f]]
      /\ used_fp' = [f \in Frame |-> IF f \in Pages(a, n) THEN used_fp[f] + 1 ELSE used_fp[f]]
      /\ given' = [given EXCEPT ![p] = @ \cup Pages(a, n)]
      /\ UNCHANGED <<kpt, held, strayed>>

\* Frames for size bytes move to the used list and are mapped at address a.
kernel_alloc_contiguous_region(p, size, a) ==
  LET n == PAGE_ALIGNSZ(size) \div PAGESZ
  IN  /\ CanAllocate(free_fp, n)
      /\ a = kernel_vaddr_from_fpn(kernel_allocate_contiguous_frames(free_fp, n))
      /\ free_fp' = [f \in Frame |-> IF f \in Pages(a, n) THEN free_fp[f] - 1 ELSE free_fp[f]]
      /\ used_fp' = [f \in Frame |-> IF f \in Pages(a, n) THEN used_fp[f] + 1 ELSE used_fp[f]]
      /\ kpt' = kpt \cup Pages(a, n)
      /\ given' = [given EXCEPT ![p] = @ \cup Pages(a, n)]
      /\ UNCHANGED <<held, strayed>>

\* kernel_release_contiguous_region() for the frames in R: the entry is cleared,
\* and a node of the used list goes back to the free list if there is one,
\* whoever owns it.
kernel_release(R) ==
  /\ free_fp' = [f \in Frame |-> IF f \in R THEN free_fp[f] + used_fp[f] ELSE free_fp[f]]
  /\ used_fp' = [f \in Frame |-> IF f \in R THEN 0 ELSE used_fp[f]]
  /\ kpt' = kpt \ R
----------------------------------------------------------------------------
KernelInit ==
  /\ Init
  /\ free_fp = MEMPHY_format(bounds.frames)
  /\ used_fp = [f \in Frame |-> 0]
  /\ kpt = {}
  /\ held = {}
  /\ kcpooltbl = [p \in Proc |-> [k \in PoolId |-> NULL]]
  /\ given = [p \in Proc |-> {}]
  /\ strayed = FALSE

\* Module Paging takes a free frame for a user page, ...
get_user_frame(f) ==
  /\ IsFree(free_fp, f)
  /\ free_fp' = MEMPHY_get_freefp(free_fp, f)
  /\ held' = held \cup {f}
  /\ UNCHANGED <<vars, used_fp, kpt, given, strayed, kcpooltbl>>

\* ... or gives it back.
put_user_frame(f) ==
  /\ f \in held
  /\ free_fp' = MEMPHY_put_freefp(free_fp, f)
  /\ held' = held \ {f}
  /\ UNCHANGED <<vars, used_fp, kpt, given, strayed, kcpooltbl>>

\* __kmalloc(); every way to fail leaves the state as it is.
kmalloc(p, r, size) ==
  /\ p \in alive
  /\ symrgtbl[p][r] = Empty
  /\ \E a \in {kernel_vaddr_from_fpn(f) : f \in Frame} :
       /\ kernel_alloc_contiguous_region(p, size, a)
       /\ symrgtbl' = [symrgtbl EXCEPT ![p][r] = Region(a, a + size)]
  /\ UNCHANGED <<bounds, alive, freerg, sbrk, lost, kcpooltbl>>

\* The pool: its usable size, the bytes behind it, and the slab with the number
\* of slots still free and the list it is in.
Pool(a, size, align) ==
  [size |-> (size \div align) * align, align |-> align, storage |-> a,
   alloc_size |-> PAGE_ALIGNSZ(size), slot_count |-> size \div align,
   free_count |-> size \div align, slab |-> "empty"]

\* libkmem_cache_pool_create()
cache_pool_create(p, k, size, align) ==
  /\ p \in alive
  /\ size \div align > 0
  /\ kcpooltbl[p][k] = NULL
  /\ \E a \in {kernel_vaddr_from_fpn(f) : f \in Frame} :
       /\ kernel_alloc_contiguous_region(p, size, a)
       /\ kcpooltbl' = [kcpooltbl EXCEPT ![p][k] = Pool(a, size, align)]
  /\ UNCHANGED vars

\* The address of the slot at the head of the slab's free list.
HeadSlot(pool) == pool.storage + (pool.slot_count - pool.free_count) * pool.align

\* The slab without that slot, in the list it then belongs to.
TakeSlot(pool) ==
  [pool EXCEPT !.free_count = @ - 1,
               !.slab = IF pool.free_count = 1 THEN "full" ELSE "partial"]

\* The slab is still looked for among the full ones.
kmem_cache_alloc_full(p, r, k) ==
  /\ p \in alive
  /\ kcpooltbl[p][k] # NULL
  /\ symrgtbl[p][r] = Empty
  /\ LET pool == kcpooltbl[p][k]
     IN  /\ symrgtbl' = [symrgtbl EXCEPT ![p][r] = Region(HeadSlot(pool), HeadSlot(pool) + pool.size)]
         /\ kcpooltbl' = [kcpooltbl EXCEPT ![p][k] = IF @.slab = "full" THEN @ ELSE TakeSlot(@)]
  /\ UNCHANGED <<bounds, alive, freerg, sbrk, lost, ramVars>>

\* __kmem_cache_alloc(): the region given to the symbol starts at the slot and is
\* as long as the whole pool.
kmem_cache_alloc(p, r, k) ==
  /\ p \in alive
  /\ kcpooltbl[p][k] # NULL
  /\ symrgtbl[p][r] = Empty
  /\ LET pool == kcpooltbl[p][k]
     IN  /\ pool.slab \in {"partial", "empty"}
         /\ symrgtbl' = [symrgtbl EXCEPT ![p][r] = Region(HeadSlot(pool), HeadSlot(pool) + pool.size)]
         /\ kcpooltbl' = [kcpooltbl EXCEPT ![p][k] = TakeSlot(@)]
  /\ UNCHANGED <<bounds, alive, freerg, sbrk, lost, ramVars>>
----------------------------------------------------------------------------
(* The end of a process: free_pcb_memph() and free_pcb().                  *)

Pools(p) == {kcpooltbl[p][k] : k \in {j \in PoolId : kcpooltbl[p][j] # NULL}}

\* release_kernel_cache_pools(): the frames behind the pools ...
PoolPages(p) == UNION {Pages(pool.storage, pool.alloc_size \div PAGESZ) : pool \in Pools(p)}

\* ... and clear_symrg_range(), which forgets the regions that lie in a pool.
Cleared(p, rg) ==
  \E pool \in Pools(p) : rg.s >= pool.storage /\ rg.e <= pool.storage + pool.alloc_size

\* release_kernel_symrg_allocations() looks at none.
SymbolPages_none(p) == {}

\* A page more for a region that is a whole number of pages.
SymbolPages_long(p) ==
  UNION {Pages(rg.s, (rg.e - rg.s) \div PAGESZ + 1) :
           rg \in {x \in Range(symrgtbl[p]) : is_kernel_vaddr_range(x) /\ ~Cleared(p, x)}}

\* release_kernel_symrg_allocations(): the pages of each region that is left,
\* counted from the page of its first byte.
SymbolPages(p) ==
  UNION {Pages(rg.s, PAGE_ALIGNSZ(rg.e - rg.s) \div PAGESZ) :
           rg \in {x \in Range(symrgtbl[p]) : is_kernel_vaddr_range(x) /\ ~Cleared(p, x)}}

\* Some slot that was taken starts behind the first page of its pool.  The region of
\* its object is as long as the pool, so that the pages release_kernel_symrg_allocations()
\* counts for it go on behind the pool.
LateSlot(p) ==
  \E pool \in Pools(p) : (pool.slot_count - pool.free_count - 1) * pool.align >= PAGESZ

finish_proc(p) ==
  /\ p \in alive
  /\ kernel_release(PoolPages(p) \cup SymbolPages(p))
  /\ alive' = alive \ {p}
  /\ freerg' = [freerg EXCEPT ![p] = << >>]
  /\ symrgtbl' = [symrgtbl EXCEPT ![p] = NoSymbols]
  /\ sbrk' = [sbrk EXCEPT ![p] = 0]
  /\ lost' = [lost EXCEPT ![p] = {}]
  /\ kcpooltbl' = [kcpooltbl EXCEPT ![p] = [k \in PoolId |-> NULL]]
  /\ given' = [given EXCEPT ![p] = {}]
  /\ strayed' = IF LateSlot(p) THEN TRUE ELSE strayed
  /\ UNCHANGED <<bounds, held>>
----------------------------------------------------------------------------
\* ALLOC and FREE of a symbol.
user_op(p, r) ==
  /\ \/ free(p, r)
     \/ \E size \in 1 .. bounds.size : alloc(p, r, size) \/ alloc_grow(p, r, size)
  /\ UNCHANGED <<ramVars, kcpooltbl>>

kernel_op(p) ==
  \/ \E r \in Symbols, size \in 1 .. bounds.ksize : kmalloc(p, r, size)
  \/ \E k \in PoolId, size \in 1 .. bounds.pool, align \in bounds.align :
       cache_pool_create(p, k, size, align)
  \/ \E r \in Symbols, k \in PoolId : kmem_cache_alloc(p, r, k)

\* Programs whose ALLOC and FREE name no symbol that has a kernel region.
KernelNext ==
  \/ \E p \in Proc : kernel_op(p) \/ finish_proc(p) \/ \E r \in HeapSymbols(p) : user_op(p, r)
  \/ \E f \in Frame : get_user_frame(f) \/ put_user_frame(f)

KernelSpec == KernelInit /\ [][KernelNext]_kernelVars

\* Programs that may also do that, as input/proc/m2s does: __free() then puts
\* the kernel region into the list of free user regions.
AnyProgramSpec ==
  KernelInit /\ [][KernelNext \/ \E p \in Proc, r \in Symbols : user_op(p, r)]_kernelVars
----------------------------------------------------------------------------
\* Type invariant.
KernelTypeOK ==
  /\ free_fp \in [Frame -> 0 .. 1]
  /\ used_fp \in [Frame -> 0 .. 1]
  /\ kpt \subseteq Frame
  /\ held \subseteq Frame
  /\ \A p \in Proc : given[p] \subseteq Frame
  /\ strayed \in BOOLEAN
  /\ \A p \in Proc : \A r \in Symbols \ HeapSymbols(p) : is_kernel_vaddr_range(symrgtbl[p][r])
  /\ \A p \in Proc : \A pool \in Pools(p) : pool.free_count \in 0 .. pool.slot_count

\* Moving nodes between the two lists loses no frame and duplicates none, and the
\* shared page table maps exactly the frames in the used list, whatever order
\* processes allocate and finish in.
UsedIsMapped ==
  /\ KernelTypeOK
  /\ \A f \in Frame :
       /\ free_fp[f] + used_fp[f] = IF f \in held THEN 0 ELSE 1
       /\ f \in kpt <=> used_fp[f] = 1

\* The sorted scan fails only if no run of n free frames exists, and otherwise
\* returns the lowest one.
ScanFindsLowestRun ==
  \A n \in 1 .. bounds.frames :
    LET runs == {f \in Frame : \A i \in 0 .. n - 1 : f + i \in Frame /\ IsFree(free_fp, f + i)}
    IN  /\ CanAllocate(free_fp, n) <=> runs # {}
        /\ CanAllocate(free_fp, n) =>
             /\ kernel_allocate_contiguous_frames(free_fp, n) \in runs
             /\ \A f \in runs : kernel_allocate_contiguous_frames(free_fp, n) <= f

\* When every process has finished, free_pcb_memph() has collected all the memory
\* they had: no frame is left in the used list or mapped.
KernelMemReturned ==
  alive = {} => kpt = {} /\ \A f \in Frame \ held : free_fp[f] = 1 /\ used_fp[f] = 0

\* The frames given to a process stay its own until it finishes: no other process
\* gets them, and they stay in the used list and mapped, whatever objects and pools
\* processes have and whoever ends.  The one thing that takes frames away is the end
\* of a process that has taken a late slot; without one a pool may be of any size.
GivenFramesStay ==
  ~strayed =>
    /\ \A p \in alive : \A f \in given[p] : used_fp[f] = 1 /\ f \in kpt
    /\ \A p, q \in alive : p # q => given[p] \cap given[q] = {}

\* The symbols of p that kmalloc or a cache pool set.
Objects(p) == Symbols \ HeapSymbols(p)

\* Two kernel objects never start at the same address, of whatever processes and
\* pools, as long as no process has ended that had taken a late slot.
ObjectsAreDistinct ==
  ~strayed =>
    \A p, q \in alive : \A r \in Objects(p), s \in Objects(q) :
      <<p, r>> # <<q, s>> => symrgtbl[p][r].s # symrgtbl[q][s].s

\* The regions of two objects of a pool do not overlap.
SlotRegionsAreDisjoint ==
  \A p \in alive : \A r, s \in Objects(p) :
    r # s => \/ symrgtbl[p][r].e <= symrgtbl[p][s].s
             \/ symrgtbl[p][s].e <= symrgtbl[p][r].s
============================================================================
