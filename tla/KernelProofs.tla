--------------------------- MODULE KernelProofs ----------------------------
(***************************************************************************)
(* Proofs about kernel memory, for every set of processes, symbols and     *)
(* pools, every page size and RAM of every size: the scan for contiguous   *)
(* frames finds the lowest run, the used list and the kernel's page table  *)
(* agree, and all that processes had is free once they have finished.      *)
(* Last, the bytes of user regions and of kernel objects.                  *)
(***************************************************************************)
EXTENDS RegionProofs

USE ZenonT(30)
----------------------------------------------------------------------------
(* The scan, in every state.                                               *)

\* What the invariant says of RAM is enough for the scan to be right.
LEMMA ScanInHeaps ==
  ASSUME HeapsInv
  PROVE  ScanFindsLowestRun
<1> SUFFICES ASSUME NEW n \in 1 .. bounds.frames
             PROVE  /\ CanAllocate(free_fp, n) <=> FreeRuns(free_fp, n) # {}
                    /\ CanAllocate(free_fp, n) =>
                         /\ kernel_allocate_contiguous_frames(free_fp, n) \in FreeRuns(free_fp, n)
                         /\ \A f \in FreeRuns(free_fp, n) :
                              kernel_allocate_contiguous_frames(free_fp, n) <= f
  BY DEF ScanFindsLowestRun, FreeRuns
<1>1. n \in Nat \ {0} /\ bounds.frames \in Nat
  BY BoundsOf, SMTT(30)
<1> QED  BY <1>1, ScanIsRight

\* kernel_allocate_contiguous_frames() returns the lowest run of free frames, and
\* fails only if there is none, whatever the list and however long the run.
THEOREM ScanFindsTheRun == CopySpec => []ScanFindsLowestRun
BY HeapsInvariant, CopyImplementsKernel, ScanInHeaps, PTL
----------------------------------------------------------------------------
(* Pages and addresses.                                                    *)

\* Multiplication by the page size keeps the order.
LEMMA PageOrder ==
  ASSUME NEW a \in Int, NEW b \in Int, a * PAGESZ < b * PAGESZ
  PROVE  a < b
<1>1. PAGESZ \in Nat \ {0}
  BY RegionsAssumption
<1> SUFFICES ASSUME b <= a PROVE FALSE
  BY SMTT(30)
<1>2. a - b \in Nat
  BY SMTT(30)
<1>3. (a - b) * PAGESZ \in Nat
  BY <1>1, <1>2, SMTT(30)
<1>4. (a - b) * PAGESZ = (a * PAGESZ) - (b * PAGESZ)
  BY <1>1, SMTT(30)
<1>5. a * PAGESZ \in Int /\ b * PAGESZ \in Int
  BY <1>1, SMTT(30)
<1> QED  BY <1>3, <1>4, <1>5, SMTT(30)

\* The page an address lies in.
LEMMA PageOfOffset ==
  ASSUME NEW o \in Nat
  PROVE  LET q == o \div PAGESZ
         IN  q \in Nat /\ q * PAGESZ \in Nat /\ q * PAGESZ <= o /\ o < (q + 1) * PAGESZ
<1> DEFINE q == o \div PAGESZ
<1>0. PAGESZ \in Nat \ {0}
  BY RegionsAssumption
<1>1. q \in Nat /\ o = (q * PAGESZ) + (o % PAGESZ) /\ o % PAGESZ \in 0 .. PAGESZ - 1
  BY <1>0, SMTT(30)
<1>2. q * PAGESZ \in Nat /\ (q + 1) * PAGESZ = (q * PAGESZ) + PAGESZ
  BY <1>0, <1>1, SMTT(30)
<1> HIDE DEF q
<1>3. q * PAGESZ <= o /\ o < (q * PAGESZ) + PAGESZ
  BY <1>0, <1>1, <1>2, SMTT(30)
<1> QED  BY <1>1, <1>2, <1>3 DEF q

\* The last page of a request is not empty.
LEMMA AlignTight ==
  ASSUME NEW sz \in Nat \ {0}
  PROVE  LET n == PAGE_ALIGNSZ(sz) \div PAGESZ
         IN  n \in Nat \ {0} /\ (n - 1) * PAGESZ < sz /\ sz <= n * PAGESZ
<1> DEFINE n == PAGE_ALIGNSZ(sz) \div PAGESZ
           o == sz + PAGESZ - 1
           q == o \div PAGESZ
<1>0. PAGESZ \in Nat \ {0} /\ sz \in Nat
  BY RegionsAssumption
<1>1. o \in Nat
  BY <1>0, SMTT(30)
<1>2. q \in Nat /\ q * PAGESZ \in Nat /\ q * PAGESZ <= o
  BY <1>1, PageOfOffset
<1>3. n = q
  <2>1. PAGE_ALIGNSZ(sz) = q * PAGESZ
    BY DEF PAGE_ALIGNSZ
  <2>2. (q * PAGESZ) \div PAGESZ = q
    BY <1>0, <1>2, SMTT(30)
  <2> QED  BY <2>1, <2>2
<1>4. sz <= n * PAGESZ
  <2>1. sz <= q * PAGESZ
    <3>1. PAGE_ALIGNSZ(sz) >= sz /\ PAGE_ALIGNSZ(sz) = q * PAGESZ
      BY <1>0, AlignProperties DEF PAGE_ALIGNSZ
    <3> QED  BY <1>0, <1>2, <3>1, SMTT(30)
  <2> QED  BY <1>3, <2>1
<1>5. q # 0
  <2>1. sz <= q * PAGESZ /\ 0 * PAGESZ = 0
    BY <1>0, <1>3, <1>4, SMTT(30)
  <2> QED  BY <1>0, <2>1, SMTT(30)
<1>6. (q - 1) * PAGESZ = (q * PAGESZ) - PAGESZ
  BY <1>0, <1>2, SMTT(30)
<1>7. (q * PAGESZ) - PAGESZ < sz
  BY <1>0, <1>2, SMTT(30)
<1> QED  BY <1>2, <1>3, <1>4, <1>5, <1>6, <1>7

\* The frame behind a kernel page.
LEMMA FrameOfPage ==
  ASSUME NEW f \in Nat
  PROVE  /\ kernel_vaddr_from_fpn(f) \in Nat /\ kernel_vaddr_from_fpn(f) >= KBASE
         /\ kernel_fpn_from_vaddr(kernel_vaddr_from_fpn(f)) = f
<1>0. PAGESZ \in Nat \ {0} /\ KBASE \in Nat
  BY RegionsAssumption
<1>1. f * PAGESZ \in Nat /\ (f * PAGESZ) \div PAGESZ = f
  BY <1>0, SMTT(30)
<1>2. /\ (KBASE + (f * PAGESZ)) - KBASE = f * PAGESZ
      /\ KBASE + (f * PAGESZ) \in Nat /\ KBASE + (f * PAGESZ) >= KBASE
  BY <1>0, <1>1, SMTT(30)
<1> QED  BY <1>1, <1>2 DEF kernel_vaddr_from_fpn, kernel_fpn_from_vaddr

\* A region found in a heap is below the kernel's addresses.
LEMMA TakenIsLow ==
  ASSUME NEW list, NEW tbl, NEW top, NEW gone, HeapOK(list, tbl, top, gone),
         NEW size \in Nat \ {0}, HasFit(list, size)
  PROVE  Taken(list, size) \in Nodes /\ Taken(list, size).s < KBASE
<1> DEFINE T == Taken(list, size)
<1>1. /\ list \in Seq(Nodes) /\ Ordered(list) /\ top \in Nat /\ top < KBASE
      /\ ListBytes(list) \subseteq 0 .. top - 1
  BY DEF HeapOK
<1>2. T \in Nodes /\ T.e = T.s + size /\ Bytes(T) \subseteq ListBytes(list)
  BY <1>1, TakeProperties
<1> HIDE DEF T
<1>3. T.s < T.e
  BY <1>2, SMTT(30) DEF Nodes
<1>4. T.s < KBASE
  BY <1>1, <1>2, <1>3, BelowTop
<1> QED  BY <1>2, <1>4 DEF T

\* ALLOC and FREE of a user symbol leave every kernel region as it is.
LEMMA UserOpIsLow ==
  ASSUME HeapsInv, NEW p \in Proc, NEW r \in HeapSymbols(p), user_op(p, r)
  PROVE  \E x \in Nodes : x.s < KBASE /\ symrgtbl' = [symrgtbl EXCEPT ![p][r] = x]
<1>0. RegionsInv /\ HeapOK(freerg[p], symrgtbl[p], sbrk[p], lost[p])
  BY HeapOf DEF HeapsInv
<1>1. CASE free(p, r)
  <2>1. Empty \in Nodes /\ Empty.s < KBASE
    BY EmptyIsNode, BoundsOf
  <2> QED  BY <1>1, <2>1 DEF free
<1>2. ASSUME NEW size \in 1 .. bounds.size, alloc(p, r, size)
      PROVE  \E x \in Nodes : x.s < KBASE /\ symrgtbl' = [symrgtbl EXCEPT ![p][r] = x]
  <2>1. size \in Nat \ {0}
    BY BoundsOf, SMTT(30)
  <2>2. HasFit(freerg[p], size) /\ symrgtbl' = [symrgtbl EXCEPT ![p][r] = Taken(freerg[p], size)]
    BY <1>2 DEF alloc, Assign
  <2>3. Taken(freerg[p], size) \in Nodes /\ Taken(freerg[p], size).s < KBASE
    BY <1>0, <2>1, <2>2, TakenIsLow
  <2> QED  BY <2>2, <2>3
<1>3. ASSUME NEW size \in 1 .. bounds.size, alloc_grow(p, r, size)
      PROVE  \E x \in Nodes : x.s < KBASE /\ symrgtbl' = [symrgtbl EXCEPT ![p][r] = x]
  <2> DEFINE list == Grown(p, size)
             n == PAGE_ALIGNSZ(size)
  <2>1. size \in Nat \ {0} /\ size \in Nat
    BY BoundsOf, SMTT(30)
  <2>2. /\ HasFit(list, size) /\ symrgtbl' = [symrgtbl EXCEPT ![p][r] = Taken(list, size)]
        /\ sbrk[p] + n + 0 <= bounds.heap
    BY <1>3 DEF alloc_grow, Assign, Grow
  <2>3. n \in Nat
    BY <2>1, AlignProperties
  <2> HIDE DEF list, n
  <2>4. sbrk[p] + n < KBASE
    BY <1>0, <2>2, <2>3, BoundsOf, HeapOf, SMTT(30)
  <2>5. HeapOK(list, symrgtbl[p], sbrk[p] + n, lost[p])
    BY <1>0, <2>1, <2>4, GrownHeap DEF list, n
  <2>6. Taken(list, size) \in Nodes /\ Taken(list, size).s < KBASE
    BY <2>1, <2>2, <2>5, TakenIsLow
  <2> QED  BY <2>2, <2>6
<1> QED  BY <1>1, <1>2, <1>3 DEF user_op
----------------------------------------------------------------------------
(* The two lists of frames, the page table and the frames of user pages.   *)

\* A frame is in the free list, or in the used list and mapped, or backs a user page.
FrameOK(f) ==
  \/ free_fp[f] = 1 /\ used_fp[f] = 0 /\ f \notin kpt /\ f \notin held
  \/ free_fp[f] = 0 /\ used_fp[f] = 1 /\ f \in kpt /\ f \notin held
  \/ free_fp[f] = 0 /\ used_fp[f] = 0 /\ f \notin kpt /\ f \in held

FramesInv ==
  /\ free_fp \in [Frame -> Nat] /\ used_fp \in [Frame -> Nat]
  /\ kpt \subseteq Frame /\ held \subseteq Frame /\ given \in [Proc -> SUBSET Frame]
  /\ \A f \in Frame : FrameOK(f)

\* The frames a request gets: consecutive, free, and then used, mapped and given.
LEMMA AllocatedFrames ==
  ASSUME HeapsInv, FramesInv, bounds' = bounds, NEW p \in Proc, NEW size \in Nat \ {0}, NEW a,
         kernel_alloc_contiguous_region(p, size, a)
  PROVE  LET n == PAGE_ALIGNSZ(size) \div PAGESZ
         IN  /\ FramesInv'
             /\ n \in Nat \ {0}
             /\ \E f \in Frame : /\ a = kernel_vaddr_from_fpn(f) /\ f \in Nat
                                 /\ Pages(a, n) = f .. f + (n - 1)
             /\ \A f \in Pages(a, n) : f \in Frame /\ f \notin kpt
             /\ kpt' = kpt \cup Pages(a, n)
             /\ given' = [given EXCEPT ![p] = @ \cup Pages(a, n)]
<1> DEFINE n == PAGE_ALIGNSZ(size) \div PAGESZ
           P == Pages(a, n)
           f0 == kernel_allocate_contiguous_frames(free_fp, n)
<1>1. n \in Nat \ {0}
  BY AlignTight
<1>2. /\ CanAllocate(free_fp, n) /\ a = kernel_vaddr_from_fpn(f0)
      /\ free_fp' = [f \in Frame |-> IF f \in P THEN free_fp[f] - 1 ELSE free_fp[f]]
      /\ used_fp' = [f \in Frame |-> IF f \in P THEN used_fp[f] + 1 ELSE used_fp[f]]
      /\ kpt' = kpt \cup P
      /\ given' = [given EXCEPT ![p] = @ \cup P]
      /\ held' = held
  BY DEF kernel_alloc_contiguous_region
<1> HIDE DEF n
<1>3. f0 \in FreeRuns(free_fp, n)
  BY <1>1, <1>2, BoundsOf, ScanIsRight
<1> HIDE DEF f0
<1>4. f0 \in Frame /\ f0 \in Nat
  BY <1>3, BoundsOf, SMTT(30) DEF FreeRuns, Frame, Frames
<1>5. P = f0 .. f0 + (n - 1)
  <2>1. P = f0 .. f0 + n - 1
    BY <1>2, <1>4, FrameOfPage DEF Pages
  <2>2. f0 + n - 1 = f0 + (n - 1)
    BY <1>1, <1>4, SMTT(30)
  <2> QED  BY <2>1, <2>2
<1> HIDE DEF P
<1>6. ASSUME NEW f \in P
      PROVE  f \in Frame /\ free_fp[f] = 1 /\ used_fp[f] = 0 /\ f \notin kpt /\ f \notin held
  <2>1. f - f0 \in 0 .. n - 1 /\ f0 + (f - f0) = f
    BY <1>1, <1>4, <1>5, SMTT(30)
  <2>2. f \in Frame /\ IsFree(free_fp, f)
    BY <1>3, <2>1 DEF FreeRuns
  <2>3. free_fp[f] # 0
    BY <2>2, SMTT(30) DEF IsFree
  <2> QED  BY <2>2, <2>3 DEF FramesInv, FrameOK
<1>7. FramesInv'
  <2>1. Frame' = Frame
    BY DEF Frame
  <2>2. ASSUME NEW f \in Frame
        PROVE  FrameOK(f)' /\ free_fp'[f] \in Nat /\ used_fp'[f] \in Nat
    <3>1. CASE f \in P
      <4>1. free_fp'[f] = 1 - 1 /\ used_fp'[f] = 0 + 1 /\ f \in kpt' /\ f \notin held'
        BY <1>2, <1>6, <3>1
      <4>2. 1 - 1 = 0 /\ 0 + 1 = 1 /\ 0 \in Nat /\ 1 \in Nat
        BY SMTT(30)
      <4> QED  BY <4>1, <4>2 DEF FrameOK
    <3>2. CASE f \notin P
      <4>1. free_fp'[f] = free_fp[f] /\ used_fp'[f] = used_fp[f]
        BY <1>2, <3>2
      <4>2. (f \in kpt' <=> f \in kpt) /\ held' = held
        BY <1>2, <3>2
      <4> QED  BY <4>1, <4>2 DEF FrameOK, FramesInv
    <3> QED  BY <3>1, <3>2
  <2>3. free_fp' \in [Frame -> Nat] /\ used_fp' \in [Frame -> Nat]
    <3>1. free_fp' = [f \in Frame |-> free_fp'[f]] /\ used_fp' = [f \in Frame |-> used_fp'[f]]
      BY <1>2
    <3> QED  BY <2>2, <3>1
  <2>4. kpt' \subseteq Frame /\ held' \subseteq Frame
    BY <1>2, <1>6 DEF FramesInv
  <2>5. given' \in [Proc -> SUBSET Frame]
    <3>1. given \in [Proc -> SUBSET Frame] /\ P \subseteq Frame
      BY <1>6 DEF FramesInv
    <3> QED  BY <1>2, <3>1
  <2> QED  BY <2>1, <2>2, <2>3, <2>4, <2>5 DEF FramesInv
<1> QED  BY <1>1, <1>2, <1>4, <1>5, <1>6, <1>7 DEF P, n

\* A process gives frames back at its end.
LEMMA ReleasedFrames ==
  ASSUME HeapsInv, FramesInv, bounds' = bounds, held' = held, NEW R, kernel_release(R),
         NEW p \in Proc, given' = [given EXCEPT ![p] = {}]
  PROVE  FramesInv' /\ kpt' = kpt \ R
<1>1. /\ free_fp' = [f \in Frame |-> IF f \in R THEN free_fp[f] + used_fp[f] ELSE free_fp[f]]
      /\ used_fp' = [f \in Frame |-> IF f \in R THEN 0 ELSE used_fp[f]]
      /\ kpt' = kpt \ R
  BY DEF kernel_release
<1>2. Frame' = Frame
  BY DEF Frame
<1>3. ASSUME NEW f \in Frame
      PROVE  FrameOK(f)' /\ free_fp'[f] \in Nat /\ used_fp'[f] \in Nat
  <2>1. CASE f \in R
    <3>1. free_fp'[f] = free_fp[f] + used_fp[f] /\ used_fp'[f] = 0 /\ f \notin kpt'
      BY <1>1, <2>1
    <3>2. 1 + 0 = 1 /\ 0 + 1 = 1 /\ 0 + 0 = 0 /\ 0 \in Nat /\ 1 \in Nat
      BY SMTT(30)
    <3> QED  BY <3>1, <3>2 DEF FrameOK, FramesInv
  <2>2. CASE f \notin R
    <3>1. free_fp'[f] = free_fp[f] /\ used_fp'[f] = used_fp[f] /\ (f \in kpt' <=> f \in kpt)
      BY <1>1, <2>2
    <3> QED  BY <3>1 DEF FrameOK, FramesInv
  <2> QED  BY <2>1, <2>2
<1>4. free_fp' \in [Frame -> Nat] /\ used_fp' \in [Frame -> Nat]
  <2>1. free_fp' = [f \in Frame |-> free_fp'[f]] /\ used_fp' = [f \in Frame |-> used_fp'[f]]
    BY <1>1
  <2> QED  BY <1>3, <2>1
<1>5. kpt' \subseteq Frame /\ held' \subseteq Frame /\ given' \in [Proc -> SUBSET Frame]
  BY <1>1 DEF FramesInv
<1> QED  BY <1>1, <1>2, <1>3, <1>4, <1>5 DEF FramesInv

\* A frame taken for a user page or given back by it.
LEMMA UserFrames ==
  ASSUME HeapsInv, FramesInv, NEW f \in Frame, get_user_frame(f) \/ put_user_frame(f)
  PROVE  FramesInv' /\ UNCHANGED <<vars, kpt, given, kcpooltbl>>
<1>1. UNCHANGED <<vars, used_fp, kpt, given, kcpooltbl>>
  BY DEF get_user_frame, put_user_frame
<1>2. Frame' = Frame
  BY <1>1 DEF Frame, vars
<1>3. /\ \A g \in Frame : FrameOK(g)'
      /\ free_fp' \in [Frame -> Nat] /\ held' \subseteq Frame
  <2>1. free_fp \in [Frame -> Nat] /\ held \subseteq Frame /\ FrameOK(f)
    BY DEF FramesInv
  <2>2. CASE get_user_frame(f)
    <3>1. free_fp[f] # 0 /\ 1 - 1 = 0 /\ 0 \in Nat
      BY <2>2, SMTT(30) DEF get_user_frame, IsFree
    <3>2. free_fp[f] = 1 /\ used_fp[f] = 0 /\ f \notin kpt
      BY <2>1, <3>1 DEF FrameOK
    <3>3. free_fp' = [free_fp EXCEPT ![f] = 0] /\ held' = held \cup {f}
      BY <2>2, <3>1, <3>2 DEF get_user_frame, MEMPHY_get_freefp
    <3>4. FrameOK(f)'
      BY <1>1, <2>1, <3>2, <3>3 DEF FrameOK
    <3>5. \A g \in Frame : g # f => FrameOK(g)'
      BY <1>1, <2>1, <3>3 DEF FrameOK, FramesInv
    <3> QED  BY <2>1, <3>1, <3>3, <3>4, <3>5
  <2>3. CASE put_user_frame(f)
    <3>1. f \in held
      BY <2>3 DEF put_user_frame
    <3>2. free_fp[f] = 0 /\ used_fp[f] = 0 /\ f \notin kpt /\ 0 + 1 = 1 /\ 1 \in Nat
      <4>1. 0 + 1 = 1 /\ 1 \in Nat
        BY SMTT(30)
      <4> QED  BY <2>1, <3>1, <4>1 DEF FrameOK
    <3>3. free_fp' = [free_fp EXCEPT ![f] = 1] /\ held' = held \ {f}
      BY <2>3, <3>2 DEF put_user_frame, MEMPHY_put_freefp
    <3>4. FrameOK(f)'
      BY <1>1, <2>1, <3>2, <3>3 DEF FrameOK
    <3>5. \A g \in Frame : g # f => FrameOK(g)'
      BY <1>1, <2>1, <3>3 DEF FrameOK, FramesInv
    <3> QED  BY <2>1, <3>2, <3>3, <3>4, <3>5
  <2> QED  BY <2>2, <2>3
<1> QED  BY <1>1, <1>2, <1>3 DEF FramesInv
----------------------------------------------------------------------------
(* What a process gives back at its end.                                   *)

\* The pages release_kernel_symrg_allocations() frees for a region.
PagesOf(rg) == Pages(rg.s, PAGE_ALIGNSZ(rg.e - rg.s) \div PAGESZ)

\* Every byte of the region is in these pages.
WithinPages(rg) == \A a \in Bytes(rg) : kernel_fpn_from_vaddr(a) \in PagesOf(rg)

\* The pages release_kernel_cache_pools() frees for a pool.
PagesOfPool(pool) == Pages(pool.storage, pool.alloc_size \div PAGESZ)

\* Frame f is behind a pool or a kernel region of process p.
PoolKeeps(p, f) == \E k \in PoolId : kcpooltbl[p][k] # NULL /\ f \in PagesOfPool(kcpooltbl[p][k])
SymbolKeeps(p, f) == \E r \in Symbols : symrgtbl[p][r].s >= KBASE /\ f \in PagesOf(symrgtbl[p][r])

\* A pool starts at a page, and its slots lie in the pages it asked for.
PoolPlaced(pool) ==
  /\ \E f \in Nat : pool.storage = kernel_vaddr_from_fpn(f)
  /\ pool.align > 0 /\ pool.size > 0 /\ pool.size = pool.slot_count * pool.align
  /\ \E size \in 1 .. bounds.pool : pool.size <= size /\ pool.alloc_size = PAGE_ALIGNSZ(size)

PlacesInv == \A p \in Proc, k \in PoolId : kcpooltbl[p][k] # NULL => PoolPlaced(kcpooltbl[p][k])

ObjectsInv ==
  \A p \in Proc, r \in Symbols :
    symrgtbl[p][r].s >= KBASE => symrgtbl[p][r].s < symrgtbl[p][r].e

\* Every frame mapped for the kernel belongs to a process that has not finished.
MappedIsKept == \A f \in kpt : \E p \in alive : PoolKeeps(p, f) \/ SymbolKeeps(p, f)

KernelInv ==
  HeapsInv /\ FramesInv /\ PlacesInv /\ ObjectsInv /\ MappedIsKept /\ strayed \in BOOLEAN

\* A region that starts at a page lies in the pages it asked for.
LEMMA FromPageOn ==
  ASSUME NEW f \in Nat, NEW x \in Nodes, x.s = KBASE + (f * PAGESZ), x.s < x.e
  PROVE  WithinPages(x)
<1>0. PAGESZ \in Nat \ {0} /\ KBASE \in Nat /\ x.s \in Nat /\ x.e \in Nat
  BY RegionsAssumption DEF Nodes
<1> DEFINE s == x.s
           e == x.e
           size == e - s
           n == PAGE_ALIGNSZ(size) \div PAGESZ
           first == f * PAGESZ
<1>1. size \in Nat \ {0}
  BY <1>0, SMTT(30)
<1>2. n \in Nat \ {0} /\ size <= n * PAGESZ
  <2> HIDE DEF size
  <2> QED  BY <1>1, AlignTight
<1>3. kernel_fpn_from_vaddr(s) = f
  BY FrameOfPage DEF kernel_vaddr_from_fpn
<1>4. PagesOf(x) = f .. f + n - 1
  BY <1>3 DEF PagesOf, Pages
<1>5. first \in Nat /\ (f + n) * PAGESZ = first + (n * PAGESZ) /\ n * PAGESZ \in Nat
  <2> HIDE DEF n
  <2> QED  BY <1>0, <1>2, SMTT(30)
<1> SUFFICES ASSUME NEW a \in Bytes(x)
             PROVE  kernel_fpn_from_vaddr(a) \in f .. f + n - 1
  BY <1>4 DEF WithinPages
<1>6. a \in Int /\ s <= a /\ a < e
  BY BytesOfNode
<1> DEFINE o == a - KBASE
           q == o \div PAGESZ
           m == n * PAGESZ
<1>7. s \in Nat /\ e \in Nat /\ s = KBASE + first /\ m \in Nat /\ e - s <= m
  BY <1>0, <1>2, <1>5
<1> HIDE DEF s, e, n, first, m
<1>8. o \in Nat /\ first <= o /\ o < first + m
  BY <1>0, <1>5, <1>6, <1>7, SMTT(30)
<1>9. q \in Nat /\ q * PAGESZ \in Nat /\ q * PAGESZ <= o /\ o < (q + 1) * PAGESZ
  <2> HIDE DEF o
  <2> QED  BY <1>8, PageOfOffset
<1> HIDE DEF o, q
<1>10. f * PAGESZ < (q + 1) * PAGESZ
  <2> DEFINE u == (q + 1) * PAGESZ
  <2>1. u \in Int
    BY <1>0, <1>9, SMTT(30)
  <2>2. o < u
    BY <1>9
  <2> HIDE DEF u
  <2>3. first < u
    BY <1>5, <1>8, <2>1, <2>2, SMTT(30)
  <2> QED  BY <2>3 DEF u, first
<1>11. q * PAGESZ < (f + n) * PAGESZ
  <2> DEFINE u == q * PAGESZ
  <2>1. u \in Nat /\ u <= o
    BY <1>9
  <2> HIDE DEF u
  <2>2. u < first + m
    BY <1>5, <1>7, <1>8, <2>1, SMTT(30)
  <2> QED  BY <1>5, <2>2 DEF u, m
<1>12. q + 1 \in Int /\ f + n \in Int /\ q \in Int /\ f \in Int
  BY <1>2, <1>9, SMTT(30)
<1>13. f < q + 1 /\ q < f + n
  BY <1>10, <1>11, <1>12, PageOrder
<1>14. q \in f .. f + n - 1
  BY <1>2, <1>9, <1>13, SMTT(30)
<1> QED  BY <1>14 DEF q, o, kernel_fpn_from_vaddr

\* The pages of a pool.
LEMMA PoolPagesAre ==
  ASSUME HeapsInv, NEW pool, PoolOK(pool), PoolPlaced(pool)
  PROVE  \E g \in Nat, m \in Nat \ {0} :
           /\ pool.storage = KBASE + (g * PAGESZ) /\ pool.alloc_size = m * PAGESZ
           /\ pool.size <= m * PAGESZ
           /\ PagesOfPool(pool) = g .. g + (m - 1)
<1>1. PICK g \in Nat : pool.storage = kernel_vaddr_from_fpn(g)
  BY DEF PoolPlaced
<1>2. PICK size \in 1 .. bounds.pool : pool.size <= size /\ pool.alloc_size = PAGE_ALIGNSZ(size)
  BY DEF PoolPlaced
<1> DEFINE m == PAGE_ALIGNSZ(size) \div PAGESZ
<1>3. size \in Nat \ {0} /\ size \in Nat
  BY BoundsOf, SMTT(30)
<1>4. m \in Nat \ {0} /\ size <= m * PAGESZ
  BY <1>3, AlignTight
<1>5. pool.alloc_size = m * PAGESZ
  BY <1>2, <1>3, AlignProperties
<1>6. PagesOfPool(pool) = g .. g + m - 1
  BY <1>1, <1>2, FrameOfPage DEF PagesOfPool, Pages
<1> HIDE DEF m
<1>7. g + m - 1 = g + (m - 1)
  BY <1>4, SMTT(30)
<1>8. m * PAGESZ \in Nat
  BY <1>4, BoundsOf, SMTT(30)
<1>9. pool.size <= m * PAGESZ
  <2>1. pool.size \in Nat
    BY DEF PoolOK, PoolRecord
  <2> DEFINE l == m * PAGESZ
             z == pool.size
  <2> HIDE DEF l, z
  <2>2. z \in Nat /\ z <= size /\ size <= l /\ l \in Nat
    BY <1>2, <1>4, <1>8, <2>1 DEF l, z
  <2>3. z <= l
    BY <1>3, <2>2, SMTT(30)
  <2> QED  BY <2>3 DEF l, z
<1>10. pool.storage = KBASE + (g * PAGESZ)
  BY <1>1 DEF kernel_vaddr_from_fpn
<1>11. PagesOfPool(pool) = g .. g + (m - 1)
  BY <1>6, <1>7
<1> QED  BY <1>4, <1>5, <1>9, <1>10, <1>11

\* The pages of a region that clear_symrg_range() forgets are pages of the pool it
\* lies in.
LEMMA ClearedPages ==
  ASSUME HeapsInv, NEW pool, PoolOK(pool), PoolPlaced(pool), NEW x \in Nodes, x.s < x.e,
         x.s >= pool.storage, x.e <= pool.storage + pool.alloc_size
  PROVE  PagesOf(x) \subseteq PagesOfPool(pool)
<1>1. PICK g \in Nat, m \in Nat \ {0} :
        /\ pool.storage = KBASE + (g * PAGESZ) /\ pool.alloc_size = m * PAGESZ
        /\ PagesOfPool(pool) = g .. g + (m - 1)
  BY PoolPagesAre
<1> DEFINE G == g * PAGESZ
           M == m * PAGESZ
           o == x.s - KBASE
           q == o \div PAGESZ
           len == x.e - x.s
           n == PAGE_ALIGNSZ(len) \div PAGESZ
<1>2. G \in Nat /\ M \in Nat /\ KBASE \in Nat /\ x.s \in Nat /\ x.e \in Nat
  <2>1. PAGESZ \in Nat /\ KBASE \in Nat /\ m \in Nat
    BY BoundsOf
  <2>2. G \in Nat /\ M \in Nat
    BY <2>1, SMTT(30)
  <2> QED  BY <2>1, <2>2 DEF Nodes
<1>3. x.s >= KBASE + G /\ x.e <= (KBASE + G) + M
  BY <1>1
<1> HIDE DEF G, M
<1>4. o \in Nat /\ len \in Nat \ {0} /\ o >= G /\ o + len <= G + M
  BY <1>2, <1>3, SMTT(30)
<1>5. q \in Nat /\ q * PAGESZ \in Nat /\ q * PAGESZ <= o /\ o < (q + 1) * PAGESZ
  BY <1>4, PageOfOffset
<1>6. n \in Nat \ {0} /\ (n - 1) * PAGESZ < len
  BY <1>4, AlignTight
<1>7. PagesOf(x) = q .. q + n - 1
  BY DEF PagesOf, Pages, kernel_fpn_from_vaddr
<1> HIDE DEF o, q, len, n
<1>8. g <= q
  <2>1. g * PAGESZ < (q + 1) * PAGESZ
    <3> DEFINE u == (q + 1) * PAGESZ
    <3>1. u \in Int
      BY <1>5, BoundsOf, SMTT(30)
    <3> HIDE DEF u
    <3>2. G < u
      BY <1>2, <1>4, <1>5, <3>1, SMTT(30) DEF u
    <3> QED  BY <3>2 DEF u, G
  <2>2. g \in Int /\ q + 1 \in Int
    BY <1>5, SMTT(30)
  <2>3. g < q + 1
    BY <2>1, <2>2, PageOrder
  <2> QED  BY <1>5, <2>3, SMTT(30)
<1>9. q + (n - 1) < g + m
  <2>1. (q + (n - 1)) * PAGESZ = (q * PAGESZ) + ((n - 1) * PAGESZ) /\ (g + m) * PAGESZ = G + M
    <3>1. PAGESZ \in Nat /\ n \in Nat /\ m \in Nat
      BY <1>6, BoundsOf
    <3> QED  BY <1>5, <3>1, SMTT(30) DEF G, M
  <2>2. (n - 1) * PAGESZ \in Int
    BY <1>6, BoundsOf, SMTT(30)
  <2> DEFINE u == q * PAGESZ
             v == (n - 1) * PAGESZ
  <2>3. u \in Nat /\ v \in Int /\ u <= o /\ v < len
    BY <1>5, <1>6, <2>2
  <2> HIDE DEF u, v
  <2>4. u + v < G + M
    BY <1>2, <1>4, <2>3, SMTT(30)
  <2>5. (q + (n - 1)) * PAGESZ < (g + m) * PAGESZ
    BY <2>1, <2>4 DEF u, v
  <2>6. q + (n - 1) \in Int /\ g + m \in Int
    BY <1>5, <1>6, SMTT(30)
  <2> QED  BY <2>5, <2>6, PageOrder
<1>10. \A f \in q .. q + n - 1 : f \in g .. g + (m - 1)
  BY <1>5, <1>6, <1>8, <1>9, SMTT(30)
<1> QED  BY <1>1, <1>7, <1>10

\* finish_proc() frees the frames behind every pool and every kernel region of the
\* process: what clear_symrg_range() forgets has gone with a pool.
LEMMA ReleasedPages ==
  ASSUME HeapsInv, PlacesInv, ObjectsInv, NEW p \in Proc, NEW f
  PROVE  f \in PoolPages(p) \cup SymbolPages(p) <=> PoolKeeps(p, f) \/ SymbolKeeps(p, f)
<1>1. f \in PoolPages(p) <=> PoolKeeps(p, f)
  BY DEF PoolPages, Pools, PoolKeeps, PagesOfPool
<1>2. symrgtbl[p] \in [Symbols -> Nodes]
  BY HeapOf DEF HeapsInv
<1>3. Range(symrgtbl[p]) = {symrgtbl[p][r] : r \in Symbols}
  BY <1>2 DEF Range
<1>4. \A r \in Symbols : is_kernel_vaddr_range(symrgtbl[p][r]) <=> symrgtbl[p][r].s >= KBASE
  <2> SUFFICES ASSUME NEW r \in Symbols
               PROVE  symrgtbl[p][r].s >= KBASE => symrgtbl[p][r].e > symrgtbl[p][r].s
    BY DEF is_kernel_vaddr_range
  <2>1. symrgtbl[p][r].s \in Nat /\ symrgtbl[p][r].e \in Nat
    BY <1>2 DEF Nodes
  <2>2. symrgtbl[p][r].s < symrgtbl[p][r].e => symrgtbl[p][r].e > symrgtbl[p][r].s
    BY <2>1, SMTT(30)
  <2> QED  BY <2>2 DEF ObjectsInv
<1>5. f \in SymbolPages(p) <=>
        \E r \in Symbols : /\ symrgtbl[p][r].s >= KBASE /\ ~Cleared(p, symrgtbl[p][r])
                           /\ f \in PagesOf(symrgtbl[p][r])
  BY <1>3, <1>4 DEF SymbolPages, PagesOf
<1>6. ASSUME NEW r \in Symbols, symrgtbl[p][r].s >= KBASE, Cleared(p, symrgtbl[p][r]),
             f \in PagesOf(symrgtbl[p][r])
      PROVE  PoolKeeps(p, f)
  <2>1. PICK pool \in Pools(p) : /\ symrgtbl[p][r].s >= pool.storage
                                 /\ symrgtbl[p][r].e <= pool.storage + pool.alloc_size
    BY <1>6 DEF Cleared
  <2>2. PICK k \in PoolId : kcpooltbl[p][k] # NULL /\ pool = kcpooltbl[p][k]
    BY DEF Pools
  <2>3. PoolOK(pool) /\ PoolPlaced(pool)
    BY <2>2 DEF HeapsInv, PoolsInv, PlacesInv
  <2>4. symrgtbl[p][r] \in Nodes /\ symrgtbl[p][r].s < symrgtbl[p][r].e
    BY <1>2, <1>6 DEF ObjectsInv
  <2>5. f \in PagesOfPool(pool)
    BY <1>6, <2>1, <2>3, <2>4, ClearedPages
  <2> QED  BY <2>2, <2>5 DEF PoolKeeps
<1> QED  BY <1>1, <1>5, <1>6 DEF SymbolKeeps

\* A symbol without a kernel region gets region x.
LEMMA SymbolStep ==
  ASSUME HeapsInv, NEW p \in Proc, NEW r \in Symbols, symrgtbl[p][r].s < KBASE,
         NEW x \in Nodes, symrgtbl' = [symrgtbl EXCEPT ![p][r] = x], Symbols' = Symbols
  PROVE  /\ \A q \in Proc, t \in Symbols :
              \/ symrgtbl'[q][t] = symrgtbl[q][t] /\ <<q, t>> # <<p, r>>
              \/ symrgtbl'[q][t] = x /\ q = p /\ t = r
         /\ \A q \in Proc : \A f : SymbolKeeps(q, f) => SymbolKeeps(q, f)'
         /\ x.s >= KBASE => \A f \in PagesOf(x) : SymbolKeeps(p, f)'
<1>1. symrgtbl \in [Proc -> [Symbols -> Nodes]]
  BY DEF HeapsInv, RegionsInv
<1>2. ASSUME NEW q \in Proc, NEW t \in Symbols
      PROVE  \/ symrgtbl'[q][t] = symrgtbl[q][t] /\ <<q, t>> # <<p, r>>
             \/ symrgtbl'[q][t] = x /\ q = p /\ t = r
  <2>1. CASE q = p /\ t = r
    BY <1>1, <2>1
  <2>2. CASE ~(q = p /\ t = r)
    <3>1. <<q, t>> # <<p, r>>
      BY <2>2
    <3>2. symrgtbl'[q][t] = symrgtbl[q][t]
      BY <1>1, <2>2
    <3> QED  BY <3>1, <3>2
  <2> QED  BY <2>1, <2>2
<1>3. ~(symrgtbl[p][r].s >= KBASE)
  <2>1. symrgtbl[p][r].s \in Nat
    BY <1>1 DEF Nodes
  <2> QED  BY <2>1, BoundsOf, SMTT(30)
<1>4. ASSUME NEW q \in Proc, NEW f, SymbolKeeps(q, f)
      PROVE  SymbolKeeps(q, f)'
  <2>1. PICK t \in Symbols : symrgtbl[q][t].s >= KBASE /\ f \in PagesOf(symrgtbl[q][t])
    BY <1>4 DEF SymbolKeeps
  <2>2. symrgtbl'[q][t] = symrgtbl[q][t]
    BY <1>2, <1>3, <2>1
  <2>3. symrgtbl'[q][t].s >= KBASE /\ f \in PagesOf(symrgtbl'[q][t])
    BY <2>1, <2>2
  <2> QED  BY <2>3 DEF SymbolKeeps
<1>5. ASSUME x.s >= KBASE, NEW f \in PagesOf(x)
      PROVE  SymbolKeeps(p, f)'
  <2>1. symrgtbl'[p][r] = x
    BY <1>1
  <2>2. symrgtbl'[p][r].s >= KBASE /\ f \in PagesOf(symrgtbl'[p][r])
    BY <1>5, <2>1
  <2> QED  BY <2>2 DEF SymbolKeeps
<1> QED  BY <1>2, <1>4, <1>5

\* A pool is created, or a slot of it is taken.
LEMMA PoolStep ==
  ASSUME HeapsInv, NEW p \in Proc, NEW k \in PoolId, NEW q, q # NULL,
         kcpooltbl[p][k] = NULL \/ PagesOfPool(kcpooltbl[p][k]) = PagesOfPool(q),
         kcpooltbl' = [kcpooltbl EXCEPT ![p][k] = q]
  PROVE  /\ \A u \in Proc, v \in PoolId :
              \/ kcpooltbl'[u][v] = kcpooltbl[u][v] /\ <<u, v>> # <<p, k>>
              \/ kcpooltbl'[u][v] = q /\ u = p /\ v = k
         /\ \A u \in Proc : \A f : PoolKeeps(u, f) => PoolKeeps(u, f)'
         /\ \A f \in PagesOfPool(q) : PoolKeeps(p, f)'
<1> DEFINE T == PoolRecord \cup {NULL}
<1>1. kcpooltbl \in [Proc -> [PoolId -> T]]
  BY DEF HeapsInv, PoolsInv
<1> HIDE DEF T
<1>2. ASSUME NEW u \in Proc, NEW v \in PoolId
      PROVE  \/ kcpooltbl'[u][v] = kcpooltbl[u][v] /\ <<u, v>> # <<p, k>>
             \/ kcpooltbl'[u][v] = q /\ u = p /\ v = k
  <2>1. CASE u = p /\ v = k
    BY <1>1, <2>1
  <2>2. CASE ~(u = p /\ v = k)
    <3>1. <<u, v>> # <<p, k>>
      BY <2>2
    <3>2. kcpooltbl'[u][v] = kcpooltbl[u][v]
      BY <1>1, <2>2
    <3> QED  BY <3>1, <3>2
  <2> QED  BY <2>1, <2>2
<1>3. ASSUME NEW u \in Proc, NEW f, PoolKeeps(u, f)
      PROVE  PoolKeeps(u, f)'
  <2>1. PICK v \in PoolId : kcpooltbl[u][v] # NULL /\ f \in PagesOfPool(kcpooltbl[u][v])
    BY <1>3 DEF PoolKeeps
  <2>2. kcpooltbl'[u][v] # NULL /\ f \in PagesOfPool(kcpooltbl'[u][v])
    <3>1. CASE kcpooltbl'[u][v] = kcpooltbl[u][v]
      BY <2>1, <3>1
    <3>2. CASE kcpooltbl'[u][v] = q /\ u = p /\ v = k
      BY <2>1, <3>2
    <3> QED  BY <1>2, <3>1, <3>2
  <2> QED  BY <2>2 DEF PoolKeeps
<1>4. ASSUME NEW f \in PagesOfPool(q)
      PROVE  PoolKeeps(p, f)'
  <2>1. kcpooltbl'[p][k] = q
    BY <1>1
  <2>2. kcpooltbl'[p][k] # NULL /\ f \in PagesOfPool(kcpooltbl'[p][k])
    BY <2>1
  <2> QED  BY <2>2 DEF PoolKeeps
<1> QED  BY <1>2, <1>3, <1>4

\* The region __kmalloc() gives to the symbol.
LEMMA KmallocRegion ==
  ASSUME HeapsInv, FramesInv, NEW p \in Proc, NEW r \in Symbols, NEW size \in 1 .. bounds.ksize,
         kmalloc(p, r, size)
  PROVE  \E x \in Nodes :
           /\ x.s >= KBASE /\ x.s < x.e /\ symrgtbl' = [symrgtbl EXCEPT ![p][r] = x]
           /\ FramesInv' /\ kpt' = kpt \cup PagesOf(x)
           /\ given' = [given EXCEPT ![p] = @ \cup PagesOf(x)]
           /\ \A f \in PagesOf(x) : f \in Frame /\ f \notin kpt
           /\ kernel_fpn_from_vaddr(x.s) \in PagesOf(x) /\ WithinPages(x)
<1>1. PICK a \in {kernel_vaddr_from_fpn(f) : f \in Frame} :
        /\ kernel_alloc_contiguous_region(p, size, a)
        /\ symrgtbl' = [symrgtbl EXCEPT ![p][r] = Region(a, a + size)]
  BY DEF kmalloc
<1>2. a \in Nat /\ a >= KBASE
  BY KernelAddress
<1>3. size \in Nat \ {0} /\ a + size \in Nat /\ a <= a + size /\ a < a + size /\ (a + size) - a = size
  BY <1>2, BoundsOf, SMTT(30)
<1> DEFINE x == Region(a, a + size)
           n == PAGE_ALIGNSZ(size) \div PAGESZ
<1>4. x \in Nodes /\ x.s = a /\ x.e = a + size
  BY <1>2, <1>3, RegionIsNode
<1> HIDE DEF x
<1>5. PagesOf(x) = Pages(a, n)
  BY <1>3, <1>4 DEF PagesOf
<1>6. bounds' = bounds
  BY DEF kmalloc
<1>7. /\ FramesInv' /\ kpt' = kpt \cup Pages(a, n)
      /\ given' = [given EXCEPT ![p] = @ \cup Pages(a, n)]
      /\ \A f \in Pages(a, n) : f \in Frame /\ f \notin kpt
      /\ n \in Nat \ {0}
      /\ \E f \in Frame : a = kernel_vaddr_from_fpn(f) /\ f \in Nat /\ Pages(a, n) = f .. f + (n - 1)
  BY <1>1, <1>3, <1>6, AllocatedFrames
<1> HIDE DEF n
<1>8. kernel_fpn_from_vaddr(x.s) \in PagesOf(x)
  <2>1. PICK f \in Nat : a = kernel_vaddr_from_fpn(f) /\ Pages(a, n) = f .. f + (n - 1)
    BY <1>7
  <2>2. f \in f .. f + (n - 1)
    BY <1>7, SMTT(30)
  <2> QED  BY <1>4, <1>5, <2>1, <2>2, FrameOfPage
<1>9. x.s >= KBASE /\ x.s < x.e /\ symrgtbl' = [symrgtbl EXCEPT ![p][r] = x]
  BY <1>1, <1>2, <1>3, <1>4 DEF x
<1>10. WithinPages(x)
  <2>1. PICK f \in Nat : a = kernel_vaddr_from_fpn(f)
    BY <1>7
  <2> QED  BY <1>4, <1>9, <2>1, FromPageOn DEF kernel_vaddr_from_fpn
<1> QED  BY <1>4, <1>5, <1>7, <1>8, <1>9, <1>10

\* Slots of one length fill a pool at most.
LEMMA SlotsFit ==
  ASSUME NEW z \in Nat, NEW a \in Nat \ {0}
  PROVE  z \div a \in Nat /\ (z \div a) * a \in Nat /\ (z \div a) * a <= z
<1> DEFINE c == z \div a
<1>1. c \in Nat
  BY SMTT(30)
<1>2. z = (a * c) + (z % a)
  BY SMTT(30)
<1>3. z % a \in Nat
  BY SMTT(30)
<1> HIDE DEF c
<1>4. c * a \in Nat /\ a * c = c * a
  BY <1>1, SMTT(30)
<1>5. c * a <= z
  BY <1>2, <1>3, <1>4, SMTT(30)
<1> QED  BY <1>1, <1>4, <1>5 DEF c

\* The pool libkmem_cache_pool_create() makes.
LEMMA CreatedPool ==
  ASSUME HeapsInv, FramesInv, NEW p \in Proc, NEW k \in PoolId, NEW size \in 1 .. bounds.pool,
         NEW align \in bounds.align, cache_pool_create(p, k, size, align)
  PROVE  \E q : /\ q # NULL /\ PoolOK(q) /\ PoolPlaced(q)
                /\ kcpooltbl' = [kcpooltbl EXCEPT ![p][k] = q]
                /\ FramesInv' /\ kpt' = kpt \cup PagesOfPool(q)
                /\ given' = [given EXCEPT ![p] = @ \cup PagesOfPool(q)]
                /\ \A f \in PagesOfPool(q) : f \in Frame /\ f \notin kpt
<1>1. PICK a \in {kernel_vaddr_from_fpn(f) : f \in Frame} :
        /\ kernel_alloc_contiguous_region(p, size, a)
        /\ kcpooltbl' = [kcpooltbl EXCEPT ![p][k] = Pool(a, size, align)]
  BY DEF cache_pool_create
<1>2. a \in Nat /\ a >= KBASE
  BY KernelAddress
<1>3. size \div align > 0 /\ bounds' = bounds
  BY DEF cache_pool_create, vars
<1>4. size \in Nat \ {0} /\ align \in Nat \ {0}
  BY BoundsOf, SMTT(30)
<1> DEFINE q == Pool(a, size, align)
           n == PAGE_ALIGNSZ(size) \div PAGESZ
<1>5. PoolOK(q)
  BY <1>2, <1>3, NewPool
<1>6. q # NULL
  BY <1>5, KernelAssumption DEF PoolOK
<1>7. /\ q.storage = a /\ q.alloc_size = PAGE_ALIGNSZ(size) /\ q.align = align
      /\ q.size = (size \div align) * align /\ q.slot_count = size \div align
  BY DEF Pool
<1> HIDE DEF q
<1>8. PagesOfPool(q) = Pages(a, n)
  BY <1>7 DEF PagesOfPool
<1>9. /\ FramesInv' /\ kpt' = kpt \cup Pages(a, n)
      /\ given' = [given EXCEPT ![p] = @ \cup Pages(a, n)]
      /\ \A f \in Pages(a, n) : f \in Frame /\ f \notin kpt
      /\ \E f \in Frame : a = kernel_vaddr_from_fpn(f) /\ f \in Nat /\ Pages(a, n) = f .. f + (n - 1)
  BY <1>1, <1>3, <1>4, AllocatedFrames
<1>10. PoolPlaced(q)
  <2>1. \E f \in Nat : q.storage = kernel_vaddr_from_fpn(f)
    BY <1>7, <1>9
  <2>2. q.align > 0
    BY <1>4, <1>7, SMTT(30)
  <2>3. q.size > 0 /\ q.size <= size
    <3> DEFINE c == size \div align
    <3>1. c \in Nat /\ c * align \in Nat /\ c * align <= size
      BY <1>4, SlotsFit
    <3>4. c > 0
      BY <1>3
    <3> HIDE DEF c
    <3>5. c * align > 0
      BY <1>4, <3>1, <3>4, SMTT(30)
    <3> QED  BY <1>7, <3>1, <3>5 DEF c
  <2>4. q.size = q.slot_count * q.align
    BY <1>7
  <2> QED  BY <1>7, <2>1, <2>2, <2>3, <2>4 DEF PoolPlaced
<1>11. kcpooltbl' = [kcpooltbl EXCEPT ![p][k] = q]
  BY <1>1 DEF q
<1> QED  BY <1>5, <1>6, <1>8, <1>9, <1>10, <1>11
----------------------------------------------------------------------------
(* What a step does to symbols, pools and kernel frames.                   *)

\* ALLOC or FREE.
HeapStep ==
  \E p \in Proc, r \in Symbols, x \in Nodes :
    /\ symrgtbl[p][r].s < KBASE /\ x.s < KBASE
    /\ symrgtbl' = [symrgtbl EXCEPT ![p][r] = x]
    /\ UNCHANGED <<alive, kcpooltbl, kpt, given>>

\* __kmalloc()
RegionStep ==
  \E p \in Proc, r \in Symbols, x \in Nodes :
    /\ p \in alive
    /\ symrgtbl[p][r].s < KBASE /\ x.s >= KBASE /\ x.s < x.e
    /\ symrgtbl' = [symrgtbl EXCEPT ![p][r] = x]
    /\ kpt' = kpt \cup PagesOf(x)
    /\ given' = [given EXCEPT ![p] = @ \cup PagesOf(x)]
    /\ \A f \in PagesOf(x) : f \in Frame /\ f \notin kpt
    /\ kernel_fpn_from_vaddr(x.s) \in PagesOf(x) /\ WithinPages(x)
    /\ UNCHANGED <<alive, kcpooltbl>>

\* libkmem_cache_pool_create()
CreateStep ==
  \E p \in Proc, k \in PoolId : \E q :
    /\ p \in alive
    /\ kcpooltbl[p][k] = NULL
    /\ q # NULL /\ PoolOK(q) /\ PoolPlaced(q)
    /\ kcpooltbl' = [kcpooltbl EXCEPT ![p][k] = q]
    /\ kpt' = kpt \cup PagesOfPool(q)
    /\ given' = [given EXCEPT ![p] = @ \cup PagesOfPool(q)]
    /\ \A f \in PagesOfPool(q) : f \in Frame /\ f \notin kpt
    /\ UNCHANGED <<alive, symrgtbl>>

\* __kmem_cache_alloc()
SlotBy(p, r, k, x, q) ==
  /\ p \in alive
  /\ kcpooltbl[p][k] # NULL /\ kcpooltbl[p][k].free_count > 0
  /\ symrgtbl[p][r].s < KBASE
  /\ x.s = HeadSlot(kcpooltbl[p][k]) /\ x.e = HeadSlot(kcpooltbl[p][k]) + kcpooltbl[p][k].size
  /\ x.s >= KBASE /\ x.s < x.e
  /\ symrgtbl' = [symrgtbl EXCEPT ![p][r] = x]
  /\ q # NULL /\ PoolOK(q) /\ PoolPlaced(q)
  /\ q.storage = kcpooltbl[p][k].storage /\ q.alloc_size = kcpooltbl[p][k].alloc_size
  /\ q.slot_count = kcpooltbl[p][k].slot_count /\ q.free_count = kcpooltbl[p][k].free_count - 1
  /\ q.align = kcpooltbl[p][k].align
  /\ HeadSlot(q) = HeadSlot(kcpooltbl[p][k]) + kcpooltbl[p][k].align
  /\ kcpooltbl' = [kcpooltbl EXCEPT ![p][k] = q]
  /\ UNCHANGED <<alive, kpt, given>>

SlotStep ==
  \E p \in Proc, r \in Symbols, k \in PoolId, x \in Nodes : \E q : SlotBy(p, r, k, x, q)

\* The end of a process.
FinishStep ==
  \E p \in Proc :
    /\ kpt' = kpt \ (PoolPages(p) \cup SymbolPages(p))
    /\ alive' = alive \ {p}
    /\ symrgtbl' = [symrgtbl EXCEPT ![p] = NoSymbols]
    /\ kcpooltbl' = [kcpooltbl EXCEPT ![p] = [k \in PoolId |-> NULL]]
    /\ given' = [given EXCEPT ![p] = {}]
    /\ LateSlot(p) => strayed'

IdleStep == UNCHANGED <<alive, symrgtbl, kcpooltbl, kpt, given>>

\* A symbol without a region.
LEMMA EmptyIsLow ==
  ASSUME HeapsInv
  PROVE  Empty.s < KBASE
<1>1. Empty.s = 0
  BY DEF Empty, Region
<1>2. 0 < KBASE
  BY BoundsOf, SMTT(30)
<1> QED  BY <1>1, <1>2

\* A slot is taken from a pool that is not full.
LEMMA SlotIsTaken ==
  ASSUME HeapsInv, PlacesInv, NEW p \in Proc, NEW r \in Symbols, NEW k \in PoolId,
         kmem_cache_alloc(p, r, k)
  PROVE  SlotStep
<1> DEFINE pool == kcpooltbl[p][k]
           q == TakeSlot(pool)
           h == HeadSlot(pool)
<1>1. pool # NULL /\ PoolOK(pool) /\ PoolPlaced(pool) /\ pool.slab \in {"partial", "empty"}
  BY DEF kmem_cache_alloc, HeapsInv, PoolsInv, PlacesInv
<1>2. PoolOK(q) /\ h \in Nat /\ h >= KBASE /\ pool.size \in Nat
  BY <1>1, TakenSlot
<1>3. q # NULL
  BY <1>2, KernelAssumption DEF PoolOK
<1>4. /\ pool \in [size : Nat, align : Nat, storage : Nat, alloc_size : Nat, slot_count : Nat,
                   free_count : Nat, slab : {"empty", "partial", "full"}]
      /\ pool.free_count <= pool.slot_count
  BY <1>1 DEF PoolOK, PoolRecord
<1>5. /\ q.storage = pool.storage /\ q.alloc_size = pool.alloc_size /\ q.align = pool.align
      /\ q.size = pool.size /\ q.slot_count = pool.slot_count
      /\ q.free_count = pool.free_count - 1
  <2> HIDE DEF pool
  <2> QED  BY <1>4, SMTT(30) DEF TakeSlot
<1>6. pool.free_count > 0
  BY <1>1 DEF PoolOK
<1> HIDE DEF pool, q
<1>7. PoolPlaced(q)
  BY <1>1, <1>5 DEF PoolPlaced
<1>8. HeadSlot(q) = h + pool.align
  <2> DEFINE s == pool.storage
             c == pool.slot_count
             f == pool.free_count
             a == pool.align
  <2>1. s \in Nat /\ c \in Nat /\ f \in Nat /\ a \in Nat /\ f <= c /\ f > 0
    BY <1>4, <1>6
  <2>2. HeadSlot(q) = s + ((c - (f - 1)) * a) /\ h = s + ((c - f) * a)
    BY <1>5 DEF HeadSlot
  <2> HIDE DEF s, c, f, a, h
  <2>3. (c - (f - 1)) * a = ((c - f) * a) + a
    BY <2>1, SMTT(30)
  <2>4. (c - f) * a \in Int
    BY <2>1, SMTT(30)
  <2> DEFINE y == (c - f) * a
  <2> HIDE DEF y
  <2>5. s + (y + a) = (s + y) + a
    BY <2>1, <2>4, SMTT(30) DEF y
  <2>6. HeadSlot(q) = h + a
    BY <2>2, <2>3, <2>5 DEF y
  <2> QED  BY <2>6 DEF a
<1> DEFINE x == Region(h, h + pool.size)
<1>9. /\ symrgtbl' = [symrgtbl EXCEPT ![p][r] = x] /\ kcpooltbl' = [kcpooltbl EXCEPT ![p][k] = q]
      /\ p \in alive /\ symrgtbl[p][r] = Empty /\ UNCHANGED <<alive, kpt, given>>
  BY DEF kmem_cache_alloc, ramVars, pool, q
<1> HIDE DEF h
<1>10. pool.size > 0
  BY <1>1 DEF PoolPlaced
<1>11. h + pool.size \in Nat /\ h <= h + pool.size /\ h < h + pool.size
  <2> DEFINE z == pool.size
  <2>1. z \in Nat /\ z > 0
    BY <1>2, <1>10
  <2> HIDE DEF z
  <2>2. h + z \in Nat /\ h <= h + z /\ h < h + z
    BY <1>2, <2>1, SMTT(30)
  <2> QED  BY <2>2 DEF z
<1>12. x \in Nodes /\ x.s = h /\ x.e = h + pool.size
  BY <1>2, <1>11, RegionIsNode
<1> HIDE DEF x
<1>13. symrgtbl[p][r].s < KBASE
  BY <1>9, EmptyIsLow
<1>14. x.s >= KBASE /\ x.s < x.e
  BY <1>2, <1>11, <1>12
<1> QED  BY <1>1, <1>2, <1>3, <1>5, <1>6, <1>7, <1>8, <1>9, <1>12, <1>13, <1>14
     DEF SlotStep, SlotBy, pool, h

\* Every step is one of these.
LEMMA KernelSteps ==
  ASSUME HeapsInv, FramesInv, PlacesInv, [KernelNext]_kernelVars
  PROVE  /\ FramesInv' /\ bounds' = bounds
         /\ HeapStep \/ RegionStep \/ CreateStep \/ SlotStep \/ FinishStep \/ IdleStep
<1> DEFINE Goal == /\ FramesInv' /\ bounds' = bounds
                   /\ HeapStep \/ RegionStep \/ CreateStep \/ SlotStep \/ FinishStep \/ IdleStep
<1>0. UNCHANGED ramVars /\ bounds' = bounds => FramesInv'
  BY DEF ramVars, FramesInv, FrameOK, Frame, Frames
<1>1. ASSUME NEW p \in Proc, NEW r \in Symbols, NEW size \in 1 .. bounds.ksize, kmalloc(p, r, size)
      PROVE  Goal
  <2>1. PICK x \in Nodes :
          /\ x.s >= KBASE /\ x.s < x.e /\ symrgtbl' = [symrgtbl EXCEPT ![p][r] = x]
          /\ FramesInv' /\ kpt' = kpt \cup PagesOf(x)
          /\ given' = [given EXCEPT ![p] = @ \cup PagesOf(x)]
          /\ \A f \in PagesOf(x) : f \in Frame /\ f \notin kpt
          /\ kernel_fpn_from_vaddr(x.s) \in PagesOf(x) /\ WithinPages(x)
    BY <1>1, KmallocRegion
  <2>2. /\ p \in alive /\ symrgtbl[p][r] = Empty /\ UNCHANGED <<alive, kcpooltbl>>
        /\ bounds' = bounds
    BY <1>1 DEF kmalloc
  <2>3. symrgtbl[p][r].s < KBASE
    BY <2>2, EmptyIsLow
  <2>4. RegionStep
    BY <2>1, <2>2, <2>3 DEF RegionStep
  <2> QED  BY <2>1, <2>2, <2>4
<1>2. ASSUME NEW p \in Proc, NEW k \in PoolId, NEW size \in 1 .. bounds.pool,
             NEW align \in bounds.align, cache_pool_create(p, k, size, align)
      PROVE  Goal
  <2>1. PICK q : /\ q # NULL /\ PoolOK(q) /\ PoolPlaced(q)
                 /\ kcpooltbl' = [kcpooltbl EXCEPT ![p][k] = q]
                 /\ FramesInv' /\ kpt' = kpt \cup PagesOfPool(q)
                 /\ given' = [given EXCEPT ![p] = @ \cup PagesOfPool(q)]
                 /\ \A f \in PagesOfPool(q) : f \in Frame /\ f \notin kpt
    BY <1>2, CreatedPool
  <2>2. p \in alive /\ kcpooltbl[p][k] = NULL /\ UNCHANGED <<alive, symrgtbl>> /\ bounds' = bounds
    BY <1>2 DEF cache_pool_create, vars, heapVars
  <2>3. CreateStep
    BY <2>1, <2>2 DEF CreateStep
  <2> QED  BY <2>1, <2>2, <2>3
<1>3. ASSUME NEW p \in Proc, NEW r \in Symbols, NEW k \in PoolId, kmem_cache_alloc(p, r, k)
      PROVE  Goal
  <2>1. UNCHANGED ramVars /\ bounds' = bounds
    BY <1>3 DEF kmem_cache_alloc
  <2> QED  BY <1>0, <1>3, <2>1, SlotIsTaken
<1>4. ASSUME NEW p \in Proc, NEW r \in HeapSymbols(p), user_op(p, r)
      PROVE  Goal
  <2>1. PICK x \in Nodes : x.s < KBASE /\ symrgtbl' = [symrgtbl EXCEPT ![p][r] = x]
    BY <1>4, UserOpIsLow
  <2>2. UNCHANGED <<bounds, alive, ramVars, kcpooltbl>>
    BY <1>4 DEF user_op, free, alloc, alloc_grow, Grow
  <2>3. r \in Symbols /\ symrgtbl[p][r].s < KBASE
    BY DEF HeapSymbols
  <2>4. HeapStep
    BY <2>1, <2>2, <2>3 DEF HeapStep, ramVars
  <2> QED  BY <1>0, <2>2, <2>4
<1>5. ASSUME NEW p \in Proc, finish_proc(p)
      PROVE  Goal
  <2>1. /\ kernel_release(PoolPages(p) \cup SymbolPages(p)) /\ given' = [given EXCEPT ![p] = {}]
        /\ bounds' = bounds /\ held' = held
    BY <1>5 DEF finish_proc
  <2>2. FramesInv' /\ kpt' = kpt \ (PoolPages(p) \cup SymbolPages(p))
    BY <2>1, ReleasedFrames
  <2>3. FinishStep
    BY <1>5, <2>1, <2>2 DEF FinishStep, finish_proc
  <2> QED  BY <2>1, <2>2, <2>3
<1>6. ASSUME NEW f \in Frame, get_user_frame(f) \/ put_user_frame(f)
      PROVE  Goal
  <2>1. FramesInv' /\ UNCHANGED <<vars, kpt, given, kcpooltbl>>
    BY <1>6, UserFrames
  <2>2. IdleStep /\ bounds' = bounds
    BY <2>1 DEF IdleStep, vars, heapVars
  <2> QED  BY <2>1, <2>2
<1>7. ASSUME UNCHANGED kernelVars
      PROVE  Goal
  <2>1. IdleStep /\ bounds' = bounds /\ UNCHANGED ramVars
    BY <1>7 DEF IdleStep, kernelVars, ramVars, vars, heapVars
  <2> QED  BY <1>0, <2>1
<1> HIDE DEF Goal
<1>8. ASSUME NEW p \in Proc, kernel_op(p)
      PROVE  Goal
  BY <1>1, <1>2, <1>3, <1>8 DEF kernel_op
<1>9. ASSUME KernelNext
      PROVE  Goal
  BY <1>4, <1>5, <1>6, <1>8, <1>9 DEF KernelNext
<1>10. Goal
  BY <1>7, <1>9
<1> QED  BY <1>10 DEF Goal

\* Symbols and pools keep what they have, and what is mapped is kept too.
LEMMA KeptStays ==
  ASSUME MappedIsKept, alive \subseteq Proc, alive' = alive,
         \A p \in Proc : \A f : PoolKeeps(p, f) => PoolKeeps(p, f)',
         \A p \in Proc : \A f : SymbolKeeps(p, f) => SymbolKeeps(p, f)',
         \A f \in kpt' : f \in kpt \/ \E p \in alive : PoolKeeps(p, f)' \/ SymbolKeeps(p, f)'
  PROVE  MappedIsKept'
<1>1. ASSUME NEW f \in kpt'
      PROVE  \E p \in alive' : PoolKeeps(p, f)' \/ SymbolKeeps(p, f)'
  <2>1. CASE f \in kpt
    <3>1. PICK p \in alive : PoolKeeps(p, f) \/ SymbolKeeps(p, f)
      BY <2>1 DEF MappedIsKept
    <3>2. p \in Proc /\ p \in alive'
      OBVIOUS
    <3> QED  BY <3>1, <3>2
  <2> QED  BY <2>1
<1> QED  BY <1>1 DEF MappedIsKept

\* Only the end of a process that has taken a late slot is remembered.
LEMMA Strays ==
  ASSUME [KernelNext]_kernelVars
  PROVE  \/ strayed' = strayed
         \/ strayed' = TRUE /\ \E p \in alive : LateSlot(p)
<1> DEFINE Goal == strayed' = strayed \/ (strayed' = TRUE /\ \E p \in alive : LateSlot(p))
<1>1. ASSUME NEW p \in Proc, kernel_op(p)
      PROVE  strayed' = strayed
  <2>1. ASSUME NEW r \in Symbols, NEW size \in 1 .. bounds.ksize, kmalloc(p, r, size)
        PROVE  strayed' = strayed
    BY <2>1 DEF kmalloc, kernel_alloc_contiguous_region
  <2>2. ASSUME NEW k \in PoolId, NEW size \in 1 .. bounds.pool, NEW align \in bounds.align,
               cache_pool_create(p, k, size, align)
        PROVE  strayed' = strayed
    BY <2>2 DEF cache_pool_create, kernel_alloc_contiguous_region
  <2>3. ASSUME NEW r \in Symbols, NEW k \in PoolId, kmem_cache_alloc(p, r, k)
        PROVE  strayed' = strayed
    BY <2>3 DEF kmem_cache_alloc, ramVars
  <2> QED  BY <1>1, <2>1, <2>2, <2>3 DEF kernel_op
<1>2. ASSUME NEW p \in Proc, NEW r \in HeapSymbols(p), user_op(p, r)
      PROVE  strayed' = strayed
  BY <1>2 DEF user_op, ramVars
<1>3. ASSUME NEW f \in Frame, get_user_frame(f) \/ put_user_frame(f)
      PROVE  strayed' = strayed
  BY <1>3 DEF get_user_frame, put_user_frame
<1>4. ASSUME NEW p \in Proc, finish_proc(p)
      PROVE  Goal
  <2>1. p \in alive /\ strayed' = IF LateSlot(p) THEN TRUE ELSE strayed
    BY <1>4 DEF finish_proc
  <2> QED  BY <2>1
<1>5. ASSUME UNCHANGED kernelVars
      PROVE  strayed' = strayed
  BY <1>5 DEF kernelVars, ramVars
<1>6. ASSUME KernelNext
      PROVE  Goal
  BY <1>1, <1>2, <1>3, <1>4, <1>6 DEF KernelNext
<1> QED  BY <1>5, <1>6

\* Frames stay with a process that has not finished, whatever the step.
LEMMA KernelInvStep ==
  ASSUME KernelInv, [KernelNext]_kernelVars
  PROVE  KernelInv'
<1>0. HeapsInv /\ FramesInv /\ PlacesInv /\ ObjectsInv /\ MappedIsKept /\ strayed \in BOOLEAN
  BY DEF KernelInv
<1>1. HeapsInv' /\ Symbols' = Symbols
  BY <1>0, StepKeepsHeaps
<1>2. /\ FramesInv' /\ bounds' = bounds
      /\ HeapStep \/ RegionStep \/ CreateStep \/ SlotStep \/ FinishStep \/ IdleStep
  BY <1>0, KernelSteps
<1>3. \A q : PoolPlaced(q) => PoolPlaced(q)'
  BY <1>2 DEF PoolPlaced
<1>4. alive \subseteq Proc
  BY <1>0 DEF HeapsInv, RegionsInv
<1>5. UNCHANGED symrgtbl => /\ ObjectsInv'
                            /\ \A p \in Proc : \A f : SymbolKeeps(p, f) => SymbolKeeps(p, f)'
  BY <1>0, <1>1 DEF ObjectsInv, SymbolKeeps
<1>6. UNCHANGED kcpooltbl => /\ PlacesInv'
                             /\ \A p \in Proc : \A f : PoolKeeps(p, f) => PoolKeeps(p, f)'
  BY <1>0, <1>3 DEF PlacesInv, PoolKeeps
<1>7. ASSUME NEW p \in Proc, NEW r \in Symbols, NEW x \in Nodes, symrgtbl[p][r].s < KBASE,
             x.s >= KBASE => x.s < x.e, symrgtbl' = [symrgtbl EXCEPT ![p][r] = x]
      PROVE  /\ ObjectsInv'
             /\ \A q \in Proc : \A f : SymbolKeeps(q, f) => SymbolKeeps(q, f)'
             /\ x.s >= KBASE => \A f \in PagesOf(x) : SymbolKeeps(p, f)'
  <2>1. /\ \A q \in Proc, t \in Symbols :
             \/ symrgtbl'[q][t] = symrgtbl[q][t] /\ <<q, t>> # <<p, r>>
             \/ symrgtbl'[q][t] = x /\ q = p /\ t = r
        /\ \A q \in Proc : \A f : SymbolKeeps(q, f) => SymbolKeeps(q, f)'
        /\ x.s >= KBASE => \A f \in PagesOf(x) : SymbolKeeps(p, f)'
    BY <1>0, <1>1, <1>7, SymbolStep
  <2>2. ASSUME NEW q \in Proc, NEW t \in Symbols, symrgtbl'[q][t].s >= KBASE
        PROVE  symrgtbl'[q][t].s < symrgtbl'[q][t].e
    <3>1. CASE symrgtbl'[q][t] = symrgtbl[q][t]
      BY <1>0, <2>2, <3>1 DEF ObjectsInv
    <3>2. CASE symrgtbl'[q][t] = x
      BY <1>7, <2>2, <3>2
    <3> QED  BY <2>1, <3>1, <3>2
  <2>3. ObjectsInv'
    BY <1>1, <2>2 DEF ObjectsInv
  <2> QED  BY <2>1, <2>3
<1>8. ASSUME NEW p \in Proc, NEW k \in PoolId, NEW q, q # NULL, PoolPlaced(q),
             kcpooltbl[p][k] = NULL \/ PagesOfPool(kcpooltbl[p][k]) = PagesOfPool(q),
             kcpooltbl' = [kcpooltbl EXCEPT ![p][k] = q]
      PROVE  /\ PlacesInv'
             /\ \A u \in Proc : \A f : PoolKeeps(u, f) => PoolKeeps(u, f)'
             /\ \A f \in PagesOfPool(q) : PoolKeeps(p, f)'
  <2>1. /\ \A u \in Proc, v \in PoolId :
             \/ kcpooltbl'[u][v] = kcpooltbl[u][v] /\ <<u, v>> # <<p, k>>
             \/ kcpooltbl'[u][v] = q /\ u = p /\ v = k
        /\ \A u \in Proc : \A f : PoolKeeps(u, f) => PoolKeeps(u, f)'
        /\ \A f \in PagesOfPool(q) : PoolKeeps(p, f)'
    BY <1>0, <1>8, PoolStep
  <2>2. ASSUME NEW u \in Proc, NEW v \in PoolId, kcpooltbl'[u][v] # NULL
        PROVE  PoolPlaced(kcpooltbl[u][v])'
    <3>1. CASE kcpooltbl'[u][v] = kcpooltbl[u][v]
      <4>1. PoolPlaced(kcpooltbl[u][v])
        BY <1>0, <2>2, <3>1 DEF PlacesInv
      <4> QED  BY <1>2, <3>1, <4>1 DEF PoolPlaced
    <3>2. CASE kcpooltbl'[u][v] = q
      BY <1>2, <1>8, <3>2 DEF PoolPlaced
    <3> QED  BY <2>1, <3>1, <3>2
  <2>3. PlacesInv'
    BY <2>2 DEF PlacesInv
  <2> QED  BY <2>1, <2>3
<1> DEFINE Goal == PlacesInv' /\ ObjectsInv' /\ MappedIsKept'
<1>9. ASSUME HeapStep
      PROVE  Goal
  <2>1. PICK p \in Proc, r \in Symbols, x \in Nodes :
          /\ symrgtbl[p][r].s < KBASE /\ x.s < KBASE
          /\ symrgtbl' = [symrgtbl EXCEPT ![p][r] = x]
          /\ UNCHANGED <<alive, kcpooltbl, kpt, given>>
    BY <1>9 DEF HeapStep
  <2>2. ~(x.s >= KBASE)
    <3>1. x.s \in Nat
      BY DEF Nodes
    <3> QED  BY <1>0, <2>1, <3>1, BoundsOf, SMTT(30)
  <2>3. ObjectsInv' /\ \A q \in Proc : \A f : SymbolKeeps(q, f) => SymbolKeeps(q, f)'
    BY <1>7, <2>1, <2>2
  <2>4. PlacesInv' /\ \A q \in Proc : \A f : PoolKeeps(q, f) => PoolKeeps(q, f)'
    BY <1>6, <2>1
  <2>5. alive' = alive /\ \A f \in kpt' : f \in kpt
    BY <2>1
  <2>6. MappedIsKept'
    BY <1>0, <1>4, <2>3, <2>4, <2>5, KeptStays
  <2> QED  BY <2>3, <2>4, <2>6
<1>10. ASSUME RegionStep
       PROVE  Goal
  <2>1. PICK p \in Proc, r \in Symbols, x \in Nodes :
          /\ p \in alive
          /\ symrgtbl[p][r].s < KBASE /\ x.s >= KBASE /\ x.s < x.e
          /\ symrgtbl' = [symrgtbl EXCEPT ![p][r] = x]
          /\ kpt' = kpt \cup PagesOf(x)
          /\ UNCHANGED <<alive, kcpooltbl>>
    BY <1>10 DEF RegionStep
  <2>2. /\ ObjectsInv' /\ \A q \in Proc : \A f : SymbolKeeps(q, f) => SymbolKeeps(q, f)'
        /\ \A f \in PagesOf(x) : SymbolKeeps(p, f)'
    BY <1>7, <2>1
  <2>3. PlacesInv' /\ \A q \in Proc : \A f : PoolKeeps(q, f) => PoolKeeps(q, f)'
    BY <1>6, <2>1
  <2>4. /\ alive' = alive
        /\ \A f \in kpt' : f \in kpt \/ \E q \in alive : PoolKeeps(q, f)' \/ SymbolKeeps(q, f)'
    BY <2>1, <2>2
  <2>5. MappedIsKept'
    BY <1>0, <1>4, <2>2, <2>3, <2>4, KeptStays
  <2> QED  BY <2>2, <2>3, <2>5
<1>11. ASSUME CreateStep
       PROVE  Goal
  <2>1. PICK p \in Proc, k \in PoolId : \E q :
          /\ p \in alive
          /\ kcpooltbl[p][k] = NULL
          /\ q # NULL /\ PoolPlaced(q)
          /\ kcpooltbl' = [kcpooltbl EXCEPT ![p][k] = q]
          /\ kpt' = kpt \cup PagesOfPool(q)
          /\ UNCHANGED <<alive, symrgtbl>>
    BY <1>11 DEF CreateStep
  <2>2. PICK q :
          /\ p \in alive
          /\ kcpooltbl[p][k] = NULL
          /\ q # NULL /\ PoolPlaced(q)
          /\ kcpooltbl' = [kcpooltbl EXCEPT ![p][k] = q]
          /\ kpt' = kpt \cup PagesOfPool(q)
          /\ UNCHANGED <<alive, symrgtbl>>
    BY <2>1
  <2>3. /\ PlacesInv'
        /\ \A u \in Proc : \A f : PoolKeeps(u, f) => PoolKeeps(u, f)'
        /\ \A f \in PagesOfPool(q) : PoolKeeps(p, f)'
    BY <1>8, <2>2
  <2>4. ObjectsInv' /\ \A u \in Proc : \A f : SymbolKeeps(u, f) => SymbolKeeps(u, f)'
    BY <1>5, <2>2
  <2>5. /\ alive' = alive
        /\ \A f \in kpt' : f \in kpt \/ \E u \in alive : PoolKeeps(u, f)' \/ SymbolKeeps(u, f)'
    BY <2>2, <2>3
  <2>6. MappedIsKept'
    BY <1>0, <1>4, <2>3, <2>4, <2>5, KeptStays
  <2> QED  BY <2>3, <2>4, <2>6
<1>12. ASSUME SlotStep
       PROVE  Goal
  <2>1. PICK p \in Proc, r \in Symbols, k \in PoolId, x \in Nodes : \E q : SlotBy(p, r, k, x, q)
    BY <1>12 DEF SlotStep
  <2>0. PICK q : SlotBy(p, r, k, x, q)
    BY <2>1
  <2>2. /\ symrgtbl[p][r].s < KBASE /\ x.s < x.e
        /\ symrgtbl' = [symrgtbl EXCEPT ![p][r] = x]
        /\ q # NULL /\ PoolPlaced(q)
        /\ q.storage = kcpooltbl[p][k].storage /\ q.alloc_size = kcpooltbl[p][k].alloc_size
        /\ kcpooltbl' = [kcpooltbl EXCEPT ![p][k] = q]
        /\ UNCHANGED <<alive, kpt, given>>
    BY <2>0 DEF SlotBy
  <2>3. PagesOfPool(kcpooltbl[p][k]) = PagesOfPool(q)
    BY <2>2 DEF PagesOfPool
  <2>4. PlacesInv' /\ \A u \in Proc : \A f : PoolKeeps(u, f) => PoolKeeps(u, f)'
    BY <1>8, <2>2, <2>3
  <2>5. ObjectsInv' /\ \A u \in Proc : \A f : SymbolKeeps(u, f) => SymbolKeeps(u, f)'
    BY <1>7, <2>2
  <2>6. alive' = alive /\ \A f \in kpt' : f \in kpt
    BY <2>2
  <2>7. MappedIsKept'
    BY <1>0, <1>4, <2>4, <2>5, <2>6, KeptStays
  <2> QED  BY <2>4, <2>5, <2>7
<1>13. ASSUME FinishStep
       PROVE  Goal
  <2>1. PICK p \in Proc :
          /\ kpt' = kpt \ (PoolPages(p) \cup SymbolPages(p))
          /\ alive' = alive \ {p}
          /\ symrgtbl' = [symrgtbl EXCEPT ![p] = NoSymbols]
          /\ kcpooltbl' = [kcpooltbl EXCEPT ![p] = [k \in PoolId |-> NULL]]
    BY <1>13 DEF FinishStep
  <2>2. /\ \A q \in Proc : q # p => symrgtbl'[q] = symrgtbl[q] /\ kcpooltbl'[q] = kcpooltbl[q]
        /\ symrgtbl'[p] = NoSymbols /\ kcpooltbl'[p] = [k \in PoolId |-> NULL]
    BY <1>0, <2>1 DEF HeapsInv, RegionsInv, PoolsInv
  <2>3. PlacesInv'
    <3>1. ASSUME NEW u \in Proc, NEW v \in PoolId, kcpooltbl'[u][v] # NULL
          PROVE  PoolPlaced(kcpooltbl[u][v])'
      <4>1. u # p
        BY <2>2, <3>1
      <4>2. kcpooltbl'[u][v] = kcpooltbl[u][v]
        BY <2>2, <4>1
      <4>3. PoolPlaced(kcpooltbl[u][v])
        BY <1>0, <3>1, <4>2 DEF PlacesInv
      <4> QED  BY <1>2, <4>2, <4>3 DEF PoolPlaced
    <3> QED  BY <3>1 DEF PlacesInv
  <2>4. ObjectsInv'
    <3>1. ASSUME NEW u \in Proc, NEW t \in Symbols, symrgtbl'[u][t].s >= KBASE
          PROVE  symrgtbl'[u][t].s < symrgtbl'[u][t].e
      <4>1. u # p
        <5>1. SUFFICES ASSUME u = p PROVE FALSE
          OBVIOUS
        <5>2. symrgtbl'[u][t].s = 0
          BY <2>2, <5>1, EmptyIsNode DEF NoSymbols
        <5>3. 0 >= KBASE
          BY <3>1, <5>2
        <5>4. KBASE \in Nat /\ KBASE > 0
          BY <1>0, BoundsOf
        <5> QED  BY <5>3, <5>4, SMTT(30)
      <4>2. symrgtbl'[u][t] = symrgtbl[u][t]
        BY <2>2, <4>1
      <4> QED  BY <1>0, <3>1, <4>2 DEF ObjectsInv
    <3> QED  BY <1>1, <3>1 DEF ObjectsInv
  <2>5. ASSUME NEW f \in kpt'
        PROVE  \E q \in alive' : PoolKeeps(q, f)' \/ SymbolKeeps(q, f)'
    <3>1. f \in kpt /\ f \notin PoolPages(p) \cup SymbolPages(p)
      BY <2>1
    <3>2. PICK q \in alive : PoolKeeps(q, f) \/ SymbolKeeps(q, f)
      BY <1>0, <3>1 DEF MappedIsKept
    <3>3. ~(PoolKeeps(p, f) \/ SymbolKeeps(p, f))
      BY <1>0, <3>1, ReleasedPages
    <3>4. q # p /\ q \in Proc
      BY <1>4, <3>2, <3>3
    <3>5. symrgtbl'[q] = symrgtbl[q] /\ kcpooltbl'[q] = kcpooltbl[q] /\ q \in alive'
      BY <2>1, <2>2, <3>4
    <3>6. PoolKeeps(q, f) => PoolKeeps(q, f)'
      BY <3>5 DEF PoolKeeps
    <3>7. SymbolKeeps(q, f) => SymbolKeeps(q, f)'
      BY <1>1, <3>5 DEF SymbolKeeps
    <3> QED  BY <3>2, <3>5, <3>6, <3>7
  <2>6. MappedIsKept'
    BY <2>5 DEF MappedIsKept
  <2> QED  BY <2>3, <2>4, <2>6
<1>14. ASSUME IdleStep
       PROVE  Goal
  <2>1. alive' = alive /\ (\A f \in kpt' : f \in kpt) /\ UNCHANGED <<symrgtbl, kcpooltbl>>
    BY <1>14 DEF IdleStep
  <2>2. ObjectsInv' /\ \A u \in Proc : \A f : SymbolKeeps(u, f) => SymbolKeeps(u, f)'
    BY <1>5, <2>1
  <2>3. PlacesInv' /\ \A u \in Proc : \A f : PoolKeeps(u, f) => PoolKeeps(u, f)'
    BY <1>6, <2>1
  <2>4. MappedIsKept'
    BY <1>0, <1>4, <2>1, <2>2, <2>3, KeptStays
  <2> QED  BY <2>2, <2>3, <2>4
<1> HIDE DEF Goal
<1>15. Goal
  BY <1>2, <1>9, <1>10, <1>11, <1>12, <1>13, <1>14
<1>16. (strayed \in BOOLEAN)'
  BY <1>0, Strays
<1> QED  BY <1>1, <1>2, <1>15, <1>16 DEF Goal, KernelInv

\* All frames are free at the start.
LEMMA InitKernel ==
  ASSUME KernelInit
  PROVE  KernelInv
<1>1. HeapsInv
  BY InitHeaps
<1>2. /\ free_fp = [f \in Frame |-> 1] /\ used_fp = [f \in Frame |-> 0] /\ kpt = {} /\ held = {}
      /\ kcpooltbl = [p \in Proc |-> [k \in PoolId |-> NULL]] /\ given = [p \in Proc |-> {}]
      /\ strayed = FALSE
  BY DEF KernelInit, MEMPHY_format, Frame
<1>3. FramesInv
  <2>1. \A f \in Frame : FrameOK(f)
    BY <1>2 DEF FrameOK
  <2>2. 0 \in Nat /\ 1 \in Nat
    BY SMTT(30)
  <2>3. free_fp \in [Frame -> Nat] /\ used_fp \in [Frame -> Nat]
    BY <1>2, <2>2
  <2>4. given \in [Proc -> SUBSET Frame]
    BY <1>2
  <2> QED  BY <1>2, <2>1, <2>3, <2>4 DEF FramesInv
<1>4. PlacesInv
  BY <1>2 DEF PlacesInv
<1>5. ASSUME NEW p \in Proc, NEW r \in Symbols, symrgtbl[p][r].s >= KBASE
      PROVE  FALSE
  <2>1. symrgtbl[p][r] = Empty
    <3>1. PICK R \in SUBSET Rgid : symrgtbl = [q \in Proc |-> [t \in R |-> Empty]]
      BY DEF KernelInit, Init
    <3>2. Symbols = R
      BY <3>1 DEF Symbols
    <3> QED  BY <3>1, <3>2
  <2>2. 0 >= KBASE
    BY <1>5, <2>1, EmptyIsNode
  <2>3. KBASE \in Nat /\ KBASE > 0
    BY <1>1, BoundsOf
  <2> QED  BY <2>2, <2>3, SMTT(30)
<1>6. ObjectsInv
  BY <1>5 DEF ObjectsInv
<1>7. MappedIsKept
  BY <1>2 DEF MappedIsKept
<1> QED  BY <1>1, <1>2, <1>3, <1>4, <1>6, <1>7 DEF KernelInv

\* Frames, pools and kernel regions agree throughout.
THEOREM KernelInvariant == KernelSpec => []KernelInv
<1>1. KernelInv /\ [KernelNext]_kernelVars => KernelInv'
  BY KernelInvStep
<1> QED  BY <1>1, InitKernel, PTL DEF KernelSpec

\* What the lists and the table say of a frame.
LEMMA UsedInKernel ==
  ASSUME KernelInv
  PROVE  UsedIsMapped
<1>0. HeapsInv /\ FramesInv /\ ObjectsInv /\ strayed \in BOOLEAN
  BY DEF KernelInv
<1>1. \A f \in Frame : FrameOK(f)
  BY <1>0 DEF FramesInv
<1>2. \A f \in Frame : free_fp[f] \in 0 .. 1 /\ used_fp[f] \in 0 .. 1
  BY <1>1, SMTT(30) DEF FrameOK
<1>3. free_fp \in [Frame -> 0 .. 1] /\ used_fp \in [Frame -> 0 .. 1]
  BY <1>0, <1>2 DEF FramesInv
<1>4. ASSUME NEW p \in Proc, NEW r \in Symbols \ HeapSymbols(p)
      PROVE  is_kernel_vaddr_range(symrgtbl[p][r])
  <2>1. symrgtbl[p][r].s \in Nat /\ symrgtbl[p][r].e \in Nat
    BY <1>0 DEF HeapsInv, RegionsInv, Nodes
  <2>2. ~(symrgtbl[p][r].s < KBASE)
    BY DEF HeapSymbols
  <2>3. symrgtbl[p][r].s >= KBASE
    BY <1>0, <2>1, <2>2, BoundsOf, SMTT(30)
  <2>4. symrgtbl[p][r].s < symrgtbl[p][r].e
    BY <1>0, <2>3 DEF ObjectsInv
  <2>5. symrgtbl[p][r].e > symrgtbl[p][r].s
    BY <2>1, <2>4, SMTT(30)
  <2> QED  BY <2>3, <2>5 DEF is_kernel_vaddr_range
<1>5. ASSUME NEW p \in Proc, NEW pool \in Pools(p)
      PROVE  pool.free_count \in 0 .. pool.slot_count
  <2>1. PoolOK(pool)
    BY <1>0 DEF Pools, HeapsInv, PoolsInv
  <2>2. pool.free_count \in Nat /\ pool.slot_count \in Nat /\ pool.free_count <= pool.slot_count
    BY <2>1 DEF PoolOK, PoolRecord
  <2> QED  BY <2>2, SMTT(30)
<1>6. KernelTypeOK
  BY <1>0, <1>3, <1>4, <1>5 DEF KernelTypeOK, FramesInv
<1>7. ASSUME NEW f \in Frame
      PROVE  /\ free_fp[f] + used_fp[f] = IF f \in held THEN 0 ELSE 1
             /\ f \in kpt <=> used_fp[f] = 1
  BY <1>1, SMTT(30) DEF FrameOK
<1> QED  BY <1>6, <1>7 DEF UsedIsMapped

\* The table maps exactly the frames in the used list, and every frame is in one
\* place: free, used for the kernel, or behind a user page.
THEOREM UsedFramesAreMapped == CopySpec => []UsedIsMapped
BY KernelInvariant, CopyImplementsKernel, UsedInKernel, PTL

\* A frame that is mapped has a process that has not finished.
LEMMA ReturnedInKernel ==
  ASSUME KernelInv
  PROVE  KernelMemReturned
<1>1. SUFFICES ASSUME alive = {}
               PROVE  kpt = {} /\ \A f \in Frame \ held : free_fp[f] = 1 /\ used_fp[f] = 0
  BY DEF KernelMemReturned
<1>2. kpt = {}
  BY <1>1 DEF KernelInv, MappedIsKept
<1>3. \A f \in Frame : FrameOK(f)
  BY DEF KernelInv, FramesInv
<1>4. ASSUME NEW f \in Frame \ held
      PROVE  free_fp[f] = 1 /\ used_fp[f] = 0
  BY <1>2, <1>3 DEF FrameOK
<1> QED  BY <1>2, <1>4

\* free_pcb_memph() collects all kernel memory, whatever the sizes of pools and
\* regions and whatever order processes finish in.
THEOREM KernelMemoryComesBack == CopySpec => []KernelMemReturned
BY KernelInvariant, CopyImplementsKernel, ReturnedInKernel, PTL
----------------------------------------------------------------------------
(* The bytes of objects.                                                   *)

UserBytes(m, rg) == [i \in 0 .. rg.e - rg.s - 1 |-> m[rg.s + i]]
KernelBytes(m, rg) == [i \in 0 .. rg.e - rg.s - 1 |-> m[(rg.s + i) - KBASE]]

\* An address of a region, and its offset.
LEMMA OffsetOf ==
  ASSUME NEW rg \in Nodes, NEW i \in 0 .. rg.e - rg.s - 1
  PROVE  i \in Nat /\ rg.s + i \in Bytes(rg) /\ rg.s + i \in Nat
<1>1. rg.s \in Nat /\ rg.e \in Nat
  BY DEF Nodes
<1> DEFINE s == rg.s
           e == rg.e
<1>2. s \in Nat /\ e \in Nat /\ i \in 0 .. e - s - 1
  BY <1>1
<1> HIDE DEF s, e
<1>3. i \in Nat /\ s + i \in Nat /\ s + i \in s .. e - 1
  BY <1>2, SMTT(30)
<1> QED  BY <1>3 DEF Bytes, s, e

\* Memory that is the same at the addresses of a region.
LEMMA UserKept ==
  ASSUME NEW rg \in Nodes, NEW m, NEW n, \A a \in Bytes(rg) : n[a] = m[a]
  PROVE  UserBytes(n, rg) = UserBytes(m, rg)
<1>1. \A i \in 0 .. rg.e - rg.s - 1 : n[rg.s + i] = m[rg.s + i]
  BY OffsetOf
<1> QED  BY <1>1 DEF UserBytes

\* The same of kernel memory.
LEMMA KernelKept ==
  ASSUME NEW rg \in Nodes, NEW m, NEW n, \A a \in Bytes(rg) : n[a - KBASE] = m[a - KBASE]
  PROVE  KernelBytes(n, rg) = KernelBytes(m, rg)
<1>1. \A i \in 0 .. rg.e - rg.s - 1 : n[(rg.s + i) - KBASE] = m[(rg.s + i) - KBASE]
  BY OffsetOf
<1> QED  BY <1>1 DEF KernelBytes

\* The bytes of a symbol that keeps its region.
LEMMA ContentsAre ==
  ASSUME HeapsInv, NEW p \in Proc, NEW r \in Symbols, symrgtbl'[p][r] = symrgtbl[p][r], Symbols' = Symbols
  PROVE  /\ symrgtbl[p][r].s < KBASE =>
              /\ Contents(p, r) = UserBytes(ubyte[p], symrgtbl[p][r])
              /\ Contents(p, r)' = UserBytes(ubyte'[p], symrgtbl[p][r])
         /\ ~(symrgtbl[p][r].s < KBASE) =>
              /\ Contents(p, r) = KernelBytes(kbyte, symrgtbl[p][r])
              /\ Contents(p, r)' = KernelBytes(kbyte', symrgtbl[p][r])
<1>1. /\ r \in HeapSymbols(p) <=> symrgtbl[p][r].s < KBASE
      /\ r \in HeapSymbols(p)' <=> symrgtbl[p][r].s < KBASE
  BY DEF HeapSymbols
<1>2. CASE symrgtbl[p][r].s < KBASE
  <2>1. Contents(p, r) = [i \in 0 .. symrgtbl[p][r].e - symrgtbl[p][r].s - 1 |->
                            ubyte[p][symrgtbl[p][r].s + i]]
    BY <1>1, <1>2 DEF Contents, user_vaddr
  <2>2. Contents(p, r)' = [i \in 0 .. symrgtbl'[p][r].e - symrgtbl'[p][r].s - 1 |->
                             ubyte'[p][symrgtbl'[p][r].s + i]]
    BY <1>1, <1>2 DEF Contents, user_vaddr
  <2> QED  BY <1>2, <2>1, <2>2 DEF UserBytes
<1>3. CASE ~(symrgtbl[p][r].s < KBASE)
  <2> DEFINE rg == symrgtbl[p][r]
             S == 0 .. rg.e - rg.s - 1
  <2>1. Contents(p, r) = [i \in S |-> kbyte[rg.s + i - KBASE]]
    BY <1>1, <1>3 DEF Contents, kernel_translate_vaddr
  <2>2. Contents(p, r)' = [i \in S |-> kbyte'[rg.s + i - KBASE]]
    BY <1>1, <1>3 DEF Contents, kernel_translate_vaddr
  <2>3. rg \in Nodes
    BY DEF HeapsInv, RegionsInv
  <2>4. \A i \in S : rg.s + i - KBASE = (rg.s + i) - KBASE
    <3> SUFFICES ASSUME NEW i \in S PROVE rg.s + i - KBASE = (rg.s + i) - KBASE
      OBVIOUS
    <3>1. i \in Nat
      <4> HIDE DEF rg
      <4> QED  BY <2>3, OffsetOf
    <3> DEFINE s == rg.s
    <3>2. s \in Nat /\ KBASE \in Nat
      BY <2>3, BoundsOf DEF Nodes
    <3> HIDE DEF s
    <3>3. s + i - KBASE = (s + i) - KBASE
      BY <3>1, <3>2, SMTT(30)
    <3> QED  BY <3>3 DEF s
  <2> HIDE DEF rg
  <2>5. /\ [i \in S |-> kbyte[rg.s + i - KBASE]] = [i \in S |-> kbyte[(rg.s + i) - KBASE]]
        /\ [i \in S |-> kbyte'[rg.s + i - KBASE]] = [i \in S |-> kbyte'[(rg.s + i) - KBASE]]
    BY <2>4
  <2>6. /\ [i \in S |-> kbyte[(rg.s + i) - KBASE]] = KernelBytes(kbyte, rg)
        /\ [i \in S |-> kbyte'[(rg.s + i) - KBASE]] = KernelBytes(kbyte', rg)
    BY DEF KernelBytes
  <2>7. Contents(p, r) = KernelBytes(kbyte, rg) /\ Contents(p, r)' = KernelBytes(kbyte', rg)
    BY <2>1, <2>2, <2>5, <2>6
  <2> QED  BY <1>3, <2>7 DEF rg
<1> QED  BY <1>2, <1>3

\* The addresses in RAM of the bytes in a page.
LEMMA PhysicalFrame ==
  ASSUME NEW F \in SUBSET Nat, NEW a \in Nat, a >= KBASE
  PROVE  a - KBASE \in Physical(F) <=> kernel_fpn_from_vaddr(a) \in F
<1>0. PAGESZ \in Nat \ {0} /\ KBASE \in Nat
  BY RegionsAssumption
<1> DEFINE o == a - KBASE
           q == o \div PAGESZ
<1>1. o \in Nat
  BY <1>0, SMTT(30)
<1>2. q \in Nat /\ q * PAGESZ \in Nat /\ q * PAGESZ <= o /\ o < (q + 1) * PAGESZ
  <2> HIDE DEF o
  <2> QED  BY <1>1, PageOfOffset
<1>3. kernel_fpn_from_vaddr(a) = q
  BY DEF kernel_fpn_from_vaddr
<1> HIDE DEF o, q
<1>4. o \in q * PAGESZ .. (q + 1) * PAGESZ - 1
  <2> DEFINE u == q * PAGESZ
             v == (q + 1) * PAGESZ
  <2>1. v \in Int
    BY <1>0, <1>2, SMTT(30)
  <2>2. u \in Nat /\ u <= o /\ o < v
    BY <1>2
  <2> HIDE DEF u, v
  <2>3. o \in u .. v - 1
    BY <1>1, <2>1, <2>2, SMTT(30)
  <2> QED  BY <2>3 DEF u, v
<1>5. ASSUME NEW f \in F, o \in f * PAGESZ .. (f + 1) * PAGESZ - 1
      PROVE  f = q
  <2>0. f \in Nat
    OBVIOUS
  <2> DEFINE u == f * PAGESZ
             v == (f + 1) * PAGESZ
             y == q * PAGESZ
             z == (q + 1) * PAGESZ
  <2>1. u \in Int /\ v \in Int /\ z \in Int
    BY <1>0, <1>2, <2>0, SMTT(30)
  <2>2. y \in Nat /\ y <= o /\ o < z /\ o \in u .. v - 1
    BY <1>2, <1>5
  <2> HIDE DEF u, v, y, z
  <2>3. u < z /\ y < v
    BY <1>1, <2>1, <2>2, SMTT(30)
  <2>4. f * PAGESZ < (q + 1) * PAGESZ /\ q * PAGESZ < (f + 1) * PAGESZ
    BY <2>3 DEF u, v, y, z
  <2>5. f \in Int /\ q \in Int /\ f + 1 \in Int /\ q + 1 \in Int
    BY <1>2, <2>0, SMTT(30)
  <2>6. f < q + 1 /\ q < f + 1
    BY <2>4, <2>5, PageOrder
  <2> QED  BY <2>0, <2>5, <2>6, SMTT(30)
<1>6. o \in Physical(F) <=> q \in F
  BY <1>4, <1>5 DEF Physical
<1> QED  BY <1>3, <1>6 DEF o

\* Of c bytes those from offset o on, n of them, are copied from d bytes.
RunCopied(c, d, o, n, old, new, src) ==
  /\ o + n <= c /\ o + n <= d
  /\ old = [i \in 0 .. c - 1 |-> old[i]] /\ new = [i \in 0 .. c - 1 |-> new[i]]
  /\ src = [i \in 0 .. d - 1 |-> src[i]]
  /\ \A i \in 0 .. c - 1 : i \in o .. o + n - 1 => new[i] = src[i]
  /\ \A i \in 0 .. c - 1 : i \notin o .. o + n - 1 => new[i] = old[i]

\* They are then taken from there.
LEMMA RunTaken ==
  ASSUME NEW c \in Nat, NEW d \in Nat, NEW o \in Nat, NEW n \in Nat \ {0}, NEW old, NEW new, NEW src,
         RunCopied(c, d, o, n, old, new, src)
  PROVE  TakenFrom(old, new, src)
<1>0. /\ o + n <= c /\ o + n <= d
      /\ old = [i \in 0 .. c - 1 |-> old[i]] /\ new = [i \in 0 .. c - 1 |-> new[i]]
      /\ src = [i \in 0 .. d - 1 |-> src[i]]
      /\ \A i \in 0 .. c - 1 : i \in o .. o + n - 1 => new[i] = src[i]
      /\ \A i \in 0 .. c - 1 : i \notin o .. o + n - 1 => new[i] = old[i]
  BY DEF RunCopied
<1> DEFINE hi == o + n - 1
           S == 0 .. c - 1
<1>1. o \in S /\ hi \in S /\ o .. hi \subseteq 0 .. d - 1
  BY <1>0, SMTT(30)
<1>2. DOMAIN old = S /\ DOMAIN src = 0 .. d - 1
  BY <1>0
<1>3. \A i \in S : new[i] = IF i \in o .. hi THEN src[i] ELSE old[i]
  BY <1>0
<1>4. new = [i \in S |-> new[i]]
  BY <1>0
<1> HIDE DEF S, hi
<1>5. new = [i \in S |-> IF i \in o .. hi THEN src[i] ELSE old[i]]
  BY <1>3, <1>4
<1>6. o \in DOMAIN old /\ hi \in DOMAIN old /\ o .. hi \subseteq DOMAIN src
  BY <1>1, <1>2
<1>7. new = [i \in DOMAIN old |-> IF i \in o .. hi THEN src[i] ELSE old[i]]
  BY <1>2, <1>5
<1> QED  BY <1>6, <1>7 DEF TakenFrom

\* Copying into a user region.
LEMMA UserTaken ==
  ASSUME NEW rg \in Nodes, NEW src \in Nodes, NEW o \in Nat, NEW n \in Nat \ {0},
         o + n <= rg.e - rg.s, o + n <= src.e - src.s, NEW m, NEW new, NEW k,
         \A i \in 0 .. rg.e - rg.s - 1 :
           new[rg.s + i] = IF i \in o .. o + n - 1 THEN k[(src.s + i) - KBASE] ELSE m[rg.s + i]
  PROVE  TakenFrom(UserBytes(m, rg), UserBytes(new, rg), KernelBytes(k, src))
<1> DEFINE c == rg.e - rg.s
           d == src.e - src.s
           A == UserBytes(m, rg)
           B == UserBytes(new, rg)
           C == KernelBytes(k, src)
<1>1. c \in Nat /\ d \in Nat
  BY SMTT(30) DEF Nodes
<1>2. \A i \in 0 .. c - 1 : i \in o .. o + n - 1 => i \in 0 .. d - 1
  <2>1. o + n <= d
    OBVIOUS
  <2> HIDE DEF c, d
  <2> QED  BY <1>1, <2>1, SMTT(30)
<1>3. /\ A = [i \in 0 .. c - 1 |-> A[i]] /\ B = [i \in 0 .. c - 1 |-> B[i]] /\ C = [i \in 0 .. d - 1 |-> C[i]]
      /\ \A i \in 0 .. c - 1 : A[i] = m[rg.s + i] /\ B[i] = new[rg.s + i]
      /\ \A i \in 0 .. d - 1 : C[i] = k[(src.s + i) - KBASE]
  BY DEF UserBytes, KernelBytes
<1>4. /\ \A i \in 0 .. c - 1 : i \in o .. o + n - 1 => B[i] = C[i]
      /\ \A i \in 0 .. c - 1 : i \notin o .. o + n - 1 => B[i] = A[i]
  BY <1>2, <1>3
<1>5. o + n <= c /\ o + n <= d
  OBVIOUS
<1> HIDE DEF A, B, C, c, d
<1>6. RunCopied(c, d, o, n, A, B, C)
  BY <1>3, <1>4, <1>5 DEF RunCopied
<1>7. TakenFrom(A, B, C)
  BY <1>1, <1>6, RunTaken
<1> QED  BY <1>7 DEF A, B, C

\* Copying into a kernel object.
LEMMA KernelTaken ==
  ASSUME NEW rg \in Nodes, NEW src \in Nodes, NEW o \in Nat, NEW n \in Nat \ {0},
         o + n <= rg.e - rg.s, o + n <= src.e - src.s, NEW m, NEW new, NEW k,
         \A i \in 0 .. rg.e - rg.s - 1 :
           new[(rg.s + i) - KBASE] = IF i \in o .. o + n - 1 THEN k[src.s + i] ELSE m[(rg.s + i) - KBASE]
  PROVE  TakenFrom(KernelBytes(m, rg), KernelBytes(new, rg), UserBytes(k, src))
<1> DEFINE c == rg.e - rg.s
           d == src.e - src.s
           A == KernelBytes(m, rg)
           B == KernelBytes(new, rg)
           C == UserBytes(k, src)
<1>1. c \in Nat /\ d \in Nat
  BY SMTT(30) DEF Nodes
<1>2. \A i \in 0 .. c - 1 : i \in o .. o + n - 1 => i \in 0 .. d - 1
  <2>1. o + n <= d
    OBVIOUS
  <2> HIDE DEF c, d
  <2> QED  BY <1>1, <2>1, SMTT(30)
<1>3. /\ A = [i \in 0 .. c - 1 |-> A[i]] /\ B = [i \in 0 .. c - 1 |-> B[i]] /\ C = [i \in 0 .. d - 1 |-> C[i]]
      /\ \A i \in 0 .. c - 1 : A[i] = m[(rg.s + i) - KBASE] /\ B[i] = new[(rg.s + i) - KBASE]
      /\ \A i \in 0 .. d - 1 : C[i] = k[src.s + i]
  BY DEF UserBytes, KernelBytes
<1>4. /\ \A i \in 0 .. c - 1 : i \in o .. o + n - 1 => B[i] = C[i]
      /\ \A i \in 0 .. c - 1 : i \notin o .. o + n - 1 => B[i] = A[i]
  BY <1>2, <1>3
<1>5. o + n <= c /\ o + n <= d
  OBVIOUS
<1> HIDE DEF A, B, C, c, d
<1>6. RunCopied(c, d, o, n, A, B, C)
  BY <1>3, <1>4, <1>5 DEF RunCopied
<1>7. TakenFrom(A, B, C)
  BY <1>1, <1>6, RunTaken
<1> QED  BY <1>7 DEF A, B, C

\* Memory has the bytes of the heaps and of the frames mapped for the kernel.
BytesOf(m, S) == m = [x \in S |-> m[x]]

BytesInv ==
  /\ BytesOf(kbyte, Physical(kpt))
  /\ BytesOf(ubyte, Proc)
  /\ \A p \in Proc : BytesOf(ubyte[p], 0 .. sbrk[p] - 1)

\* A byte of a user region and one of a kernel object, as stores leave them.
LEMMA BytesAt ==
  ASSUME BytesInv, NEW p \in Proc
  PROVE  /\ DOMAIN kbyte = Physical(kpt) /\ DOMAIN ubyte = Proc /\ DOMAIN ubyte[p] = 0 .. sbrk[p] - 1
         /\ \A v, d : LET new == [ubyte EXCEPT ![p][v] = d]
                      IN  /\ BytesOf(new, Proc)
                          /\ \A q \in Proc : q # p => new[q] = ubyte[q]
                          /\ new[p] = [ubyte[p] EXCEPT ![v] = d]
                          /\ BytesOf(new[p], 0 .. sbrk[p] - 1)
                          /\ \A a \in 0 .. sbrk[p] - 1 : a # v => new[p][a] = ubyte[p][a]
<1> DEFINE S == 0 .. sbrk[p] - 1
<1>1. kbyte = [x \in Physical(kpt) |-> kbyte[x]] /\ ubyte = [q \in Proc |-> ubyte[q]]
  BY DEF BytesInv, BytesOf
<1>2. ubyte[p] = [x \in S |-> ubyte[p][x]]
  BY DEF BytesInv, BytesOf
<1>3. DOMAIN kbyte = Physical(kpt) /\ DOMAIN ubyte = Proc
  BY <1>1
<1>4. DOMAIN ubyte[p] = S
  BY <1>2
<1> SUFFICES ASSUME NEW v, NEW d
             PROVE  LET new == [ubyte EXCEPT ![p][v] = d]
                    IN  /\ BytesOf(new, Proc)
                        /\ \A q \in Proc : q # p => new[q] = ubyte[q]
                        /\ new[p] = [ubyte[p] EXCEPT ![v] = d]
                        /\ BytesOf(new[p], 0 .. sbrk[p] - 1)
                        /\ \A a \in 0 .. sbrk[p] - 1 : a # v => new[p][a] = ubyte[p][a]
  BY <1>3, <1>4
<1> DEFINE new == [ubyte EXCEPT ![p][v] = d]
           mem == [ubyte[p] EXCEPT ![v] = d]
<1>5. new = [q \in Proc |-> IF q = p THEN mem ELSE ubyte[q]]
  BY <1>3
<1>6. mem = [x \in S |-> IF x = v THEN d ELSE ubyte[p][x]]
  BY <1>4
<1> HIDE DEF new, mem
<1>7. BytesOf(new, Proc) /\ (\A q \in Proc : q # p => new[q] = ubyte[q]) /\ new[p] = mem
  BY <1>5 DEF BytesOf
<1> HIDE DEF S
<1>8. BytesOf(mem, S) /\ \A a \in S : a # v => mem[a] = ubyte[p][a]
  BY <1>6 DEF BytesOf
<1>9. BytesOf(new[p], S) /\ \A a \in S : a # v => new[p][a] = ubyte[p][a]
  BY <1>7, <1>8
<1> QED  BY <1>7, <1>9 DEF new, mem, S

\* What copying into user memory leaves.
LEMMA UserCopied ==
  ASSUME BytesInv, NEW p \in Proc, NEW mem, ubyte' = [ubyte EXCEPT ![p] = mem],
         BytesOf(mem, 0 .. sbrk[p] - 1)
  PROVE  /\ ubyte'[p] = mem /\ \A q \in Proc : q # p => ubyte'[q] = ubyte[q]
         /\ BytesOf(ubyte', Proc)
<1>1. DOMAIN ubyte = Proc
  BY BytesAt
<1>2. ubyte' = [q \in Proc |-> IF q = p THEN mem ELSE ubyte[q]]
  BY <1>1
<1> QED  BY <1>2 DEF BytesOf

\* A step keeps the bytes there are in line with heaps and page table.
LEMMA BytesStep ==
  ASSUME BytesInv, [CopyNext]_copyVars
  PROVE  BytesInv'
<1>1. CASE KernelNext /\ FreshBytes
  <2>1. PICK any \in [Physical(kpt' \ kpt) -> bounds.value] :
          kbyte' = [x \in Physical(kpt') |-> IF x \in DOMAIN any THEN any[x] ELSE kbyte[x]]
    BY <1>1 DEF FreshBytes
  <2>2. PICK more \in [UNION {{p} \X (sbrk[p] .. sbrk'[p] - 1) : p \in Proc} -> bounds.value] :
          ubyte' = [p \in Proc |-> [x \in 0 .. sbrk'[p] - 1 |->
                      IF <<p, x>> \in DOMAIN more THEN more[<<p, x>>] ELSE ubyte[p][x]]]
    BY <1>1 DEF FreshBytes
  <2>3. BytesOf(kbyte', Physical(kpt'))
    BY <2>1 DEF BytesOf
  <2>4. BytesOf(ubyte', Proc)
    BY <2>2 DEF BytesOf
  <2>5. ASSUME NEW p \in Proc
        PROVE  BytesOf(ubyte'[p], 0 .. sbrk'[p] - 1)
    <3>1. ubyte'[p] = [x \in 0 .. sbrk'[p] - 1 |->
                         IF <<p, x>> \in DOMAIN more THEN more[<<p, x>>] ELSE ubyte[p][x]]
      BY <2>2
    <3> QED  BY <3>1 DEF BytesOf
  <2> QED  BY <2>3, <2>4, <2>5 DEF BytesInv, BytesOf, Physical
<1>2. ASSUME NEW p \in Proc, store(p)
      PROVE  BytesInv'
  <2>0. UNCHANGED kernelVars
    BY <1>2 DEF store, libwrite, libkmem_copy_from_user, libkmem_copy_to_user
  <2>1. kpt' = kpt /\ sbrk' = sbrk
    BY <2>0 DEF kernelVars, vars, heapVars, ramVars
  <2>2. Physical(kpt') = Physical(kpt)
    BY <2>1
  <2>3. ASSUME BytesOf(kbyte', Physical(kpt)), BytesOf(ubyte', Proc),
               \A q \in Proc : BytesOf(ubyte'[q], 0 .. sbrk[q] - 1)
        PROVE  BytesInv'
    BY <2>1, <2>3 DEF BytesInv, BytesOf, Physical
  <2>4. ASSUME NEW r \in Symbols, NEW o, NEW d, libwrite(p, r, o, d)
        PROVE  BytesInv'
    <3>1. ubyte' = [ubyte EXCEPT ![p][user_vaddr(p, r, o)] = d] /\ kbyte' = kbyte
      BY <2>4 DEF libwrite
    <3>2. /\ BytesOf(ubyte', Proc) /\ BytesOf(ubyte'[p], 0 .. sbrk[p] - 1)
          /\ \A q \in Proc : q # p => ubyte'[q] = ubyte[q]
      BY <3>1, BytesAt
    <3>3. \A q \in Proc : BytesOf(ubyte'[q], 0 .. sbrk[q] - 1)
      BY <3>2 DEF BytesInv
    <3>4. BytesOf(kbyte', Physical(kpt))
      BY <3>1 DEF BytesInv
    <3> QED  BY <2>3, <3>2, <3>3, <3>4
  <2>5. ASSUME NEW s \in Symbols, NEW r \in Symbols, NEW o, NEW n, libkmem_copy_from_user(p, s, r, o, n)
        PROVE  BytesInv'
    <3> DEFINE first == kernel_translate_vaddr(p, r, o)
    <3>1. /\ kbyte' = [x \in DOMAIN kbyte |-> IF x \in first .. first + n - 1
                                             THEN ubyte[p][user_vaddr(p, s, o + x - first)] ELSE kbyte[x]]
          /\ ubyte' = ubyte
      BY <2>5 DEF libkmem_copy_from_user
    <3>2. DOMAIN kbyte = Physical(kpt)
      BY BytesAt
    <3> HIDE DEF first
    <3>3. BytesOf(kbyte', Physical(kpt))
      BY <3>1, <3>2 DEF BytesOf
    <3>4. BytesOf(ubyte', Proc) /\ \A q \in Proc : BytesOf(ubyte'[q], 0 .. sbrk[q] - 1)
      BY <3>1 DEF BytesInv
    <3> QED  BY <2>3, <3>3, <3>4
  <2>6. ASSUME NEW s \in Symbols, NEW r \in Symbols, NEW o, NEW n, libkmem_copy_to_user(p, s, r, o, n)
        PROVE  BytesInv'
    <3> DEFINE first == user_vaddr(p, r, o)
               mem == [x \in DOMAIN ubyte[p] |-> IF x \in first .. first + n - 1
                         THEN kbyte[kernel_translate_vaddr(p, s, o + x - first)] ELSE ubyte[p][x]]
    <3>1. ubyte' = [ubyte EXCEPT ![p] = mem] /\ kbyte' = kbyte
      BY <2>6 DEF libkmem_copy_to_user
    <3>2. DOMAIN ubyte[p] = 0 .. sbrk[p] - 1
      BY BytesAt
    <3>3. BytesOf(mem, 0 .. sbrk[p] - 1)
      BY <3>2 DEF BytesOf
    <3> HIDE DEF mem
    <3>4. BytesOf(ubyte', Proc) /\ ubyte'[p] = mem /\ \A q \in Proc : q # p => ubyte'[q] = ubyte[q]
      BY <3>1, <3>3, UserCopied
    <3>5. \A q \in Proc : BytesOf(ubyte'[q], 0 .. sbrk[q] - 1)
      BY <3>3, <3>4 DEF BytesInv
    <3>6. BytesOf(kbyte', Physical(kpt))
      BY <3>1 DEF BytesInv
    <3> QED  BY <2>3, <3>4, <3>5, <3>6
  <2> QED  BY <1>2, <2>4, <2>5, <2>6 DEF store
<1>3. CASE UNCHANGED copyVars
  <2>1. UNCHANGED <<kbyte, ubyte, kpt, sbrk>>
    BY <1>3 DEF copyVars, kernelVars, vars, heapVars, ramVars
  <2> QED  BY <2>1 DEF BytesInv, BytesOf, Physical
<1> QED  BY <1>1, <1>2, <1>3 DEF CopyNext

\* The bytes of a kernel object are above KBASE.
LEMMA KernelByte ==
  ASSUME HeapsInv, NEW rg \in Nodes, rg.s >= KBASE, NEW a \in Bytes(rg)
  PROVE  a \in Nat /\ a >= KBASE /\ a - KBASE \in Nat
<1>1. rg.s \in Nat /\ rg.e \in Nat /\ KBASE \in Nat
  BY BoundsOf DEF Nodes
<1>2. a \in rg.s .. rg.e - 1
  BY DEF Bytes
<1> DEFINE s == rg.s
           e == rg.e
<1>3. s \in Nat /\ e \in Nat /\ a \in s .. e - 1 /\ s >= KBASE
  BY <1>1, <1>2
<1> HIDE DEF s, e
<1> QED  BY <1>1, <1>3, SMTT(30)

\* A user region lies in the heap, and has no byte in common with another one.
LEMMA UserPlace ==
  ASSUME HeapsInv, NEW p \in Proc, NEW r \in Symbols, symrgtbl[p][r].s < KBASE
  PROVE  /\ symrgtbl[p][r] \in Nodes
         /\ \A a \in Bytes(symrgtbl[p][r]) : a \in 0 .. sbrk[p] - 1
         /\ \A s \in Symbols : symrgtbl[p][s].s < KBASE /\ s # r =>
              Bytes(symrgtbl[p][r]) \cap Bytes(symrgtbl[p][s]) = {}
<1>1. /\ HeapOK(freerg[p], symrgtbl[p], sbrk[p], lost[p]) /\ symrgtbl[p] \in [Symbols -> Nodes]
      /\ sbrk[p] \in Nat
  BY DEF HeapsInv, RegionsInv
<1>2. \A s \in Symbols : symrgtbl[p][s].s < KBASE => s \in Low(symrgtbl[p])
  BY <1>1 DEF Low
<1>3. symrgtbl[p][r].e <= sbrk[p]
  BY <1>1, <1>2 DEF HeapOK
<1>4. \A s \in Symbols : symrgtbl[p][s].s < KBASE /\ s # r =>
        Bytes(symrgtbl[p][r]) \cap Bytes(symrgtbl[p][s]) = {}
  BY <1>1, <1>2 DEF HeapOK
<1>5. symrgtbl[p][r] \in Nodes
  BY <1>1
<1> DEFINE s == symrgtbl[p][r].s
           e == symrgtbl[p][r].e
           t == sbrk[p]
<1>6. s \in Nat /\ e \in Nat /\ t \in Nat /\ e <= t
  BY <1>1, <1>3, <1>5 DEF Nodes
<1>7. ASSUME NEW a \in Bytes(symrgtbl[p][r]) PROVE a \in 0 .. t - 1
  <2>1. a \in s .. e - 1
    BY DEF Bytes
  <2> HIDE DEF s, e, t
  <2> QED  BY <1>6, <2>1, SMTT(30)
<1> QED  BY <1>4, <1>5, <1>7

\* An object that changes has a byte that does.
LEMMA ChangedByte ==
  ASSUME HeapsInv, Symbols' = Symbols, NEW p \in Proc, NEW r \in Changed(p)
  PROVE  /\ r \in Symbols /\ symrgtbl'[p][r] = symrgtbl[p][r] /\ symrgtbl[p][r] \in Nodes
         /\ symrgtbl[p][r].s < KBASE =>
              \E a \in Bytes(symrgtbl[p][r]) : ubyte'[p][a] # ubyte[p][a]
         /\ ~(symrgtbl[p][r].s < KBASE) =>
              \E a \in Bytes(symrgtbl[p][r]) : kbyte'[a - KBASE] # kbyte[a - KBASE]
<1>1. r \in Symbols /\ symrgtbl'[p][r] = symrgtbl[p][r] /\ Contents(p, r)' # Contents(p, r)
  BY DEF Changed
<1>2. symrgtbl[p][r] \in Nodes
  BY <1>1 DEF HeapsInv, RegionsInv
<1>3. ASSUME symrgtbl[p][r].s < KBASE, \A a \in Bytes(symrgtbl[p][r]) : ubyte'[p][a] = ubyte[p][a]
      PROVE  FALSE
  <2>1. UserBytes(ubyte'[p], symrgtbl[p][r]) = UserBytes(ubyte[p], symrgtbl[p][r])
    BY <1>2, <1>3, UserKept
  <2> QED  BY <1>1, <1>3, <2>1, ContentsAre
<1>4. ASSUME ~(symrgtbl[p][r].s < KBASE),
             \A a \in Bytes(symrgtbl[p][r]) : kbyte'[a - KBASE] = kbyte[a - KBASE]
      PROVE  FALSE
  <2>1. KernelBytes(kbyte', symrgtbl[p][r]) = KernelBytes(kbyte, symrgtbl[p][r])
    BY <1>2, <1>4, KernelKept
  <2> QED  BY <1>1, <1>4, <2>1, ContentsAre
<1> QED  BY <1>1, <1>2, <1>3, <1>4

\* An address that a copy passes through is one of the region's.
LEMMA RunIn ==
  ASSUME NEW rg \in Nodes, NEW o \in Nat, NEW n \in Nat \ {0}, o + (n - 1) < rg.e - rg.s,
         NEW base \in Nat, NEW a \in Nat, NEW first, first = rg.s + (o - base),
         a - base \in first .. first + n - 1
  PROVE  a \in Bytes(rg)
<1> DEFINE s == rg.s
           e == rg.e
<1>1. s \in Nat /\ e \in Nat /\ o + (n - 1) < e - s /\ first = s + (o - base)
  BY DEF Nodes
<1> HIDE DEF s, e
<1>2. a \in s .. e - 1
  BY <1>1, SMTT(30)
<1> QED  BY <1>2 DEF s, e, Bytes

\* Memory starts out with no bytes, as the heaps and the kernel's page table do.
LEMMA InitBytes ==
  ASSUME CopyInit
  PROVE  BytesInv
<1>1. kpt = {} /\ sbrk = [p \in Proc |-> 0]
  BY DEF CopyInit, KernelInit, Init
<1>2. kbyte = << >> /\ ubyte = [p \in Proc |-> << >>]
  BY DEF CopyInit
<1>3. ASSUME NEW S, S = {} PROVE BytesOf(<< >>, S)
  BY <1>3, SMTT(30) DEF BytesOf
<1>4. Physical(kpt) = {}
  BY <1>1 DEF Physical
<1>5. \A p \in Proc : 0 .. sbrk[p] - 1 = {}
  <2>1. 0 .. 0 - 1 = {}
    BY SMTT(30)
  <2> QED  BY <1>1, <2>1
<1>6. BytesOf(ubyte, Proc)
  BY <1>2 DEF BytesOf
<1>7. \A p \in Proc : BytesOf(ubyte[p], 0 .. sbrk[p] - 1)
  BY <1>2, <1>3, <1>5
<1> QED  BY <1>2, <1>3, <1>4, <1>6, <1>7 DEF BytesInv
============================================================================
