----------------------------- MODULE VmRegions -----------------------------
(***************************************************************************)
(* The regions of each process's heap: __alloc() and __free() of libmem.c, *)
(* and the limits kept by inc_vma_limit().  Only the CPU that runs a       *)
(* process touches its regions, so an instruction is one step.             *)
(***************************************************************************)
EXTENDS RegionList, FiniteSets

CONSTANTS
  Proc,      \* processes
  Rgid,      \* symbols: indices of symrgtbl
  PAGESZ,    \* bytes in a page
  KBASE,     \* KMEM_VADDR_BASE, above every user address
  Bounds     \* bound: the instances checked; each says how many processes and
             \* symbols there are, and how large RAM, heap and requests may be

ASSUME RegionsAssumption ==
  /\ PAGESZ \in Nat \ {0} /\ KBASE \in Nat
  /\ \A b \in Bounds :
       /\ b.procs \in Nat /\ b.symbols \in Nat
       /\ b.size \in Nat /\ b.heap \in Nat /\ b.heap < KBASE

VARIABLES
  bounds,    \* the instance, chosen at the start
  alive,     \* processes that have been loaded and have not finished
  freerg,    \* vm_freerg_list of each process
  symrgtbl,  \* the region of each symbol of each process
  sbrk,      \* end of each heap
  lost       \* history: bytes of regions whose symbol was given another one

heapVars == <<freerg, symrgtbl, sbrk, lost>>
vars == <<bounds, alive, heapVars>>

Symbols == DOMAIN symrgtbl[CHOOSE p \in Proc : TRUE]

\* Rounded down.
PAGE_ALIGNSZ_down(sz) == (sz \div PAGESZ) * PAGESZ

PAGE_ALIGNSZ(sz) == ((sz + PAGESZ - 1) \div PAGESZ) * PAGESZ
----------------------------------------------------------------------------
\* The symbols whose region, if any, is in the user's half of the addresses.
HeapSymbols(p) == {r \in Symbols : symrgtbl[p][r].s < KBASE}

NoSymbols == [r \in Symbols |-> Empty]

\* init_mm() for every process.
Init ==
  /\ bounds \in Bounds
  /\ alive \in {P \in SUBSET Proc : Cardinality(P) = bounds.procs}
  /\ freerg = [p \in Proc |-> enlist_vm_rg_node(<< >>, Region(0, 0))]
  /\ symrgtbl \in {[p \in Proc |-> [r \in R |-> Empty]] :
                     R \in {S \in SUBSET Rgid : Cardinality(S) = bounds.symbols}}
  /\ sbrk = [p \in Proc |-> 0]
  /\ lost = [p \in Proc |-> {}]

\* The symbol gets the region found in list, whatever it had before.
Assign(p, r, list, size) ==
  /\ HasFit(list, size)
  /\ symrgtbl' = [symrgtbl EXCEPT ![p][r] = Taken(list, size)]
  /\ freerg' = [freerg EXCEPT ![p] = Remaining(list, size)]
  /\ lost' = [lost EXCEPT ![p] = @ \cup Bytes(symrgtbl[p][r])]

\* __alloc(), fast path.
alloc(p, r, size) ==
  /\ p \in alive
  /\ Assign(p, r, freerg[p], size)
  /\ UNCHANGED <<bounds, alive, sbrk>>

\* The list after inc_vma_limit() has mapped the pages for size bytes.
Grown(p, size) ==
  enlist_vm_rg_node(freerg[p], Region(sbrk[p], sbrk[p] + PAGE_ALIGNSZ(size)))

\* The free list has nothing for size bytes and inc_vma_limit() moves the limit.
\* Bound: two heaps together have bounds.heap bytes.
Grow(p, size) ==
  /\ p \in alive
  /\ ~HasFit(freerg[p], size)
  /\ \A q \in Proc : sbrk[p] + PAGE_ALIGNSZ(size) + (IF q = p THEN 0 ELSE sbrk[q]) <= bounds.heap
  /\ sbrk' = [sbrk EXCEPT ![p] = @ + PAGE_ALIGNSZ(size)]
  /\ UNCHANGED <<bounds, alive>>

\* __alloc(), slow path: the heap grows and the region is looked up again.
alloc_grow(p, r, size) ==
  /\ Grow(p, size)
  /\ Assign(p, r, Grown(p, size), size)

\* The symbol keeps the region that has been freed.
free_keep(p, r) ==
  /\ p \in alive
  /\ symrgtbl[p][r] # Empty
  /\ freerg' = [freerg EXCEPT ![p] = enlist_vm_rg_node(@, symrgtbl[p][r])]
  /\ UNCHANGED <<bounds, alive, symrgtbl, sbrk, lost>>

\* __free()
free(p, r) ==
  /\ p \in alive
  /\ symrgtbl[p][r] # Empty
  /\ symrgtbl' = [symrgtbl EXCEPT ![p][r] = Empty]
  /\ freerg' = [freerg EXCEPT ![p] = enlist_vm_rg_node(@, symrgtbl[p][r])]
  /\ UNCHANGED <<bounds, alive, sbrk, lost>>

Next ==
  \E p \in Proc, r \in Symbols :
    \/ free(p, r)
    \/ \E size \in 1 .. bounds.size : alloc(p, r, size) \/ alloc_grow(p, r, size)

\* RAM and swap are full: vm_map_ram() maps nothing and leaves the region it was
\* given uninitialized, inc_vma_limit() does not notice, moves the limit and
\* puts that region in the list.  The lookup may find it or fail.
alloc_out_of_memory(p, r, size) ==
  /\ Grow(p, size)
  /\ \E s, e \in 0 .. bounds.heap :
       LET list == enlist_vm_rg_node(freerg[p], Region(s, e))
       IN  IF HasFit(list, size) THEN Assign(p, r, list, size)
           ELSE freerg' = [freerg EXCEPT ![p] = list] /\ UNCHANGED <<symrgtbl, lost>>

OutOfMemorySpec ==
  Init /\ [][\/ Next
             \/ \E p \in Proc, r \in Symbols, size \in 1 .. bounds.size :
                  alloc_out_of_memory(p, r, size)]_vars
----------------------------------------------------------------------------
\* Type invariant.
RegionsTypeOK ==
  /\ bounds \in Bounds
  /\ alive \subseteq Proc
  /\ \A p \in Proc :
       /\ \A i \in DOMAIN freerg[p] : 0 <= freerg[p][i].s /\ freerg[p][i].s <= freerg[p][i].e
       /\ \A r \in Symbols : 0 <= symrgtbl[p][r].s /\ symrgtbl[p][r].s <= symrgtbl[p][r].e
       /\ sbrk[p] \in 0 .. bounds.heap
       /\ sbrk[p] % PAGESZ = 0
       /\ lost[p] \subseteq 0 .. bounds.heap - 1

\* Two symbols that ALLOC set never have bytes in common, and every such region
\* lies in the heap of its process.
RegionsAreDisjoint ==
  \A p \in alive :
    /\ \A r \in HeapSymbols(p) : symrgtbl[p][r].e <= sbrk[p]
    /\ \A q, r \in HeapSymbols(p) :
         q # r => Bytes(symrgtbl[p][q]) \cap Bytes(symrgtbl[p][r]) = {}

\* Splitting, merging, cloning and growing lose no byte of the heap and free none
\* that is in use: a byte is in a symbol's region, or in exactly one node of the
\* free list, or went with a symbol that was given another region.  The nodes that
\* are not empty are in order, so first fit means lowest address.
EveryByteOnce ==
  /\ RegionsTypeOK
  /\ \A p \in alive :
       LET list == freerg[p] IN
       /\ (UNION {Bytes(symrgtbl[p][r]) : r \in HeapSymbols(p)}) \cup lost[p]
            = (0 .. sbrk[p] - 1) \ UNION {Bytes(list[i]) : i \in DOMAIN list}
       /\ \A i, j \in DOMAIN list : i # j => Bytes(list[i]) \cap Bytes(list[j]) = {}
       /\ \A i \in DOMAIN list : Bytes(list[i]) \subseteq 0 .. sbrk[p] - 1
       /\ \A i, j \in DOMAIN list :
            i < j /\ Bytes(list[i]) # {} /\ Bytes(list[j]) # {} => list[i].s < list[j].s

\* Once the heap has grown for a request, the second lookup finds a region for it.
GrowthServesTheRequest ==
  \A p \in alive : \A size \in 1 .. bounds.size : HasFit(Grown(p, size), size)
============================================================================
