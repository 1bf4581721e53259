------------------------------ MODULE CopyMem ------------------------------
(***************************************************************************)
(* The bytes of user and kernel memory, and the instructions that store    *)
(* into them: WRITE, COPY_FROM_USER and COPY_TO_USER of libmem.c.  The     *)
(* bytes of a user page are kept here by virtual address, as module Paging *)
(* keeps them on one CPU; a page that cannot be brought into RAM makes the *)
(* access fail.  A copy holds mmvm_lock throughout, so it is one step.     *)
(***************************************************************************)
EXTENDS KernelMem

ASSUME CopyAssumption == \A b \in Bounds : b.copy \in Nat /\ b.value # {}

VARIABLES
  ubyte,     \* the bytes of each process's heap
  kbyte      \* the bytes of RAM in the frames mapped for the kernel

copyVars == <<kernelVars, ubyte, kbyte>>

\* The addresses in RAM of the bytes of frames.
Physical(frames) == UNION {f * PAGESZ .. (f + 1) * PAGESZ - 1 : f \in frames}
----------------------------------------------------------------------------
(* Access to one byte.                                                     *)

\* The checks of __read_user_mem() and __write_user_mem(), and of __write().
user_access(p, r, offset) ==
  /\ symrgtbl[p][r].e > symrgtbl[p][r].s
  /\ offset < symrgtbl[p][r].e - symrgtbl[p][r].s
  /\ symrgtbl[p][r].s < KBASE

user_vaddr(p, r, offset) == symrgtbl[p][r].s + offset

\* The byte after the last one is accepted.
kernel_region_valid_end(p, r, offset) ==
  /\ symrgtbl[p][r].e > symrgtbl[p][r].s
  /\ offset <= symrgtbl[p][r].e - symrgtbl[p][r].s

kernel_region_valid(p, r, offset) ==
  /\ symrgtbl[p][r].e > symrgtbl[p][r].s
  /\ offset <= symrgtbl[p][r].e - symrgtbl[p][r].s - 1

\* kernel_translate_vaddr() finds the page in the kernel's table; a user address
\* has no entry there.
kernel_access(p, r, offset) ==
  /\ kernel_region_valid(p, r, offset)
  /\ kernel_fpn_from_vaddr(symrgtbl[p][r].s + offset) \in kpt

kernel_translate_vaddr(p, r, offset) == symrgtbl[p][r].s + offset - KBASE
----------------------------------------------------------------------------
CopyInit ==
  /\ KernelInit
  /\ ubyte = [p \in Proc |-> << >>]
  /\ kbyte = << >>

\* Memory that a process is given holds whatever was there.
FreshBytes ==
  /\ \E any \in [Physical(kpt' \ kpt) -> bounds.value] :
       kbyte' = [x \in Physical(kpt') |-> IF x \in DOMAIN any THEN any[x] ELSE kbyte[x]]
  /\ \E any \in [UNION {{p} \X (sbrk[p] .. sbrk'[p] - 1) : p \in Proc} -> bounds.value] :
       ubyte' = [p \in Proc |-> [x \in 0 .. sbrk'[p] - 1 |->
                                   IF <<p, x>> \in DOMAIN any THEN any[<<p, x>>] ELSE ubyte[p][x]]]

\* libwrite()
libwrite(p, r, offset, data) ==
  /\ p \in alive
  /\ user_access(p, r, offset)
  /\ ubyte' = [ubyte EXCEPT ![p][user_vaddr(p, r, offset)] = data]
  /\ UNCHANGED <<kernelVars, kbyte>>

\* libkmem_copy_from_user(): the loop ends after size bytes, or at the first byte
\* that one of the two accesses refuses or whose page cannot be brought into RAM;
\* n bytes have been moved by then.
libkmem_copy_from_user(p, source, destination, offset, n) ==
  LET first == kernel_translate_vaddr(p, destination, offset)
  IN  /\ p \in alive
      /\ \A idx \in 0 .. n - 1 : user_access(p, source, offset + idx)
                              /\ kernel_access(p, destination, offset + idx)
      /\ kbyte' = [x \in DOMAIN kbyte |->
                     IF x \in first .. first + n - 1
                     THEN ubyte[p][user_vaddr(p, source, offset + x - first)]
                     ELSE kbyte[x]]
      /\ UNCHANGED <<kernelVars, ubyte>>

\* libkmem_copy_to_user(), in the same way.
libkmem_copy_to_user(p, source, destination, offset, n) ==
  LET first == user_vaddr(p, destination, offset)
  IN  /\ p \in alive
      /\ \A idx \in 0 .. n - 1 : kernel_access(p, source, offset + idx)
                              /\ user_access(p, destination, offset + idx)
      /\ ubyte' = [ubyte EXCEPT ![p] =
                     [x \in DOMAIN @ |->
                        IF x \in first .. first + n - 1
                        THEN kbyte[kernel_translate_vaddr(p, source, offset + x - first)]
                        ELSE @[x]]]
      /\ UNCHANGED <<kernelVars, kbyte>>

store(p) ==
  \E r \in Symbols, offset \in 0 .. bounds.copy - 1 :
    \/ \E data \in bounds.value : libwrite(p, r, offset, data)
    \/ \E source \in Symbols, n \in 1 .. bounds.copy :
         \/ libkmem_copy_from_user(p, source, r, offset, n)
         \/ libkmem_copy_to_user(p, source, r, offset, n)

CopyNext == (KernelNext /\ FreshBytes) \/ \E p \in Proc : store(p)

CopySpec == CopyInit /\ [][CopyNext]_copyVars
----------------------------------------------------------------------------
\* The bytes of the region of a symbol.
Contents(p, r) ==
  [i \in 0 .. symrgtbl[p][r].e - symrgtbl[p][r].s - 1 |->
     IF r \in HeapSymbols(p) THEN ubyte[p][user_vaddr(p, r, i)]
     ELSE kbyte[kernel_translate_vaddr(p, r, i)]]

\* new is old with the bytes from lo to hi taken from src.
TakenFrom(old, new, src) ==
  \E lo, hi \in DOMAIN old :
    /\ lo .. hi \subseteq DOMAIN src
    /\ new = [i \in DOMAIN old |-> IF i \in lo .. hi THEN src[i] ELSE old[i]]

\* The symbols of p that keep their region in a step but not its bytes.
Changed(p) == {r \in Symbols : symrgtbl'[p][r] = symrgtbl[p][r] /\ Contents(p, r)' # Contents(p, r)}

\* The second object taken from a pool overlaps the first and what lies behind the
\* pool: see SlotRegionsAreDisjoint.
OneSlotEach == \A p \in alive : \A pool \in Pools(p) : pool.slot_count - pool.free_count <= 1

\* A step changes the bytes of one object at most, of whatever process.  A kernel
\* object changes only by taking one run of bytes, each at its own offset, from a
\* user region of its process, also when the copy fails half way; a user region
\* changes by taking such a run from a kernel object of its process or by one byte
\* that is written.  No pool has given out a second slot, as in the programs of
\* input/proc, and none has its frames taken away.
StoresAreExact ==
  [][~strayed /\ OneSlotEach =>
       \A p \in alive \cap alive' : \A r \in Changed(p) :
         /\ \A q \in alive \cap alive' : \A s \in Changed(q) : q = p /\ s = r
         /\ \/ \E s \in Symbols : /\ s \in HeapSymbols(p) <=> r \notin HeapSymbols(p)
                                  /\ TakenFrom(Contents(p, r), Contents(p, r)', Contents(p, s))
            \/ /\ r \in HeapSymbols(p)
               /\ \E i \in DOMAIN Contents(p, r) : \A j \in DOMAIN Contents(p, r) \ {i} :
                    Contents(p, r)'[j] = Contents(p, r)[j]]_copyVars
============================================================================
