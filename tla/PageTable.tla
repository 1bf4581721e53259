----------------------------- MODULE PageTable -----------------------------
(***************************************************************************)
(* The multi-level page tables of mm64.c: an address is cut into one index *)
(* per level, tables are allocated when a walk first needs them, and       *)
(* freed when the process ends.  The code has 5 levels of 9 bits, 12 bits  *)
(* of offset and 7 bits above the canonical sign bit; here these are       *)
(* constants.  A table is known by its number, and malloc() returns the    *)
(* lowest number not in use.                                               *)
(*                                                                         *)
(* Whole ranges are stored in one step.  In the tables of a process only   *)
(* that process creates any: a process that evicts its pages finds the     *)
(* tables in place, and its store and those of the range go to different   *)
(* entries or come one after the other.  The tables of the kernel are      *)
(* written by kmalloc() and its like under mmvm_lock.  The system call     *)
(* MAP_OP also takes a kernel address, and then walks the kernel's tables  *)
(* without the lock: that call is left out, so that nothing here is said   *)
(* of two walks that create the same table at once.                        *)
(***************************************************************************)
EXTENDS Integers, FiniteSets

CONSTANTS
  Proc,       \* processes
  Levels,     \* levels of the tree
  LevelBits,  \* bits of the index of a level
  OffBits,    \* bits of the offset in a page
  TopBits,    \* bits above the sign bit
  Entry,      \* values stored for user pages
  NTables,    \* tables that fit in memory
  MaxRange    \* bound: pages of a range

ASSUME PageTableAssumption ==
  /\ Levels \in Nat \ {0, 1} /\ LevelBits \in Nat \ {0}
  /\ OffBits \in Nat /\ TopBits \in Nat /\ NTables \in Nat /\ MaxRange \in Nat
  /\ Entry \subseteq Nat
  /\ IsFiniteSet(Proc) /\ Cardinality(Proc) < NTables

VARIABLES
  tables,     \* contents of the tables: 0, the number of a table, or an entry
  alloc,      \* tables in memory
  pgd,        \* root table of each process, 0 once it has ended
  krnl_pgd    \* root table of kernel space

vars == <<tables, alloc, pgd, krnl_pgd>>

\* BIT_ULL(nr), which is 1 << nr.
BIT_ULL[nr \in Nat] == IF nr = 0 THEN 1 ELSE 2 * BIT_ULL[nr - 1]

Table == 1 .. NTables
LEVEL_ENTRIES == BIT_ULL[LevelBits]
Slots == 0 .. LEVEL_ENTRIES - 1
EmptyTable == [i \in Slots |-> 0]

SignBit == OffBits + Levels * LevelBits - 1
PAGESZ  == BIT_ULL[OffBits]
Width   == SignBit + 1 + TopBits
Address == 0 .. BIT_ULL[Width] - 1

\* The number of pages of a range is an int, and an address is much wider: a range
\* does not go round the address space.
ASSUME MaxRangeAssumption == MaxRange * PAGESZ <= BIT_ULL[Width]

\* The bytes below one slot of level l, where 1 is the root: PGD, P4D, PUD, PMD, PT.
Covers == [l \in 1 .. Levels |-> BIT_ULL[OffBits + (Levels - l) * LevelBits]]

\* The index of level l.
Index(addr, l) == (addr \div Covers[l]) % LEVEL_ENTRIES

\* The lower half of the addresses below the top bits.
UserSize == BIT_ULL[SignBit]

is_kernel_address(addr) == (addr \div UserSize) % 2 = 1

\* get_pd_from_address() accepts the address.
Canonical(addr) ==
  addr \div BIT_ULL[SignBit + 1] = IF is_kernel_address(addr) THEN BIT_ULL[TopBits] - 1 ELSE 0

\* The two ends may lie on different sides.
validate_page_range_cross(addr, pgnum) ==
  LET last == (addr + (pgnum - 1) * PAGESZ) % BIT_ULL[Width]
  IN  /\ addr % PAGESZ = 0
      /\ \/ pgnum = 0
         \/ last >= addr /\ Canonical(addr) /\ Canonical(last)

validate_page_range(addr, pgnum) ==
  LET last == (addr + (pgnum - 1) * PAGESZ) % BIT_ULL[Width]
  IN  /\ addr % PAGESZ = 0
      /\ \/ pgnum = 0
         \/ /\ last >= addr
            /\ Canonical(addr) /\ Canonical(last)
            /\ is_kernel_address(addr) = is_kernel_address(last)
----------------------------------------------------------------------------
(* Walks.  A walk carries the tables, those in memory and where it is.     *)

Fresh(allocated) ==
  CHOOSE t \in Table \ allocated : \A u \in Table \ allocated : t <= u

\* One level down through slot i: to an existing table, to a new one, or nowhere
\* if there is no memory for it.
Down(w, i) ==
  IF w.at = 0 THEN w
  ELSE IF w.tables[w.at][i] # 0 THEN [w EXCEPT !.at = w.tables[w.at][i]]
  ELSE IF w.alloc = Table THEN [w EXCEPT !.at = 0]
  ELSE LET t == Fresh(w.alloc)
       IN  [tables |-> [w.tables EXCEPT ![w.at][i] = t, ![t] = EmptyTable],
            alloc |-> w.alloc \cup {t}, at |-> t]

\* With creation, the walk ends at the table of the last level.
walk_pte(root, tbls, allocated, addr) ==
  LET walk[l \in 1 .. Levels] ==
        IF l = 1 THEN [tables |-> tbls, alloc |-> allocated, at |-> root]
        ELSE Down(walk[l - 1], Index(addr, l - 1))
  IN  walk[Levels]

Root(p, addr) == IF is_kernel_address(addr) THEN krnl_pgd ELSE pgd[p]

\* For kernel addresses it does not matter which process asks.
AnyProc == CHOOSE p \in Proc : TRUE

\* A walk that creates nothing: the table on each level, and last the entry; 0 where
\* a table is missing.
Look(tbl, root, addr) ==
  LET at[l \in 1 .. Levels + 1] ==
        IF l = 1 THEN root
        ELSE LET t == at[l - 1] IN IF t = 0 THEN 0 ELSE tbl[t][Index(addr, l - 1)]
  IN  at

pte_get_entry(p, addr) == Look(tables, Root(p, addr), addr)[Levels + 1]

\* pte_set_entry(), pte_set_fpn() and pte_set_swap(): a walk that creates what
\* is missing, and the store.  If memory runs out on the way, the tables created
\* so far stay.
Store(p, w, addr, v) ==
  LET x == walk_pte(Root(p, addr), w.tables, w.alloc, addr)
  IN  IF x.at = 0 THEN x ELSE [x EXCEPT !.tables[x.at][Index(addr, Levels)] = v]

\* The entries of pgnum pages from addr on, val[g] for page g, up to the first that
\* fails.
StoreRange(p, addr, pgnum, val) ==
  LET upto[n \in 0 .. pgnum] ==
        IF n = 0 THEN [tables |-> tables, alloc |-> alloc, at |-> Root(p, addr)]
        ELSE IF upto[n - 1].at = 0 THEN upto[n - 1]
        ELSE LET a == addr + (n - 1) * PAGESZ IN Store(p, upto[n - 1], a, val[a \div PAGESZ])
  IN  upto[pgnum]

\* The tables tbl with the entries of the range 0, where there is a table for them.
Erased(tbl, addr, pgnum) ==
  LET Hit(t, i) == \E n \in 0 .. pgnum - 1 :
        LET a == addr + n * PAGESZ
        IN  t = Look(tbl, krnl_pgd, a)[Levels] /\ i = Index(a, Levels)
  IN  [t \in Table |-> [i \in Slots |-> IF Hit(t, i) THEN 0 ELSE tbl[t][i]]]
----------------------------------------------------------------------------
\* init_mm() of every process: its root, and the root of the kernel.
Init ==
  LET root == CHOOSE f \in [Proc -> 1 .. Cardinality(Proc)] :
                \A p, q \in Proc : p # q => f[p] # f[q]
  IN  /\ tables = [t \in Table |-> EmptyTable]
      /\ pgd = root
      /\ krnl_pgd = Cardinality(Proc) + 1
      /\ alloc = 1 .. Cardinality(Proc) + 1

\* The entry of a user page, or vmap_pgd_memset() for a range of them.
map_range(p, addr, pgnum, v) ==
  /\ pgd[p] # 0
  /\ pgnum > 0
  /\ ~is_kernel_address(addr)
  /\ validate_page_range(addr, pgnum)
  /\ LET w == StoreRange(p, addr, pgnum, [g \in Nat |-> v])
     IN  tables' = w.tables /\ alloc' = w.alloc
  /\ UNCHANGED <<pgd, krnl_pgd>>

\* The entry of a kernel page: present, and the frame, which is the number of the page
\* less that of the first.
kernel_pte == [g \in Nat |-> g + 1]

\* Some process calls for a range of kernel pages.
KernelRange(addr, pgnum) ==
  /\ \E p \in Proc : pgd[p] # 0
  /\ pgnum > 0
  /\ is_kernel_address(addr)
  /\ validate_page_range(addr, pgnum)

\* The pages of frames that were free, and so not mapped, are mapped: all of them, or
\* none if memory runs out on the way.  The tables that were created stay.
kernel_alloc_contiguous_region(addr, pgnum) ==
  /\ KernelRange(addr, pgnum)
  /\ \A n \in 0 .. pgnum - 1 : pte_get_entry(AnyProc, addr + n * PAGESZ) = 0
  /\ LET w == StoreRange(AnyProc, addr, pgnum, kernel_pte)
     IN  /\ tables' = IF w.at = 0 THEN Erased(w.tables, addr, pgnum) ELSE w.tables
         /\ alloc' = w.alloc
  /\ UNCHANGED <<pgd, krnl_pgd>>

\* At the end of a process the pages of an object may have gone with its pool.
kernel_release_contiguous_region(addr, pgnum) ==
  /\ KernelRange(addr, pgnum)
  /\ tables' = Erased(tables, addr, pgnum)
  /\ UNCHANGED <<alloc, pgd, krnl_pgd>>

\* The tables one level below those in S.
Below(S) == {tables[t][i] : t \in S, i \in Slots} \ {0}

\* The tables of level l and above in the tree from root.
TreeTo(root, l) ==
  LET tree[k \in 1 .. l] == IF k = 1 THEN {root} ELSE tree[k - 1] \cup Below(tree[k - 1])
  IN  tree[l]

\* Only the root is freed.
free_mm_root(p) ==
  /\ pgd[p] # 0
  /\ alloc' = alloc \ {pgd[p]}
  /\ tables' = [tables EXCEPT ![pgd[p]] = EmptyTable]
  /\ pgd' = [pgd EXCEPT ![p] = 0]
  /\ UNCHANGED krnl_pgd

\* free_mm_tables_recursive() frees the tree of the process.
free_mm(p) ==
  /\ pgd[p] # 0
  /\ alloc' = alloc \ TreeTo(pgd[p], Levels)
  /\ tables' = [t \in Table |-> IF t \in TreeTo(pgd[p], Levels) THEN EmptyTable ELSE tables[t]]
  /\ pgd' = [pgd EXCEPT ![p] = 0]
  /\ UNCHANGED krnl_pgd

\* The ranges that pass the check: address and number of pages.
Ranges == {r \in Address \X (1 .. MaxRange) : validate_page_range(r[1], r[2])}

Next ==
  \/ \E p \in Proc : free_mm(p) \/ \E r \in Ranges, v \in Entry : map_range(p, r[1], r[2], v)
  \/ \E r \in Ranges : \/ kernel_alloc_contiguous_region(r[1], r[2])
                       \/ kernel_release_contiguous_region(r[1], r[2])

Spec == Init /\ [][Next]_vars
----------------------------------------------------------------------------
\* Type invariant.
PageTableTypeOK ==
  /\ tables \in [Table -> [Slots -> Nat]]
  /\ alloc \subseteq Table
  /\ pgd \in [Proc -> alloc \cup {0}]
  /\ krnl_pgd \in alloc

Roots == ({pgd[p] : p \in Proc} \cup {krnl_pgd}) \ {0}

\* Tables above the last level, whose slots hold numbers of tables.
Inner(root) == TreeTo(root, Levels - 1)

\* Every table in memory is in the tree of exactly one root and has one parent
\* there: no process sees another's entries, nothing is leaked at an exit, and
\* nothing is freed twice.
TablesFormTrees ==
  /\ PageTableTypeOK
  /\ UNION {TreeTo(r, Levels) : r \in Roots} = alloc
  /\ \A r, s \in Roots : r # s => TreeTo(r, Levels) \cap TreeTo(s, Levels) = {}
  /\ \A r \in Roots :
       Cardinality({x \in Inner(r) \X Slots : tables[x[1]][x[2]] # 0})
         = Cardinality(TreeTo(r, Levels)) - 1

PagesOf(S) == {a \div PAGESZ : a \in {x \in S : Canonical(x)}}
UserPages   == PagesOf({a \in Address : ~is_kernel_address(a)})
KernelPages == PagesOf({a \in Address : is_kernel_address(a)})

\* The flat map the trees stand for.
Map == INSTANCE PageMap WITH
         UserPage <- UserPages, KernelPage <- KernelPages, KernelEntry <- kernel_pte,
         user <- [p \in Proc |-> [g \in UserPages |-> pte_get_entry(p, g * PAGESZ)]],
         kern <- [g \in KernelPages |-> pte_get_entry(AnyProc, g * PAGESZ)]

\* The trees implement one entry per page: a walk finds the last value stored for
\* its page, whatever tables have been created or freed in between.  A range that
\* passes the check of its two ends has all its pages on one side of the address
\* space.
ImplementsPageMap == Map!Spec
============================================================================
